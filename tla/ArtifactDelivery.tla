-------------------------- MODULE ArtifactDelivery --------------------------
(***************************************************************************)
(* Explicit saves: save_chat_artifact and save_chat_note of                *)
(* app/mcp_server.py record an artifact, the endpoints of app/main.py list *)
(* it, hand out its bytes and take the verdict, deliverArtifacts and       *)
(* writeArtifact of connector/main.go write it into the destination        *)
(* folder, and cleanup_expired of app/catalog.py ends what is too old.     *)
(*                                                                         *)
(* Several connectors may be paired with a vault; each has a folder of its *)
(* own, where the user may act too.  A step of a connector is what it does *)
(* between two requests or two file operations.                            *)
(***************************************************************************)
EXTENDS Naturals, FiniteSets

CONSTANTS
    Artifacts,   \* rows of "pending_artifacts" that may be asked for
    Notes,       \* those with artifact_kind 'note'
    Connectors,  \* paired devices
    NameOf,      \* file_name
    ContentOf,   \* the bytes
    NoteOf,      \* note_text; for a note that is its content too
    NoText,      \* no note_text
    None,        \* no file, no artifact
    Partial,     \* a file that was not written to its end
    Foreign,     \* a file of the user
    Tries,       \* candidate names tried, 100
    Listed,      \* artifacts in one listing, 20
    MaxTroubles  \* bound on deaths, refused operations and the user's edits

Paths == {NameOf[a] : a \in Artifacts} \cup (Artifacts \X (1..(Tries - 1)))
Contents == {ContentOf[a] : a \in Artifacts}
Texts == {NoteOf[a] : a \in Artifacts} \ {NoText}

ASSUME DeliveryAssumption ==
    /\ IsFiniteSet(Artifacts) /\ None \notin Artifacts
    /\ Notes \subseteq Artifacts
    /\ {None, Partial, Foreign} \cap (Contents \cup Texts) = {}
    /\ None # Partial /\ None # Foreign /\ Partial # Foreign
    /\ {Tries, Listed} \subseteq Nat \ {0}
    /\ MaxTroubles \in Nat

VARIABLES
    \* the server
    state,     \* state of the row; "none" before there is one
    born,      \* created_at: the rows' order, 0 before there is one
    bytes,     \* are the staged bytes on disk?
    old,       \* is expires_at past?
    staging,   \* downloads that have no row yet
    closing,   \* saves whose staged bytes artifact_complete has still to remove
    \* the connectors
    todo,      \* what is left of the listing
    item,      \* the artifact that is being delivered
    step,      \* where writeArtifact stands
    try,       \* the number of the candidate name
    fresh,     \* was the target created by this attempt?
    disk,      \* what is at each path of the folder
    sidecar,   \* what is in the .note.md beside it
    \* history
    lost,      \* staged bytes that a failed save or completion left behind
    places,    \* where deliveries of each artifact succeeded
    spoilt,    \* where a removal was refused or a death struck
    misread,   \* where a file could not be read and compared
    edits, faults

serverVars == <<state, born, bytes, old, staging, closing, lost>>
runVars == <<todo, item, step, try, fresh>>
folderVars == <<disk, sidecar>>
pastVars == <<places, spoilt, misread>>
deliveryVars == <<serverVars, runVars, folderVars, pastVars, edits, faults>>

\* A process dies, or the file system or the database refuses an operation.
Fault ==
    /\ edits + faults < MaxTroubles
    /\ faults' = faults + 1

DInit ==
    /\ state = [a \in Artifacts |-> "none"]
    /\ born = [a \in Artifacts |-> 0]
    /\ bytes = [a \in Artifacts |-> FALSE]
    /\ old = [a \in Artifacts |-> FALSE]
    /\ staging = {} /\ closing = {} /\ lost = {}
    /\ todo = [c \in Connectors |-> {}]
    /\ item = [c \in Connectors |-> None]
    /\ step = [c \in Connectors |-> "idle"]
    /\ try = [c \in Connectors |-> 0]
    /\ fresh = [c \in Connectors |-> FALSE]
    /\ disk = [c \in Connectors |-> [p \in Paths |-> None]]
    /\ sidecar = [c \in Connectors |-> [p \in Paths |-> None]]
    /\ places = [c \in Connectors |-> [a \in Artifacts |-> {}]]
    /\ spoilt = [c \in Connectors |-> {}]
    /\ misread = [c \in Connectors |-> {}]
    /\ edits = 0 /\ faults = 0

-----------------------------------------------------------------------------
(* The server                                                              *)

\* save_chat_artifact has downloaded the file; every call has a path of its own.
Stage(a) ==
    /\ a \notin Notes
    /\ state[a] = "none" /\ ~bytes[a]
    /\ bytes' = [bytes EXCEPT ![a] = TRUE]
    /\ staging' = staging \cup {a}
    /\ UNCHANGED <<state, born, old, closing, lost, runVars, folderVars, pastVars, edits, faults>>

\* The row of save_chat_artifact or save_chat_note.
Save(a) ==
    /\ state[a] = "none"
    /\ a \in Notes \cup staging
    /\ state' = [state EXCEPT ![a] = "pending"]
    /\ born' = [born EXCEPT ![a] = 1 + Cardinality({b \in Artifacts : state[b] # "none"})]
    /\ staging' = staging \ {a}
    /\ UNCHANGED <<bytes, old, closing, lost, runVars, folderVars, pastVars, edits, faults>>

\* Nothing removes the download when hashing it or the INSERT raises.
SaveFails(a) ==
    /\ a \in staging
    /\ Fault
    /\ staging' = staging \ {a}
    /\ lost' = lost \cup {a}
    /\ UNCHANGED <<state, born, bytes, old, closing, runVars, folderVars, pastVars, edits>>

\* What the listing and the content endpoint ask for.
Available(a) == state[a] = "pending" /\ ~old[a]

MutantAccepts(a) == state[a] # "none"

\* artifact_complete answers 404 for every other row.
Accepts(a) == state[a] = "pending"

MutantRemoveStaged(a) ==
    /\ a \in closing
    /\ closing' = closing \ {a}
    /\ UNCHANGED <<state, born, bytes, old, staging, lost>>
    /\ UNCHANGED <<runVars, folderVars, pastVars, edits, faults>>

\* artifact_complete after its commit.
RemoveStaged(a) ==
    /\ a \in closing
    /\ closing' = closing \ {a}
    /\ bytes' = [bytes EXCEPT ![a] = FALSE]
    /\ UNCHANGED <<state, born, old, staging, lost>>
    /\ UNCHANGED <<runVars, folderVars, pastVars, edits, faults>>

\* The removal raises, and no later call comes to it: the row is saved.
RemoveFails(a) ==
    /\ a \in closing
    /\ Fault
    /\ closing' = closing \ {a}
    /\ lost' = lost \cup {a}
    /\ UNCHANGED <<state, born, bytes, old, staging, runVars, folderVars, pastVars, edits>>

ApiDies ==
    /\ staging \cup closing # {}
    /\ Fault
    /\ staging' = {} /\ closing' = {}
    /\ lost' = lost \cup staging \cup closing
    /\ UNCHANGED <<state, born, bytes, old, runVars, folderVars, pastVars, edits>>

Expire(a) ==
    /\ Available(a)
    /\ old' = [old EXCEPT ![a] = TRUE]
    /\ UNCHANGED <<state, born, bytes, staging, closing, lost>>
    /\ UNCHANGED <<runVars, folderVars, pastVars, edits, faults>>

Overdue == {a \in Artifacts : old[a] /\ state[a] = "pending"}

\* cleanup_expired removes the files inside its transaction: an exception or a death
\* before the commit leaves the rows pending.
Cleanup ==
    /\ Overdue # {}
    /\ bytes' = [a \in Artifacts |-> bytes[a] /\ a \notin Overdue]
    /\ state' = [a \in Artifacts |-> IF a \in Overdue THEN "expired" ELSE state[a]]
    /\ UNCHANGED <<born, old, staging, closing, lost, runVars, folderVars, pastVars, edits, faults>>

CleanupFails ==
    /\ Fault
    /\ \E gone \in SUBSET Overdue \ {{}} :
          bytes' = [a \in Artifacts |-> bytes[a] /\ a \notin gone]
    /\ UNCHANGED <<state, born, old, staging, closing, lost, runVars, folderVars, pastVars, edits>>

-----------------------------------------------------------------------------
(* The connector                                                           *)

At(c, s) == step[c] = s

\* artifactCandidate: the plain name, then names with the artifact's identity.
Candidate(a, n) == IF n = 0 THEN NameOf[a] ELSE <<a, n>>
Target(c) == Candidate(item[c], try[c])

Put(c, content) == disk' = [disk EXCEPT ![c][Target(c)] = content]
PutNote(c, text) == sidecar' = [sidecar EXCEPT ![c][Target(c)] = text]
GoTo(c, s) == step' = [step EXCEPT ![c] = s]

\* os.Remove is refused, or a death strikes: something may be left at the target.
Spoil(c) ==
    /\ Fault
    /\ spoilt' = [spoilt EXCEPT ![c] = @ \cup {Target(c)}]

\* fileMatches answers no as well when the file cannot be read.
Misread(c) ==
    /\ Fault
    /\ misread' = [misread EXCEPT ![c] = @ \cup {Target(c)}]

MutantTakeUp(c, left) ==
    /\ todo' = [todo EXCEPT ![c] = left]
    /\ item' = [item EXCEPT ![c] = IF left = {} THEN None ELSE CHOOSE a \in left : TRUE]
    /\ GoTo(c, "try")

\* The next turn of the loop of deliverArtifacts takes the oldest that is left.
TakeUp(c, left) ==
    /\ todo' = [todo EXCEPT ![c] = left]
    /\ \/ /\ left = {}
          /\ item' = [item EXCEPT ![c] = None]
          /\ GoTo(c, "idle")
       \/ \E a \in left :
             /\ \A b \in left : born[a] <= born[b]
             /\ item' = [item EXCEPT ![c] = a]
             /\ GoTo(c, "try")

\* GET /api/connector/artifacts: the oldest rows that are available.
Listing ==
    LET Older(a) == {b \in Artifacts : Available(b) /\ born[b] < born[a]}
    IN  {a \in Artifacts : Available(a) /\ Cardinality(Older(a)) < Listed}

List(c) ==
    /\ At(c, "idle")
    /\ Listing # {}
    /\ TakeUp(c, Listing)
    /\ UNCHANGED <<serverVars, try, fresh, folderVars, pastVars, edits, faults>>

NextName(c) ==
    /\ try' = [try EXCEPT ![c] = @ + 1]
    /\ GoTo(c, "try")

MutantRecognised(c) == FALSE

\* fileMatches.
Recognised(c) == disk[c][Target(c)] = ContentOf[item[c]]

FindDelivered(c) ==
    /\ At(c, "try") /\ try[c] < Tries
    /\ Recognised(c)
    /\ fresh' = [fresh EXCEPT ![c] = FALSE]
    /\ GoTo(c, "annotate")
    /\ UNCHANGED <<serverVars, todo, item, try, folderVars, pastVars, edits, faults>>

SkipTaken(c) ==
    /\ At(c, "try") /\ try[c] < Tries
    /\ disk[c][Target(c)] # None
    /\ \/ ~Recognised(c) /\ UNCHANGED <<misread, faults>>
       \/ Recognised(c) /\ Misread(c)
    /\ NextName(c)
    /\ UNCHANGED <<serverVars, todo, item, fresh, folderVars, places, spoilt, edits>>

\* The exclusive creation of the target.
CreateTarget(c) ==
    /\ At(c, "try") /\ try[c] < Tries
    /\ disk[c][Target(c)] = None
    /\ Put(c, Partial)
    /\ fresh' = [fresh EXCEPT ![c] = TRUE]
    /\ GoTo(c, "fetch")
    /\ UNCHANGED <<serverVars, todo, item, try, sidecar, pastVars, edits, faults>>

\* All names are taken, or the folder cannot be written.
CannotCreate(c) ==
    /\ At(c, "try")
    /\ GoTo(c, "bad")
    /\ UNCHANGED <<serverVars, todo, item, try, fresh, folderVars, pastVars, edits, faults>>

\* The content of a file comes from the server, that of a note with the listing;
\* size and hash are compared before the attempt goes on.
Fetchable(a) == a \in Notes \/ (Available(a) /\ bytes[a])

Fetch(c) ==
    /\ At(c, "fetch")
    /\ Fetchable(item[c])
    /\ Put(c, ContentOf[item[c]])
    /\ GoTo(c, "annotate")
    /\ UNCHANGED <<serverVars, todo, item, try, fresh, sidecar, pastVars, edits, faults>>

MutantFetchFails(c) ==
    /\ At(c, "fetch")
    /\ GoTo(c, "bad")
    /\ UNCHANGED <<serverVars, todo, item, try, fresh, folderVars, pastVars, edits, faults>>

\* The target is removed.  When that is refused it stays as far as it was written,
\* which may be to the end if only its Close failed.
FetchFails(c) ==
    /\ At(c, "fetch")
    /\ \/ Put(c, None) /\ UNCHANGED <<spoilt, faults>>
       \/ Spoil(c) /\ UNCHANGED disk
       \/ Spoil(c) /\ Fetchable(item[c]) /\ Put(c, ContentOf[item[c]])
    /\ GoTo(c, "bad")
    /\ UNCHANGED <<serverVars, todo, item, try, fresh, sidecar, places, misread, edits>>

\* A new target gets a note beside it if the artifact is a file, an old one
\* whenever the artifact has a text.
WantsNote(c) ==
    /\ NoteOf[item[c]] # NoText
    /\ fresh[c] => item[c] \notin Notes

MutantNoted(c) == WantsNote(c) => sidecar[c][Target(c)] # None

Noted(c) == WantsNote(c) => sidecar[c][Target(c)] = NoteOf[item[c]]

Succeed(c) ==
    /\ places' = [places EXCEPT ![c][item[c]] = @ \cup {Target(c)}]
    /\ GoTo(c, "good")
    /\ UNCHANGED <<serverVars, todo, item, try, fresh, disk, spoilt, misread, edits, faults>>

\* ensureAnnotation has nothing to do, or creates the note.
NothingToNote(c) ==
    /\ At(c, "annotate")
    /\ Noted(c)
    /\ Succeed(c)
    /\ UNCHANGED sidecar

WriteNote(c) ==
    /\ At(c, "annotate")
    /\ ~Noted(c) /\ sidecar[c][Target(c)] = None
    /\ PutNote(c, NoteOf[item[c]])
    /\ Succeed(c)

MutantTakeBack(c) == Put(c, None) /\ UNCHANGED <<spoilt, faults>>

\* A new target is removed, if os.Remove is not refused.
TakeBack(c) ==
    \/ ~fresh[c] /\ UNCHANGED <<disk, spoilt, faults>>
    \/ fresh[c] /\ Put(c, None) /\ UNCHANGED <<spoilt, faults>>
    \/ fresh[c] /\ UNCHANGED disk /\ Spoil(c)

\* Another note is in its place, or its own cannot be read: the next name is tried.
NoteTaken(c) ==
    /\ At(c, "annotate")
    /\ sidecar[c][Target(c)] # None
    /\ \/ ~Noted(c) /\ TakeBack(c) /\ UNCHANGED misread
       \/ /\ WantsNote(c) /\ Noted(c) /\ Misread(c)
          /\ \/ (IF fresh[c] THEN Put(c, None) ELSE UNCHANGED disk) /\ UNCHANGED spoilt
             \/ fresh[c] /\ UNCHANGED disk /\ Spoil(c)
    /\ NextName(c)
    /\ UNCHANGED <<serverVars, todo, item, fresh, sidecar, places, edits>>

\* The note cannot be created, or cannot be written and is removed, which may be
\* refused too.
NoteFails(c) ==
    /\ At(c, "annotate")
    /\ ~Noted(c)
    /\ \/ TakeBack(c) /\ UNCHANGED sidecar
       \/ /\ sidecar[c][Target(c)] = None
          /\ Spoil(c)
          /\ \E left \in {Partial, NoteOf[item[c]]} : PutNote(c, left)
          /\ UNCHANGED disk \/ (fresh[c] /\ Put(c, None))
    /\ GoTo(c, "bad")
    /\ UNCHANGED <<serverVars, todo, item, try, fresh, places, misread, edits>>

\* POST .../complete, which may not arrive; the reply is not looked at.
Report(c, arrives) ==
    LET a == item[c]
        saved == At(c, "good") /\ arrives /\ Accepts(a)
    IN  /\ At(c, "good") \/ At(c, "bad")
        /\ state' = IF saved THEN [state EXCEPT ![a] = "saved"] ELSE state
        /\ closing' = IF saved /\ a \notin Notes THEN closing \cup {a} ELSE closing
        /\ TakeUp(c, todo[c] \ {a})
        /\ try' = [try EXCEPT ![c] = 0]
        /\ fresh' = [fresh EXCEPT ![c] = FALSE]
        /\ UNCHANGED <<born, bytes, old, staging, lost, folderVars, pastVars, edits, faults>>

\* The connector dies, possibly in the middle of writing a note.
ConnectorDies(c) ==
    /\ ~At(c, "idle")
    /\ Fault
    /\ TakeUp(c, {})
    /\ try' = [try EXCEPT ![c] = 0]
    /\ fresh' = [fresh EXCEPT ![c] = FALSE]
    /\ spoilt' = IF At(c, "fetch") \/ At(c, "annotate")
                 THEN [spoilt EXCEPT ![c] = @ \cup {Target(c)}] ELSE spoilt
    /\ \/ UNCHANGED sidecar
       \/ /\ At(c, "annotate") /\ ~Noted(c) /\ sidecar[c][Target(c)] = None
          /\ PutNote(c, Partial)
    /\ UNCHANGED <<serverVars, disk, places, misread, edits>>

WorksOn(c, p) == ~At(c, "idle") /\ p = Target(c)

\* The user puts a file of his own in the folder, or takes one away; a file that
\* the connector is just working on is left alone.
UserEdits(c, p) ==
    /\ edits + faults < MaxTroubles
    /\ edits' = edits + 1
    /\ ~WorksOn(c, p)
    /\ \/ /\ disk' = [disk EXCEPT ![c][p] = IF @ = None THEN Foreign ELSE None]
          /\ UNCHANGED sidecar
       \/ /\ sidecar' = [sidecar EXCEPT ![c][p] = IF @ = None THEN Foreign ELSE None]
          /\ UNCHANGED disk
    /\ UNCHANGED <<serverVars, runVars, pastVars, faults>>

-----------------------------------------------------------------------------
Server ==
    \/ \E a \in Artifacts :
          \/ Stage(a) \/ Save(a) \/ SaveFails(a)
          \/ RemoveStaged(a) \/ RemoveFails(a)
          \/ Expire(a)
    \/ ApiDies
    \/ Cleanup
    \/ CleanupFails

WriteArtifact(c) ==
    \/ FindDelivered(c)
    \/ SkipTaken(c)
    \/ CreateTarget(c)
    \/ CannotCreate(c)
    \/ Fetch(c)
    \/ FetchFails(c)
    \/ NothingToNote(c)
    \/ WriteNote(c)
    \/ NoteTaken(c)
    \/ NoteFails(c)

Deliver(c) ==
    \/ List(c)
    \/ WriteArtifact(c)
    \/ \E arrives \in BOOLEAN : Report(c, arrives)
    \/ ConnectorDies(c)

DNext ==
    \/ Server
    \/ \E c \in Connectors : Deliver(c)
    \/ \E c \in Connectors, p \in Paths : UserEdits(c, p)

DSpec == DInit /\ [][DNext]_deliveryVars

-----------------------------------------------------------------------------
(* Properties                                                              *)

\* Every variable keeps to its type, and a connector at work has an item.
DTypeOK ==
    /\ state \in [Artifacts -> {"none", "pending", "saved", "expired"}]
    /\ born \in [Artifacts -> Nat]
    /\ bytes \in [Artifacts -> BOOLEAN]
    /\ old \in [Artifacts -> BOOLEAN]
    /\ staging \subseteq Artifacts /\ closing \subseteq Artifacts /\ lost \subseteq Artifacts
    /\ todo \in [Connectors -> SUBSET Artifacts]
    /\ item \in [Connectors -> Artifacts \cup {None}]
    /\ step \in [Connectors -> {"idle", "try", "fetch", "annotate", "good", "bad"}]
    /\ try \in [Connectors -> 0..Tries]
    /\ fresh \in [Connectors -> BOOLEAN]
    /\ disk \in [Connectors -> [Paths -> Contents \cup {None, Partial, Foreign}]]
    /\ sidecar \in [Connectors -> [Paths -> Texts \cup {None, Partial, Foreign}]]
    /\ places \in [Connectors -> [Artifacts -> SUBSET Paths]]
    /\ spoilt \in [Connectors -> SUBSET Paths]
    /\ misread \in [Connectors -> SUBSET Paths]
    /\ edits \in Nat /\ faults \in Nat
    /\ \A c \in Connectors : step[c] # "idle" => item[c] \in todo[c]

\* The delivery keeps the promise of SavePromise: an artifact is saved only after
\* a connector had its exact bytes in the folder, and once it is saved or expired
\* no late report, lost reply, second device or cleanup changes that.
Promise == INSTANCE SavePromise WITH
    stage <- state,
    written <- {a \in Artifacts : \E c \in Connectors : places[c][a] # {}}

KeepsPromise == Promise!PSpec

\* A file is staged as long as it can be asked for, and stays only for a save that
\* is pending or a call that is under way, unless a call failed or died when it had
\* to record or to remove it (docs/RESTART.md: "Temporary source bytes remain
\* bounded").
BytesFollowState ==
    \A a \in Artifacts \ Notes :
        /\ Available(a) => bytes[a]
        /\ bytes[a] => state[a] = "pending" \/ a \in staging \cup closing \cup lost

\* No file with a note's text for its bytes brings an annotation of its own, which
\* the connector would find beside the note and take for that of another artifact.
Unrivalled(a) ==
    a \in Notes =>
        \A b \in Artifacts : ContentOf[b] = ContentOf[a] => NoteOf[b] \in {NoText, NoteOf[a]}

\* A delivery repeated because its report was lost or the connector died ends where
\* the first one ended (docs/WINDOWS-CONNECTOR.md: "retries recognize an already
\* verified delivery"), as long as the user leaves the folder alone and the file can
\* be read.  A note is delivered twice only if another's annotation stands beside
\* it, or what a failed removal or a death has left.
SavedInOnePlace ==
    edits = 0 =>
        \A c \in Connectors, a \in Artifacts :
            /\ Unrivalled(a)
            /\ places[c][a] \cap misread[c] = {}
            /\ a \in Notes => places[c][a] \cap spoilt[c] = {}
            => \A p, q \in places[c][a] : p = q

\* An attempt that failed leaves nothing to be indexed, neither half a file nor one
\* whose annotation was refused nor an annotation by itself, but where a removal
\* was refused or the connector died.
OnlyDeliveriesStay ==
    edits = 0 =>
        \A c \in Connectors : \A p \in Paths \ spoilt[c] :
            /\ disk[c][p] # None =>
                  \/ \E a \in Artifacts : p \in places[c][a]
                  \/ (At(c, "fetch") \/ At(c, "annotate")) /\ fresh[c] /\ p = Target(c)
            /\ sidecar[c][p] # None =>
                  \E a \in Artifacts : p \in places[c][a] /\ sidecar[c][p] = NoteOf[a]

\* The connector removes or replaces no file but the one its current attempt
\* has created (connector/main_test.go: "existing file was overwritten or
\* deleted"), whoever has put it there.
OthersFilesStay ==
    [][\A c \in Connectors, p \in Paths :
          disk[c][p] # None /\ disk'[c][p] # disk[c][p] /\ edits' = edits =>
              fresh[c] /\ WorksOn(c, p)]_deliveryVars

\* What was once delivered stays whole (docs/WINDOWS-CONNECTOR.md: the delivery
\* "writes binary bytes first, verifies size and SHA-256, and stores any annotation
\* in a separate .note.md sidecar"): its bytes and its own annotation are at the
\* place, whatever is delivered, repeated, refused or interrupted afterwards.
DeliveredWhole ==
    edits = 0 =>
        \A c \in Connectors, a \in Artifacts : \A p \in places[c][a] :
            /\ disk[c][p] = ContentOf[a]
            /\ a \notin Notes /\ NoteOf[a] # NoText => sidecar[c][p] = NoteOf[a]

\* A note has no second copy of itself beside it (docs/WINDOWS-CONNECTOR.md:
\* the connector "stores any annotation in a separate .note.md sidecar").
NotesStandAlone ==
    \A c \in Connectors, a \in Notes : \A n \in 0..Tries :
        Candidate(a, n) \in places[c][a] => sidecar[c][Candidate(a, n)] # NoteOf[a]
=============================================================================
