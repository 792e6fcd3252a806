---------------------------- MODULE ConnectorScan ----------------------------
(***************************************************************************)
(* One source folder with several files: scan of connector/main.go, its    *)
(* state file, and the documents that /api/seen, /api/ingest and           *)
(* /api/reconcile keep.  The connector's daemon and its "scan" command may *)
(* scan at the same time; they share the state file.                       *)
(*                                                                         *)
(* A content stands for size, modification time and SHA-256.  What becomes *)
(* of an accepted upload is the matter of Revisions.                       *)
(***************************************************************************)
EXTENDS Naturals

CONSTANTS
    NPaths,        \* paths are 1..NPaths, in the order of filepath.Walk
    Contents, None,
    Scanners,      \* the processes that may scan
    Confirmations, \* reconcile_delete_confirmations, 2
    MaxIds,        \* bound on the document IDs; rows differ in their paths, so NPaths
                   \* and one for each scan is all that is ever in use
    MaxEdits, MaxScans, MaxTroubles \* bounds on edits, scans, and failures or deaths

ASSUME ScanAssumption ==
    /\ None \notin Contents
    /\ {NPaths, Confirmations, MaxIds, MaxEdits, MaxScans, MaxTroubles} \subseteq Nat
    /\ Confirmations > 0

Paths == 1..NPaths
Ids == 1..MaxIds

VARIABLES
    disk,       \* the content at a path, or None
    saved,      \* the connector's state file: an entry for a path
    docs,       \* table "documents", a row for an ID
    scan,       \* the running scans
    edits, scans, troubles,
    touched,    \* history: paths whose file was ever changed or removed
    uploaded,   \* history: the contents accepted for an ID
    overlapped, \* history: have two scans run at the same time?
    shared      \* history: documents that two paths of a saved state shared

scanVars == <<disk, saved, docs, scan, edits, scans, troubles, touched, uploaded, overlapped,
              shared>>
tallies == <<edits, scans, touched, overlapped>>

NoEntry == [id |-> 0, content |-> None]
NoDoc == [path |-> 0, content |-> None, missing |-> 0, deleted |-> FALSE]
NoState == [p \in Paths |-> NoEntry]

\* A scan: where it is, the state it read and the one it will save, the paths it has
\* still to visit, whether nothing went wrong, the document and content it is sending,
\* the scans that began before it, the documents whose last_seen_generation is below
\* its generation, and the edits there were when it listed the folder.
NoScan == [step |-> "no", old |-> NoState, next |-> NoState, todo |-> {}, complete |-> FALSE,
           id |-> 0, content |-> None, after |-> {}, behind |-> {}, since |-> 0]

SInit ==
    /\ disk \in [Paths -> Contents \cup {None}]
    /\ saved = NoState
    /\ docs = [d \in Ids |-> NoDoc]
    /\ scan = [s \in Scanners |-> NoScan]
    /\ edits = 0 /\ scans = 0 /\ troubles = 0
    /\ touched = {} /\ uploaded = [d \in Ids |-> {}] /\ overlapped = FALSE
    /\ shared = {}

Trouble == troubles < MaxTroubles /\ troubles' = troubles + 1
NoTrouble == UNCHANGED troubles

\* The user changes, removes, copies or restores a file.
Edit ==
    /\ edits < MaxEdits
    /\ edits' = edits + 1
    /\ \E p \in Paths, c \in Contents \cup {None} :
          /\ c # disk[p]
          /\ disk' = [disk EXCEPT ![p] = c]
          /\ touched' = touched \cup {p}
    /\ UNCHANGED <<saved, docs, scan, scans, troubles, uploaded, overlapped, shared>>

-----------------------------------------------------------------------------
(* The server                                                              *)

Exists(d) == docs[d] # NoDoc

\* UNIQUE (vault_id, source_id, relative_path), deleted documents included.
PathTaken(d, p) == \E e \in Ids \ {d} : docs[e].path = p

MutantReport(d, p, row) == [row EXCEPT !.path = p]
Report(d, p, row) == [row EXCEPT !.path = p, !.missing = 0]

\* Scan s's report of document d sets last_seen_generation to the scan's.
Mark(s, d) ==
    [t \in Scanners |->
        [scan[t] EXCEPT !.behind = IF s \in scan[t].after THEN @ \cup {d} ELSE @ \ {d}]]

\* POST /api/seen
SeenAccepted(d, p) == Exists(d) /\ ~PathTaken(d, p)
Seen(d, p) ==
    /\ docs' = [docs EXCEPT ![d] = Report(d, p, @)]
    /\ UNCHANGED uploaded

\* POST /api/ingest, the upsert of register_upload
IngestAccepted(d, p) == ~PathTaken(d, p)
Ingest(d, p, c) ==
    /\ docs' = [docs EXCEPT ![d] = [Report(d, p, @) EXCEPT !.content = c, !.deleted = FALSE]]
    /\ uploaded' = [uploaded EXCEPT ![d] = @ \cup {c}]

MutantUnreported(s) == {d \in Ids : Exists(d) /\ d \in scan[s].behind}
Unreported(s) == {d \in Ids : Exists(d) /\ ~docs[d].deleted /\ d \in scan[s].behind}

\* POST /api/reconcile
Confirm(s) ==
    docs' = [d \in Ids |->
               IF scan[s].complete /\ d \in Unreported(s)
               THEN [docs[d] EXCEPT !.missing = @ + 1,
                                    !.deleted = (docs[d].missing + 1 >= Confirmations)]
               ELSE docs[d]]

-----------------------------------------------------------------------------
(* scan                                                                    *)

At(s, step) == scan[s].step = step
Here(s) == CHOOSE p \in scan[s].todo : \A q \in scan[s].todo : p <= q
Known(s) == scan[s].old[Here(s)]

\* loadState, the generation, and the names in the folder.
Start(s) ==
    /\ At(s, "no") /\ scans < MaxScans
    /\ scans' = scans + 1
    /\ overlapped' = (overlapped \/ \E t \in Scanners : ~At(t, "no"))
    /\ scan' = [t \in Scanners |->
                  IF t = s
                  THEN [NoScan EXCEPT !.step = "visit", !.old = saved, !.complete = TRUE,
                                      !.todo = {p \in Paths : disk[p] # None},
                                      !.after = {u \in Scanners : ~At(u, "no")},
                                      !.behind = Ids, !.since = edits]
                  ELSE [scan[t] EXCEPT !.after = @ \ {s}]]
    /\ UNCHANGED <<disk, saved, docs, edits, troubles, touched, uploaded, shared>>

\* On to the next file, with this file's entry in the next state or without one.
Entered(e, s, r) == [r EXCEPT !.next[Here(s)] = e, !.todo = @ \ {Here(s)}, !.step = "visit",
                              !.id = 0, !.content = None]
Failed(r) == [r EXCEPT !.complete = FALSE]

\* What becomes of an entry whose upload failed.
MutantUnsent(s) == [id |-> scan[s].id, content |-> scan[s].content]
Unsent(s) == NoEntry

\* The file has gone since the listing, or cannot be hashed.
Skip(s) ==
    /\ At(s, "visit") /\ scan[s].todo # {}
    /\ IF disk[Here(s)] = None THEN NoTrouble ELSE Trouble
    /\ scan' = [scan EXCEPT ![s] = Failed(Entered(NoEntry, s, @))]
    /\ UNCHANGED <<disk, saved, docs, uploaded, shared, tallies>>

\* An unchanged file has the size and modification time of its entry.
MutantUnchanged(s) == Known(s) # NoEntry
Unchanged(s) == Known(s) # NoEntry /\ Known(s).content = disk[Here(s)]

Sending(d, s, r) == [r EXCEPT !.step = "send", !.id = d, !.content = disk[Here(s)]]

\* seen: the content may be wanted again for the previews, unless the document is
\* deleted.  After an error the file is uploaded.
ReportSeen(s) ==
    LET d == Known(s).id
    IN  /\ At(s, "visit") /\ scan[s].todo # {}
        /\ disk[Here(s)] # None /\ Unchanged(s)
        /\ \/ /\ SeenAccepted(d, Here(s))
              /\ Seen(d, Here(s))
              /\ \/ NoTrouble /\ scan' = [Mark(s, d) EXCEPT ![s] = Entered(Known(s), s, @)]
                 \/ /\ NoTrouble /\ ~docs[d].deleted
                    /\ scan' = [Mark(s, d) EXCEPT ![s] = Sending(d, s, @)]
                 \/ Trouble /\ scan' = [Mark(s, d) EXCEPT ![s] = Failed(Sending(d, s, @))]
           \/ /\ IF SeenAccepted(d, Here(s)) THEN Trouble ELSE NoTrouble
              /\ scan' = [scan EXCEPT ![s] = Failed(Sending(d, s, @))]
              /\ UNCHANGED <<docs, uploaded>>
        /\ UNCHANGED <<disk, saved, shared, tallies>>

\* A file at a new path takes over the document of a path with the same content that
\* this scan has not come to, or no longer finds; otherwise a new one.
Candidates(s) ==
    {scan[s].old[q].id : q \in {q \in Paths : /\ scan[s].old[q].content = disk[Here(s)]
                                             /\ scan[s].next[q] = NoEntry}}

Unused(d) == ~Exists(d) /\ \A t \in Scanners : scan[t].id # d
Fresh == {d \in Ids : Unused(d) /\ \A e \in Ids : Unused(e) => d <= e}

Choose(s) ==
    /\ At(s, "visit") /\ scan[s].todo # {}
    /\ disk[Here(s)] # None /\ ~Unchanged(s)
    /\ \E d \in IF Known(s) # NoEntry THEN {Known(s).id}
                ELSE IF Candidates(s) # {} THEN Candidates(s) ELSE Fresh :
          scan' = [scan EXCEPT ![s] = Sending(d, s, @)]
    /\ UNCHANGED <<disk, saved, docs, uploaded, troubles, shared, tallies>>

\* upload: accepted, with or without the reply arriving, or not accepted.
Send(s) ==
    LET d == scan[s].id
        c == scan[s].content
        p == Here(s)
    IN  /\ At(s, "send")
        /\ \/ /\ IngestAccepted(d, p)
              /\ Ingest(d, p, c)
              /\ \/ /\ NoTrouble
                    /\ scan' = [Mark(s, d) EXCEPT ![s] = Entered([id |-> d, content |-> c], s, @)]
                 \/ /\ Trouble
                    /\ scan' = [Mark(s, d) EXCEPT ![s] = Failed(Entered(Unsent(s), s, @))]
           \/ /\ IF IngestAccepted(d, p) /\ disk[p] = c THEN Trouble ELSE NoTrouble
              /\ scan' = [scan EXCEPT ![s] = Failed(Entered(Unsent(s), s, @))]
              /\ UNCHANGED <<docs, uploaded>>
        /\ UNCHANGED <<disk, saved, shared, tallies>>

\* The source's deletions are confirmed; without the reply they may have been.
Reconcile(s) ==
    /\ At(s, "visit") /\ scan[s].todo = {}
    /\ \/ /\ Confirm(s) /\ NoTrouble
          /\ scan' = [scan EXCEPT ![s].step = "save"]
       \/ /\ Confirm(s) \/ UNCHANGED docs
          /\ Trouble
          /\ scan' = [scan EXCEPT ![s].step = "save", ![s].complete = FALSE]
    /\ UNCHANGED <<disk, saved, uploaded, shared, tallies>>

\* What an incomplete scan did not find keeps its entry.
MutantForgotten(s) == {}
Forgotten(s) == IF scan[s].complete THEN {p \in Paths : scan[s].next[p] = NoEntry} ELSE {}

Save(s) ==
    /\ At(s, "save")
    /\ saved' = [p \in Paths |-> IF p \in Forgotten(s) \/ scan[s].next[p] # NoEntry
                                 THEN scan[s].next[p] ELSE scan[s].old[p]]
    /\ shared' = shared \cup {d \in Ids : \E p, q \in Paths :
                                p # q /\ saved'[p].id = d /\ saved'[q].id = d}
    /\ scan' = [scan EXCEPT ![s] = NoScan]
    /\ UNCHANGED <<disk, docs, uploaded, troubles, tallies>>

\* A death of the process; one during the write leaves a file that loadState ignores.
Die(s) ==
    /\ ~At(s, "no")
    /\ Trouble
    /\ scan' = [scan EXCEPT ![s] = NoScan]
    /\ \/ UNCHANGED saved
       \/ At(s, "save") /\ saved' = NoState
    /\ UNCHANGED <<disk, docs, uploaded, shared, tallies>>

SNext ==
    \/ Edit
    \/ \E s \in Scanners :
          Start(s) \/ Skip(s) \/ ReportSeen(s) \/ Choose(s) \/ Send(s) \/ Reconcile(s)
          \/ Save(s) \/ Die(s)

SSpec == SInit /\ [][SNext]_scanVars

-----------------------------------------------------------------------------
(* Properties                                                              *)

Entries == [id : Ids, content : Contents] \cup {NoEntry}

DocType == [path : Paths, content : Contents, missing : 0..Confirmations, deleted : BOOLEAN]
ScanType == [step : {"no", "visit", "send", "save"}, old : [Paths -> Entries],
             next : [Paths -> Entries], todo : SUBSET Paths, complete : BOOLEAN,
             id : Ids \cup {0}, content : Contents \cup {None},
             after : SUBSET Scanners, behind : SUBSET Ids, since : 0..MaxEdits]

\* Every variable keeps to its type; a deleted document is not counted any more.
STypeOK ==
    /\ disk \in [Paths -> Contents \cup {None}]
    /\ saved \in [Paths -> Entries]
    /\ docs \in [Ids -> DocType \cup {NoDoc}]
    /\ scan \in [Scanners -> ScanType]
    /\ edits \in 0..MaxEdits /\ scans \in 0..MaxScans /\ troubles \in 0..MaxTroubles
    /\ touched \in SUBSET Paths /\ uploaded \in [Ids -> SUBSET Contents]
    /\ overlapped \in BOOLEAN /\ shared \in SUBSET Ids

\* No reconciliation deletes the document of a file that was never touched, whatever scans
\* fail, overlap or report late, as long as no more of them run at once than it takes to
\* delete (docs/DECISIONS.md: "Two complete reconciliations are the deletion threshold;
\* incomplete/offline scans never count").  Only when scans have overlapped can one that is
\* deleted already be found at such a path: /api/seen takes it there and leaves it deleted.
PresentIsKept ==
    [][\A d \in Ids : docs'[d].deleted /\ docs'[d].path \notin touched' =>
          overlapped /\ docs[d].deleted]_scanVars

\* The state file never takes for delivered what the server has not accepted for that
\* document: such a file would be reported as seen and never sent.
SavedIsAccepted ==
    \A p \in Paths : saved[p] # NoEntry => saved[p].content \in uploaded[saved[p].id]

Ends(s) == scan[s].complete /\ ~overlapped /\ Save(s)

\* After a scan without errors the documents that are not missing are those of the
\* state file.
LiveIsFound ==
    [][\A s \in Scanners : Ends(s) =>
         {d \in Ids : Exists(d) /\ ~docs[d].deleted /\ docs[d].missing = 0} =
             {saved'[p].id : p \in Paths} \ ({0} \cup {d \in Ids : docs[d].deleted})]_scanVars

\* ... and if nothing ever failed, each file that lies where it lay when the scan began
\* is the content of a document of its own, or the document is one that two paths once
\* shared: the walk gives a copy that comes before its original the original's ID.
FoundIsKnown ==
    [][\A s \in Scanners : Ends(s) /\ troubles = 0 /\ scan[s].since = edits =>
         \A p \in Paths : disk[p] # None =>
             /\ saved'[p].content = disk[p]
             /\ LET d == saved'[p].id
                IN  \/ docs[d] = [path |-> p, content |-> disk[p], missing |-> 0, deleted |-> FALSE]
                    \/ d \in shared']_scanVars

\* The server takes what a scan sends it from a selected folder (docs/WINDOWS-CONNECTOR.md:
\* "Save files into a selected source folder ... and let the connector index them").
SentIsAccepted ==
    \A s \in Scanners : At(s, "send") => IngestAccepted(scan[s].id, Here(s))
=============================================================================
