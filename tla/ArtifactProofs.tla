--------------------------- MODULE ArtifactProofs ---------------------------
(***************************************************************************)
(* Theorems about ArtifactDelivery for any artifacts, connectors, names,   *)
(* contents and annotations, and any number of faults and edits.           *)
(***************************************************************************)
EXTENDS ArtifactDelivery, FiniteSetTheorems, TLAPS

\* The name that is being tried is one of the paths, when there is one to try.
LEMMA TargetIsPath ==
    ASSUME DTypeOK, NEW c \in Connectors, step[c] # "idle", try[c] < Tries
    PROVE  Target(c) \in Paths
<1>1. item[c] \in Artifacts /\ try[c] \in Nat
  BY DeliveryAssumption DEF DTypeOK
<1>2. CASE try[c] = 0
  BY <1>1, <1>2 DEF Target, Candidate, Paths
<1>3. CASE try[c] # 0
  <2>1. try[c] \in 1..(Tries - 1)
    BY <1>1, <1>3, DeliveryAssumption
  <2> QED
    BY <1>1, <1>3, <2>1 DEF Target, Candidate, Paths
<1> QED
  BY <1>2, <1>3

\* The markers of a folder are no content and no annotation.
LEMMA Markers ==
    ASSUME NEW a \in Artifacts
    PROVE  /\ ContentOf[a] \in Contents
           /\ ContentOf[a] \notin {None, Partial, Foreign}
           /\ NoteOf[a] # NoText => NoteOf[a] \in Texts /\ NoteOf[a] \notin {None, Partial, Foreign}
BY DeliveryAssumption DEF Contents, Texts

\* A change of one path of one folder.
LEMMA PutAt ==
    ASSUME NEW S, NEW f \in [Connectors -> [Paths -> S]], NEW c \in Connectors, NEW p,
           NEW x \in S, NEW g, g = [f EXCEPT ![c][p] = x]
    PROVE  /\ g \in [Connectors -> [Paths -> S]]
           /\ \A d \in Connectors, q \in Paths :
                 g[d][q] = IF d = c /\ q = p THEN x ELSE f[d][q]
OBVIOUS

\* What the server does leaves the connectors and their folders alone.
LEMMA ServerIsApart ==
    ASSUME Server
    PROVE  /\ UNCHANGED <<runVars, folderVars, pastVars, edits>>
           /\ faults' \in {faults, faults + 1}
BY DEF Server, Stage, Save, SaveFails, RemoveStaged, RemoveFails, ApiDies, Expire, Cleanup,
   CleanupFails, Fault

-----------------------------------------------------------------------------
(* Types                                                                   *)

\* A name is left to try while an attempt is at work on one.
Trying ==
    \A c \in Connectors : step[c] \in {"fetch", "annotate", "good"} => try[c] < Tries

Types == DTypeOK /\ Trying

LEMMA InitTypes == DInit => Types
BY DeliveryAssumption DEF DInit, DTypeOK, Types, Trying

LEMMA ServerKeepsTypes == ASSUME Types, Server PROVE Types'
<1> USE DEF Types, Trying, DTypeOK, runVars, folderVars, pastVars
<1>0. faults' \in Nat
  BY ServerIsApart
<1>1. ASSUME NEW a \in Artifacts, Save(a) PROVE Types'
  <2>1. Cardinality({b \in Artifacts : state[b] # "none"}) \in Nat
    <3>1. IsFiniteSet({b \in Artifacts : state[b] # "none"})
      BY DeliveryAssumption, FS_Subset
    <3> QED
      BY <3>1, FS_CardinalityType
  <2>2. born' \in [Artifacts -> Nat]
    BY <1>1, <2>1 DEF Save
  <2> QED
    BY <1>1, <2>2 DEF Save
<1>2. ASSUME NEW a \in Artifacts, RemoveStaged(a) \/ RemoveFails(a) PROVE Types'
  <2>1. /\ bytes' \in [Artifacts -> BOOLEAN] /\ closing' \subseteq Artifacts
        /\ lost' \subseteq Artifacts
    BY <1>2 DEF RemoveStaged, RemoveFails
  <2>2. UNCHANGED <<state, born, old, staging, runVars, folderVars, pastVars, edits>>
    BY <1>2 DEF RemoveStaged, RemoveFails
  <2> QED
    BY <1>0, <2>1, <2>2
<1>3. ASSUME NEW a \in Artifacts, Expire(a) PROVE Types'
  BY <1>3 DEF Expire
<1>4. ASSUME NEW a \in Artifacts, Stage(a) \/ SaveFails(a) PROVE Types'
  <2>1. /\ bytes' \in [Artifacts -> BOOLEAN] /\ staging' \subseteq Artifacts
        /\ lost' \subseteq Artifacts
    BY <1>4 DEF Stage, SaveFails
  <2>2. UNCHANGED <<state, born, old, closing, runVars, folderVars, pastVars, edits>>
    BY <1>4 DEF Stage, SaveFails
  <2> QED
    BY <1>0, <2>1, <2>2
<1>5. CASE Cleanup
  BY <1>5 DEF Cleanup
<1>6. CASE ApiDies \/ CleanupFails
  <2>1. /\ bytes' \in [Artifacts -> BOOLEAN] /\ staging' \subseteq Artifacts
        /\ closing' \subseteq Artifacts /\ lost' \subseteq Artifacts
    BY <1>6 DEF ApiDies, CleanupFails
  <2>2. UNCHANGED <<state, born, old, runVars, folderVars, pastVars, edits>>
    BY <1>6 DEF ApiDies, CleanupFails
  <2> QED
    BY <1>0, <2>1, <2>2
<1> QED
  BY <1>1, <1>2, <1>3, <1>4, <1>5, <1>6 DEF Server

\* The loop goes on with an artifact of what is left, or ends.
LEMMA TakeUpTypes ==
    ASSUME DTypeOK, NEW c \in Connectors, NEW left \in SUBSET Artifacts, TakeUp(c, left)
    PROVE  /\ todo' \in [Connectors -> SUBSET Artifacts]
           /\ item' \in [Connectors -> Artifacts \cup {None}]
           /\ step' \in [Connectors -> {"idle", "try", "fetch", "annotate", "good", "bad"}]
           /\ \A d \in Connectors : step'[d] # "idle" => item'[d] \in todo'[d]
           /\ \A d \in Connectors \ {c} :
                 todo'[d] = todo[d] /\ item'[d] = item[d] /\ step'[d] = step[d]
           /\ todo'[c] = left /\ step'[c] \in {"idle", "try"}
<1> USE DEF DTypeOK
<1>1. CASE left = {} /\ item' = [item EXCEPT ![c] = None] /\ GoTo(c, "idle")
  BY <1>1 DEF TakeUp, GoTo
<1>2. ASSUME NEW a \in left, item' = [item EXCEPT ![c] = a], GoTo(c, "try")
      PROVE  /\ item' \in [Connectors -> Artifacts \cup {None}]
             /\ \A d \in Connectors : step'[d] # "idle" => item'[d] \in todo'[d]
             /\ \A d \in Connectors \ {c} : item'[d] = item[d] /\ step'[d] = step[d]
             /\ step' \in [Connectors -> {"idle", "try", "fetch", "annotate", "good", "bad"}]
             /\ step'[c] = "try"
  BY <1>2 DEF TakeUp, GoTo
<1>3. todo' = [todo EXCEPT ![c] = left]
  BY DEF TakeUp
<1>4. \/ left = {} /\ item' = [item EXCEPT ![c] = None] /\ GoTo(c, "idle")
      \/ \E a \in left : item' = [item EXCEPT ![c] = a] /\ GoTo(c, "try")
  BY DEF TakeUp
<1> QED
  BY <1>1, <1>2, <1>3, <1>4

LEMMA DeliverKeepsTypes ==
    ASSUME Types, NEW c \in Connectors, Deliver(c) PROVE Types'
<1> USE DEF Types, serverVars, folderVars
<1>0. /\ Tries \in Nat \ {0}
      /\ step[c] # "idle" => item[c] \in Artifacts
  BY DeliveryAssumption DEF DTypeOK
<1>1. CASE List(c)
  <2>1. Listing \in SUBSET Artifacts /\ TakeUp(c, Listing)
    BY <1>1 DEF List, Listing
  <2> QED
    BY <1>1, <2>1, TakeUpTypes DEF List, DTypeOK, Trying, pastVars
<1>2. ASSUME NEW arrives \in BOOLEAN, Report(c, arrives) PROVE Types'
  <2>1. todo[c] \ {item[c]} \in SUBSET Artifacts /\ TakeUp(c, todo[c] \ {item[c]})
    BY <1>2 DEF Report, DTypeOK
  <2>2. state' \in [Artifacts -> {"none", "pending", "saved", "expired"}]
    BY <1>2 DEF Report, DTypeOK
  <2>3. closing' \subseteq Artifacts
    BY <1>0, <1>2 DEF Report, DTypeOK, At
  <2>4. try' \in [Connectors -> 0..Tries] /\ fresh' \in [Connectors -> BOOLEAN]
    BY <1>0, <1>2 DEF Report, DTypeOK
  <2>5. UNCHANGED <<born, bytes, old, staging, lost, disk, sidecar, pastVars, edits, faults>>
    BY <1>2 DEF Report
  <2>6. Trying'
    <3>1. \A d \in Connectors \ {c} : try'[d] = try[d]
      BY <1>2 DEF Report, DTypeOK
    <3> QED
      BY <2>1, <3>1, TakeUpTypes DEF Trying
  <2> HIDE DEF serverVars, folderVars
  <2> QED
    BY <2>1, <2>2, <2>3, <2>4, <2>5, <2>6, TakeUpTypes DEF DTypeOK, pastVars
<1>3. CASE ConnectorDies(c)
  <2>1. TakeUp(c, {})
    BY <1>3 DEF ConnectorDies
  <2>2. sidecar' \in [Connectors -> [Paths -> Texts \cup {None, Partial, Foreign}]]
    <3> DEFINE S == Texts \cup {None, Partial, Foreign}
    <3>1. sidecar \in [Connectors -> [Paths -> S]] /\ Partial \in S
      BY DEF DTypeOK
    <3>2. sidecar' = sidecar \/ sidecar' = [sidecar EXCEPT ![c][Target(c)] = Partial]
      BY <1>3 DEF ConnectorDies, PutNote
    <3> HIDE DEF S
    <3>3. ASSUME sidecar' = [sidecar EXCEPT ![c][Target(c)] = Partial]
          PROVE  sidecar' \in [Connectors -> [Paths -> S]]
      BY <3>1, <3>3
    <3>4. sidecar' \in [Connectors -> [Paths -> S]]
      BY <3>1, <3>2, <3>3
    <3> QED
      BY <3>4 DEF S
  <2>3. try' \in [Connectors -> 0..Tries] /\ fresh' \in [Connectors -> BOOLEAN]
    BY <1>0, <1>3 DEF ConnectorDies, DTypeOK
  <2>4. /\ faults' \in Nat
        /\ UNCHANGED <<state, born, bytes, old, staging, closing, lost, disk, places, misread, edits>>
    BY <1>3 DEF ConnectorDies, Fault, DTypeOK
  <2>6. spoilt' \in [Connectors -> SUBSET Paths]
    <3>1. CASE spoilt' = spoilt
      BY <3>1 DEF DTypeOK
    <3>2. CASE /\ step[c] \in {"fetch", "annotate"}
               /\ spoilt' = [spoilt EXCEPT ![c] = @ \cup {Target(c)}]
      <4>1. Target(c) \in Paths
        BY <3>2, TargetIsPath DEF Trying
      <4> QED
        BY <3>2, <4>1 DEF DTypeOK
    <3> QED
      BY <1>3, <3>1, <3>2 DEF ConnectorDies, At
  <2>5. Trying'
    <3>1. \A d \in Connectors \ {c} : try'[d] = try[d]
      BY <1>3 DEF ConnectorDies, DTypeOK
    <3> QED
      BY <2>1, <3>1, TakeUpTypes DEF Trying
  <2> QED
    BY <2>1, <2>2, <2>3, <2>4, <2>5, <2>6, TakeUpTypes DEF DTypeOK
<1>4. CASE WriteArtifact(c)
  <2>1. /\ UNCHANGED <<serverVars, todo, item, edits>>
        /\ faults' \in {faults, faults + 1}
    BY <1>4 DEF WriteArtifact, FindDelivered, SkipTaken, CreateTarget, CannotCreate, Fetch,
         FetchFails, NothingToNote, WriteNote, NoteTaken, NoteFails, Succeed, TakeBack,
         Spoil, Misread, Fault
  <2>2. \E s \in {"try", "fetch", "annotate", "good", "bad"} : GoTo(c, s)
    BY <1>4 DEF WriteArtifact, FindDelivered, SkipTaken, CreateTarget, CannotCreate, Fetch,
         FetchFails, NothingToNote, WriteNote, NoteTaken, NoteFails, Succeed, NextName
  <2>3. step[c] # "idle"
    BY <1>4 DEF WriteArtifact, FindDelivered, SkipTaken, CreateTarget, CannotCreate, Fetch,
         FetchFails, NothingToNote, WriteNote, NoteTaken, NoteFails, At
  <2>4. fresh' \in [Connectors -> BOOLEAN]
    BY <1>4 DEF WriteArtifact, FindDelivered, SkipTaken, CreateTarget, CannotCreate, Fetch,
         FetchFails, NothingToNote, WriteNote, NoteTaken, NoteFails, Succeed, DTypeOK
  <2>5. \/ /\ try' = try
           /\ GoTo(c, "bad") \/ try[c] < Tries
        \/ /\ try' = [try EXCEPT ![c] = @ + 1]
           /\ try[c] < Tries /\ GoTo(c, "try")
    BY <1>4 DEF WriteArtifact, FindDelivered, SkipTaken, CreateTarget, CannotCreate, Fetch,
         FetchFails, NothingToNote, WriteNote, NoteTaken, NoteFails, Succeed, NextName,
         Trying, At
  <2>6. try' \in [Connectors -> 0..Tries] /\ Trying'
    <3>1. /\ try \in [Connectors -> 0..Tries]
          /\ step \in [Connectors -> {"idle", "try", "fetch", "annotate", "good", "bad"}]
      BY DEF DTypeOK
    <3>2. CASE try' = try /\ GoTo(c, "bad")
      BY <3>1, <3>2 DEF Trying, GoTo
    <3>3. CASE try' = try /\ try[c] < Tries
      BY <2>2, <3>1, <3>3 DEF Trying, GoTo
    <3>4. CASE /\ try' = [try EXCEPT ![c] = @ + 1]
               /\ try[c] < Tries /\ GoTo(c, "try")
      BY <1>0, <3>1, <3>4 DEF Trying, GoTo
    <3> QED
      BY <2>5, <3>2, <3>3, <3>4
  <2>7. disk' \in [Connectors -> [Paths -> Contents \cup {None, Partial, Foreign}]]
    <3> DEFINE S == Contents \cup {None, Partial, Foreign}
    <3>1. /\ disk \in [Connectors -> [Paths -> S]]
          /\ {None, Partial, ContentOf[item[c]]} \subseteq S
      BY <1>0, <2>3, Markers DEF DTypeOK
    <3>2. \/ disk' = disk
          \/ \E x \in {None, Partial, ContentOf[item[c]]} : Put(c, x)
      BY <1>4 DEF WriteArtifact, FindDelivered, SkipTaken, CreateTarget, CannotCreate, Fetch,
           FetchFails, NothingToNote, WriteNote, NoteTaken, NoteFails, Succeed, TakeBack,
           pastVars, folderVars
    <3> HIDE DEF S
    <3>3. disk' \in [Connectors -> [Paths -> S]]
      BY <3>1, <3>2, PutAt DEF Put
    <3> QED
      BY <3>3 DEF S
  <2>8. sidecar' \in [Connectors -> [Paths -> Texts \cup {None, Partial, Foreign}]]
    <3> DEFINE S == Texts \cup {None, Partial, Foreign}
    <3>1. sidecar \in [Connectors -> [Paths -> S]]
      BY DEF DTypeOK
    <3>2. \/ sidecar' = sidecar
          \/ NoteOf[item[c]] # NoText /\ \E x \in {Partial, NoteOf[item[c]]} : PutNote(c, x)
      BY <1>4 DEF WriteArtifact, FindDelivered, SkipTaken, CreateTarget, CannotCreate, Fetch,
           FetchFails, NothingToNote, WriteNote, NoteTaken, NoteFails, Noted, WantsNote
    <3>3. NoteOf[item[c]] # NoText => {Partial, NoteOf[item[c]]} \subseteq S
      BY <1>0, <2>3, Markers
    <3> HIDE DEF S
    <3>4. sidecar' \in [Connectors -> [Paths -> S]]
      BY <3>1, <3>2, <3>3, PutAt DEF PutNote
    <3> QED
      BY <3>4 DEF S
  <2>9. places' \in [Connectors -> [Artifacts -> SUBSET Paths]]
    <3>1. CASE places' = places
      BY <3>1 DEF DTypeOK
    <3>2. CASE /\ places' = [places EXCEPT ![c][item[c]] = @ \cup {Target(c)}]
               /\ At(c, "annotate")
      <4>1. Target(c) \in Paths
        BY <2>3, <3>2, TargetIsPath DEF Trying, At
      <4> QED
        BY <1>0, <2>3, <3>2, <4>1 DEF DTypeOK
    <3> QED
      BY <1>4, <3>1, <3>2 DEF WriteArtifact, FindDelivered, SkipTaken, CreateTarget,
         CannotCreate, Fetch, FetchFails, NothingToNote, WriteNote, NoteTaken, NoteFails,
         Succeed, pastVars
  <2>11. spoilt' \in [Connectors -> SUBSET Paths]
    <3>1. CASE spoilt' = spoilt
      BY <3>1 DEF DTypeOK
    <3>2. CASE step[c] \in {"fetch", "annotate"} /\ Spoil(c)
      <4>1. Target(c) \in Paths
        BY <3>2, TargetIsPath DEF Trying
      <4> QED
        BY <3>2, <4>1 DEF Spoil, DTypeOK
    <3> QED
      BY <1>4, <3>1, <3>2 DEF WriteArtifact, FindDelivered, SkipTaken, CreateTarget,
         CannotCreate, Fetch, FetchFails, NothingToNote, WriteNote, NoteTaken, NoteFails,
         Succeed, TakeBack, At, pastVars
  <2>12. misread' \in [Connectors -> SUBSET Paths]
    <3>1. CASE misread' = misread
      BY <3>1 DEF DTypeOK
    <3>2. CASE try[c] < Tries /\ Misread(c)
      <4>1. Target(c) \in Paths
        BY <2>3, <3>2, TargetIsPath
      <4> QED
        BY <3>2, <4>1 DEF Misread, DTypeOK
    <3> QED
      BY <1>4, <3>1, <3>2 DEF WriteArtifact, FindDelivered, SkipTaken, CreateTarget,
         CannotCreate, Fetch, FetchFails, NothingToNote, WriteNote, NoteTaken, NoteFails,
         Succeed, Trying, At, pastVars
  <2>10. /\ step' \in [Connectors -> {"idle", "try", "fetch", "annotate", "good", "bad"}]
         /\ \A d \in Connectors : step'[d] # "idle" => item[d] \in todo[d]
    BY <2>2, <2>3 DEF GoTo, DTypeOK
  <2> QED
    BY <2>1, <2>4, <2>6, <2>7, <2>8, <2>9, <2>10, <2>11, <2>12 DEF DTypeOK
<1> QED
  BY <1>1, <1>2, <1>3, <1>4 DEF Deliver

LEMMA EditKeepsTypes ==
    ASSUME Types, NEW c \in Connectors, NEW p \in Paths, UserEdits(c, p) PROVE Types'
<1>1. \E x \in {None, Foreign} :
         \/ disk' = [disk EXCEPT ![c][p] = x] /\ sidecar' = sidecar
         \/ sidecar' = [sidecar EXCEPT ![c][p] = x] /\ disk' = disk
  BY DEF UserEdits
<1>2. /\ disk' \in [Connectors -> [Paths -> Contents \cup {None, Partial, Foreign}]]
      /\ sidecar' \in [Connectors -> [Paths -> Texts \cup {None, Partial, Foreign}]]
  <2> DEFINE D == Contents \cup {None, Partial, Foreign}
             S == Texts \cup {None, Partial, Foreign}
  <2>1. /\ disk \in [Connectors -> [Paths -> D]] /\ sidecar \in [Connectors -> [Paths -> S]]
        /\ {None, Foreign} \subseteq D /\ {None, Foreign} \subseteq S
    BY DEF Types, DTypeOK
  <2> HIDE DEF D, S
  <2>2. disk' \in [Connectors -> [Paths -> D]] /\ sidecar' \in [Connectors -> [Paths -> S]]
    <3>1. PICK x \in {None, Foreign} :
             \/ disk' = [disk EXCEPT ![c][p] = x] /\ sidecar' = sidecar
             \/ sidecar' = [sidecar EXCEPT ![c][p] = x] /\ disk' = disk
      BY <1>1
    <3>2. x \in D /\ x \in S
      BY <2>1
    <3>3. CASE disk' = [disk EXCEPT ![c][p] = x] /\ sidecar' = sidecar
      BY <2>1, <3>2, <3>3, PutAt
    <3>4. CASE sidecar' = [sidecar EXCEPT ![c][p] = x] /\ disk' = disk
      BY <2>1, <3>2, <3>4, PutAt
    <3> QED
      BY <3>1, <3>3, <3>4
  <2> QED
    BY <2>2 DEF D, S
<1>3. /\ edits' \in Nat
      /\ UNCHANGED <<serverVars, runVars, pastVars, faults>>
  BY DEF UserEdits, Types, DTypeOK
<1> QED
  BY <1>2, <1>3 DEF Types, DTypeOK, Trying, serverVars, runVars, pastVars

LEMMA StepTypes == Types /\ [DNext]_deliveryVars => Types'
<1>1. ASSUME Types, UNCHANGED deliveryVars PROVE Types'
  BY <1>1 DEF Types, DTypeOK, Trying, deliveryVars, serverVars, runVars, folderVars, pastVars
<1> QED
  BY <1>1, ServerKeepsTypes, DeliverKeepsTypes, EditKeepsTypes DEF DNext

\* The variables of artifact delivery keep to their types.
THEOREM DeliveryTypeCorrect == DSpec => []DTypeOK
<1>1. DInit => Types
  BY InitTypes
<1>2. Types /\ [DNext]_deliveryVars => Types'
  BY StepTypes
<1>3. Types => DTypeOK
  BY DEF Types
<1> QED
  BY <1>1, <1>2, <1>3, PTL DEF DSpec

-----------------------------------------------------------------------------
(* The promise                                                             *)

\* Only what was asked for is listed or delivered.
Asked ==
    \A c \in Connectors, a \in Artifacts :
        a \in todo[c] \/ places[c][a] # {} => state[a] # "none"

\* A success that is about to be reported has happened.
Landed == \A c \in Connectors : At(c, "good") => places[c][item[c]] # {}

PromiseInv == Types /\ Asked /\ Landed

Delivered == {a \in Artifacts : \E c \in Connectors : places[c][a] # {}}

LEMMA ServerKeepsPromise ==
    ASSUME PromiseInv, Server
    PROVE  Asked' /\ Landed' /\ [Promise!PNext]_(Promise!promiseVars)
<1> USE DEF PromiseInv, Types
<1>1. places' = places /\ todo' = todo /\ item' = item /\ step' = step
  BY ServerIsApart DEF runVars, pastVars
<1>2. Landed'
  BY <1>1 DEF Landed, At
<1>3. ASSUME NEW a \in Artifacts, Save(a) PROVE Asked' /\ Promise!Ask(a)
  BY <1>1, <1>3 DEF Save, Asked, Promise!Ask, DTypeOK
<1>4. CASE Cleanup
  <2>1. Overdue \in SUBSET Artifacts /\ \A a \in Overdue : state[a] = "pending"
    BY DEF Overdue
  <2>2. state' = [a \in Artifacts |-> IF a \in Overdue THEN "expired" ELSE state[a]]
    BY <1>4 DEF Cleanup
  <2>3. Promise!GiveUp(Overdue)
    BY <1>1, <2>1, <2>2 DEF Promise!GiveUp
  <2>4. Asked'
    BY <1>1, <2>1, <2>2 DEF Asked
  <2> QED
    BY <1>2, <2>1, <2>3, <2>4 DEF Promise!PNext
<1>5. CASE state' = state
  BY <1>1, <1>2, <1>5 DEF Asked, Promise!promiseVars
<1> QED
  BY <1>2, <1>3, <1>4, <1>5 DEF Server, Stage, SaveFails, RemoveStaged, RemoveFails, ApiDies,
     Expire, CleanupFails, Promise!PNext

LEMMA WriteKeepsPromise ==
    ASSUME PromiseInv, NEW c \in Connectors, WriteArtifact(c)
    PROVE  Asked' /\ Landed' /\ [Promise!PNext]_(Promise!promiseVars)
<1> USE DEF PromiseInv, Types
<1>1. UNCHANGED <<state, todo, item>>
  BY DEF WriteArtifact, FindDelivered, SkipTaken, CreateTarget, CannotCreate, Fetch,
     FetchFails, NothingToNote, WriteNote, NoteTaken, NoteFails, Succeed, serverVars, pastVars
<1>2. CASE NothingToNote(c) \/ WriteNote(c)
  <2>1. /\ item[c] \in Artifacts /\ item[c] \in todo[c]
        /\ places' = [places EXCEPT ![c][item[c]] = @ \cup {Target(c)}]
        /\ step' = [step EXCEPT ![c] = "good"]
    BY <1>2 DEF NothingToNote, WriteNote, Succeed, GoTo, At, DTypeOK
  <2>2. /\ places'[c][item[c]] # {}
        /\ \A d \in Connectors, a \in Artifacts :
              (d # c \/ a # item[c]) => places'[d][a] = places[d][a]
    BY <2>1 DEF DTypeOK
  <2>3. state[item[c]] # "none"
    BY <2>1 DEF Asked
  <2>4. Asked'
    BY <1>1, <2>2, <2>3 DEF Asked
  <2>5. Landed'
    BY <1>1, <2>1, <2>2 DEF Landed, At, DTypeOK
  <2>6. Delivered' = Delivered \cup {item[c]}
    <3>1. \A a \in Artifacts : a \in Delivered' <=> a \in Delivered \/ a = item[c]
      BY <2>2 DEF Delivered
    <3> QED
      BY <2>1, <3>1 DEF Delivered
  <2>7. PICK a \in Artifacts : a = item[c]
    BY <2>1
  <2>8. Promise!Write(a)
    BY <1>1, <2>3, <2>6, <2>7 DEF Promise!Write, Delivered
  <2> QED
    BY <2>4, <2>5, <2>8 DEF Promise!PNext
<1>3. CASE places' = places /\ ~(NothingToNote(c) \/ WriteNote(c))
  <2>1. \E s \in {"try", "fetch", "annotate", "bad"} : step' = [step EXCEPT ![c] = s]
    BY <1>3 DEF WriteArtifact, FindDelivered, SkipTaken, CreateTarget, CannotCreate, Fetch,
       FetchFails, NoteTaken, NoteFails, NextName, GoTo
  <2>2. Landed'
    BY <1>1, <1>3, <2>1 DEF Landed, At, DTypeOK
  <2>3. Asked'
    BY <1>1, <1>3 DEF Asked
  <2>4. UNCHANGED Promise!promiseVars
    BY <1>1, <1>3 DEF Promise!promiseVars
  <2> QED
    BY <2>2, <2>3, <2>4
<1> QED
  BY <1>2, <1>3 DEF WriteArtifact, FindDelivered, SkipTaken, CreateTarget, CannotCreate, Fetch,
     FetchFails, NoteTaken, NoteFails, pastVars

LEMMA LoopKeepsPromise ==
    ASSUME PromiseInv, NEW c \in Connectors, NEW left \in SUBSET Artifacts, TakeUp(c, left),
           \A a \in left : state[a] # "none",
           places' = places,
           \A a \in Artifacts : state[a] # "none" => state'[a] # "none"
    PROVE  Asked' /\ Landed'
<1>1. /\ \A d \in Connectors \ {c} :
            todo'[d] = todo[d] /\ item'[d] = item[d] /\ step'[d] = step[d]
      /\ todo'[c] = left /\ step'[c] # "good"
  BY TakeUpTypes DEF PromiseInv, Types
<1> QED
  BY <1>1 DEF PromiseInv, Asked, Landed, At

LEMMA DeliverKeepsPromise ==
    ASSUME PromiseInv, NEW c \in Connectors, Deliver(c)
    PROVE  Asked' /\ Landed' /\ [Promise!PNext]_(Promise!promiseVars)
<1> USE DEF PromiseInv, Types
<1>1. CASE List(c)
  <2>1. Listing \in SUBSET Artifacts /\ \A a \in Listing : state[a] # "none"
    BY DEF Listing, Available
  <2>2. UNCHANGED <<state, places>> /\ TakeUp(c, Listing)
    BY <1>1 DEF List, serverVars, pastVars
  <2> QED
    BY <2>1, <2>2, LoopKeepsPromise DEF Promise!promiseVars
<1>2. ASSUME NEW arrives \in BOOLEAN, Report(c, arrives)
      PROVE  Asked' /\ Landed' /\ [Promise!PNext]_(Promise!promiseVars)
  <2>1. /\ item[c] \in Artifacts /\ places' = places
        /\ TakeUp(c, todo[c] \ {item[c]}) /\ todo[c] \ {item[c]} \in SUBSET Artifacts
    BY <1>2 DEF Report, At, DTypeOK, pastVars
  <2>2. CASE At(c, "good") /\ arrives /\ Accepts(item[c])
    <3>1. state' = [state EXCEPT ![item[c]] = "saved"] /\ state[item[c]] = "pending"
      BY <1>2, <2>2 DEF Report, Accepts
    <3>2. item[c] \in Delivered
      BY <2>1, <2>2 DEF Landed, Delivered
    <3>3. Promise!Confirm(item[c])
      BY <2>1, <3>1, <3>2 DEF Promise!Confirm, Delivered
    <3>4. \A a \in Artifacts : state[a] # "none" => state'[a] # "none"
      BY <3>1 DEF DTypeOK
    <3>5. Asked' /\ Landed'
      BY <2>1, <3>4, LoopKeepsPromise DEF Asked
    <3> QED
      BY <2>1, <3>3, <3>5 DEF Promise!PNext
  <2>3. CASE state' = state
    <3>1. Asked' /\ Landed'
      BY <2>1, <2>3, LoopKeepsPromise DEF Asked
    <3> QED
      BY <2>1, <2>3, <3>1 DEF Promise!promiseVars
  <2> QED
    BY <1>2, <2>2, <2>3 DEF Report
<1>3. CASE ConnectorDies(c)
  <2>1. UNCHANGED <<state, places>> /\ TakeUp(c, {})
    BY <1>3 DEF ConnectorDies, serverVars
  <2> QED
    BY <2>1, LoopKeepsPromise DEF Promise!promiseVars
<1> QED
  BY <1>1, <1>2, <1>3, WriteKeepsPromise DEF Deliver

LEMMA StepKeepsPromise ==
    PromiseInv /\ [DNext]_deliveryVars =>
        PromiseInv' /\ [Promise!PNext]_(Promise!promiseVars)
<1> SUFFICES ASSUME PromiseInv, [DNext]_deliveryVars
             PROVE  PromiseInv' /\ [Promise!PNext]_(Promise!promiseVars)
  OBVIOUS
<1>1. Types'
  BY StepTypes DEF PromiseInv
<1>2. CASE UNCHANGED <<state, todo, item, step, places>>
  BY <1>1, <1>2 DEF PromiseInv, Asked, Landed, At, Promise!promiseVars
<1>3. ASSUME NEW c \in Connectors, NEW p \in Paths, UserEdits(c, p)
      PROVE  UNCHANGED <<state, todo, item, step, places>>
  BY <1>3 DEF UserEdits, serverVars, runVars, pastVars
<1>4. CASE UNCHANGED deliveryVars
  BY <1>2, <1>4 DEF deliveryVars, serverVars, runVars, pastVars
<1> QED
  BY <1>1, <1>2, <1>3, <1>4, ServerKeepsPromise, DeliverKeepsPromise DEF DNext, PromiseInv

\* The delivery implements SavePromise: an artifact is saved only after its exact
\* bytes were in a folder, and settles once, as saved or as expired, whatever
\* connectors, deaths, lost reports and cleanups there are.
THEOREM PromiseKept == DSpec => KeepsPromise
<1>1. DInit => PromiseInv /\ Promise!PInit
  <2>1. DInit => Types
    BY InitTypes
  <2> QED
    BY <2>1 DEF DInit, PromiseInv, Asked, Landed, At, Promise!PInit
<1>2. PromiseInv /\ [DNext]_deliveryVars =>
        PromiseInv' /\ [Promise!PNext]_(Promise!promiseVars)
  BY StepKeepsPromise
<1> QED
  BY <1>1, <1>2, PTL DEF DSpec, KeepsPromise, Promise!PSpec

-----------------------------------------------------------------------------
(* What was delivered                                                      *)

\* DeliveredWhole for one folder, and why it is kept: an attempt writes and takes
\* back only a target it has created, where nothing has been delivered before.
WholeAt(c) ==
    /\ \A a \in Artifacts : \A p \in places[c][a] :
          /\ disk[c][p] = ContentOf[a]
          /\ a \notin Notes /\ NoteOf[a] # NoText => sidecar[c][p] = NoteOf[a]
    /\ At(c, "fetch") => fresh[c]
    /\ At(c, "annotate") => disk[c][Target(c)] = ContentOf[item[c]]
    /\ fresh[c] /\ step[c] \in {"fetch", "annotate"} =>
          \A a \in Artifacts : Target(c) \notin places[c][a]

WholeInv == Types /\ (edits = 0 => \A c \in Connectors : WholeAt(c))

\* A connector changes its own folder and place of work only.
LEMMA DeliverIsLocal ==
    ASSUME Types, NEW c \in Connectors, Deliver(c), NEW d \in Connectors \ {c}
    PROVE  /\ step'[d] = step[d] /\ item'[d] = item[d]
           /\ try'[d] = try[d] /\ fresh'[d] = fresh[d]
           /\ disk'[d] = disk[d] /\ sidecar'[d] = sidecar[d] /\ places'[d] = places[d]
           /\ spoilt'[d] = spoilt[d] /\ misread'[d] = misread[d]
<1>1. /\ step'[d] = step[d] /\ item'[d] = item[d]
      /\ try'[d] = try[d] /\ fresh'[d] = fresh[d]
  <2>1. CASE WriteArtifact(c)
    BY <2>1 DEF WriteArtifact, FindDelivered, SkipTaken, CreateTarget, CannotCreate, Fetch,
       FetchFails, NothingToNote, WriteNote, NoteTaken, NoteFails, Succeed, NextName, GoTo,
       Types, DTypeOK
  <2>2. ASSUME NEW left \in SUBSET Artifacts, TakeUp(c, left)
        PROVE  step'[d] = step[d] /\ item'[d] = item[d]
    BY <2>2, TakeUpTypes DEF Types
  <2>3. CASE List(c)
    <3>1. Listing \in SUBSET Artifacts
      BY DEF Listing
    <3> QED
      BY <2>2, <2>3, <3>1 DEF List
  <2>4. ASSUME NEW arrives \in BOOLEAN, Report(c, arrives)
        PROVE  /\ step'[d] = step[d] /\ item'[d] = item[d]
               /\ try'[d] = try[d] /\ fresh'[d] = fresh[d]
    <3>1. todo[c] \ {item[c]} \in SUBSET Artifacts
      BY DEF Types, DTypeOK
    <3>2. TakeUp(c, todo[c] \ {item[c]})
      BY <2>4 DEF Report
    <3>3. try'[d] = try[d] /\ fresh'[d] = fresh[d]
      BY <2>4 DEF Report, Types, DTypeOK
    <3> QED
      BY <2>2, <3>1, <3>2, <3>3
  <2>5. CASE ConnectorDies(c)
    <3>1. TakeUp(c, {})
      BY <2>5 DEF ConnectorDies
    <3>2. try'[d] = try[d] /\ fresh'[d] = fresh[d]
      BY <2>5 DEF ConnectorDies, Types, DTypeOK
    <3> QED
      BY <2>2, <3>1, <3>2
  <2> QED
    BY <2>1, <2>3, <2>4, <2>5 DEF Deliver
<1>2. disk'[d] = disk[d] /\ sidecar'[d] = sidecar[d] /\ places'[d] = places[d]
  BY DEF Deliver, List, WriteArtifact, FindDelivered, SkipTaken, CreateTarget, CannotCreate,
     Fetch, FetchFails, NothingToNote, WriteNote, NoteTaken, NoteFails, Succeed, Report,
     ConnectorDies, TakeBack, Put, PutNote, folderVars, pastVars, Types, DTypeOK
<1>3. spoilt'[d] = spoilt[d] /\ misread'[d] = misread[d]
  BY DEF Deliver, List, WriteArtifact, FindDelivered, SkipTaken, CreateTarget, CannotCreate,
     Fetch, FetchFails, NothingToNote, WriteNote, NoteTaken, NoteFails, Succeed, Report,
     ConnectorDies, TakeBack, Spoil, Misread, pastVars, Types, DTypeOK
<1> QED
  BY <1>1, <1>2, <1>3

\* A file put or taken back at a target where nothing was delivered hurts no delivery.
LEMMA FreshTarget ==
    ASSUME Types, NEW c \in Connectors, WholeAt(c), NEW x,
           Put(c, x), \A a \in Artifacts : Target(c) \notin places[c][a],
           places' = places,
           \A q \in Paths : sidecar[c][q] # None => sidecar'[c][q] = sidecar[c][q]
    PROVE  \A a \in Artifacts : \A p \in places'[c][a] :
              /\ disk'[c][p] = ContentOf[a]
              /\ a \notin Notes /\ NoteOf[a] # NoText => sidecar'[c][p] = NoteOf[a]
<1> SUFFICES ASSUME NEW a \in Artifacts, NEW p \in places[c][a]
             PROVE  /\ disk'[c][p] = ContentOf[a]
                    /\ a \notin Notes /\ NoteOf[a] # NoText => sidecar'[c][p] = NoteOf[a]
  OBVIOUS
<1>1. p \in Paths /\ p # Target(c)
  BY DEF Types, DTypeOK
<1>2. disk'[c][p] = ContentOf[a]
  BY <1>1 DEF Put, WholeAt, Types, DTypeOK
<1>3. a \notin Notes /\ NoteOf[a] # NoText => sidecar'[c][p] = NoteOf[a]
  BY <1>1, Markers DEF WholeAt
<1> QED
  BY <1>2, <1>3

LEMMA WriteKeepsWhole ==
    ASSUME Types, NEW c \in Connectors, WholeAt(c), WriteArtifact(c)
    PROVE  WholeAt(c)'
<1> USE DEF Types
<1>1. /\ item' = item /\ item[c] \in Artifacts /\ step[c] # "idle"
      /\ ContentOf[item[c]] \notin {None, Partial}
  <2>1. step[c] # "idle" /\ item' = item
    BY DEF WriteArtifact, FindDelivered, SkipTaken, CreateTarget, CannotCreate, Fetch,
       FetchFails, NothingToNote, WriteNote, NoteTaken, NoteFails, Succeed, At
  <2> QED
    BY <2>1, Markers DEF DTypeOK
<1>2. step \in [Connectors -> {"idle", "try", "fetch", "annotate", "good", "bad"}]
  BY DEF DTypeOK
<1>3. CASE FindDelivered(c)
  BY <1>1, <1>2, <1>3 DEF FindDelivered, Recognised, WholeAt, At, Target, GoTo, folderVars, pastVars, DTypeOK
<1>4. CASE SkipTaken(c) \/ CannotCreate(c)
  BY <1>2, <1>4 DEF SkipTaken, CannotCreate, NextName, WholeAt, At, GoTo, folderVars, pastVars
<1>5. CASE CreateTarget(c)
  <2>1. \A a \in Artifacts : Target(c) \notin places[c][a]
    BY <1>5, Markers DEF CreateTarget, WholeAt
  <2>2. /\ Put(c, Partial) /\ places' = places /\ sidecar' = sidecar /\ try' = try
        /\ fresh'[c] /\ step'[c] = "fetch"
    BY <1>2, <1>5 DEF CreateTarget, GoTo, pastVars, DTypeOK
  <2> QED
    BY <1>1, <2>1, <2>2, FreshTarget DEF WholeAt, At, Target
<1>6. CASE Fetch(c)
  <2>1. \A a \in Artifacts : Target(c) \notin places[c][a]
    BY <1>6 DEF Fetch, WholeAt, At
  <2>2. /\ Put(c, ContentOf[item[c]]) /\ places' = places /\ sidecar' = sidecar
        /\ try' = try /\ step'[c] = "annotate"
    BY <1>2, <1>6 DEF Fetch, GoTo, pastVars
  <2>3. disk'[c][Target(c)] = ContentOf[item[c]]
    BY <1>1, <1>6, <2>2, TargetIsPath DEF Put, Trying, Fetch, At, DTypeOK
  <2> QED
    BY <1>1, <2>1, <2>2, <2>3, FreshTarget DEF WholeAt, At, Target
<1>7. CASE FetchFails(c)
  <2>1. \A a \in Artifacts : Target(c) \notin places[c][a]
    BY <1>7 DEF FetchFails, WholeAt, At
  <2>2. /\ disk' = disk \/ \E x \in {None, ContentOf[item[c]]} : Put(c, x)
        /\ places' = places /\ sidecar' = sidecar /\ step'[c] = "bad"
    BY <1>2, <1>7 DEF FetchFails, GoTo
  <2>3. CASE disk' = disk
    BY <2>2, <2>3 DEF WholeAt, At
  <2>4. CASE \E x \in {None, ContentOf[item[c]]} : Put(c, x)
    BY <2>1, <2>2, <2>4, FreshTarget DEF WholeAt, At
  <2> QED
    BY <2>2, <2>3, <2>4
<1>8. CASE NothingToNote(c) \/ WriteNote(c)
  <2>1. /\ At(c, "annotate") /\ disk' = disk /\ try' = try /\ step'[c] = "good"
        /\ places' = [places EXCEPT ![c][item[c]] = @ \cup {Target(c)}]
        /\ Target(c) \in Paths
    BY <1>1, <1>2, <1>8, TargetIsPath DEF NothingToNote, WriteNote, Succeed, GoTo, At, Trying
  <2>2. \A a \in Artifacts : \A p \in places'[c][a] :
           p \in places[c][a] \/ (a = item[c] /\ p = Target(c))
    BY <1>1, <2>1 DEF DTypeOK
  <2>3. item[c] \notin Notes /\ NoteOf[item[c]] # NoText =>
           sidecar'[c][Target(c)] = NoteOf[item[c]]
    BY <1>8, <2>1 DEF NothingToNote, WriteNote, Noted, WantsNote, PutNote, DTypeOK
  <2>4. ASSUME NEW a \in Artifacts, NEW p \in places[c][a], a \notin Notes, NoteOf[a] # NoText
        PROVE  sidecar'[c][p] = NoteOf[a]
    <3>1. sidecar[c][p] = NoteOf[a] /\ NoteOf[a] # None /\ p \in Paths
      BY <2>4, Markers DEF WholeAt, DTypeOK
    <3> QED
      BY <1>8, <3>1 DEF NothingToNote, WriteNote, PutNote, DTypeOK
  <2>5. disk[c][Target(c)] = ContentOf[item[c]]
    BY <2>1 DEF WholeAt
  <2>6. \A a \in Artifacts : \A p \in places'[c][a] : disk'[c][p] = ContentOf[a]
    BY <2>1, <2>2, <2>5 DEF WholeAt
  <2> QED
    BY <2>1, <2>2, <2>3, <2>4, <2>6 DEF WholeAt, At
<1>9. CASE NoteTaken(c) \/ NoteFails(c)
  <2>1. places' = places /\ step'[c] \in {"try", "bad"}
    BY <1>2, <1>9 DEF NoteTaken, NoteFails, NextName, GoTo
  <2>2. disk' = disk
        \/ (Put(c, None) /\ \A a \in Artifacts : Target(c) \notin places[c][a])
    BY <1>9 DEF NoteTaken, NoteFails, TakeBack, WholeAt, At
  <2>3. \A q \in Paths : sidecar[c][q] # None => sidecar'[c][q] = sidecar[c][q]
    BY <1>9 DEF NoteTaken, NoteFails, PutNote, DTypeOK
  <2>4. CASE disk' = disk
    <3>1. ASSUME NEW a \in Artifacts, NEW p \in places[c][a], a \notin Notes, NoteOf[a] # NoText
          PROVE  sidecar'[c][p] = NoteOf[a]
      <4>1. p \in Paths /\ sidecar[c][p] = NoteOf[a] /\ NoteOf[a] # None
        BY <3>1, Markers DEF WholeAt, DTypeOK
      <4> QED
        BY <2>3, <4>1
    <3> QED
      BY <2>1, <2>4, <3>1 DEF WholeAt, At
  <2>5. CASE Put(c, None) /\ \A a \in Artifacts : Target(c) \notin places[c][a]
    <3>1. \A a \in Artifacts : \A p \in places'[c][a] :
             /\ disk'[c][p] = ContentOf[a]
             /\ a \notin Notes /\ NoteOf[a] # NoText => sidecar'[c][p] = NoteOf[a]
      BY <2>1, <2>3, <2>5, FreshTarget
    <3> QED
      BY <2>1, <3>1 DEF WholeAt, At
  <2> QED
    BY <2>2, <2>4, <2>5
<1> QED
  BY <1>3, <1>4, <1>5, <1>6, <1>7, <1>8, <1>9 DEF WriteArtifact

LEMMA DeliverKeepsWhole ==
    ASSUME Types, NEW c \in Connectors, WholeAt(c), Deliver(c)
    PROVE  WholeAt(c)'
<1>1. ASSUME NEW left \in SUBSET Artifacts, TakeUp(c, left),
             disk' = disk, places' = places,
             \A p \in Paths : sidecar[c][p] # None => sidecar'[c][p] = sidecar[c][p]
      PROVE  WholeAt(c)'
  <2>1. step'[c] \in {"idle", "try"}
    BY <1>1, TakeUpTypes DEF Types
  <2>2. ASSUME NEW a \in Artifacts, NEW p \in places[c][a], a \notin Notes, NoteOf[a] # NoText
        PROVE  sidecar'[c][p] = NoteOf[a]
    <3>1. sidecar[c][p] = NoteOf[a] /\ NoteOf[a] # None /\ p \in Paths
      BY <2>2, Markers DEF WholeAt, Types, DTypeOK
    <3> QED
      BY <1>1, <3>1
  <2> QED
    BY <1>1, <2>1, <2>2 DEF WholeAt, At
<1>2. CASE List(c)
  <2>1. Listing \in SUBSET Artifacts
    BY DEF Listing
  <2> QED
    BY <1>1, <1>2, <2>1 DEF List, folderVars, pastVars
<1>3. ASSUME NEW arrives \in BOOLEAN, Report(c, arrives) PROVE WholeAt(c)'
  <2>1. todo[c] \ {item[c]} \in SUBSET Artifacts
    BY DEF Types, DTypeOK
  <2> QED
    BY <1>1, <1>3, <2>1 DEF Report, folderVars, pastVars
<1>4. CASE ConnectorDies(c)
  <2>1. \A p \in Paths : sidecar[c][p] # None => sidecar'[c][p] = sidecar[c][p]
    BY <1>4 DEF ConnectorDies, PutNote, Types, DTypeOK
  <2> QED
    BY <1>1, <1>4, <2>1 DEF ConnectorDies
<1> QED
  BY <1>2, <1>3, <1>4, WriteKeepsWhole DEF Deliver

\* Every step keeps the deliveries of all folders whole.
LEMMA StepWhole == WholeInv /\ [DNext]_deliveryVars => WholeInv'
<1> SUFFICES ASSUME WholeInv, [DNext]_deliveryVars, edits' = 0
             PROVE  \A c \in Connectors : WholeAt(c)'
  BY StepTypes DEF WholeInv
<1>1. CASE UNCHANGED <<runVars, folderVars, pastVars, edits>>
  BY <1>1 DEF WholeInv, WholeAt, At, Target, runVars, folderVars, pastVars
<1>2. CASE Server
  BY <1>1, <1>2, ServerIsApart
<1>3. ASSUME NEW c \in Connectors, NEW p \in Paths, UserEdits(c, p) PROVE FALSE
  BY <1>3 DEF UserEdits, WholeInv, Types, DTypeOK
<1>4. ASSUME NEW c \in Connectors, Deliver(c) PROVE \A d \in Connectors : WholeAt(d)'
  <2>1. edits' = edits
    BY <1>4 DEF Deliver, List, WriteArtifact, FindDelivered, SkipTaken, CreateTarget,
       CannotCreate, Fetch, FetchFails, NothingToNote, WriteNote, NoteTaken, NoteFails,
       Succeed, Report, ConnectorDies
  <2>2. WholeAt(c)'
    BY <1>4, <2>1, DeliverKeepsWhole DEF WholeInv
  <2>3. ASSUME NEW d \in Connectors \ {c} PROVE WholeAt(d)'
    BY <1>4, <2>1, DeliverIsLocal DEF WholeInv, WholeAt, At, Target
  <2> QED
    BY <2>2, <2>3
<1> QED
  BY <1>1, <1>2, <1>3, <1>4 DEF DNext, deliveryVars

\* What was delivered keeps its bytes and its annotation through every later
\* delivery, repetition, failure and death, until the user acts in the folder.
THEOREM DeliveredWholeHolds == DSpec => []DeliveredWhole
<1>1. DInit => WholeInv
  BY InitTypes DEF DInit, WholeInv, WholeAt, At
<1>2. WholeInv /\ [DNext]_deliveryVars => WholeInv'
  BY StepWhole
<1>3. WholeInv => DeliveredWhole
  BY DEF WholeInv, WholeAt, DeliveredWhole
<1> QED
  BY <1>1, <1>2, <1>3, PTL DEF DSpec

-----------------------------------------------------------------------------
(* Other people's files                                                    *)

\* The bytes are fetched into a target of the attempt's own.
OwnTarget == \A c \in Connectors : At(c, "fetch") => fresh[c]

OwnInv == Types /\ OwnTarget

OwnStep ==
    \A c \in Connectors, p \in Paths :
        disk[c][p] # None /\ disk'[c][p] # disk[c][p] /\ edits' = edits =>
            fresh[c] /\ WorksOn(c, p)

\* An attempt touches no file but its own.
LEMMA WriteIsOwn ==
    ASSUME OwnInv, NEW c \in Connectors, WriteArtifact(c)
    PROVE  OwnTarget' /\ OwnStep
<1> USE DEF OwnInv, Types
<1>1. /\ step[c] # "idle"
      /\ \/ /\ step' = [step EXCEPT ![c] = "fetch"]
            /\ fresh' = [fresh EXCEPT ![c] = TRUE]
         \/ /\ \E s \in {"try", "annotate", "good", "bad"} : step' = [step EXCEPT ![c] = s]
            /\ \A d \in Connectors \ {c} : fresh'[d] = fresh[d]
  BY DEF WriteArtifact, FindDelivered, SkipTaken, CreateTarget, CannotCreate, Fetch, FetchFails,
     NothingToNote, WriteNote, NoteTaken, NoteFails, Succeed, NextName, GoTo, At, DTypeOK
<1>2. OwnTarget'
  BY <1>1 DEF OwnTarget, At, DTypeOK
<1>3. \/ disk' = disk
      \/ \E x \in {None, Partial, ContentOf[item[c]]} :
            Put(c, x) /\ (fresh[c] \/ disk[c][Target(c)] = None)
  <2>1. CASE CreateTarget(c)
    BY <2>1 DEF CreateTarget
  <2>2. CASE Fetch(c) \/ FetchFails(c)
    BY <2>2 DEF Fetch, FetchFails, OwnTarget
  <2>3. CASE NoteTaken(c) \/ NoteFails(c)
    BY <2>3 DEF NoteTaken, NoteFails, TakeBack
  <2>4. CASE FindDelivered(c) \/ SkipTaken(c) \/ CannotCreate(c) \/ NothingToNote(c) \/ WriteNote(c)
    BY <2>4 DEF FindDelivered, SkipTaken, CannotCreate, NothingToNote, WriteNote, Succeed, folderVars
  <2> QED
    BY <2>1, <2>2, <2>3, <2>4 DEF WriteArtifact
<1>4. ASSUME NEW d \in Connectors, NEW p \in Paths, disk[d][p] # None, disk'[d][p] # disk[d][p]
      PROVE  fresh[d] /\ WorksOn(d, p)
  <2>1. PICK x \in {None, Partial, ContentOf[item[c]]} :
           Put(c, x) /\ (fresh[c] \/ disk[c][Target(c)] = None)
    BY <1>3, <1>4
  <2>2. d = c /\ p = Target(c)
    BY <1>4, <2>1 DEF Put, DTypeOK
  <2> QED
    BY <1>1, <1>4, <2>1, <2>2 DEF WorksOn, At
<1> QED
  BY <1>2, <1>4 DEF OwnStep

LEMMA InitOwn == DInit => OwnInv
BY InitTypes DEF DInit, OwnInv, OwnTarget, At

\* Nor does any other step, whoever takes it.
LEMMA StepOwn ==
    OwnInv /\ [DNext]_deliveryVars => OwnInv' /\ [OwnStep]_deliveryVars
<1> SUFFICES ASSUME OwnInv, [DNext]_deliveryVars
             PROVE  OwnTarget' /\ OwnStep
  BY StepTypes DEF OwnInv
<1>1. CASE disk' = disk /\ step' = step /\ fresh' = fresh
  BY <1>1 DEF OwnInv, OwnTarget, OwnStep, At
<1>2. CASE Server
  BY <1>1, <1>2, ServerIsApart DEF runVars, folderVars
<1>3. ASSUME NEW c \in Connectors, NEW p \in Paths, UserEdits(c, p)
      PROVE  OwnTarget' /\ OwnStep
  <2>1. edits' # edits /\ step' = step /\ fresh' = fresh
    BY <1>3 DEF UserEdits, runVars, OwnInv, Types, DTypeOK
  <2> QED
    BY <2>1 DEF OwnInv, OwnTarget, OwnStep, At
<1>4. ASSUME NEW c \in Connectors, NEW left \in SUBSET Artifacts, TakeUp(c, left),
             disk' = disk, \A d \in Connectors \ {c} : fresh'[d] = fresh[d]
      PROVE  OwnTarget' /\ OwnStep
  BY <1>4, TakeUpTypes DEF OwnInv, Types, OwnTarget, OwnStep, At
<1>5. ASSUME NEW c \in Connectors, Deliver(c) PROVE OwnTarget' /\ OwnStep
  <2>1. CASE List(c)
    <3>1. Listing \in SUBSET Artifacts
      BY DEF Listing
    <3> QED
      BY <1>4, <2>1, <3>1 DEF List, folderVars
  <2>2. ASSUME NEW arrives \in BOOLEAN, Report(c, arrives) PROVE OwnTarget' /\ OwnStep
    <3>1. todo[c] \ {item[c]} \in SUBSET Artifacts /\ TakeUp(c, todo[c] \ {item[c]})
      BY <2>2 DEF Report, OwnInv, Types, DTypeOK
    <3>2. disk' = disk /\ \A d \in Connectors \ {c} : fresh'[d] = fresh[d]
      BY <2>2 DEF Report, folderVars, OwnInv, Types, DTypeOK
    <3> QED
      BY <1>4, <3>1, <3>2
  <2>3. CASE ConnectorDies(c)
    <3>1. /\ TakeUp(c, {}) /\ disk' = disk
          /\ \A d \in Connectors \ {c} : fresh'[d] = fresh[d]
      BY <2>3 DEF ConnectorDies, OwnInv, Types, DTypeOK
    <3> QED
      BY <1>4, <3>1
  <2> QED
    BY <1>5, <2>1, <2>2, <2>3, WriteIsOwn DEF Deliver
<1> QED
  BY <1>1, <1>2, <1>3, <1>5 DEF DNext, deliveryVars, runVars, folderVars

\* No connector overwrites or removes a file that its present attempt has not
\* created itself, whatever names the artifacts and the user's files have.
THEOREM OthersFilesAreSafe == DSpec => OthersFilesStay
<1>1. DInit => OwnInv
  BY InitOwn
<1>2. OwnInv /\ [DNext]_deliveryVars => OwnInv' /\ [OwnStep]_deliveryVars
  BY StepOwn
<1>3. [OwnStep]_deliveryVars =>
        [\A c \in Connectors, p \in Paths :
            disk[c][p] # None /\ disk'[c][p] # disk[c][p] /\ edits' = edits =>
                fresh[c] /\ WorksOn(c, p)]_deliveryVars
  BY DEF OwnStep
<1> QED
  BY <1>1, <1>2, <1>3, PTL DEF DSpec, OthersFilesStay

-----------------------------------------------------------------------------
(* The staged bytes                                                        *)

\* What is staged and under way has its file and no row, what is being completed is
\* saved already: so no call touches the bytes another one answers for.
BytesInv ==
    /\ Types
    /\ \A a \in staging : a \notin Notes /\ state[a] = "none" /\ bytes[a]
    /\ \A a \in closing : a \notin Notes /\ state[a] = "saved"
    /\ BytesFollowState

LEMMA ServerKeepsBytes ==
    ASSUME BytesInv, Server PROVE BytesInv'
<1> USE DEF BytesInv, BytesFollowState, Available
<1>1. Types'
  BY ServerKeepsTypes
<1>0. /\ state \in [Artifacts -> {"none", "pending", "saved", "expired"}]
      /\ bytes \in [Artifacts -> BOOLEAN] /\ old \in [Artifacts -> BOOLEAN]
      /\ closing \subseteq Artifacts /\ staging \subseteq Artifacts
  BY DEF Types, DTypeOK
<1>2. ASSUME NEW a \in Artifacts, Save(a) PROVE BytesInv'
  <2>1. /\ state[a] = "none" /\ state'[a] = "pending" /\ a \in Notes \cup staging
        /\ \A b \in Artifacts \ {a} : state'[b] = state[b]
        /\ bytes' = bytes /\ old' = old /\ closing' = closing /\ lost' = lost
        /\ staging' = staging \ {a}
    BY <1>0, <1>2 DEF Save
  <2> QED
    BY <1>0, <1>1, <2>1
<1>3. ASSUME NEW a \in Artifacts, Stage(a) PROVE BytesInv'
  <2>1. /\ state[a] = "none" /\ a \notin Notes /\ bytes'[a] /\ staging' = staging \cup {a}
        /\ \A b \in Artifacts \ {a} : bytes'[b] = bytes[b]
        /\ state' = state /\ old' = old /\ closing' = closing /\ lost' = lost
    BY <1>0, <1>3 DEF Stage
  <2> QED
    BY <1>0, <1>1, <2>1
<1>4. ASSUME NEW a \in Artifacts, RemoveStaged(a) PROVE BytesInv'
  <2>1. /\ a \in closing /\ ~bytes'[a] /\ closing' = closing \ {a}
        /\ \A b \in Artifacts \ {a} : bytes'[b] = bytes[b]
        /\ state' = state /\ old' = old /\ staging' = staging /\ lost' = lost
    BY <1>0, <1>4 DEF RemoveStaged
  <2> QED
    BY <1>0, <1>1, <2>1
<1>5. ASSUME NEW a \in Artifacts, Expire(a) PROVE BytesInv'
  BY <1>0, <1>1, <1>5 DEF Expire
<1>6. ASSUME (\E a \in Artifacts : SaveFails(a) \/ RemoveFails(a)) \/ ApiDies
      PROVE  BytesInv'
  <2>1. /\ state' = state /\ old' = old /\ bytes' = bytes
        /\ closing' \subseteq closing /\ staging' \subseteq staging
        /\ staging \cup closing \cup lost \subseteq staging' \cup closing' \cup lost'
    BY <1>6 DEF SaveFails, RemoveFails, ApiDies
  <2> QED
    BY <1>1, <2>1
<1>7. CASE Cleanup
  <2>1. /\ bytes' = [a \in Artifacts |-> bytes[a] /\ a \notin Overdue]
        /\ state' = [a \in Artifacts |-> IF a \in Overdue THEN "expired" ELSE state[a]]
        /\ old' = old /\ staging' = staging /\ closing' = closing /\ lost' = lost
    BY <1>7 DEF Cleanup
  <2>2. \A a \in Overdue : state[a] = "pending" /\ old[a]
    BY DEF Overdue
  <2>3. \A a \in staging \cup closing : a \notin Overdue /\ state'[a] = state[a] /\ bytes'[a] = bytes[a]
    BY <1>0, <2>1, <2>2
  <2>4. BytesFollowState'
    BY <1>0, <2>1, <2>2
  <2> QED
    BY <1>0, <1>1, <2>1, <2>3, <2>4
<1>8. CASE CleanupFails
  <2>1. PICK gone \in SUBSET Overdue : bytes' = [a \in Artifacts |-> bytes[a] /\ a \notin gone]
    BY <1>8 DEF CleanupFails
  <2>2. /\ state' = state /\ old' = old /\ staging' = staging /\ closing' = closing
        /\ lost' = lost
    BY <1>8 DEF CleanupFails
  <2>3. \A a \in gone : state[a] = "pending" /\ old[a]
    BY <2>1 DEF Overdue
  <2> QED
    BY <1>0, <1>1, <2>1, <2>2, <2>3
<1> QED
  BY <1>2, <1>3, <1>4, <1>5, <1>6, <1>7, <1>8 DEF Server

\* A staged file is there as long as it can be asked for, and stays beyond its save
\* or its call only where one has failed or died, in whatever order saves,
\* completions, expiry and cleanups come.
THEOREM BytesFollowStateHolds == DSpec => []BytesFollowState
<1>1. DInit => BytesInv
  BY InitTypes DEF DInit, BytesInv, BytesFollowState, Available
<1>2. BytesInv /\ [DNext]_deliveryVars => BytesInv'
  <2> SUFFICES ASSUME BytesInv, [DNext]_deliveryVars PROVE BytesInv'
    OBVIOUS
  <2>1. Types'
    BY StepTypes DEF BytesInv
  <2>2. CASE UNCHANGED serverVars
    BY <2>1, <2>2 DEF BytesInv, BytesFollowState, Available, serverVars
  <2>3. CASE UNCHANGED deliveryVars
    BY <2>2, <2>3 DEF deliveryVars
  <2>4. ASSUME NEW c \in Connectors, NEW p \in Paths, UserEdits(c, p) PROVE BytesInv'
    BY <2>2, <2>4 DEF UserEdits
  <2>5. ASSUME NEW c \in Connectors, NEW arrives \in BOOLEAN, Report(c, arrives)
        PROVE  BytesInv'
    <3>1. /\ item[c] \in Artifacts
          /\ bytes' = bytes /\ old' = old /\ staging' = staging /\ lost' = lost
          /\ \/ state' = state /\ closing' = closing
             \/ /\ state[item[c]] = "pending"
                /\ state' = [state EXCEPT ![item[c]] = "saved"]
                /\ closing' = IF item[c] \notin Notes THEN closing \cup {item[c]} ELSE closing
      BY <2>5 DEF Report, Accepts, At, BytesInv, Types, DTypeOK
    <3>2. CASE state' = state /\ closing' = closing
      BY <2>1, <3>1, <3>2 DEF BytesInv, BytesFollowState, Available
    <3>3. CASE /\ state[item[c]] = "pending"
               /\ state' = [state EXCEPT ![item[c]] = "saved"]
               /\ closing' = IF item[c] \notin Notes THEN closing \cup {item[c]} ELSE closing
      <4>1. /\ state'[item[c]] = "saved"
            /\ \A b \in Artifacts \ {item[c]} : state'[b] = state[b]
        <5>1. state \in [Artifacts -> {"none", "pending", "saved", "expired"}]
          BY DEF BytesInv, Types, DTypeOK
        <5> QED
          BY <3>1, <3>3, <5>1
      <4>2. staging \subseteq Artifacts /\ closing \subseteq Artifacts
        BY DEF BytesInv, Types, DTypeOK
      <4> QED
        BY <2>1, <3>1, <3>3, <4>1, <4>2 DEF BytesInv, BytesFollowState, Available
    <3> QED
      BY <3>1, <3>2, <3>3
  <2>6. ASSUME NEW c \in Connectors, List(c) \/ WriteArtifact(c) \/ ConnectorDies(c)
        PROVE  BytesInv'
    BY <2>2, <2>6 DEF List, WriteArtifact, FindDelivered, SkipTaken, CreateTarget,
       CannotCreate, Fetch, FetchFails, NothingToNote, WriteNote, NoteTaken, NoteFails,
       Succeed, ConnectorDies
  <2> QED
    BY <2>3, <2>4, <2>5, <2>6, ServerKeepsBytes DEF DNext, Deliver
<1>3. BytesInv => BytesFollowState
  BY DEF BytesInv
<1> QED
  BY <1>1, <1>2, <1>3, PTL DEF DSpec

-----------------------------------------------------------------------------
(* What is left in a folder                                                *)

\* Something was delivered at the path.
Held(c, p) == \E b \in Artifacts : p \in places[c][b]

\* The path is the target the present attempt has created.
InFlight(c, p) == fresh[c] /\ step[c] \in {"fetch", "annotate"} /\ p = Target(c)

\* The annotation at the path was delivered with an artifact there.
Annotated(c, p) ==
    \E b \in Artifacts : p \in places[c][b] /\ NoteOf[b] # NoText /\ sidecar[c][p] = NoteOf[b]

\* OnlyDeliveriesStay for one folder.
LeftAt(c) ==
    \A p \in Paths \ spoilt[c] :
        /\ disk[c][p] # None => Held(c, p) \/ InFlight(c, p)
        /\ sidecar[c][p] # None => Annotated(c, p)

LeftInv == OwnInv /\ (edits = 0 => \A c \in Connectors : LeftAt(c))

\* A step keeps the folder in order when it changes nothing but one path, and leaves
\* there a delivery, a target in flight or nothing, or spoils the path.
LEMMA KeepsLeft ==
    ASSUME Types, NEW c \in Connectors, LeftAt(c), NEW t,
           \A b \in Artifacts : places[c][b] \subseteq places'[c][b],
           spoilt[c] \subseteq spoilt'[c],
           \A q \in Paths : q # t => disk'[c][q] = disk[c][q] /\ sidecar'[c][q] = sidecar[c][q],
           \A q \in Paths : InFlight(c, q) => q = t,
           \/ t \in spoilt'[c]
           \/ /\ \/ disk'[c][t] = None \/ Held(c, t)' \/ InFlight(c, t)'
                 \/ disk'[c][t] = disk[c][t] /\ ~InFlight(c, t)
              /\ sidecar'[c][t] = sidecar[c][t] \/ Annotated(c, t)'
    PROVE  LeftAt(c)'
<1> SUFFICES ASSUME NEW p \in Paths, p \notin spoilt'[c]
             PROVE  /\ disk'[c][p] # None => Held(c, p)' \/ InFlight(c, p)'
                    /\ sidecar'[c][p] # None => Annotated(c, p)'
  BY DEF LeftAt
<1>1. p \notin spoilt[c]
  OBVIOUS
<1>2. Held(c, p) => Held(c, p)'
  BY DEF Held
<1>3. Annotated(c, p) /\ sidecar'[c][p] = sidecar[c][p] => Annotated(c, p)'
  BY DEF Annotated
<1>4. CASE p = t
  BY <1>1, <1>2, <1>3, <1>4 DEF LeftAt
<1>5. CASE p # t
  BY <1>1, <1>2, <1>3, <1>5 DEF LeftAt
<1> QED
  BY <1>4, <1>5

\* What an attempt does to its folder.
LEMMA WriteFrame ==
    ASSUME Types, NEW c \in Connectors, WriteArtifact(c)
    PROVE  /\ item' = item /\ item[c] \in Artifacts /\ step[c] # "idle" /\ try[c] \in Nat
           /\ \A b \in Artifacts : places[c][b] \subseteq places'[c][b]
           /\ spoilt[c] \subseteq spoilt'[c] /\ misread[c] \subseteq misread'[c]
           /\ \A q \in Paths : q # Target(c) =>
                 disk'[c][q] = disk[c][q] /\ sidecar'[c][q] = sidecar[c][q]
           /\ \A q \in Paths : sidecar[c][q] # None => sidecar'[c][q] = sidecar[c][q]
<1> USE DEF Types
<1>1. step[c] # "idle" /\ item' = item
  BY DEF WriteArtifact, FindDelivered, SkipTaken, CreateTarget, CannotCreate, Fetch,
     FetchFails, NothingToNote, WriteNote, NoteTaken, NoteFails, Succeed, At
<1>2. item[c] \in Artifacts /\ try[c] \in Nat
  BY <1>1, DeliveryAssumption DEF DTypeOK
<1>3. \A b \in Artifacts : places[c][b] \subseteq places'[c][b]
  <2>1. \/ places' = places
        \/ places' = [places EXCEPT ![c][item[c]] = @ \cup {Target(c)}]
    BY DEF WriteArtifact, FindDelivered, SkipTaken, CreateTarget, CannotCreate, Fetch,
       FetchFails, NothingToNote, WriteNote, NoteTaken, NoteFails, Succeed, pastVars
  <2>2. places \in [Connectors -> [Artifacts -> SUBSET Paths]]
    BY DEF DTypeOK
  <2> QED
    BY <1>2, <2>1, <2>2
<1>4. spoilt[c] \subseteq spoilt'[c] /\ misread[c] \subseteq misread'[c]
  BY DEF WriteArtifact, FindDelivered, SkipTaken, CreateTarget, CannotCreate, Fetch,
     FetchFails, NothingToNote, WriteNote, NoteTaken, NoteFails, Succeed, TakeBack, Spoil,
     Misread, pastVars, DTypeOK
<1>5. disk' = disk \/ \E x : Put(c, x)
  BY DEF WriteArtifact, FindDelivered, SkipTaken, CreateTarget, CannotCreate, Fetch,
     FetchFails, NothingToNote, WriteNote, NoteTaken, NoteFails, Succeed, TakeBack, folderVars
<1>6. sidecar' = sidecar \/ (sidecar[c][Target(c)] = None /\ \E x : PutNote(c, x))
  BY DEF WriteArtifact, FindDelivered, SkipTaken, CreateTarget, CannotCreate, Fetch,
     FetchFails, NothingToNote, WriteNote, NoteTaken, NoteFails, Succeed, folderVars
<1>7. \A q \in Paths : q # Target(c) => disk'[c][q] = disk[c][q]
  BY <1>5 DEF Put, DTypeOK
<1>8. \A q \in Paths : q # Target(c) \/ sidecar[c][q] # None => sidecar'[c][q] = sidecar[c][q]
  BY <1>6 DEF PutNote, DTypeOK
<1> QED
  BY <1>1, <1>2, <1>3, <1>4, <1>7, <1>8

LEMMA WriteKeepsLeft ==
    ASSUME OwnInv, NEW c \in Connectors, LeftAt(c), WriteArtifact(c)
    PROVE  LeftAt(c)'
<1> USE DEF OwnInv, Types
<1>t. PICK t : t = Target(c)
  OBVIOUS
<1>1. /\ step \in [Connectors -> {"idle", "try", "fetch", "annotate", "good", "bad"}]
      /\ fresh \in [Connectors -> BOOLEAN] /\ try \in [Connectors -> 0..Tries]
      /\ spoilt \in [Connectors -> SUBSET Paths]
  BY DEF DTypeOK
<1>2. /\ item' = item /\ item[c] \in Artifacts
      /\ \A b \in Artifacts : places[c][b] \subseteq places'[c][b]
      /\ spoilt[c] \subseteq spoilt'[c]
      /\ \A q \in Paths : q # t => disk'[c][q] = disk[c][q] /\ sidecar'[c][q] = sidecar[c][q]
      /\ \A q \in Paths : InFlight(c, q) => q = t
  BY <1>t, WriteFrame DEF InFlight
<1>3. ASSUME disk' = disk, sidecar' = sidecar, step[c] = "try" PROVE LeftAt(c)'
  BY <1>2, <1>3, KeepsLeft DEF InFlight
<1>4. CASE FindDelivered(c) \/ SkipTaken(c) \/ CannotCreate(c)
  BY <1>3, <1>4 DEF FindDelivered, SkipTaken, CannotCreate, At, folderVars
<1>5. CASE CreateTarget(c)
  <2>1. fresh'[c] /\ step'[c] = "fetch" /\ Target(c)' = t /\ sidecar' = sidecar
    BY <1>1, <1>2, <1>5, <1>t DEF CreateTarget, GoTo, Target
  <2>2. InFlight(c, t)'
    BY <2>1 DEF InFlight
  <2> QED
    BY <1>2, <2>1, <2>2, KeepsLeft
<1>6. CASE Fetch(c)
  <2>1. /\ sidecar' = sidecar /\ fresh' = fresh /\ fresh[c]
        /\ step'[c] = "annotate" /\ Target(c)' = t
    BY <1>1, <1>2, <1>6, <1>t DEF Fetch, GoTo, Target, At, OwnTarget
  <2>2. InFlight(c, t)'
    BY <2>1 DEF InFlight
  <2> QED
    BY <1>2, <2>1, <2>2, KeepsLeft
<1>7. CASE FetchFails(c)
  <2>1. sidecar' = sidecar /\ (Put(c, None) \/ t \in spoilt'[c])
    BY <1>1, <1>7, <1>t DEF FetchFails, Spoil
  <2>2. t \in Paths
    BY <1>7, <1>t, TargetIsPath DEF FetchFails, Trying, At
  <2>3. disk'[c][t] = None \/ t \in spoilt'[c]
    BY <1>t, <2>1, <2>2 DEF Put, DTypeOK
  <2> QED
    BY <1>2, <2>1, <2>3, KeepsLeft
<1>8. CASE NothingToNote(c) \/ WriteNote(c)
  <2>1. t \in places'[c][item[c]]
    BY <1>2, <1>8, <1>t DEF NothingToNote, WriteNote, Succeed, DTypeOK
  <2>2. t \in Paths
    BY <1>8, <1>t, TargetIsPath DEF NothingToNote, WriteNote, Trying, At
  <2>3. sidecar'[c][t] = sidecar[c][t] \/ Annotated(c, t)'
    <3>1. CASE NothingToNote(c)
      BY <3>1 DEF NothingToNote
    <3>2. CASE WriteNote(c)
      <4>1. NoteOf[item[c]] # NoText /\ sidecar'[c][t] = NoteOf[item[c]]
        BY <1>t, <2>2, <3>2 DEF WriteNote, Noted, WantsNote, PutNote, DTypeOK
      <4> QED
        BY <1>2, <2>1, <4>1 DEF Annotated
    <3> QED
      BY <1>8, <3>1, <3>2
  <2>4. Held(c, t)'
    BY <1>2, <2>1 DEF Held
  <2> QED
    BY <1>2, <2>3, <2>4, KeepsLeft
<1>9. CASE NoteTaken(c) \/ NoteFails(c)
  <2>1. /\ \/ Put(c, None) \/ t \in spoilt'[c]
           \/ disk' = disk /\ ~fresh[c]
        /\ sidecar' = sidecar \/ t \in spoilt'[c]
    BY <1>1, <1>9, <1>t DEF NoteTaken, NoteFails, TakeBack, Spoil
  <2>2. t \in Paths
    BY <1>9, <1>t, TargetIsPath DEF NoteTaken, NoteFails, Trying, At
  <2>3. \/ disk'[c][t] = None \/ t \in spoilt'[c]
        \/ disk'[c][t] = disk[c][t] /\ ~InFlight(c, t)
    BY <1>t, <2>1, <2>2 DEF Put, InFlight, DTypeOK
  <2>4. t \in spoilt'[c] \/ sidecar'[c][t] = sidecar[c][t]
    BY <2>1
  <2> QED
    BY <1>2, <2>3, <2>4, KeepsLeft
<1> QED
  BY <1>4, <1>5, <1>6, <1>7, <1>8, <1>9 DEF WriteArtifact

\* So does the loop around the attempts, and a death, which spoils the target.
LEMMA LoopKeepsLeft ==
    ASSUME Types, NEW c \in Connectors, LeftAt(c),
           \/ List(c)
           \/ \E arrives \in BOOLEAN : Report(c, arrives)
           \/ ConnectorDies(c)
    PROVE  LeftAt(c)'
<1>1. CASE List(c) \/ \E arrives \in BOOLEAN : Report(c, arrives)
  <2>t. PICK t : t = Target(c)
    OBVIOUS
  <2>1. /\ UNCHANGED <<disk, sidecar, places, spoilt>>
        /\ \A q \in Paths : ~InFlight(c, q)
    BY <1>1 DEF List, Report, InFlight, At, folderVars, pastVars
  <2>2. ~InFlight(c, t)
    BY <1>1 DEF InFlight, List, Report, At
  <2> QED
    BY <2>1, <2>2, KeepsLeft
<1>2. CASE ConnectorDies(c)
  <2>t. PICK t : t = Target(c)
    OBVIOUS
  <2>1. /\ disk' = disk /\ places' = places
        /\ spoilt[c] \subseteq spoilt'[c]
        /\ step[c] \in {"fetch", "annotate"} => t \in spoilt'[c]
        /\ sidecar' = sidecar \/ (step[c] = "annotate" /\ \E x : PutNote(c, x))
    BY <1>2, <2>t DEF ConnectorDies, At, Types, DTypeOK
  <2>2. \A q \in Paths : q # t => sidecar'[c][q] = sidecar[c][q]
    BY <2>1, <2>t DEF PutNote, Types, DTypeOK
  <2>3. \A q \in Paths : InFlight(c, q) => q = t
    BY <2>t DEF InFlight
  <2>4. t \in spoilt'[c] \/ (~InFlight(c, t) /\ sidecar' = sidecar)
    BY <2>1 DEF InFlight
  <2> QED
    BY <2>1, <2>2, <2>3, <2>4, KeepsLeft
<1> QED
  BY <1>1, <1>2

LEMMA StepLeft == LeftInv /\ [DNext]_deliveryVars => LeftInv'
<1> SUFFICES ASSUME LeftInv, [DNext]_deliveryVars, edits' = 0
             PROVE  \A c \in Connectors : LeftAt(c)'
  BY StepOwn DEF LeftInv
<1>0. Types
  BY DEF LeftInv, OwnInv
<1>1. CASE UNCHANGED <<runVars, folderVars, pastVars, edits>>
  BY <1>1 DEF LeftInv, LeftAt, Held, InFlight, Annotated, Target, runVars, folderVars, pastVars
<1>2. CASE Server
  BY <1>1, <1>2, ServerIsApart
<1>3. ASSUME NEW c \in Connectors, NEW p \in Paths, UserEdits(c, p) PROVE FALSE
  BY <1>0, <1>3 DEF UserEdits, Types, DTypeOK
<1>4. ASSUME NEW c \in Connectors, Deliver(c) PROVE \A d \in Connectors : LeftAt(d)'
  <2>1. edits' = edits
    BY <1>4 DEF Deliver, List, WriteArtifact, FindDelivered, SkipTaken, CreateTarget,
       CannotCreate, Fetch, FetchFails, NothingToNote, WriteNote, NoteTaken, NoteFails,
       Succeed, Report, ConnectorDies
  <2>2. LeftAt(c)'
    BY <1>0, <1>4, <2>1, WriteKeepsLeft, LoopKeepsLeft DEF LeftInv, Deliver
  <2>3. ASSUME NEW d \in Connectors \ {c} PROVE LeftAt(d)'
    BY <1>0, <1>4, <2>1, DeliverIsLocal DEF LeftInv, LeftAt, Held, InFlight, Annotated, Target
  <2> QED
    BY <2>2, <2>3
<1> QED
  BY <1>1, <1>2, <1>3, <1>4 DEF DNext, deliveryVars

LEMMA InitLeft == DInit => LeftInv
BY InitOwn DEF DInit, LeftInv, LeftAt

\* However attempts fail, what lies in a folder in which the user has not interfered
\* is a delivery with its annotation, the target of the attempt at work, or what a
\* refused removal or a death has left at that very path.
THEOREM OnlyDeliveriesStayHolds == DSpec => []OnlyDeliveriesStay
<1>1. LeftInv => OnlyDeliveriesStay
  BY DEF LeftInv, LeftAt, Held, InFlight, Annotated, OnlyDeliveriesStay, At
<1> QED
  BY <1>1, InitLeft, StepLeft, PTL DEF DSpec

-----------------------------------------------------------------------------
(* One place for each artifact                                             *)

\* A file that is in place, and not the target in flight, stays what it is.
Settled(c, p) == disk[c][p] # None /\ ~InFlight(c, p)

\* What bars a path to artifact a: other bytes, or another annotation (for a note it
\* is looked at beside an old file only); or the file there could not be read.
Barred(c, a, p) ==
    /\ p \in Paths
    /\ \/ Settled(c, p) /\ disk[c][p] # ContentOf[a]
       \/ /\ NoteOf[a] # NoText /\ sidecar[c][p] \notin {None, NoteOf[a]}
          /\ a \in Notes => Settled(c, p)
       \/ p \in misread[c]

\* The names before the n-th are barred to artifact a.
Passed(c, a, n) == \A m \in Nat : m < n => Barred(c, a, Candidate(a, m))

\* An artifact lies under the first name that is not barred to it.
TidyAt(c) ==
    /\ IF step[c] = "idle" THEN try[c] = 0 ELSE Passed(c, item[c], try[c])
    /\ \A a \in Artifacts : \A p \in places[c][a] :
          \E n \in Nat : p = Candidate(a, n) /\ Passed(c, a, n)

\* Where files and annotations stay, a path stays barred.
LEMMA BarredStays ==
    ASSUME NEW c \in Connectors,
           \A q \in Paths : Settled(c, q) => Settled(c, q)' /\ disk'[c][q] = disk[c][q],
           \A q \in Paths : sidecar[c][q] # None => sidecar'[c][q] = sidecar[c][q],
           misread[c] \subseteq misread'[c]
    PROVE  /\ \A a \in Artifacts, p \in Paths : Barred(c, a, p) => Barred(c, a, p)'
           /\ \A a \in Artifacts, n \in Nat : Passed(c, a, n) => Passed(c, a, n)'
<1>1. ASSUME NEW a \in Artifacts, NEW p \in Paths, Barred(c, a, p) PROVE Barred(c, a, p)'
  BY <1>1 DEF Barred
<1>2. ASSUME NEW a \in Artifacts, NEW n \in Nat, Passed(c, a, n) PROVE Passed(c, a, n)'
  <2> SUFFICES ASSUME NEW m \in Nat, m < n PROVE Barred(c, a, Candidate(a, m))'
    BY DEF Passed
  <2>1. PICK p \in Paths : p = Candidate(a, m) /\ Barred(c, a, p)
    BY <1>2 DEF Passed, Barred
  <2>2. Barred(c, a, p)'
    BY <1>1, <2>1
  <2> QED
    BY <2>1, <2>2 DEF Candidate
<1> QED
  BY <1>1, <1>2

\* An attempt passes a name that is barred to its artifact.
LEMMA PassOne ==
    ASSUME NEW c \in Connectors, NEW a \in Artifacts, NEW n \in Nat,
           Passed(c, a, n)', Barred(c, a, Candidate(a, n))'
    PROVE  Passed(c, a, n + 1)'
<1> SUFFICES ASSUME NEW m \in Nat, m < n + 1 PROVE Barred(c, a, Candidate(a, m))'
  BY DEF Passed
<1>1. m < n \/ m = n
  OBVIOUS
<1> QED
  BY <1>1 DEF Passed

\* An attempt touches no file that is settled.
LEMMA WriteKeepsSettled ==
    ASSUME Types, NEW c \in Connectors, WholeAt(c), WriteArtifact(c),
           NEW q \in Paths, Settled(c, q)
    PROVE  Settled(c, q)' /\ disk'[c][q] = disk[c][q]
<1> USE DEF Types
<1>1. /\ step \in [Connectors -> {"idle", "try", "fetch", "annotate", "good", "bad"}]
      /\ fresh \in [Connectors -> BOOLEAN] /\ item' = item
  BY WriteFrame DEF DTypeOK
<1>2. ASSUME disk' = disk, step'[c] \notin {"fetch", "annotate"} \/ ~fresh'[c]
      PROVE  Settled(c, q)' /\ disk'[c][q] = disk[c][q]
  BY <1>2 DEF Settled, InFlight
<1>3. ASSUME fresh[c], step[c] \in {"fetch", "annotate"}, step'[c] \notin {"fetch", "annotate"}
      PROVE  Settled(c, q)' /\ disk'[c][q] = disk[c][q]
  <2>1. q # Target(c)
    BY <1>3 DEF Settled, InFlight
  <2>2. disk'[c][q] = disk[c][q]
    BY <2>1, WriteFrame
  <2> QED
    BY <1>3, <2>2 DEF Settled, InFlight
<1>4. CASE FindDelivered(c) \/ SkipTaken(c) \/ CannotCreate(c) \/ NothingToNote(c) \/ WriteNote(c)
  <2>1. disk' = disk /\ (step'[c] \notin {"fetch", "annotate"} \/ ~fresh'[c])
    BY <1>1, <1>4 DEF FindDelivered, SkipTaken, CannotCreate, NothingToNote, WriteNote,
       Succeed, NextName, GoTo, folderVars
  <2> QED
    BY <1>2, <2>1
<1>5. CASE CreateTarget(c)
  <2>1. disk[c][Target(c)] = None /\ Target(c)' = Target(c)
    BY <1>1, <1>5 DEF CreateTarget, Target
  <2>2. q # Target(c)
    BY <2>1 DEF Settled
  <2>3. disk'[c][q] = disk[c][q]
    BY <2>2, WriteFrame
  <2> QED
    BY <2>1, <2>2, <2>3 DEF Settled, InFlight
<1>6. CASE Fetch(c)
  <2>1. fresh[c] /\ step[c] = "fetch" /\ Target(c)' = Target(c)
    BY <1>1, <1>6 DEF Fetch, At, Target, WholeAt
  <2>2. q # Target(c)
    BY <2>1 DEF Settled, InFlight
  <2>3. disk'[c][q] = disk[c][q]
    BY <2>2, WriteFrame
  <2> QED
    BY <2>1, <2>2, <2>3 DEF Settled, InFlight
<1>7. CASE FetchFails(c)
  <2>1. fresh[c] /\ step[c] = "fetch" /\ step'[c] = "bad"
    BY <1>1, <1>7 DEF FetchFails, At, GoTo, WholeAt
  <2> QED
    BY <1>3, <2>1
<1>8. CASE NoteTaken(c) \/ NoteFails(c)
  <2>1. step[c] = "annotate" /\ step'[c] \in {"try", "bad"} /\ (fresh[c] \/ disk' = disk)
    BY <1>1, <1>8 DEF NoteTaken, NoteFails, At, NextName, GoTo, TakeBack
  <2> QED
    BY <1>2, <1>3, <2>1
<1> QED
  BY <1>4, <1>5, <1>6, <1>7, <1>8 DEF WriteArtifact

\* What an attempt does to the names it passes and to the place it ends at.
LEMMA WriteKeepsTidy ==
    ASSUME Types, NEW c \in Connectors, WholeAt(c), TidyAt(c), WriteArtifact(c)
    PROVE  TidyAt(c)'
<1> USE DEF Types
<1>1. /\ step \in [Connectors -> {"idle", "try", "fetch", "annotate", "good", "bad"}]
      /\ fresh \in [Connectors -> BOOLEAN] /\ try \in [Connectors -> 0..Tries] /\ Tries \in Nat
      /\ places \in [Connectors -> [Artifacts -> SUBSET Paths]]
      /\ misread \in [Connectors -> SUBSET Paths]
  BY DeliveryAssumption DEF DTypeOK
<1>2. item' = item /\ item[c] \in Artifacts /\ step[c] # "idle" /\ try[c] \in Nat
  BY WriteFrame
<1>a. PICK a \in Artifacts : a = item[c]
  BY <1>2
<1>n. PICK n \in Nat : n = try[c]
  BY <1>2
<1>3. /\ \A b \in Artifacts, q \in Paths : Barred(c, b, q) => Barred(c, b, q)'
      /\ \A b \in Artifacts, m \in Nat : Passed(c, b, m) => Passed(c, b, m)'
  BY WriteKeepsSettled, WriteFrame, BarredStays
<1>4. Passed(c, a, n)'
  BY <1>2, <1>3, <1>a, <1>n DEF TidyAt
<1>5. ASSUME places' = places
      PROVE  \A b \in Artifacts : \A q \in places'[c][b] :
                \E m \in Nat : q = Candidate(b, m) /\ Passed(c, b, m)'
  BY <1>3, <1>5 DEF TidyAt
<1>6. CASE FindDelivered(c) \/ CannotCreate(c) \/ CreateTarget(c) \/ Fetch(c) \/ FetchFails(c)
           \/ NoteFails(c)
  <2>1. places' = places /\ try' = try /\ step'[c] # "idle"
    BY <1>1, <1>6 DEF FindDelivered, CannotCreate, CreateTarget, Fetch, FetchFails, NoteFails,
       GoTo, pastVars
  <2>2. Passed(c, item[c], try[c])'
    BY <1>2, <1>4, <1>a, <1>n, <2>1
  <2> QED
    BY <1>5, <2>1, <2>2 DEF TidyAt, Candidate
<1>7. CASE SkipTaken(c) \/ NoteTaken(c)
  <2>p. PICK p \in Paths : p = Candidate(a, n)
    <3>1. try[c] < Tries
      BY <1>7 DEF SkipTaken, NoteTaken, Trying, At
    <3> QED
      BY <1>2, <1>a, <1>n, <3>1, TargetIsPath DEF Target
  <2>1. places' = places /\ try'[c] = n + 1 /\ step'[c] = "try" /\ p = Target(c)
    BY <1>1, <1>7, <1>a, <1>n, <2>p DEF SkipTaken, NoteTaken, NextName, GoTo, Target, pastVars
  <2>2. Barred(c, a, p)'
    <3>1. ASSUME Misread(c) PROVE Barred(c, a, p)'
      BY <1>1, <2>1, <3>1 DEF Misread, Barred
    <3>2. CASE SkipTaken(c) /\ ~Recognised(c)
      <4>1. disk[c][p] # None /\ disk[c][p] # ContentOf[a] /\ step[c] = "try"
        BY <1>a, <2>1, <3>2 DEF SkipTaken, Recognised, At
      <4>2. Barred(c, a, p)
        BY <4>1 DEF Barred, Settled, InFlight
      <4> QED
        BY <1>3, <4>2
    <3>3. CASE NoteTaken(c) /\ ~Noted(c)
      <4>1. /\ NoteOf[a] # NoText /\ sidecar[c][p] \notin {None, NoteOf[a]}
            /\ a \in Notes => ~fresh[c]
            /\ step[c] = "annotate"
        BY <1>a, <2>1, <3>3 DEF NoteTaken, Noted, WantsNote, At
      <4>2. disk[c][p] # None
        BY <1>a, <2>1, <4>1, Markers DEF WholeAt, At
      <4>3. Barred(c, a, p)
        BY <4>1, <4>2 DEF Barred, Settled, InFlight
      <4> QED
        BY <1>3, <4>3
    <3> QED
      BY <1>7, <3>1, <3>2, <3>3 DEF SkipTaken, NoteTaken
  <2>3. Passed(c, a, n + 1)'
    BY <1>4, <2>p, <2>2, PassOne DEF Candidate
  <2>4. Passed(c, item[c], try[c])'
    BY <1>2, <1>a, <2>1, <2>3
  <2> QED
    BY <1>5, <2>1, <2>4 DEF TidyAt, Candidate
<1>8. CASE NothingToNote(c) \/ WriteNote(c)
  <2>1. /\ try' = try /\ step'[c] = "good"
        /\ places' = [places EXCEPT ![c][a] = @ \cup {Candidate(a, n)}]
    BY <1>1, <1>8, <1>a, <1>n DEF NothingToNote, WriteNote, Succeed, GoTo, Target
  <2>2. \A b \in Artifacts : \A q \in places'[c][b] :
           q \in places[c][b] \/ (b = a /\ q = Candidate(a, n))
    BY <1>1, <1>a, <2>1
  <2>3. \A b \in Artifacts : \A q \in places'[c][b] :
           \E m \in Nat : q = Candidate(b, m) /\ Passed(c, b, m)'
    BY <1>3, <1>4, <2>2 DEF TidyAt
  <2>4. Passed(c, item[c], try[c])'
    BY <1>2, <1>4, <1>a, <1>n, <2>1
  <2> QED
    BY <2>1, <2>3, <2>4 DEF TidyAt, Candidate
<1> QED
  BY <1>6, <1>7, <1>8 DEF WriteArtifact

\* Between two artifacts the connector has passed nothing.
LEMMA LoopKeepsTidy ==
    ASSUME Types, NEW c \in Connectors, TidyAt(c), NEW left \in SUBSET Artifacts, TakeUp(c, left),
           try'[c] = 0, disk' = disk, places' = places, misread' = misread,
           \A q \in Paths : sidecar[c][q] # None => sidecar'[c][q] = sidecar[c][q]
    PROVE  TidyAt(c)'
<1>1. step'[c] \in {"idle", "try"}
  BY TakeUpTypes DEF Types
<1>2. \A q \in Paths : Settled(c, q) => Settled(c, q)' /\ disk'[c][q] = disk[c][q]
  BY <1>1 DEF Settled, InFlight
<1>3. \A a \in Artifacts, n \in Nat : Passed(c, a, n) => Passed(c, a, n)'
  BY <1>2, BarredStays
<1>4. IF step'[c] = "idle" THEN try'[c] = 0 ELSE Passed(c, item[c], try[c])'
  BY DEF Passed
<1>5. \A a \in Artifacts : \A q \in places'[c][a] :
         \E n \in Nat : q = Candidate(a, n) /\ Passed(c, a, n)'
  BY <1>3 DEF TidyAt
<1> QED
  BY <1>4, <1>5 DEF TidyAt, Candidate

\* An artifact bars no path it was delivered at to itself, if it is Unrivalled and
\* nothing went wrong there, so that a repeated attempt stops there.
LEMMA OnePlace ==
    ASSUME Types, NEW c \in Connectors, WholeAt(c), LeftAt(c), TidyAt(c),
           NEW a \in Artifacts, Unrivalled(a),
           places[c][a] \cap misread[c] = {},
           a \in Notes => places[c][a] \cap spoilt[c] = {},
           NEW p \in places[c][a], NEW q \in places[c][a]
    PROVE  p = q
<1>1. ASSUME NEW r \in places[c][a] PROVE ~Barred(c, a, r)
  <2>1. r \in Paths /\ disk[c][r] = ContentOf[a] /\ r \notin misread[c]
    BY DEF WholeAt, Types, DTypeOK
  <2>2. ASSUME NoteOf[a] # NoText, sidecar[c][r] \notin {None, NoteOf[a]} PROVE FALSE
    <3>1. a \in Notes
      BY <2>2 DEF WholeAt
    <3>2. r \notin spoilt[c]
      BY <3>1
    <3>3. Annotated(c, r)
      BY <2>1, <2>2, <3>2 DEF LeftAt
    <3>4. PICK b \in Artifacts :
             r \in places[c][b] /\ NoteOf[b] # NoText /\ sidecar[c][r] = NoteOf[b]
      BY <3>3 DEF Annotated
    <3>5. ContentOf[b] = ContentOf[a]
      BY <2>1, <3>4 DEF WholeAt
    <3> QED
      BY <2>2, <3>1, <3>4, <3>5 DEF Unrivalled
  <2> QED
    BY <2>1, <2>2 DEF Barred
<1>2. PICK n \in Nat : p = Candidate(a, n) /\ Passed(c, a, n)
  BY DEF TidyAt
<1>3. PICK k \in Nat : q = Candidate(a, k) /\ Passed(c, a, k)
  BY DEF TidyAt
<1>4. ~(n < k) /\ ~(k < n)
  BY <1>1, <1>2, <1>3 DEF Passed
<1> QED
  BY <1>2, <1>3, <1>4

\* However often reports are lost, connectors die and deliveries are repeated, an
\* artifact lies in one place of a folder the user has left alone and whose files
\* could be read.
THEOREM SavedInOnePlaceHolds == DSpec => []SavedInOnePlace
<1> DEFINE TidyInv == WholeInv /\ LeftInv /\ (edits = 0 => \A c \in Connectors : TidyAt(c))
<1>1. DInit => TidyInv
  <2>1. DInit => WholeInv
    BY InitTypes DEF DInit, WholeInv, WholeAt, At
  <2> QED
    BY <2>1, InitLeft DEF DInit, TidyAt
<1>2. TidyInv /\ [DNext]_deliveryVars => TidyInv'
  <2> SUFFICES ASSUME TidyInv, [DNext]_deliveryVars, edits' = 0
               PROVE  \A c \in Connectors : TidyAt(c)'
    BY StepWhole, StepLeft
  <2>1. Types
    BY DEF WholeInv
  <2>2. edits = 0 => \A c \in Connectors : WholeAt(c) /\ TidyAt(c)
    BY DEF WholeInv
  <2>3. CASE UNCHANGED <<runVars, folderVars, pastVars, edits>>
    BY <2>2, <2>3 DEF TidyAt, Passed, Barred, Settled, InFlight, Target, Candidate, runVars,
       folderVars, pastVars
  <2>4. CASE Server
    BY <2>3, <2>4, ServerIsApart
  <2>5. ASSUME NEW c \in Connectors, NEW p \in Paths, UserEdits(c, p) PROVE FALSE
    BY <2>1, <2>5 DEF UserEdits, Types, DTypeOK
  <2>6. ASSUME NEW c \in Connectors, Deliver(c) PROVE \A d \in Connectors : TidyAt(d)'
    <3>1. edits = 0
      BY <2>6 DEF Deliver, List, WriteArtifact, FindDelivered, SkipTaken, CreateTarget,
         CannotCreate, Fetch, FetchFails, NothingToNote, WriteNote, NoteTaken, NoteFails,
         Succeed, Report, ConnectorDies
    <3>2. ASSUME List(c) PROVE TidyAt(c)'
      <4>1. Listing \in SUBSET Artifacts /\ TakeUp(c, Listing) /\ step[c] = "idle"
            /\ UNCHANGED <<disk, sidecar, places, misread, try>>
        BY <3>2 DEF List, Listing, At, folderVars, pastVars
      <4>2. try'[c] = 0
        BY <2>2, <3>1, <4>1 DEF TidyAt
      <4> QED
        BY <2>1, <2>2, <3>1, <4>1, <4>2, LoopKeepsTidy
    <3>3. ASSUME NEW arrives \in BOOLEAN, Report(c, arrives) PROVE TidyAt(c)'
      <4>1. todo[c] \ {item[c]} \in SUBSET Artifacts /\ TakeUp(c, todo[c] \ {item[c]})
            /\ UNCHANGED <<disk, sidecar, places, misread>> /\ try'[c] = 0
        BY <2>1, <3>3 DEF Report, At, folderVars, pastVars, Types, DTypeOK
      <4> QED
        BY <2>1, <2>2, <3>1, <4>1, LoopKeepsTidy
    <3>4. ASSUME ConnectorDies(c) PROVE TidyAt(c)'
      <4>1. TakeUp(c, {}) /\ UNCHANGED <<disk, places, misread>> /\ try'[c] = 0
        BY <2>1, <3>4 DEF ConnectorDies, Types, DTypeOK
      <4>2. \A q \in Paths : sidecar[c][q] # None => sidecar'[c][q] = sidecar[c][q]
        BY <2>1, <3>4 DEF ConnectorDies, PutNote, Types, DTypeOK
      <4> QED
        BY <2>1, <2>2, <3>1, <4>1, <4>2, LoopKeepsTidy
    <3>5. TidyAt(c)'
      BY <2>1, <2>2, <2>6, <3>1, <3>2, <3>3, <3>4, WriteKeepsTidy DEF Deliver
    <3>6. ASSUME NEW d \in Connectors \ {c} PROVE TidyAt(d)'
      <4>1. /\ step'[d] = step[d] /\ item'[d] = item[d]
            /\ try'[d] = try[d] /\ fresh'[d] = fresh[d]
            /\ disk'[d] = disk[d] /\ sidecar'[d] = sidecar[d] /\ places'[d] = places[d]
            /\ spoilt'[d] = spoilt[d] /\ misread'[d] = misread[d]
        BY <2>1, <2>6, DeliverIsLocal
      <4>2. \A q \in Paths : Settled(d, q) => Settled(d, q)'
        BY <4>1 DEF Settled, InFlight, Target
      <4>3. \A a \in Artifacts, n \in Nat : Passed(d, a, n) => Passed(d, a, n)'
        BY <4>1, <4>2, BarredStays
      <4>4. /\ TidyAt(d)
            /\ step[d] # "idle" => item[d] \in Artifacts /\ try[d] \in Nat
        BY <2>1, <2>2, <3>1, DeliveryAssumption DEF Types, DTypeOK
      <4>5. \A a \in Artifacts, n \in Nat : a = item[d] /\ n = try[d] /\ Passed(d, a, n)' =>
               Passed(d, item[d], try[d])'
        BY <4>1
      <4>6. IF step'[d] = "idle" THEN try'[d] = 0 ELSE Passed(d, item[d], try[d])'
        BY <4>1, <4>3, <4>4, <4>5 DEF TidyAt
      <4>7. \A a \in Artifacts : \A q \in places'[d][a] :
               \E n \in Nat : q = Candidate(a, n) /\ Passed(d, a, n)'
        BY <4>1, <4>3, <4>4 DEF TidyAt
      <4> QED
        BY <4>6, <4>7 DEF TidyAt, Candidate
    <3> QED
      BY <3>5, <3>6
  <2> QED
    BY <2>3, <2>4, <2>5, <2>6 DEF DNext, deliveryVars
<1>3. TidyInv => SavedInOnePlace
  <2> SUFFICES ASSUME TidyInv, edits = 0, NEW c \in Connectors, NEW a \in Artifacts,
                      Unrivalled(a), places[c][a] \cap misread[c] = {},
                      a \in Notes => places[c][a] \cap spoilt[c] = {},
                      NEW p \in places[c][a], NEW q \in places[c][a]
               PROVE  p = q
    BY DEF SavedInOnePlace
  <2>1. Types /\ WholeAt(c) /\ LeftAt(c) /\ TidyAt(c)
    BY DEF WholeInv, LeftInv
  <2> QED
    BY <2>1, OnePlace
<1> QED
  BY <1>1, <1>2, <1>3, PTL DEF DSpec
=============================================================================
