-------------------------- MODULE RevisionsProofs --------------------------
(***************************************************************************)
(* Theorems about Revisions for every number of revisions, uploads, edits, *)
(* scans, retries and deaths of the worker.                                *)
(***************************************************************************)
EXTENDS Revisions, JobQueueProofs

\* Every step of the composition is a step of the queue or leaves it alone, so
\* that what JobQueueProofs proves of the queue holds here too.
LEMMA QueueStep == RTypeOK /\ [RNext]_revisionVars => [Next]_vars
<1> SUFFICES ASSUME RTypeOK, RNext PROVE [Next]_vars
  BY DEF revisionVars
<1>1. ASSUME NEW v \in Jobs, CreateJob(v) PROVE Next
  BY <1>1 DEF Next
<1>2. ASSUME NEW w \in Workers, Handler(w) \/ WorkerDies(w) \/ ExpireRaw(w)
      PROVE  [Next]_vars
  BY <1>2 DEF Next, WorkerNext, Handler, WorkerDies, ExpireRaw, Claim, RequeueExpired,
       ReadVersion, ExtractDocument, ReplaceEvidence, Replace, CellsFail, Raise, UnlinkRaw,
       CommitIndex, Finish, Fail
<1>3. CASE Connector
  <2>1. ASSUME NEW replied \in BOOLEAN, UploadFile(replied) PROVE [Next]_vars
    <3>1. disk \in Jobs
      BY <2>1 DEF UploadFile, RTypeOK
    <3> QED
      BY <1>1, <2>1, <3>1 DEF UploadFile, Register, CurrentAfter
  <2> QED
    BY <1>3, <2>1 DEF Connector, ReportSeen, FindAbsent, EndScan
<1> QED
  BY <1>2, <1>3 DEF RNext, Edit, QueueTime, VaultPaused, Next

\* What bounds the counters that RTypeOK speaks of.
Counted ==
    /\ uploads \in 0..MaxUploads
    /\ staged \subseteq 1..uploads
    /\ raw \in [Jobs -> 0..uploads]
    /\ taken \in [Workers -> 0..uploads]
    /\ ~deleted => missing < Confirmations

RTypes == RTypeOK /\ Counted

\* A claim gives the worker a job, the end of a handler takes it away.
LEMMA ClaimHolds ==
    ASSUME TypeOK, NEW w \in Workers, ClaimJob(w)
    PROVE  \E j \in Jobs : holds' = [holds EXCEPT ![w] = j] /\ j # NoJob
BY JobsAssumption DEF ClaimJob, Claimable

\* The connector's and the user's steps keep the types.
LEMMA SourceKeepsTypes ==
    ASSUME RTypes, TypeOK', Edit \/ Connector
    PROVE  RTypes'
<1> USE DEF RTypes, RTypeOK, Counted, docVars, versionVars, handlerVars
<1>0. /\ MaxUploads \in Nat /\ Confirmations \in Nat \ {0}
      /\ uploads \in Nat
  BY RevisionsAssumption
<1>1. CASE Edit
  BY <1>1 DEF Edit, vars, workerVars
<1>2. ASSUME NEW replied \in BOOLEAN, UploadFile(replied) PROVE RTypes'
  <2>1. /\ disk \in Jobs
        /\ UNCHANGED <<holds, disk, known, step, taken, evidence>>
        /\ visit' \in {"reported", "failed"}
        /\ carried' \in Jobs \cup {None}
        /\ missing' = 0 /\ deleted' = FALSE
        /\ uploads' = uploads + 1 /\ uploads' \in 0..MaxUploads
    BY <1>0, <1>2 DEF UploadFile, Register, CurrentAfter, CreateJob, vars, workerVars
  <2>2. /\ version' \in [Jobs -> {"absent", "staged", "indexed"}]
        /\ current' \in Jobs \cup {None}
        /\ docState' \in {"indexed", "queued"}
    BY <1>2, <2>1 DEF UploadFile, Register, CurrentAfter
  <2>3. /\ raw' = raw \/ raw' = [raw EXCEPT ![disk] = uploads']
        /\ staged' = staged \/ staged' = staged \cup {uploads'}
    BY <1>2, <2>1 DEF UploadFile, Register, CurrentAfter
  <2>4. raw' \in [Jobs -> 0..uploads']
    BY <1>0, <2>1, <2>3
  <2>5. staged' \subseteq 1..uploads'
    <3>1. staged' \subseteq staged \cup {uploads + 1} /\ staged \subseteq 1..uploads
      BY <2>1, <2>3
    <3> HIDE DEF RTypes, RTypeOK, Counted
    <3> QED
      BY <1>0, <2>1, <3>1
  <2>6. taken' \in [Workers -> 0..uploads']
    BY <1>0, <2>1
  <2>7. /\ raw' \in [Jobs -> 0..MaxUploads]
        /\ staged' \subseteq 1..MaxUploads
        /\ taken' \in [Workers -> 0..MaxUploads]
    BY <1>0, <2>1, <2>4, <2>5, <2>6
  <2>8. missing' \in 0..Confirmations /\ missing' < Confirmations
    BY <1>0, <2>1
  <2> QED
    BY <2>1, <2>2, <2>4, <2>5, <2>6, <2>7, <2>8
<1>3. CASE ReportSeen
  BY <1>0, <1>3 DEF ReportSeen, vars, workerVars
<1>4. CASE FindAbsent
  BY <1>4 DEF FindAbsent, vars, workerVars
<1>5. CASE EndScan
  <2>1. /\ UNCHANGED <<holds, disk, step, taken>>
        /\ visit' = "no" /\ carried' = None
        /\ known' \in Jobs \cup {None}
    BY <1>5 DEF EndScan, vars, workerVars
  <2>2. CASE UNCHANGED <<docVars, versionVars>>
    BY <2>1, <2>2
  <2>3. CASE Confirm
    <3>0. missing' \in 0..Confirmations /\ (~deleted' => missing' < Confirmations)
      <4>1. CASE visit = "absent" /\ ~deleted
        <5>1. /\ missing' = missing + 1
              /\ ~deleted' => ~(missing + 1 >= Confirmations)
              /\ missing < Confirmations /\ missing \in 0..Confirmations
          BY <2>3, <4>1 DEF Confirm, Unseen
        <5> HIDE DEF RTypes, RTypeOK, Counted
        <5> QED
          BY <1>0, <5>1
      <4>2. CASE ~(visit = "absent" /\ ~deleted)
        BY <1>0, <2>3, <4>2 DEF Confirm, Unseen
      <4> QED
        BY <4>1, <4>2
    <3>1. /\ UNCHANGED <<current, uploads>>
          /\ docState' \in {docState, "deleted"}
          /\ deleted' \in BOOLEAN
      BY <2>3 DEF Confirm, Unseen
    <3>2. /\ version' \in [Jobs -> {"absent", "staged", "indexed"}]
          /\ raw' \in [Jobs -> 0..uploads]
          /\ evidence' \in [Jobs -> SUBSET Evidence]
          /\ staged' \subseteq staged
      BY <1>0, <2>3 DEF Confirm, Unseen
    <3>3. /\ raw' \in [Jobs -> 0..MaxUploads]
          /\ staged' \subseteq 1..uploads /\ staged' \subseteq 1..MaxUploads
      BY <1>0, <3>2
    <3> QED
      BY <2>1, <3>0, <3>1, <3>2, <3>3
  <2> QED
    BY <1>5, <2>2, <2>3 DEF EndScan
<1> QED
  BY <1>1, <1>2, <1>3, <1>4, <1>5 DEF Connector

\* So do the worker's steps.
LEMMA WorkerKeepsTypes ==
    ASSUME RTypes, TypeOK', NEW w \in Workers, Handler(w) \/ WorkerDies(w) \/ ExpireRaw(w)
    PROVE  RTypes'
<1> USE DEF RTypes, RTypeOK, Counted, sourceVars, docVars, versionVars, handlerVars, At, GoTo
<1>0. TypeOK
  OBVIOUS
<1>00. MaxUploads \in Nat /\ uploads \in Nat
  BY RevisionsAssumption
<1>1. CASE Claim(w)
  <2>1. PICK j \in Jobs : holds' = [holds EXCEPT ![w] = j] /\ j # NoJob
    BY <1>0, <1>1, ClaimHolds DEF Claim
  <2> QED
    BY <1>0, <1>1, <2>1 DEF Claim, TypeOK
<1>2. CASE RequeueExpired(w)
  BY <1>2 DEF RequeueExpired, ClaimNothing, workerVars
<1>3. CASE ReadVersion(w)
  <2>1. holds[w] \in Jobs
    BY <1>0, <1>3 DEF ReadVersion, TypeOK
  <2> QED
    BY <1>0, <1>3, <2>1 DEF ReadVersion, vars, workerVars
<1>4. CASE ExtractDocument(w)
  <2>1. /\ UNCHANGED <<vars, sourceVars, docVars, versionVars, taken>>
        /\ \E s \in {"chunks", "raised"} : step' = [step EXCEPT ![w] = s]
        /\ step[w] = "read"
    BY <1>4 DEF ExtractDocument
  <2>2. step' \in [Workers -> {"idle", "claimed", "read", "written", "unlinked",
                               "returned", "raised"} \cup Evidence]
    BY <2>1 DEF Evidence
  <2>3. \A x \in Workers : holds'[x] = NoJob <=> step'[x] = "idle"
    BY <2>1 DEF vars, workerVars
  <2> QED
    BY <2>1, <2>2, <2>3 DEF vars, workerVars
<1>5. ASSUME NEW kind \in Evidence, NEW next \in Evidence \cup {"written"}, Replace(w, kind, next)
      PROVE  RTypes'
  <2>1. /\ UNCHANGED <<holds, disk, known, visit, carried, docState, deleted, current,
                       missing, version, raw, staged, uploads, taken>>
        /\ step' = [step EXCEPT ![w] = next]
        /\ evidence' =
             [evidence EXCEPT ![holds[w]] = (@ \ Cleared(kind)) \cup ({kind} \cap Yields)]
        /\ step[w] = kind
    BY <1>5 DEF Replace, vars, workerVars
  <2>2. evidence' \in [Jobs -> SUBSET Evidence]
    BY <2>1
  <2>3. step' \in [Workers -> {"idle", "claimed", "read", "written", "unlinked",
                               "returned", "raised"} \cup Evidence]
    BY <2>1
  <2>4. \A x \in Workers : holds'[x] = NoJob <=> step'[x] = "idle"
    BY <2>1 DEF Evidence
  <2> QED
    BY <2>1, <2>2, <2>3, <2>4
<1>6. CASE CellsFail(w)
  BY <1>0, <1>6 DEF CellsFail, LoseCells, vars, workerVars, Evidence
<1>60. CASE Raise(w)
  <2>1. /\ UNCHANGED <<holds, sourceVars, docVars, versionVars, taken>>
        /\ step[w] # "idle" /\ step' = [step EXCEPT ![w] = "raised"]
    BY <1>60 DEF Raise, vars, workerVars, Evidence
  <2>2. \A x \in Workers : holds'[x] = NoJob <=> step'[x] = "idle"
    BY <2>1
  <2> QED
    BY <2>1, <2>2
<1>7. CASE UnlinkRaw(w)
  BY <1>0, <1>7 DEF UnlinkRaw, vars, workerVars
<1>8. CASE CommitIndex(w)
  <2>1. holds[w] \in Jobs
    BY <1>0, <1>8 DEF CommitIndex, TypeOK
  <2>2. /\ UNCHANGED <<holds, disk, known, visit, carried, deleted, missing, uploads, taken>>
        /\ current' = holds[w]
        /\ docState' = "indexed"
        /\ step' = [step EXCEPT ![w] = "returned"]
    BY <1>8 DEF CommitIndex, DropFailed, vars, workerVars
  <2>3. /\ version' \in [Jobs -> {"absent", "staged", "indexed"}]
        /\ raw' \in [Jobs -> 0..uploads]
        /\ evidence' \in [Jobs -> SUBSET Evidence]
        /\ staged' \subseteq staged
    BY <1>8 DEF CommitIndex
  <2>4. /\ raw' \in [Jobs -> 0..MaxUploads]
        /\ staged' \subseteq 1..uploads /\ staged' \subseteq 1..MaxUploads
    BY <1>00, <2>3
  <2>5. step' \in [Workers -> {"idle", "claimed", "read", "written", "unlinked",
                               "returned", "raised"} \cup Evidence]
    BY <2>2
  <2>6. \A x \in Workers : holds'[x] = NoJob <=> step'[x] = "idle"
    BY <1>8, <2>2 DEF CommitIndex
  <2> QED
    BY <2>1, <2>2, <2>3, <2>4, <2>5, <2>6
<1>9. CASE Finish(w) \/ Fail(w)
  <2>1. /\ holds' = [holds EXCEPT ![w] = NoJob]
        /\ step' = [step EXCEPT ![w] = "idle"]
        /\ taken' = [taken EXCEPT ![w] = 0]
        /\ UNCHANGED <<sourceVars, docVars, versionVars>>
    BY <1>9 DEF Finish, Fail, Rest, FinishJob, FailJob, Release
  <2>2. /\ taken' \in [Workers -> 0..uploads]
        /\ taken' \in [Workers -> 0..MaxUploads]
    BY <1>00, <2>1
  <2>3. \A x \in Workers : holds'[x] = NoJob <=> step'[x] = "idle"
    BY <1>0, <2>1 DEF TypeOK
  <2> QED
    BY <2>1, <2>2, <2>3
<1>10. CASE WorkerDies(w)
  <2>1. /\ holds' = [holds EXCEPT ![w] = NoJob]
        /\ step' = [step EXCEPT ![w] = "idle"]
        /\ taken' = [taken EXCEPT ![w] = 0]
        /\ UNCHANGED <<sourceVars, docVars, version, raw, staged, uploads>>
        /\ evidence' \in [Jobs -> SUBSET Evidence]
    BY <1>10 DEF WorkerDies, LoseCells, Crash, Release, Rest
  <2>2. /\ taken' \in [Workers -> 0..uploads]
        /\ taken' \in [Workers -> 0..MaxUploads]
    BY <1>00, <2>1
  <2>3. \A x \in Workers : holds'[x] = NoJob <=> step'[x] = "idle"
    BY <1>0, <2>1 DEF TypeOK
  <2> QED
    BY <2>1, <2>2, <2>3
<1>11. CASE ExpireRaw(w)
  <2>1. /\ UNCHANGED <<vars, sourceVars, docVars, version, evidence, uploads, handlerVars>>
        /\ raw' \in [Jobs -> 0..uploads]
        /\ staged' \subseteq staged
    BY <1>00, <1>11 DEF ExpireRaw
  <2>2. /\ raw' \in [Jobs -> 0..MaxUploads]
        /\ staged' \subseteq 1..uploads /\ staged' \subseteq 1..MaxUploads
    BY <1>00, <2>1
  <2> QED
    BY <2>1, <2>2 DEF vars, workerVars
<1> QED
  BY <1>1, <1>2, <1>3, <1>4, <1>5, <1>6, <1>60, <1>7, <1>8, <1>9, <1>10, <1>11
     DEF Handler, ReplaceEvidence, Evidence

LEMMA TypesStep == RTypes /\ [RNext]_revisionVars => RTypes'
<1> SUFFICES ASSUME RTypes, [RNext]_revisionVars PROVE RTypes'
  OBVIOUS
<1>1. TypeOK'
  BY QueueStep, TypeStep DEF RTypes, RTypeOK
<1>2. CASE UNCHANGED <<sourceVars, docVars, versionVars, handlerVars, workerVars>>
  BY <1>1, <1>2 DEF RTypes, RTypeOK, Counted, sourceVars, docVars, versionVars, handlerVars,
                    workerVars
<1>3. CASE QueueTime \/ VaultPaused
  BY <1>2, <1>3 DEF QueueTime, VaultPaused, LeaseRunsOut, BackoffEnds, Pause, sourceVars,
                    docVars, versionVars, handlerVars, workerVars
<1>4. CASE UNCHANGED revisionVars
  BY <1>2, <1>4 DEF revisionVars, vars
<1> QED
  BY <1>1, <1>3, <1>4, SourceKeepsTypes, WorkerKeepsTypes DEF RNext

LEMMA TypesInitially == RInit => RTypes
<1> SUFFICES ASSUME RInit PROVE RTypes
  OBVIOUS
<1>1. TypeOK
  BY HoldersInitially DEF RInit, HoldersInv
<1>2. MaxUploads \in Nat /\ Confirmations \in Nat \ {0}
  BY RevisionsAssumption
<1>3. /\ version \in [Jobs -> {"absent", "staged", "indexed"}]
      /\ raw \in [Jobs -> 0..MaxUploads]
      /\ evidence \in [Jobs -> SUBSET Evidence]
      /\ taken \in [Workers -> 0..MaxUploads]
      /\ missing \in 0..Confirmations
  BY <1>2 DEF RInit
<1>4. step \in [Workers -> {"idle"}] /\ \A w \in Workers : holds[w] = NoJob
  BY DEF RInit, Init
<1>5. RTypeOK
  BY <1>1, <1>3, <1>4 DEF RInit, RTypeOK
<1>6. Counted
  BY <1>2 DEF RInit, Counted
<1> QED
  BY <1>5, <1>6 DEF RTypes

\* Type correctness of the documents, the versions and the handler.
THEOREM RevisionsTypeCorrect == RSpec => []RTypeOK
<1>1. RTypes => RTypeOK
  BY DEF RTypes
<1> QED
  BY <1>1, TypesInitially, TypesStep, PTL DEF RSpec

-----------------------------------------------------------------------------
(* What a deletion removes stays removed, and what is indexed is whole.    *)

\* What the handler has written of what it found when it stands at a step.
WrittenBefore(s) ==
    CASE s \in {"read", "chunks"} -> {}
      [] s = "cells" -> {"chunks"}
      [] s = "previews" -> {"chunks", "cells"}
      [] OTHER -> Evidence

Extracting(w) == step[w] \in {"read", "written", "unlinked"} \cup Evidence

\* A handler that has read its version holds a copy.  If the version is gone in
\* the meantime, so is every indexed one; if it still has that copy, it has what
\* the handler wrote.
HandlerOK(w) ==
    Extracting(w) =>
        /\ taken[w] # 0
        /\ version[holds[w]] = "absent" => \A v \in Jobs : version[v] # "indexed"
        /\ version[holds[w]] # "absent" /\ raw[holds[w]] = taken[w]
              => WrittenBefore(step[w]) \cap Yields \subseteq evidence[holds[w]]

HandlerInv == \A w \in Workers : HandlerOK(w)

EvidenceFound == \A v \in Jobs : evidence[v] \subseteq Yields

IndexInv == DeletionIsComplete /\ EvidenceFound /\ HandlerInv

LEMMA IndexInitially == RInit => IndexInv
BY DEF RInit, IndexInv, DeletionIsComplete, EvidenceFound, HandlerInv, HandlerOK, Extracting,
       Evidence

\* A handler at work has a job.
LEMMA BusyHolds ==
    ASSUME RTypes, NEW w \in Workers, step[w] # "idle"
    PROVE  holds[w] \in Jobs
BY DEF RTypes, RTypeOK, TypeOK

\* Steps that change nothing the invariant speaks of.
LEMMA IndexStutters ==
    ASSUME IndexInv, UNCHANGED <<holds, deleted, versionVars, handlerVars>>
    PROVE  IndexInv'
BY DEF IndexInv, DeletionIsComplete, EvidenceFound, HandlerInv, HandlerOK, Extracting,
       versionVars, handlerVars

\* An upload gives its revision a copy that no handler has read.
LEMMA UploadKeepsIndex ==
    ASSUME RTypes, IndexInv, NEW replied \in BOOLEAN, UploadFile(replied)
    PROVE  IndexInv'
<1>1. disk \in Jobs /\ uploads \in Nat /\ \A w \in Workers : taken[w] \in 0..uploads
  BY RevisionsAssumption DEF UploadFile, RTypes, RTypeOK, Counted
<1>2. /\ UNCHANGED <<holds, evidence, step, taken>>
      /\ deleted' = FALSE
      /\ \A v \in Jobs \ {disk} : version'[v] = version[v] /\ raw'[v] = raw[v]
      /\ \/ version[disk] = "indexed" /\ version'[disk] = "indexed" /\ raw'[disk] = raw[disk]
         \/ version[disk] # "indexed" /\ version'[disk] = "staged" /\ raw'[disk] = uploads + 1
  BY <1>1 DEF UploadFile, Register, CurrentAfter, CreateJob, vars, workerVars, handlerVars, RTypes, RTypeOK
<1>3. EvidenceFound' /\ DeletionIsComplete'
  BY <1>2 DEF IndexInv, EvidenceFound, DeletionIsComplete
<1>4. ASSUME NEW w \in Workers PROVE HandlerOK(w)'
  <2> SUFFICES ASSUME Extracting(w) PROVE HandlerOK(w)'
    BY <1>2 DEF HandlerOK, Extracting
  <2>1. holds[w] \in Jobs /\ taken[w] # 0 /\ taken[w] # uploads + 1
    BY <1>1, BusyHolds DEF IndexInv, HandlerInv, HandlerOK, Extracting, Evidence
  <2>2. version'[holds[w]] = "absent" => \A v \in Jobs : version'[v] # "indexed"
    BY <1>2, <2>1 DEF IndexInv, HandlerInv, HandlerOK
  <2>3. version'[holds[w]] # "absent" /\ raw'[holds[w]] = taken[w]
          => version[holds[w]] # "absent" /\ raw[holds[w]] = taken[w]
    BY <1>2, <2>1
  <2> QED
    BY <1>2, <2>1, <2>2, <2>3 DEF IndexInv, HandlerInv, HandlerOK
<1> QED
  BY <1>3, <1>4 DEF IndexInv, HandlerInv

\* A reconciliation that deletes the document removes every version of it.
LEMMA ConfirmKeepsIndex ==
    ASSUME RTypes, IndexInv, Confirm, UNCHANGED <<holds, handlerVars>>
    PROVE  IndexInv'
<1>1. CASE UNCHANGED <<deleted, version, raw, evidence>>
  BY <1>1 DEF IndexInv, DeletionIsComplete, EvidenceFound, HandlerInv, HandlerOK, Extracting,
              handlerVars
<1>2. CASE \A v \in Jobs : version'[v] = "absent" /\ raw'[v] = 0 /\ evidence'[v] = {}
  BY <1>2, BusyHolds DEF IndexInv, DeletionIsComplete, EvidenceFound, HandlerInv, HandlerOK,
              Extracting, Evidence, handlerVars
<1>3. UNCHANGED <<deleted, version, raw, evidence>>
      \/ \A v \in Jobs : version'[v] = "absent" /\ raw'[v] = 0 /\ evidence'[v] = {}
  BY DEF Confirm, Unseen, RTypes, RTypeOK
<1> QED
  BY <1>1, <1>2, <1>3

\* The steps of the handler, and its death.
LEMMA WorkerKeepsIndex ==
    ASSUME RTypes, IndexInv, NEW w \in Workers, Handler(w) \/ WorkerDies(w) \/ ExpireRaw(w)
    PROVE  IndexInv'
<1> USE DEF IndexInv, HandlerInv, versionVars, handlerVars, At, GoTo
<1>a. Workers = {w}
  BY SingleWorker
<1>b. step[w] # "idle" => holds[w] \in Jobs
  BY BusyHolds
<1>c. DOMAIN step = Workers /\ step = [x \in Workers |-> step[x]]
  BY DEF RTypes, RTypeOK
<1>0. /\ Workers = {w}
      /\ step[w] # "idle" => holds[w] \in Jobs
      /\ DOMAIN step = Workers /\ step = [x \in Workers |-> step[x]]
  BY <1>a, <1>b, <1>c
<1>1. CASE Claim(w) \/ RequeueExpired(w) \/ Finish(w) \/ Fail(w)
  <2>1. /\ UNCHANGED <<deleted, version, raw, evidence>>
        /\ step'[w] \in {"idle", "claimed"}
    BY <1>0, <1>1 DEF Claim, RequeueExpired, Finish, Fail, Rest, docVars
  <2> QED
    BY <1>0, <2>1 DEF DeletionIsComplete, EvidenceFound, HandlerOK, Extracting, Evidence
<1>2. CASE ReadVersion(w)
  <2>1. /\ UNCHANGED <<holds, deleted, version, raw, evidence>>
        /\ taken'[w] = raw[holds[w]]
        /\ \/ step'[w] = "raised"
           \/ step'[w] = "read" /\ version[holds[w]] # "absent" /\ raw[holds[w]] # 0
    BY <1>0, <1>2 DEF ReadVersion, vars, workerVars, docVars, RTypes, RTypeOK
  <2> QED
    BY <1>0, <2>1 DEF DeletionIsComplete, EvidenceFound, HandlerOK, Extracting, Evidence,
                      WrittenBefore
<1>3. CASE ExtractDocument(w)
  <2>1. /\ UNCHANGED <<holds, deleted, version, raw, evidence, taken>>
        /\ step[w] = "read" /\ step'[w] \in {"chunks", "raised"}
    BY <1>0, <1>3 DEF ExtractDocument, vars, workerVars, docVars
  <2> QED
    BY <1>0, <2>1 DEF DeletionIsComplete, EvidenceFound, HandlerOK, Extracting, Evidence,
                      WrittenBefore
<1>4. ASSUME NEW kind \in Evidence, NEW next \in Evidence \cup {"written"},
             WrittenBefore(next) = WrittenBefore(kind) \cup {kind},
             Replace(w, kind, next)
      PROVE  IndexInv'
  <2>1. /\ UNCHANGED <<holds, deleted, version, raw, taken>>
        /\ step[w] = kind /\ step'[w] = next /\ holds[w] \in Jobs
        /\ evidence' =
             [evidence EXCEPT ![holds[w]] = (@ \ Cleared(kind)) \cup ({kind} \cap Yields)]
        /\ kind \in Yields => version[holds[w]] # "absent"
    BY <1>0, <1>4 DEF Replace, RowsAccepted, vars, workerVars, docVars, Evidence
  <2>2. /\ evidence'[holds[w]] = (evidence[holds[w]] \ Cleared(kind)) \cup ({kind} \cap Yields)
        /\ \A v \in Jobs \ {holds[w]} : evidence'[v] = evidence[v]
    BY <2>1 DEF RTypes, RTypeOK
  <2>3. EvidenceFound'
    BY <2>1, <2>2 DEF EvidenceFound
  <2>4. DeletionIsComplete'
    BY <2>1, <2>2 DEF DeletionIsComplete
  <2>5. WrittenBefore(kind) \cap Cleared(kind) = {}
    BY DEF WrittenBefore, Cleared, Evidence
  <2>6. HandlerOK(w)'
    BY <1>0, <1>4, <2>1, <2>2, <2>5 DEF HandlerOK, Extracting
  <2> QED
    BY <1>0, <2>3, <2>4, <2>6
<1>5. CASE CellsFail(w)
  <2>1. /\ UNCHANGED <<holds, deleted, version, raw>>
        /\ step'[w] = "raised"
        /\ \A v \in Jobs : evidence'[v] \subseteq evidence[v]
    BY <1>0, <1>5 DEF CellsFail, LoseCells, vars, workerVars, docVars, RTypes, RTypeOK
  <2> QED
    BY <1>0, <2>1 DEF DeletionIsComplete, EvidenceFound, HandlerOK, Extracting, Evidence
<1>50. CASE Raise(w)
  <2>1. /\ UNCHANGED <<holds, deleted, version, raw, evidence, taken>>
        /\ step'[w] = "raised"
    BY <1>0, <1>50 DEF Raise, vars, workerVars, docVars
  <2> QED
    BY <1>0, <2>1 DEF DeletionIsComplete, EvidenceFound, HandlerOK, Extracting, Evidence
<1>6. CASE UnlinkRaw(w)
  <2>1. /\ UNCHANGED <<holds, deleted, version, raw, evidence, taken>>
        /\ step[w] = "written" /\ step'[w] = "unlinked"
    BY <1>0, <1>6 DEF UnlinkRaw, vars, workerVars, docVars
  <2>2. WrittenBefore(step'[w]) = WrittenBefore(step[w])
    BY <2>1 DEF WrittenBefore
  <2> QED
    BY <1>0, <2>1, <2>2 DEF DeletionIsComplete, EvidenceFound, HandlerOK, Extracting
<1>7. CASE CommitIndex(w)
  <2>1. /\ UNCHANGED deleted /\ holds[w] \in Jobs
        /\ step'[w] = "returned"
        /\ \A v \in Jobs : /\ evidence'[v] \in {{}, evidence[v]}
                           /\ version[v] = "absent" => version'[v] = "absent"
                           /\ raw[v] = 0 => raw'[v] = 0
    BY <1>0, <1>7 DEF CommitIndex, Obsolete
  <2> QED
    BY <1>0, <2>1 DEF DeletionIsComplete, EvidenceFound, HandlerOK, Extracting, Evidence
<1>8. CASE WorkerDies(w)
  <2>1. /\ UNCHANGED <<deleted, version, raw>>
        /\ step'[w] = "idle"
        /\ \A v \in Jobs : evidence'[v] \subseteq evidence[v]
    BY <1>0, <1>8 DEF WorkerDies, LoseCells, Rest, docVars, RTypes, RTypeOK
  <2> QED
    BY <1>0, <2>1 DEF DeletionIsComplete, EvidenceFound, HandlerOK, Extracting, Evidence
<1>9. CASE ExpireRaw(w)
  <2>1. /\ UNCHANGED <<holds, deleted, version, evidence, step>>
        /\ step[w] = "idle"
        /\ \A v \in Jobs : raw[v] = 0 => raw'[v] = 0
    BY <1>0, <1>9 DEF ExpireRaw, vars, workerVars, docVars
  <2> QED
    BY <1>0, <2>1 DEF DeletionIsComplete, EvidenceFound, HandlerOK, Extracting, Evidence
<1>10. /\ WrittenBefore("cells") = WrittenBefore("chunks") \cup {"chunks"}
       /\ WrittenBefore("previews") = WrittenBefore("cells") \cup {"cells"}
       /\ WrittenBefore("written") = WrittenBefore("previews") \cup {"previews"}
  BY DEF WrittenBefore, Evidence
<1> QED
  BY <1>1, <1>2, <1>3, <1>4, <1>5, <1>50, <1>6, <1>7, <1>8, <1>9, <1>10
     DEF Handler, ReplaceEvidence, Evidence

LEMMA IndexStep == RTypes /\ IndexInv /\ [RNext]_revisionVars => IndexInv'
<1> SUFFICES ASSUME RTypes, IndexInv, [RNext]_revisionVars PROVE IndexInv'
  OBVIOUS
<1>1. CASE UNCHANGED <<holds, deleted, versionVars, handlerVars>>
  BY <1>1, IndexStutters
<1>2. CASE Edit \/ QueueTime \/ VaultPaused \/ UNCHANGED revisionVars
  BY <1>1, <1>2 DEF Edit, QueueTime, VaultPaused, LeaseRunsOut, BackoffEnds, Pause,
                    revisionVars, vars, workerVars, docVars
<1>3. CASE Connector
  <2>1. CASE ReportSeen \/ FindAbsent
    BY <1>1, <2>1 DEF ReportSeen, FindAbsent, vars, workerVars, docVars
  <2>2. CASE EndScan
    BY <1>1, <2>2, ConfirmKeepsIndex DEF EndScan, vars, workerVars, docVars
  <2> QED
    BY <1>3, <2>1, <2>2, UploadKeepsIndex DEF Connector
<1> QED
  BY <1>2, <1>3, WorkerKeepsIndex DEF RNext

LEMMA IndexAlways == RSpec => [](RTypes /\ IndexInv)
BY TypesInitially, TypesStep, IndexInitially, IndexStep, PTL DEF RSpec

\* A deleted document leaves nothing to find, whatever was being extracted.
THEOREM DeletionHolds == RSpec => []DeletionIsComplete
<1>1. IndexInv => DeletionIsComplete
  BY DEF IndexInv
<1> QED
  BY <1>1, IndexAlways, PTL

\* What a step indexes has all its evidence.
LEMMA IndexedStep ==
    ASSUME RTypes, IndexInv, [RNext]_revisionVars, NEW v \in Jobs,
           version[v] # "indexed", version'[v] = "indexed"
    PROVE  \/ evidence[v] = Yields
           \/ \A w \in Workers : holds[w] = v => taken[w] # raw[v]
<1>1. \/ \E replied \in BOOLEAN : UploadFile(replied)
      \/ Confirm
      \/ \E w \in Workers : CommitIndex(w)
  BY DEF RNext, Connector, Handler, Edit, ReportSeen, FindAbsent, EndScan, Claim, RequeueExpired,
         ReadVersion, ExtractDocument, ReplaceEvidence, Replace, CellsFail, Raise, UnlinkRaw,
         Finish, Fail, WorkerDies, ExpireRaw, QueueTime, VaultPaused, versionVars, revisionVars
<1>2. ~Confirm
  BY DEF Confirm, Unseen, RTypes, RTypeOK
<1>3. ASSUME NEW replied \in BOOLEAN, UploadFile(replied) PROVE FALSE
  BY <1>3 DEF UploadFile, Register, CurrentAfter, RTypes, RTypeOK
<1>4. ASSUME NEW w \in Workers, CommitIndex(w), NEW x \in Workers, holds[x] = v, taken[x] = raw[v]
      PROVE  evidence[v] = Yields
  <2>1. x = w /\ step[w] = "unlinked"
    BY <1>4, SingleWorker DEF CommitIndex, At
  <2>2. version[v] # "absent"
    BY <1>4 DEF CommitIndex, Obsolete
  <2>3. WrittenBefore("unlinked") \cap Yields \subseteq evidence[v]
    BY <1>4, <2>1, <2>2 DEF IndexInv, HandlerInv, HandlerOK, Extracting
  <2>4. Yields \subseteq evidence[v]
    BY <2>3, RevisionsAssumption DEF WrittenBefore, Evidence
  <2> QED
    BY <2>4 DEF IndexInv, EvidenceFound
<1> QED
  BY <1>1, <1>2, <1>3, <1>4

\* Through crashes, retries and deletions nothing becomes indexed half written.
THEOREM IndexedIsWholeHolds == RSpec => IndexedIsWhole
<1>1. RTypes /\ IndexInv /\ [RNext]_revisionVars =>
        [\A v \in Jobs :
            version[v] # "indexed" /\ version'[v] = "indexed" =>
                \/ evidence[v] = Yields
                \/ \A w \in Workers : holds[w] = v => taken[w] # raw[v]]_revisionVars
  BY IndexedStep
<1> QED
  BY <1>1, IndexAlways, PTL DEF RSpec, IndexedIsWhole

\* A step that does not delete the document leaves it searchable.
LEMMA SearchableStep ==
    ASSUME RTypes, IndexInv, [RNext]_revisionVars, Searchable, ~deleted'
    PROVE  Searchable'
<1>0. current \in Jobs /\ None \notin Jobs
  BY RevisionsAssumption DEF Searchable, RTypes, RTypeOK
<1>1. CASE UNCHANGED <<current, version>>
  BY <1>1 DEF Searchable
<1>2. ASSUME NEW replied \in BOOLEAN, UploadFile(replied) PROVE Searchable'
  <2>1. disk \in Jobs
    BY <1>2 DEF UploadFile, RTypes, RTypeOK
  <2>2. CASE version[disk] = "indexed"
    BY <1>0, <1>2, <2>1, <2>2 DEF UploadFile, Register, CurrentAfter, Searchable
  <2>3. CASE version[disk] # "indexed"
    BY <1>0, <1>2, <2>1, <2>3 DEF UploadFile, Register, CurrentAfter, Searchable, RTypes, RTypeOK
  <2> QED
    BY <2>2, <2>3
<1>3. CASE Confirm
  BY <1>0, <1>3 DEF Confirm, Unseen, Searchable, RTypes, RTypeOK
<1>4. ASSUME NEW w \in Workers, CommitIndex(w) PROVE Searchable'
  <2>1. holds[w] \in Jobs
    BY <1>4, BusyHolds DEF CommitIndex, At
  <2>2. version[holds[w]] # "absent"
    BY <1>0, <1>4 DEF CommitIndex, At, Searchable, IndexInv, HandlerInv, HandlerOK, Extracting
  <2>3. version'[holds[w]] = "indexed" /\ current' = holds[w]
    BY <1>4, <2>1, <2>2 DEF CommitIndex, Obsolete, RTypes, RTypeOK
  <2> QED
    BY <1>0, <2>1, <2>3 DEF Searchable
<1> QED
  BY <1>1, <1>2, <1>3, <1>4
     DEF RNext, Connector, Handler, Edit, ReportSeen, FindAbsent, EndScan, Claim, RequeueExpired,
         ReadVersion, ExtractDocument, ReplaceEvidence, Replace, CellsFail, Raise, UnlinkRaw,
         Finish, Fail, WorkerDies, ExpireRaw, QueueTime, VaultPaused, docVars, versionVars, revisionVars

\* Only a deletion ends the searchability of a document.
THEOREM SearchableHolds == RSpec => SearchableStays
<1>1. RTypes /\ IndexInv /\ [RNext]_revisionVars =>
        [Searchable /\ ~deleted' => Searchable']_revisionVars
  BY SearchableStep
<1> QED
  BY <1>1, IndexAlways, PTL DEF RSpec, SearchableStays
-----------------------------------------------------------------------------
(* The document keeps the promise of DocumentPromise.                      *)

Staged == {v \in Jobs : version[v] = "staged"}
Indexed == {v \in Jobs : version[v] = "indexed"}
Shown == IF Searchable THEN current ELSE None

\* An upload is a delivery: a revision that is indexed is shown at once.
LEMMA UploadDelivers ==
    ASSUME RTypes, IndexInv, NEW replied \in BOOLEAN, UploadFile(replied)
    PROVE  Document!Deliver(disk) /\ disk \in Jobs
<1>0. disk \in Jobs /\ disk # None
  BY DEF UploadFile, RTypes, RTypeOK
<1>1. missing' = 0 /\ deleted' = FALSE
  BY DEF UploadFile, Register
<1>2. CASE version[disk] = "indexed"
  <2>1. UNCHANGED version /\ current' = disk
    BY <1>2 DEF UploadFile, Register, CurrentAfter
  <2> QED
    BY <1>0, <1>1, <1>2, <2>1 DEF Document!Deliver, Searchable
<1>3. CASE version[disk] # "indexed"
  <2>1. version' = [version EXCEPT ![disk] = "staged"] /\ current' = current
    BY <1>3 DEF UploadFile, Register, CurrentAfter
  <2>2. version \in [Jobs -> {"absent", "staged", "indexed"}]
    BY DEF RTypes, RTypeOK
  <2>3. Staged' = Staged \cup {disk} /\ Indexed' = Indexed
    BY <1>0, <1>3, <2>1, <2>2 DEF Staged, Indexed
  <2>4. current \in Jobs => (version'[current] = "indexed" <=> version[current] = "indexed")
    BY <1>0, <1>3, <2>1, <2>2
  <2>5. deleted => \A v \in Jobs : version[v] # "indexed"
    BY DEF IndexInv, DeletionIsComplete
  <2>6. current \in Jobs \cup {None}
    BY DEF RTypes, RTypeOK
  <2>7. Searchable' <=> Searchable
    BY <1>1, <2>1, <2>4, <2>5, <2>6 DEF Searchable
  <2>8. Shown' = Shown
    BY <2>1, <2>7 DEF Shown
  <2> QED
    BY <1>0, <1>1, <1>3, <2>3, <2>8 DEF Document!Deliver, Staged, Indexed, Shown
<1> QED
  BY <1>0, <1>2, <1>3

\* A complete reconciliation misses the document or leaves it as it is.
LEMMA ConfirmMisses ==
    ASSUME RTypes, Confirm
    PROVE  Document!Miss \/ UNCHANGED <<current, missing, deleted, version>>
<1>0. missing \in Nat /\ Confirmations \in Nat \ {0}
  BY RevisionsAssumption DEF RTypes, RTypeOK
<1>1. CASE ~Unseen
  BY <1>1 DEF Confirm, RTypes, RTypeOK
<1>2. CASE Unseen /\ ~(missing + 1 >= Confirmations)
  <2>1. missing' = missing + 1 /\ UNCHANGED <<current, deleted, version>> /\ ~deleted
    BY <1>2 DEF Confirm, Unseen, RTypes, RTypeOK
  <2>2. missing + 1 < Confirmations
    BY <1>0, <1>2
  <2> QED
    BY <2>1, <2>2 DEF Document!Miss, Searchable
<1>3. CASE Unseen /\ missing + 1 >= Confirmations
  <2>1. /\ missing' = missing + 1 /\ ~deleted /\ deleted' = TRUE
        /\ \A v \in Jobs : version'[v] = "absent"
    BY <1>3 DEF Confirm, Unseen
  <2>2. ~(missing' < Confirmations)
    BY <1>0, <1>3, <2>1
  <2>3. ~Searchable'
    BY <2>1 DEF Searchable
  <2> QED
    BY <2>1, <2>2, <2>3 DEF Document!Miss
<1> QED
  BY <1>1, <1>2, <1>3

\* The last transaction of an extraction publishes its revision, or, when a deletion
\* came first, gives up the copies that were delivered after it.
LEMMA CommitPublishes ==
    ASSUME RTypes, IndexInv, NEW w \in Workers, CommitIndex(w)
    PROVE  holds[w] \in Jobs /\ (Document!Publish(holds[w]) \/ Document!GiveUp)
<1> DEFINE v == holds[w]
<1>0. v \in Jobs /\ v # None
  BY BusyHolds, RevisionsAssumption DEF CommitIndex, At
<1>1. /\ current' = v /\ UNCHANGED <<deleted, missing>>
      /\ \A u \in Jobs : /\ u # v /\ version[u] = "staged" => version'[u] = "absent"
                         /\ u = v /\ version[u] = "staged" => version'[u] = "indexed"
                         /\ version[u] # "staged" => version'[u] = version[u]
  BY DEF CommitIndex, Obsolete
<1>2. version \in [Jobs -> {"absent", "staged", "indexed"}]
  BY DEF RTypes, RTypeOK
<1>3. Staged' = {}
  BY <1>1 DEF Staged
<1>4. CASE version[v] = "absent"
  <2>1. \A u \in Jobs : version[u] # "indexed"
    BY <1>4 DEF CommitIndex, At, IndexInv, HandlerInv, HandlerOK, Extracting
  <2>2. Indexed = {} /\ Indexed' = {}
    BY <1>0, <1>1, <1>2, <1>4, <2>1 DEF Indexed
  <2>3. Shown = None /\ Shown' = None
    <3>1. ~Searchable
      BY <2>1 DEF Searchable, RTypes, RTypeOK
    <3>2. ~Searchable'
      BY <1>0, <1>1, <1>4 DEF Searchable
    <3> QED
      BY <3>1, <3>2 DEF Shown
  <2> QED
    BY <1>0, <1>1, <1>3, <2>2, <2>3 DEF Document!GiveUp, Staged, Indexed, Shown
<1>5. CASE version[v] # "absent"
  <2>1. ~deleted
    BY <1>0, <1>5 DEF IndexInv, DeletionIsComplete
  <2>2. v \in Staged \cup Indexed /\ version'[v] = "indexed"
    BY <1>0, <1>1, <1>2, <1>5 DEF Staged, Indexed
  <2>3. Indexed' = Indexed \cup {v}
    BY <1>0, <1>1, <1>2, <2>2 DEF Indexed
  <2>4. Shown' = v
    BY <1>0, <1>1, <2>1, <2>2 DEF Shown, Searchable
  <2> QED
    BY <1>0, <1>1, <1>3, <2>1, <2>2, <2>3, <2>4 DEF Document!Publish, Staged, Indexed, Shown
<1> QED
  BY <1>0, <1>2, <1>4, <1>5

\* Every step of the composition is a step of the promise or leaves the document alone.
LEMMA DocumentStep ==
    ASSUME RTypes, IndexInv, [RNext]_revisionVars
    PROVE  [Document!ONext]_(Document!documentVars)
<1>1. CASE UNCHANGED <<current, missing, deleted, version>>
  BY <1>1 DEF Document!documentVars, Searchable
<1>2. ASSUME NEW replied \in BOOLEAN, UploadFile(replied)
      PROVE  Document!ONext
  <2>1. PICK v \in Jobs : v = disk /\ Document!Deliver(v)
    BY <1>2, UploadDelivers DEF Document!Deliver
  <2> QED
    BY <2>1 DEF Document!ONext
<1>3. CASE ReportSeen
  BY <1>3 DEF ReportSeen, Document!ONext, Document!See, Searchable, versionVars
<1>4. CASE Confirm
  BY <1>1, <1>4, ConfirmMisses DEF Document!ONext
<1>5. ASSUME NEW w \in Workers, CommitIndex(w) PROVE Document!ONext
  <2>1. PICK v \in Jobs : v = holds[w] /\ (Document!Publish(v) \/ Document!GiveUp)
    BY <1>5, CommitPublishes DEF Document!Publish
  <2> QED
    BY <2>1 DEF Document!ONext
<1> QED
  BY <1>1, <1>2, <1>3, <1>4, <1>5
     DEF RNext, Connector, Handler, Edit, FindAbsent, EndScan, Claim, RequeueExpired,
         ReadVersion, ExtractDocument, ReplaceEvidence, Replace, CellsFail, Raise, UnlinkRaw,
         Finish, Fail, WorkerDies, ExpireRaw, QueueTime, VaultPaused, docVars, versionVars, revisionVars

\* A document implements the promise of DocumentPromise, whatever uploads, extractions,
\* deaths, expiries and deletions overlap.
THEOREM DocumentKept == RSpec => KeepsDocument
<1>1. RInit => Document!OInit
  BY DEF RInit, Document!OInit, Searchable
<1>2. RTypes /\ IndexInv /\ [RNext]_revisionVars => [Document!ONext]_(Document!documentVars)
  BY DocumentStep
<1> QED
  BY <1>1, <1>2, IndexAlways, PTL DEF RSpec, KeepsDocument, Document!OSpec
=============================================================================
