-------------------------- MODULE InspectionProofs --------------------------
(***************************************************************************)
(* Theorems about Inspection for every number of attachments, requests and *)
(* deaths, on top of what JobQueueProofs shows of the queue.               *)
(***************************************************************************)
EXTENDS Inspection, JobQueueProofs

-----------------------------------------------------------------------------
(* The queue beneath                                                       *)

\* To the queue, an inspection's step is one of its own, none, or a death that it does
\* not notice.
LEMMA QueueSteps ==
    ASSUME [INext]_inspectionVars
    PROVE  \/ [Next]_vars
           \/ crashes < MaxCrashes /\ crashes' = crashes + 1
              /\ UNCHANGED <<queueVars, clockVars, paused, workerVars, requests>>
<1>1. CASE \E i \in Jobs : Download(i) \/ InsertRow(i) \/ AskForJob(i) \/ ToolFails(i) \/ Expire(i)
  BY <1>1 DEF Download, InsertRow, AskForJob, ToolFails, Expire, Next
<1>2. ASSUME NEW w \in Workers, Handler(w)
      PROVE  [Next]_vars
  BY <1>2 DEF Handler, Claim, RequeueExpired, ReadRow, KeepResult, DiscardBytes, ExtractionFails,
     Finish, Fail, RecordFailure, Next, WorkerNext
<1>3. ASSUME NEW w \in Workers, WorkerDies(w) \/ Cleanup(w) \/ CleanupFails(w)
      PROVE  \/ [Next]_vars
             \/ crashes < MaxCrashes /\ crashes' = crashes + 1
                /\ UNCHANGED <<queueVars, clockVars, paused, workerVars, requests>>
  BY <1>3 DEF WorkerDies, Cleanup, CleanupFails, Next, WorkerNext
<1>4. CASE QueueTime \/ VaultPaused
  BY <1>4 DEF QueueTime, VaultPaused, Next
<1>5. CASE UNCHANGED inspectionVars
  BY <1>5 DEF inspectionVars
<1> QED
  BY <1>1, <1>2, <1>3, <1>4, <1>5 DEF INext

LEMMA HoldersStay == HoldersInv /\ [INext]_inspectionVars => HoldersInv'
<1> SUFFICES ASSUME HoldersInv, [INext]_inspectionVars PROVE HoldersInv'
  OBVIOUS
<1>1. CASE [Next]_vars
  BY <1>1, HoldersStep
<1>2. CASE /\ crashes < MaxCrashes /\ crashes' = crashes + 1
           /\ UNCHANGED <<queueVars, clockVars, paused, workerVars, requests>>
  <2>1. TypeOK'
    BY <1>2, BoundsAssumption DEF HoldersInv, TypeOK, queueVars, clockVars, workerVars
  <2> QED
    BY <1>2, <2>1, OthersKeepHolders DEF queueVars
<1> QED
  BY <1>1, <1>2, QueueSteps

-----------------------------------------------------------------------------
(* The table of inspections and its handlers                               *)

Positions == {"idle", "claimed", "extracting", "kept", "returned", "raised", "failing"}

\* The rows and the calls keep to their types.
RowsOK ==
    /\ call \in [Jobs -> {"none", "staged", "inserted", "answered", "failed"}]
    /\ row \in [Jobs -> {"none", "queued", "complete", "failed"}]
    /\ path \in [Jobs -> BOOLEAN] /\ file \in [Jobs -> BOOLEAN] /\ old \in [Jobs -> BOOLEAN]
    /\ lost \subseteq Jobs

\* The handlers' positions fit what the queue and fail_job have for them.
HandlersOK ==
    /\ step \in [Workers -> Positions]
    /\ giveUp \in [Workers -> Jobs \cup {NoJob}]
    /\ \A w \in Workers : holds[w] = NoJob <=> step[w] \in {"idle", "failing"}
    /\ \A w \in Workers : giveUp[w] # NoJob <=> step[w] = "failing"

\* The inductive invariant behind the theorems below.
InspectionInv ==
    HoldersInv /\ RowsOK /\ HandlersOK /\ StrayBytesHaveACause /\ ExtractsOnlyQueued

LEMMA HeldIsAJob ==
    ASSUME InspectionInv, NEW w \in Workers, step[w] \notin {"idle", "failing"}
    PROVE  holds[w] \in Jobs
BY DEF InspectionInv, HandlersOK, HoldersInv, TypeOK

LEMMA RowsStayTyped ==
    ASSUME InspectionInv, INext
    PROVE  RowsOK'
<1>0. RowsOK
  BY DEF InspectionInv
<1>1. ASSUME NEW i \in Jobs, Download(i) \/ InsertRow(i) \/ AskForJob(i) \/ ToolFails(i) \/ Expire(i)
      PROVE  RowsOK'
  <2>1. CASE Download(i)
    BY <1>0, <2>1 DEF Download, RowsOK
  <2>2. CASE InsertRow(i)
    BY <1>0, <2>2 DEF InsertRow, RowsOK
  <2>3. CASE AskForJob(i)
    BY <1>0, <2>3 DEF AskForJob, RowsOK, rowVars
  <2>4. CASE ToolFails(i)
    BY <1>0, <2>4 DEF ToolFails, RowsOK, rowVars
  <2>5. CASE Expire(i)
    BY <1>0, <2>5 DEF Expire, RowsOK, toolVars
  <2> QED
    BY <1>1, <2>1, <2>2, <2>3, <2>4, <2>5
<1>2. ASSUME NEW w \in Workers, Claim(w) \/ RequeueExpired(w) \/ ReadRow(w) \/ Finish(w) \/ Fail(w)
      PROVE  RowsOK'
  BY <1>0, <1>2 DEF Claim, RequeueExpired, ReadRow, Finish, Fail, RowsOK, toolVars, rowVars
<1>a. ASSUME NEW w \in Workers, WorkerDies(w) PROVE RowsOK'
  <2>1. /\ file' \in {file, Emptied(giveUp[w])}
        /\ lost' = IF step[w] = "kept" THEN lost \cup {holds[w]} ELSE lost
        /\ UNCHANGED <<call, row, path, old>>
    BY <1>a DEF WorkerDies, toolVars
  <2>2. file' \in [Jobs -> BOOLEAN]
    BY <1>0, <2>1 DEF RowsOK, Emptied
  <2>3. lost' \subseteq Jobs
    BY <1>0, <2>1, HeldIsAJob DEF RowsOK
  <2> QED
    BY <1>0, <2>1, <2>2, <2>3 DEF RowsOK
<1>3. ASSUME NEW w \in Workers, KeepResult(w) \/ DiscardBytes(w) \/ ExtractionFails(w)
      PROVE  RowsOK'
  <2>1. holds[w] \in Jobs
    BY <1>3, HeldIsAJob DEF KeepResult, DiscardBytes, ExtractionFails
  <2> QED
    BY <1>0, <1>3, <2>1 DEF KeepResult, DiscardBytes, ExtractionFails, RowsOK, toolVars
<1>4. ASSUME NEW w \in Workers, RecordFailure(w) PROVE RowsOK'
  <2>1. /\ file' = Emptied(giveUp[w])
        /\ row' = [row EXCEPT ![giveUp[w]] = IF @ = "none" THEN @ ELSE "failed"]
        /\ path' = [path EXCEPT ![giveUp[w]] = FALSE]
        /\ UNCHANGED <<call, old, lost>>
    BY <1>4 DEF RecordFailure, toolVars
  <2>2. file' \in [Jobs -> BOOLEAN] /\ path' \in [Jobs -> BOOLEAN]
    BY <1>0, <2>1 DEF RowsOK, Emptied
  <2>3. row' \in [Jobs -> {"none", "queued", "complete", "failed"}]
    BY <1>0, <2>1 DEF RowsOK
  <2> QED
    BY <1>0, <2>1, <2>2, <2>3 DEF RowsOK
<1>5. ASSUME NEW w \in Workers, Cleanup(w) \/ CleanupFails(w) PROVE RowsOK'
  BY <1>0, <1>5 DEF Cleanup, CleanupFails, RowsOK, toolVars
<1>6. CASE QueueTime \/ VaultPaused
  BY <1>0, <1>6 DEF QueueTime, VaultPaused, RowsOK, toolVars, rowVars
<1> QED
  BY <1>1, <1>2, <1>a, <1>3, <1>4, <1>5, <1>6 DEF INext, Handler

LEMMA HandlersStayFit ==
    ASSUME InspectionInv, INext
    PROVE  HandlersOK'
<1> USE DEF handlerVars, workerVars
<1>0. HandlersOK /\ TypeOK
  BY DEF InspectionInv, HoldersInv
<1>1. ASSUME UNCHANGED <<holds, step, giveUp>>
      PROVE  HandlersOK'
  BY <1>0, <1>1 DEF HandlersOK
<1>2. ASSUME NEW w \in Workers, NEW s \in Positions \ {"idle", "failing"}, holds[w] # NoJob,
             step[w] # "failing",
             UNCHANGED <<holds, giveUp>>, step' = [step EXCEPT ![w] = s]
      PROVE  HandlersOK'
  BY <1>0, <1>2 DEF HandlersOK, TypeOK
<1>3. ASSUME NEW w \in Workers, step[w] # "failing", holds' = [holds EXCEPT ![w] = NoJob],
             step' = [step EXCEPT ![w] = "idle"], UNCHANGED giveUp
      PROVE  HandlersOK'
  BY <1>0, <1>3 DEF HandlersOK, TypeOK, Positions
<1>4. ASSUME NEW i \in Jobs, Download(i) \/ InsertRow(i) \/ AskForJob(i) \/ ToolFails(i) \/ Expire(i)
      PROVE  HandlersOK'
  BY <1>1, <1>4 DEF Download, InsertRow, AskForJob, CreateJob, ToolFails, Expire, vars
<1>5. ASSUME NEW w \in Workers, Claim(w) PROVE HandlersOK'
  <2>1. PICK j \in Jobs : holds' = [holds EXCEPT ![w] = j]
    BY <1>5 DEF Claim, ClaimJob, Claimable
  <2> QED
    BY <1>0, <1>5, <2>1, JobsAssumption DEF Claim, Idle, HandlersOK, TypeOK, Positions
<1>6. ASSUME NEW w \in Workers, RequeueExpired(w) \/ Cleanup(w) \/ CleanupFails(w)
      PROVE  HandlersOK'
  BY <1>1, <1>6 DEF RequeueExpired, ClaimNothing, Cleanup, CleanupFails, vars
<1>7. ASSUME NEW w \in Workers, ReadRow(w) PROVE HandlersOK'
  <2>1. \E s \in {"extracting", "raised"} : step' = [step EXCEPT ![w] = s]
    BY <1>7 DEF ReadRow
  <2> QED
    BY <1>0, <1>2, <1>7, <2>1 DEF ReadRow, HandlersOK, vars, Positions
<1>8. ASSUME NEW w \in Workers, KeepResult(w) \/ DiscardBytes(w) \/ ExtractionFails(w) PROVE HandlersOK'
  BY <1>0, <1>2, <1>8 DEF KeepResult, DiscardBytes, ExtractionFails, HandlersOK, vars, Positions
<1>9. ASSUME NEW w \in Workers, Finish(w) PROVE HandlersOK'
  BY <1>3, <1>9 DEF Finish, FinishJob, Release
<1>10. ASSUME NEW w \in Workers, Fail(w) PROVE HandlersOK'
  <2>1. holds' = [holds EXCEPT ![w] = NoJob] /\ holds[w] \in Jobs /\ step[w] = "raised"
    BY <1>0, <1>10 DEF Fail, FailJob, Release, TypeOK
  <2>2. CASE RetryAllowed(w)
    BY <1>3, <1>10, <2>1, <2>2 DEF Fail
  <2>3. CASE ~RetryAllowed(w)
    <3>1. step' = [step EXCEPT ![w] = "failing"] /\ giveUp' = [giveUp EXCEPT ![w] = holds[w]]
      BY <1>10, <2>3 DEF Fail
    <3> QED
      BY <1>0, <2>1, <3>1, JobsAssumption DEF HandlersOK, TypeOK, Positions
  <2> QED
    BY <2>2, <2>3
<1>11. ASSUME NEW w \in Workers, RecordFailure(w) PROVE HandlersOK'
  BY <1>0, <1>11 DEF RecordFailure, HandlersOK, TypeOK, Positions, vars
<1>12. ASSUME NEW w \in Workers, WorkerDies(w) PROVE HandlersOK'
  <2>1. /\ holds' = [holds EXCEPT ![w] = NoJob]
        /\ step' = [step EXCEPT ![w] = "idle"] /\ giveUp' = [giveUp EXCEPT ![w] = NoJob]
    <3>1. step[w] = "failing" => holds[w] = NoJob /\ holds' = holds
      BY <1>0, <1>12 DEF WorkerDies, HandlersOK
    <3>2. step[w] # "failing" => holds' = [holds EXCEPT ![w] = NoJob]
      BY <1>12 DEF WorkerDies, Crash, Release
    <3> QED
      BY <1>0, <1>12, <3>1, <3>2 DEF WorkerDies, TypeOK
  <2> QED
    BY <1>0, <2>1 DEF HandlersOK, TypeOK, Positions
<1>13. CASE QueueTime \/ VaultPaused
  BY <1>1, <1>13 DEF QueueTime, VaultPaused, LeaseRunsOut, BackoffEnds, Pause
<1> QED
  BY <1>4, <1>5, <1>6, <1>7, <1>8, <1>9, <1>10, <1>11, <1>12, <1>13 DEF INext, Handler

-----------------------------------------------------------------------------
(* What is extracted, and what is left on disk                             *)

\* The only worker extracts from the row it read; no call of the tool takes it back, and
\* what expires waits until the worker is idle.
LEMMA ExtractionStaysQueued ==
    ASSUME InspectionInv, INext
    PROVE  ExtractsOnlyQueued'
<1> USE DEF handlerVars, workerVars, rowVars
<1>0. ExtractsOnlyQueued /\ HandlersOK /\ RowsOK /\ TypeOK
  BY DEF InspectionInv, HoldersInv
<1> SUFFICES ASSUME NEW x \in Workers, step'[x] = "extracting"
             PROVE  row'[holds'[x]] = "queued" /\ path'[holds'[x]]
  BY DEF ExtractsOnlyQueued
<1>1. ASSUME NEW w \in Workers PROVE w = x
  BY SingleWorker
<1>2. ASSUME step[x] = "extracting", holds'[x] = holds[x],
             row[holds[x]] = "queued" => row'[holds[x]] = "queued",
             path[holds[x]] => path'[holds[x]]
      PROVE  row'[holds'[x]] = "queued" /\ path'[holds'[x]]
  BY <1>0, <1>2 DEF ExtractsOnlyQueued
<1>3. ASSUME NEW i \in Jobs, Download(i) \/ InsertRow(i) \/ AskForJob(i) \/ ToolFails(i) \/ Expire(i)
      PROVE  row'[holds'[x]] = "queued" /\ path'[holds'[x]]
  <2>1. step' = step /\ holds' = holds
    BY <1>3 DEF Download, InsertRow, AskForJob, CreateJob, ToolFails, Expire, vars
  <2>2. CASE UNCHANGED <<row, path>>
    BY <1>2, <2>1, <2>2
  <2>3. CASE InsertRow(i)
    BY <1>0, <1>2, <2>1, <2>3 DEF InsertRow, RowsOK
  <2> QED
    BY <1>3, <2>2, <2>3 DEF Download, AskForJob, ToolFails, Expire
<1>4. ASSUME NEW w \in Workers, ReadRow(w)
      PROVE  row'[holds'[x]] = "queued" /\ path'[holds'[x]]
  <2>1. step'[x] = IF row[holds[x]] = "queued" /\ path[holds[x]] THEN "extracting" ELSE "raised"
    BY <1>0, <1>1, <1>4 DEF ReadRow, HandlersOK
  <2> QED
    BY <1>4, <2>1 DEF ReadRow, vars
<1>5. ASSUME NEW w \in Workers, Claim(w) \/ KeepResult(w) \/ DiscardBytes(w) \/ ExtractionFails(w)
                                \/ Finish(w) \/ Fail(w) \/ RecordFailure(w) \/ WorkerDies(w)
      PROVE  FALSE
  <2>1. \E s : s # "extracting" /\ step' = [step EXCEPT ![x] = s]
    BY <1>1, <1>5 DEF Claim, KeepResult, DiscardBytes, ExtractionFails, Finish, Fail, RecordFailure,
       WorkerDies
  <2> QED
    BY <1>0, <2>1 DEF HandlersOK
<1>6. ASSUME NEW w \in Workers, RequeueExpired(w) \/ Cleanup(w) \/ CleanupFails(w)
      PROVE  FALSE
  <2>1. step[x] = "idle" /\ step' = step
    BY <1>1, <1>6 DEF RequeueExpired, Cleanup, CleanupFails, Idle
  <2> QED
    BY <2>1
<1>7. CASE QueueTime \/ VaultPaused
  BY <1>2, <1>7 DEF QueueTime, VaultPaused, LeaseRunsOut, BackoffEnds, Pause
<1> QED
  BY <1>3, <1>4, <1>5, <1>6, <1>7 DEF INext, Handler

\* A record of the bytes goes with them or after them, save where lost remembers it.
LEMMA BytesStayTracked ==
    ASSUME InspectionInv, INext
    PROVE  StrayBytesHaveACause'
<1> USE DEF handlerVars, workerVars, rowVars, toolVars
<1>0. StrayBytesHaveACause /\ HandlersOK /\ RowsOK /\ TypeOK
  BY DEF InspectionInv, HoldersInv
<1> SUFFICES ASSUME NEW i \in Jobs, file'[i]
             PROVE  Tracked(i)' \/ i \in lost'
  BY DEF StrayBytesHaveACause
<1>2. file[i] => Tracked(i) \/ i \in lost
  BY <1>0 DEF StrayBytesHaveACause
<1>3. ASSUME file[i], path[i] => path'[i], lost \subseteq lost',
             call[i] = "staged" => call'[i] = "staged" \/ path'[i] \/ i \in lost',
             \A w \in Workers : (holds[w] = i /\ step[w] = "kept") =>
                (holds'[w] = i /\ step'[w] = "kept") \/ i \in lost'
      PROVE  Tracked(i)' \/ i \in lost'
  BY <1>2, <1>3 DEF Tracked
<1>4. ASSUME NEW k \in Jobs, Download(k) \/ InsertRow(k) \/ AskForJob(k) \/ ToolFails(k) \/ Expire(k)
      PROVE  Tracked(i)' \/ i \in lost'
  <2>1. step' = step /\ holds' = holds
    BY <1>4 DEF Download, InsertRow, AskForJob, CreateJob, ToolFails, Expire, vars
  <2>2. CASE ToolFails(k)
    BY <1>0, <1>3, <2>1, <2>2 DEF ToolFails, RowsOK
  <2>3. CASE Download(k)
    <3>1. CASE i = k
      BY <1>0, <2>3, <3>1 DEF Download, RowsOK, Tracked
    <3>2. CASE i # k
      BY <1>0, <1>3, <2>1, <2>3, <3>2 DEF Download, RowsOK
    <3> QED
      BY <3>1, <3>2
  <2>4. CASE InsertRow(k)
    BY <1>0, <1>3, <2>1, <2>4 DEF InsertRow, RowsOK
  <2>5. CASE AskForJob(k)
    BY <1>0, <1>3, <2>1, <2>5 DEF AskForJob, RowsOK
  <2>6. CASE Expire(k)
    BY <1>0, <1>3, <2>1, <2>6 DEF Expire
  <2> QED
    BY <1>4, <2>2, <2>3, <2>4, <2>5, <2>6
<1>5. ASSUME NEW w \in Workers, Claim(w) \/ ReadRow(w) \/ Finish(w) \/ Fail(w)
      PROVE  Tracked(i)' \/ i \in lost'
  <2>1. UNCHANGED <<file, path, call, lost>> /\ step[w] # "kept"
    BY <1>5 DEF Claim, Idle, ReadRow, Finish, Fail
  <2>2. ASSUME NEW x \in Workers, holds[x] = i, step[x] = "kept" PROVE FALSE
    BY <2>1, <2>2, SingleWorker
  <2> QED
    BY <1>3, <2>1, <2>2
<1>6. ASSUME NEW w \in Workers, KeepResult(w)
      PROVE  Tracked(i)' \/ i \in lost'
  <2>1. holds[w] \in Jobs /\ holds' = holds /\ step'[w] = "kept" /\ UNCHANGED <<file, call, lost>>
        /\ path' = [path EXCEPT ![holds[w]] = FALSE]
    BY <1>0, <1>6, HeldIsAJob DEF KeepResult, vars, HandlersOK
  <2>2. CASE i = holds[w]
    BY <2>1, <2>2 DEF Tracked
  <2>3. CASE i # holds[w]
    <3>1. path'[i] = path[i]
      BY <1>0, <2>1, <2>3 DEF RowsOK
    <3>2. ASSUME NEW x \in Workers, holds[x] = i PROVE FALSE
      BY <2>3, <3>2, SingleWorker
    <3> QED
      BY <1>3, <2>1, <3>1, <3>2
  <2> QED
    BY <2>2, <2>3
<1>7. ASSUME NEW w \in Workers, DiscardBytes(w)
      PROVE  Tracked(i)' \/ i \in lost'
  <2>1. UNCHANGED <<path, call>> /\ holds[w] \in Jobs
        /\ \/ file' = [file EXCEPT ![holds[w]] = FALSE] /\ lost' = lost
           \/ file' = file /\ lost' = lost \cup {holds[w]}
    BY <1>7, HeldIsAJob DEF DiscardBytes
  <2>2. file[i] /\ (i # holds[w] \/ i \in lost') /\ lost \subseteq lost'
    BY <1>0, <2>1 DEF RowsOK
  <2>3. ASSUME NEW x \in Workers, holds[x] = i PROVE i \in lost'
    BY <2>2, <2>3, SingleWorker
  <2> QED
    BY <1>3, <2>1, <2>2, <2>3
<1>8. ASSUME NEW w \in Workers, ExtractionFails(w)
      PROVE  Tracked(i)' \/ i \in lost'
  <2>1. file' \in {file, [file EXCEPT ![holds[w]] = FALSE]} /\ UNCHANGED <<path, call, lost>>
        /\ step[w] = "extracting" /\ holds[w] \in Jobs
    BY <1>8, HeldIsAJob DEF ExtractionFails
  <2>2. file[i]
    BY <1>0, <2>1 DEF RowsOK
  <2>3. ASSUME NEW x \in Workers, step[x] = "kept" PROVE FALSE
    BY <2>1, <2>3, SingleWorker
  <2> QED
    BY <1>3, <2>1, <2>2, <2>3
<1>9. ASSUME NEW w \in Workers, RecordFailure(w)
      PROVE  Tracked(i)' \/ i \in lost'
  <2>1. /\ file' = [file EXCEPT ![giveUp[w]] = @ /\ ~path[giveUp[w]]]
        /\ path' = [path EXCEPT ![giveUp[w]] = FALSE]
        /\ UNCHANGED <<call, lost>> /\ step[w] # "kept"
    BY <1>9 DEF RecordFailure, Emptied
  <2>2. file[i] /\ (path[i] => path'[i])
    BY <1>0, <2>1 DEF RowsOK
  <2>3. ASSUME NEW x \in Workers, holds[x] = i, step[x] = "kept" PROVE FALSE
    BY <2>1, <2>3, SingleWorker
  <2> QED
    BY <1>3, <2>1, <2>2, <2>3
<1>10. ASSUME NEW w \in Workers, WorkerDies(w)
      PROVE  Tracked(i)' \/ i \in lost'
  <2>1. /\ file' \in {file, [file EXCEPT ![giveUp[w]] = @ /\ ~path[giveUp[w]]]}
        /\ lost' = IF step[w] = "kept" THEN lost \cup {holds[w]} ELSE lost
        /\ UNCHANGED <<path, call>>
    BY <1>10 DEF WorkerDies, Emptied
  <2>2. file[i]
    BY <1>0, <2>1 DEF RowsOK
  <2>3. ASSUME NEW x \in Workers, holds[x] = i, step[x] = "kept" PROVE i \in lost'
    <3>1. x = w
      BY SingleWorker
    <3> QED
      BY <2>1, <2>3, <3>1
  <2> QED
    BY <1>3, <2>1, <2>2, <2>3
<1>11. ASSUME NEW w \in Workers, RequeueExpired(w)
      PROVE  Tracked(i)' \/ i \in lost'
  BY <1>3, <1>11 DEF RequeueExpired, ClaimNothing
<1>12. ASSUME NEW w \in Workers, Cleanup(w)
      PROVE  Tracked(i)' \/ i \in lost'
  <2>1. /\ file'[i] = (file[i] /\ ~(i \in Outdated /\ path[i]))
        /\ path'[i] = (path[i] /\ i \notin Outdated)
        /\ UNCHANGED <<call, step, holds, lost>>
    BY <1>12 DEF Cleanup, vars
  <2> HIDE DEF Outdated
  <2>2. file[i] /\ (path[i] => path'[i])
    BY <1>0, <2>1 DEF RowsOK
  <2> QED
    BY <1>3, <2>1, <2>2
<1>13. ASSUME NEW w \in Workers, CleanupFails(w)
      PROVE  Tracked(i)' \/ i \in lost'
  <2>1. file'[i] => file[i]
    BY <1>0, <1>13 DEF CleanupFails, RowsOK
  <2>2. UNCHANGED <<path, call, step, holds, lost>>
    BY <1>13 DEF CleanupFails, vars
  <2> QED
    BY <1>3, <2>1, <2>2
<1>14. CASE QueueTime \/ VaultPaused
  BY <1>3, <1>14 DEF QueueTime, VaultPaused, LeaseRunsOut, BackoffEnds, Pause
<1> QED
  BY <1>4, <1>5, <1>6, <1>7, <1>8, <1>9, <1>10, <1>11, <1>12, <1>13, <1>14 DEF INext, Handler

-----------------------------------------------------------------------------
(* The theorems                                                            *)

LEMMA InspectionInitially == IInit => InspectionInv
<1> SUFFICES ASSUME IInit PROVE InspectionInv
  OBVIOUS
<1>1. HoldersInv
  BY HoldersInitially DEF IInit
<1>2. RowsOK /\ HandlersOK
  BY DEF IInit, Init, RowsOK, HandlersOK, Positions
<1>3. StrayBytesHaveACause /\ ExtractsOnlyQueued
  BY DEF IInit, StrayBytesHaveACause, ExtractsOnlyQueued
<1> QED
  BY <1>1, <1>2, <1>3 DEF InspectionInv

LEMMA InspectionStep == InspectionInv /\ [INext]_inspectionVars => InspectionInv'
<1>1. ASSUME InspectionInv, INext PROVE InspectionInv'
  BY <1>1, HoldersStay, RowsStayTyped, HandlersStayFit, ExtractionStaysQueued, BytesStayTracked
     DEF InspectionInv
<1>2. ASSUME InspectionInv, UNCHANGED inspectionVars PROVE InspectionInv'
  <2>1. HoldersInv'
    BY <1>2, HoldersStay DEF InspectionInv
  <2> QED
    BY <1>2, <2>1 DEF InspectionInv, inspectionVars, vars, workerVars, toolVars, rowVars, handlerVars,
       RowsOK, HandlersOK, StrayBytesHaveACause, Tracked, ExtractsOnlyQueued
<1> QED
  BY <1>1, <1>2

LEMMA InspectionAlways == ISpec => []InspectionInv
<1> QED
  BY InspectionInitially, InspectionStep, PTL DEF ISpec

\* Type correctness, and that the handler is at work exactly while the worker holds a job
\* of the queue, and at fail_job's tail exactly while there is a failure to record.
THEOREM InspectionTypeCorrect == ISpec => []ITypeOK
<1>1. InspectionInv => ITypeOK
  BY DEF InspectionInv, HoldersInv, RowsOK, HandlersOK, Positions, ITypeOK
<1> QED
  BY <1>1, InspectionAlways, PTL

\* process_temporary_inspection extracts only for a row that still says "queued": nothing
\* that happens between its read and the commit of its result settles or removes the row.
THEOREM ExtractsOnlyQueuedHolds == ISpec => []ExtractsOnlyQueued
<1>1. InspectionInv => ExtractsOnlyQueued
  BY DEF InspectionInv
<1> QED
  BY <1>1, InspectionAlways, PTL

\* Through any number of failures, deaths, retries, repeated claims and expiries, staged
\* bytes leave every record only in three places: between the download and the INSERT, and
\* between the commit of the result and the removal, if either fails or is cut off.
THEOREM StrayBytesHaveACauseHolds == ISpec => []StrayBytesHaveACause
<1>1. InspectionInv => StrayBytesHaveACause
  BY DEF InspectionInv
<1> QED
  BY <1>1, InspectionAlways, PTL
=============================================================================
