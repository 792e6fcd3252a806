--------------------------- MODULE JobQueueProofs ---------------------------
(***************************************************************************)
(* Theorems about JobQueue for every set of vaults, jobs and workers and   *)
(* every value of the bounds.                                              *)
(***************************************************************************)
EXTENDS JobQueue, TLAPS

\* A worker's claim leaves the stamps of the vaults and of the other workers that
\* wait.
LEMMA StampedType ==
    ASSUME TypeOK, NEW w \in Workers, NEW v \in Vaults
    PROVE  Stamped(w, v) \subseteq (Vaults \cup (waiting \ {w})) \X (Vaults \cup (waiting \ {w}))
<1> DEFINE Owner(x) == IF x = w THEN v ELSE x
<1>1. Clocked(w) \subseteq (Vaults \cup waiting \cup {w}) \X (Vaults \cup waiting \cup {w})
  BY DEF Clocked, TypeOK
<1>2. \A x \in Vaults \cup waiting \cup {w} : Owner(x) \in Vaults \cup (waiting \ {w})
  OBVIOUS
<1>3. Stamped(w, v) = {<<Owner(p[1]), Owner(p[2])>> : p \in Without(v, Clocked(w))}
  BY DEF Stamped
<1>4. Without(v, Clocked(w)) \subseteq Clocked(w)
  BY DEF Without
<1> HIDE DEF Owner
<1> QED
  BY <1>1, <1>2, <1>3, <1>4

\* The types of what concerns the reading of the clock.
ClockOK ==
    /\ waiting \subseteq {w \in Workers : holds[w] = NoJob}
    /\ missed \in [Workers -> SUBSET Jobs]
    /\ \A w \in Workers \ waiting : missed[w] = {}
    /\ sooner \subseteq (Vaults \cup waiting) \X (Vaults \cup waiting)
    /\ waits \in 0..MaxWaits

\* A worker that is done with its reading of the clock.
LEMMA StopWaitingType ==
    ASSUME TypeOK, NEW w \in Workers, NEW requeued, StopWaiting(w, requeued),
           sooner' \subseteq (Vaults \cup waiting') \X (Vaults \cup waiting'),
           \A x \in Workers \ {w} : holds'[x] = holds[x]
    PROVE  ClockOK'
BY DEF StopWaiting, ClockOK, TypeOK

\* A step that leaves the clocks alone and gives no worker a job.
LEMMA ClocksKept ==
    ASSUME TypeOK, UNCHANGED clockVars,
           \A w \in Workers : holds'[w] \in {holds[w], NoJob}
    PROVE  ClockOK'
BY DEF clockVars, ClockOK, TypeOK

\* Every step keeps every column's type.
LEMMA TypeStep == TypeOK /\ [Next]_vars => TypeOK'
<1> SUFFICES ASSUME TypeOK, [Next]_vars PROVE TypeOK'
  OBVIOUS
<1> USE JobsAssumption, BoundsAssumption DEF TypeOK, queueVars, workerVars
<1>a. ASSUME NEW w \in Workers, AwaitLock(w) PROVE TypeOK'
  BY <1>a DEF AwaitLock, Clocked
<1>b. ASSUME NEW w \in Workers, LockTimesOut(w) PROVE TypeOK'
  <2>1. sooner' \subseteq (Vaults \cup waiting') \X (Vaults \cup waiting')
    BY <1>b DEF LockTimesOut, StopWaiting, Without
  <2>2. ClockOK'
    BY <1>b, <2>1, StopWaitingType DEF LockTimesOut
  <2> QED
    BY <1>b, <2>2 DEF LockTimesOut, ClockOK
<1>1. ASSUME NEW w \in Workers, ClaimJob(w) PROVE TypeOK'
  <2>1. PICK j \in Claimable(w) :
           /\ state' = [Requeued(w) EXCEPT ![j] = "running"]
           /\ attempts' = [attempts EXCEPT ![j] = @ + 1]
           /\ leased' = [leased EXCEPT ![j] = TRUE]
           /\ sooner' = Stamped(w, VaultOf[j])
           /\ holds' = [holds EXCEPT ![w] = j]
           /\ snapshot' = [snapshot EXCEPT ![w] = attempts[j]]
    BY <1>1 DEF ClaimJob
  <2>2. j \in Jobs /\ VaultOf[j] \in Vaults
    BY DEF Claimable
  <2>3. Requeued(w) \in [Jobs -> {"none", "queued", "running", "failed"}]
    BY DEF Requeued
  <2>4. StopWaiting(w, Expired(w))
    BY <1>1 DEF ClaimJob
  <2>5. sooner' \subseteq (Vaults \cup waiting') \X (Vaults \cup waiting')
    BY <2>1, <2>2, <2>4, StampedType DEF StopWaiting
  <2>6. ClockOK'
    BY <2>1, <2>4, <2>5, StopWaitingType
  <2>7. /\ UNCHANGED <<delayed, older, paused, requests, crashes>>
        /\ attempts[j] \in Nat /\ attempts[j] + 1 \in Nat
    BY <1>1, <2>2 DEF ClaimJob
  <2>8. /\ state' \in [Jobs -> {"none", "queued", "running", "failed"}]
        /\ attempts' \in [Jobs -> Nat]
        /\ leased' \in [Jobs -> BOOLEAN]
        /\ holds' \in [Workers -> Jobs \cup {NoJob}]
        /\ snapshot' \in [Workers -> Nat]
    BY <2>1, <2>2, <2>3, <2>7
  <2> QED
    BY <2>6, <2>7, <2>8 DEF ClockOK
<1>2. ASSUME NEW w \in Workers, ClaimNothing(w) PROVE TypeOK'
  <2>1. StopWaiting(w, Expired(w)) /\ UNCHANGED workerVars /\ sooner' = Without(w, sooner)
    BY <1>2 DEF ClaimNothing
  <2>2. sooner' \subseteq (Vaults \cup waiting') \X (Vaults \cup waiting')
    BY <2>1 DEF StopWaiting, Without
  <2>3. ClockOK'
    BY <2>1, <2>2, StopWaitingType
  <2> QED
    BY <1>2, <2>3 DEF ClaimNothing, Requeued, ClockOK
<1>3. ASSUME NEW w \in Workers, FinishJob(w) PROVE TypeOK'
  <2>1. ClockOK'
    BY <1>3, ClocksKept DEF FinishJob, Release
  <2> QED
    BY <1>3, <2>1 DEF FinishJob, Forget, Release, ClockOK
<1>4. ASSUME NEW w \in Workers, FailJob(w) PROVE TypeOK'
  <2>1. ClockOK'
    BY <1>4, ClocksKept DEF FailJob, Release
  <2> QED
    BY <1>4, <2>1 DEF FailJob, Release, RetryAllowed, ClockOK
<1>5. ASSUME NEW w \in Workers, DropFailed(w) PROVE TypeOK'
  <2>1. ClockOK'
    BY <1>5, ClocksKept DEF DropFailed
  <2> QED
    BY <1>5, <2>1 DEF DropFailed, Forget, ClockOK
<1>6. ASSUME NEW w \in Workers, Crash(w) PROVE TypeOK'
  <2>1. ClockOK'
    BY <1>6, ClocksKept DEF Crash, Release
  <2>2. /\ UNCHANGED <<state, attempts, delayed, leased, older, paused, requests>>
        /\ crashes' = crashes + 1 /\ crashes < MaxCrashes
        /\ holds' \in [Workers -> Jobs \cup {NoJob}]
        /\ snapshot' \in [Workers -> Nat]
    BY <1>6 DEF Crash, Release
  <2> QED
    BY <2>1, <2>2 DEF ClockOK
<1>7. ASSUME NEW j \in Jobs, CreateJob(j) PROVE TypeOK'
  <2>1. /\ requests' \in 0..MaxRequests
        /\ UNCHANGED <<waiting, sooner, waits, paused, holds, snapshot, crashes>>
    BY <1>7 DEF CreateJob
  <2>2. CASE Insert(j)
    BY <2>1, <2>2 DEF Insert, Rows, DueAtOnce
  <2>3. CASE Revive(j)
    BY <2>1, <2>3 DEF Revive, DueAtOnce
  <2>4. CASE UNCHANGED <<queueVars, missed>>
    BY <2>1, <2>4
  <2> QED
    BY <1>7, <2>2, <2>3, <2>4 DEF CreateJob
<1>8. ASSUME NEW j \in Jobs, LeaseRunsOut(j) \/ BackoffEnds(j) PROVE TypeOK'
  <2>1. /\ missed' = [w \in Workers |-> IF w \in waiting THEN missed[w] \cup {j} ELSE missed[w]]
        /\ UNCHANGED <<waiting, sooner, waits, holds>>
    BY <1>8 DEF LeaseRunsOut, BackoffEnds, Unnoticed
  <2>2. ClockOK'
    BY <2>1 DEF ClockOK
  <2> QED
    BY <1>8, <2>2 DEF LeaseRunsOut, BackoffEnds, ClockOK
<1>9. ASSUME NEW v \in Vaults, Pause(v) PROVE TypeOK'
  <2>1. ClockOK'
    BY <1>9, ClocksKept DEF Pause
  <2> QED
    BY <1>9, <2>1 DEF Pause, ClockOK
<1>10. CASE UNCHANGED vars
  BY <1>10 DEF vars, clockVars
<1> QED
  BY <1>a, <1>b, <1>1, <1>2, <1>3, <1>4, <1>5, <1>6, <1>7, <1>8, <1>9, <1>10
     DEF Next, WorkerNext

\* Type correctness: the table never leaves the states that create_job,
\* claim_job, finish_job and fail_job give it.
THEOREM TypeCorrect == Spec => []TypeOK
<1>1. Init => TypeOK
  BY JobsAssumption, BoundsAssumption DEF Init, TypeOK
<1> QED
  BY <1>1, TypeStep, PTL DEF Spec

-----------------------------------------------------------------------------
\* A worker's lease has not run out, unless its job is a slow one.
LeaseHeld ==
    \A w \in Workers :
        holds[w] # NoJob /\ holds[w] \notin Slow => leased[holds[w]]

\* While some worker is idle, what claim_job requeues is held by nobody: with
\* several workers the lease tells, with one worker there is nobody else.
LEMMA ExpiredIsOrphaned ==
    ASSUME TypeOK, LeaseHeld,
           NEW w \in Workers, holds[w] = NoJob,
           NEW x \in Workers, holds[x] # NoJob
    PROVE  holds[x] \notin Expired(w)
<1>1. x # w
  OBVIOUS
<1>2. Slow = {}
  BY <1>1, LeaseAssumption
<1>3. leased[holds[x]]
  BY <1>2 DEF LeaseHeld
<1> QED
  BY <1>3 DEF Expired

\* The inductive invariant behind every theorem below.
HoldersInv == TypeOK /\ LeaseHeld /\ VerdictFitsRow /\ Exclusive

LEMMA HoldersInitially == Init => HoldersInv
BY JobsAssumption, BoundsAssumption
   DEF Init, HoldersInv, TypeOK, LeaseHeld, VerdictFitsRow, Exclusive

\* Only claim_job gives a worker a job, and only one that nobody holds.
LEMMA ClaimKeepsHolders ==
    ASSUME HoldersInv, TypeOK', NEW w \in Workers, ClaimJob(w)
    PROVE  HoldersInv'
<1> USE JobsAssumption DEF HoldersInv, TypeOK
<1>1. PICK j \in Claimable(w) :
         /\ state' = [Requeued(w) EXCEPT ![j] = "running"]
         /\ attempts' = [attempts EXCEPT ![j] = @ + 1]
         /\ leased' = [leased EXCEPT ![j] = TRUE]
         /\ holds' = [holds EXCEPT ![w] = j]
         /\ snapshot' = [snapshot EXCEPT ![w] = attempts[j]]
  BY DEF ClaimJob
<1>2. j \in Jobs /\ Requeued(w)[j] = "queued" /\ holds[w] = NoJob
  BY DEF Claimable, ClaimJob, Requeued
<1>3. \A x \in Workers \ {w} :
         holds[x] # NoJob => /\ holds'[x] = holds[x]
                             /\ snapshot'[x] = snapshot[x]
                             /\ holds[x] # j
                             /\ Requeued(w)[holds[x]] = "running"
  <2> SUFFICES ASSUME NEW x \in Workers \ {w}, holds[x] # NoJob
               PROVE  /\ holds'[x] = holds[x]
                      /\ snapshot'[x] = snapshot[x]
                      /\ holds[x] # j
                      /\ Requeued(w)[holds[x]] = "running"
    OBVIOUS
  <2>1. holds[x] \in Jobs /\ state[holds[x]] = "running"
    BY DEF VerdictFitsRow
  <2>2. holds[x] \notin Expired(w)
    BY <1>2, ExpiredIsOrphaned
  <2>3. Requeued(w)[holds[x]] = "running"
    BY <2>1, <2>2 DEF Requeued
  <2> QED
    BY <1>1, <1>2, <2>3
<1>4. LeaseHeld'
  BY <1>1, <1>2, <1>3 DEF LeaseHeld
<1>5. VerdictFitsRow'
  <2> SUFFICES ASSUME NEW x \in Workers, holds'[x] # NoJob
               PROVE  /\ state'[holds'[x]] = "running"
                      /\ attempts'[holds'[x]] = snapshot'[x] + 1
    BY DEF VerdictFitsRow
  <2>0. Requeued(w) \in [Jobs -> {"none", "queued", "running", "failed"}]
    BY DEF Requeued
  <2>1. CASE x = w
    BY <1>1, <1>2, <2>0, <2>1
  <2>2. CASE x # w
    <3>1. /\ holds[x] \in Jobs
          /\ holds'[x] = holds[x]
          /\ holds[x] # j
          /\ Requeued(w)[holds[x]] = "running"
          /\ attempts[holds[x]] = snapshot[x] + 1
          /\ snapshot'[x] = snapshot[x]
      BY <1>1, <1>3, <2>2 DEF VerdictFitsRow
    <3> QED
      BY <1>1, <1>2, <2>0, <3>1
  <2> QED
    BY <2>1, <2>2
<1>6. Exclusive'
  BY <1>1, <1>2, <1>3 DEF Exclusive
<1> QED
  BY <1>4, <1>5, <1>6

\* When a worker lets its job go, nobody else held it.
LEMMA ReleaseKeepsHolders ==
    ASSUME HoldersInv, TypeOK', NEW w \in Workers, holds[w] # NoJob, Release(w),
           \A j \in Jobs : (j # holds[w] /\ state[j] # "failed") =>
               /\ state'[j] = state[j]
               /\ attempts'[j] = attempts[j]
               /\ leased'[j] = leased[j]
    PROVE  HoldersInv'
<1> USE JobsAssumption DEF HoldersInv, TypeOK
<1>1. \A x \in Workers : holds'[x] # NoJob =>
         /\ x # w
         /\ holds[x] \in Jobs
         /\ holds[x] # holds[w]
         /\ holds'[x] = holds[x]
         /\ snapshot'[x] = snapshot[x]
         /\ state[holds[x]] = "running"
  BY DEF Release, Exclusive, VerdictFitsRow
<1>2. LeaseHeld' /\ VerdictFitsRow' /\ Exclusive'
  BY <1>1 DEF LeaseHeld, VerdictFitsRow, Exclusive
<1> QED
  BY <1>2

\* A step that leaves the workers and the rows they hold alone.
LEMMA OthersKeepHolders ==
    ASSUME HoldersInv, TypeOK', UNCHANGED workerVars,
           \A j \in Jobs : (state[j] = "running" /\ \E w \in Workers : holds[w] = j) =>
               /\ state'[j] = state[j]
               /\ attempts'[j] = attempts[j]
               /\ j \in Slow \/ leased'[j] = leased[j]
    PROVE  HoldersInv'
<1> USE JobsAssumption DEF HoldersInv, TypeOK, workerVars
<1>1. \A w \in Workers : holds[w] # NoJob =>
         holds[w] \in Jobs /\ state[holds[w]] = "running"
  BY DEF VerdictFitsRow
<1>2. LeaseHeld' /\ VerdictFitsRow' /\ Exclusive'
  BY <1>1 DEF LeaseHeld, VerdictFitsRow, Exclusive
<1> QED
  BY <1>2

LEMMA HoldersStep == HoldersInv /\ [Next]_vars => HoldersInv'
<1> SUFFICES ASSUME HoldersInv, [Next]_vars PROVE HoldersInv'
  OBVIOUS
<1>0. TypeOK /\ TypeOK'
  BY TypeStep DEF HoldersInv
<1> USE <1>0, JobsAssumption DEF queueVars, workerVars
<1>a. ASSUME NEW w \in Workers, AwaitLock(w) PROVE HoldersInv'
  BY <1>a, OthersKeepHolders DEF AwaitLock
<1>b. ASSUME NEW w \in Workers, LockTimesOut(w) PROVE HoldersInv'
  BY <1>b, OthersKeepHolders DEF LockTimesOut
<1>1. ASSUME NEW w \in Workers, ClaimJob(w) PROVE HoldersInv'
  BY <1>1, ClaimKeepsHolders
<1>2. ASSUME NEW w \in Workers, ClaimNothing(w) PROVE HoldersInv'
  <2>1. ASSUME NEW x \in Workers, holds[x] # NoJob
        PROVE  state'[holds[x]] = state[holds[x]]
    BY <1>2, <2>1, ExpiredIsOrphaned DEF ClaimNothing, HoldersInv, Requeued, TypeOK
  <2>2. \A j \in Jobs : (\E x \in Workers : holds[x] = j) => state'[j] = state[j]
    BY <2>1
  <2> QED
    BY <1>2, <2>2, OthersKeepHolders DEF ClaimNothing
<1>3. ASSUME NEW w \in Workers, FinishJob(w) PROVE HoldersInv'
  BY <1>3, ReleaseKeepsHolders DEF FinishJob, Forget, TypeOK
<1>4. ASSUME NEW w \in Workers, FailJob(w) PROVE HoldersInv'
  BY <1>4, ReleaseKeepsHolders DEF FailJob, TypeOK
<1>5. ASSUME NEW w \in Workers, DropFailed(w) PROVE HoldersInv'
  BY <1>5, OthersKeepHolders DEF DropFailed, Forget, TypeOK
<1>6. ASSUME NEW w \in Workers, Crash(w) PROVE HoldersInv'
  BY <1>6, ReleaseKeepsHolders DEF Crash
<1>7. ASSUME NEW j \in Jobs, CreateJob(j) PROVE HoldersInv'
  BY <1>7, OthersKeepHolders DEF CreateJob, Insert, Revive, TypeOK
<1>8. ASSUME NEW j \in Jobs, LeaseRunsOut(j) PROVE HoldersInv'
  <2>1. \A k \in Jobs : (\E w \in Workers : holds[w] = k) =>
           k \in Slow \/ leased'[k] = leased[k]
    <3>1. leased \in [Jobs -> BOOLEAN] /\ leased' = [leased EXCEPT ![j] = FALSE]
      BY <1>8 DEF LeaseRunsOut, TypeOK
    <3>2. j \in Slow \/ \A w \in Workers : holds[w] # j
      BY <1>8 DEF LeaseRunsOut
    <3>3. \A k \in Jobs : k # j => leased'[k] = leased[k]
      BY <3>1
    <3> QED
      BY <3>2, <3>3
  <2>2. UNCHANGED <<state, attempts, workerVars>>
    BY <1>8 DEF LeaseRunsOut
  <2> QED
    BY <2>1, <2>2, OthersKeepHolders
<1>9. ASSUME NEW j \in Jobs, BackoffEnds(j) PROVE HoldersInv'
  BY <1>9, OthersKeepHolders DEF BackoffEnds
<1>10. ASSUME NEW v \in Vaults, Pause(v) PROVE HoldersInv'
  BY <1>10, OthersKeepHolders DEF Pause
<1>11. CASE UNCHANGED vars
  BY <1>11, OthersKeepHolders DEF vars
<1> QED
  BY <1>a, <1>b, <1>1, <1>2, <1>3, <1>4, <1>5, <1>6, <1>7, <1>8, <1>9, <1>10, <1>11
     DEF Next, WorkerNext

\* The invariant holds forever.
LEMMA HoldersAlways == Spec => []HoldersInv
BY HoldersInitially, HoldersStep, PTL DEF Spec

\* A job's handler never runs twice at once.
THEOREM ExclusiveHolds == Spec => []Exclusive
BY HoldersAlways, PTL DEF HoldersInv

\* finish_job and fail_job never touch a row that was requeued, revived or
\* taken over since the worker claimed it.
THEOREM VerdictFitsRowHolds == Spec => []VerdictFitsRow
BY HoldersAlways, PTL DEF HoldersInv

-----------------------------------------------------------------------------
\* What RetryBudget needs to be inductive: a row that a worker may still claim
\* has at least one run left.
Held(j) == \E w \in Workers : holds[w] = j

BudgetLeft ==
    \A j \in Jobs :
        /\ state[j] = "none" => attempts[j] = 0
        /\ state[j] = "failed" => attempts[j] >= MaxAttempts
        /\ attempts[j] <= MaxAttempts + crashes
        /\ state[j] = "queued" \/ (state[j] = "running" /\ ~Held(j))
             => attempts[j] + 1 <= MaxAttempts + crashes

LEMMA BudgetInitially == Init => BudgetLeft
BY BoundsAssumption DEF Init, BudgetLeft

LEMMA BudgetStep == HoldersInv /\ BudgetLeft /\ [Next]_vars => BudgetLeft'
<1> SUFFICES ASSUME HoldersInv, BudgetLeft, [Next]_vars PROVE BudgetLeft'
  OBVIOUS
<1>0. TypeOK /\ TypeOK' /\ HoldersInv'
  BY TypeStep, HoldersStep DEF HoldersInv
<1> USE <1>0, JobsAssumption, BoundsAssumption
    DEF queueVars, workerVars, BudgetLeft, Held, TypeOK
<1>a. ASSUME NEW w \in Workers, AwaitLock(w) PROVE BudgetLeft'
  BY <1>a DEF AwaitLock
<1>b. ASSUME NEW w \in Workers, LockTimesOut(w) PROVE BudgetLeft'
  BY <1>b DEF LockTimesOut
<1>1. ASSUME NEW w \in Workers, ClaimJob(w) PROVE BudgetLeft'
  <2>1. PICK j \in Claimable(w) :
           /\ state' = [Requeued(w) EXCEPT ![j] = "running"]
           /\ attempts' = [attempts EXCEPT ![j] = @ + 1]
           /\ holds' = [holds EXCEPT ![w] = j]
    BY <1>1 DEF ClaimJob
  <2>2. j \in Jobs /\ Requeued(w)[j] = "queued" /\ holds[w] = NoJob
    BY <1>1 DEF Claimable, ClaimJob, Requeued
  <2>3. ASSUME NEW k \in Jobs, Held(k) PROVE k \notin Expired(w)
    BY <2>2, <2>3, ExpiredIsOrphaned DEF HoldersInv
  <2>4. crashes' = crashes
    BY <1>1 DEF ClaimJob
  <2>5. ASSUME NEW k \in Jobs, k # j
        PROVE  /\ attempts'[k] = attempts[k]
               /\ state'[k] = IF k \in Expired(w) THEN "queued" ELSE state[k]
               /\ Held(k) <=> Held(k)'
    BY <2>1, <2>2, <2>5 DEF Requeued
  <2>6. /\ attempts'[j] = attempts[j] + 1
        /\ state'[j] = "running"
        /\ Held(j)'
        /\ attempts[j] + 1 <= MaxAttempts + crashes
    BY <2>1, <2>2, <2>3 DEF Requeued, Expired
  <2>7. ASSUME NEW k \in Jobs, k # j
        PROVE  /\ state'[k] = "none" => attempts'[k] = 0
               /\ state'[k] = "failed" => attempts'[k] >= MaxAttempts
               /\ attempts'[k] <= MaxAttempts + crashes
               /\ state'[k] = "queued" \/ (state'[k] = "running" /\ ~Held(k)')
                    => attempts'[k] + 1 <= MaxAttempts + crashes
    BY <2>3, <2>5, <2>7 DEF Expired
  <2> QED
    BY <2>4, <2>6, <2>7
<1>2. ASSUME NEW w \in Workers, ClaimNothing(w) PROVE BudgetLeft'
  <2>1. ASSUME NEW k \in Jobs, Held(k) PROVE k \notin Expired(w)
    BY <1>2, <2>1, ExpiredIsOrphaned DEF HoldersInv, ClaimNothing
  <2> QED
    BY <1>2, <2>1 DEF ClaimNothing, Requeued, Expired
<1>3. ASSUME NEW w \in Workers, FinishJob(w) PROVE BudgetLeft'
  BY <1>3 DEF FinishJob, Forget, Release
<1>4. ASSUME NEW w \in Workers, FailJob(w) PROVE BudgetLeft'
  <2>1. attempts[holds[w]] = snapshot[w] + 1 /\ holds[w] \in Jobs
    BY <1>4 DEF HoldersInv, VerdictFitsRow, FailJob
  <2> QED
    BY <1>4, <2>1 DEF FailJob, Release, RetryAllowed
<1>5. ASSUME NEW w \in Workers, DropFailed(w) PROVE BudgetLeft'
  BY <1>5 DEF DropFailed, Forget
<1>6. ASSUME NEW w \in Workers, Crash(w) PROVE BudgetLeft'
  BY <1>6 DEF Crash, Release
<1>7. ASSUME NEW j \in Jobs, CreateJob(j) PROVE BudgetLeft'
  BY <1>7 DEF CreateJob, Insert, Revive
<1>8. ASSUME NEW j \in Jobs, LeaseRunsOut(j) \/ BackoffEnds(j) PROVE BudgetLeft'
  BY <1>8 DEF LeaseRunsOut, BackoffEnds
<1>9. ASSUME NEW v \in Vaults, Pause(v) PROVE BudgetLeft'
  BY <1>9 DEF Pause
<1>10. CASE UNCHANGED vars
  BY <1>10 DEF vars
<1> QED
  BY <1>a, <1>b, <1>1, <1>2, <1>3, <1>4, <1>5, <1>6, <1>7, <1>8, <1>9, <1>10
     DEF Next, WorkerNext

\* A job is given up only when its attempts are spent, and it never runs more
\* often than max_attempts plus once for each death of a worker.
THEOREM RetryBudgetHolds == Spec => []RetryBudget
<1>1. BudgetLeft => RetryBudget
  BY DEF BudgetLeft, RetryBudget
<1> QED
  BY <1>1, HoldersInitially, HoldersStep, BudgetInitially, BudgetStep, PTL DEF Spec
=============================================================================
