------------------------ MODULE VaultRotationProofs ------------------------
(***************************************************************************)
(* The fairness of claim_job's ORDER BY, for every set of vaults, jobs and *)
(* workers, every assignment of priorities and every sequence of requests  *)
(* and of waits for the write lock.                                        *)
(***************************************************************************)
EXTENDS VaultRotation, JobQueueProofs

RotationInv ==
    /\ TypeOK
    /\ passed \in [Vaults -> SUBSET Vaults]
    /\ PassedStandBehind

\* A claim serves the vault of the job it picked.
LEMMA ClaimServes ==
    ASSUME TypeOK, NEW w \in Workers, ClaimJob(w)
    PROVE  \E j \in Claimable(w) :
              /\ First(j, Claimable(w))
              /\ VaultOf[j] \in Vaults
              /\ Claimers = {w}
              /\ Served = {VaultOf[j]}
              /\ holds'[w] = j
              /\ sooner' = Stamped(w, VaultOf[j])
<1>1. PICK j \in Claimable(w) :
         /\ First(j, Claimable(w))
         /\ holds' = [holds EXCEPT ![w] = j]
         /\ sooner' = Stamped(w, VaultOf[j])
  BY DEF ClaimJob
<1>2. j \in Jobs /\ holds[w] = NoJob /\ j # NoJob /\ VaultOf[j] \in Vaults
  BY JobsAssumption DEF Claimable, ClaimJob
<1>3. Claimers = {w}
  BY <1>1, <1>2 DEF TypeOK, Claimers
<1>4. holds'[w] = j
  BY <1>1 DEF TypeOK
<1>5. Served = {VaultOf[j]}
  BY <1>3, <1>4 DEF Served
<1> QED
  BY <1>1, <1>2, <1>3, <1>4, <1>5

\* A claim by w for the vault s leaves the order of the other vaults, and puts s
\* behind those whose last claim is older than the stamp of w.
LEMMA StampedOrder ==
    ASSUME NEW w \in Workers, NEW s \in Vaults, NEW v \in Vaults, v # s
    PROVE  /\ \A u \in Vaults \ {s} : <<v, u>> \in sooner => <<v, u>> \in Stamped(w, s)
           /\ <<v, w>> \in Clocked(w) => <<v, s>> \in Stamped(w, s)
<1> DEFINE Owner(x) == IF x = w THEN s ELSE x
<1>0. w \notin Vaults
  BY JobsAssumption
<1>1. Stamped(w, s) = {<<Owner(p[1]), Owner(p[2])>> : p \in Without(s, Clocked(w))}
  BY DEF Stamped
<1>2. sooner \subseteq Clocked(w)
  BY DEF Clocked
<1>3. ASSUME NEW u \in Vaults \ {s}, <<v, u>> \in sooner PROVE <<v, u>> \in Stamped(w, s)
  <2>1. <<v, u>> \in Without(s, Clocked(w))
    BY <1>2, <1>3 DEF Without
  <2>2. Owner(v) = v /\ Owner(u) = u
    BY <1>0, <1>3
  <2> HIDE DEF Owner
  <2>3. <<Owner(v), Owner(u)>> \in Stamped(w, s)
    BY <1>1, <2>1
  <2> QED
    BY <2>2, <2>3
<1>4. ASSUME <<v, w>> \in Clocked(w) PROVE <<v, s>> \in Stamped(w, s)
  <2>1. <<v, w>> \in Without(s, Clocked(w))
    BY <1>0, <1>4 DEF Without
  <2>2. Owner(v) = v /\ Owner(w) = s
    BY <1>0
  <2> HIDE DEF Owner
  <2>3. <<Owner(v), Owner(w)>> \in Stamped(w, s)
    BY <1>1, <2>1
  <2> QED
    BY <2>2, <2>3
<1> QED
  BY <1>3, <1>4

\* No other step serves a vault or moves one in the rotation.
LEMMA OthersServeNobody ==
    ASSUME TypeOK, Next, \A w \in Workers : ~ClaimJob(w)
    PROVE  /\ Claimers = {} /\ Served = {}
           /\ \A u, v \in Vaults : <<u, v>> \in sooner => <<u, v>> \in sooner'
<1>0. Vaults \cap Workers = {}
  BY JobsAssumption
<1>1. /\ \A u, v \in Vaults : <<u, v>> \in sooner => <<u, v>> \in sooner'
      /\ \A w \in Workers : holds'[w] \in {holds[w], NoJob}
  <2>1. ASSUME NEW w \in Workers,
               \/ AwaitLock(w) /\ sooner' = Clocked(w)
               \/ ClaimNothing(w) \/ LockTimesOut(w)
        PROVE  /\ \A u, v \in Vaults : <<u, v>> \in sooner => <<u, v>> \in sooner'
               /\ \A x \in Workers : holds'[x] \in {holds[x], NoJob}
    <3>1. /\ UNCHANGED workerVars
          /\ sooner \subseteq sooner' \/ sooner' = Without(w, sooner)
      BY <2>1 DEF AwaitLock, ClaimNothing, LockTimesOut, Clocked
    <3>2. \A u, v \in Vaults : <<u, v>> \in sooner => <<u, v>> \in sooner'
      BY <1>0, <3>1 DEF Without
    <3> QED
      BY <3>1, <3>2 DEF workerVars
  <2>2. ASSUME sooner' = sooner, \A w \in Workers : holds'[w] \in {holds[w], NoJob}
        PROVE  /\ \A u, v \in Vaults : <<u, v>> \in sooner => <<u, v>> \in sooner'
               /\ \A x \in Workers : holds'[x] \in {holds[x], NoJob}
    BY <2>2
  <2>3. ASSUME NEW w \in Workers, AwaitLock(w) PROVE sooner' = Clocked(w)
    BY <2>3 DEF AwaitLock
  <2>4. ASSUME NEW w \in Workers,
               FinishJob(w) \/ FailJob(w) \/ DropFailed(w) \/ Crash(w)
        PROVE  sooner' = sooner /\ \A x \in Workers : holds'[x] \in {holds[x], NoJob}
    BY <2>4 DEF FinishJob, FailJob, DropFailed, Crash, Release, clockVars, workerVars, TypeOK
  <2>5. ASSUME NEW j \in Jobs, CreateJob(j) \/ LeaseRunsOut(j) \/ BackoffEnds(j)
        PROVE  sooner' = sooner /\ UNCHANGED holds
    BY <2>5 DEF CreateJob, LeaseRunsOut, BackoffEnds, workerVars
  <2>6. ASSUME NEW v \in Vaults, Pause(v) PROVE sooner' = sooner /\ UNCHANGED holds
    BY <2>6 DEF Pause, clockVars, workerVars
  <2> QED
    BY <2>1, <2>2, <2>3, <2>4, <2>5, <2>6 DEF Next, WorkerNext
<1>2. Claimers = {}
  BY <1>1 DEF Claimers
<1>3. Served = {}
  BY <1>2 DEF Served
<1> QED
  BY <1>1, <1>2, <1>3

\* The history variable never changes the queue's behaviour.
LEMMA RotationStepIsStep == [RNext]_rotationVars => [Next]_vars
BY DEF RNext, rotationVars

LEMMA RotationStep == RotationInv /\ [RNext]_rotationVars => RotationInv'
<1> SUFFICES ASSUME RotationInv, [RNext]_rotationVars PROVE RotationInv'
  OBVIOUS
<1>0. TypeOK'
  BY TypeStep, RotationStepIsStep DEF RotationInv
<1>1. CASE UNCHANGED rotationVars
  <2>1. UNCHANGED <<passed, sooner>>
    BY <1>1 DEF rotationVars, vars, clockVars
  <2> QED
    BY <1>0, <2>1 DEF RotationInv, PassedStandBehind
<1>2. CASE RNext
  <2>a. \A w \in Claimers : VaultOf[holds'[w]] \in Vaults
    BY <1>0, JobsAssumption DEF Claimers, TypeOK
  <2>0. /\ Served \subseteq Vaults
        /\ \A v \in Vaults : ServedAfter(v) \subseteq Served
    BY <2>a DEF Served, ServedAfter
  <2>1. passed' \in [Vaults -> SUBSET Vaults]
    BY <1>2, <2>0 DEF RNext, RotationInv
  <2>2. ASSUME NEW v \in Vaults, NEW u \in passed'[v]
        PROVE  v \notin Served /\ (u \in passed[v] \ Served \/ u \in ServedAfter(v))
    BY <1>2, <2>2 DEF RNext
  <2>3. CASE \E w \in Workers : ClaimJob(w)
    <3>1. PICK w \in Workers : ClaimJob(w)
      BY <2>3
    <3>2. PICK j \in Claimable(w) :
             /\ VaultOf[j] \in Vaults
             /\ Claimers = {w}
             /\ Served = {VaultOf[j]}
             /\ sooner' = Stamped(w, VaultOf[j])
      BY <3>1, ClaimServes DEF RotationInv
    <3>3. ASSUME NEW v \in Vaults, NEW u \in passed'[v] PROVE <<v, u>> \in sooner'
      <4>1. v # VaultOf[j]
        BY <2>2, <3>2, <3>3
      <4>2. CASE u \in ServedAfter(v)
        <5>1. <<v, w>> \in Clocked(w) /\ u = VaultOf[j]
          BY <2>0, <3>2, <4>2 DEF ServedAfter
        <5> QED
          BY <3>2, <4>1, <5>1, StampedOrder
      <4>3. CASE u \in passed[v] \ Served
        <5>1. <<v, u>> \in sooner /\ u \in Vaults \ {VaultOf[j]}
          BY <3>2, <3>3, <4>3 DEF RotationInv, PassedStandBehind
        <5> QED
          BY <3>2, <4>1, <5>1, StampedOrder
      <4> QED
        BY <2>2, <3>3, <4>2, <4>3
    <3> QED
      BY <1>0, <2>1, <3>3 DEF RotationInv, PassedStandBehind
  <2>4. CASE \A w \in Workers : ~ClaimJob(w)
    <3>1. /\ Served = {}
          /\ \A u, v \in Vaults : <<u, v>> \in sooner => <<u, v>> \in sooner'
      BY <1>2, <2>4, OthersServeNobody DEF RNext, RotationInv
    <3>2. ASSUME NEW v \in Vaults, NEW u \in passed'[v] PROVE <<v, u>> \in sooner'
      <4>1. u \in passed[v] /\ u \in Vaults
        BY <2>0, <2>2, <3>1, <3>2 DEF RotationInv
      <4> QED
        BY <3>1, <4>1 DEF RotationInv, PassedStandBehind
    <3> QED
      BY <1>0, <2>1, <3>2 DEF RotationInv, PassedStandBehind
  <2> QED
    BY <2>3, <2>4
<1> QED
  BY <1>1, <1>2

LEMMA RotationAlways == RSpec => []RotationInv
<1>1. RInit => RotationInv
  <2>1. Init => TypeOK
    BY HoldersInitially DEF HoldersInv
  <2> QED
    BY <2>1 DEF RInit, RotationInv, PassedStandBehind
<1> QED
  BY <1>1, RotationStep, PTL DEF RSpec

\* The argument behind it: who passed a waiting vault stands behind it.
THEOREM PassedStandBehindHolds == RSpec => []PassedStandBehind
<1>1. RotationInv => PassedStandBehind
  BY DEF RotationInv
<1> QED
  BY <1>1, RotationAlways, PTL

\* No vault passes a waiting one twice: it stands behind the waiting vault, whose
\* job is therefore ahead of its own for every worker that sees both.
THEOREM FairRotation == RSpec => NoSecondOvertake
<1>1. ASSUME RotationInv, [RNext]_rotationVars,
             NEW w \in Claimers, NEW k \in Claimable(w), VaultOf[k] \notin Served,
             NEW u \in Served \cap passed[VaultOf[k]]
      PROVE  FALSE
  <2>1. k \in Jobs /\ VaultOf[k] \in Vaults /\ w \in Workers
    BY JobsAssumption DEF Claimable, Claimers
  <2>2. <<VaultOf[k], u>> \in sooner
    BY <1>1, <2>1 DEF RotationInv, PassedStandBehind
  <2>3. CASE UNCHANGED vars
    BY <1>1, <2>3 DEF Claimers, vars, workerVars
  <2>4. CASE Next
    <3>1. PICK x \in Workers : ClaimJob(x)
      BY <1>1, <2>4, OthersServeNobody DEF RotationInv
    <3>2. PICK j \in Claimable(x) :
             First(j, Claimable(x)) /\ Claimers = {x} /\ Served = {VaultOf[j]}
      BY <1>1, <3>1, ClaimServes DEF RotationInv
    <3>3. x = w /\ u = VaultOf[j] /\ k # j
      BY <1>1, <3>2
    <3>4. Ahead(k, j)
      BY <2>2, <3>3 DEF Ahead
    <3> QED
      BY <1>1, <3>2, <3>3, <3>4 DEF First
  <2> QED
    BY <1>1, <2>3, <2>4, RotationStepIsStep
<1>2. RotationInv /\ [RNext]_rotationVars =>
        [\A w \in Claimers : \A j \in Claimable(w) :
           VaultOf[j] \notin Served => Served \cap passed[VaultOf[j]] = {}]_rotationVars
  BY <1>1
<1> QED
  BY <1>2, RotationAlways, PTL DEF RSpec, NoSecondOvertake

-----------------------------------------------------------------------------
\* What a waiting worker has read is later than every vault's last claim.
StampsAreFresh == \A w \in waiting : \A v \in Vaults : <<v, w>> \in sooner

OneWorker == \A w1, w2 \in Workers : w1 = w2

\* With the one worker of docs/OPERATIONS.md nobody claims while it waits: its
\* stamp is the latest whenever it claims, and every claim counts.
THEOREM OneWorkerIsFresh == OneWorker /\ Spec => []StampsAreFresh
<1> SUFFICES ASSUME OneWorker PROVE Spec => []StampsAreFresh
  OBVIOUS
<1>1. Init => TypeOK /\ StampsAreFresh
  <2>1. Init => TypeOK
    BY HoldersInitially DEF HoldersInv
  <2> QED
    BY <2>1 DEF Init, StampsAreFresh
<1>2. ASSUME TypeOK, StampsAreFresh, [Next]_vars PROVE TypeOK' /\ StampsAreFresh'
  <2>0. TypeOK'
    BY <1>2, TypeStep
  <2>1. ASSUME waiting' = {} PROVE StampsAreFresh'
    BY <2>1 DEF StampsAreFresh
  <2>2. ASSUME UNCHANGED <<waiting, sooner>> PROVE StampsAreFresh'
    BY <1>2, <2>2 DEF StampsAreFresh
  <2>3. ASSUME NEW w \in Workers, AwaitLock(w) PROVE StampsAreFresh'
    BY <1>2, <2>3 DEF AwaitLock, Clocked, StampsAreFresh
  <2>4. ASSUME NEW w \in Workers, ClaimJob(w) \/ ClaimNothing(w) \/ LockTimesOut(w)
        PROVE  waiting' = {}
    BY <1>2, <2>4 DEF ClaimJob, ClaimNothing, LockTimesOut, StopWaiting, OneWorker, TypeOK
  <2>5. ASSUME NEW w \in Workers, FinishJob(w) \/ FailJob(w) \/ DropFailed(w) \/ Crash(w)
        PROVE  UNCHANGED <<waiting, sooner>>
    BY <2>5 DEF FinishJob, FailJob, DropFailed, Crash, clockVars
  <2>6. ASSUME NEW j \in Jobs, CreateJob(j) \/ LeaseRunsOut(j) \/ BackoffEnds(j)
        PROVE  UNCHANGED <<waiting, sooner>>
    BY <2>6 DEF CreateJob, LeaseRunsOut, BackoffEnds
  <2>7. ASSUME NEW v \in Vaults, Pause(v) PROVE UNCHANGED <<waiting, sooner>>
    BY <2>7 DEF Pause, clockVars
  <2>8. CASE UNCHANGED vars
    BY <2>0, <2>2, <2>8 DEF vars, clockVars
  <2>9. ASSUME NEW w \in Workers, WorkerNext(w) PROVE StampsAreFresh'
    <3>1. \/ ClaimJob(w) \/ ClaimNothing(w) \/ LockTimesOut(w)
          \/ AwaitLock(w)
          \/ FinishJob(w) \/ FailJob(w) \/ DropFailed(w) \/ Crash(w)
      BY <2>9 DEF WorkerNext
    <3> QED
      BY <3>1, <2>1, <2>2, <2>3, <2>4, <2>5
  <2> QED
    BY <1>2, <2>0, <2>2, <2>6, <2>7, <2>8, <2>9 DEF Next
<1> QED
  BY <1>1, <1>2, PTL DEF Spec
=============================================================================
