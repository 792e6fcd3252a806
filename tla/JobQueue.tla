------------------------------ MODULE JobQueue ------------------------------
(***************************************************************************)
(* The durable job queue: the table "jobs" of app/db.py, create_job of     *)
(* app/catalog.py, and claim_job, finish_job, fail_job and the main loop   *)
(* of app/worker.py.  Each action is one SQLite transaction (or one        *)
(* autocommitted statement) of that code, a death of the worker process,   *)
(* or the passing of a stored point in time.  One of them begins earlier:  *)
(* claim_job reads the clock before its BEGIN IMMEDIATE may have to wait   *)
(* for the write lock, and goes by that reading in all it then does.       *)
(*                                                                         *)
(* A job is identified by what create_job looks it up by, its              *)
(* (vault, kind, payload).  The partial unique index on that triple leaves *)
(* at most one row of it queued or running, a failed row is revived rather *)
(* than joined by a second one, and nobody reads a completed row again: so *)
(* one state per job stands for the table, "none" covering both "never     *)
(* created" and "complete".                                                *)
(*                                                                         *)
(* The code compares stored times with the clock.  Here a comparison with  *)
(* "now" is a flag that a time action flips (leased, delayed), a           *)
(* comparison with an earlier reading takes from it what has happened      *)
(* since (missed), and a comparison of two times is a relation (older,     *)
(* sooner).                                                                *)
(***************************************************************************)
EXTENDS Naturals

CONSTANTS
    Vaults,        \* rows of "vaults"
    Jobs,          \* the (vault, kind, payload) triples that may be asked for
    NoJob,         \* what an idle worker holds
    VaultOf,       \* jobs.vault_id
    Priority,      \* jobs.priority, fixed by the job's kind; lower runs first
    Supersedes,    \* for an extract job, the extract jobs of the same document
    Slow,          \* the jobs whose handler may outlast the 1800 s lease
    Workers,       \* worker processes
    MaxAttempts,   \* jobs.max_attempts, 3
    MaxRequests,   \* bound on the calls that ask for a job
    MaxWaits,      \* bound on the waits for the write lock
    MaxCrashes     \* bound on the deaths of a worker

ASSUME JobsAssumption ==
    /\ NoJob \notin Jobs
    /\ VaultOf \in [Jobs -> Vaults]
    /\ Priority \in [Jobs -> Nat]
    /\ Supersedes \in [Jobs -> SUBSET Jobs]
    /\ Vaults \cap Workers = {}

ASSUME BoundsAssumption ==
    /\ MaxAttempts \in Nat \ {0}
    /\ MaxRequests \in Nat
    /\ MaxWaits \in Nat
    /\ MaxCrashes \in Nat

\* One worker runs (docs/OPERATIONS.md), and it claims nothing while it works.
\* Several workers are safe only if every handler ends within its lease.
ASSUME LeaseAssumption ==
    /\ Slow \subseteq Jobs
    /\ Slow = {} \/ \A w1, w2 \in Workers : w1 = w2

VARIABLES
    state,      \* jobs.state
    attempts,   \* jobs.attempts
    delayed,    \* is jobs.not_before still to come?
    leased,     \* is jobs.lease_expires_at still to come?
    older,      \* <<j, k>> : both rows exist, j.created_at < k.created_at
    waiting,    \* workers that have read the clock and wait for the write lock
    missed,     \* jobs that became due since a waiting worker read the clock
    sooner,     \* <<x, y>> : the stamp of x is before the stamp of y; a vault's is
                \* its last_job_claim_at, a waiting worker's the clock it has read
    paused,     \* vaults.paused
    holds,      \* the job a worker's process_job is running, or NoJob
    snapshot,   \* "attempts" in the row that claim_job returned to it
    waits,      \* waits for the write lock so far
    requests,   \* calls that ask for a job so far
    crashes     \* deaths of a worker so far

queueVars == <<state, attempts, delayed, leased, older>>
workerVars == <<holds, snapshot>>
clockVars == <<waiting, missed, sooner, waits>>
vars == <<queueVars, clockVars, paused, workerVars, requests, crashes>>

-----------------------------------------------------------------------------
(* The claim order                                                         *)

Active == {j \in Jobs : state[j] \in {"queued", "running"}}
Rows == {j \in Jobs : state[j] # "none"}

\* Operators with "Mutant" in their name are this code with a plausible bug; no
\* specification uses them.  Each breaks a property that the code keeps.
MutantExpired(w) == {j \in Jobs : state[j] = "running"}

\* What claim_job's first UPDATE puts back in the queue, and the table after it.
Expired(w) == {j \in Jobs : state[j] = "running" /\ ~leased[j] /\ j \notin missed[w]}

MutantRequeued(w) == state
MutantRequeuedState(w) ==
    [j \in Jobs |-> IF j \in Expired(w) THEN "expired" ELSE state[j]]

Requeued(w) == [j \in Jobs |-> IF j \in Expired(w) THEN "queued" ELSE state[j]]

MutantClaimable(w) ==
    {j \in Jobs : /\ state[j] = "queued" \/ j \in Expired(w)
                  /\ delayed[j]
                  /\ ~paused[VaultOf[j]]}

\* What its SELECT may return.
Claimable(w) ==
    {j \in Jobs : /\ state[j] = "queued" \/ j \in Expired(w)
                  /\ ~delayed[j] /\ j \notin missed[w]
                  /\ ~paused[VaultOf[j]]}

MutantAhead(j, k) ==
    \/ Priority[j] < Priority[k]
    \/ Priority[j] = Priority[k] /\ <<VaultOf[j], VaultOf[k]>> \in sooner

\* ORDER BY COALESCE(v.last_job_claim_at,0), j.priority, j.created_at
Ahead(j, k) ==
    LET u == VaultOf[j]
        v == VaultOf[k]
    IN  \/ <<u, v>> \in sooner
        \/ /\ <<v, u>> \notin sooner
           /\ \/ Priority[j] < Priority[k]
              \/ Priority[j] = Priority[k] /\ <<j, k>> \in older

\* The stamps once w has read the clock: its own is the latest of all.
Clocked(w) ==
    IF w \in waiting THEN sooner ELSE sooner \cup ((Vaults \cup waiting) \X {w})

\* The stamps without that of x.
Without(x, order) == {p \in order : x \notin {p[1], p[2]}}

MutantStamped(w, v) == Without(w, Clocked(w))

\* last_job_claim_at of v becomes the stamp of w: the latest, unless another
\* worker read the clock and claimed while w waited.
Stamped(w, v) ==
    LET Owner(x) == IF x = w THEN v ELSE x
    IN  {<<Owner(p[1]), Owner(p[2])>> : p \in Without(v, Clocked(w))}

First(j, found) == j \in found /\ \A k \in found \ {j} : ~Ahead(k, j)

-----------------------------------------------------------------------------
Init ==
    /\ state = [j \in Jobs |-> "none"]
    /\ attempts = [j \in Jobs |-> 0]
    /\ delayed = [j \in Jobs |-> FALSE]
    /\ leased = [j \in Jobs |-> FALSE]
    /\ older = {}
    /\ waiting = {}
    /\ missed = [w \in Workers |-> {}]
    /\ sooner = {}
    /\ waits = 0
    /\ paused = [v \in Vaults |-> FALSE]
    /\ holds = [w \in Workers |-> NoJob]
    /\ snapshot = [w \in Workers |-> 0]
    /\ requests = 0
    /\ crashes = 0

\* These rows leave the table, or will never be read again.
Forget(gone) ==
    /\ state' = [j \in Jobs |-> IF j \in gone THEN "none" ELSE state[j]]
    /\ attempts' = [j \in Jobs |-> IF j \in gone THEN 0 ELSE attempts[j]]
    /\ delayed' = [j \in Jobs |-> delayed[j] /\ j \notin gone]
    /\ leased' = [j \in Jobs |-> leased[j] /\ j \notin gone]
    /\ older' = {p \in older : p[1] \notin gone /\ p[2] \notin gone}

\* not_before = 0: every worker that waits for the lock will see this row.
DueAtOnce(gone) == missed' = [w \in Workers |-> missed[w] \ gone]

\* create_job inserts a row, revives the failed one, or returns the active one.
Insert(j) ==
    /\ state[j] = "none"
    /\ state' = [state EXCEPT ![j] = "queued"]
    /\ older' = older \cup ((Rows \ {j}) \X {j})
    /\ DueAtOnce({j})
    /\ UNCHANGED <<attempts, delayed, leased>>

MutantRevive(j) ==
    /\ state[j] \in {"failed", "running"}
    /\ state' = [state EXCEPT ![j] = "queued"]
    /\ attempts' = [attempts EXCEPT ![j] = 0]
    /\ delayed' = [delayed EXCEPT ![j] = FALSE]
    /\ leased' = [leased EXCEPT ![j] = FALSE]
    /\ DueAtOnce({j})
    /\ UNCHANGED older

Revive(j) ==
    /\ state[j] = "failed"
    /\ state' = [state EXCEPT ![j] = "queued"]
    /\ attempts' = [attempts EXCEPT ![j] = 0]
    /\ delayed' = [delayed EXCEPT ![j] = FALSE]
    /\ leased' = [leased EXCEPT ![j] = FALSE]
    /\ DueAtOnce({j})
    /\ UNCHANGED older

CreateJob(j) ==
    /\ requests < MaxRequests
    /\ requests' = requests + 1
    /\ \/ Insert(j)
       \/ Revive(j)
       \/ j \in Active /\ UNCHANGED <<queueVars, missed>>
    /\ UNCHANGED <<waiting, sooner, waits, paused, workerVars, crashes>>

\* claim_job has read the clock and finds the database locked.
AwaitLock(w) ==
    /\ holds[w] = NoJob
    /\ w \notin waiting
    /\ waits < MaxWaits
    /\ waits' = waits + 1
    /\ waiting' = waiting \cup {w}
    /\ sooner' = Clocked(w)
    /\ UNCHANGED <<queueVars, missed, paused, workerVars, requests, crashes>>

\* The worker's reading of the clock is used up, and the jobs it requeued are
\* there for those that still wait.
StopWaiting(w, requeued) ==
    /\ waiting' = waiting \ {w}
    /\ missed' = [x \in Workers |-> IF x = w THEN {} ELSE missed[x] \ requeued]
    /\ UNCHANGED waits

\* claim_job by an idle worker, which has just read the clock or has waited for
\* the lock: expired leases return to the queue, then the first claimable job is
\* leased and its vault gets the worker's stamp.
ClaimJob(w) ==
    /\ holds[w] = NoJob
    /\ \E j \in Claimable(w) :
          /\ First(j, Claimable(w))
          /\ state' = [Requeued(w) EXCEPT ![j] = "running"]
          /\ attempts' = [attempts EXCEPT ![j] = @ + 1]
          /\ leased' = [leased EXCEPT ![j] = TRUE]
          /\ sooner' = Stamped(w, VaultOf[j])
          /\ holds' = [holds EXCEPT ![w] = j]
          /\ snapshot' = [snapshot EXCEPT ![w] = attempts[j]]
    /\ StopWaiting(w, Expired(w))
    /\ UNCHANGED <<delayed, older, paused, requests, crashes>>

\* claim_job when nothing is claimable still requeues what has expired.
ClaimNothing(w) ==
    /\ holds[w] = NoJob
    /\ Claimable(w) = {}
    /\ Expired(w) # {} \/ w \in waiting
    /\ state' = Requeued(w)
    /\ sooner' = Without(w, sooner)
    /\ StopWaiting(w, Expired(w))
    /\ UNCHANGED <<attempts, delayed, leased, older, paused, workerVars, requests,
                   crashes>>

\* "database is locked" after the busy timeout ends the worker's process, which
\* is restarted.
LockTimesOut(w) ==
    /\ w \in waiting
    /\ sooner' = Without(w, sooner)
    /\ StopWaiting(w, {})
    /\ UNCHANGED <<queueVars, paused, workerVars, requests, crashes>>

Release(w) ==
    /\ holds' = [holds EXCEPT ![w] = NoJob]
    /\ snapshot' = [snapshot EXCEPT ![w] = 0]

\* process_job returned: finish_job.
FinishJob(w) ==
    /\ holds[w] # NoJob
    /\ Forget({holds[w]})
    /\ Release(w)
    /\ UNCHANGED <<clockVars, paused, requests, crashes>>

\* process_job raised: fail_job decides on the row claim_job returned.
MutantRetryAllowed(w) == snapshot[w] < MaxAttempts

RetryAllowed(w) == snapshot[w] + 1 < MaxAttempts

FailJob(w) ==
    /\ holds[w] # NoJob
    /\ state' = [state EXCEPT ![holds[w]] =
                    IF RetryAllowed(w) THEN "queued" ELSE "failed"]
    /\ delayed' = [delayed EXCEPT ![holds[w]] = TRUE]
    /\ leased' = [leased EXCEPT ![holds[w]] = FALSE]
    /\ Release(w)
    /\ UNCHANGED <<attempts, older, clockVars, paused, requests, crashes>>

\* process_extract, in the transaction that indexes a version, deletes the
\* failed extract jobs of its document.
DropFailed(w) ==
    /\ holds[w] # NoJob
    /\ LET failed == {j \in Supersedes[holds[w]] : state[j] = "failed"}
       IN  failed # {} /\ Forget(failed)
    /\ UNCHANGED <<clockVars, paused, workerVars, requests, crashes>>

\* The worker process dies and is restarted: the row keeps its lease.
Crash(w) ==
    /\ holds[w] # NoJob
    /\ crashes < MaxCrashes
    /\ crashes' = crashes + 1
    /\ Release(w)
    /\ UNCHANGED <<queueVars, clockVars, paused, requests>>

\* An upload pauses its vault instead of asking for a job: _check_capacity found
\* too little free space.  Nothing clears the column.
Pause(v) ==
    /\ ~paused[v]
    /\ requests < MaxRequests
    /\ requests' = requests + 1
    /\ paused' = [paused EXCEPT ![v] = TRUE]
    /\ UNCHANGED <<queueVars, clockVars, workerVars, crashes>>

\* Time passes a stored lease_expires_at, a stored not_before: a worker that has
\* read the clock before does not notice.
Unnoticed(j) ==
    missed' = [w \in Workers |-> IF w \in waiting THEN missed[w] \cup {j} ELSE missed[w]]

LeaseRunsOut(j) ==
    /\ state[j] = "running" /\ leased[j]
    /\ j \in Slow \/ \A w \in Workers : holds[w] # j
    /\ leased' = [leased EXCEPT ![j] = FALSE]
    /\ Unnoticed(j)
    /\ UNCHANGED <<state, attempts, delayed, older, waiting, sooner, waits,
                   paused, workerVars, requests, crashes>>

BackoffEnds(j) ==
    /\ delayed[j]
    /\ delayed' = [delayed EXCEPT ![j] = FALSE]
    /\ Unnoticed(j)
    /\ UNCHANGED <<state, attempts, leased, older, waiting, sooner, waits,
                   paused, workerVars, requests, crashes>>

WorkerNext(w) ==
    \/ AwaitLock(w)
    \/ LockTimesOut(w)
    \/ ClaimJob(w)
    \/ ClaimNothing(w)
    \/ FinishJob(w)
    \/ FailJob(w)
    \/ DropFailed(w)
    \/ Crash(w)

Next ==
    \/ \E w \in Workers : WorkerNext(w)
    \/ \E j \in Jobs : CreateJob(j) \/ LeaseRunsOut(j) \/ BackoffEnds(j)
    \/ \E v \in Vaults : Pause(v)

Spec == Init /\ [][Next]_vars

\* Some worker's loop goes on as long as one can, a handler returns or raises, and
\* time passes.
Fairness ==
    /\ WF_vars(\E w \in Workers :
                  ClaimJob(w) \/ ClaimNothing(w) \/ FinishJob(w) \/ FailJob(w))
    /\ WF_vars(\E j \in Jobs : LeaseRunsOut(j) \/ BackoffEnds(j))

FairSpec == Spec /\ Fairness

-----------------------------------------------------------------------------
(* Properties                                                              *)

\* Every variable keeps to its column's type.
TypeOK ==
    /\ state \in [Jobs -> {"none", "queued", "running", "failed"}]
    /\ attempts \in [Jobs -> Nat]
    /\ delayed \in [Jobs -> BOOLEAN]
    /\ leased \in [Jobs -> BOOLEAN]
    /\ older \subseteq Jobs \X Jobs
    /\ waiting \subseteq {w \in Workers : holds[w] = NoJob}
    /\ missed \in [Workers -> SUBSET Jobs]
    /\ \A w \in Workers \ waiting : missed[w] = {}
    /\ sooner \subseteq (Vaults \cup waiting) \X (Vaults \cup waiting)
    /\ paused \in [Vaults -> BOOLEAN]
    /\ holds \in [Workers -> Jobs \cup {NoJob}]
    /\ snapshot \in [Workers -> Nat]
    /\ waits \in 0..MaxWaits
    /\ requests \in 0..MaxRequests
    /\ crashes \in 0..MaxCrashes

\* No two workers ever run the same job, whatever expired, crashed or was asked
\* for again in the meantime: claim_job, create_job's reuse of active rows and
\* the lease together are what keeps a job's handler alone.
Exclusive ==
    \A w1, w2 \in Workers : holds[w1] = holds[w2] /\ holds[w1] # NoJob => w1 = w2

\* finish_job and fail_job update a row by its id alone and fail_job decides on
\* a copy of the row.  Both are right because the row a worker works for is
\* still running, and its attempts are those of the copy plus its own.
VerdictFitsRow ==
    \A w \in Workers :
        holds[w] # NoJob =>
            /\ state[holds[w]] = "running"
            /\ attempts[holds[w]] = snapshot[w] + 1

\* A job is given up only after max_attempts runs, and runs at most once more
\* for each death of a worker, since an expired lease is no failure.
RetryBudget ==
    \A j \in Jobs :
        /\ state[j] = "failed" => attempts[j] >= MaxAttempts
        /\ attempts[j] <= MaxAttempts + crashes

\* No job waits forever: once requests stop, every job of a vault that is not
\* paused ends completed or given up, whatever its place in the order.
QueueDrains ==
    <>[](\A j \in Jobs : state[j] \in {"none", "failed"} \/ paused[VaultOf[j]])

\* A job that a dead worker left behind is taken up again (docs/RESTART.md: "an
\* expired lease returns to the queue").
Orphans == {j \in Jobs : state[j] = "running" /\ \A w \in Workers : holds[w] # j}
InterruptedJobReturns == Orphans # {} ~> Orphans = {}
=============================================================================
