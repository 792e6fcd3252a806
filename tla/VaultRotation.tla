--------------------------- MODULE VaultRotation ---------------------------
(***************************************************************************)
(* JobQueue with a history variable that remembers, for each vault with a  *)
(* job that is due, which vaults had a job claimed while it waited.  It    *)
(* states what docs/ARCHITECTURE.md calls "fair vault rotation" of the     *)
(* ORDER BY in claim_job.                                                  *)
(*                                                                         *)
(* With several workers a claim may be stamped with a time from before the *)
(* waiting vault's own last claim, if its worker read the clock first and  *)
(* then waited for the lock.  Such a claim leaves its vault ahead of the   *)
(* waiting one: it does not count as having passed it.                     *)
(***************************************************************************)
EXTENDS JobQueue

VARIABLE passed   \* passed[v] : vaults claimed, with a stamp later than v's, since
                  \* v last began to wait

rotationVars == <<vars, passed>>

\* Jobs that a worker would find if it read the clock now, and their vaults.
Due == {j \in Jobs : /\ state[j] = "queued" \/ (state[j] = "running" /\ ~leased[j])
                     /\ ~delayed[j]
                     /\ ~paused[VaultOf[j]]}
Waiting == {VaultOf[j] : j \in Due}

\* The workers that the current step gives a job, and the vaults it serves.
Claimers == {w \in Workers : holds[w] = NoJob /\ holds'[w] # NoJob}
Served == {VaultOf[holds'[w]] : w \in Claimers}

\* The vaults served with a stamp that is later than the last claim of v.
ServedAfter(v) == {VaultOf[holds'[w]] : w \in {x \in Claimers : <<v, x>> \in Clocked(x)}}

RInit == Init /\ passed = [v \in Vaults |-> {}]

RNext ==
    /\ Next
    /\ passed' = [v \in Vaults |->
                    IF v \in Waiting' \ Served
                    THEN (passed[v] \ Served) \cup (IF v \in Waiting THEN ServedAfter(v) ELSE {})
                    ELSE {}]

RSpec == RInit /\ [][RNext]_rotationVars

FairRSpec == RSpec /\ Fairness

-----------------------------------------------------------------------------
\* What makes the rotation fair: a vault that passed a waiting one stands
\* behind it in the order of last claims.
PassedStandBehind == \A v \in Vaults : \A u \in passed[v] : <<v, u>> \in sooner

\* No vault passes a waiting one twice: however many jobs the others have and
\* however urgent they are, a worker that sees a job of the waiting vault takes
\* none of a vault that passed it.
NoSecondOvertake ==
    [][\A w \in Claimers : \A j \in Claimable(w) :
          VaultOf[j] \notin Served => Served \cap passed[VaultOf[j]] = {}]_rotationVars
=============================================================================
