---------------------------- MODULE SavePromise ----------------------------
(***************************************************************************)
(* What an explicit save from a chat promises (docs/ARCHITECTURE.md): it   *)
(* "remain[s] pending until Windows confirms the exact byte count and      *)
(* SHA-256 written", and it settles once, as saved or as expired.          *)
(***************************************************************************)

CONSTANT Artifacts

VARIABLES
    stage,     \* what the save's record says
    written    \* the artifacts whose exact bytes were written on Windows

promiseVars == <<stage, written>>

PInit ==
    /\ stage = [a \in Artifacts |-> "none"]
    /\ written = {}

Ask(a) ==
    /\ stage[a] = "none"
    /\ stage' = [stage EXCEPT ![a] = "pending"]
    /\ UNCHANGED written

\* The bytes may be written even after the save has settled.
Write(a) ==
    /\ stage[a] # "none"
    /\ written' = written \cup {a}
    /\ UNCHANGED stage

Confirm(a) ==
    /\ stage[a] = "pending" /\ a \in written
    /\ stage' = [stage EXCEPT ![a] = "saved"]
    /\ UNCHANGED written

GiveUp(late) ==
    /\ \A a \in late : stage[a] = "pending"
    /\ stage' = [a \in Artifacts |-> IF a \in late THEN "expired" ELSE stage[a]]
    /\ UNCHANGED written

PNext ==
    \/ \E a \in Artifacts : Ask(a) \/ Write(a) \/ Confirm(a)
    \/ \E late \in SUBSET Artifacts : GiveUp(late)

PSpec == PInit /\ [][PNext]_promiseVars
=============================================================================
