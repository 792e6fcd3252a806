---------------------------- MODULE MCRevisions ----------------------------
(***************************************************************************)
(* Revisions on a small instance: a document with two revisions.           *)
(***************************************************************************)
EXTENDS Revisions, TLC

CONSTANTS vault, r1, r2

MCVaults == {vault}
MCJobs == {r1, r2}
MCVaultOf == [v \in MCJobs |-> vault]
MCPriority == [v \in MCJobs |-> 100]
MCSymmetry == Permutations(MCJobs)
MCSupersedes == [v \in MCJobs |-> MCJobs]
=============================================================================
