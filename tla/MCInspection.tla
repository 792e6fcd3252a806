---------------------------- MODULE MCInspection ----------------------------
(***************************************************************************)
(* Inspection on a small instance: two attachments in one vault.           *)
(***************************************************************************)
EXTENDS Inspection

CONSTANTS v1, i1, i2

MCVaults == {v1}
MCJobs == {i1, i2}
MCVaultOf == [i \in MCJobs |-> v1]
MCPriority == [i \in MCJobs |-> 60]
MCSupersedes == [i \in MCJobs |-> {}]
=============================================================================
