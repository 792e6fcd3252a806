------------------------------ MODULE MCQueue ------------------------------
(***************************************************************************)
(* VaultRotation, and with it JobQueue, on a small instance: in one vault  *)
(* the extract jobs of two revisions of a document, in the other vault a   *)
(* more urgent job.                                                        *)
(***************************************************************************)
EXTENDS VaultRotation, TLC

CONSTANTS v1, v2, extract1, extract2, urgent

MCVaults == {v1, v2}
MCJobs == {extract1, extract2, urgent}
MCVaultOf == extract1 :> v1 @@ extract2 :> v1 @@ urgent :> v2
MCPriority == extract1 :> 100 @@ extract2 :> 100 @@ urgent :> 20
MCSupersedes ==
    extract1 :> {extract1, extract2} @@ extract2 :> {extract1, extract2} @@ urgent :> {}
=============================================================================
