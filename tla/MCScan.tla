------------------------------- MODULE MCScan -------------------------------
(***************************************************************************)
(* ConnectorScan on a small instance.  Contents and scanners are exchanged *)
(* freely: nothing in the configurations tells them apart.                 *)
(***************************************************************************)
EXTENDS ConnectorScan, TLC

MCSymmetry == Permutations(Contents) \cup Permutations(Scanners)
=============================================================================
