------------------------------ MODULE MCSearch ------------------------------
(***************************************************************************)
(* Search and Budget on a small instance: one request beside one job.      *)
(***************************************************************************)
EXTENDS Search, TLC

MCCallers == Requests \cup Workers
MCSymmetry == Permutations(Documents) \cup Permutations(Versions)
=============================================================================
