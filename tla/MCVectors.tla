------------------------------ MODULE MCVectors ------------------------------
(***************************************************************************)
(* Vectors on a small instance: a document with two versions, two batches  *)
(* of text and one of previews.                                            *)
(***************************************************************************)
EXTENDS Vectors, TLC

MCBatches == [text |-> 2, visual |-> 1]
MCSymmetry == Permutations(Versions)
=============================================================================
