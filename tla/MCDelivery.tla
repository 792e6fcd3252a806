----------------------------- MODULE MCDelivery -----------------------------
(***************************************************************************)
(* ArtifactDelivery on a small instance: two files of the same bytes with  *)
(* different annotations, and a note, all asked for under one name.        *)
(***************************************************************************)
EXTENDS ArtifactDelivery, TLC

CONSTANTS file, twin, note, name, fileBytes, fileNote, twinNote, noteText

MCArtifacts == {file, twin, note}
MCNotes == {note}
MCNameOf == [a \in MCArtifacts |-> name]
MCContentOf == file :> fileBytes @@ twin :> fileBytes @@ note :> noteText
MCNoteOf == file :> fileNote @@ twin :> twinNote @@ note :> noteText
=============================================================================
