--------------------------- MODULE MCDocumentFiles ---------------------------
(* Three uploads and three workers.                                        *)
EXTENDS DocumentFiles, TLC

MCSymmetry == {f @@ g : f \in Permutations(FileIds), g \in Permutations(Workers)}
=============================================================================
