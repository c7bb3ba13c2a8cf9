------------------------- MODULE MCDocumentComments --------------------------
(* Three comments by two users, one of whom decides; two workers.          *)
EXTENDS DocumentComments, TLC

MCSymmetry == {f @@ g : f \in Permutations(Comments), g \in Permutations(Workers)}
=============================================================================
