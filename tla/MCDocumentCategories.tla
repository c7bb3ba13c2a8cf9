------------------------ MODULE MCDocumentCategories -------------------------
(* One document, two categories, two workers.                              *)
EXTENDS DocumentCategories, TLC

MCSymmetry == {f @@ g : f \in Permutations(Categories), g \in Permutations(Workers)}
=============================================================================
