--------------------------- MODULE MCSystemSettings ---------------------------
(* Two settings with two values; two overlapping PATCH requests.           *)
EXTENDS SystemSettings, TLC

MCSymmetry == {f @@ g : f \in Permutations(Keys), g \in Permutations(Workers)}
=============================================================================
