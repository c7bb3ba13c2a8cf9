---------------------------- MODULE MCRegistration ----------------------------
(* Two documents of one category and a third of another, two workers, two  *)
(* years; "a" and "A" are different codes with the same prefix.            *)
EXTENDS Registration, TLC

CONSTANTS d1, d2, d3, orders, letters

MCDocs == {d1, d2, d3}
MCCategories == {orders, letters}
MCCategoryOf == [d \in MCDocs |-> IF d = d3 THEN letters ELSE orders]
MCCodes == {"a", "A", "b"}
MCUpper == [c \in MCCodes |-> IF c = "b" THEN "B" ELSE "A"]
\* The workers are alike, and so are the two documents of the first category.
MCSymmetry ==
    {f @@ g : f \in Permutations(Workers), g \in Permutations({d1, d2})}
MCYears == {2025, 2026}
=============================================================================
