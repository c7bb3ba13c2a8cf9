---------------------------- MODULE MCDepartments ----------------------------
(* Three or four departments and two users.                                *)
EXTENDS Departments, TLC

MCSymmetry == {f @@ g @@ h : f \in Permutations(Depts), g \in Permutations(Users),
                              h \in Permutations(Threads)}
=============================================================================
