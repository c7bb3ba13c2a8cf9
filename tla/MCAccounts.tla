----------------------------- MODULE MCAccounts -----------------------------
(* Two superusers, a user to be created and given users.manage, a system   *)
(* role and another one.                                                   *)
EXTENDS Accounts, TLC

MCSymmetry ==
    {f @@ g : f \in Permutations(Superusers), g \in Permutations(Workers)}
=============================================================================
