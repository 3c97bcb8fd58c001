----------------------------- MODULE MCAccounts -----------------------------
(* Accounts on a small instance. *)
EXTENDS Accounts, TLC

Symmetries == Permutations(Call) \cup Permutations(Email)
=============================================================================
