------------------------------- MODULE MCSocial -------------------------------
(* The social operations on a small instance. *)
EXTENDS Social, TLC

Symmetries == Permutations(Call) \cup Permutations(Wallet)
=============================================================================
