----------------------------- MODULE MCCatalogue -----------------------------
(* The catalogue on a small instance. *)
EXTENDS Catalogue, TLC

Symmetries == Permutations(Nft) \cup Permutations(Request) \cup Permutations(Price)
=============================================================================
