---------------------------- MODULE MCSearchIndex ----------------------------
(* The search index on a small instance. *)
EXTENDS SearchIndex, TLC

Symmetries == Permutations(Request) \cup Permutations(Price) \cup Permutations(Reindexer) \cup Permutations(Nft)
=============================================================================
