----------------------------- MODULE MCSessions -----------------------------
(* Sessions on an instance small enough to do without symmetry. *)
EXTENDS Sessions, TLC
=============================================================================
