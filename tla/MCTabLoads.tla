----------------------------- MODULE MCTabLoads -----------------------------
(* TabLoads on small instances. *)
EXTENDS TabLoads, TLC

Symmetry == Permutations(Windows)
=============================================================================
