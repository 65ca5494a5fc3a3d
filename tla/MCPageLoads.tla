---------------------------- MODULE MCPageLoads -----------------------------
(* PageLoads on small instances. *)
EXTENDS PageLoads, TLC

Symmetry == Permutations(Loads)
=============================================================================
