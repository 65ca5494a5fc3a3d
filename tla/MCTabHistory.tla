---------------------------- MODULE MCTabHistory ----------------------------
(* TabHistory on small instances. *)
EXTENDS TabHistory, TLC

Symmetry == Permutations(Docs)
=============================================================================
