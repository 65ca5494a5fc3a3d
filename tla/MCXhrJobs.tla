----------------------------- MODULE MCXhrJobs ------------------------------
(* XhrJobs on small instances. *)
EXTENDS XhrJobs, TLC

Symmetry == Permutations(Pages)
=============================================================================
