---------------------------- MODULE MCBookmarks -----------------------------
(* Bookmarks on small instances. *)
EXTENDS Bookmarks, TLC

Symmetry == Permutations(Processes) \cup Permutations(Urls)
=============================================================================
