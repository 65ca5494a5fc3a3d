----------------------------- MODULE MCWindows -----------------------------
(* Windows on a small instance.                                            *)
EXTENDS Windows, TLC

CONSTANTS small, large, w1, w2, home, about

\* In the large window the second tab wraps the strip and the third makes it
\* compact; in the small one nothing fits beside the New Tab button.
MCFits == (small :> 0) @@ (large :> 1)

\* Bound: two windows share the bookmarks, the loop and its limits.  What they
\* do not share need not vary in both at once: they keep the size of a new
\* window and two tabs together, and one of them has neither a draft nor a load.
\* Of two tabs of a window, one is new or at rest.  A third tab is there to
\* unwrap the strip: it comes to tabs that are still empty, and with no draft.
Bound ==
    /\ Len(windows) = 2 =>
        /\ \A w \in Open : size[w] = FirstSize
        /\ \E w \in Open : ~ HasDraft(w) /\ tabs[w][1].pending = None
        /\ TabsOfAll = 2
    /\ \A w \in Open : Len(tabs[w]) = 2 =>
        \E i \in 1..2 : tabs[w][i].page = None \/ tabs[w][i].pending = None
    /\ \A w \in Open : Len(tabs[w]) = 3 =>
        /\ ~ HasDraft(w)
        /\ \A i \in 1..3 : tabs[w][i].page = None

Symmetry == Permutations(Windows)
=============================================================================
