----------------------------- MODULE TabPromise -----------------------------
(***************************************************************************)
(* What a user sees of a tab, without threads, queues or cancellation:     *)
(* the tab numbers the documents asked of it, is loading until the newest  *)
(* one is settled, and shows the document of one request, which is only    *)
(* ever replaced by the newest one's.  TabLoads implements this.           *)
(***************************************************************************)
EXTENDS Naturals

CONSTANT TabIds

VARIABLES
    open,       \* the tabs that are in some window
    asked,      \* how many documents each tab was asked for
    loading,    \* the tabs whose newest request is not settled yet
    showing     \* the request whose document each tab shows, 0 for none

promiseVars == <<open, asked, loading, showing>>

Init ==
    /\ open = {}
    /\ asked = [tab \in TabIds |-> 0]
    /\ loading = {}
    /\ showing = [tab \in TabIds |-> 0]

\* A new tab starts with a request; tab IDs are used once.
Open(tab) ==
    /\ tab \notin open /\ asked[tab] = 0
    /\ open' = open \cup {tab}
    /\ asked' = [asked EXCEPT ![tab] = 1]
    /\ loading' = loading \cup {tab}
    /\ UNCHANGED showing

Ask(tab) ==
    /\ tab \in open
    /\ asked' = [asked EXCEPT ![tab] = @ + 1]
    /\ loading' = loading \cup {tab}
    /\ UNCHANGED <<open, showing>>

\* The newest requests of the tabs in settled are answered: those in replaced
\* with a document, the others leave the tab as it was.
Settle(settled, replaced) ==
    /\ replaced \subseteq settled
    /\ settled \subseteq loading
    /\ loading' = loading \ settled
    /\ showing' = [tab \in TabIds |->
                    IF tab \in replaced THEN asked[tab] ELSE showing[tab]]
    /\ UNCHANGED <<open, asked>>

\* A window closes with all its tabs.
Close(tabs) ==
    /\ open' = open \ tabs
    /\ loading' = loading \ tabs
    /\ showing' = [tab \in TabIds |-> IF tab \in tabs THEN 0 ELSE showing[tab]]
    /\ UNCHANGED asked

Next ==
    \/ \E tab \in TabIds : Open(tab) \/ Ask(tab)
    \/ \E settled, replaced \in SUBSET TabIds : Settle(settled, replaced)
    \/ \E tabs \in SUBSET TabIds : Close(tabs)

Spec == Init /\ [][Next]_promiseVars
=============================================================================
