----------------------------- MODULE TabHistory -----------------------------
(***************************************************************************)
(* One tab's session history (src/session.c) and the load that is pending  *)
(* on top of it (virtual_history and the commit half of tai_tabset_pump,   *)
(* src/tabset.c).  TabLoads shows that only the tab's newest load is ever  *)
(* committed, so one pending load is all there is here; its result comes   *)
(* at any time, between any two actions of the user, who meanwhile goes on *)
(* using the page still shown, fragment links included.                    *)
(*                                                                         *)
(* A URL is a document and a fragment, and it may be written in several    *)
(* ways: a load keeps the text it was asked for, the page and its entry    *)
(* have the text that tai_url_string gives it.  index is 0-based as in the *)
(* code, so urls[index + 1] is the current entry.                          *)
(***************************************************************************)
EXTENDS Naturals, Sequences, SequencesExt

CONSTANTS
    Docs,       \* documents
    Frags,      \* fragments that links of a page point to
    NoFrag,     \* no fragment
    Spellings,  \* the texts of a URL that tai_url_string would write otherwise
    None,       \* a NULL pointer
    MaxHistory  \* bound: history entries

ASSUME HistoryAssumption ==
    /\ Docs # {}
    /\ NoFrag \notin Frags
    /\ MaxHistory \in Nat \ {0}

\* URLs as tai_url_string writes them, and as text that comes from a user, a
\* link or the command line ("http://example.org" without its last slash).
Urls == [doc : Docs, frag : Frags \cup {NoFrag}]
Texts == Urls \cup
    [doc : Docs, frag : Frags \cup {NoFrag}, spelling : Spellings]

\* tai_url_parse and tai_url_string: what a page loaded from text has as its URL.
Serialized(text) == [doc |-> text.doc, frag |-> text.frag]

ASSUME NoneAssumption == None \notin Urls

VARIABLES
    urls,       \* session->urls
    index,      \* session->index
    pageUrl,    \* tai_page_url(session->page), None without a page
    pending,    \* slot->active_task: kind, url and history_target
    fatal       \* the error of a failed pump, on which run_windows gives up

vars == <<urls, index, pageUrl, pending, fatal>>

Loads == [kind : {"NAVIGATION", "HISTORY"}, url : Texts, target : 0..MaxHistory]

TypeOK ==
    /\ urls \in BoundedSeq(Urls, MaxHistory)
    /\ index \in 0..MaxHistory
    /\ pageUrl \in Urls \cup {None}
    /\ pending \in Loads \cup {None}
    /\ fatal \in {None, "history-page commit", "allocation"}

Init ==
    /\ urls = <<>>
    /\ index = 0
    /\ pageUrl = None
    /\ pending = None
    /\ fatal = None

-----------------------------------------------------------------------------
(* virtual_history and tai_tabset_history_url: history as the chrome       *)
(* shows it, with the provisional entry of a pending navigation.           *)

Navigating == pending # None /\ pending.kind = "NAVIGATION"
Traversing == pending # None /\ pending.kind = "HISTORY"

VirtualCount ==
    IF Navigating THEN IF urls = <<>> THEN 1 ELSE index + 2 ELSE Len(urls)
VirtualIndex ==
    IF Navigating THEN VirtualCount - 1
    ELSE IF Traversing THEN pending.target ELSE index
VirtualUrl(i) ==
    IF Navigating /\ i = VirtualCount - 1 THEN pending.url ELSE urls[i + 1]

\* tai_tabset_history_available
CanGo(direction) ==
    IF direction = "back" THEN VirtualIndex > 0
    ELSE VirtualIndex + 1 < VirtualCount
Target(direction) ==
    IF direction = "back" THEN VirtualIndex - 1 ELSE VirtualIndex + 1

-----------------------------------------------------------------------------
AppendKeepingForward(url) ==
    /\ urls' = InsertAt(urls, IF urls = <<>> THEN 1 ELSE index + 2, url)
    /\ index' = IF urls = <<>> THEN 0 ELSE index + 1

AppendOverCurrent(url) ==
    /\ urls' = Append(SubSeq(urls, 1, index), url)
    /\ UNCHANGED index

\* append_url: drops the entries after the current one.
AppendUrl(url) ==
    LET kept == IF urls = <<>> THEN 0 ELSE index + 1
    IN  /\ urls' = Append(SubSeq(urls, 1, kept), url)
        /\ index' = kept

\* tai_tabset_navigate, _navigate_address, _open_bookmarks and the first load
\* of a new tab.
NavigateUrl(text) ==
    /\ fatal = None
    /\ index + 2 <= MaxHistory
    /\ pending' = [kind |-> "NAVIGATION", url |-> text, target |-> 0]
    /\ UNCHANGED <<urls, index, pageUrl, fatal>>

\* tai_tabset_history.  Without an entry at the target it reports an error.
Traverse(direction) ==
    /\ fatal = None
    /\ CanGo(direction)
    /\ LET target == Target(direction)
       IN  /\ target < Len(urls)
           /\ pending' = [kind |-> "HISTORY", url |-> urls[target + 1],
                          target |-> target]
    /\ UNCHANGED <<urls, index, pageUrl, fatal>>

FinishWithoutReturn(url, recorded) == pageUrl' = url

\* tai_page_finish_fragment_change: the page, which has moved to the fragment,
\* goes back if the history could not take the entry.
FinishFragment(url, recorded) == pageUrl' = IF recorded THEN url ELSE pageUrl

\* A click on a fragment link of the page shown, whatever is pending:
\* apply_fragment_url, tai_tabset_record_fragment, which may be out of memory,
\* and what becomes of the page.
ClickFragment(frag) ==
    /\ fatal = None
    /\ pageUrl # None
    /\ index + (IF Navigating THEN 3 ELSE 2) <= MaxHistory
    /\ LET url == [pageUrl EXCEPT !.frag = frag]
       IN  \E recorded \in BOOLEAN :
               /\ FinishFragment(url, recorded)
               /\ IF recorded THEN AppendUrl(url) ELSE UNCHANGED <<urls, index>>
    /\ UNCHANGED <<pending, fatal>>

\* tai_session_commit_navigation
CommitNavigation ==
    /\ AppendUrl(Serialized(pending.url))
    /\ pageUrl' = Serialized(pending.url)
    /\ UNCHANGED fatal

\* The entry at the target of the traversal still is the one it loaded.
TargetNamesPage ==
    \E i \in DOMAIN urls :
        i = pending.target + 1 /\ urls[i] = Serialized(pending.url)

\* tai_session_commit_history, which refuses a page that is not the one its
\* target names; a refusal makes the pump fail.
CommitHistory ==
    \/ /\ TargetNamesPage
       /\ index' = pending.target
       /\ pageUrl' = Serialized(pending.url)
       /\ UNCHANGED <<urls, fatal>>
    \/ /\ ~TargetNamesPage
       /\ fatal' = "history-page commit"
       /\ UNCHANGED <<urls, index, pageUrl>>

\* tai_tabset_pump accepts the load's page, an error page included.
Settle ==
    /\ fatal = None
    /\ \/ Navigating /\ CommitNavigation
       \/ Traversing /\ CommitHistory
    /\ pending' = None

\* The load made no page: the tab stays as it was.
SettleWithoutPage ==
    /\ fatal = None
    /\ pending # None
    /\ pending' = None
    /\ UNCHANGED <<urls, index, pageUrl, fatal>>

\* The page cannot be resized to the window or its entry not be allocated.
SettleOutOfMemory ==
    /\ fatal = None
    /\ pending # None
    /\ pending' = None
    /\ fatal' = "allocation"
    /\ UNCHANGED <<urls, index, pageUrl>>

\* run_windows has closed every window.
Terminated == fatal # None /\ UNCHANGED vars

Next ==
    \/ \E text \in Texts : NavigateUrl(text)
    \/ \E direction \in {"back", "forward"} : Traverse(direction)
    \/ \E frag \in Frags : ClickFragment(frag)
    \/ Settle
    \/ SettleWithoutPage
    \/ SettleOutOfMemory
    \/ Terminated

Spec == Init /\ [][Next]_vars

-----------------------------------------------------------------------------
(* Properties.                                                             *)

\* The current history entry is the URL of the page shown, through fragment
\* clicks, failed loads and traversals that are overtaken.
CurrentEntryIsPage ==
    IF pageUrl = None THEN urls = <<>> /\ index = 0
    ELSE index < Len(urls) /\ urls[index + 1] = pageUrl

\* What the chrome announced while a load was pending is what its commit
\* leaves: as many entries, the same index, the same URLs in the same places.
\* Only the text of the new one may differ from the one that was announced.
CommitMatchesAnnouncement ==
    [][ pending # None /\ pending' = None
        /\ <<urls, index, pageUrl>>' # <<urls, index, pageUrl>>
        => /\ Len(urls') = VirtualCount
           /\ index' = VirtualIndex
           /\ pageUrl' = Serialized(pending.url)
           /\ \A i \in 0..(VirtualCount - 1) :
                  urls'[i + 1] = Serialized(VirtualUrl(i)) ]_vars

\* No step loses or changes the current entry or one the user can go back to.
BackEntriesAreKept ==
    [][ \A i \in 1..(index + 1) :
            i <= Len(urls) => i <= Len(urls') /\ urls'[i] = urls[i] ]_vars

\* "A Back/Forward traversal keeps its target index": the page a traversal
\* loaded is committed there, it is not refused and the browser goes on.
TraversalKeepsTarget == fatal # "history-page commit"
=============================================================================
