-------------------------- MODULE TabHistoryProofs --------------------------
(***************************************************************************)
(* Proofs about TabHistory, for all documents, fragments and history       *)
(* lengths.                                                                *)
(*                                                                         *)
(* What a commit does depends on the entry it lands on, so the invariant   *)
(* ties the index to the entries and the current entry to the page; the    *)
(* rest is what AppendUrl makes of the entries.                            *)
(***************************************************************************)
EXTENDS TabHistory, TLAPS

-----------------------------------------------------------------------------
(* The inductive invariant.                                                *)

\* Without an entry there is no page, and a pending navigation has room left.
EntryInv ==
    /\ pageUrl # None => index < Len(urls)
    /\ Navigating => index + 2 <= MaxHistory

IInv ==
    /\ TypeOK
    /\ CurrentEntryIsPage
    /\ EntryInv

\* The entries are a sequence of at most MaxHistory URLs.
LEMMA BoundedSeqIsSeq ==
    ASSUME NEW s
    PROVE  s \in BoundedSeq(Urls, MaxHistory)
               <=> s \in Seq(Urls) /\ Len(s) <= MaxHistory
  <1> USE HistoryAssumption
  <1>1. ASSUME s \in BoundedSeq(Urls, MaxHistory)
        PROVE  s \in Seq(Urls) /\ Len(s) <= MaxHistory
    <2>1. PICK m \in 0..MaxHistory : s \in [1..m -> Urls]
      BY <1>1 DEF BoundedSeq, SeqOf
    <2> QED
      BY <2>1
  <1>2. ASSUME s \in Seq(Urls), Len(s) <= MaxHistory
        PROVE  s \in BoundedSeq(Urls, MaxHistory)
    <2>1. Len(s) \in 0..MaxHistory /\ s \in [1..Len(s) -> Urls]
      BY <1>2
    <2> QED
      BY <2>1 DEF BoundedSeq, SeqOf
  <1> QED
    BY <1>1, <1>2

\* append_url keeps the entries up to the current one and adds the new one,
\* which becomes the current one.
LEMMA AppendUrlKeeps ==
    ASSUME NEW url \in Urls, urls \in Seq(Urls), index \in Nat,
           urls # <<>> => index < Len(urls),
           AppendUrl(url)
    PROVE  LET kept == IF urls = <<>> THEN 0 ELSE index + 1
           IN  /\ urls' \in Seq(Urls) /\ Len(urls') = kept + 1
               /\ index' = kept
               /\ \A i \in 1..kept : urls'[i] = urls[i]
               /\ urls'[kept + 1] = url
  <1> DEFINE kept == IF urls = <<>> THEN 0 ELSE index + 1
             base == SubSeq(urls, 1, kept)
  <1>1. kept \in Nat /\ kept <= Len(urls)
    OBVIOUS
  <1>2. base \in Seq(Urls) /\ Len(base) = kept
    BY <1>1
  <1>3. \A i \in 1..kept : base[i] = urls[i]
    BY <1>1
  <1>4. urls' = Append(base, url) /\ index' = kept
    BY DEF AppendUrl
  <1> HIDE DEF kept, base
  <1>5. /\ urls' \in Seq(Urls) /\ Len(urls') = kept + 1
        /\ urls'[kept + 1] = url
        /\ \A i \in 1..kept : urls'[i] = base[i]
    BY <1>1, <1>2, <1>4
  <1>6. \A i \in 1..kept : urls'[i] = urls[i]
    BY <1>3, <1>5
  <1> QED
    BY <1>4, <1>5, <1>6 DEF kept

\* Whatever text a load was asked for, its page has a URL as tai_url_string
\* writes it, and such a URL is written as it is.
LEMMA SerializedIsUrl ==
    /\ \A text \in Texts : Serialized(text) \in Urls
    /\ \A url \in Urls : Serialized(url) = url
  BY DEF Texts, Serialized, Urls

\* TypeOK, one conjunct at a time.
LEMMA Types ==
    ASSUME IInv
    PROVE  /\ urls \in BoundedSeq(Urls, MaxHistory)
           /\ index \in 0..MaxHistory
           /\ pageUrl \in Urls \cup {None}
           /\ pending \in Loads \cup {None}
           /\ fatal \in {None, "history-page commit", "allocation"}
  BY Zenon DEF IInv, TypeOK

\* What the invariant says of the entries, in the terms of AppendUrlKeeps.
LEMMA EntriesAreASeq ==
    ASSUME IInv
    PROVE  /\ urls \in Seq(Urls) /\ Len(urls) <= MaxHistory
           /\ index \in Nat
           /\ urls # <<>> => index < Len(urls)
  <1>1. urls \in Seq(Urls) /\ Len(urls) <= MaxHistory
    <2>1. urls \in BoundedSeq(Urls, MaxHistory)
      BY Types
    <2> QED
      BY <2>1, BoundedSeqIsSeq
  <1>2. index \in Nat
    <2>1. index \in 0..MaxHistory
      BY Types
    <2> QED
      BY <2>1, HistoryAssumption
  <1>3. urls # <<>> => index < Len(urls)
    BY DEF IInv, CurrentEntryIsPage
  <1> QED
    BY <1>1, <1>2, <1>3

LEMMA InitInv == Init => IInv
  <1> SUFFICES ASSUME Init PROVE IInv
    OBVIOUS
  <1>1. urls \in BoundedSeq(Urls, MaxHistory)
    <2>1. urls \in Seq(Urls) /\ Len(urls) = 0
      BY DEF Init
    <2>2. Len(urls) <= MaxHistory
      BY <2>1, HistoryAssumption
    <2> QED
      BY <2>1, <2>2, BoundedSeqIsSeq
  <1>2. TypeOK
    BY <1>1, HistoryAssumption DEF Init, TypeOK
  <1> QED
    BY <1>2 DEF Init, IInv, EntryInv, CurrentEntryIsPage, Navigating

-----------------------------------------------------------------------------
(* One lemma per action.                                                   *)

LEMMA NavigateUrlInv ==
    ASSUME IInv, NEW text \in Texts, NavigateUrl(text)
    PROVE  IInv'
  <1> USE HistoryAssumption DEF IInv, NavigateUrl
  <1>1. TypeOK'
    BY DEF TypeOK, Loads
  <1>2. CurrentEntryIsPage'
    BY DEF CurrentEntryIsPage
  <1>3. EntryInv'
    BY DEF EntryInv
  <1> QED
    BY <1>1, <1>2, <1>3

LEMMA TraverseInv ==
    ASSUME IInv, NEW direction \in {"back", "forward"}, Traverse(direction)
    PROVE  IInv'
  <1> USE HistoryAssumption DEF IInv, Traverse
  <1>1. urls \in Seq(Urls) /\ Len(urls) <= MaxHistory
    BY BoundedSeqIsSeq DEF TypeOK
  <1>2. VirtualIndex \in Nat
    BY <1>1 DEF VirtualIndex, VirtualCount, TypeOK, Loads, Traversing
  <1>3. Target(direction) \in Nat
    BY <1>2 DEF Target, CanGo
  <1>4. pending' = [kind |-> "HISTORY", url |-> urls[Target(direction) + 1],
                    target |-> Target(direction)]
        /\ Target(direction) < Len(urls)
    OBVIOUS
  <1>5. pending' \in Loads
    <2>1. urls[Target(direction) + 1] \in Texts
      BY <1>1, <1>3, <1>4 DEF Texts
    <2> QED
      BY <1>1, <1>3, <1>4, <2>1 DEF Loads
  <1>6. TypeOK'
    BY <1>5 DEF TypeOK
  <1>7. CurrentEntryIsPage'
    BY DEF CurrentEntryIsPage
  <1>8. EntryInv'
    BY <1>4 DEF EntryInv, Navigating
  <1> QED
    BY <1>6, <1>7, <1>8

LEMMA ClickFragmentInv ==
    ASSUME IInv, NEW frag \in Frags, ClickFragment(frag)
    PROVE  IInv'
  <1> USE HistoryAssumption, NoneAssumption
  <1> DEFINE url == [pageUrl EXCEPT !.frag = frag]
  <1>1. /\ pageUrl \in Urls /\ url \in Urls
        /\ urls \in Seq(Urls) /\ Len(urls) <= MaxHistory
        /\ index < Len(urls)
        /\ index \in Nat
    <2>1. pageUrl \in Urls
      BY Types DEF ClickFragment
    <2>2. url \in Urls
      BY <2>1 DEF Urls
    <2>3. index < Len(urls)
      BY <2>1 DEF IInv, EntryInv
    <2> QED
      BY <2>1, <2>2, <2>3, EntriesAreASeq
  <1>2. UNCHANGED <<pending, fatal>>
    BY DEF ClickFragment
  <1>3. CASE UNCHANGED <<urls, index>> /\ pageUrl' = pageUrl
    BY <1>2, <1>3
       DEF IInv, TypeOK, EntryInv, CurrentEntryIsPage, Navigating
  <1>4. CASE AppendUrl(url) /\ pageUrl' = url
    <2>1. /\ urls' \in Seq(Urls) /\ Len(urls') = index + 2
          /\ index' = index + 1 /\ urls'[index + 2] = url
      BY <1>1, <1>4, AppendUrlKeeps
    <2>2. /\ index + 2 <= MaxHistory
          /\ Navigating => index + 3 <= MaxHistory
      BY <1>1 DEF ClickFragment
    <2>3. TypeOK'
      <3>1. Len(urls') <= MaxHistory /\ index' \in 0..MaxHistory
        BY <1>1, <2>1, <2>2
      <3>2. urls' \in BoundedSeq(Urls, MaxHistory)
        BY <2>1, <3>1, BoundedSeqIsSeq
      <3> QED
        BY <1>1, <1>2, <1>4, <3>1, <3>2, Types, Zenon DEF TypeOK
    <2>4. CurrentEntryIsPage'
      BY <1>1, <1>4, <2>1 DEF CurrentEntryIsPage
    <2>5. EntryInv'
      BY <1>1, <1>2, <2>1, <2>2 DEF EntryInv, Navigating
    <2> QED
      BY <2>3, <2>4, <2>5 DEF IInv
  <1> QED
    BY <1>3, <1>4 DEF ClickFragment, FinishFragment

LEMMA SettleInv ==
    ASSUME IInv, Settle
    PROVE  IInv'
  <1> USE HistoryAssumption, NoneAssumption
  <1> DEFINE committed == Serialized(pending.url)
  <1>1. /\ urls \in Seq(Urls) /\ Len(urls) <= MaxHistory
        /\ index \in Nat /\ (urls # <<>> => index < Len(urls))
        /\ pending \in Loads
    <2>1. pending # None
      BY DEF Settle, Navigating, Traversing
    <2> QED
      BY <2>1, EntriesAreASeq, Types
  <1>2. pending' = None /\ committed \in Urls
    <2>1. pending.url \in Texts
      BY <1>1 DEF Loads
    <2> QED
      BY <2>1, SerializedIsUrl DEF Settle
  <1>3. CASE Navigating /\ CommitNavigation
    <2>1. /\ urls' \in Seq(Urls) /\ index' \in Nat /\ index' <= index + 1
          /\ Len(urls') = index' + 1 /\ urls'[index' + 1] = committed
      <3>1. committed \in Urls
        BY <1>2
      <3>2. AppendUrl(committed)
        BY <1>3 DEF CommitNavigation
      <3> DEFINE kept == IF urls = <<>> THEN 0 ELSE index + 1
      <3>3. kept \in Nat /\ kept <= index + 1
        BY <1>1
      <3>4. /\ urls' \in Seq(Urls) /\ Len(urls') = kept + 1
            /\ index' = kept /\ urls'[kept + 1] = committed
        BY <1>1, <3>1, <3>2, AppendUrlKeeps
      <3> QED
        BY <3>3, <3>4
    <2>2. index + 2 <= MaxHistory
      BY <1>3 DEF IInv, EntryInv
    <2>3. pageUrl' = committed /\ pageUrl' \in Urls /\ UNCHANGED fatal
      BY <1>2, <1>3 DEF CommitNavigation
    <2> DEFINE last == index'
    <2>4. last \in Nat /\ last <= index + 1 /\ Len(urls') = last + 1
      BY <2>1
    <2> HIDE DEF last
    <2>5. last < Len(urls')
      BY <2>4
    <2>6. TypeOK'
      <3>1. Len(urls') <= MaxHistory /\ last \in 0..MaxHistory
        BY <1>1, <2>2, <2>4
      <3>2. urls' \in BoundedSeq(Urls, MaxHistory)
        BY <2>1, <3>1, BoundedSeqIsSeq
      <3> QED
        BY <1>2, <2>3, <3>1, <3>2, Types, Zenon DEF TypeOK, last
    <2>7. CurrentEntryIsPage'
      <3>1. pageUrl' # None /\ index' < Len(urls')
        BY <2>3, <2>5 DEF last
      <3> QED
        BY <2>1, <2>3, <3>1 DEF CurrentEntryIsPage
    <2>8. EntryInv'
      BY <1>2, <2>5 DEF EntryInv, Navigating, last
    <2> QED
      BY <2>6, <2>7, <2>8 DEF IInv
  <1>4. CASE Traversing /\ CommitHistory
    <2>1. CASE TargetNamesPage /\ index' = pending.target
               /\ pageUrl' = committed /\ UNCHANGED <<urls, fatal>>
      <3>1. /\ index' \in 0..MaxHistory /\ index' < Len(urls)
            /\ urls[index' + 1] = committed
            /\ pageUrl' \in Urls
        BY <1>1, <1>2, <2>1 DEF TargetNamesPage, Loads
      <3>2. TypeOK'
        BY <1>2, <2>1, <3>1 DEF IInv, TypeOK
      <3>3. CurrentEntryIsPage' /\ EntryInv'
        BY <1>2, <2>1, <3>1 DEF CurrentEntryIsPage, EntryInv, Navigating
      <3> QED
        BY <3>2, <3>3 DEF IInv
    <2>2. CASE fatal' = "history-page commit"
               /\ UNCHANGED <<urls, index, pageUrl>>
      BY <1>2, <2>2
         DEF IInv, TypeOK, EntryInv, CurrentEntryIsPage, Navigating
    <2> QED
      BY <1>4, <2>1, <2>2 DEF CommitHistory
  <1> QED
    BY <1>3, <1>4 DEF Settle

LEMMA OtherInv ==
    ASSUME IInv, SettleWithoutPage \/ SettleOutOfMemory \/ UNCHANGED vars
    PROVE  IInv'
  <1> USE DEF IInv, TypeOK, EntryInv, CurrentEntryIsPage, Navigating, vars
  <1>1. CASE SettleWithoutPage
    BY <1>1 DEF SettleWithoutPage
  <1>2. CASE SettleOutOfMemory
    BY <1>2 DEF SettleOutOfMemory
  <1>3. CASE UNCHANGED vars
    BY <1>3
  <1> QED
    BY <1>1, <1>2, <1>3

LEMMA NextInv == IInv /\ [Next]_vars => IInv'
  BY NavigateUrlInv, TraverseInv, ClickFragmentInv, SettleInv, OtherInv
     DEF Next, Terminated

LEMMA Invariant == Spec => []IInv
  BY InitInv, NextInv, PTL DEF Spec

-----------------------------------------------------------------------------
(* The theorems.                                                           *)

\* The types hold; in particular an index never leaves its bounds although a
\* fragment link shortens the history below the target of a traversal.
THEOREM TypeCorrect == Spec => []TypeOK
  <1>1. IInv => TypeOK
    BY DEF IInv
  <1> QED
    BY <1>1, Invariant, PTL

\* The current history entry is the URL of the page shown, for every history:
\* through fragment clicks that are recorded or refused, failed loads and
\* traversals that are overtaken (session.c).
THEOREM EntryIsPage == Spec => []CurrentEntryIsPage
  <1>1. IInv => CurrentEntryIsPage
    BY DEF IInv
  <1> QED
    BY <1>1, Invariant, PTL

\* What virtual_history announces of a pending load is what its commit leaves,
\* but for how the text of the new entry is spelled: task->url is announced,
\* tai_url_string of the page's URL is committed.
THEOREM AnnouncementHolds == Spec => CommitMatchesAnnouncement
  <1> DEFINE Announced ==
        /\ Len(urls') = VirtualCount
        /\ index' = VirtualIndex
        /\ pageUrl' = Serialized(pending.url)
        /\ \A i \in 0..(VirtualCount - 1) :
               urls'[i + 1] = Serialized(VirtualUrl(i))
      Commits ==
        /\ pending # None /\ pending' = None
        /\ <<urls, index, pageUrl>>' # <<urls, index, pageUrl>>
  <1>1. ASSUME IInv, [Next]_vars, Commits
        PROVE  Announced
    <2>1. Settle
      BY <1>1 DEF Next, NavigateUrl, Traverse, ClickFragment, Terminated,
                  SettleWithoutPage, SettleOutOfMemory, vars
    <2>2. /\ urls \in Seq(Urls) /\ index \in Nat /\ pending \in Loads
          /\ urls # <<>> => index < Len(urls)
      BY <1>1, EntriesAreASeq, Types
    <2>3. CASE Navigating /\ CommitNavigation
      <3>1. VirtualCount = IF urls = <<>> THEN 1 ELSE index + 2
        BY <2>3 DEF VirtualCount
      <3>2. VirtualIndex = VirtualCount - 1
        BY <2>3 DEF VirtualIndex
      <3>3. /\ Len(urls') = VirtualCount /\ index' = VirtualIndex
            /\ \A i \in 1..index' : urls'[i] = urls[i]
            /\ urls'[index' + 1] = Serialized(pending.url)
        <4>1. Serialized(pending.url) \in Urls
          BY <2>2, SerializedIsUrl DEF Loads
        <4> QED
          BY <2>2, <2>3, <3>1, <3>2, <4>1, AppendUrlKeeps DEF CommitNavigation
      <3>4. ASSUME NEW i \in 0..(VirtualCount - 1)
            PROVE  urls'[i + 1] = Serialized(VirtualUrl(i))
        <4>1. CASE i = VirtualCount - 1
          BY <2>2, <2>3, <3>1, <3>2, <3>3, <4>1 DEF VirtualUrl
        <4>2. CASE i # VirtualCount - 1
          <5>1. i + 1 \in 1..index' /\ urls # <<>> /\ i < Len(urls)
            BY <2>2, <3>1, <3>2, <3>3, <4>2
          <5>2. urls'[i + 1] = urls[i + 1] /\ urls[i + 1] \in Urls
            BY <2>2, <3>3, <5>1
          <5>3. VirtualUrl(i) = urls[i + 1]
            BY <4>2 DEF VirtualUrl
          <5> QED
            BY <5>2, <5>3, SerializedIsUrl
        <4> QED
          BY <4>1, <4>2
      <3> QED
        BY <2>3, <3>3, <3>4 DEF CommitNavigation
    <2>4. CASE Traversing /\ CommitHistory
      <3>1. /\ index' = pending.target /\ pageUrl' = Serialized(pending.url)
            /\ UNCHANGED urls
        BY <1>1, <2>4 DEF CommitHistory
      <3>2. ~ Navigating
        BY <2>4 DEF Traversing, Navigating
      <3>3. VirtualCount = Len(urls) /\ VirtualIndex = pending.target
        BY <2>4, <3>2 DEF VirtualCount, VirtualIndex
      <3>4. \A i : VirtualUrl(i) = urls[i + 1]
        BY <3>2 DEF VirtualUrl
      <3>5. \A i \in 0..(VirtualCount - 1) : urls[i + 1] \in Urls
        BY <2>2, <3>3
      <3> QED
        BY <3>1, <3>3, <3>4, <3>5, SerializedIsUrl
    <2> QED
      BY <2>1, <2>3, <2>4 DEF Settle
  <1>2. IInv /\ [Next]_vars => [Commits => Announced]_vars
    BY <1>1
  <1> QED
    BY <1>2, Invariant, PTL DEF Spec, CommitMatchesAnnouncement

\* No step loses or changes the current entry or one the user can go back to,
\* whatever is pending (append_url).
THEOREM BackEntriesStay == Spec => BackEntriesAreKept
  <1> DEFINE Kept == \A i \in 1..(index + 1) :
                         i <= Len(urls) => i <= Len(urls') /\ urls'[i] = urls[i]
  <1>1. ASSUME IInv, [Next]_vars PROVE Kept
    <2>1. /\ urls \in Seq(Urls) /\ index \in Nat
          /\ urls # <<>> => index < Len(urls)
      BY <1>1, EntriesAreASeq
    <2>2. CASE UNCHANGED urls
      BY <2>1, <2>2
    <2>3. ASSUME NEW url \in Urls, AppendUrl(url) PROVE Kept
      BY <2>1, <2>3, AppendUrlKeeps
    <2>4. UNCHANGED urls \/ \E url \in Urls : AppendUrl(url)
      <3>1. CASE \E frag \in Frags : ClickFragment(frag)
        BY <1>1, <3>1, NoneAssumption
           DEF ClickFragment, IInv, TypeOK, Urls
      <3>2. CASE Settle
        <4>1. pending \in Loads
          <5>1. pending # None
            BY <3>2 DEF Settle, Navigating, Traversing
          <5> QED
            BY <1>1, <5>1, Types
        <4>2. Serialized(pending.url) \in Urls
          BY <4>1, SerializedIsUrl DEF Loads
        <4> QED
          BY <3>2, <4>2 DEF Settle, CommitNavigation, CommitHistory
      <3> QED
        BY <1>1, <3>1, <3>2
           DEF Next, NavigateUrl, Traverse, Terminated, SettleWithoutPage,
               SettleOutOfMemory, vars
    <2> QED
      BY <2>2, <2>3, <2>4
  <1>2. IInv /\ [Next]_vars => [Kept]_vars
    BY <1>1
  <1> QED
    BY <1>2, Invariant, PTL DEF Spec, BackEntriesAreKept

=============================================================================
