--------------------------- MODULE WindowsProofs ---------------------------
(***************************************************************************)
(* Proofs about Windows, for any number of windows, tabs, URLs and sizes.   *)
(*                                                                         *)
(* A property of the moments when the loop waits is an invariant of every   *)
(* window that has had its frame in this turn.  What the event of a turn    *)
(* does to the window it is for is one Effect; the frame makes up for it.   *)
(***************************************************************************)
EXTENDS Windows, TLAPS

-----------------------------------------------------------------------------
(* The inductive invariant.                                                *)

Editors == [text : Texts, focused : BOOLEAN, dirty : BOOLEAN,
            base : Urls \cup {None}, tab : 0..TabLimit]
Watches == [tab : 1..TabLimit, url : Urls \cup {None}]
Viewports == [size : Sizes, wraps : BOOLEAN]
Chromes == [count : Nat, active : Nat, url : Urls \cup {None}, text : Texts,
            caret : BOOLEAN, wraps : BOOLEAN, star : BOOLEAN,
            size : Sizes, touched : BOOLEAN]
Pictures == [tab : Nat, page : Pages \cup {None}, size : Sizes,
             wraps : BOOLEAN, current : BOOLEAN]

TabTypes ==
    /\ tabs \in [Windows -> Seq(Slots)]
    /\ active \in [Windows -> Nat]
    /\ \A w \in Windows : Len(tabs[w]) \in 1..TabLimit
                          /\ active[w] \in 1..Len(tabs[w])

Types ==
    /\ TabTypes
    /\ editor \in [Windows -> Editors]
    /\ watch \in [Windows -> Watches]
    /\ focused \in [Windows -> BOOLEAN] /\ started \in [Windows -> BOOLEAN]
    /\ flags \in [Windows -> Flags]
    /\ size \in [Windows -> Sizes] /\ row \in [Windows -> BOOLEAN]
    /\ viewport \in [Windows -> Viewports]
    /\ chrome \in [Windows -> Chromes] /\ picture \in [Windows -> Pictures]
    /\ bookmarks \subseteq Urls

Framing == {framing[i] : i \in DOMAIN framing}

LoopInv ==
    /\ windows \in Seq(Windows) /\ IsInjective(windows)
    /\ Len(windows) <= MaxWindows
    /\ framing \in Seq(Windows) /\ IsInjective(framing) /\ Framing \subseteq Open

\* The page texture and the chrome texture show the window, for the strip as
\* it was when the pages were sized.
PictureShows(w) ==
    /\ picture[w].tab = active[w] /\ picture[w].page = ActivePage(w)
    /\ picture[w].size = size[w] /\ picture[w].wraps = row[w]
    /\ picture[w].current

Star(w) == Bookmarkable(w) /\ ActivePage(w).url \in bookmarks
Shown(w) == IF HasDraft(w) THEN editor[w].text ELSE ViewUrl(w)
ChromeShows(w) ==
    /\ chrome[w].count = Len(tabs[w]) /\ chrome[w].active = active[w]
    /\ chrome[w].url = ViewUrl(w) /\ chrome[w].text = Shown(w)
    /\ chrome[w].caret = editor[w].focused /\ chrome[w].wraps = row[w]
    /\ chrome[w].size = size[w]
    /\ chrome[w].touched \/ chrome[w].star = Star(w)

\* A draft belongs to a tab there is, and to the URL last followed in it.
DraftOK(w) ==
    HasDraft(w) =>
        /\ editor[w].tab <= Len(tabs[w])
        /\ editor[w].tab = watch[w].tab => editor[w].base = watch[w].url
        /\ editor[w].tab = active[w] => watch[w].tab = active[w]

TypingOK(w) ==
    focused[w] /\ (editor[w].focused \/ TakesText(ActivePage(w))) => started[w]

\* Of every window, at any time: the flags say what is yet to be drawn.
WindowOK(w) ==
    /\ viewport[w] = [size |-> size[w], wraps |-> row[w]]
    /\ TypingOK(w)
    /\ DraftOK(w)
    /\ flags[w].page \/ PictureShows(w)
    /\ flags[w].chrome \/ ChromeShows(w)

\* Of a window that has had its frame.
FramedOK(w) ==
    /\ row[w] = Wraps(w)
    /\ watch[w] = [tab |-> active[w], url |-> ViewUrl(w)]
    /\ PictureShows(w) /\ ChromeShows(w)

IInv ==
    /\ Types
    /\ LoopInv
    /\ \A w \in Windows : WindowOK(w)
    /\ \A w \in Windows \ Framing : FramedOK(w)
    /\ \A w \in Windows \ Open : tabs[w] = FirstTabs /\ active[w] = 1

-----------------------------------------------------------------------------
(* What an event does to the window it is for.                              *)

\* A variable that changes for one window at most.
Only(old, new, w, S) ==
    /\ new \in [Windows -> S]
    /\ \A x \in Windows \ {w} : new[x] = old[x]

TabsEffect(w) ==
    /\ Only(tabs, tabs', w, Seq(Slots)) /\ Only(active, active', w, Nat)
    /\ Len(tabs'[w]) \in Len(tabs[w])..TabLimit
    /\ active'[w] \in 1..Len(tabs'[w])

\* A draft began at this event, or is the one there was; when another tab comes
\* to the front it is a new one or there is no draft.
DraftEffect(w) ==
    /\ Only(editor, editor', w, Editors)
    /\ HasDraft(w)' =>
         \/ /\ HasDraft(w)
            /\ editor'[w].base = editor[w].base /\ editor'[w].tab = editor[w].tab
            /\ active'[w] = active[w] \/ active'[w] > Len(tabs[w])
         \/ /\ editor'[w].base = ViewUrl(w) /\ editor'[w].tab = active[w]
            /\ active'[w] = active[w]

SizeEffect(w) ==
    /\ Only(size, size', w, Sizes) /\ Only(row, row', w, BOOLEAN)
    /\ Only(viewport, viewport', w, Viewports)
    /\ viewport'[w] = [size |-> size'[w], wraps |-> row'[w]]

SamePicture(w) ==
    /\ active'[w] = active[w] /\ ActivePage(w)' = ActivePage(w)
    /\ size'[w] = size[w] /\ row'[w] = row[w]
    /\ picture'[w] = picture[w]

SameChrome(w) ==
    /\ Len(tabs'[w]) = Len(tabs[w]) /\ active'[w] = active[w]
    /\ ViewUrl(w)' = ViewUrl(w) /\ Shown(w)' = Shown(w)
    /\ editor'[w].focused = editor[w].focused /\ row'[w] = row[w]
    /\ size'[w] = size[w]
    /\ Star(w)' = Star(w) /\ chrome'[w] = chrome[w]

\* The store changed under other windows, which are told.
Starred(w) ==
    LET url == ActivePage(w).url
    IN  /\ Bookmarkable(w) /\ flags'[w].chrome
        /\ bookmarks' = IF url \in bookmarks THEN bookmarks \ {url}
                        ELSE bookmarks \cup {url}
        /\ chrome' = [x \in Windows |->
               IF x \in Open \ {w} /\ chrome[x].url = url
               THEN [chrome[x] EXCEPT !.touched = TRUE] ELSE chrome[x]]

Effect(w) ==
    /\ TabsEffect(w) /\ DraftEffect(w) /\ SizeEffect(w)
    /\ Only(flags, flags', w, Flags) /\ Only(focused, focused', w, BOOLEAN)
    /\ Only(picture, picture', w, Pictures)
    /\ UNCHANGED <<bookmarks, chrome>> \/ Starred(w)
    /\ flags'[w].page \/ SamePicture(w)
    /\ flags'[w].chrome \/ SameChrome(w)

LEMMA OnlySame ==
    ASSUME NEW S, NEW f \in [Windows -> S], NEW w PROVE Only(f, f, w, S)
BY DEF Only

LEMMA OnlyAt ==
    ASSUME NEW S, NEW f \in [Windows -> S], NEW w \in Windows, NEW e \in S,
           NEW new, new = [f EXCEPT ![w] = e]
    PROVE  Only(f, new, w, S) /\ new[w] = e
BY DEF Only

\* Of a window the event is not for.
OthersSame(w) ==
    \A x \in Windows \ {w} :
        /\ tabs'[x] = tabs[x] /\ active'[x] = active[x]
        /\ editor'[x] = editor[x] /\ focused'[x] = focused[x]
        /\ started'[x] = started[x] /\ watch'[x] = watch[x]
        /\ size'[x] = size[x] /\ row'[x] = row[x]
        /\ viewport'[x] = viewport[x] /\ flags'[x] = flags[x]
        /\ picture'[x] = picture[x]

\* A star that changed has been told of, so what a window shows stays right.
LEMMA ChromeStays ==
    ASSUME Types, NEW w, NEW x \in Windows, x # w,
           x \in Open \/ ~ Bookmarkable(x),
           tabs'[x] = tabs[x], active'[x] = active[x], editor'[x] = editor[x],
           row'[x] = row[x], size'[x] = size[x], ChromeShows(x),
           UNCHANGED <<bookmarks, chrome>> \/ Starred(w)
    PROVE  ChromeShows(x)'
<1>1. /\ ViewUrl(x)' = ViewUrl(x) /\ Shown(x)' = Shown(x)
      /\ ActivePage(x)' = ActivePage(x) /\ Bookmarkable(x)' = Bookmarkable(x)
  BY DEF ViewUrl, Shown, ActivePage, Bookmarkable, HasDraft
<1>2. CASE UNCHANGED <<bookmarks, chrome>>
  <2>1. Star(x)' = Star(x)
    BY <1>1, <1>2 DEF Star
  <2> QED
    BY <1>1, <1>2, <2>1 DEF ChromeShows
<1>3. CASE Starred(w)
  <2> DEFINE url == ActivePage(w).url
  <2>1. chrome[x] \in Chromes
    BY DEF Types
  <2>2. CASE chrome[x].url = url /\ x \in Open
    <3>1. chrome'[x] = [chrome[x] EXCEPT !.touched = TRUE]
      BY <1>3, <2>2 DEF Starred
    <3>2. /\ chrome'[x].count = chrome[x].count
          /\ chrome'[x].active = chrome[x].active
          /\ chrome'[x].url = chrome[x].url /\ chrome'[x].text = chrome[x].text
          /\ chrome'[x].caret = chrome[x].caret
          /\ chrome'[x].wraps = chrome[x].wraps
          /\ chrome'[x].size = chrome[x].size /\ chrome'[x].touched
      BY <2>1, <3>1 DEF Chromes
    <3> QED
      BY <1>1, <3>2 DEF ChromeShows
  <2>3. CASE chrome[x].url # url \/ x \notin Open
    <3>1. chrome'[x] = chrome[x]
      BY <1>3, <2>3 DEF Starred
    <3>2. ASSUME Bookmarkable(x) PROVE ActivePage(x).url # url
      BY <2>3, <3>2 DEF ChromeShows, ViewUrl, UrlOf, Bookmarkable, ActivePage
    <3>3. Star(x)' = Star(x)
      <4>1. ActivePage(x).url # url =>
              (ActivePage(x).url \in bookmarks' <=> ActivePage(x).url \in bookmarks)
        BY <1>3 DEF Starred
      <4> QED
        BY <1>1, <3>2, <4>1 DEF Star
    <3> QED
      BY <1>1, <3>1, <3>3 DEF ChromeShows
  <2> QED
    BY <2>2, <2>3
<1> QED
  BY <1>2, <1>3

LEMMA UnopenedIsUnmarked ==
    ASSUME NEW x, tabs[x] = FirstTabs, active[x] = 1 PROVE ~ Bookmarkable(x)
<1>1. tabs[x][active[x]].pending = Home
  BY DEF FirstTabs
<1> QED
  BY <1>1, WindowsAssumption DEF Bookmarkable

\* The event of a turn: its window is as it should be but for what the flags
\* have the frame draw.
LEMMA EffectHolds ==
    ASSUME IInv, NEW w \in Windows, EventFor(w), Effect(w), RefreshTextInput(w)
    PROVE  IInv'
<1>1. /\ Types /\ LoopInv /\ framing = <<>> /\ w \in Open
      /\ framing' = windows /\ windows' = windows /\ watch' = watch
  BY DEF IInv, EventFor, Waiting
<1>2. \A x \in Windows : WindowOK(x) /\ FramedOK(x)
  BY <1>1 DEF IInv, Framing
<1>3. /\ started \in [Windows -> BOOLEAN]
      /\ started' = [started EXCEPT ![w] =
           focused'[w] /\ (editor'[w].focused \/ TakesText(ActivePage(w)'))]
  BY <1>1 DEF Types, RefreshTextInput
<1>4. Open' = Open /\ Framing' = Open
  BY <1>1 DEF Open, Framing
<1>5. Types'
  <2>1. TabTypes'
    <3>1. /\ tabs' \in [Windows -> Seq(Slots)] /\ active' \in [Windows -> Nat]
      BY DEF Effect, TabsEffect, Only
    <3>2. ASSUME NEW x \in Windows
          PROVE  Len(tabs'[x]) \in 1..TabLimit /\ active'[x] \in 1..Len(tabs'[x])
      <4>1. CASE x = w
        <5>1. /\ Len(tabs[w]) \in 1..TabLimit /\ Len(tabs'[w]) \in Len(tabs[w])..TabLimit
              /\ active'[w] \in 1..Len(tabs'[w])
          BY <1>1 DEF Types, TabTypes, Effect, TabsEffect
        <5> QED
          BY <4>1, <5>1, WindowsAssumption
      <4>2. CASE x # w
        BY <1>1, <4>2 DEF Types, TabTypes, Effect, TabsEffect, Only
      <4> QED
        BY <4>1, <4>2
    <3> QED
      BY <3>1, <3>2 DEF TabTypes
  <2>2. bookmarks' \subseteq Urls /\ chrome' \in [Windows -> Chromes]
    <3>1. CASE UNCHANGED <<bookmarks, chrome>>
      BY <1>1, <3>1 DEF Types
    <3>2. CASE Starred(w)
      <4>1. ActivePage(w).url \in Urls
        <5>1. ActivePage(w) # None
          BY <3>2 DEF Starred, Bookmarkable
        <5>2. tabs[w][active[w]] \in Slots
          BY <1>1 DEF Types, TabTypes
        <5> QED
          BY <5>1, <5>2 DEF ActivePage, Slots, Pages
      <4>2. bookmarks' \subseteq Urls
        BY <1>1, <3>2, <4>1 DEF Starred, Types
      <4>3. \A c \in Chromes : [c EXCEPT !.touched = TRUE] \in Chromes
        BY DEF Chromes
      <4>4. chrome' \in [Windows -> Chromes]
        BY <1>1, <3>2, <4>3 DEF Starred, Types
      <4> QED
        BY <4>2, <4>4
    <3> QED
      BY <3>1, <3>2 DEF Effect
  <2>3. started' \in [Windows -> BOOLEAN]
    BY <1>3, Zenon
  <2>4. /\ editor' \in [Windows -> Editors] /\ flags' \in [Windows -> Flags]
        /\ focused' \in [Windows -> BOOLEAN] /\ size' \in [Windows -> Sizes]
        /\ row' \in [Windows -> BOOLEAN] /\ viewport' \in [Windows -> Viewports]
        /\ picture' \in [Windows -> Pictures]
    BY DEF Effect, DraftEffect, SizeEffect, Only
  <2>5. watch' \in [Windows -> Watches]
    BY <1>1 DEF Types
  <2> QED
    BY <2>1, <2>2, <2>3, <2>4, <2>5 DEF Types
<1>6. LoopInv'
  BY <1>1, <1>4 DEF LoopInv
<1>7. OthersSame(w)
  <2>1. \A x \in Windows \ {w} : started'[x] = started[x]
    BY <1>3
  <2> QED
    BY <1>1, <2>1
       DEF OthersSame, Effect, TabsEffect, DraftEffect, SizeEffect, Only
<1>8. ASSUME NEW x \in Windows, x # w
      PROVE  /\ WindowOK(x)' /\ FramedOK(x)'
             /\ tabs'[x] = tabs[x] /\ active'[x] = active[x]
  <2>1. /\ tabs'[x] = tabs[x] /\ active'[x] = active[x]
        /\ editor'[x] = editor[x] /\ focused'[x] = focused[x]
        /\ started'[x] = started[x] /\ watch'[x] = watch[x]
        /\ size'[x] = size[x] /\ row'[x] = row[x]
        /\ viewport'[x] = viewport[x] /\ flags'[x] = flags[x]
        /\ picture'[x] = picture[x]
    BY <1>7, <1>8 DEF OthersSame
  <2>2. WindowOK(x) /\ FramedOK(x)
    BY <1>2
  <2>3. /\ ViewUrl(x)' = ViewUrl(x) /\ ActivePage(x)' = ActivePage(x)
        /\ HasDraft(x)' = HasDraft(x) /\ Wraps(x)' = Wraps(x)
    BY <2>1 DEF ViewUrl, ActivePage, HasDraft, Wraps
  <2>4. PictureShows(x)'
    BY <2>1, <2>2, <2>3 DEF PictureShows, FramedOK
  <2>5. ChromeShows(x)'
    <3>1. x \in Open \/ ~ Bookmarkable(x)
      BY UnopenedIsUnmarked DEF IInv
    <3> QED
      BY <1>1, <1>8, <2>1, <2>2, <3>1, ChromeStays DEF FramedOK, Effect
  <2>6. DraftOK(x)' /\ TypingOK(x)'
    BY <2>1, <2>2, <2>3 DEF DraftOK, TypingOK, WindowOK
  <2>7. WindowOK(x)'
    BY <2>1, <2>2, <2>4, <2>5, <2>6 DEF WindowOK
  <2>8. FramedOK(x)'
    BY <2>1, <2>2, <2>3, <2>4, <2>5 DEF FramedOK
  <2> QED
    BY <2>1, <2>7, <2>8
<1>9. WindowOK(w)'
  <2>1. TypingOK(w)'
    BY <1>3 DEF TypingOK
  <2>2. DraftOK(w)'
    <3> SUFFICES ASSUME HasDraft(w)'
                 PROVE  /\ editor'[w].tab <= Len(tabs'[w])
                        /\ editor'[w].tab = watch'[w].tab
                              => editor'[w].base = watch'[w].url
                        /\ editor'[w].tab = active'[w]
                              => watch'[w].tab = active'[w]
      BY DEF DraftOK
    <3>1. watch'[w] = [tab |-> active[w], url |-> ViewUrl(w)]
      BY <1>1, <1>2 DEF FramedOK
    <3>2. /\ active[w] \in 1..Len(tabs[w]) /\ Len(tabs[w]) \in Nat
          /\ Len(tabs'[w]) \in Nat /\ Len(tabs[w]) <= Len(tabs'[w])
      BY <1>1, <1>5 DEF Types, TabTypes, Effect, TabsEffect
    <3>3. CASE /\ HasDraft(w)
               /\ editor'[w].base = editor[w].base
               /\ editor'[w].tab = editor[w].tab
               /\ active'[w] = active[w] \/ active'[w] > Len(tabs[w])
      <4>1. /\ editor[w].tab <= Len(tabs[w])
            /\ editor[w].tab = watch[w].tab => editor[w].base = watch[w].url
            /\ editor[w].tab = active[w] => watch[w].tab = active[w]
        BY <1>2, <3>3 DEF WindowOK, DraftOK
      <4>2. editor[w].tab \in Nat /\ active'[w] \in Nat
        BY <1>1, <1>5, WindowsAssumption DEF Types, TabTypes, Editors
      <4> QED
        BY <1>1, <3>1, <3>2, <3>3, <4>1, <4>2
    <3>4. CASE /\ editor'[w].base = ViewUrl(w) /\ editor'[w].tab = active[w]
               /\ active'[w] = active[w]
      BY <3>1, <3>2, <3>4
    <3> QED
      BY <3>3, <3>4 DEF Effect, DraftEffect
  <2>3. flags'[w].page \/ PictureShows(w)'
    <3>1. CASE SamePicture(w)
      BY <1>2, <3>1 DEF SamePicture, FramedOK, PictureShows
    <3> QED
      BY <3>1 DEF Effect
  <2>4. flags'[w].chrome \/ ChromeShows(w)'
    <3>1. CASE SameChrome(w)
      BY <1>2, <3>1 DEF SameChrome, FramedOK, ChromeShows
    <3> QED
      BY <3>1 DEF Effect
  <2> QED
    BY <2>1, <2>2, <2>3, <2>4 DEF WindowOK, Effect, SizeEffect
<1>10. \A x \in Windows \ Open : tabs'[x] = FirstTabs /\ active'[x] = 1
  BY <1>1, <1>8 DEF IInv
<1>11. \A x \in Windows \ Framing' : FramedOK(x)'
  BY <1>1, <1>4, <1>8
<1> QED
  BY <1>4, <1>5, <1>6, <1>8, <1>9, <1>10, <1>11 DEF IInv

-----------------------------------------------------------------------------
(* The pieces of the handlers.                                             *)

\* What an event sees of its window.
LEMMA WindowTypes ==
    ASSUME Types, NEW w \in Windows
    PROVE  /\ tabs[w] \in Seq(Slots) /\ Len(tabs[w]) \in 1..TabLimit
           /\ active[w] \in 1..Len(tabs[w]) /\ active[w] \in DOMAIN tabs[w]
           /\ tabs[w][active[w]] \in Slots
           /\ ActivePage(w) \in Pages \cup {None}
           /\ ViewUrl(w) \in Urls \cup {None}
           /\ editor[w] \in Editors /\ HasDraft(w) \in BOOLEAN
           /\ flags[w] \in Flags /\ size[w] \in Sizes /\ row[w] \in BOOLEAN
<1>1. /\ tabs[w] \in Seq(Slots) /\ Len(tabs[w]) \in 1..TabLimit
      /\ active[w] \in 1..Len(tabs[w]) /\ active[w] \in DOMAIN tabs[w]
      /\ tabs[w][active[w]] \in Slots
  BY DEF Types, TabTypes
<1>2. ActivePage(w) \in Pages \cup {None} /\ ViewUrl(w) \in Urls \cup {None}
  BY <1>1 DEF ActivePage, ViewUrl, UrlOf, Slots, Pages
<1>3. /\ editor[w] \in Editors /\ flags[w] \in Flags
      /\ size[w] \in Sizes /\ row[w] \in BOOLEAN
  BY DEF Types
<1>4. HasDraft(w) \in BOOLEAN
  BY <1>3 DEF HasDraft, Editors
<1> QED
  BY <1>1, <1>2, <1>3, <1>4

LEMMA FlagsSet ==
    ASSUME Types, NEW w \in Windows, NEW onPage \in BOOLEAN,
           NEW onChrome \in BOOLEAN,
           SetFlags(w, onPage, onChrome)
    PROVE  /\ Only(flags, flags', w, Flags)
           /\ flags'[w].page = onPage /\ flags'[w].chrome = onChrome
<1> DEFINE f == [flags[w] EXCEPT !.page = onPage]
           g == [f EXCEPT !.chrome = onChrome]
<1>1. flags[w] \in Flags /\ flags \in [Windows -> Flags]
  BY DEF Types
<1>2. f \in Flags /\ f.page = onPage
  BY <1>1 DEF Flags
<1>3. g \in Flags /\ g.page = onPage /\ g.chrome = onChrome
  BY <1>2 DEF Flags
<1>4. flags' = [flags EXCEPT ![w] = g]
  BY <1>1 DEF SetFlags
<1> HIDE DEF g
<1> QED
  BY <1>1, <1>3, <1>4, OnlyAt

LEMMA FlagsAdded ==
    ASSUME Types, NEW w \in Windows, NEW onPage \in BOOLEAN,
           NEW onChrome \in BOOLEAN,
           AddFlags(w, onPage, onChrome)
    PROVE  /\ Only(flags, flags', w, Flags)
           /\ onPage => flags'[w].page
           /\ onChrome => flags'[w].chrome
<1> DEFINE page == flags[w].page \/ onPage
           chr == flags[w].chrome \/ onChrome
<1>1. flags[w] \in Flags /\ flags \in [Windows -> Flags]
  BY DEF Types
<1>2. SetFlags(w, page, chr)
  BY <1>1 DEF AddFlags, SetFlags
<1>3. page \in BOOLEAN /\ chr \in BOOLEAN /\ (onPage => page) /\ (onChrome => chr)
  BY <1>1 DEF Flags
<1> HIDE DEF page, chr
<1>4. /\ Only(flags, flags', w, Flags)
      /\ flags'[w].page = page /\ flags'[w].chrome = chr
  BY <1>2, <1>3, FlagsSet
<1> QED
  BY <1>3, <1>4

LEMMA ChromeFlagSet ==
    ASSUME Types, NEW w \in Windows, SetChromeFlag(w)
    PROVE  Only(flags, flags', w, Flags) /\ flags'[w].chrome
<1>1. flags[w] \in Flags /\ flags \in [Windows -> Flags]
  BY DEF Types
<1>2. /\ [flags[w] EXCEPT !.chrome = TRUE] \in Flags
      /\ [flags[w] EXCEPT !.chrome = TRUE].chrome = TRUE
  BY <1>1 DEF Flags
<1>3. flags' = [flags EXCEPT ![w] = [flags[w] EXCEPT !.chrome = TRUE]]
  BY <1>1 DEF SetChromeFlag
<1> QED
  BY <1>1, <1>2, <1>3, OnlyAt

\* New slots for the window, at least as many, its active tab the same.
LEMMA TabsPut ==
    ASSUME Types, NEW w \in Windows, NEW slots \in Seq(Slots),
           Len(slots) = Len(tabs[w]), tabs' = [tabs EXCEPT ![w] = slots],
           active' = active
    PROVE  TabsEffect(w) /\ tabs'[w] = slots /\ active'[w] = active[w]
<1>1. /\ tabs \in [Windows -> Seq(Slots)] /\ active \in [Windows -> Nat]
      /\ Len(tabs[w]) \in 1..TabLimit /\ active[w] \in 1..Len(tabs[w])
  BY DEF Types, TabTypes
<1>2. Only(tabs, tabs', w, Seq(Slots)) /\ tabs'[w] = slots
  BY <1>1, OnlyAt
<1>3. Only(active, active', w, Nat)
  BY <1>1, OnlySame
<1>4. Len(tabs[w]) \in Len(tabs[w])..TabLimit
  BY <1>1, WindowsAssumption
<1> QED
  BY <1>1, <1>2, <1>3, <1>4 DEF TabsEffect

LEMMA TabsKept ==
    ASSUME Types, NEW w \in Windows, UNCHANGED tabVars
    PROVE  TabsEffect(w) /\ tabs'[w] = tabs[w] /\ active'[w] = active[w]
<1>1. tabs \in [Windows -> Seq(Slots)]
  BY DEF Types, TabTypes
<1>2. tabs' = [tabs EXCEPT ![w] = tabs[w]] /\ active' = active
  BY <1>1 DEF tabVars
<1> QED
  BY <1>1, <1>2, TabsPut

LEMMA TabAdded ==
    ASSUME Types, NEW w \in Windows, MayAddTab(w), NEW url \in Urls,
           NEW slots \in Seq(Slots), Len(slots) = Len(tabs[w]),
           AddTab(w, slots, url)
    PROVE  TabsEffect(w) /\ active'[w] > Len(tabs[w])
<1> DEFINE new == [page |-> None, pending |-> url]
           longer == Append(slots, new)
<1>1. /\ tabs \in [Windows -> Seq(Slots)] /\ active \in [Windows -> Nat]
      /\ Len(tabs[w]) \in 1..TabLimit
  BY DEF Types, TabTypes
<1>2. new \in Slots
  BY DEF Slots
<1> HIDE DEF new
<1>3. longer \in Seq(Slots) /\ Len(longer) = Len(tabs[w]) + 1
  BY <1>2
<1>4. tabs' = [tabs EXCEPT ![w] = longer]
      /\ active' = [active EXCEPT ![w] = Len(slots) + 1]
  BY DEF AddTab, new
<1> HIDE DEF longer
<1>5. Len(slots) + 1 \in Nat
  BY <1>1
<1>6. Only(tabs, tabs', w, Seq(Slots)) /\ tabs'[w] = longer
  BY <1>1, <1>3, <1>4, OnlyAt
<1>7. Only(active, active', w, Nat) /\ active'[w] = Len(slots) + 1
  BY <1>1, <1>4, <1>5, OnlyAt
<1>8. Len(tabs[w]) < TabLimit
  BY DEF MayAddTab
<1> QED
  BY <1>1, <1>3, <1>6, <1>7, <1>8, WindowsAssumption DEF TabsEffect

\* The focus in a page is nothing the chrome shows.
SameUrls(slot, other) ==
    /\ other.pending = slot.pending
    /\ other.page = None <=> slot.page = None
    /\ slot.page # None => other.page.url = slot.page.url

LEMMA Refocused ==
    ASSUME NEW slot \in Slots, slot.page # None, NEW input \in BOOLEAN
    PROVE  /\ [slot EXCEPT !.page.input = input] \in Slots
           /\ SameUrls(slot, [slot EXCEPT !.page.input = input])
           /\ input = slot.page.input => [slot EXCEPT !.page.input = input] = slot
<1> DEFINE page == [slot.page EXCEPT !.input = input]
           other == [slot EXCEPT !.page = page]
<1>1. slot.page \in Pages /\ slot.pending \in Urls \cup {None}
  BY DEF Slots
<1>2. /\ page \in Pages /\ page.url = slot.page.url
      /\ input = slot.page.input => page = slot.page
  BY <1>1 DEF Pages
<1>3. page # None
  BY <1>2, NoneAssumption
<1> HIDE DEF page
<1>4. /\ other \in Slots /\ other.page = page /\ other.pending = slot.pending
      /\ page = slot.page => other = slot
  BY <1>1, <1>2 DEF Slots
<1>5. other = [slot EXCEPT !.page.input = input]
  BY DEF page
<1> QED
  BY <1>2, <1>3, <1>4, <1>5 DEF SameUrls

LEMMA SameUrlsShow ==
    ASSUME Types, NEW w \in Windows, active'[w] = active[w],
           SameUrls(tabs[w][active[w]], tabs'[w][active[w]])
    PROVE  /\ ViewUrl(w)' = ViewUrl(w) /\ Bookmarkable(w)' = Bookmarkable(w)
           /\ bookmarks' = bookmarks => Star(w)' = Star(w)
           /\ HasDraft(w)' = HasDraft(w) /\ editor'[w].text = editor[w].text
                => Shown(w)' = Shown(w)
           /\ ~ HasDraft(w)' /\ ~ HasDraft(w) => Shown(w)' = Shown(w)
<1>1. /\ ActivePage(w)' = None <=> ActivePage(w) = None
      /\ ActivePage(w) # None => ActivePage(w)'.url = ActivePage(w).url
      /\ tabs'[w][active'[w]].pending = tabs[w][active[w]].pending
  BY DEF ActivePage, SameUrls
<1>2. ViewUrl(w)' = ViewUrl(w)
  BY <1>1 DEF ViewUrl, UrlOf, ActivePage
<1>3. Bookmarkable(w)' = Bookmarkable(w)
  BY <1>1 DEF Bookmarkable
<1>4. Bookmarkable(w) => ActivePage(w) # None
  BY DEF Bookmarkable
<1> QED
  BY <1>1, <1>2, <1>3, <1>4 DEF Star, Shown

\* tai_page_blur_input leaves every slot's URLs alone, and the page if it had no
\* focus.
LEMMA BlurredSlots ==
    ASSUME Types, NEW w \in Windows
    PROVE  /\ Blurred(w) \in Seq(Slots) /\ Len(Blurred(w)) = Len(tabs[w])
           /\ SameUrls(tabs[w][active[w]], Blurred(w)[active[w]])
           /\ WasBlurred(w) \in BOOLEAN
           /\ ~ WasBlurred(w) => Blurred(w) = tabs[w]
<1> DEFINE slot == tabs[w][active[w]]
           off  == [slot EXCEPT !.page.input = FALSE]
           slots == [tabs[w] EXCEPT ![active[w]] = off]
<1>1. /\ tabs[w] \in Seq(Slots) /\ active[w] \in DOMAIN tabs[w]
      /\ slot \in Slots /\ Len(tabs[w]) \in Nat
  BY WindowTypes
<1>2. CASE TakesText(ActivePage(w))
  <2>1. off \in Slots /\ SameUrls(slot, off)
    BY <1>1, <1>2, Refocused DEF TakesText, ActivePage
  <2> HIDE DEF off
  <2>2. slots \in Seq(Slots) /\ Len(slots) = Len(tabs[w]) /\ slots[active[w]] = off
    BY <1>1, <2>1
  <2>3. Blurred(w) = slots
    BY <1>1, <1>2 DEF Blurred, off
  <2> QED
    BY <1>2, <2>1, <2>2, <2>3 DEF WasBlurred
<1>3. CASE ~ TakesText(ActivePage(w))
  <2>1. Blurred(w) = tabs[w]
    BY <1>3 DEF Blurred
  <2>2. WasBlurred(w) \in BOOLEAN
    BY DEF WasBlurred, TakesText
  <2>3. SameUrls(tabs[w][active[w]], Blurred(w)[active[w]])
    BY <2>1 DEF SameUrls
  <2> QED
    BY <1>1, <2>1, <2>2, <2>3
<1> QED
  BY <1>2, <1>3

LEMMA DraftDropped ==
    ASSUME Types, NEW w \in Windows, Discard(w)
    PROVE  DraftEffect(w) /\ ~ HasDraft(w)' /\ ~ editor'[w].focused
<1>1. NoDraft \in Editors
  BY WindowsAssumption DEF NoDraft, Editors, Texts
<1>2. editor \in [Windows -> Editors] /\ editor' = [editor EXCEPT ![w] = NoDraft]
  BY DEF Types, Discard
<1>3. Only(editor, editor', w, Editors) /\ editor'[w] = NoDraft
  BY <1>1, <1>2, OnlyAt
<1>4. ~ HasDraft(w)' /\ ~ editor'[w].focused
  BY <1>3 DEF HasDraft, NoDraft
<1> QED
  BY <1>3, <1>4 DEF DraftEffect

\* The tab in front is the same, or a new one.
SameOrNewTab(w) == active'[w] = active[w] \/ active'[w] > Len(tabs[w])

LEMMA DraftKept ==
    ASSUME Types, NEW w \in Windows, editor' = editor, SameOrNewTab(w)
    PROVE  DraftEffect(w) /\ HasDraft(w)' = HasDraft(w)
<1>1. Only(editor, editor', w, Editors)
  BY OnlySame DEF Types
<1>2. HasDraft(w)' = HasDraft(w)
  BY DEF HasDraft
<1> QED
  BY <1>1, <1>2 DEF DraftEffect, SameOrNewTab

\* An edit of the draft there is.
LEMMA DraftEdited ==
    ASSUME Types, NEW w \in Windows, NEW e \in Editors, HasDraft(w),
           editor' = [editor EXCEPT ![w] = e],
           e.base = editor[w].base, e.tab = editor[w].tab, SameOrNewTab(w)
    PROVE  DraftEffect(w) /\ editor'[w] = e
<1>1. editor \in [Windows -> Editors]
  BY DEF Types
<1>2. Only(editor, editor', w, Editors) /\ editor'[w] = e
  BY <1>1, OnlyAt
<1> QED
  BY <1>2 DEF DraftEffect, SameOrNewTab

LEMMA DraftUnfocused ==
    ASSUME Types, NEW w \in Windows, SameOrNewTab(w),
           IF editor[w].focused THEN Unfocus(w) ELSE UNCHANGED editor
    PROVE  DraftEffect(w) /\ (editor[w].focused \/ editor' = editor)
<1>1. editor \in [Windows -> Editors] /\ editor[w] \in Editors
  BY DEF Types
<1>2. CASE ~ editor[w].focused
  BY <1>2, DraftKept
<1>3. CASE editor[w].focused /\ ~ editor[w].dirty
  <2>1. Discard(w)
    BY <1>1, <1>3 DEF Unfocus, Discard
  <2> QED
    BY <1>3, <2>1, DraftDropped
<1>4. CASE editor[w].focused /\ editor[w].dirty
  <2> DEFINE e == [editor[w] EXCEPT !.focused = FALSE]
  <2>1. editor' = [editor EXCEPT ![w] = e]
    BY <1>1, <1>4 DEF Unfocus
  <2>2. e \in Editors /\ e.base = editor[w].base /\ e.tab = editor[w].tab
    BY <1>1 DEF Editors
  <2>3. HasDraft(w)
    BY <1>4 DEF HasDraft
  <2> HIDE DEF e
  <2> QED
    BY <1>4, <2>1, <2>2, <2>3, DraftEdited
<1> QED
  BY <1>2, <1>3, <1>4

LEMMA SizeKept ==
    ASSUME Types, NEW w \in Windows, WindowOK(w), UNCHANGED sizeVars
    PROVE  SizeEffect(w) /\ size'[w] = size[w] /\ row'[w] = row[w]
<1>1. /\ size \in [Windows -> Sizes] /\ row \in [Windows -> BOOLEAN]
      /\ viewport \in [Windows -> Viewports]
      /\ size' = size /\ row' = row /\ viewport' = viewport
  BY DEF Types, sizeVars
<1>2. /\ Only(size, size', w, Sizes) /\ Only(row, row', w, BOOLEAN)
      /\ Only(viewport, viewport', w, Viewports)
  BY <1>1, OnlySame
<1> QED
  BY <1>1, <1>2 DEF SizeEffect, WindowOK

\* What most handlers leave alone.
LEMMA RestKept ==
    ASSUME Types, NEW w \in Windows
    PROVE  /\ focused' = focused => Only(focused, focused', w, BOOLEAN)
           /\ picture' = picture => Only(picture, picture', w, Pictures)
           /\ flags' = flags => Only(flags, flags', w, Flags)
BY OnlySame DEF Types

\* A handler that has the whole window drawn anew.
LEMMA AllDrawn ==
    ASSUME Types, NEW w \in Windows, WindowOK(w), TabsEffect(w), DraftEffect(w),
           Only(flags, flags', w, Flags), flags'[w].page, flags'[w].chrome,
           UNCHANGED <<focused, sizeVars, picture, chrome, bookmarks>>
    PROVE  Effect(w)
BY SizeKept, RestKept DEF Effect

\* A handler that has the chrome drawn, and the page if that lost its focus.
LEMMA ChromeDrawn ==
    ASSUME Types, NEW w \in Windows, WindowOK(w), TabsEffect(w), DraftEffect(w),
           Only(flags, flags', w, Flags), flags'[w].chrome,
           active'[w] = active[w],
           flags'[w].page \/ ActivePage(w)' = ActivePage(w),
           UNCHANGED <<focused, sizeVars, picture>>,
           UNCHANGED <<bookmarks, chrome>> \/ Starred(w)
    PROVE  Effect(w)
<1>1. SizeEffect(w) /\ size'[w] = size[w] /\ row'[w] = row[w]
  BY SizeKept
<1>2. flags'[w].page \/ SamePicture(w)
  BY <1>1 DEF SamePicture
<1> QED
  BY <1>1, <1>2, RestKept DEF Effect

\* A handler that changes nothing a window shows.
LEMMA NothingShown ==
    ASSUME Types, NEW w \in Windows, WindowOK(w),
           Only(flags, flags', w, Flags), Only(focused, focused', w, BOOLEAN),
           UNCHANGED <<tabVars, editor, sizeVars, drawn, bookmarks>>
    PROVE  Effect(w)
<1>1. SizeEffect(w) /\ size'[w] = size[w] /\ row'[w] = row[w]
  BY SizeKept
<1>2. TabsEffect(w) /\ tabs'[w] = tabs[w] /\ active'[w] = active[w]
  BY TabsKept
<1>3. DraftEffect(w) /\ HasDraft(w)' = HasDraft(w)
  BY <1>2, DraftKept DEF SameOrNewTab
<1>4. picture' = picture /\ chrome' = chrome
  BY DEF drawn
<1>5. SamePicture(w)
  BY <1>1, <1>2, <1>4 DEF SamePicture, ActivePage
<1>6. SameChrome(w)
  BY <1>1, <1>2, <1>3, <1>4
     DEF SameChrome, ViewUrl, Shown, Star, Bookmarkable, ActivePage
<1> QED
  BY <1>1, <1>2, <1>3, <1>4, <1>5, <1>6, RestKept DEF Effect

-----------------------------------------------------------------------------
(* The handlers.                                                           *)

LEMMA ClickNewTabEffect ==
    ASSUME Types, NEW w \in Windows, WindowOK(w), ClickNewTab(w)
    PROVE  Effect(w)
<1>1. /\ MayAddTab(w) /\ AddTab(w, Blurred(w), Home) /\ Discard(w)
      /\ SetFlags(w, TRUE, TRUE)
      /\ UNCHANGED <<focused, sizeVars, picture, chrome, bookmarks>>
  BY DEF ClickNewTab, ChromeClick
<1>2. TabsEffect(w)
  BY <1>1, BlurredSlots, TabAdded, WindowsAssumption
<1> QED
  BY <1>1, <1>2, DraftDropped, FlagsSet, AllDrawn

LEMMA ClickNewTabWhenFullEffect ==
    ASSUME Types, NEW w \in Windows, WindowOK(w), ClickNewTabWhenFull(w)
    PROVE  Effect(w)
<1>1. /\ SetFlags(w, FALSE, FALSE)
      /\ UNCHANGED <<tabVars, editor, focused, sizeVars, drawn, bookmarks>>
  BY DEF ClickNewTabWhenFull, ChromeClick, drawn
<1>2. Only(flags, flags', w, Flags) /\ Only(focused, focused', w, BOOLEAN)
  BY <1>1, FlagsSet, RestKept
<1> QED
  BY <1>1, <1>2, NothingShown

LEMMA ClickTabEffect ==
    ASSUME Types, NEW w \in Windows, WindowOK(w), NEW i \in DOMAIN tabs[w],
           ClickTab(w, i)
    PROVE  Effect(w)
<1>1. /\ tabs' = [tabs EXCEPT ![w] = Blurred(w)]
      /\ active' = [active EXCEPT ![w] = i]
      /\ Discard(w) /\ SetFlags(w, TRUE, TRUE)
      /\ UNCHANGED <<focused, sizeVars, picture, chrome, bookmarks>>
  BY DEF ClickTab, ChromeClick
<1>2. Blurred(w) \in Seq(Slots) /\ Len(Blurred(w)) = Len(tabs[w])
  BY BlurredSlots
<1>3. /\ tabs \in [Windows -> Seq(Slots)] /\ active \in [Windows -> Nat]
      /\ Len(tabs[w]) \in 1..TabLimit /\ i \in 1..Len(tabs[w]) /\ i \in Nat
  BY DEF Types, TabTypes
<1>4. Only(tabs, tabs', w, Seq(Slots)) /\ tabs'[w] = Blurred(w)
  BY <1>1, <1>2, <1>3, OnlyAt
<1>5. Only(active, active', w, Nat) /\ active'[w] = i
  BY <1>1, <1>3, OnlyAt
<1>6. TabsEffect(w)
  BY <1>2, <1>3, <1>4, <1>5, WindowsAssumption DEF TabsEffect
<1> QED
  BY <1>1, <1>6, DraftDropped, FlagsSet, AllDrawn

\* The tabs of a window whose page was blurred.
LEMMA BlurredTabs ==
    ASSUME Types, NEW w \in Windows, active' = active,
           tabs' = [tabs EXCEPT ![w] = Blurred(w)]
    PROVE  /\ TabsEffect(w) /\ active'[w] = active[w]
           /\ WasBlurred(w) \/ ActivePage(w)' = ActivePage(w)
           /\ Len(tabs'[w]) = Len(tabs[w])
           /\ SameUrls(tabs[w][active[w]], tabs'[w][active[w]])
<1>1. TabsEffect(w) /\ tabs'[w] = Blurred(w) /\ active'[w] = active[w]
  BY BlurredSlots, TabsPut
<1>2. WasBlurred(w) \/ ActivePage(w)' = ActivePage(w)
  BY <1>1, BlurredSlots DEF ActivePage
<1> QED
  BY <1>1, <1>2, BlurredSlots

\* A load of a tab leaves its page.
LEMMA LoadedSlots ==
    ASSUME NEW slots \in Seq(Slots), NEW i \in DOMAIN slots, NEW url \in Urls
    PROVE  /\ LoadIn(slots, i, url) \in Seq(Slots)
           /\ Len(LoadIn(slots, i, url)) = Len(slots)
           /\ LoadIn(slots, i, url)[i].page = slots[i].page
<1> DEFINE slot == [slots[i] EXCEPT !.pending = url]
<1>1. slots[i] \in Slots
  OBVIOUS
<1>2. slot \in Slots /\ slot.page = slots[i].page
  BY <1>1 DEF Slots
<1>3. LoadIn(slots, i, url) = [slots EXCEPT ![i] = slot]
  BY DEF LoadIn
<1> HIDE DEF slot
<1> QED
  BY <1>2, <1>3

LEMMA ClickLoadEffect ==
    ASSUME Types, NEW w \in Windows, WindowOK(w), ClickLoad(w)
    PROVE  Effect(w)
<1>1. /\ Discard(w) /\ SetFlags(w, WasBlurred(w), TRUE) /\ active' = active
      /\ UNCHANGED <<focused, sizeVars, picture, chrome, bookmarks>>
  BY DEF ClickLoad, ChromeClick
<1>2. /\ WasBlurred(w) \in BOOLEAN /\ DraftEffect(w)
      /\ Only(flags, flags', w, Flags)
      /\ flags'[w].page = WasBlurred(w) /\ flags'[w].chrome = TRUE
  BY <1>1, BlurredSlots, DraftDropped, FlagsSet
<1>3. ASSUME TabsEffect(w), active'[w] = active[w],
             WasBlurred(w) \/ ActivePage(w)' = ActivePage(w)
      PROVE  Effect(w)
  BY <1>1, <1>2, <1>3, ChromeDrawn
<1>4. CASE tabs' = [tabs EXCEPT ![w] = Blurred(w)]
  BY <1>1, <1>3, <1>4, BlurredTabs
<1>5. ASSUME NEW url \in Urls,
             tabs' = [tabs EXCEPT ![w] = LoadIn(Blurred(w), active[w], url)]
      PROVE  Effect(w)
  <2> DEFINE slots == Blurred(w)
             loaded == LoadIn(slots, active[w], url)
  <2>1. /\ slots \in Seq(Slots) /\ Len(slots) = Len(tabs[w])
        /\ active[w] \in DOMAIN slots
        /\ ~ WasBlurred(w) => slots = tabs[w]
    BY BlurredSlots, WindowTypes
  <2> HIDE DEF slots
  <2>2. /\ loaded \in Seq(Slots) /\ Len(loaded) = Len(slots)
        /\ loaded[active[w]].page = slots[active[w]].page
    BY <1>5, <2>1, LoadedSlots
  <2>3. tabs' = [tabs EXCEPT ![w] = loaded]
    BY <1>5 DEF slots
  <2> HIDE DEF loaded
  <2>4. TabsEffect(w) /\ tabs'[w] = loaded /\ active'[w] = active[w]
    BY <1>1, <2>1, <2>2, <2>3, TabsPut
  <2> QED
    BY <1>3, <2>1, <2>2, <2>4 DEF ActivePage
<1> QED
  BY <1>4, <1>5 DEF ClickLoad

LEMMA ClickStarEffect ==
    ASSUME Types, NEW w \in Windows, WindowOK(w), w \in Open, ClickStar(w)
    PROVE  Effect(w)
<1>1. /\ Discard(w) /\ SetFlags(w, WasBlurred(w), TRUE) /\ active' = active
      /\ tabs' = [tabs EXCEPT ![w] = Blurred(w)] /\ Bookmarkable(w)
      /\ UNCHANGED <<focused, sizeVars, picture>>
  BY DEF ClickStar, ChromeClick
<1>2. /\ WasBlurred(w) \in BOOLEAN /\ DraftEffect(w)
      /\ Only(flags, flags', w, Flags)
      /\ flags'[w].page = WasBlurred(w) /\ flags'[w].chrome = TRUE
  BY <1>1, BlurredSlots, DraftDropped, FlagsSet
<1>3. UNCHANGED <<bookmarks, chrome>> \/ Starred(w)
  BY <1>1, <1>2 DEF ClickStar, Starred
<1>4. /\ TabsEffect(w) /\ active'[w] = active[w]
      /\ WasBlurred(w) \/ ActivePage(w)' = ActivePage(w)
  BY <1>1, BlurredTabs
<1> QED
  BY <1>1, <1>2, <1>3, <1>4, ChromeDrawn

LEMMA ClickAddressEffect ==
    ASSUME Types, NEW w \in Windows, WindowOK(w), ClickAddress(w)
    PROVE  Effect(w)
<1> DEFINE begun == [text |-> ViewUrl(w), focused |-> TRUE, dirty |-> FALSE,
                     base |-> ViewUrl(w), tab |-> active[w]]
           again == [editor[w] EXCEPT !.focused = TRUE]
<1>1. /\ SetFlags(w, WasBlurred(w), TRUE) /\ active' = active
      /\ tabs' = [tabs EXCEPT ![w] = Blurred(w)]
      /\ UNCHANGED <<focused, sizeVars, picture, bookmarks, chrome>>
      /\ editor \in [Windows -> Editors] /\ editor[w] \in Editors
  BY DEF ClickAddress, ChromeClick, Types
<1>2. /\ WasBlurred(w) \in BOOLEAN
      /\ Only(flags, flags', w, Flags)
      /\ flags'[w].page = WasBlurred(w) /\ flags'[w].chrome = TRUE
  BY <1>1, BlurredSlots, FlagsSet
<1>3. /\ TabsEffect(w) /\ active'[w] = active[w]
      /\ WasBlurred(w) \/ ActivePage(w)' = ActivePage(w)
  BY <1>1, BlurredTabs
<1>4. DraftEffect(w)
  <2>1. CASE HasDraft(w)
    <3>1. editor' = [editor EXCEPT ![w] = again]
      BY <1>1, <2>1 DEF ClickAddress
    <3>2. /\ again \in Editors /\ again.base = editor[w].base
          /\ again.tab = editor[w].tab
      BY <1>1 DEF Editors
    <3> HIDE DEF again
    <3> QED
      BY <1>3, <2>1, <3>1, <3>2, DraftEdited DEF SameOrNewTab
  <2>2. CASE ~ HasDraft(w)
    <3>1. editor' = [editor EXCEPT ![w] = begun]
      BY <1>1, <2>2 DEF ClickAddress
    <3>2. active[w] \in 0..TabLimit /\ ViewUrl(w) \in Urls \cup {None}
      BY WindowTypes, WindowsAssumption
    <3>3. /\ begun \in Editors /\ begun.base = ViewUrl(w)
          /\ begun.tab = active[w]
      BY <3>2 DEF Editors, Texts
    <3> HIDE DEF begun
    <3>4. Only(editor, editor', w, Editors) /\ editor'[w] = begun
      BY <1>1, <3>1, <3>3, OnlyAt
    <3> QED
      BY <1>3, <3>3, <3>4 DEF DraftEffect
  <2> QED
    BY <2>1, <2>2
<1> QED
  BY <1>1, <1>2, <1>3, <1>4, ChromeDrawn

LEMMA ClickBlankEffect ==
    ASSUME Types, NEW w \in Windows, WindowOK(w), ClickBlank(w)
    PROVE  Effect(w)
<1>1. /\ SetFlags(w, WasBlurred(w), HasDraft(w)) /\ active' = active
      /\ tabs' = [tabs EXCEPT ![w] = Blurred(w)] /\ Discard(w)
      /\ UNCHANGED <<focused, sizeVars, picture, bookmarks, chrome>>
  BY DEF ClickBlank, ChromeClick
<1>2. /\ WasBlurred(w) \in BOOLEAN /\ HasDraft(w) \in BOOLEAN
      /\ Only(flags, flags', w, Flags)
      /\ flags'[w].page = WasBlurred(w) /\ flags'[w].chrome = HasDraft(w)
  BY <1>1, BlurredSlots, WindowTypes, FlagsSet
<1>3. /\ TabsEffect(w) /\ active'[w] = active[w]
      /\ WasBlurred(w) \/ ActivePage(w)' = ActivePage(w)
      /\ Len(tabs'[w]) = Len(tabs[w])
      /\ SameUrls(tabs[w][active[w]], tabs'[w][active[w]])
  BY <1>1, BlurredTabs
<1>4. DraftEffect(w) /\ ~ HasDraft(w)' /\ ~ editor'[w].focused
  BY <1>1, DraftDropped
<1>5. SizeEffect(w) /\ size'[w] = size[w] /\ row'[w] = row[w]
  BY <1>1, SizeKept
<1>6. flags'[w].page \/ SamePicture(w)
  BY <1>1, <1>2, <1>3, <1>5 DEF SamePicture
<1>7. HasDraft(w) \/ SameChrome(w)
  <2> SUFFICES ASSUME ~ HasDraft(w) PROVE SameChrome(w)
    OBVIOUS
  <2>1. /\ ViewUrl(w)' = ViewUrl(w) /\ Shown(w)' = Shown(w)
        /\ Star(w)' = Star(w)
    BY <1>1, <1>3, <1>4, SameUrlsShow
  <2>2. editor'[w].focused = editor[w].focused
    <3>1. /\ editor[w].focused \in BOOLEAN /\ editor'[w].focused \in BOOLEAN
      BY <1>4 DEF Types, Editors, DraftEffect, Only
    <3> QED
      BY <1>4, <3>1 DEF HasDraft
  <2> QED
    BY <1>1, <1>3, <1>5, <2>1, <2>2 DEF SameChrome
<1> QED
  BY <1>1, <1>2, <1>3, <1>4, <1>5, <1>6, <1>7, RestKept DEF Effect

LEMMA MiddleClickChromeEffect ==
    ASSUME Types, NEW w \in Windows, WindowOK(w), MiddleClickChrome(w)
    PROVE  Effect(w)
<1>1. /\ AddFlags(w, WasBlurred(w), TRUE) /\ active' = active
      /\ tabs' = [tabs EXCEPT ![w] = Blurred(w)] /\ editor' = editor
      /\ UNCHANGED <<focused, sizeVars, picture, bookmarks, chrome>>
  BY DEF MiddleClickChrome, drawn
<1>2. /\ Only(flags, flags', w, Flags)
      /\ WasBlurred(w) => flags'[w].page
      /\ flags'[w].chrome
  BY <1>1, BlurredSlots, FlagsAdded
<1>3. /\ TabsEffect(w) /\ active'[w] = active[w]
      /\ WasBlurred(w) \/ ActivePage(w)' = ActivePage(w)
  BY <1>1, BlurredTabs
<1>4. DraftEffect(w)
  BY <1>1, <1>3, DraftKept DEF SameOrNewTab
<1> QED
  BY <1>1, <1>2, <1>3, <1>4, ChromeDrawn

\* A handler that leaves the document in its tab alone: what it shows has not
\* changed but for the draft, and then the chrome is drawn.
LEMMA OnlyDraftChanges ==
    ASSUME Types, NEW w \in Windows, WindowOK(w), UNCHANGED tabVars,
           DraftEffect(w), Only(flags, flags', w, Flags),
           flags'[w].chrome \/ editor' = editor,
           UNCHANGED <<focused, sizeVars, drawn, bookmarks>>
    PROVE  Effect(w)
<1>1. SizeEffect(w) /\ size'[w] = size[w] /\ row'[w] = row[w]
  BY SizeKept
<1>2. TabsEffect(w) /\ tabs'[w] = tabs[w] /\ active'[w] = active[w]
  BY TabsKept
<1>3. picture' = picture /\ chrome' = chrome
  BY DEF drawn
<1>4. SamePicture(w)
  BY <1>1, <1>2, <1>3 DEF SamePicture, ActivePage
<1>5. editor' = editor => SameChrome(w)
  BY <1>1, <1>2, <1>3
     DEF SameChrome, ViewUrl, Shown, Star, Bookmarkable, ActivePage, HasDraft
<1> QED
  BY <1>1, <1>2, <1>3, <1>4, <1>5, RestKept DEF Effect

LEMMA MiddleClickPageEffect ==
    ASSUME Types, NEW w \in Windows, WindowOK(w), MiddleClickPage(w)
    PROVE  Effect(w)
<1>1. /\ IF editor[w].focused THEN Unfocus(w) ELSE UNCHANGED editor
      /\ UNCHANGED <<focused, sizeVars, drawn, bookmarks>>
      /\ editor[w].focused \in BOOLEAN
  BY DEF MiddleClickPage, Types, Editors
<1>2. CASE AddFlags(w, FALSE, editor[w].focused) /\ UNCHANGED tabVars
  <2>1. active'[w] = active[w]
    BY <1>2, TabsKept
  <2>2. DraftEffect(w) /\ (editor[w].focused \/ editor' = editor)
    BY <1>1, <2>1, DraftUnfocused DEF SameOrNewTab
  <2>3. Only(flags, flags', w, Flags) /\ (editor[w].focused => flags'[w].chrome)
    BY <1>1, <1>2, FlagsAdded
  <2> QED
    BY <1>1, <1>2, <2>2, <2>3, OnlyDraftChanges
<1>3. ASSUME AddFlags(w, TRUE, TRUE), TabsEffect(w), SameOrNewTab(w)
      PROVE  Effect(w)
  <2>1. DraftEffect(w)
    BY <1>1, <1>3, DraftUnfocused
  <2>2. Only(flags, flags', w, Flags) /\ flags'[w].page /\ flags'[w].chrome
    BY <1>3, FlagsAdded
  <2> QED
    BY <1>1, <1>3, <2>1, <2>2, AllDrawn DEF drawn
<1>4. CASE AddFlags(w, TRUE, TRUE) /\ UNCHANGED tabVars
  BY <1>3, <1>4, TabsKept DEF SameOrNewTab
<1>5. ASSUME AddFlags(w, TRUE, TRUE), MayAddTab(w), NEW url \in Urls,
             AddTab(w, tabs[w], url)
      PROVE  Effect(w)
  <2>1. TabsEffect(w) /\ active'[w] > Len(tabs[w])
    BY <1>5, WindowTypes, TabAdded
  <2> QED
    BY <1>3, <1>5, <2>1 DEF SameOrNewTab
<1> QED
  BY <1>2, <1>4, <1>5 DEF MiddleClickPage

LEMMA TypeAddressEffect ==
    ASSUME Types, NEW w \in Windows, WindowOK(w), TypeAddress(w)
    PROVE  Effect(w)
<1> DEFINE e == [editor[w] EXCEPT !.text = "typed"]
           typed == [e EXCEPT !.dirty = TRUE]
<1>1. /\ editor \in [Windows -> Editors] /\ editor[w] \in Editors
      /\ editor[w].focused /\ SetChromeFlag(w)
      /\ UNCHANGED <<tabVars, focused, sizeVars, drawn, bookmarks>>
  BY DEF TypeAddress, Types
<1>2. e \in Editors /\ e.base = editor[w].base /\ e.tab = editor[w].tab
  BY <1>1 DEF Editors, Texts
<1>3. typed \in Editors /\ typed.base = e.base /\ typed.tab = e.tab
  <2> HIDE DEF e
  <2> QED
    BY <1>2 DEF Editors
<1>4. editor' = [editor EXCEPT ![w] = typed]
  BY <1>1 DEF TypeAddress
<1> HIDE DEF typed, e
<1>5. active'[w] = active[w] /\ HasDraft(w)
  BY <1>1, TabsKept DEF HasDraft
<1>6. DraftEffect(w)
  BY <1>2, <1>3, <1>4, <1>5, DraftEdited DEF SameOrNewTab
<1> QED
  BY <1>1, <1>6, ChromeFlagSet, OnlyDraftChanges

\* A load of the active tab, or none.
LEMMA TabsLoaded ==
    ASSUME Types, NEW w \in Windows, active' = active,
           \/ \E url \in Urls :
                  tabs' = [tabs EXCEPT ![w] = LoadIn(@, active[w], url)]
           \/ UNCHANGED tabs
    PROVE  /\ TabsEffect(w) /\ active'[w] = active[w]
           /\ ActivePage(w)' = ActivePage(w)
<1>1. CASE UNCHANGED tabs
  BY <1>1, TabsKept DEF tabVars, ActivePage
<1>2. ASSUME NEW url \in Urls,
             tabs' = [tabs EXCEPT ![w] = LoadIn(@, active[w], url)]
      PROVE  /\ TabsEffect(w) /\ active'[w] = active[w]
             /\ ActivePage(w)' = ActivePage(w)
  <2> DEFINE loaded == LoadIn(tabs[w], active[w], url)
  <2>1. /\ tabs \in [Windows -> Seq(Slots)] /\ tabs[w] \in Seq(Slots)
        /\ active[w] \in DOMAIN tabs[w]
    BY WindowTypes DEF Types, TabTypes
  <2>2. /\ loaded \in Seq(Slots) /\ Len(loaded) = Len(tabs[w])
        /\ loaded[active[w]].page = tabs[w][active[w]].page
    BY <1>2, <2>1, LoadedSlots
  <2>3. tabs' = [tabs EXCEPT ![w] = loaded]
    BY <1>2, <2>1
  <2> HIDE DEF loaded
  <2>4. TabsEffect(w) /\ tabs'[w] = loaded /\ active'[w] = active[w]
    BY <2>2, <2>3, TabsPut
  <2> QED
    BY <2>2, <2>4 DEF ActivePage
<1> QED
  BY <1>1, <1>2

LEMMA SubmitAddressEffect ==
    ASSUME Types, NEW w \in Windows, WindowOK(w), SubmitAddress(w)
    PROVE  Effect(w)
<1>1. /\ Discard(w) /\ SetChromeFlag(w) /\ active' = active
      /\ UNCHANGED <<focused, sizeVars, picture, bookmarks, chrome>>
  BY DEF SubmitAddress, drawn
<1>2. /\ TabsEffect(w) /\ active'[w] = active[w]
      /\ ActivePage(w)' = ActivePage(w)
  BY <1>1, TabsLoaded DEF SubmitAddress
<1> QED
  BY <1>1, <1>2, DraftDropped, ChromeFlagSet, ChromeDrawn

LEMMA HistoryKeyEffect ==
    ASSUME Types, NEW w \in Windows, WindowOK(w), HistoryKey(w)
    PROVE  Effect(w)
<1>1. /\ AddFlags(w, FALSE, TRUE) /\ active' = active /\ editor' = editor
      /\ UNCHANGED <<focused, sizeVars, picture, bookmarks, chrome>>
  BY DEF HistoryKey, drawn
<1>2. /\ TabsEffect(w) /\ active'[w] = active[w]
      /\ ActivePage(w)' = ActivePage(w)
  BY <1>1, TabsLoaded DEF HistoryKey
<1>3. DraftEffect(w)
  BY <1>1, <1>2, DraftKept DEF SameOrNewTab
<1>4. Only(flags, flags', w, Flags) /\ flags'[w].chrome
  BY <1>1, FlagsAdded
<1> QED
  BY <1>1, <1>2, <1>3, <1>4, ChromeDrawn

LEMMA Outdated ==
    ASSUME Types, NEW w \in Windows, NEW changed \in BOOLEAN,
           Outdate(w, changed)
    PROVE  /\ Only(picture, picture', w, Pictures)
           /\ ~ changed => picture'[w] = picture[w]
<1> DEFINE now == picture[w].current /\ ~ changed
           p == [picture[w] EXCEPT !.current = now]
<1>1. picture \in [Windows -> Pictures] /\ picture[w] \in Pictures
  BY DEF Types
<1>2. now \in BOOLEAN /\ (~ changed => now = picture[w].current)
  BY <1>1 DEF Pictures
<1>3. picture' = [picture EXCEPT ![w] = p]
  BY <1>1 DEF Outdate
<1> HIDE DEF now
<1>4. p \in Pictures /\ (~ changed => p = picture[w])
  BY <1>1, <1>2 DEF Pictures
<1> HIDE DEF p
<1>5. Only(picture, picture', w, Pictures) /\ picture'[w] = p
  BY <1>1, <1>3, <1>4, OnlyAt
<1> QED
  BY <1>4, <1>5

\* What becomes of the window of a page that handles an event.
PageEffect(w) ==
    /\ TabsEffect(w) /\ active'[w] = active[w]
    /\ Len(tabs'[w]) = Len(tabs[w])
    /\ Only(picture, picture', w, Pictures)
    /\ Only(flags, flags', w, Flags)
    /\ \/ flags'[w].page
       \/ ActivePage(w)' = ActivePage(w) /\ picture'[w] = picture[w]
    /\ \/ flags'[w].chrome
       \/ SameUrls(tabs[w][active[w]], tabs'[w][active[w]])

\* One slot changes.
LEMMA SlotPut ==
    ASSUME Types, NEW w \in Windows, NEW slot \in Slots, active' = active,
           tabs' = [tabs EXCEPT ![w][active[w]] = slot]
    PROVE  /\ TabsEffect(w) /\ active'[w] = active[w]
           /\ Len(tabs'[w]) = Len(tabs[w])
           /\ tabs'[w][active[w]] = slot /\ ActivePage(w)' = slot.page
<1> DEFINE slots == [tabs[w] EXCEPT ![active[w]] = slot]
<1>1. /\ tabs \in [Windows -> Seq(Slots)] /\ tabs[w] \in Seq(Slots)
      /\ active[w] \in DOMAIN tabs[w] /\ Len(tabs[w]) \in Nat
  BY WindowTypes DEF Types, TabTypes
<1>2. slots \in Seq(Slots) /\ Len(slots) = Len(tabs[w])
      /\ slots[active[w]] = slot
  BY <1>1
<1>3. tabs' = [tabs EXCEPT ![w] = slots]
  BY <1>1
<1> HIDE DEF slots
<1>4. TabsEffect(w) /\ tabs'[w] = slots /\ active'[w] = active[w]
  BY <1>2, <1>3, TabsPut
<1> QED
  BY <1>2, <1>4 DEF ActivePage

LEMMA PageHandlesEffect ==
    ASSUME Types, NEW w \in Windows, active' = active, ActivePage(w) # None,
           NEW input \in BOOLEAN, NEW onChrome \in BOOLEAN,
           PageHandles(w, input, onChrome)
    PROVE  PageEffect(w) /\ (onChrome => flags'[w].chrome)
<1> DEFINE page == ActivePage(w)
           old  == tabs[w][active[w]]
           slot == [old EXCEPT !.page.input = input]
<1>1. /\ old \in Slots /\ old.page = page /\ page # None
  BY WindowTypes DEF ActivePage
<1>2. /\ slot \in Slots /\ SameUrls(old, slot)
      /\ input = page.input => slot = old
  BY <1>1, Refocused
<1>3. slot.page \in Pages
  <2>1. old.page \in Pages
    BY <1>1 DEF Slots
  <2> QED
    BY <1>1, <1>2, <2>1 DEF Slots, SameUrls
<1> HIDE DEF slot
<1>4. \A url \in Urls : /\ [slot EXCEPT !.pending = url] \in Slots
                        /\ [slot EXCEPT !.pending = url].page = slot.page
  BY <1>2 DEF Slots
<1>5. \A url \in Urls : [slot EXCEPT !.page.url = url] \in Slots
  <2> SUFFICES ASSUME NEW url \in Urls
               PROVE  [slot EXCEPT !.page.url = url] \in Slots
    OBVIOUS
  <2>1. [slot.page EXCEPT !.url = url] \in Pages
    BY <1>3 DEF Pages
  <2> QED
    BY <1>2, <2>1 DEF Slots
<1>6. ASSUME NEW changed \in BOOLEAN, NEW asked \in BOOLEAN,
             input # page.input => changed,
             \/ tabs' = [tabs EXCEPT ![w][active[w]] = slot]
             \/ asked /\ \E url \in Urls :
                    tabs' = [tabs EXCEPT ![w][active[w]] =
                                [slot EXCEPT !.pending = url]],
             Outdate(w, changed), AddFlags(w, changed, onChrome \/ asked)
      PROVE  PageEffect(w) /\ (onChrome => flags'[w].chrome)
  <2>1. /\ Only(picture, picture', w, Pictures)
        /\ ~ changed => picture'[w] = picture[w]
    BY <1>6, Outdated
  <2>2. /\ Only(flags, flags', w, Flags) /\ (changed => flags'[w].page)
        /\ onChrome \/ asked => flags'[w].chrome
    <3> DEFINE chr == onChrome \/ asked
    <3>1. chr \in BOOLEAN /\ AddFlags(w, changed, chr)
      BY <1>6
    <3> HIDE DEF chr
    <3>2. /\ Only(flags, flags', w, Flags) /\ (changed => flags'[w].page)
          /\ chr => flags'[w].chrome
      BY <1>6, <3>1, FlagsAdded
    <3> QED
      BY <3>2 DEF chr
  <2>3. ~ changed => slot = old
    BY <1>2, <1>6
  <2>4. CASE tabs' = [tabs EXCEPT ![w][active[w]] = slot]
    <3>1. /\ TabsEffect(w) /\ active'[w] = active[w]
          /\ Len(tabs'[w]) = Len(tabs[w])
          /\ tabs'[w][active[w]] = slot /\ ActivePage(w)' = slot.page
      BY <1>2, <2>4, SlotPut
    <3>2. ~ changed => ActivePage(w)' = ActivePage(w)
      BY <1>1, <2>3, <3>1
    <3> QED
      BY <1>2, <2>1, <2>2, <3>1, <3>2 DEF PageEffect
  <2>5. ASSUME NEW url \in Urls, asked,
               tabs' = [tabs EXCEPT ![w][active[w]] =
                           [slot EXCEPT !.pending = url]]
        PROVE  PageEffect(w) /\ (onChrome => flags'[w].chrome)
    <3> DEFINE new == [slot EXCEPT !.pending = url]
    <3>1. new \in Slots /\ new.page = slot.page
      BY <1>4, <2>5
    <3>2. tabs' = [tabs EXCEPT ![w][active[w]] = new]
      BY <2>5
    <3> HIDE DEF new
    <3>3. /\ TabsEffect(w) /\ active'[w] = active[w]
          /\ Len(tabs'[w]) = Len(tabs[w])
          /\ ActivePage(w)' = slot.page
      BY <3>1, <3>2, SlotPut
    <3>4. ~ changed => ActivePage(w)' = ActivePage(w)
      BY <1>1, <2>3, <3>3
    <3> QED
      BY <2>1, <2>2, <2>5, <3>3, <3>4 DEF PageEffect
  <2> QED
    BY <1>6, <2>4, <2>5
<1>7. ASSUME NEW new \in Slots, tabs' = [tabs EXCEPT ![w][active[w]] = new],
             Outdate(w, TRUE), AddFlags(w, TRUE, TRUE)
      PROVE  PageEffect(w) /\ (onChrome => flags'[w].chrome)
  <2>1. /\ TabsEffect(w) /\ active'[w] = active[w]
        /\ Len(tabs'[w]) = Len(tabs[w])
    BY <1>7, SlotPut
  <2>2. Only(picture, picture', w, Pictures)
    BY <1>7, Outdated
  <2>3. Only(flags, flags', w, Flags) /\ flags'[w].page /\ flags'[w].chrome
    BY <1>7, FlagsAdded
  <2> QED
    BY <2>1, <2>2, <2>3 DEF PageEffect
<1>8. \/ \E changed, asked \in BOOLEAN :
            /\ input # page.input => changed
            /\ \/ tabs' = [tabs EXCEPT ![w][active[w]] = slot]
               \/ asked /\ \E url \in Urls :
                      tabs' = [tabs EXCEPT ![w][active[w]] =
                                  [slot EXCEPT !.pending = url]]
            /\ Outdate(w, changed)
            /\ AddFlags(w, changed, onChrome \/ asked)
      \/ /\ \/ tabs' = [tabs EXCEPT ![w][active[w]] = slot]
            \/ \E url \in Urls :
                  tabs' = [tabs EXCEPT ![w][active[w]] =
                              [slot EXCEPT !.page.url = url]]
         /\ Outdate(w, TRUE)
         /\ AddFlags(w, TRUE, TRUE)
  BY DEF PageHandles, slot
<1> HIDE DEF page, old
<1> QED
  BY <1>2, <1>5, <1>6, <1>7, <1>8

LEMMA PageEventEffect ==
    ASSUME Types, NEW w \in Windows, WindowOK(w), PageEffect(w), DraftEffect(w),
           flags'[w].chrome \/ editor' = editor,
           UNCHANGED <<focused, sizeVars, chrome, bookmarks>>
    PROVE  Effect(w)
<1>1. SizeEffect(w) /\ size'[w] = size[w] /\ row'[w] = row[w]
  BY SizeKept
<1>2. flags'[w].page \/ SamePicture(w)
  BY <1>1 DEF PageEffect, SamePicture
<1>3. flags'[w].chrome \/ SameChrome(w)
  <2> SUFFICES ASSUME ~ flags'[w].chrome PROVE SameChrome(w)
    OBVIOUS
  <2>1. /\ editor' = editor /\ active'[w] = active[w]
        /\ Len(tabs'[w]) = Len(tabs[w])
        /\ SameUrls(tabs[w][active[w]], tabs'[w][active[w]])
    BY DEF PageEffect
  <2>2. HasDraft(w)' = HasDraft(w) /\ editor'[w].text = editor[w].text
    BY <2>1 DEF HasDraft
  <2>3. /\ ViewUrl(w)' = ViewUrl(w) /\ Shown(w)' = Shown(w)
        /\ Star(w)' = Star(w)
    BY <2>1, <2>2, SameUrlsShow
  <2> QED
    BY <1>1, <2>1, <2>3 DEF SameChrome
<1> QED
  BY <1>1, <1>2, <1>3, RestKept DEF Effect, PageEffect

LEMMA ClickPageEffect ==
    ASSUME Types, NEW w \in Windows, WindowOK(w), ClickPage(w)
    PROVE  Effect(w)
<1>1. /\ IF editor[w].focused THEN Unfocus(w) ELSE UNCHANGED editor
      /\ UNCHANGED <<focused, sizeVars, chrome, bookmarks>> /\ active' = active
      /\ editor[w].focused \in BOOLEAN
  BY DEF ClickPage, Types, Editors
<1>2. DraftEffect(w) /\ (editor[w].focused \/ editor' = editor)
  BY <1>1, DraftUnfocused DEF SameOrNewTab
<1>3. CASE ActivePage(w) = None
  <2>1. /\ AddFlags(w, FALSE, editor[w].focused)
        /\ UNCHANGED <<tabVars, focused, sizeVars, drawn, bookmarks>>
    BY <1>1, <1>3 DEF ClickPage, tabVars, drawn
  <2>2. Only(flags, flags', w, Flags) /\ (editor[w].focused => flags'[w].chrome)
    BY <1>1, <2>1, FlagsAdded
  <2> QED
    BY <1>2, <2>1, <2>2, OnlyDraftChanges
<1>4. CASE ActivePage(w) # None
  <2>1. PICK input \in BOOLEAN : PageHandles(w, input, editor[w].focused)
    BY <1>4 DEF ClickPage
  <2>2. PageEffect(w) /\ (editor[w].focused => flags'[w].chrome)
    BY <1>1, <1>4, <2>1, PageHandlesEffect
  <2> QED
    BY <1>1, <1>2, <2>2, PageEventEffect
<1> QED
  BY <1>3, <1>4

LEMMA TypePageEffect ==
    ASSUME Types, NEW w \in Windows, WindowOK(w), TypePage(w)
    PROVE  Effect(w)
<1>1. /\ UNCHANGED <<editor, focused, sizeVars, chrome, bookmarks>>
      /\ active' = active /\ ActivePage(w) # None
  BY DEF TypePage
<1>2. DraftEffect(w)
  BY <1>1, DraftKept DEF SameOrNewTab
<1>3. PICK input \in {FALSE, ActivePage(w).input} : PageHandles(w, input, FALSE)
  BY DEF TypePage
<1>4. input \in BOOLEAN
  <2>1. ActivePage(w) \in Pages
    BY <1>1, WindowTypes
  <2> QED
    BY <1>3, <2>1 DEF Pages
<1>5. PageEffect(w)
  BY <1>1, <1>3, <1>4, PageHandlesEffect
<1> QED
  BY <1>1, <1>2, <1>5, PageEventEffect

LEMMA WheelEffect ==
    ASSUME Types, NEW w \in Windows, WindowOK(w), Wheel(w)
    PROVE  Effect(w)
<1>1. /\ UNCHANGED <<tabVars, editor, focused, sizeVars, chrome, bookmarks>>
      /\ AddFlags(w, TRUE, FALSE) /\ Outdate(w, TRUE)
  BY DEF Wheel
<1>2. Only(flags, flags', w, Flags) /\ flags'[w].page
  BY <1>1, FlagsAdded
<1>3. Only(picture, picture', w, Pictures)
  BY <1>1, Outdated
<1>4. TabsEffect(w) /\ tabs'[w] = tabs[w] /\ active'[w] = active[w]
  BY <1>1, TabsKept
<1>5. PageEffect(w)
  BY <1>2, <1>3, <1>4 DEF PageEffect, SameUrls
<1>6. DraftEffect(w)
  BY <1>1, <1>4, DraftKept DEF SameOrNewTab
<1> QED
  BY <1>1, <1>5, <1>6, PageEventEffect

LEMMA ResizeEffect ==
    ASSUME Types, NEW w \in Windows, WindowOK(w), Resize(w)
    PROVE  Effect(w)
<1>1. PICK s \in Sizes :
        /\ size' = [size EXCEPT ![w] = s]
        /\ row' = [row EXCEPT ![w] = WrapsAt(s, Len(tabs[w]))]
        /\ viewport' = [viewport EXCEPT ![w] =
                          [size |-> s, wraps |-> WrapsAt(s, Len(tabs[w]))]]
  BY DEF Resize
<1> DEFINE wraps == WrapsAt(s, Len(tabs[w]))
<1>2. /\ AddFlags(w, TRUE, TRUE)
      /\ UNCHANGED <<tabVars, editor, focused, drawn, bookmarks>>
  BY DEF Resize
<1>3. Only(flags, flags', w, Flags) /\ flags'[w].page /\ flags'[w].chrome
  BY <1>2, FlagsAdded
<1>4. SizeEffect(w)
  <2>1. /\ size \in [Windows -> Sizes] /\ row \in [Windows -> BOOLEAN]
        /\ viewport \in [Windows -> Viewports]
    BY DEF Types
  <2>2. wraps \in BOOLEAN
    BY DEF WrapsAt
  <2> HIDE DEF wraps
  <2>3. /\ row' = [row EXCEPT ![w] = wraps]
        /\ viewport' = [viewport EXCEPT ![w] = [size |-> s, wraps |-> wraps]]
        /\ [size |-> s, wraps |-> wraps] \in Viewports
    BY <1>1, <2>2 DEF wraps, Viewports
  <2>4. Only(size, size', w, Sizes) /\ size'[w] = s
    BY <1>1, <2>1, OnlyAt
  <2>5. Only(row, row', w, BOOLEAN) /\ row'[w] = wraps
    BY <2>1, <2>2, <2>3, OnlyAt
  <2>6. /\ Only(viewport, viewport', w, Viewports)
        /\ viewport'[w] = [size |-> s, wraps |-> wraps]
    BY <2>1, <2>3, OnlyAt
  <2> QED
    BY <2>4, <2>5, <2>6 DEF SizeEffect
<1>5. TabsEffect(w) /\ active'[w] = active[w]
  BY <1>2, TabsKept
<1>6. DraftEffect(w)
  BY <1>2, <1>5, DraftKept DEF SameOrNewTab
<1> QED
  BY <1>2, <1>3, <1>4, <1>5, <1>6, RestKept DEF Effect, drawn

LEMMA ExposeEffect ==
    ASSUME Types, NEW w \in Windows, WindowOK(w), Expose(w)
    PROVE  Effect(w)
<1>1. /\ flags' = [flags EXCEPT ![w].force = TRUE]
      /\ UNCHANGED <<tabVars, editor, focused, sizeVars, drawn, bookmarks>>
  BY DEF Expose
<1>2. Only(flags, flags', w, Flags)
  <2>1. flags \in [Windows -> Flags] /\ flags[w] \in Flags
    BY DEF Types
  <2>2. [flags[w] EXCEPT !.force = TRUE] \in Flags
    BY <2>1 DEF Flags
  <2>3. flags' = [flags EXCEPT ![w] = [flags[w] EXCEPT !.force = TRUE]]
    BY <1>1, <2>1
  <2> QED
    BY <2>1, <2>2, <2>3, OnlyAt
<1> QED
  BY <1>1, <1>2, RestKept, NothingShown

LEMMA FocusChangeEffect ==
    ASSUME Types, NEW w \in Windows, WindowOK(w), FocusChange(w)
    PROVE  Effect(w)
<1>1. /\ focused' = [focused EXCEPT ![w] = ~ focused[w]]
      /\ UNCHANGED <<tabVars, editor, flags, sizeVars, drawn, bookmarks>>
  BY DEF FocusChange
<1>2. focused \in [Windows -> BOOLEAN]
  BY DEF Types
<1>3. Only(focused, focused', w, BOOLEAN)
  BY <1>1, <1>2, OnlyAt
<1> QED
  BY <1>1, <1>3, RestKept, NothingShown

LEMMA WindowEventHolds ==
    ASSUME IInv, NEW w \in Windows, WindowEvent(w) PROVE IInv'
<1>1. EventFor(w) /\ RefreshTextInput(w)
  BY DEF WindowEvent
<1>2. Types /\ WindowOK(w) /\ w \in Open
  BY <1>1 DEF IInv, EventFor
<1>3. Effect(w)
  BY <1>2, ClickNewTabEffect, ClickNewTabWhenFullEffect, ClickTabEffect,
     ClickLoadEffect, ClickStarEffect, ClickAddressEffect, ClickBlankEffect,
     MiddleClickChromeEffect, MiddleClickPageEffect, TypeAddressEffect,
     SubmitAddressEffect, HistoryKeyEffect, ClickPageEffect, TypePageEffect,
     WheelEffect, ResizeEffect, ExposeEffect, FocusChangeEffect
     DEF WindowEvent
<1> QED
  BY <1>1, <1>3, EffectHolds

-----------------------------------------------------------------------------
(* The list of the windows.                                                *)

LEMMA RemoveAtElements ==
    ASSUME NEW S, NEW s \in Seq(S), NEW n \in 1..Len(s)
    PROVE  /\ RemoveAt(s, n) \in Seq(S)
           /\ Len(RemoveAt(s, n)) = Len(s) - 1
           /\ \A i \in 1..(Len(s) - 1) :
                  RemoveAt(s, n)[i] = IF i < n THEN s[i] ELSE s[i + 1]
<1> DEFINE a == SubSeq(s, 1, n - 1)
           b == SubSeq(s, n + 1, Len(s))
<1>1. /\ a \in Seq(S) /\ Len(a) = n - 1
      /\ \A i \in 1..(n - 1) : a[i] = s[i]
  OBVIOUS
<1>2. b \in Seq(S) /\ Len(b) = Len(s) - n
  OBVIOUS
<1>3. ASSUME NEW i \in 1..(Len(s) - n) PROVE b[i] = s[n + i]
  OBVIOUS
<1>4. RemoveAt(s, n) = a \o b
  BY DEF RemoveAt
<1> HIDE DEF a, b
<1>5. (a \o b) \in Seq(S) /\ Len(a \o b) = Len(s) - 1
  BY <1>1, <1>2
<1>6. ASSUME NEW i \in 1..(Len(s) - 1)
      PROVE  (a \o b)[i] = IF i < n THEN s[i] ELSE s[i + 1]
  <2>1. CASE i < n
    BY <1>1, <1>2, <2>1
  <2>2. CASE ~ (i < n)
    <3>1. /\ i - (n - 1) \in 1..(Len(s) - n)
          /\ n + (i - (n - 1)) = i + 1
      BY <2>2
    <3>2. (a \o b)[i] = b[i - (n - 1)]
      <4>1. i \in 1..(Len(a) + Len(b)) /\ i > Len(a)
        BY <1>1, <1>2, <2>2
      <4>2. (a \o b)[i] = b[i - Len(a)]
        BY <1>1, <1>2, <4>1
      <4> QED
        BY <1>1, <4>2
    <3> QED
      BY <1>3, <2>2, <3>1, <3>2
  <2> QED
    BY <2>1, <2>2
<1> QED
  BY <1>4, <1>5, <1>6

LEMMA RemovedOnce ==
    ASSUME NEW S, NEW s \in Seq(S), IsInjective(s), NEW k \in DOMAIN s
    PROVE  /\ RemoveAt(s, k) \in Seq(S) /\ IsInjective(RemoveAt(s, k))
           /\ ToSet(RemoveAt(s, k)) = ToSet(s) \ {s[k]}
<1> DEFINE rest == RemoveAt(s, k)
           from(i) == IF i < k THEN i ELSE i + 1
<1>1. k \in 1..Len(s) /\ DOMAIN s = 1..Len(s) /\ Len(s) \in Nat
  OBVIOUS
<1>2. /\ rest \in Seq(S) /\ Len(rest) = Len(s) - 1
      /\ \A i \in 1..(Len(s) - 1) : rest[i] = s[from(i)]
  BY <1>1, RemoveAtElements
<1>3. DOMAIN rest = 1..(Len(s) - 1)
  BY <1>2
<1> HIDE DEF rest
<1>4. \A i \in DOMAIN rest : from(i) \in DOMAIN s /\ from(i) # k
  BY <1>1, <1>3
<1>5. \A i, j \in DOMAIN rest : from(i) = from(j) => i = j
  BY <1>1, <1>3
<1>6. ASSUME NEW m \in DOMAIN s, m # k
      PROVE  \E i \in DOMAIN rest : from(i) = m
  <2>1. CASE m < k
    BY <1>1, <1>3, <2>1
  <2>2. CASE ~ (m < k)
    <3>1. m - 1 \in DOMAIN rest /\ from(m - 1) = m
      BY <1>1, <1>3, <1>6, <2>2
    <3> QED
      BY <3>1
  <2> QED
    BY <2>1, <2>2
<1>7. \A i \in DOMAIN rest : rest[i] = s[from(i)]
  BY <1>2, <1>3
<1> HIDE DEF from
<1>8. IsInjective(rest)
  BY <1>4, <1>5, <1>7 DEF IsInjective
<1>9. ToSet(rest) = ToSet(s) \ {s[k]}
  <2>1. ASSUME NEW i \in DOMAIN rest PROVE rest[i] \in ToSet(s) \ {s[k]}
    BY <1>4, <1>7 DEF ToSet, IsInjective
  <2>2. ASSUME NEW e \in ToSet(s) \ {s[k]}
        PROVE  \E i \in DOMAIN rest : rest[i] = e
    <3>1. PICK m \in DOMAIN s : s[m] = e
      BY DEF ToSet
    <3> QED
      BY <1>6, <1>7, <3>1
  <2> QED
    BY <2>1, <2>2 DEF ToSet
<1> QED
  BY <1>2, <1>8, <1>9 DEF rest

LEMMA Heads ==
    ASSUME NEW S, NEW s \in Seq(S), IsInjective(s), s # <<>>
    PROVE  /\ Head(s) \in ToSet(s)
           /\ Tail(s) \in Seq(S) /\ IsInjective(Tail(s))
           /\ ToSet(Tail(s)) = ToSet(s) \ {Head(s)}
<1> DEFINE rest == Tail(s)
<1>1. /\ Len(s) \in Nat \ {0} /\ DOMAIN s = 1..Len(s) /\ Head(s) = s[1]
      /\ rest \in Seq(S) /\ DOMAIN rest = 1..(Len(s) - 1)
      /\ \A i \in 1..(Len(s) - 1) : rest[i] = s[i + 1]
  OBVIOUS
<1> HIDE DEF rest
<1>2. IsInjective(rest)
  <2> SUFFICES ASSUME NEW i \in DOMAIN rest, NEW j \in DOMAIN rest,
                      rest[i] = rest[j]
               PROVE  i = j
    BY DEF IsInjective
  <2>1. i + 1 \in DOMAIN s /\ j + 1 \in DOMAIN s /\ s[i + 1] = s[j + 1]
    BY <1>1
  <2>2. i + 1 = j + 1
    BY <2>1 DEF IsInjective
  <2> QED
    BY <1>1, <2>2
<1>3. ToSet(rest) = ToSet(s) \ {Head(s)}
  <2>1. ASSUME NEW i \in DOMAIN rest PROVE rest[i] \in ToSet(s) \ {Head(s)}
    <3>1. i + 1 \in DOMAIN s /\ 1 \in DOMAIN s /\ i + 1 # 1
      BY <1>1
    <3>2. s[i + 1] # s[1]
      BY <3>1 DEF IsInjective
    <3> QED
      BY <1>1, <3>1, <3>2 DEF ToSet
  <2>2. ASSUME NEW e \in ToSet(s) \ {Head(s)}
        PROVE  \E i \in DOMAIN rest : rest[i] = e
    <3>1. PICK m \in DOMAIN s : s[m] = e
      BY DEF ToSet
    <3>2. m - 1 \in DOMAIN rest /\ rest[m - 1] = e
      BY <1>1, <2>2, <3>1
    <3> QED
      BY <3>2
  <2> QED
    BY <2>1, <2>2 DEF ToSet
<1>4. Head(s) \in ToSet(s)
  BY <1>1 DEF ToSet
<1> QED
  BY <1>1, <1>2, <1>3, <1>4 DEF rest

LEMMA AppendedOnce ==
    ASSUME NEW S, NEW s \in Seq(S), IsInjective(s), NEW e \in S, e \notin ToSet(s)
    PROVE  /\ Append(s, e) \in Seq(S) /\ IsInjective(Append(s, e))
           /\ ToSet(Append(s, e)) = ToSet(s) \cup {e}
<1> DEFINE longer == Append(s, e)
<1>1. /\ Len(s) \in Nat /\ DOMAIN s = 1..Len(s)
      /\ longer \in Seq(S) /\ DOMAIN longer = 1..(Len(s) + 1)
      /\ \A i \in 1..Len(s) : longer[i] = s[i]
      /\ longer[Len(s) + 1] = e
  OBVIOUS
<1> HIDE DEF longer
<1>2. \A i \in DOMAIN s : s[i] # e
  BY DEF ToSet
<1>3. \A i \in DOMAIN longer :
          \/ i \in DOMAIN s /\ longer[i] = s[i]
          \/ i = Len(s) + 1 /\ longer[i] = e
  BY <1>1
<1>4. IsInjective(longer)
  BY <1>2, <1>3 DEF IsInjective
<1>5. ToSet(longer) = ToSet(s) \cup {e}
  <2>1. \A i \in DOMAIN s : i \in DOMAIN longer
    BY <1>1
  <2>2. Len(s) + 1 \in DOMAIN longer
    BY <1>1
  <2> QED
    BY <1>1, <1>3, <2>1, <2>2 DEF ToSet
<1> QED
  BY <1>1, <1>4, <1>5 DEF longer

LEMMA OpenIsSet == Open = ToSet(windows) /\ Framing = ToSet(framing)
BY DEF Open, Framing, ToSet

LEMMA OpenIsSetNext == Open' = ToSet(windows') /\ Framing' = ToSet(framing')
BY DEF Open, Framing, ToSet

-----------------------------------------------------------------------------
(* The other steps of the loop.                                            *)

\* A window that is yet to be opened, or was destroyed.
Fresh(w) ==
    /\ tabs[w] = FirstTabs /\ active[w] = 1 /\ editor[w] = NoDraft
    /\ watch[w] = FirstWatch /\ focused[w] = TRUE /\ started[w] = FALSE
    /\ flags[w] = NoFlags /\ size[w] = FirstSize /\ row[w] = FirstWraps
    /\ viewport[w] = FirstViewport
    /\ chrome[w] = FirstChrome /\ picture[w] = FirstPicture

LEMMA FreshIsOK == \A w : Fresh(w) => WindowOK(w) /\ FramedOK(w)
<1> SUFFICES ASSUME NEW w, Fresh(w) PROVE WindowOK(w) /\ FramedOK(w)
  OBVIOUS
<1>1. /\ Len(tabs[w]) = 1 /\ tabs[w][active[w]].page = None
      /\ tabs[w][active[w]].pending = Home /\ Home # None
  BY WindowsAssumption DEF Fresh, FirstTabs
<1>2. ViewUrl(w) = Home /\ ActivePage(w) = None /\ ~ Bookmarkable(w)
  BY <1>1 DEF ViewUrl, UrlOf, ActivePage, Bookmarkable
<1>3. ~ HasDraft(w) /\ ~ editor[w].focused
  BY DEF Fresh, HasDraft, NoDraft
<1>4. Wraps(w) = FirstWraps
  BY <1>1 DEF Wraps, FirstWraps, Fresh
<1>5. PictureShows(w)
  <2>1. picture[w] = FirstPicture
    BY DEF Fresh
  <2>2. /\ picture[w].tab = 1 /\ picture[w].page = None
        /\ picture[w].size = FirstSize /\ picture[w].wraps = FirstWraps
        /\ picture[w].current
    BY <2>1 DEF FirstPicture
  <2>3. active[w] = 1 /\ size[w] = FirstSize /\ row[w] = FirstWraps
    BY DEF Fresh
  <2> QED
    BY <1>2, <2>2, <2>3, Zenon DEF PictureShows
<1>6. ChromeShows(w)
  <2>1. chrome[w] = FirstChrome
    BY DEF Fresh
  <2>2. /\ chrome[w].count = 1 /\ chrome[w].active = 1
        /\ chrome[w].url = Home /\ chrome[w].text = Home
        /\ chrome[w].caret = FALSE /\ chrome[w].wraps = FirstWraps
        /\ chrome[w].size = FirstSize
        /\ chrome[w].star = FALSE /\ chrome[w].touched = FALSE
    BY <2>1 DEF FirstChrome
  <2>3. active[w] = 1 /\ row[w] = FirstWraps /\ size[w] = FirstSize
    BY DEF Fresh
  <2>4. editor[w].focused = FALSE
    <3>1. editor[w] = NoDraft
      BY DEF Fresh
    <3> QED
      BY <3>1 DEF NoDraft
  <2>5. Shown(w) = Home /\ Star(w) = FALSE
    BY <1>2, <1>3 DEF Shown, Star
  <2> QED
    BY <1>1, <1>2, <2>2, <2>3, <2>4, <2>5, Zenon DEF ChromeShows
<1>7. TypingOK(w) /\ DraftOK(w)
  BY <1>2, <1>3 DEF TypingOK, DraftOK, TakesText
<1>8. viewport[w] = [size |-> size[w], wraps |-> row[w]]
  BY DEF Fresh, FirstViewport
<1>9. /\ row[w] = Wraps(w)
      /\ watch[w] = [tab |-> active[w], url |-> ViewUrl(w)]
  BY <1>2, <1>4 DEF Fresh, FirstWatch
<1> QED
  BY <1>5, <1>6, <1>7, <1>8, <1>9 DEF WindowOK, FramedOK

LEMMA FreshIsOKNext == \A w : Fresh(w)' => WindowOK(w)' /\ FramedOK(w)'
<1>1. (\A w : Fresh(w) => WindowOK(w) /\ FramedOK(w))'
  BY FreshIsOK, PTL
<1> QED
  BY <1>1

LEMMA FirstTypes ==
    /\ FirstTabs \in Seq(Slots) /\ Len(FirstTabs) = 1 /\ 1 \in 1..TabLimit
    /\ NoDraft \in Editors /\ FirstWatch \in Watches
    /\ NoFlags \in Flags /\ FirstSize \in Sizes /\ FirstViewport \in Viewports
    /\ FirstChrome \in Chromes /\ FirstPicture \in Pictures
<1>1. [page |-> None, pending |-> Home] \in Slots
  BY WindowsAssumption DEF Slots
<1>2. FirstTabs \in Seq(Slots) /\ Len(FirstTabs) = 1
  BY <1>1 DEF FirstTabs
<1>3. 1 \in 1..TabLimit /\ 0 \in 0..TabLimit
  BY WindowsAssumption
<1>3a. FirstWraps \in BOOLEAN
  BY DEF FirstWraps, WrapsAt
<1>4. NoDraft \in Editors /\ FirstWatch \in Watches
  BY <1>3, WindowsAssumption DEF NoDraft, Editors, Texts, FirstWatch, Watches
<1>5. NoFlags \in Flags /\ FirstSize \in Sizes /\ FirstViewport \in Viewports
  BY <1>3a, WindowsAssumption DEF NoFlags, Flags, FirstViewport, Viewports
<1>6. FirstChrome \in Chromes
  BY <1>3a, WindowsAssumption DEF FirstChrome, Chromes, Texts
<1>7. FirstPicture \in Pictures
  BY <1>3a, WindowsAssumption DEF FirstPicture, Pictures
<1> QED
  BY <1>2, <1>3, <1>4, <1>5, <1>6, <1>7

\* Of a window that a step does not change.
Same(w) ==
    /\ tabs'[w] = tabs[w] /\ active'[w] = active[w]
    /\ editor'[w] = editor[w] /\ focused'[w] = focused[w]
    /\ started'[w] = started[w] /\ watch'[w] = watch[w]
    /\ size'[w] = size[w] /\ row'[w] = row[w]
    /\ viewport'[w] = viewport[w] /\ flags'[w] = flags[w]
    /\ picture'[w] = picture[w] /\ chrome'[w] = chrome[w]

LEMMA SameHolds ==
    ASSUME NEW w, Same(w), bookmarks' = bookmarks
    PROVE  WindowOK(w)' = WindowOK(w) /\ FramedOK(w)' = FramedOK(w)
<1>1. /\ ViewUrl(w)' = ViewUrl(w) /\ ActivePage(w)' = ActivePage(w)
      /\ HasDraft(w)' = HasDraft(w) /\ Wraps(w)' = Wraps(w)
      /\ Bookmarkable(w)' = Bookmarkable(w)
  BY DEF Same, ViewUrl, ActivePage, HasDraft, Wraps, Bookmarkable
<1>2. /\ PictureShows(w)' = PictureShows(w)
      /\ ChromeShows(w)' = ChromeShows(w)
      /\ DraftOK(w)' = DraftOK(w) /\ TypingOK(w)' = TypingOK(w)
  BY <1>1
     DEF Same, PictureShows, ChromeShows, Star, Shown, DraftOK, TypingOK
<1> QED
  BY <1>1, <1>2 DEF Same, WindowOK, FramedOK

LEMMA DestroyTypes ==
    ASSUME Types, NEW gone, Destroy(gone)
    PROVE  /\ Types'
           /\ \A w \in Windows \cap gone : Fresh(w)'
           /\ \A w \in Windows \ gone :
                  /\ WindowOK(w)' = WindowOK(w) /\ FramedOK(w)' = FramedOK(w)
                  /\ tabs'[w] = tabs[w] /\ active'[w] = active[w]
<1> DEFINE Reset(f, first) == [w \in Windows |-> IF w \in gone THEN first ELSE f[w]]
<1>1. /\ tabs' = Reset(tabs, FirstTabs) /\ active' = Reset(active, 1)
      /\ editor' = Reset(editor, NoDraft) /\ watch' = Reset(watch, FirstWatch)
      /\ focused' = Reset(focused, TRUE) /\ started' = Reset(started, FALSE)
      /\ flags' = Reset(flags, NoFlags) /\ size' = Reset(size, FirstSize)
      /\ row' = Reset(row, FirstWraps) /\ viewport' = Reset(viewport, FirstViewport)
      /\ chrome' = Reset(chrome, FirstChrome)
      /\ picture' = Reset(picture, FirstPicture)
      /\ bookmarks' = bookmarks
  BY DEF Destroy
<1>2. ASSUME NEW S, NEW f \in [Windows -> S], NEW first \in S
      PROVE  Reset(f, first) \in [Windows -> S]
  BY <1>2
<1>3. \A f, first : \A w \in Windows : Reset(f, first)[w] = IF w \in gone THEN first ELSE f[w]
  OBVIOUS
<1> HIDE DEF Reset
<1>4. Types'
  <2>1. /\ tabs' \in [Windows -> Seq(Slots)] /\ active' \in [Windows -> Nat]
    BY <1>1, <1>2, FirstTypes DEF Types, TabTypes
  <2>2. ASSUME NEW w \in Windows
        PROVE  Len(tabs'[w]) \in 1..TabLimit /\ active'[w] \in 1..Len(tabs'[w])
    <3>1. CASE w \in gone
      <4>1. tabs'[w] = FirstTabs /\ active'[w] = 1
        BY <1>1, <1>3, <2>2, <3>1
      <4> QED
        BY <4>1, FirstTypes
    <3>2. CASE w \notin gone
      BY <1>1, <1>3, <2>2, <3>2 DEF Types, TabTypes
    <3> QED
      BY <3>1, <3>2
  <2>3. /\ editor' \in [Windows -> Editors] /\ watch' \in [Windows -> Watches]
        /\ flags' \in [Windows -> Flags] /\ size' \in [Windows -> Sizes]
    BY <1>1, <1>2, FirstTypes DEF Types
  <2>4. /\ viewport' \in [Windows -> Viewports]
        /\ chrome' \in [Windows -> Chromes]
        /\ picture' \in [Windows -> Pictures]
    BY <1>1, <1>2, FirstTypes DEF Types
  <2>5. /\ focused' \in [Windows -> BOOLEAN] /\ started' \in [Windows -> BOOLEAN]
        /\ row' \in [Windows -> BOOLEAN] /\ bookmarks' \subseteq Urls
    <3>1. FirstWraps \in BOOLEAN
      BY DEF FirstWraps, WrapsAt
    <3> QED
      BY <1>1, <1>2, <3>1 DEF Types
  <2> QED
    BY <2>1, <2>2, <2>3, <2>4, <2>5 DEF Types, TabTypes
<1>5. \A w \in Windows \cap gone : Fresh(w)'
  BY <1>1, <1>3 DEF Fresh
<1>6. ASSUME NEW w \in Windows \ gone
      PROVE  /\ WindowOK(w)' = WindowOK(w) /\ FramedOK(w)' = FramedOK(w)
             /\ tabs'[w] = tabs[w] /\ active'[w] = active[w]
  <2>1. Same(w)
    BY <1>1, <1>3 DEF Same
  <2> QED
    BY <1>1, <2>1, SameHolds DEF Same
<1> QED
  BY <1>4, <1>5, <1>6

\* A step that changes no window, but which there are or which have a frame.
LEMMA WindowsSame ==
    ASSUME Types,
           UNCHANGED <<tabVars, editor, watch, focused, started, flags,
                       sizeVars, drawn, bookmarks>>
    PROVE  /\ Types'
           /\ \A w : /\ WindowOK(w)' = WindowOK(w)
                     /\ FramedOK(w)' = FramedOK(w)
                     /\ tabs'[w] = tabs[w] /\ active'[w] = active[w]
<1>1. /\ tabs' = tabs /\ active' = active /\ editor' = editor
      /\ watch' = watch /\ focused' = focused /\ started' = started
      /\ flags' = flags /\ size' = size /\ row' = row
      /\ viewport' = viewport /\ chrome' = chrome /\ picture' = picture
      /\ bookmarks' = bookmarks
  BY DEF tabVars, sizeVars, drawn
<1>2. Types'
  BY <1>1 DEF Types, TabTypes
<1>3. ASSUME NEW w
      PROVE  WindowOK(w)' = WindowOK(w) /\ FramedOK(w)' = FramedOK(w)
  BY <1>1, SameHolds DEF Same
<1> QED
  BY <1>1, <1>2, <1>3

LEMMA NoEventHolds == ASSUME IInv, NoEvent PROVE IInv'
<1>1. framing = <<>> /\ framing' = windows /\ windows' = windows
  BY DEF NoEvent, Waiting
<1>2. Framing = {} /\ Open' = Open /\ Framing' = Open
  BY <1>1 DEF Framing, Open
<1>3. /\ Types'
      /\ \A w : /\ WindowOK(w)' = WindowOK(w) /\ FramedOK(w)' = FramedOK(w)
                /\ tabs'[w] = tabs[w] /\ active'[w] = active[w]
  BY WindowsSame DEF NoEvent, IInv
<1>4. LoopInv'
  BY <1>1, <1>2 DEF IInv, LoopInv
<1> QED
  BY <1>2, <1>3, <1>4 DEF IInv

LEMMA NewWindowHolds == ASSUME IInv, NewWindow PROVE IInv'
<1>1. PICK w \in Windows \ Open :
          Len(windows) < MaxWindows /\ windows' = Append(windows, w)
  BY DEF NewWindow
<1>2. framing = <<>> /\ framing' = windows'
  BY DEF NewWindow, Waiting
<1>3. /\ windows' \in Seq(Windows) /\ IsInjective(windows')
      /\ Open' = Open \cup {w}
  BY <1>1, AppendedOnce, OpenIsSet, OpenIsSetNext DEF IInv, LoopInv
<1>4. Framing = {} /\ Framing' = Open'
  BY <1>2, OpenIsSetNext DEF Framing
<1>5. /\ Types'
      /\ \A x : /\ WindowOK(x)' = WindowOK(x) /\ FramedOK(x)' = FramedOK(x)
                /\ tabs'[x] = tabs[x] /\ active'[x] = active[x]
  BY WindowsSame DEF NewWindow, IInv
<1>6. LoopInv'
  <2>1. Len(windows') = Len(windows) + 1 /\ Len(windows) \in Nat
    BY <1>1 DEF IInv, LoopInv
  <2> QED
    BY <1>1, <1>2, <1>3, <1>4, <2>1, WindowsAssumption DEF LoopInv
<1> QED
  BY <1>3, <1>4, <1>5, <1>6 DEF IInv

LEMMA CloseWindowHolds ==
    ASSUME IInv, NEW w \in Windows, CloseWindow(w) PROVE IInv'
<1>1. PICK i \in DOMAIN windows :
          windows[i] = w /\ windows' = RemoveAt(windows, i)
  BY DEF CloseWindow
<1>2. framing = <<>> /\ framing' = windows' /\ Destroy({w})
  BY DEF CloseWindow, Waiting
<1>3. /\ windows' \in Seq(Windows) /\ IsInjective(windows')
      /\ Open' = Open \ {w}
  BY <1>1, RemovedOnce, OpenIsSet, OpenIsSetNext DEF IInv, LoopInv
<1>4. Framing = {} /\ Framing' = Open'
  BY <1>2, OpenIsSetNext DEF Framing
<1>5. /\ Types' /\ \A x \in Windows \cap {w} : Fresh(x)'
      /\ \A x \in Windows \ {w} :
             /\ WindowOK(x)' = WindowOK(x) /\ FramedOK(x)' = FramedOK(x)
             /\ tabs'[x] = tabs[x] /\ active'[x] = active[x]
  BY <1>2, DestroyTypes DEF IInv
<1>6. /\ WindowOK(w)' /\ FramedOK(w)'
      /\ tabs'[w] = FirstTabs' /\ active'[w] = 1
  BY <1>5, FreshIsOKNext DEF Fresh
<1>7. LoopInv'
  <2>1. Len(windows') = Len(windows) - 1 /\ Len(windows) \in Nat
    <3>1. i \in 1..Len(windows)
      BY DEF IInv, LoopInv
    <3> QED
      BY <1>1, <3>1, RemoveAtElements DEF IInv, LoopInv
  <2> QED
    BY <1>2, <1>3, <1>4, <2>1, WindowsAssumption DEF IInv, LoopInv
<1>8. FirstTabs' = FirstTabs
  BY DEF FirstTabs
<1> QED
  BY <1>3, <1>4, <1>5, <1>6, <1>7, <1>8 DEF IInv

LEMMA QuitHolds == ASSUME IInv, Quit PROVE IInv'
<1>1. windows' = <<>> /\ framing' = <<>> /\ Destroy(Open)
  BY DEF Quit
<1>2. Open' = {} /\ Framing' = {}
  BY <1>1 DEF Open, Framing
<1>3. /\ Types' /\ \A x \in Windows \cap Open : Fresh(x)'
      /\ \A x \in Windows \ Open :
             /\ WindowOK(x)' = WindowOK(x) /\ FramedOK(x)' = FramedOK(x)
             /\ tabs'[x] = tabs[x] /\ active'[x] = active[x]
  BY <1>1, DestroyTypes DEF IInv
<1>4. FirstTabs' = FirstTabs
  BY DEF FirstTabs
<1>5. ASSUME NEW x \in Windows
      PROVE  /\ WindowOK(x)' /\ FramedOK(x)'
             /\ tabs'[x] = FirstTabs /\ active'[x] = 1
  <2>1. CASE x \in Open
    BY <1>3, <1>4, <2>1, FreshIsOKNext DEF Fresh
  <2>2. CASE x \notin Open
    <3>1. /\ WindowOK(x) /\ FramedOK(x) /\ tabs[x] = FirstTabs /\ active[x] = 1
      BY <2>2 DEF IInv, LoopInv
    <3> QED
      BY <1>3, <2>2, <3>1
  <2> QED
    BY <2>1, <2>2
<1>6. LoopInv'
  <2>1. <<>> \in Seq(Windows) /\ Len(<<>>) = 0 /\ DOMAIN <<>> = {}
    OBVIOUS
  <2>2. IsInjective(windows') /\ IsInjective(framing')
    BY <1>1, <2>1 DEF IsInjective
  <2> QED
    BY <1>1, <1>2, <2>1, <2>2, WindowsAssumption DEF LoopInv
<1> QED
  BY <1>2, <1>3, <1>5, <1>6, <1>4 DEF IInv

\* A pump and the scripts of a frame leave the strip of tabs as it is, and no
\* input has the focus afterwards that had not before.
LEMMA SettledSlot ==
    ASSUME NEW slot \in Slots, NEW e \in Settled(slot)
    PROVE  e \in Slots /\ (TakesText(e.page) => TakesText(slot.page))
<1>1. CASE e = slot
  BY <1>1
<1>2. CASE e = [slot EXCEPT !.pending = None]
  <2>1. e \in Slots /\ e.page = slot.page
    BY <1>2 DEF Slots
  <2> QED
    BY <2>1
<1>3. CASE e \in [page : [url : Urls, input : {FALSE}], pending : {None}]
  <2>1. e \in Slots
    BY <1>3 DEF Slots, Pages
  <2>2. e.page.input = FALSE
    BY <1>3
  <2> QED
    BY <2>1, <2>2 DEF TakesText
<1> QED
  BY <1>1, <1>2, <1>3 DEF Settled

LEMMA UnfocusedSlot ==
    ASSUME NEW slot \in Slots, TakesText(slot.page)
    PROVE  LET e == [slot EXCEPT !.page.input = FALSE]
           IN  /\ e \in Slots /\ ~ TakesText(e.page)
               /\ e.pending = slot.pending /\ slot.page # None
               /\ e.page # None /\ e.page.url = slot.page.url
<1>1. slot.page \in Pages /\ slot.page # None
  BY DEF TakesText, Slots
<1> DEFINE page == [slot.page EXCEPT !.input = FALSE]
<1>2. page \in Pages /\ page.input = FALSE /\ page.url = slot.page.url
  BY <1>1 DEF Pages
<1>3. page # None
  BY <1>2, NoneAssumption
<1> HIDE DEF page
<1> DEFINE e == [slot EXCEPT !.page = page]
<1>4. e \in Slots /\ e.page = page /\ e.pending = slot.pending
  BY <1>2 DEF Slots
<1>5. [slot EXCEPT !.page.input = FALSE] = e
  BY DEF page
<1> HIDE DEF e
<1> QED
  BY <1>1, <1>2, <1>3, <1>4, <1>5 DEF TakesText

LEMMA FrameSlots ==
    ASSUME TabTypes, NEW w \in Windows, NEW slots \in Pumped(w),
           NEW lost \in SUBSET {i \in DOMAIN slots : TakesText(slots[i].page)}
    PROVE  LET after == FocusLost(slots, lost)
               a == active[w]
           IN  /\ after \in Seq(Slots) /\ Len(after) = Len(tabs[w])
               /\ slots[a] \in Slots
               /\ after[a] = IF a \in lost
                             THEN [slots[a] EXCEPT !.page.input = FALSE]
                             ELSE slots[a]
               /\ TakesText(after[a].page) => TakesText(ActivePage(w))
               /\ a \in lost => TakesText(slots[a].page)
<1> DEFINE after == FocusLost(slots, lost)
           n == Len(tabs[w])
<1>1. /\ tabs[w] \in Seq(Slots) /\ n \in Nat /\ DOMAIN tabs[w] = 1..n
      /\ active[w] \in 1..n
  BY WindowsAssumption DEF TabTypes
<1>2. DOMAIN slots = 1..n /\ \A i \in 1..n : slots[i] \in Settled(tabs[w][i])
  BY <1>1 DEF Pumped
<1>3. \A i \in 1..n :
          slots[i] \in Slots /\ (TakesText(slots[i].page) => TakesText(tabs[w][i].page))
  BY <1>1, <1>2, SettledSlot
<1>4. /\ after = [i \in 1..n |-> IF i \in lost
                                 THEN [slots[i] EXCEPT !.page.input = FALSE]
                                 ELSE slots[i]]
  BY <1>2 DEF FocusLost
<1> HIDE DEF after
<1>5. ASSUME NEW i \in 1..n
      PROVE  after[i] \in Slots /\ (TakesText(after[i].page) => TakesText(slots[i].page))
  <2>1. CASE i \in lost
    <3>1. after[i] = [slots[i] EXCEPT !.page.input = FALSE]
      BY <1>4, <1>5, <2>1
    <3>2. slots[i] \in Slots /\ TakesText(slots[i].page)
      BY <1>3, <1>5, <2>1
    <3> QED
      BY <3>1, <3>2, UnfocusedSlot
  <2>2. CASE i \notin lost
    BY <1>3, <1>4, <1>5, <2>2
  <2> QED
    BY <2>1, <2>2
<1>6. after \in [1..n -> Slots]
  BY <1>4, <1>5
<1>7. after \in Seq(Slots) /\ Len(after) = n
  BY <1>1, <1>6
<1> QED
  BY <1>1, <1>3, <1>4, <1>5, <1>7 DEF after, ActivePage

\* What the frame of a window does to it, the choices of the pump and of the
\* scripts fixed.
FrameWith(w, slots, lost, changed) ==
    LET url == UrlOf(slots[active[w]])
        committed == slots # tabs[w]
        drop == DropsDraft(w, url)
    IN  /\ active[w] \in lost => changed
        /\ changed => slots[active[w]].page # None
        /\ tabs' = [tabs EXCEPT ![w] = FocusLost(slots, lost)]
        /\ IF drop THEN Discard(w) ELSE UNCHANGED editor
        /\ watch' = [watch EXCEPT ![w] = [tab |-> active[w], url |-> url]]
        /\ IF Rewraps(w)
           THEN /\ row' = [row EXCEPT ![w] = Wraps(w)]
                /\ viewport' = [viewport EXCEPT ![w] =
                                  [size |-> size[w], wraps |-> Wraps(w)]]
           ELSE UNCHANGED <<row, viewport>>
        /\ Repaint(w, flags[w].page \/ committed \/ changed \/ Rewraps(w),
                   flags[w].chrome \/ committed \/ drop \/ Rewraps(w),
                   changed)

LEMMA FrameHolds == ASSUME IInv, NEW w \in Windows, Frame(w) PROVE IInv'
<1>1. PICK slots \in Pumped(w), changed \in BOOLEAN :
        \E lost \in SUBSET {i \in DOMAIN slots : TakesText(slots[i].page)} :
            FrameWith(w, slots, lost, changed)
  BY DEF Frame, FrameWith
<1>2. PICK lost \in SUBSET {i \in DOMAIN slots : TakesText(slots[i].page)} :
            FrameWith(w, slots, lost, changed)
  BY <1>1
<1> DEFINE a == active[w]
           after == FocusLost(slots, lost)
           url == UrlOf(slots[a])
           drop == DropsDraft(w, url)
           onPage == flags[w].page \/ slots # tabs[w] \/ changed \/ Rewraps(w)
           onChrome == flags[w].chrome \/ slots # tabs[w] \/ drop \/ Rewraps(w)
<1>3. /\ Types /\ TabTypes /\ LoopInv /\ WindowOK(w)
  BY DEF IInv, Types
<1>4. /\ framing # <<>> /\ w = Head(framing) /\ framing' = Tail(framing)
      /\ flags' = [flags EXCEPT ![w] = NoFlags]
      /\ windows' = windows /\ active' = active /\ focused' = focused
      /\ started' = started /\ size' = size /\ bookmarks' = bookmarks
  BY DEF Frame
<1>5. /\ after \in Seq(Slots) /\ Len(after) = Len(tabs[w])
      /\ slots[a] \in Slots
      /\ after[a] = IF a \in lost THEN [slots[a] EXCEPT !.page.input = FALSE]
                    ELSE slots[a]
      /\ TakesText(after[a].page) => TakesText(ActivePage(w))
      /\ a \in lost => TakesText(slots[a].page)
  BY <1>3, FrameSlots
<1>6. /\ a \in lost => changed
      /\ tabs' = [tabs EXCEPT ![w] = after]
      /\ IF drop THEN Discard(w) ELSE UNCHANGED editor
      /\ watch' = [watch EXCEPT ![w] = [tab |-> a, url |-> url]]
      /\ IF Rewraps(w)
         THEN /\ row' = [row EXCEPT ![w] = Wraps(w)]
              /\ viewport' = [viewport EXCEPT ![w] =
                                [size |-> size[w], wraps |-> Wraps(w)]]
         ELSE UNCHANGED <<row, viewport>>
      /\ Repaint(w, onPage, onChrome, changed)
  BY <1>2 DEF FrameWith
<1>7. /\ tabs'[w] = after /\ active'[w] = a
      /\ watch'[w] = [tab |-> a, url |-> url]
  BY <1>3, <1>4, <1>6 DEF Types, TabTypes
<1> HIDE DEF after, onPage, onChrome
<1>8. /\ UrlOf(after[a]) = url /\ after[a].pending = slots[a].pending
      /\ (after[a].page = None) = (slots[a].page = None)
      /\ after[a].page # None => after[a].page.url = slots[a].page.url
  <2>1. CASE a \in lost
    BY <1>5, <2>1, UnfocusedSlot DEF UrlOf
  <2>2. CASE a \notin lost
    BY <1>5, <2>2
  <2> QED
    BY <2>1, <2>2
<1>9. /\ ViewUrl(w)' = url /\ ActivePage(w)' = after[a].page
      /\ Wraps(w)' = Wraps(w) /\ size'[w] = size[w]
  BY <1>4, <1>5, <1>7, <1>8 DEF ViewUrl, ActivePage, Wraps, UrlOf
<1>10. row'[w] = Wraps(w)
  BY <1>3, <1>6 DEF Types, Rewraps
<1>11. viewport'[w] = [size |-> size'[w], wraps |-> row'[w]]
  <2>1. CASE Rewraps(w)
    BY <1>3, <1>4, <1>6, <1>10, <2>1 DEF Types
  <2>2. CASE ~ Rewraps(w)
    BY <1>3, <1>4, <1>6, <2>2 DEF WindowOK
  <2> QED
    BY <2>1, <2>2
<1>12. /\ editor' \in [Windows -> Editors]
       /\ \A x \in Windows \ {w} : editor'[x] = editor[x]
       /\ IF drop THEN editor'[w] = NoDraft ELSE editor'[w] = editor[w]
  <2>1. CASE drop
    BY <1>3, <1>6, <2>1, FirstTypes DEF Types, Discard
  <2>2. CASE ~ drop
    BY <1>3, <1>6, <2>2 DEF Types
  <2> QED
    BY <2>1, <2>2
<1>13. TypingOK(w)'
  <2>1. editor'[w].focused => editor[w].focused
    BY <1>12 DEF NoDraft
  <2>2. TakesText(ActivePage(w))' => TakesText(ActivePage(w))
    BY <1>5, <1>9 DEF TakesText
  <2> QED
    BY <1>3, <1>4, <2>1, <2>2 DEF TypingOK, WindowOK
<1>14. DraftOK(w)'
  <2> SUFFICES ASSUME HasDraft(w)'
               PROVE  /\ editor'[w].tab <= Len(tabs'[w])
                      /\ editor'[w].tab = watch'[w].tab => editor'[w].base = watch'[w].url
                      /\ editor'[w].tab = active'[w] => watch'[w].tab = active'[w]
    BY DEF DraftOK
  <2>1. ~ drop /\ editor'[w] = editor[w] /\ HasDraft(w)
    BY <1>12 DEF HasDraft, NoDraft
  <2>2. /\ editor[w].tab <= Len(tabs[w])
        /\ editor[w].tab = watch[w].tab => editor[w].base = watch[w].url
        /\ editor[w].tab = active[w] => watch[w].tab = active[w]
    BY <1>3, <2>1 DEF WindowOK, DraftOK
  <2>3. watch[w].tab = a => watch[w].url = url
    BY <2>1 DEF DropsDraft
  <2>4. watch'[w].tab = a /\ watch'[w].url = url
    BY <1>7
  <2> QED
    BY <1>5, <1>7, <2>1, <2>2, <2>3, <2>4
<1>15. ~ onPage => /\ ~ flags[w].page /\ ~ changed /\ after[a] = tabs[w][a]
                   /\ row'[w] = row[w]
  BY <1>5, <1>6, <1>10 DEF onPage, Rewraps
<1>16. PictureShows(w)' /\ picture' \in [Windows -> Pictures]
       /\ \A x \in Windows \ {w} : picture'[x] = picture[x]
  <2>1. CASE onPage
    <3>1. picture' = [picture EXCEPT ![w] = Picture(w)']
      BY <1>6, <2>1 DEF Repaint
    <3>2. Picture(w)' = [tab |-> a, page |-> after[a].page, size |-> size[w],
                         wraps |-> Wraps(w), current |-> TRUE]
      BY <1>4, <1>9 DEF Picture
    <3>3. Picture(w)' \in Pictures
      <4>1. after[a] \in Slots /\ a \in Nat /\ size[w] \in Sizes
        BY <1>3, <1>5 DEF Types, TabTypes
      <4>2. Wraps(w) \in BOOLEAN
        BY DEF Wraps, WrapsAt
      <4> QED
        BY <3>2, <4>1, <4>2 DEF Pictures, Slots
    <3>4. picture'[w] = Picture(w)'
      BY <1>3, <3>1 DEF Types
    <3>5. PictureShows(w)'
      BY <1>4, <1>9, <1>10, <3>2, <3>4 DEF PictureShows
    <3> QED
      BY <1>3, <3>1, <3>3, <3>5 DEF Types
  <2>2. CASE ~ onPage
    <3>1. picture' = [picture EXCEPT ![w].current = @ /\ ~ changed]
      BY <1>6, <2>2 DEF Repaint, Outdate
    <3>2. ~ changed /\ PictureShows(w)
      BY <1>3, <1>15, <2>2 DEF WindowOK
    <3>3. picture[w] \in Pictures /\ picture[w].current
      BY <1>3, <3>2 DEF Types, PictureShows
    <3>4. picture'[w] = picture[w]
      <4>1. picture'[w] = [picture[w] EXCEPT !.current = TRUE]
        BY <1>3, <3>1, <3>2, <3>3 DEF Types
      <4>2. [picture[w] EXCEPT !.current = TRUE] = picture[w]
        BY <3>3 DEF Pictures
      <4> QED
        BY <4>1, <4>2
    <3>5. PictureShows(w)'
      BY <1>4, <1>7, <1>9, <1>15, <2>2, <3>2, <3>4 DEF PictureShows, ActivePage
    <3>6. \A x \in Windows \ {w} : picture'[x] = picture[x]
      BY <1>3, <3>1 DEF Types
    <3>7. picture' \in [Windows -> Pictures]
      <4>1. \A x \in Windows : picture'[x] \in Pictures
        BY <1>3, <3>3, <3>4, <3>6 DEF Types
      <4> QED
        BY <1>3, <3>1, <4>1 DEF Types
    <3> QED
      BY <3>5, <3>6, <3>7
  <2> QED
    BY <2>1, <2>2

<1>17. /\ Star(w)' = (/\ slots[a].pending = None /\ slots[a].page # None
                      /\ slots[a].page.url \notin Unbookmarkable
                      /\ slots[a].page.url \in bookmarks)
       /\ Bookmarkable(w) = (/\ tabs[w][a].pending = None
                             /\ tabs[w][a].page # None
                             /\ tabs[w][a].page.url \notin Unbookmarkable)
       /\ Bookmarkable(w)' = (/\ slots[a].pending = None
                              /\ slots[a].page # None
                              /\ slots[a].page.url \notin Unbookmarkable)
  BY <1>4, <1>7, <1>8, <1>9 DEF Star, Bookmarkable, ActivePage
<1>18. ChromeShows(w)' /\ chrome' \in [Windows -> Chromes]
       /\ \A x \in Windows \ {w} : chrome'[x] = chrome[x]
  <2>1. CASE onChrome
    <3>1. chrome' = [chrome EXCEPT ![w] = Chrome(w)']
      BY <1>6, <2>1 DEF Repaint
    <3>2. Chrome(w)' =
            [count |-> Len(tabs'[w]), active |-> a, url |-> url,
             text |-> Shown(w)', caret |-> editor'[w].focused,
             wraps |-> Wraps(w), size |-> size[w], star |-> Star(w)',
             touched |-> FALSE]
      BY <1>7, <1>9 DEF Chrome, Shown, Star
    <3>3. Chrome(w)' \in Chromes
      <4>1. editor'[w] \in Editors
        BY <1>12
      <4>2. editor'[w].focused \in BOOLEAN /\ editor'[w].text \in Texts
        BY <4>1 DEF Editors
      <4>3. url \in Urls \cup {None}
        BY <1>5 DEF UrlOf, Slots, Pages
      <4>4. Shown(w)' \in Texts
        BY <1>9, <4>2, <4>3 DEF Shown, Texts
      <4>5. Len(tabs'[w]) \in Nat /\ a \in Nat
        BY <1>3, <1>5, <1>7 DEF TabTypes
      <4>6. Wraps(w) \in BOOLEAN /\ Star(w)' \in BOOLEAN
        BY <1>17 DEF Wraps, WrapsAt
      <4>7. size[w] \in Sizes
        BY <1>3 DEF Types
      <4> HIDE DEF url, a
      <4> QED
        BY <3>2, <4>2, <4>3, <4>4, <4>5, <4>6, <4>7 DEF Chromes
    <3>4. chrome'[w] = Chrome(w)'
      BY <1>3, <3>1 DEF Types
    <3>5. ChromeShows(w)'
      BY <1>7, <1>9, <1>10, <3>2, <3>4 DEF ChromeShows
    <3> QED
      BY <1>3, <3>1, <3>3, <3>5 DEF Types
  <2>2. CASE ~ onChrome
    <3>1. chrome' = chrome
      BY <1>6, <2>2 DEF Repaint
    <3>2. /\ ~ flags[w].chrome /\ slots[a] = tabs[w][a] /\ ~ drop
          /\ row'[w] = row[w]
      BY <1>10, <2>2 DEF onChrome, Rewraps
    <3>3. ChromeShows(w)
      BY <1>3, <3>2 DEF WindowOK
    <3>4. editor'[w] = editor[w] /\ ViewUrl(w) = url
      BY <1>12, <3>2 DEF ViewUrl
    <3>5. Shown(w)' = Shown(w)
      BY <1>9, <3>4 DEF Shown, HasDraft
    <3>6. Star(w)' = Star(w)
      BY <1>17, <3>2 DEF Star, ActivePage
    <3>7. Len(tabs'[w]) = Len(tabs[w]) /\ active'[w] = active[w]
      BY <1>5, <1>7
    <3>8. ChromeShows(w)'
      BY <1>9, <3>1, <3>2, <3>3, <3>4, <3>5, <3>6, <3>7 DEF ChromeShows
    <3> QED
      BY <1>3, <3>1, <3>8 DEF Types
  <2> QED
    BY <2>1, <2>2
<1>19. Types'
  <2>1. TabTypes'
    <3>1. /\ tabs' \in [Windows -> Seq(Slots)] /\ active' \in [Windows -> Nat]
      BY <1>3, <1>4, <1>5, <1>6 DEF TabTypes
    <3>2. \A x \in Windows : Len(tabs'[x]) = Len(tabs[x])
      BY <1>3, <1>5, <1>6 DEF TabTypes
    <3> QED
      BY <1>3, <1>4, <3>1, <3>2 DEF TabTypes
  <2>2. /\ flags' \in [Windows -> Flags] /\ focused' \in [Windows -> BOOLEAN]
        /\ size' \in [Windows -> Sizes] /\ started' \in [Windows -> BOOLEAN]
        /\ bookmarks' \subseteq Urls
    BY <1>3, <1>4, FirstTypes DEF Types
  <2>3. Wraps(w) \in BOOLEAN /\ size[w] \in Sizes
    BY <1>3 DEF Wraps, WrapsAt, Types
  <2>4. row' \in [Windows -> BOOLEAN] /\ viewport' \in [Windows -> Viewports]
    <3>1. [size |-> size[w], wraps |-> Wraps(w)] \in Viewports
      BY <2>3 DEF Viewports
    <3> QED
      BY <1>3, <1>6, <2>3, <3>1 DEF Types
  <2>5. watch' \in [Windows -> Watches]
    <3>1. url \in Urls \cup {None}
      BY <1>5 DEF UrlOf, Slots, Pages
    <3>2. a \in 1..TabLimit
      <4>1. a \in 1..Len(tabs[w]) /\ Len(tabs[w]) \in 1..TabLimit
        BY <1>3 DEF TabTypes
      <4> QED
        BY <4>1, WindowsAssumption
    <3> HIDE DEF url, a
    <3>3. [tab |-> a, url |-> url] \in Watches
      BY <3>1, <3>2 DEF Watches
    <3> QED
      BY <1>3, <1>6, <3>3 DEF Types
  <2> QED
    BY <1>12, <1>16, <1>18, <2>1, <2>2, <2>4, <2>5 DEF Types
<1>20. /\ Open' = Open /\ Framing' = Framing \ {w} /\ w \in Framing
       /\ LoopInv'
  <2>1. /\ framing' \in Seq(Windows) /\ IsInjective(framing')
        /\ ToSet(framing') = ToSet(framing) \ {w} /\ w \in ToSet(framing)
    BY <1>3, <1>4, Heads DEF LoopInv
  <2>2. Open' = Open
    BY <1>4 DEF Open
  <2>3. Framing' = Framing \ {w} /\ w \in Framing
    BY <2>1, OpenIsSet, OpenIsSetNext
  <2> QED
    BY <1>3, <1>4, <2>1, <2>2, <2>3 DEF LoopInv
<1>21. WindowOK(w)' /\ FramedOK(w)'
  BY <1>7, <1>9, <1>10, <1>11, <1>13, <1>14, <1>16, <1>18 DEF WindowOK, FramedOK
<1>22. ASSUME NEW x \in Windows \ {w}
       PROVE  /\ WindowOK(x)' = WindowOK(x) /\ FramedOK(x)' = FramedOK(x)
              /\ tabs'[x] = tabs[x] /\ active'[x] = active[x]
  <2>1. row'[x] = row[x] /\ viewport'[x] = viewport[x]
    BY <1>3, <1>6 DEF Types
  <2>2. /\ tabs'[x] = tabs[x] /\ watch'[x] = watch[x] /\ flags'[x] = flags[x]
    BY <1>3, <1>4, <1>6 DEF Types, TabTypes
  <2>3. Same(x)
    BY <1>4, <1>12, <1>16, <1>18, <2>1, <2>2 DEF Same
  <2> QED
    BY <1>4, <2>3, SameHolds DEF Same
<1>23. \A x \in Windows : WindowOK(x)'
  BY <1>21, <1>22 DEF IInv
<1>24. \A x \in Windows \ Framing' : FramedOK(x)'
  BY <1>20, <1>21, <1>22 DEF IInv
<1>25. \A x \in Windows \ Open' : tabs'[x] = FirstTabs' /\ active'[x] = 1
  <2>1. FirstTabs' = FirstTabs /\ w \in Open
    BY <1>3, <1>20 DEF FirstTabs, LoopInv
  <2> QED
    BY <1>20, <1>22, <2>1 DEF IInv
<1> QED
  BY <1>19, <1>20, <1>23, <1>24, <1>25 DEF IInv

-----------------------------------------------------------------------------
(* The theorems.                                                           *)

LEMMA InitInv == Init => IInv
<1> SUFFICES ASSUME Init PROVE IInv
  OBVIOUS
<1>1. \A w \in Windows : Fresh(w)
  BY DEF Init, Fresh
<1>2. Types
  <2>1. /\ tabs \in [Windows -> Seq(Slots)] /\ active \in [Windows -> Nat]
        /\ editor \in [Windows -> Editors] /\ watch \in [Windows -> Watches]
    BY FirstTypes DEF Init
  <2>2. /\ flags \in [Windows -> Flags] /\ size \in [Windows -> Sizes]
        /\ viewport \in [Windows -> Viewports]
    BY FirstTypes DEF Init
  <2>3. chrome \in [Windows -> Chromes] /\ picture \in [Windows -> Pictures]
    BY FirstTypes DEF Init
  <2>4. /\ focused \in [Windows -> BOOLEAN] /\ started \in [Windows -> BOOLEAN]
        /\ row \in [Windows -> BOOLEAN] /\ bookmarks \subseteq Urls
    <3>1. FirstWraps \in BOOLEAN
      BY DEF FirstWraps, WrapsAt
    <3> QED
      BY <3>1 DEF Init
  <2>5. ASSUME NEW w \in Windows
        PROVE  Len(tabs[w]) \in 1..TabLimit /\ active[w] \in 1..Len(tabs[w])
    <3>1. tabs[w] = FirstTabs /\ active[w] = 1
      BY <1>1, <2>5 DEF Fresh
    <3> QED
      BY <3>1, FirstTypes
  <2> QED
    BY <2>1, <2>2, <2>3, <2>4, <2>5 DEF Types, TabTypes
<1>3. LoopInv
  <2>1. PICK w \in Windows : windows = <<w>>
    BY DEF Init
  <2>2. /\ windows \in Seq(Windows) /\ Len(windows) = 1 /\ DOMAIN windows = {1}
        /\ framing \in Seq(Windows) /\ DOMAIN framing = {}
    BY <2>1 DEF Init
  <2>3. IsInjective(windows) /\ IsInjective(framing)
    BY <2>2 DEF IsInjective
  <2>4. Framing = {}
    BY <2>2 DEF Framing
  <2> QED
    BY <2>2, <2>3, <2>4, WindowsAssumption DEF LoopInv
<1> QED
  BY <1>1, <1>2, <1>3, FreshIsOK DEF IInv, Fresh

LEMMA EndedHolds == ASSUME IInv, UNCHANGED vars PROVE IInv'
<1>1. /\ windows' = windows /\ framing' = framing
      /\ UNCHANGED <<tabVars, editor, watch, focused, started, flags,
                     sizeVars, drawn, bookmarks>>
  BY DEF vars, loopVars
<1>2. /\ Types'
      /\ \A w : /\ WindowOK(w)' = WindowOK(w) /\ FramedOK(w)' = FramedOK(w)
                /\ tabs'[w] = tabs[w] /\ active'[w] = active[w]
  BY <1>1, WindowsSame DEF IInv
<1>3. Open' = Open /\ Framing' = Framing
  BY <1>1 DEF Open, Framing
<1>4. LoopInv'
  BY <1>1, <1>3 DEF IInv, LoopInv
<1> QED
  BY <1>2, <1>3, <1>4 DEF IInv

LEMMA NextInv == IInv /\ [Next]_vars => IInv'
<1> SUFFICES ASSUME IInv, [Next]_vars PROVE IInv'
  OBVIOUS
<1>1. ASSUME NEW w \in Windows, WindowEvent(w) PROVE IInv'
  BY <1>1, WindowEventHolds
<1>2. ASSUME NEW w \in Windows, CloseWindow(w) PROVE IInv'
  BY <1>2, CloseWindowHolds
<1>3. ASSUME NEW w \in Windows, Frame(w) PROVE IInv'
  BY <1>3, FrameHolds
<1>4. CASE NoEvent
  BY <1>4, NoEventHolds
<1>5. CASE NewWindow
  BY <1>5, NewWindowHolds
<1>6. CASE Quit
  BY <1>6, QuitHolds
<1>7. CASE Ended
  BY <1>7, EndedHolds DEF Ended
<1>8. CASE UNCHANGED vars
  BY <1>8, EndedHolds
<1> QED
  BY <1>1, <1>2, <1>3, <1>4, <1>5, <1>6, <1>7, <1>8 DEF Next

\* Whatever event a turn brings to whichever window, the flags of every window
\* name what of it is yet to be drawn, a draft stands over the URL its tab was
\* last seen to show, and a window that has had its frame is as it should be
\* (window_event and window_frame).
THEOREM Inductive == Spec => []IInv
BY InitInv, NextInv, PTL DEF Spec

\* The loop keeps at most MaxWindows windows with at most TabLimit tabs each,
\* and shows a tab there is, whatever is opened and closed (run_windows).
THEOREM TypeCorrect == Spec => []TypeOK
<1>1. IInv => TypeOK
  <2> SUFFICES ASSUME IInv PROVE TypeOK
    OBVIOUS
  <2>1. Types /\ TabTypes /\ LoopInv
    BY DEF IInv, Types
  <2>2. framing \in Seq(Open)
    <3>1. /\ framing \in [1..Len(framing) -> Windows] /\ Len(framing) \in Nat
          /\ DOMAIN framing = 1..Len(framing)
      BY <2>1 DEF LoopInv
    <3>2. \A i \in 1..Len(framing) : framing[i] \in Open
      BY <2>1, <3>1 DEF LoopInv, Framing
    <3>3. framing \in [1..Len(framing) -> Open]
      BY <3>1, <3>2
    <3> QED
      BY <3>1, <3>3
  <2>3. Open \subseteq Windows
    BY <2>1 DEF Open, LoopInv
  <2>4. ASSUME NEW w \in Open
        PROVE  /\ tabs[w] \in Seq(Slots) /\ Len(tabs[w]) \in 1..TabLimit
               /\ active[w] \in 1..Len(tabs[w])
    BY <2>1, <2>3, <2>4 DEF TabTypes
  <2>5. ASSUME NEW w \in Open
        PROVE  editor[w] \in Editors /\ watch[w] \in Watches
    BY <2>1, <2>3, <2>5 DEF Types
  <2>6. ASSUME NEW w \in Open
        PROVE  /\ flags[w] \in Flags /\ size[w] \in Sizes
               /\ viewport[w] \in Viewports
    BY <2>1, <2>3, <2>6 DEF Types
  <2>7. /\ windows \in Seq(Windows) /\ Len(windows) <= MaxWindows
        /\ focused \in [Windows -> BOOLEAN] /\ started \in [Windows -> BOOLEAN]
        /\ row \in [Windows -> BOOLEAN] /\ bookmarks \subseteq Urls
    BY <2>1 DEF LoopInv, Types
  <2> QED
    BY <2>2, <2>4, <2>5, <2>6, <2>7 DEF TypeOK, Editors, Watches, Viewports
<1> QED
  BY <1>1, Inductive, PTL

\* When the loop waits every window has had its frame.
LEMMA WaitingIsFramed ==
    ASSUME IInv, Waiting, NEW w \in Open
    PROVE  w \in Windows /\ Types /\ WindowOK(w) /\ FramedOK(w)
BY DEF IInv, LoopInv, Waiting, Framing, Open

\* However tabs are opened and the window resized, its pages are sized for the
\* area that its chrome leaves (window_frame, row_wraps).
THEOREM ViewportStaysFit == Spec => []ViewportFitsChrome
<1>1. IInv => ViewportFitsChrome
  <2> SUFFICES ASSUME IInv, Waiting, NEW w \in Open
               PROVE  /\ row[w] = Wraps(w)
                      /\ viewport[w] = [size |-> size[w], wraps |-> Wraps(w)]
    BY DEF ViewportFitsChrome
  <2> QED
    BY WaitingIsFramed DEF WindowOK, FramedOK
<1> QED
  BY <1>1, Inductive, PTL

\* Whatever gives an input the focus or brings its tab to the front, the window
\* that has the keyboard takes text for it (refresh_text_input).
THEOREM TypingStays == Spec => []TypingIsNeverLost
<1>1. IInv => TypingIsNeverLost
  <2> SUFFICES ASSUME IInv, Waiting, NEW w \in Open PROVE TypingOK(w)
    BY DEF TypingIsNeverLost, TypingOK
  <2> QED
    BY WaitingIsFramed DEF WindowOK
<1> QED
  BY <1>1, Inductive, PTL

\* No draft stands over another URL than the one its tab shows, whichever load,
\* fragment or traversal changes it (tai_pres_address_follow_view).
THEOREM DraftStaysWithUrl == Spec => []DraftFollowsUrl
<1>1. IInv => DraftFollowsUrl
  <2> SUFFICES ASSUME IInv, Waiting, NEW w \in Open, HasDraft(w),
                      editor[w].tab = active[w]
               PROVE  editor[w].base = ViewUrl(w)
    BY DEF DraftFollowsUrl
  <2>1. DraftOK(w) /\ watch[w] = [tab |-> active[w], url |-> ViewUrl(w)]
    BY WaitingIsFramed DEF WindowOK, FramedOK
  <2> QED
    BY <2>1 DEF DraftOK
<1> QED
  BY <1>1, Inductive, PTL

LEMMA Touched ==
    ASSUME NEW c \in Chromes, NEW star, NEW touched
    PROVE  [c EXCEPT !.star = star, !.touched = touched] =
             [count |-> c.count, active |-> c.active, url |-> c.url,
              text |-> c.text, caret |-> c.caret, wraps |-> c.wraps, size |-> c.size,
              star |-> star, touched |-> touched]
<1>1. c = [count |-> c.count, active |-> c.active, url |-> c.url,
           text |-> c.text, caret |-> c.caret, wraps |-> c.wraps, size |-> c.size,
           star |-> c.star, touched |-> c.touched]
  BY DEF Chromes
<1> DEFINE d == [c EXCEPT !.star = star]
<1>2. d = [count |-> c.count, active |-> c.active, url |-> c.url,
           text |-> c.text, caret |-> c.caret, wraps |-> c.wraps, size |-> c.size,
           star |-> star, touched |-> c.touched]
  BY <1>1
<1>3. [d EXCEPT !.touched = touched] =
        [count |-> c.count, active |-> c.active, url |-> c.url,
         text |-> c.text, caret |-> c.caret, wraps |-> c.wraps, size |-> c.size,
         star |-> star, touched |-> touched]
  <2> HIDE DEF d
  <2> QED
    BY <1>2
<1>4. [c EXCEPT !.star = star, !.touched = touched] = [d EXCEPT !.touched = touched]
  BY <1>1
<1> QED
  BY <1>3, <1>4

\* What every window shows is what it should show, but for the star of another
\* window that shows the URL whose bookmark was toggled: no handler changes what
\* is drawn without the frame of the same turn drawing it (window_event,
\* window_frame).
THEOREM PresentedStaysCurrent == Spec => []PresentedIsCurrent
<1>1. IInv => PresentedIsCurrent
  <2> SUFFICES ASSUME IInv, Waiting, NEW w \in Open
               PROVE  /\ picture[w] = Picture(w)
                      /\ \/ chrome[w] = Chrome(w)
                         \/ /\ chrome[w].touched
                            /\ [chrome[w] EXCEPT !.star = Chrome(w).star,
                                                 !.touched = FALSE] = Chrome(w)
    BY DEF PresentedIsCurrent
  <2>1. w \in Windows /\ Types /\ FramedOK(w)
    BY WaitingIsFramed
  <2>2. picture[w] \in Pictures /\ chrome[w] \in Chromes
    BY <2>1 DEF Types
  <2>3. PictureShows(w) /\ ChromeShows(w) /\ row[w] = Wraps(w)
    BY <2>1 DEF FramedOK
  <2>4. picture[w] = Picture(w)
    <3>1. picture[w] = [tab |-> picture[w].tab, page |-> picture[w].page,
                        size |-> picture[w].size, wraps |-> picture[w].wraps,
                        current |-> picture[w].current]
      BY <2>2 DEF Pictures
    <3>2. /\ picture[w].tab = active[w] /\ picture[w].page = ActivePage(w)
          /\ picture[w].size = size[w] /\ picture[w].wraps = Wraps(w)
          /\ picture[w].current = TRUE
      BY <2>2, <2>3 DEF PictureShows, Pictures
    <3> QED
      BY <3>1, <3>2, Zenon DEF Picture
  <2>5. /\ chrome[w].count = Len(tabs[w]) /\ chrome[w].active = active[w]
        /\ chrome[w].url = ViewUrl(w) /\ chrome[w].text = Shown(w)
        /\ chrome[w].caret = editor[w].focused /\ chrome[w].wraps = Wraps(w)
        /\ chrome[w].size = size[w]
        /\ chrome[w].touched \/ chrome[w].star = Star(w)
    BY <2>3 DEF ChromeShows
  <2>6. Chrome(w) =
          [count |-> Len(tabs[w]), active |-> active[w], url |-> ViewUrl(w),
           text |-> Shown(w), caret |-> editor[w].focused, wraps |-> Wraps(w),
           size |-> size[w], star |-> Star(w), touched |-> FALSE]
    BY DEF Chrome, Shown, Star
  <2>7. CASE chrome[w].touched
    <3>1. [chrome[w] EXCEPT !.star = Chrome(w).star, !.touched = FALSE] =
            [count |-> chrome[w].count, active |-> chrome[w].active,
             url |-> chrome[w].url, text |-> chrome[w].text,
             caret |-> chrome[w].caret, wraps |-> chrome[w].wraps,
             size |-> chrome[w].size,
             star |-> Chrome(w).star, touched |-> FALSE]
      BY <2>2, Touched DEF Chromes
    <3>2. Chrome(w).star = Star(w)
      BY <2>6
    <3>3. [chrome[w] EXCEPT !.star = Chrome(w).star, !.touched = FALSE]
            = Chrome(w)
      BY <2>5, <2>6, <3>1, <3>2, Zenon
    <3> QED
      BY <2>4, <2>7, <3>3
  <2>8. CASE ~ chrome[w].touched
    <3>1. chrome[w] =
            [count |-> chrome[w].count, active |-> chrome[w].active,
             url |-> chrome[w].url, text |-> chrome[w].text,
             caret |-> chrome[w].caret, wraps |-> chrome[w].wraps,
             size |-> chrome[w].size,
             star |-> chrome[w].star, touched |-> chrome[w].touched]
      BY <2>2 DEF Chromes
    <3>2. chrome[w].touched = FALSE
      BY <2>2, <2>8 DEF Chromes
    <3>3. chrome[w].star = Star(w)
      BY <2>5, <2>8
    <3>4. chrome[w] = Chrome(w)
      BY <2>5, <2>6, <3>1, <3>2, <3>3, Zenon
    <3> QED
      BY <2>4, <3>4
  <2> QED
    BY <2>7, <2>8
<1> QED
  BY <1>1, Inductive, PTL

=============================================================================
