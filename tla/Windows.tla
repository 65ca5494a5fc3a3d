------------------------------ MODULE Windows ------------------------------
(***************************************************************************)
(* The presentation loop (src/presentation_tabs.c): the browser's windows, *)
(* the chrome and page each shows, and the editor of its address bar.      *)
(*                                                                         *)
(* One thread runs the loop.  Each turn waits for at most one event,       *)
(* applies it to the window it is for, closes or opens a window, and then  *)
(* gives every window a frame: it commits the loads that are done, drops   *)
(* an outdated draft, runs page tasks, and repaints what was flagged.      *)
(* What the window shows is what was drawn when the flags last said so;    *)
(* the properties compare it with what it should show.                     *)
(*                                                                         *)
(* Abstracted: pixels, text and cursor; which page content a script or a   *)
(* key changes (a choice); the history behind Back and Forward (TabHistory *)
(* has it) and how loads end (TabLoads has it).                            *)
(***************************************************************************)
EXTENDS Naturals, Sequences, FiniteSets, SequencesExt

CONSTANTS
    Windows,        \* identities for windows
    MaxWindows,     \* TAI_PRES_MAX_WINDOWS
    TabLimit,       \* TAI_MAX_TABS: 25
    MaxTabs,        \* bound: tabs of all windows together
    Urls,
    Unbookmarkable, \* about:blank and about:bookmarks
    Home,           \* the URL of a new tab
    Sizes,          \* sizes of a window in pixels
    FirstSize,      \* the size of a new one
    Fits,           \* how many tabs fit in one row at a size
    Roomy,          \* sizes with any room beside the New Tab button
    None

ASSUME WindowsAssumption ==
    /\ MaxWindows \in Nat \ {0} /\ TabLimit \in Nat \ {0} /\ MaxTabs \in Nat
    /\ IsFiniteSet(Windows) /\ Cardinality(Windows) >= MaxWindows
    /\ Home \in Urls /\ Unbookmarkable \subseteq Urls
    /\ FirstSize \in Sizes /\ Fits \in [Sizes -> Nat] /\ Roomy \subseteq Sizes
    /\ None \notin Urls

VARIABLES
    windows,        \* the windows, oldest first
    framing,        \* those that have no frame yet in this turn
    tabs,           \* their tab sets: each tab's page and pending load
    active,         \* the tab each window shows
    editor,         \* AddressEditor
    watch,          \* AddressWatch: the tab and URL last followed
    focused,        \* whether the window has the keyboard
    started,        \* text_input_started
    flags,          \* page_changed, chrome_changed, force_present
    size,           \* pixel_width and pixel_height
    row,            \* row_wraps
    viewport,       \* what the pages of the tab set were last resized for
    chrome,         \* what the chrome texture shows
    picture,        \* what the page texture shows
    bookmarks       \* the store, shared by all windows

loopVars == <<windows, framing>>
tabVars  == <<tabs, active>>
sizeVars == <<size, row, viewport>>
drawn    == <<chrome, picture>>
vars == <<loopVars, tabVars, editor, watch, focused, started, flags, sizeVars,
          drawn, bookmarks>>

Pages == [url : Urls, input : BOOLEAN]
Slots == [page : Pages \cup {None}, pending : Urls \cup {None}]
Texts == Urls \cup {None, "typed"}
Flags == [page : BOOLEAN, chrome : BOOLEAN, force : BOOLEAN]
NoFlags == [page |-> FALSE, chrome |-> FALSE, force |-> FALSE]

ASSUME NoneAssumption == None \notin Pages

-----------------------------------------------------------------------------
(* The windows, TaiTabSetView and what is drawn of it.                     *)

Open == {windows[i] : i \in DOMAIN windows}

\* The loop waits for an event: every window has had its frame.
Waiting == framing = <<>> /\ windows # <<>>

ActivePage(w) == tabs[w][active[w]].page

UrlOf(slot) ==
    IF slot.pending # None THEN slot.pending
    ELSE IF slot.page # None THEN slot.page.url ELSE None
ViewUrl(w) == UrlOf(tabs[w][active[w]])

Bookmarkable(w) ==
    /\ tabs[w][active[w]].pending = None /\ ActivePage(w) # None
    /\ ActivePage(w).url \notin Unbookmarkable

TakesText(page) == page # None /\ page.input

\* compact_tab_slot: from the third tab on a strip that does not fit is drawn
\* in slots of equal width instead.
Compacts(s, count) == count >= 3 /\ count > Fits[s] /\ s \in Roomy

\* tai_pres_tab_row_wraps: the strip takes a second row.
WrapsAt(s, count) == count > Fits[s] /\ ~ Compacts(s, count)
Wraps(w) == WrapsAt(size[w], Len(tabs[w]))

HasDraft(w) == editor[w].focused \/ editor[w].dirty

\* tai_pres_render_tabs_chrome_texture.  Whether the strip is compact follows
\* from the size and the tabs.  touched: another window toggled the bookmark
\* the star is about after it was drawn.
Chrome(w) ==
    [count |-> Len(tabs[w]), active |-> active[w], url |-> ViewUrl(w),
     text |-> IF HasDraft(w) THEN editor[w].text ELSE ViewUrl(w),
     caret |-> editor[w].focused, wraps |-> Wraps(w),
     size |-> size[w],
     star |-> Bookmarkable(w) /\ ActivePage(w).url \in bookmarks,
     touched |-> FALSE]

\* update_tabs_page_texture.  current: until the content changes again.
Picture(w) ==
    [tab |-> active[w], page |-> ActivePage(w), size |-> size[w],
     wraps |-> Wraps(w), current |-> TRUE]

-----------------------------------------------------------------------------
(* What the handlers are made of.                                          *)

\* base and tab, for the properties: over which URL of which tab a draft began.
NoDraft == [text |-> None, focused |-> FALSE, dirty |-> FALSE,
            base |-> None, tab |-> 0]

Discard(w) == editor' = [editor EXCEPT ![w] = NoDraft]

\* A text that is not dirty is not looked at again once it has no focus.
Unfocus(w) ==
    editor' = [editor EXCEPT ![w] =
                  IF @.dirty THEN [@ EXCEPT !.focused = FALSE] ELSE NoDraft]

\* The chrome handlers reset the flags they are given, the others add.
SetFlags(w, onPage, onChrome) ==
    flags' = [flags EXCEPT ![w].page = onPage, ![w].chrome = onChrome]
SetChromeFlag(w) == flags' = [flags EXCEPT ![w].chrome = TRUE]
AddFlags(w, onPage, onChrome) ==
    flags' = [flags EXCEPT ![w].page = @ \/ onPage,
                           ![w].chrome = @ \/ onChrome]

\* The texture does not show a change of the content.
Outdate(w, changed) ==
    picture' = [picture EXCEPT ![w].current = @ /\ ~ changed]

RefreshWithOldView(w) ==
    started' = [started EXCEPT ![w] =
        focused'[w] /\ (editor'[w].focused \/ TakesText(ActivePage(w)))]

\* refresh_text_input, with the view after the event.
RefreshTextInput(w) ==
    started' = [started EXCEPT ![w] =
        focused'[w] /\ (editor'[w].focused \/ TakesText(ActivePage(w)'))]

BlurIsNotTold(w) == FALSE

\* tai_page_blur_input of the page shown, and whether it changed the page.
WasBlurred(w) == TakesText(ActivePage(w))

Blurred(w) ==
    IF TakesText(ActivePage(w))
    THEN [tabs[w] EXCEPT ![active[w]].page.input = FALSE] ELSE tabs[w]

LoadIn(slots, i, url) == [slots EXCEPT ![i].pending = url]

\* append_new_slot makes the new tab the active one.
TabsOfAll == Cardinality(UNION {{w} \X DOMAIN tabs[w] : w \in Open})
MayAddTab(w) == Len(tabs[w]) < TabLimit /\ TabsOfAll < MaxTabs
AddTab(w, slots, url) ==
    /\ tabs' = [tabs EXCEPT ![w] =
                   Append(slots, [page |-> None, pending |-> url])]
    /\ active' = [active EXCEPT ![w] = Len(slots) + 1]

-----------------------------------------------------------------------------
TypeOK ==
    /\ windows \in Seq(Windows) /\ Len(windows) <= MaxWindows
    /\ framing \in Seq(Open)
    /\ \A w \in Open :
        /\ tabs[w] \in Seq(Slots) /\ Len(tabs[w]) \in 1..TabLimit
        /\ active[w] \in 1..Len(tabs[w])
        /\ editor[w] \in [text : Texts, focused : BOOLEAN, dirty : BOOLEAN,
                          base : Urls \cup {None}, tab : 0..TabLimit]
        /\ watch[w] \in [tab : 1..TabLimit, url : Urls \cup {None}]
        /\ flags[w] \in Flags
        /\ size[w] \in Sizes
        /\ viewport[w] \in [size : Sizes, wraps : BOOLEAN]
    /\ focused \in [Windows -> BOOLEAN] /\ started \in [Windows -> BOOLEAN]
    /\ row \in [Windows -> BOOLEAN]
    /\ bookmarks \subseteq Urls

\* A window after window_open: its first tab is loading, nothing of it drawn
\* but its chrome.  Of windows that do not exist the variables do not matter.
FirstTabs == <<[page |-> None, pending |-> Home]>>
FirstWatch == [tab |-> 1, url |-> Home]
FirstWraps == WrapsAt(FirstSize, 1)
FirstViewport == [size |-> FirstSize, wraps |-> FirstWraps]
FirstChrome == [count |-> 1, active |-> 1, url |-> Home, text |-> Home,
                caret |-> FALSE, wraps |-> FirstWraps, size |-> FirstSize,
                star |-> FALSE, touched |-> FALSE]
FirstPicture == [tab |-> 1, page |-> None, size |-> FirstSize,
                 wraps |-> FirstWraps, current |-> TRUE]

Init ==
    /\ \E w \in Windows : windows = <<w>>
    /\ framing = <<>>
    /\ tabs = [w \in Windows |-> FirstTabs]
    /\ active = [w \in Windows |-> 1]
    /\ editor = [w \in Windows |-> NoDraft]
    /\ watch = [w \in Windows |-> FirstWatch]
    /\ focused = [w \in Windows |-> TRUE]
    /\ started = [w \in Windows |-> FALSE]
    /\ flags = [w \in Windows |-> NoFlags]
    /\ size = [w \in Windows |-> FirstSize]
    /\ row = [w \in Windows |-> FirstWraps]
    /\ viewport = [w \in Windows |-> FirstViewport]
    /\ chrome = [w \in Windows |-> FirstChrome]
    /\ picture = [w \in Windows |-> FirstPicture]
    /\ bookmarks = {}

-----------------------------------------------------------------------------
(* One event, for a window.                                                *)

EventFor(w) ==
    /\ Waiting /\ w \in Open
    /\ framing' = windows
    /\ UNCHANGED <<windows, watch>>

FocusChange(w) ==
    /\ focused' = [focused EXCEPT ![w] = ~ @]
    /\ UNCHANGED <<tabVars, editor, flags, sizeVars, drawn, bookmarks>>

\* tai_pres_handle_tabs_chrome_click: what every branch but new_tab_full does.
ChromeClick(w) == UNCHANGED <<focused, sizeVars, picture>>

ClickNewTab(w) ==
    /\ ChromeClick(w)
    /\ MayAddTab(w)
    /\ AddTab(w, Blurred(w), Home)
    /\ Discard(w)
    /\ SetFlags(w, TRUE, TRUE)
    /\ UNCHANGED <<chrome, bookmarks>>

ClickNewTabWhenFull(w) ==
    /\ ChromeClick(w)
    /\ Len(tabs[w]) >= TabLimit
    /\ SetFlags(w, FALSE, FALSE)
    /\ UNCHANGED <<tabVars, editor, chrome, bookmarks>>

ClickTab(w, i) ==
    /\ ChromeClick(w)
    /\ tabs' = [tabs EXCEPT ![w] = Blurred(w)]
    /\ active' = [active EXCEPT ![w] = i]
    /\ Discard(w)
    /\ SetFlags(w, TRUE, TRUE)
    /\ UNCHANGED <<chrome, bookmarks>>

\* The bookmarks button, Back and Forward: a new load of the tab, or none
\* when it cannot be made or there is no entry to go to.
ClickLoad(w) ==
    /\ ChromeClick(w)
    /\ \/ \E url \in Urls :
              tabs' = [tabs EXCEPT ![w] = LoadIn(Blurred(w), active[w], url)]
       \/ tabs' = [tabs EXCEPT ![w] = Blurred(w)]
    /\ Discard(w)
    /\ SetFlags(w, WasBlurred(w), TRUE)
    /\ UNCHANGED <<active, chrome, bookmarks>>

\* The star, when the page can be bookmarked; the store may refuse.
ClickStar(w) ==
    /\ ChromeClick(w)
    /\ Bookmarkable(w)
    /\ tabs' = [tabs EXCEPT ![w] = Blurred(w)]
    /\ Discard(w)
    /\ SetFlags(w, WasBlurred(w), TRUE)
    /\ LET url == ActivePage(w).url
       IN  \/ /\ bookmarks' = IF url \in bookmarks THEN bookmarks \ {url}
                              ELSE bookmarks \cup {url}
             /\ chrome' = [x \in Windows |->
                    IF x \in Open \ {w} /\ chrome[x].url = url
                    THEN [chrome[x] EXCEPT !.touched = TRUE] ELSE chrome[x]]
          \/ UNCHANGED <<bookmarks, chrome>>
    /\ UNCHANGED active

ClickAddress(w) ==
    /\ ChromeClick(w)
    /\ tabs' = [tabs EXCEPT ![w] = Blurred(w)]
    /\ editor' = [editor EXCEPT ![w] =
                     IF HasDraft(w) THEN [@ EXCEPT !.focused = TRUE]
                     ELSE [text |-> ViewUrl(w), focused |-> TRUE,
                           dirty |-> FALSE, base |-> ViewUrl(w),
                           tab |-> active[w]]]
    /\ SetFlags(w, WasBlurred(w), TRUE)
    /\ UNCHANGED <<active, chrome, bookmarks>>

\* Anywhere else, and the star of a page that cannot be bookmarked.
ClickBlank(w) ==
    /\ ChromeClick(w)
    /\ tabs' = [tabs EXCEPT ![w] = Blurred(w)]
    /\ Discard(w)
    /\ SetFlags(w, WasBlurred(w), HasDraft(w))
    /\ UNCHANGED <<active, chrome, bookmarks>>

MiddleClickChrome(w) ==
    /\ tabs' = [tabs EXCEPT ![w] = Blurred(w)]
    /\ AddFlags(w, WasBlurred(w), TRUE)
    /\ UNCHANGED <<active, editor, focused, sizeVars, drawn, bookmarks>>

\* A middle click on the page: the page keeps its focus and the draft is kept,
\* also when the link opens in a new tab.  The link may be external, or the
\* tab set full.
MiddleClickPage(w) ==
    /\ IF editor[w].focused THEN Unfocus(w) ELSE UNCHANGED editor
    /\ \/ /\ AddFlags(w, FALSE, editor[w].focused)
          /\ UNCHANGED tabVars
       \/ /\ ActivePage(w) # None
          /\ AddFlags(w, TRUE, TRUE)
          /\ \/ /\ MayAddTab(w)
                /\ \E url \in Urls : AddTab(w, tabs[w], url)
             \/ UNCHANGED tabVars
    /\ UNCHANGED <<focused, sizeVars, drawn, bookmarks>>

\* Text and Backspace in the address field.
TypeAddress(w) ==
    /\ focused[w] /\ editor[w].focused
    /\ editor' = [editor EXCEPT ![w].text = "typed", ![w].dirty = TRUE]
    /\ SetChromeFlag(w)
    /\ UNCHANGED <<tabVars, focused, sizeVars, drawn, bookmarks>>

\* Return: what was typed may be no URL, or an external one.
SubmitAddress(w) ==
    /\ focused[w] /\ editor[w].focused
    /\ Discard(w)
    /\ SetChromeFlag(w)
    /\ \/ \E url \in Urls :
              tabs' = [tabs EXCEPT ![w] = LoadIn(@, active[w], url)]
       \/ UNCHANGED tabs
    /\ UNCHANGED <<active, focused, sizeVars, drawn, bookmarks>>

\* Alt+Left and Alt+Right.
HistoryKey(w) ==
    /\ focused[w] /\ ~ editor[w].focused
    /\ AddFlags(w, FALSE, TRUE)
    /\ \/ \E url \in Urls :
              tabs' = [tabs EXCEPT ![w] = LoadIn(@, active[w], url)]
       \/ UNCHANGED tabs
    /\ UNCHANGED <<active, editor, focused, sizeVars, drawn, bookmarks>>

\* tai_pres_handle_page_event and what follows it.  The page changes or not,
\* its focus goes to input, and then a fragment link may have moved it, or a
\* link or form started a load.
PageHandles(w, input, onChrome) ==
    LET page == ActivePage(w)
        Becomes(slot) == tabs' = [tabs EXCEPT ![w][active[w]] = slot]
        slot == [tabs[w][active[w]] EXCEPT !.page.input = input]
    IN  \/ \E changed, asked \in BOOLEAN :
              /\ input # page.input => changed
              /\ \/ Becomes(slot)
                 \/ asked /\ \E url \in Urls :
                                Becomes([slot EXCEPT !.pending = url])
              /\ Outdate(w, changed)
              /\ AddFlags(w, changed, onChrome \/ asked)
        \/ \* the history takes the fragment, or the page goes back
           /\ Becomes(slot) \/ \E url \in Urls :
                                   Becomes([slot EXCEPT !.page.url = url])
           /\ Outdate(w, TRUE)
           /\ AddFlags(w, TRUE, TRUE)

ClickPage(w) ==
    /\ IF editor[w].focused THEN Unfocus(w) ELSE UNCHANGED editor
    /\ IF ActivePage(w) = None
       THEN /\ AddFlags(w, FALSE, editor[w].focused)
            /\ UNCHANGED <<tabs, picture>>
       ELSE \E input \in BOOLEAN :
                PageHandles(w, input, editor[w].focused)
    /\ UNCHANGED <<active, focused, sizeVars, chrome, bookmarks>>

\* Text and keys for the page; its listeners may take the focus away.
TypePage(w) ==
    /\ focused[w] /\ ~ editor[w].focused /\ ActivePage(w) # None
    /\ \E input \in {FALSE, ActivePage(w).input} : PageHandles(w, input, FALSE)
    /\ UNCHANGED <<active, editor, focused, sizeVars, chrome, bookmarks>>

Wheel(w) ==
    /\ ActivePage(w) # None
    /\ AddFlags(w, TRUE, FALSE)
    /\ Outdate(w, TRUE)
    /\ UNCHANGED <<tabVars, editor, focused, sizeVars, chrome, bookmarks>>

Resize(w) ==
    /\ \E s \in Sizes :
        LET wraps == WrapsAt(s, Len(tabs[w]))
        IN  /\ size' = [size EXCEPT ![w] = s]
            /\ row' = [row EXCEPT ![w] = wraps]
            /\ viewport' = [viewport EXCEPT ![w] =
                              [size |-> s, wraps |-> wraps]]
    /\ AddFlags(w, TRUE, TRUE)
    /\ UNCHANGED <<tabVars, editor, focused, drawn, bookmarks>>

Expose(w) ==
    /\ flags' = [flags EXCEPT ![w].force = TRUE]
    /\ UNCHANGED <<tabVars, editor, focused, sizeVars, drawn, bookmarks>>

\* window_event: one handler, then the text input for the view it leaves.
WindowEvent(w) ==
    /\ EventFor(w)
    /\ \/ FocusChange(w) \/ ClickNewTab(w) \/ ClickNewTabWhenFull(w)
       \/ \E i \in DOMAIN tabs[w] : ClickTab(w, i)
       \/ ClickLoad(w) \/ ClickStar(w) \/ ClickAddress(w) \/ ClickBlank(w)
       \/ MiddleClickChrome(w) \/ MiddleClickPage(w)
       \/ TypeAddress(w) \/ SubmitAddress(w) \/ HistoryKey(w)
       \/ ClickPage(w) \/ TypePage(w) \/ Wheel(w) \/ Resize(w) \/ Expose(w)
    /\ RefreshTextInput(w)

-----------------------------------------------------------------------------
(* The rest of a turn of run_windows.                                      *)

\* No event in time, or one that no window handles.
NoEvent ==
    /\ Waiting
    /\ framing' = windows
    /\ UNCHANGED <<windows, tabVars, editor, watch, focused, started, flags,
                   sizeVars, drawn, bookmarks>>

\* Ctrl+N.  Over the limit, or without the resources, nothing happens.
NewWindow ==
    /\ Waiting
    /\ \E w \in Windows \ Open :
           /\ Len(windows) < MaxWindows /\ TabsOfAll < MaxTabs
           /\ windows' = Append(windows, w)
    /\ framing' = windows'
    /\ UNCHANGED <<tabVars, editor, watch, focused, started, flags, sizeVars,
                   drawn, bookmarks>>

\* window_destroy; the variables then hold what window_open will give them.
Destroy(gone) ==
    LET Reset(f, first) == [w \in Windows |-> IF w \in gone THEN first ELSE f[w]]
    IN  /\ tabs' = Reset(tabs, FirstTabs)
        /\ active' = Reset(active, 1)
        /\ editor' = Reset(editor, NoDraft)
        /\ watch' = Reset(watch, FirstWatch)
        /\ focused' = Reset(focused, TRUE)
        /\ started' = Reset(started, FALSE)
        /\ flags' = Reset(flags, NoFlags)
        /\ size' = Reset(size, FirstSize)
        /\ row' = Reset(row, FirstWraps)
        /\ viewport' = Reset(viewport, FirstViewport)
        /\ chrome' = Reset(chrome, FirstChrome)
        /\ picture' = Reset(picture, FirstPicture)
        /\ UNCHANGED bookmarks

\* A window that is closed gets no frame in this turn.
CloseWindow(w) ==
    /\ Waiting
    /\ \E i \in DOMAIN windows :
           windows[i] = w /\ windows' = RemoveAt(windows, i)
    /\ framing' = windows'
    /\ Destroy({w})

\* SDL_EVENT_QUIT, or a fatal error of an event or a frame: close_all.
Quit ==
    /\ windows # <<>>
    /\ windows' = <<>> /\ framing' = <<>>
    /\ Destroy(Open)

\* What tai_tabset_pump can make of a tab: its load is not done, ended without
\* a page, or was committed; the page need not spell its URL as it was asked for.
Settled(slot) ==
    IF slot.pending = None THEN {slot}
    ELSE {slot, [slot EXCEPT !.pending = None]}
         \cup [page : [url : Urls, input : {FALSE}], pending : {None}]

Pumped(w) ==
    {slots \in [DOMAIN tabs[w] -> UNION {Settled(tabs[w][i]) :
                                          i \in DOMAIN tabs[w]}] :
        \A i \in DOMAIN slots : slots[i] \in Settled(tabs[w][i])}

DropsTypedOnly(w, url) ==
    watch[w].tab = active[w] /\ watch[w].url # url /\ editor[w].dirty

\* tai_pres_address_follow_view: a draft goes when the URL changes under it, not
\* when another tab comes to the front.
DropsDraft(w, url) ==
    watch[w].tab = active[w] /\ watch[w].url # url /\ HasDraft(w)

NeverUnwraps(w) == Wraps(w) /\ ~ row[w]

\* With a new tab, after the pages were sized, the strip wraps, or no longer
\* does because it is compact now.
Rewraps(w) == Wraps(w) # row[w]

\* Page tasks run in every tab and an animation frame in the active one; a
\* script may take the focus from an input.
FocusLost(slots, lost) ==
    [i \in DOMAIN slots |->
        IF i \in lost THEN [slots[i] EXCEPT !.page.input = FALSE] ELSE slots[i]]

\* Draws what the flags and this frame's changes say.
Repaint(w, onPage, onChrome, changed) ==
    /\ IF onPage THEN picture' = [picture EXCEPT ![w] = Picture(w)']
       ELSE Outdate(w, changed)
    /\ chrome' = IF onChrome THEN [chrome EXCEPT ![w] = Chrome(w)'] ELSE chrome

\* window_frame.  changed: a script changed the page shown.
Frame(w) ==
    /\ framing # <<>> /\ w = Head(framing)
    /\ framing' = Tail(framing)
    /\ flags' = [flags EXCEPT ![w] = NoFlags]
    /\ UNCHANGED <<windows, active, focused, started, size, bookmarks>>
    /\ \E slots \in Pumped(w), changed \in BOOLEAN :
       \E lost \in SUBSET {i \in DOMAIN slots : TakesText(slots[i].page)} :
        LET url == UrlOf(slots[active[w]])
            committed == slots # tabs[w]
            drop == DropsDraft(w, url)
        IN  /\ active[w] \in lost => changed
            /\ changed => slots[active[w]].page # None
            /\ tabs' = [tabs EXCEPT ![w] = FocusLost(slots, lost)]
            /\ IF drop THEN Discard(w) ELSE UNCHANGED editor
            /\ watch' = [watch EXCEPT ![w] = [tab |-> active[w], url |-> url]]
            /\ IF Rewraps(w)
               THEN /\ row' = [row EXCEPT ![w] = Wraps(w)]
                    /\ viewport' = [viewport EXCEPT ![w] =
                                      [size |-> size[w], wraps |-> Wraps(w)]]
               ELSE UNCHANGED <<row, viewport>>
            /\ Repaint(w, flags[w].page \/ committed \/ changed \/ Rewraps(w),
                       flags[w].chrome \/ committed \/ drop \/ Rewraps(w),
                       changed)

Ended == windows = <<>> /\ UNCHANGED vars

Next ==
    \/ \E w \in Windows : WindowEvent(w) \/ CloseWindow(w) \/ Frame(w)
    \/ NoEvent \/ NewWindow \/ Quit \/ Ended

Spec == Init /\ [][Next]_vars

-----------------------------------------------------------------------------
(* Properties, of the moments when the loop waits and its windows are seen.  *)

\* What every window shows is what it should show: no handler changes the
\* active tab, its page, its URL, the draft or the bookmark without the frame
\* of the same turn drawing it.  Only the star of another window that shows
\* the same URL stays as drawn (window_event, window_frame and the handlers).
PresentedIsCurrent ==
    Waiting => \A w \in Open :
        /\ picture[w] = Picture(w)
        /\ \/ chrome[w] = Chrome(w)
           \/ /\ chrome[w].touched
              /\ [chrome[w] EXCEPT !.star = Chrome(w).star, !.touched = FALSE]
                    = Chrome(w)

\* A draft never stands over a URL other than the one its tab shows, whichever
\* load, fragment or traversal changes it; it may be carried into another tab
\* (tai_pres_address_follow_view).
DraftFollowsUrl ==
    Waiting => \A w \in Open :
        HasDraft(w) /\ editor[w].tab = active[w] => editor[w].base = ViewUrl(w)

\* Text input is on whenever a window with the keyboard shows a focused address
\* or page input, whichever event gave it the focus or brought its tab to the
\* front (refresh_text_input after the handlers).
TypingIsNeverLost ==
    Waiting => \A w \in Open :
        focused[w] /\ (editor[w].focused \/ TakesText(ActivePage(w)))
            => started[w]

\* The pages of a window are sized for the area its chrome leaves, and clicks
\* are routed by the same boundary, after tabs have been opened, which wraps
\* the strip and unwraps it again, and the window resized (window_frame,
\* row_wraps).
ViewportFitsChrome ==
    Waiting => \A w \in Open :
        /\ row[w] = Wraps(w)
        /\ viewport[w] = [size |-> size[w], wraps |-> Wraps(w)]

=============================================================================
