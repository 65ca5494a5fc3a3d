# tai_ci: a TLA+ model of the browser

tai is a small web browser in C. Its windows run on the SDL thread; one loader
thread per process fetches pages and runs their load-time scripts. This
directory holds TLA+ models of the parts of it in which order matters, the TLC
configurations that check them on small instances, and theorems about them that
TLAPS proves for instances of every size. Paths are relative to the repository,
as `src/browser.c`; function names are those of the code.

## 1. The system

### Components, their state and what they call

| Component | State | Operations | Talks to |
|---|---|---|---|
| Browser app, tab sets, load tasks (`tabset.c`) | `TaiBrowserApp`: list of tab sets, the loader; `TaiTabSet`: `TabSlot`s (id, generation, active task, session, pending history), active tab, inbox; `Loader`: queue, active loads, completions, XHR jobs, `stop`, `network_failed` | start, new tab, open link, navigate, history, record fragment, pump, run tasks, destroy; loader thread: take, start, poll, reap, exit | sessions, page loads, network, bookmarks |
| Session (`session.c`) | the URLs visited, index, the page shown | commit navigation, commit history, record fragment | pages |
| Asynchronous page load (`browser.c`, `TaiPageLoad`) | document, resources with their responses, requests in flight, count of pending ones | start, document done, resource done, cancel | network, JavaScript, the load task |
| Page (`browser.c`, `TaiPage`) | document, styles, layout, display list, fetches, scroll, focus, pending intent | events, tasks, animation frames, resize | JavaScript, host callbacks (`TaiPageNet`) |
| Fetches and XHR jobs (`browser.c`, `tabset.c`) | `TaiPageFetch` with a reference count, an abandoned flag and a response; `AsyncJob`, `XhrJob` | start, abandon, finish, deliver, expire | both threads |
| Network (`network.c`) | list of requests, `ready`, `waited` and `nested` flags, response cache, cookie jar | submit, poll, nested poll, cancel, request until | libcurl |
| Bookmarks (`bookmarks.c`) | ordered set in memory, file | load, toggle | file system |
| Visited links (`visited.c`) | a sorted set that only grows | add, copy | load tasks |
| JavaScript (`js.c`) | QuickJS context, timers, deadline, interned nodes | eval, dispatch, run timers | page, host |
| Scheduler (`scheduler.c`) | queues by priority, generations | post, next, finish | nothing: a library only its tests call |
| Event loop, windows, address editor (`presentation_tabs.c`, `presentation_events.c`, `presentation_address.c`) | windows, focus, the draft in the address bar, pointer | one turn per window and event | tab sets |
| URL, HTML, CSS, layout, display list (`url.c`, `dom.c`, `css.c`, `layout.c`, `render.c`) | none of their own: pure algorithms over trees | parse, resolve, style, lay out, draw | |
| External links, trace, containers, command line (`external.c`, `trace.c`, `core.c`, `main.c`) | | | |

### How they interact, and what is hard

The SDL thread owns every tab set, session and shown page. A navigation makes a
load task with a new generation, publishes it to the loader's queue under the
loader's mutex and goes on. The loader takes tasks, starts a page load for each
(or finishes at once: a bookmarks page, an error), polls the network for all of
them together and appends a completion when one ends. Each turn of the event
loop *pumps* every tab set: completions go to the tab set that owns their tab,
those of the newest generation are committed, the others freed.

Asynchronous XMLHttpRequests cross the same border in the other direction: the
page keeps a `TaiPageFetch`, the loader an `AsyncJob` that refers to it, and
whichever lets go last frees it. A synchronous one blocks the SDL thread until
the loader answers.

Hard to get right, and hard to test:

- a task may be superseded or its window closed while it is queued, taken but
  not active yet, active, published, or waiting in an inbox;
- the `cancelled` flag is read without the mutex;
- the loader's condition variable must cover every reason to wake up;
- shutdown joins the loader while transfers hang;
- one failed poll ends every load and every job at once;
- a request's deadline passes in the turn in which its answer arrives;
- `tai_page_run_tasks` walks the fetches of a page while their `onload`s append
  to the list;
- the poll that completes a page runs scripts, and those scripts poll again;
- subresources are refused, fail or arrive in any order;
- the session history changes (by a fragment link) under a traversal in flight.

- a redirect sends a request again to another host, whose cookie a script may be
  replacing at that moment;
- what a window shows must follow from four places that change it (events,
  commits, page tasks, other windows) and from flags that are set in one place
  and reset in another;
- scripts run in the middle of every handler of a page and may take away the node
  the handler works on, the input that has the focus or the layout it tested;
- timers are armed and cleared by the callbacks of timers.

`PROJECT.json` lists every such hazard with its line and the properties that
cover it, or the reason why none does yet.

### What makes each component correct

- *Load tasks*: no dangling task, no page leaked or freed twice, only the newest
  load of a tab shown, everything unwanted told to stop, every tab settles,
  shutdown ends.
- *History*: the current entry is the page shown; what the tab shows of a
  pending load is what its commit leaves; no back entry is lost.
- *XHR*: one answer per request, none to a page that is gone, references counted
  right, no thread blocked for ever.
- *Page loads*: one end per load, no callback after it, effects in document
  order, no script inside another.
- *Bookmarks*: the file is whole whatever fails, a malformed one is never
  touched, the collection in memory is what the file holds.
- *Network*: each hop carries what its own host may see; a cached answer is
  fresh; a script never replaces an HttpOnly cookie.
- *Windows*: when the loop waits, a window shows its active tab, its URL and
  draft as they are; the draft belongs to the URL shown; typing reaches what has
  the focus; pages have the size the chrome leaves them.
- *Pages and scripts*: the focus is in the document; an idle page has the layout of
  its document; an id is a global of the scripts unless its name is taken; timers run
  in order and are those with a callback, but for calls cut short; scripts end in time.

## 2. Modules

| Module | Models | Role |
|---|---|---|
| `TabLoads` | `tabset.c`: tasks, tabs, windows, both threads | detailed specification |
| `TabPromise` | what a tab promises its user | abstract specification, refined by `TabLoads` |
| `TabLoadsProofs` | | theorems on `TabLoads` |
| `TabHistory` | `session.c` and the virtual history of `tabset.c`, fragment links of `browser.c` | one tab with its pending load |
| `TabHistoryProofs` | | theorems on `TabHistory` |
| `XhrJobs` | `TaiPageFetch`, `AsyncJob`, `XhrJob` on both threads | detailed specification |
| `XhrJobsProofs` | | theorems on `XhrJobs` |
| `PageLoads` | `TaiPageLoad`, request list and polls of `network.c`, checkpoints of `tabset.c` | the loader thread and its call stack |
| `PageLoadsProofs` | | theorems on `PageLoads` |
| `Bookmarks` | the file of `bookmarks.c` through system calls, kills and power failures | several processes on one file |
| `BookmarksProofs` | | theorems on `Bookmarks` |
| `Http` | redirects, headers, response cache and cookie jar of `network.c` | loader thread and a second writer of the jar |
| `HttpProofs` | | theorems on `Http` |
| `Windows` | `presentation_tabs.c`, `presentation_events.c`, `presentation_address.c`, what `presentation_chrome.c` and `presentation_scene.c` show | the event loop |
| `WindowsProofs` | | theorems on `Windows` |
| `JsRuntime` | entries, deadline and timers of `js.c` and `js_scheduling.js` | extended by `Pages` |
| `Pages` | the handlers of a page in `browser.c`, the mutations of `dom.c` that scripts call through `js.c` | composes `JsRuntime` with the document |
| `PagesProofs` | | theorems on `Pages` and, in it, `JsRuntime` |
| `MC*` | | instances, bounds and symmetry for TLC |

The modules overlap on purpose. `TabLoads` sees a page load as one step to its
outcome, `PageLoads` sees the inside of it; `PageLoads` sees the asynchronous
jobs as one request that comes and goes, `XhrJobs` sees their life; in `XhrJobs`
a load is only something that runs scripts and may poll. `Windows` sees a page as
a URL and whether an input has the focus, `Pages` sees the inside of its handlers;
`Http` has what one request sends and receives, `PageLoads` the order in which
requests are called back.

### TabLoads

`loc` says which list or thread holds a load task (queued, taken by the loader,
active, loaded, published, in an inbox, freed), `tabOf`, `genOf`, `cancelled`
and `page` are the rest of it. `owner`, `gen`, `activeTask` and `shown` are the
`TabSlot`s: their tab set, `generation`, `active_task` and the task whose page
the session shows. `pc`, `cur`, `stopSeen` and `scan` are the loader inside
`loader_main` and `cancel_or_reap_loads`.

| Code | Action |
|---|---|
| `tai_tabset_create_in_app`, `append_new_slot` | `OpenWindow`, `NewTab` |
| `navigate_url`, `tai_tabset_history` with `task_create`, `task_publish` | `Navigate` (with `PushTask`, `Supersede`) |
| `tai_tabset_pump` | `Pump` (`Batch`, `Accepts`, `Release`, `SettleTabs`) |
| `tai_tabset_destroy` | `CloseWindow` |
| `tai_browser_app_destroy` | `DestroyApp`, `JoinLoader` |
| `loader_main` | `TakeTask`, `StartTask`, `LoadAtOnce`, `LoadAsync`, `PollNetwork`, `SkipPoll`, `XhrPass`, `ReapTask`, `CheckDone` |

A step of the SDL thread is a whole operation: tab sets and sessions belong to
that thread alone, and what it shares it changes in one critical section. A step
of the loader ends wherever it releases the mutex or reads `cancelled`, which is
what the other thread can interleave with. Abstracted: URLs, markup and trace;
loads of one task as one transfer (see `PageLoads`).

### TabPromise

A tab numbers the documents asked of it, is loading until the newest is settled,
and shows the document of one request, which only the newest one's replaces; it
may close. `TabLoads` implements it under the mapping that forgets the loader:
`asked` is the generation of a tab, `loading` the tabs with an active task,
`showing` the generation of the task shown.

### TabHistory

One tab: the session's `urls` and `index`, the URL of the page shown, the
`pending` load with its kind and `history_target`, and the `fatal` error on
which the event loop gives up. `VirtualIndex`, `VirtualCount` and `VirtualUrl` are
what `virtual_history` and `tai_tabset_history_url` make of them; `Settle` is
the part of the pump that commits. URLs are small records of a document and a
fragment, so that "same document" is decided as in `apply_fragment_url`. A load
keeps and announces the text it was asked for (`task_create` only looks whether
it parses); the page it makes, and with it the entry, has the URL as
`tai_url_string` writes it. The two may differ, as `http://example.org` and
`http://example.org/` do: `Texts` are the spellings and `Serialized` is what parsing
and writing make of one. `tai_session_commit_history` compares two serialized
URLs, and to serialize one again changes nothing (by reading `finalize`).
`ClickFragment` is the whole handler of a click: the page moves, the history takes
the entry or is out of memory, and `FinishFragment` lets the page go back.

### XhrJobs

`fetches` is the list of a page, `references`, `done` and `abandoned` the members
of `TaiPageFetch`, and `delivered` counts the runs of its `onload`. `job` says
where its `AsyncJob` is, `sync` where the one `XhrJob` is that can exist; `walk`
is `tai_page_run_tasks` with its position and the last fetch it will visit. The loader's `pc` follows `loader_main`, and `EndScript`, `NestedPoll`
and `ResumeLoad` are the ways in which a script of a page that is loading keeps
the loader inside a poll. Time is the set `late` of the requests whose deadline has
passed (`TimePasses`); nothing depends on more than that.

### PageLoads

`stack` is the call stack of `page_apply_resources`: for each page whose
resources are being applied its index and its place (before a checkpoint, in the
checkpoint's poll, in a script, waiting in `tai_network_request_until`, polling
there, or in the poll after a script that failed). `requests` is the network's
list, to whose front `tai_network_submit` adds. It is kept as what follows each
request (`IsList`: an order of its members), so that `Submitted` and `Without`
say what they do to it without indices; `listed` and `pending` are
`load->requests` and `load->pending_resources`. `Dispatch` takes the first
request that is ready and, in a nested poll, marked `waited` or `nested`, and
runs its callback in the same step, as `network_poll` does.

Abstracted: a resource is one of four kinds (script or style, inline or by URL)
and has content or an error; one `Job` stands for the requests of event-time
scripts, which `loader_service` submits and expires at any poll; redirects keep
a request in flight; a failed allocation appears where the code survives it.

### Bookmarks

A toggle of a collection with a path is one action per system call whose failure
or interruption can be told apart: `Toggle` (up to `mkstemp`), `Write`, `Fsync`,
`Rename`, `Commit` (the directory's fsync, whose result the code ignores, and the
change in memory), and `Fail` for the unlink on any error before the rename.
`disk` is the set of files a power failure may leave at the path, `temp` what the
temporary file is sure to hold then: nothing whole before its fsync. `Exit` is a
process that ends or is killed at any point, `OpenSaved` and `OpenMemory` the two
outcomes of `tai_bookmarks_open_default`. `current` is auxiliary: the processes
that loaded or replaced the file last. Two processes do not see each other's
changes, and the last writer wins; that is the design, and no property denies it.

The sorted array and its binary search are abstracted as a set of URLs (see 8).

### Http

`req` is the list of requests: each is free, sent, answered (between the
`jar_store` of its Set-Cookie and the rest of `complete_transfer`, which is where
the other thread's scripts come in) or ready, with the URL of its hop, its number
of redirects and the headers it was sent with. `jar` has one cookie per host,
`cache` the age of the entries; `waiting` is the request that
`tai_network_request_until` waits for. A cookie is its host, its attributes and
its expiry, an answer its status, its location and its max-age. Referrers are any
URL a page can have: `start` drops the `file:`, `data:` and `about:` ones
(`HttpUrls`), which the callers pass as they come.

| Code | Action |
|---|---|
| `tai_cookie_jar_js_set`, `_js_get` | `ScriptSets`, `ScriptReads` |
| `tai_network_submit`, `tai_network_request_until`, `start` | `Submit`, `RequestUntil` (with `Start`) |
| `complete_transfer` | `Respond`, then `Redirect` or `Complete` |
| `easy_clear`, limits of `body_cb` and `header_cb`, timeouts | `TransferFails` |
| `network_poll`, `tai_network_cancel`, `tai_network_destroy` | `Dispatch`, `Cancel`, `Destroy` |
| deadline, service or failed poll of a wait | `GiveUp` |

### Windows

One turn of `run_windows` is one event (`WindowEvent`, `NewWindow`, `CloseWindow`
or `NoEvent`) and then one `Frame` for each window. `WindowEvent` is a handler of
`window_event_body` followed by `RefreshTextInput`; `Frame` commits loads,
follows the view, runs tasks, wraps the tab strip and repaints what the flags say,
in the order of `window_frame`. `chrome` and `picture` are what was drawn last:
copies of the state at that time, which the properties compare with the state
now. Which part of the chrome a click hits is a choice, as is what a page does
with an event. Of the widths of tabs only this is kept: how many fit in a row at a
size (`Fits`, which may be none) and whether there is any room beside the New Tab
button (`Roomy`). A strip that does not fit takes a second row with one tab or two,
and from the third on is drawn in slots of equal width instead (`Compacts`), so
that a tab more may also take the second row back.

A window that is not open has the values that `window_open` gives a new one.

### JsRuntime and Pages

`JsRuntime` has the parts of `TaiJsContext` that matter between entries: the
outermost `entry` with its deadline and what was added to it, `timers` in the
order they were armed, and the `callbacks` that `js_scheduling.js` keeps under the
same handles in two tables, one for timeouts and one for intervals; `pass` is
`tai_js_run_timers` between two callbacks. The calls that scripts make have two
halves, the table in JavaScript and the array in C. The second may throw (an
argument that JSON cannot write, no memory) or be cut by the deadline, and
`clearInterval` looks for a property key in the one and for the `int()` of its
argument in the other, which need not name the same timer. `SetTimer` and
`ClearInterval` have all of these outcomes, and `half` is auxiliary: the timers of
which a call did one half only.

`Pages` adds the tree (`tag`, `parent`, `children`, `idOf`), the `globals` under the
names of its ids (the element of the variable the browser made, `Other` for what
the language or a script has there, or nothing), and of `TaiPage` the `focused` node, `scrollFocus`, the flag `dirty` and the
`frame` as a function of the tree and the focus. `task` is the handler that is
running and where it is; while `entry` is set, the next step is one of the
script's: a call of the bridge that mutates, a timer armed or cleared, a
synchronous request, time that passes, or its end, by itself or by the deadline
(`Interrupt`), after which the handler goes on with what it finds.

After a mutation that may change ids `AfterMutation` runs `sync_id_globals`: to its
end (`Synced`, which leaves names alone that are taken), or half of it
(`HalfSynced`), after which the script goes on if the failure was an ordinary one,
which is reported, and stops if it was the deadline. `SetGlobal` is a script that
assigns to such a name or deletes it. `fresh` is auxiliary: the names that are as
the last resync left them.

Left out: a `toJSON` that makes calls of its own, scripts that call `call_python` or
change the tables of `js_scheduling.js` themselves, that put the browser's own
variable of an id back after deleting it, or make properties of `window` that throw.

| Code | Action |
|---|---|
| `tai_page_activate_viewport`, `submit_form` | `Click`, `ClickDefault` (`ClickInput`, `ClickOther`), `SubmitDefault` |
| `tai_page_text_input`, `tai_page_key`, `tai_page_blur_input` | `TextInput`, `TextInputDefault`, `Key`, `BlurInput` |
| `tai_page_scroll_by`, `tai_page_resize` | `ScrollBy`, `Resize` |
| `tai_page_run_animation_frame` | `AnimationFrame`, `EndFrame` |
| `tai_page_run_tasks`, `tai_js_run_timers`, `tai_js_finish_xhr` | `RunTasks`, `NextTimer`, `Onload`, `EndTasks` |
| `op_create_element`, `insert`, `op_remove_child`, `op_inner_html_set`, `op_set_attribute`, text content | `BridgeCall` |
| `setTimeout`, `setInterval`, `clearInterval` | `SetTimer`, `ClearInterval` |

## 3. Runs

| Run | Instance | Shows |
|---|---|---|
| `TabLoads_safety` | 2 windows, 3 tabs, 3 loads | tasks never dangle, pages have one owner, what is not wanted is cancelled, shutdown is clean, and the refinement of `TabPromise` |
| `TabLoads_live` | 2 windows of one tab, 2 loads | cancelled tasks are freed and the app ends, whatever the network does; every tab of an open window settles if transfers end |
| `TabHistory_safety` | 2 documents, a fragment, a second spelling, up to 4 entries | the current entry is the page shown, refused fragments included; the announced history is the committed one but for its spelling; no back entry is lost |
| `TabHistory_traversal` | the same | *violated*: see 6 |
| `XhrJobs_safety` | 2 pages, 3 asynchronous requests, 1 synchronous | references, one answer, a safe walk, a clean exit |
| `XhrJobs_live` | 2 pages, 1 asynchronous request, 1 synchronous | abandoned requests stop and the app ends without an answer or a deadline; with deadlines the SDL thread is released and every request of a shown page is answered |
| `PageLoads_safety` | 2 loads of at most 2 resources | no nested scripts, requests owned by loads that have not ended, document order |
| `PageLoads_live` | 2 loads of at most 1 resource | loads that are told to stop end, from inside a waiting script too, whatever the network does; every load ends if transfers do |
| `Bookmarks_crash` | 2 processes, 2 URLs | the file stays whole, a malformed one stays, memory follows the file |
| `Http_safety` | 2 hosts, 3 origins, a local document, 2 requests at a time, 1 cache entry, the second redirect fails | `HeadersFitTheHop`: no cookie or Referer goes with a redirect to where it must not, and no local page is named to anyone; `CacheIsSound`: what is served from the cache is fresh and plain, the cache within its limit; `HttpOnlyIsKept` |
| `Windows_safety` | 2 windows, 3 tabs in all, 2 sizes, 2 URLs | `PresentedIsCurrent`, `DraftFollowsUrl`, `TypingIsNeverLost`, `ViewportFitsChrome` |
| `Pages_safety` | html, form, input and one element that scripts make; 2 timers, 3 units of time | `FocusIsInDocument`, `IdleFrameIsCurrent`, `IdGlobalsAreCurrent`, `TimersMatchCallbacks`, `TimersRunInOrder`, `ScriptsAreBounded` |

Every module states a type invariant, `TypeOK`. All of them are proved, which
says more than a run; the runs keep to what could be wrong. Of the properties the
proofs establish, `CommitsAreCurrent` is not in a run of its own either: the
refinement of `TabPromise` says the same of the tabs.

### Bounds, and why they are enough

- Three loads on three tabs of two windows: a tab can be navigated twice, so
  that a load is superseded, and still share its window, or the other one, with
  a third; generations only matter by being equal or newer.
- Histories of a few entries: back, forward, the end of the list and truncation
  behind the current entry all happen; one pending load, which is all a tab has.
- Three fetches on two pages: one before, at and after the position of a walk,
  one of them of another page; a commit replaces one page by the other.
- Two loads with two resources: one page runs scripts while another has
  resources to be dispatched; two resources are the fewest that can come out of
  order or be refused in part. `CancelledLoadsEnd` says that the loader gets rid
  of its loads once *all* of them are cancelled: of a cancelled load next to
  another page's waiting script it could say nothing, since that script holds the
  whole loader until its request is answered.
- The liveness runs are smaller than the safety runs, since they only ask
  whether somebody waits for ever: one load superseded by another, or one in each
  window; one request of each kind; one page whose script waits while the other
  has a resource to come.
- Two processes and two URLs: one process can be at any call of its toggle while
  the other replaces the file; contents only matter by being equal. Nothing is
  counted, so the runs have no length bound.
- Two hosts, one with two origins, and a document with neither: a redirect can stay
  on a host, change its origin or leave it, and a page that is no HTTP page can send
  a form. One cache entry is enough to be replaced and to overflow; one unit
  of time to expire. The tenth redirect is the second one here: `RedirectLimit`
  only decides where a chain ends.
- Two windows and three tabs: each window has its own tab, or one has them all. In
  the large size the second tab wraps the strip and the third makes it compact, in
  the small one the first tab wraps it and nothing unwraps it. `CONSTRAINT Bound`
  keeps two windows from varying at once in what they do not share: with both open
  they have the size of a new window and two tabs together, and one of them has
  neither a draft nor a load. Of two tabs of a window one is new or has no load. The
  third tab comes while no tab of its window has a page and there is no draft: it is
  there for the strip.
- Pages: the input can be moved, removed alone, or with its form, and the fourth
  element can be put around or beside it. `CONSTRAINT Bound` in `MCPages` keeps
  apart what is independent: time passes and timers run over the document as it
  was loaded, and once there are two of them their scripts neither change it nor
  send requests; ids are set, of two elements, while nothing has the focus and the
  form stays in the root, and by the script of an animation frame; while the name is
  taken or a resync was cut short, the input stays in the form as well; the focus and
  the scrolled element do not meet. A timer, an onload and a listener do the same
  bridge calls, so that each of the three is seen with the whole of what it can
  disturb.
- Two timers: one of each kind, or two of one, so that a call can name another one
  than it should in either half.
- The number of tab IDs, loads, requests and entries is capped in the guards of
  the actions that create them; every cap is a CONSTANT marked as a bound.

Every run checks for deadlock. A system that has ended (the app destroyed, the
event loop left) stutters in an action `Terminated` of its own, so that any other
state without a step is an error.

### Fairness, and why the code justifies it

- The loader thread runs (WF on its next step): it is a thread that waits for
  nothing but its condition variable, which the models include, and polls of
  bounded length.
- The event loop pumps every tab set and runs the due tasks of its page (SF):
  each turn of `run_windows` handles one event and then visits every window, so
  that no sequence of events keeps one from its pump. It is strong fairness
  because other steps of the same thread disable it for a while, a window that
  closes or a script that waits. `tai_browser_app_destroy` follows when the last
  window is closed (WF).
- Those two, `ThreadFairness`, are all that the specification `FairSpec` of the
  liveness runs assumes: the network may stay silent, and no deadline may ever
  pass. `CancelledTasksAreFreed`, `AbandonedJobsStop`, `CancelledLoadsEnd` and
  `ShutdownFinishes` hold under it, since cancellation must not depend on the
  network.
- `LoadsSettle` and `LoadsEnd` have the premise `NetworkFairness`, that a
  transfer ends: libcurl is given a time limit of 30 seconds
  (`CURLOPT_TIMEOUT_MS`) and the code stops at the tenth redirect. In `PageLoads`
  it also says that a script does not wait past its deadline.
- `SyncIsAnswered` and `SentRequestsAreAnswered` have the premise
  `ClockFairness`, that deadlines pass. They do not assume a network that answers.
- A script ends: `interrupt_handler` stops it after two seconds, which
  synchronous requests extend by 30 at most (`js.c`). QuickJS polls
  the handler every few thousand operations only; `Compute` stops at the deadline, so
  `ScriptsAreBounded` does not count what runs between two polls.
- Users are not fair: no window must be closed, no link clicked.

## 4. What is proved

`TabLoadsProofs` proves, for every set of windows, tabs and loads:

| Theorem | Statement |
|---|---|
| `TypeCorrect` | the type invariant |
| `ActiveTasksAreLive` | `slot->active_task` never dangles and is the newest task of its tab |
| `UnwantedLoadsStop` | every other task has been cancelled |
| `PageOwnership` | each page has exactly one owner |
| `ShutdownIsClean` | the loader exits empty-handed; nothing outlives the app |
| `CommitsStayCurrent` | an action property: only the newest load of a tab is ever committed |
| `Implements` | `TabLoads` refines `TabPromise` |

The only assumptions are those on the constants that `TabLoads` states. The
argument is one inductive invariant, `IInv`, the conjunction of

- `TypeOK`;
- `TabInv`: tabs belong to open windows, IDs and generations in step;
- `ActiveInv`: an active task is live, not cancelled, and of the generation of
  its tab;
- `ShownInv`: the page shown comes from a freed task, older than any load under
  way in its tab;
- `TaskInv`: tasks are made in order, and a live task that nobody cancelled is
  the active one of its tab; an inbox belongs to an open tab set;
- `PageInv`: where a task is determines whether its page is its own or shown;
- `LoaderInv`: what the loader's position says of the task in its hands and of
  the loads it has still to visit;
- `StopInv`: what is left once the app stops.

None of the properties is inductive alone. That `slot->active_task` does not
dangle, for instance, needs that a load the pump frees is either the active one
of its tab, which the pump settles in the same step, or was cancelled before,
and that is `TaskInv`. There is
one lemma per action, `NextInv` collects them, and `PumpEffect` states once what
the longest handler does to each tab. `Implements` needs four lemmas that name
the abstract step of an operation: `NewTabOpens`, `NavigateAsks`, `PumpSettles`,
`CloseWindowCloses`; every other action stutters.

`BookmarksProofs` proves, for every set of processes and of URLs:

| Theorem | Statement |
|---|---|
| `TypeCorrect` | the type invariant |
| `CrashSafety` | no file that a power failure can leave is torn, and a malformed one is the user's own |
| `MemoryFollowsFile` | the process that loaded or replaced the file last has its content in memory, except between the rename and the end of the call |
| `BadFileStays` | an action property: no step changes a malformed file |

Here too the properties are not inductive. What is renamed is whole because a
process that may rename has fsynced the very collection it is about to have
(`ToggleInv`); a malformed file is safe because nobody who saw it has a path
(`BadInv`) and a power failure can bring back nothing else (`DiskInv`). The only
assumption is that the placeholder for "no URL" is no URL.

`TabHistoryProofs` proves, for all documents, fragments and history lengths, the
type invariant (`TypeCorrect`), that the current entry is the page shown
(`EntryIsPage`), that a commit leaves what was announced, in the spelling of
`tai_url_string` (`AnnouncementHolds`),
and that no back entry is lost (`BackEntriesStay`, an action property, as is the
one before). The invariant adds to `CurrentEntryIsPage` that without an entry
there is no page and that a pending navigation has room left in the array:
without the second, `append_url` could be refused at the commit of a load that
was announced. The recorded finding (6) does not contradict any of this: a
traversal that lost its target ends the browser, it commits nothing wrong.

`XhrJobsProofs` proves, for every set of pages and any number of requests:

| Theorem | Statement |
|---|---|
| `TypeCorrect` | the type invariant; at most two references to a fetch |
| `FetchesAreCounted` | a fetch lives as long as its page lists it or the loader has its job |
| `WalkIsSafe` | what `tai_page_run_tasks` keeps of the list stays good |
| `AnsweredOnce` | one answer at most, and none to a page that is gone |
| `ExitIsClean` | no job and no fetch outlives the loader and the app |

`ListInv` says that a fetch is on one list, once, in the order of sending;
`FetchInv` who holds it and what has happened to it, by the place of its job;
`PageInv` which thread runs scripts of which page; `StopInv` in which stages of
the loader a job can still be handed out. Whatever thread does it, a step does
one of five things to fetches (sends one, lets one go, delivers one, moves jobs,
ends jobs), and each has its lemma.

`HttpProofs` proves, for every set of URLs, hosts, requests and cookies and every
limit, `TypeCorrect`, `HeadersAlwaysFit`, `CacheStaysSound` and `HttpOnlyStays`
(an action property). The headers of a hop come from the jar at the moment it
starts; the invariant says that a cookie is filed under its host (`JarInv`),
what is known of a request in each phase (`RequestInv`) and that entries of the
cache were stored in the past (`CacheInv`). `Hops` types the headers as well.

`PagesProofs` proves, for every document the parser may hand over, any ids, timers
and limits:

| Theorem | Statement |
|---|---|
| `TypeCorrect` | the type invariant of both modules; the document stays a tree |
| `FocusStaysInDocument` | the focus is in the document at every step of every script |
| `IdleFrameStaysCurrent` | an idle page has the layout of its document |
| `IdGlobalsStayCurrent` | under the name of an id a script finds its first element, or what it or the language has put there, unless the last resync was cut short |
| `TimersStayMatched` | timers and callbacks have the same handles, kind by kind, but for calls that did one half, and those left none with both |
| `TimersStayInOrder` | timers run by their due times (an action property) |
| `ScriptsStayBounded` | the deadline bounds every entry |

The two halves hardly meet. `JsInv` is about the clock, the entry and the timers,
and every step of a page is one of a few steps for it (`JsStep`). `TreeInv` says
that `children` and `parent` agree and that no node is above itself, which is
what an insertion must preserve (`tai_node_insert_before` refuses an ancestor);
`FocusInv`, `FrameInv` and `TaskInv` say what a page keeps of the tree, while a
handler runs and after. The ancestors of a node are the least set that is closed
under `parent` (`Upward`), not a recursive walk, so that what holds of them is
proved from sets alone: a minimal counterexample (`WFMin`) stands where a paper
proof would use induction. The assumption `FirstTreeAssumption` is that the
parser delivers a tree: no node is the child of two, and there is a level that
grows from parent to child. The others say what the constants range over, and
that the placeholder for "no handler" is no handler.

`WindowsProofs` proves, for any number of windows, tabs, URLs and sizes:

| Theorem | Statement |
|---|---|
| `TypeCorrect` | the type invariant |
| `ViewportStaysFit` | pages are sized for the area the chrome leaves, also when a tab unwraps the strip |
| `TypingStays` | text input is on for a focused input |
| `DraftStaysWithUrl` | a draft stands over the URL its tab shows |
| `PresentedStaysCurrent` | a window shows what it should |

The properties speak of the moments when the loop waits; the invariant must hold
in between. `WindowOK` is what holds of every window at any time: what the flags
do not name is drawn as it should be, text input follows the focus, and a draft
belongs to the URL that `AddressWatch` last saw in its tab. `FramedOK` holds of a
window that has had its frame, and when the loop waits every window has
(`WaitingIsFramed`). Each of the eighteen handlers has one lemma that it is an
`Effect`: it may change the view of its window only with the flag that draws it,
and begin a draft only over the URL shown. `EffectHolds` shows once that an
effect keeps the invariant, `FrameHolds` that a frame makes up for what the flags
left. What a window may show although it is stale, the star of another window
with the same URL, is in `Starred` and `ChromeStays`.

`PageLoadsProofs` proves, for every set of loads and any number of resources:

| Theorem | Statement |
|---|---|
| `TypeCorrect` | the type invariant; the network's requests stay a list |
| `ScriptsNeverNest` | no page is applied inside another |
| `RequestsStayOwned` | the network has exactly the requests that loads list and count, and a load ends once |
| `OrderIsKept` | resources take effect in document order, all of them for a page that is delivered |

The three properties need each other. A nested poll completes no resource since
`Dispatchable` leaves it the jobs and synchronous requests alone; that no such
request is left of an earlier script is `OwnsRequests` (one waits only while its
page is on the stack and waits); and that a page on the stack has no request of
its own in flight, so that nothing can come to change its answers, is `StackOK`,
which follows from `WaitsRight`: the count is that of the list, and the document's
request is alone on it. `StackOK` also says which resources have had their effect
by the place the page is at (`Past`), from which `InOrder` is kept. Steps that
touch no load are covered by one lemma (`QuietHolds`), and in the others every
load but one is as it was (`OtherHolds`).

Every proof rests only on the named assumptions of its module, which TLC evaluates
in the runs. Those called `NoneAssumption` say that a placeholder is not one of
the values it stands beside.

## 5. What is only model-checked

Liveness, since it depends on fairness and ENABLED, which the prover does not
handle: the properties of the three `_live` runs. Every invariant and every
action property of a passing run is proved, and so is the refinement of
`TabPromise`.

What a fold over a sequence computes for sequences of every length cannot be
proved, as the induction it needs is out of the prover's reach. The definitions
the proofs use are therefore stated by what they select: `RemoveAt` of the index
that is found, the least closed set, `CHOOSE` of the first element.

## 6. Findings

`TabHistory_traversal`: `docs/architecture/native-runtime.md:168` says "a
Back/Forward traversal keeps its target index". Take the history [A, B, C] with
B shown. The user presses Forward: C is loading, B still shown. A click on a
link `#f` in B records a fragment entry and `append_url` drops what follows B.
When C arrives, its index is not there any more or names another URL;
`tai_session_commit_history` refuses it, `tai_tabset_pump` returns false,
`window_frame` fails and `run_windows` closes the browser. The test suite
covers a fragment click and a traversal, but not one during the other.

That Back during a pending navigation drops the provisional entry is not a
finding: `docs/history-plan.md` says so.

Smaller differences between the code and what is said of it, met while modelling
and left without a run, since each of them heals within a turn or two of the loop
or has no effect a user would notice:

- `docs/architecture/native-runtime.md:71` ties text input to what has the focus.
  `refresh_text_input` runs after events only: when a commit or a page task takes
  the focus away, or `tai_pres_address_follow_view` drops a focused draft, text
  input stays started until the window's next event. `TypingIsNeverLost` therefore
  states the direction that loses input.
- `wait_timeout` "waits for input at most until the next due animation frame or
  page task" (`presentation_tabs.c:593`), but `window_frame` asks for the next task
  before it runs the animation frame. A timer that the frame's callback arms is
  not counted; the 16 ms cap bounds the delay.
- The star of a window that shows the same URL as the window whose star was
  clicked stays as drawn until its chrome is painted again
  (`PresentedIsCurrent` allows for it: `touched`).
- A script may put the root element of the document into an element that is in
  no document: `tai_node_insert_before` does not refuse it. `node_connected` is
  false for every node from then on. `FocusIsInDocument` says "below the root".
- A resync of the id globals that the deadline interrupts, or that runs out of
  memory, leaves them half renamed until the next mutation of ids (`HalfSynced`). A
  variable it made without noting it in `ID_GLOBALS` is from then on a name that is
  taken, and stays on its element until a script deletes it.
- `setTimeout` and `setInterval` store the callback first. When the call into C then
  throws, for a delay that JSON cannot write, the callback stays in its table without a
  timer. `clearInterval([3])` drops the callback of interval 3 and leaves it ticking for
  nothing, `clearInterval(3.5)` stops it and keeps its callback. Neither runs a
  callback that was cleared (`TimersMatchCallbacks`).

## 7. What is not modelled, and why

Layout, rasterization and the conversion of values between C and QuickJS are data
and have little control of their own, as have the HTML parser, selector matching
and the parsing of URLs, which are functions of strings. `external.c`, `trace.c`,
`main.c` and `core.c` are short and sequential. `visited.c` is a set that only
grows. `scheduler.c` is a library that only its tests call. `presentation.c` shows
one page without tabs, and the browser does not call it. Failed allocations that
refuse an operation before it has changed anything are left out; those the code
survives half-way are in the actions. The synchronous API of `session.c`
(`tai_session_navigate` and its like) is for tests and screenshots; the windows
do not call it.

## 8. Plan

1. The sorted array of the bookmarks with its reference definition (`lower_bound`,
   the items written, the array moved, the test of `load_file`).
