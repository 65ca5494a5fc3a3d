------------------------------ MODULE TabLoads ------------------------------
(***************************************************************************)
(* The loads of the browser's tabs: the SDL owner thread, which owns the   *)
(* windows, tab slots and sessions, and the one loader thread, which owns  *)
(* the network and every page until it is committed (src/tabset.c).        *)
(*                                                                         *)
(* A load task goes through app->queued, the loader's local variable,      *)
(* app->active_loads, app->completed and the inbox of one tab set; loc     *)
(* says where it is.  app->queued is first in, first out and tasks are     *)
(* numbered as they are pushed, so its head is its smallest number; the    *)
(* loader pushes on the front of active_loads, so a walk of that list goes *)
(* from the largest number down.                                           *)
(*                                                                         *)
(* Abstracted: the URL, markup and visited snapshot of a task; the history *)
(* of a session (module TabHistory); XMLHttpRequest jobs, which share the  *)
(* loader's loop (module XhrJobs).                                         *)
(***************************************************************************)
EXTENDS Naturals, FiniteSets

CONSTANTS
    Windows,    \* the tab sets the app can have, one per window
    MaxTabs,    \* TAI_MAX_TABS, the tabs of one tab set
    MaxTabIds,  \* bound: tab IDs the app hands out
    MaxTasks,   \* bound: load tasks that are created
    None        \* a NULL pointer

TabIds == 1..MaxTabIds
Tasks == 1..MaxTasks

ASSUME BoundsAssumption ==
    /\ MaxTabs \in Nat \ {0}
    /\ MaxTabIds \in Nat
    /\ MaxTasks \in Nat
    /\ None \notin Windows
    /\ None \notin Nat

VARIABLES
    windows,        \* app->tabsets, the registry
    owner,          \* the tab set whose slots hold the tab ID
    active,         \* tabs->active, as the ID of the tab it selects
    gen,            \* slot->generation
    activeTask,     \* slot->active_task
    shown,          \* the task that made the page of slot->session
    nextTab,        \* app->next_tab_id
    nextTask,       \* the task allocated next
    tabOf,          \* task->tab_id
    genOf,          \* task->generation
    cancelled,      \* the tasks with task->cancelled set
    loc,            \* which list or thread holds the task
    page,           \* the page the task's load made, and who owns it
    stopping,       \* app->stopping
    sdl,            \* the SDL thread inside tai_browser_app_destroy
    pc,             \* the loader in loader_main
    cur,            \* loader_main's task
    stopSeen,       \* loader_main's stopping, read when it took the task
    networkFailed,  \* loader.network_failed
    scan            \* the loads cancel_or_reap_loads has still to visit

uiVars == <<windows, owner, active, gen, activeTask, shown, nextTab, nextTask>>
inputVars == <<tabOf, genOf>>
loaderVars == <<pc, cur, stopSeen, networkFailed, scan>>
vars == <<uiVars, inputVars, cancelled, loc, page, stopping, sdl, loaderVars>>

Locations == {"unborn", "queued", "taken", "active", "loaded", "published",
              "inbox", "freed"}
PageStates == {"none", "ready", "shown", "destroyed"}
LoaderPlaces == {"wait", "start", "loading", "poll", "reap", "check", "exited"}

TypeOK ==
    /\ windows \subseteq Windows
    /\ owner \in [TabIds -> Windows \cup {None}]
    /\ active \in [Windows -> TabIds \cup {None}]
    /\ gen \in [TabIds -> Nat]
    /\ activeTask \in [TabIds -> Tasks \cup {None}]
    /\ shown \in [TabIds -> Tasks \cup {None}]
    /\ nextTab \in 1..(MaxTabIds + 1)
    /\ nextTask \in 1..(MaxTasks + 1)
    /\ tabOf \in [Tasks -> TabIds \cup {None}]
    /\ genOf \in [Tasks -> Nat]
    /\ cancelled \subseteq Tasks
    /\ loc \in [Tasks -> Locations]
    /\ page \in [Tasks -> PageStates]
    /\ stopping \in BOOLEAN
    /\ sdl \in {"running", "joining", "done"}
    /\ pc \in LoaderPlaces
    /\ cur \in Tasks \cup {None}
    /\ stopSeen \in BOOLEAN
    /\ networkFailed \in BOOLEAN
    /\ scan \subseteq Tasks

Init ==
    /\ windows = {}
    /\ owner = [tab \in TabIds |-> None]
    /\ active = [w \in Windows |-> None]
    /\ gen = [tab \in TabIds |-> 0]
    /\ activeTask = [tab \in TabIds |-> None]
    /\ shown = [tab \in TabIds |-> None]
    /\ nextTab = 1
    /\ nextTask = 1
    /\ tabOf = [t \in Tasks |-> None]
    /\ genOf = [t \in Tasks |-> 0]
    /\ cancelled = {}
    /\ loc = [t \in Tasks |-> "unborn"]
    /\ page = [t \in Tasks |-> "none"]
    /\ stopping = FALSE
    /\ sdl = "running"
    /\ pc = "wait"
    /\ cur = None
    /\ stopSeen = FALSE
    /\ networkFailed = FALSE
    /\ scan = {}

Queued == {t \in Tasks : loc[t] = "queued"}
\* app->active_loads; a loaded task stays on it until it is reaped.
ActiveLoads == {t \in Tasks : loc[t] \in {"active", "loaded"}}
Live(t) == loc[t] \notin {"unborn", "freed"}
TabsOf(w) == {tab \in TabIds : owner[tab] = w}

-----------------------------------------------------------------------------
(* The SDL owner thread.                                                   *)

\* tai_tabset_create_in_app
OpenWindow(w) ==
    /\ sdl = "running"
    /\ w \notin windows
    /\ windows' = windows \cup {w}
    /\ active' = [active EXCEPT ![w] = None]
    /\ UNCHANGED <<owner, gen, activeTask, shown, nextTab, nextTask, inputVars,
                   cancelled, loc, page, stopping, sdl, loaderVars>>

\* task_create and the push on app->queued.
PushTask(tab, generation) ==
    /\ nextTask \in Tasks
    /\ nextTask' = nextTask + 1
    /\ tabOf' = [tabOf EXCEPT ![nextTask] = tab]
    /\ genOf' = [genOf EXCEPT ![nextTask] = generation]
    /\ loc' = [loc EXCEPT ![nextTask] = "queued"]
    /\ gen' = [gen EXCEPT ![tab] = generation]
    /\ activeTask' = [activeTask EXCEPT ![tab] = nextTask]

\* append_new_slot, for tai_tabset_start, _new_tab and _open_link.
NewTab(w) ==
    /\ sdl = "running"
    /\ w \in windows
    /\ Cardinality(TabsOf(w)) < MaxTabs
    /\ nextTab \in TabIds
    /\ PushTask(nextTab, 1)
    /\ owner' = [owner EXCEPT ![nextTab] = w]
    /\ active' = [active EXCEPT ![w] = nextTab]
    /\ nextTab' = nextTab + 1
    /\ UNCHANGED <<windows, shown, cancelled, page, stopping, sdl, loaderVars>>

SupersedeNothing(tab) == UNCHANGED cancelled

\* task_publish: the load that tab replaces is told to stop.
Supersede(tab) ==
    cancelled' = cancelled \cup {t \in Tasks : t = activeTask[tab]}

\* navigate_url or tai_tabset_history with an available target: task_create
\* and task_publish, which cancels the load it replaces.
Navigate(w) ==
    /\ sdl = "running"
    /\ ~stopping
    /\ w \in windows
    /\ active[w] # None
    /\ PushTask(active[w], gen[active[w]] + 1)
    /\ Supersede(active[w])
    /\ UNCHANGED <<windows, owner, active, shown, nextTab, page, stopping, sdl,
                   loaderVars>>

\* tai_tabset_select
Select(w, tab) ==
    /\ sdl = "running"
    /\ w \in windows
    /\ owner[tab] = w
    /\ active[w] # tab
    /\ active' = [active EXCEPT ![w] = tab]
    /\ UNCHANGED <<windows, owner, gen, activeTask, shown, nextTab, nextTask,
                   inputVars, cancelled, loc, page, stopping, sdl, loaderVars>>

AcceptsAnyGeneration(t) == owner[tabOf[t]] # None

\* The test tai_tabset_pump makes before it commits a completion.
Accepts(t) ==
    /\ gen[tabOf[t]] = genOf[t]
    /\ activeTask[tabOf[t]] = t

\* route_completions: what this pump takes from app->completed and w's inbox...
Batch(w) ==
    {t \in Tasks : /\ loc[t] \in {"published", "inbox"}
                   /\ owner[tabOf[t]] = w}
\* ...and the completions whose window is gone.
Orphans == {t \in Tasks : loc[t] = "published" /\ owner[tabOf[t]] = None}

\* The pages and tasks after a pump that commits the loads in commits.
ReleaseKeepingStale(released, commits) ==
    page' = [t \in Tasks |->
                IF t \in commits THEN "shown"
                ELSE IF t \in {shown[tabOf[c]] : c \in commits} THEN "destroyed"
                ELSE page[t]]

\* The pages once the completions in released are freed: a committed page is
\* the session's and replaces its old one, any other page is destroyed.
Release(released, commits) ==
    page' = [t \in Tasks |->
                IF t \in commits THEN "shown"
                ELSE IF \/ t \in released /\ page[t] = "ready"
                        \/ t \in {shown[tabOf[c]] : c \in commits}
                THEN "destroyed"
                ELSE page[t]]

SettleCommittedOnly(accepted, commits) ==
    activeTask' = [tab \in TabIds |->
        IF \E t \in commits : tabOf[t] = tab THEN None ELSE activeTask[tab]]

\* An accepted completion settles its tab's load, committed or not.
SettleTabs(accepted, commits) ==
    activeTask' = [tab \in TabIds |->
        IF \E t \in accepted : tabOf[t] = tab THEN None ELSE activeTask[tab]]

\* tai_tabset_pump: routes every published completion, then commits or drops
\* each one of w's inbox.  A commit that fails (a page resize, an allocation,
\* or commit_history's refusal) drops the page but still settles the load.
Pump(w) ==
    /\ sdl = "running"
    /\ w \in windows
    /\ Batch(w) # {} \/ \E t \in Tasks : loc[t] = "published"
    /\ \E failed \in SUBSET {t \in Batch(w) : Accepts(t) /\ page[t] = "ready"} :
        LET accepted == {t \in Batch(w) : Accepts(t)}
            commits == {t \in accepted \ failed : page[t] = "ready"}
        IN  /\ SettleTabs(accepted, commits)
            /\ shown' = [tab \in TabIds |->
                    IF \E t \in commits : tabOf[t] = tab
                    THEN CHOOSE t \in commits : tabOf[t] = tab
                    ELSE shown[tab]]
            /\ Release(Batch(w) \cup Orphans, commits)
    /\ loc' = [t \in Tasks |->
                CASE t \in Batch(w) \cup Orphans -> "freed"
                  [] t \notin Batch(w) \cup Orphans /\ loc[t] = "published"
                        -> "inbox"
                  [] OTHER -> loc[t]]
    /\ UNCHANGED <<windows, owner, active, gen, nextTab, nextTask, inputVars,
                   cancelled, stopping, sdl, loaderVars>>

CloseForgettingCancel(w) == UNCHANGED cancelled

\* tai_tabset_destroy asks the loader to stop the window's loads.
CancelLoadsOf(w) ==
    cancelled' = cancelled \cup
        {t \in Tasks : \E tab \in TabsOf(w) : activeTask[tab] = t}

\* tai_tabset_destroy: unregisters the tab set and frees its inbox and
\* sessions without waiting for the loader, which keeps its tasks.
CloseWindow(w) ==
    /\ sdl = "running"
    /\ w \in windows
    /\ CancelLoadsOf(w)
    /\ windows' = windows \ {w}
    /\ owner' = [tab \in TabIds |-> IF owner[tab] = w THEN None ELSE owner[tab]]
    /\ active' = [active EXCEPT ![w] = None]
    /\ activeTask' = [tab \in TabIds |->
                        IF owner[tab] = w THEN None ELSE activeTask[tab]]
    /\ shown' = [tab \in TabIds |-> IF owner[tab] = w THEN None ELSE shown[tab]]
    /\ LET inbox == {t \in Tasks : loc[t] = "inbox" /\ owner[tabOf[t]] = w}
       IN  /\ loc' = [t \in Tasks |-> IF t \in inbox THEN "freed" ELSE loc[t]]
           /\ page' = [t \in Tasks |->
                  IF \/ t \in inbox /\ page[t] = "ready"
                     \/ \E tab \in TabsOf(w) : shown[tab] = t
                  THEN "destroyed" ELSE page[t]]
    /\ UNCHANGED <<gen, nextTab, nextTask, inputVars, stopping, sdl, loaderVars>>

\* tai_browser_app_destroy up to pthread_join; tabset.h asks the caller to
\* destroy every tab set first.
DestroyApp ==
    /\ sdl = "running"
    /\ windows = {}
    /\ sdl' = "joining"
    /\ stopping' = TRUE
    /\ cancelled' = cancelled \cup Queued
    /\ UNCHANGED <<uiVars, inputVars, loc, page, loaderVars>>

\* The join returns; completions_free and the release of app->queued.
JoinLoader ==
    /\ sdl = "joining"
    /\ pc = "exited"
    /\ sdl' = "done"
    /\ loc' = [t \in Tasks |->
                 IF loc[t] \in {"published", "queued"} THEN "freed" ELSE loc[t]]
    /\ page' = [t \in Tasks |->
                  IF loc[t] = "published" /\ page[t] = "ready"
                  THEN "destroyed" ELSE page[t]]
    /\ UNCHANGED <<uiVars, inputVars, cancelled, stopping, loaderVars>>

-----------------------------------------------------------------------------
(* The loader thread, one pass of loader_main's loop.                      *)

\* The end of the condition wait, and queued_take in the same critical
\* section.
TakeTask ==
    /\ pc = "wait"
    /\ stopSeen' = stopping
    /\ \/ /\ \E t \in Queued :
             /\ \A other \in Queued : t <= other
             /\ cur' = t
             /\ loc' = [loc EXCEPT ![t] = "taken"]
          /\ pc' = "start"
       \/ /\ Queued = {}
          /\ stopping \/ ActiveLoads # {}
          /\ pc' = "poll"
          /\ UNCHANGED <<cur, loc>>
    /\ UNCHANGED <<uiVars, inputVars, cancelled, page, stopping, sdl,
                   networkFailed, scan>>

\* completion_append for the task in hand, whose load made no page unless
\* result is "ready".
PublishCurrent(result) ==
    /\ loc' = [loc EXCEPT ![cur] = "published"]
    /\ page' = [page EXCEPT ![cur] = result]
    /\ cur' = None
    /\ pc' = "poll"

\* load_task_start's first test of the cancelled flag.
StartTask ==
    /\ pc = "start"
    /\ \/ /\ networkFailed \/ cur \in cancelled
          /\ PublishCurrent("none")
       \/ /\ ~networkFailed /\ cur \notin cancelled
          /\ pc' = "loading"
          /\ UNCHANGED <<loc, page, cur>>
    /\ UNCHANGED <<uiVars, inputVars, cancelled, stopping, sdl, stopSeen,
                   networkFailed, scan>>

\* A poll, of whatever kind, may fail for good.
NetworkMayFail == networkFailed' \in {networkFailed, TRUE}

\* The load ended inside load_task_start: internal markup, a document that
\* needed no network, or a failure before anything was sent.
LoadAtOnce ==
    /\ pc = "loading"
    /\ \E result \in {"none", "ready"} : PublishCurrent(result)
    /\ NetworkMayFail
    /\ UNCHANGED <<uiVars, inputVars, cancelled, stopping, sdl, stopSeen, scan>>

\* load_task_start's second test of the flag, once the load is under way.
LoadAsync ==
    /\ pc = "loading"
    /\ \/ cur \in cancelled /\ PublishCurrent("none")
       \/ /\ cur \notin cancelled
          /\ loc' = [loc EXCEPT ![cur] = "active"]
          /\ cur' = None
          /\ pc' = "poll"
          /\ UNCHANGED page
    /\ NetworkMayFail
    /\ UNCHANGED <<uiVars, inputVars, cancelled, stopping, sdl, stopSeen, scan>>

\* tai_network_poll: page_load_done runs for the loads that finish, with a
\* page or without one, and the poll itself may fail for good.
PollNetwork ==
    /\ pc = "poll"
    /\ ActiveLoads # {}
    /\ \E finished \in SUBSET {t \in Tasks : loc[t] = "active"} :
        /\ loc' = [t \in Tasks |-> IF t \in finished THEN "loaded" ELSE loc[t]]
        /\ \E pages \in SUBSET finished :
              page' = [t \in Tasks |-> IF t \in pages THEN "ready" ELSE page[t]]
    /\ NetworkMayFail
    /\ scan' = ActiveLoads
    /\ pc' = "reap"
    /\ UNCHANGED <<uiVars, inputVars, cancelled, stopping, sdl, cur, stopSeen>>

\* No load is under way: a poll, if there is one, is for XMLHttpRequests.
SkipPoll ==
    /\ pc = "poll"
    /\ ActiveLoads = {}
    /\ NetworkMayFail
    /\ pc' = "check"
    /\ UNCHANGED <<uiVars, inputVars, cancelled, loc, page, stopping, sdl, cur,
                   stopSeen, scan>>

\* A pass of the loop for XMLHttpRequests alone ends where it began, unless
\* its poll fails.
XhrPass ==
    /\ pc = "wait"
    /\ ~stopping /\ Queued = {} /\ ActiveLoads = {}
    /\ networkFailed' = TRUE
    /\ UNCHANGED <<uiVars, inputVars, cancelled, loc, page, stopping, sdl, pc,
                   cur, stopSeen, scan>>

ReapLoadedOnly(t) == loc[t] = "loaded"

ReapIgnoringCancel(t) == loc[t] = "loaded" \/ networkFailed \/ stopSeen

\* The load is over or, when it must stop, is cancelled on the spot.
IsReaped(t) == loc[t] = "loaded" \/ networkFailed \/ stopSeen \/ t \in cancelled

\* cancel_or_reap_loads, one task of the list.
ReapTask ==
    /\ pc = "reap"
    /\ \E t \in scan :
        /\ \A other \in scan : other <= t
        /\ scan' = scan \ {t}
        /\ pc' = IF scan = {t} THEN "check" ELSE "reap"
        /\ \/ IsReaped(t) /\ loc' = [loc EXCEPT ![t] = "published"]
           \/ ~IsReaped(t) /\ UNCHANGED loc
    /\ UNCHANGED <<uiVars, inputVars, cancelled, page, stopping, sdl, cur,
                   stopSeen, networkFailed>>

ExitWhenStopping == stopping

\* done, computed in the critical section that ends the loop.
ExitCondition == stopping /\ Queued = {} /\ ActiveLoads = {}

CheckDone ==
    /\ pc = "check"
    /\ pc' = IF ExitCondition THEN "exited" ELSE "wait"
    /\ UNCHANGED <<uiVars, inputVars, cancelled, loc, page, stopping, sdl, cur,
                   stopSeen, networkFailed, scan>>

-----------------------------------------------------------------------------
Loader ==
    \/ TakeTask \/ StartTask \/ LoadAtOnce \/ LoadAsync \/ PollNetwork
    \/ SkipPoll \/ ReapTask \/ CheckDone

\* The process is gone once the app is.
Terminated == sdl = "done" /\ UNCHANGED vars

Next ==
    \/ \E w \in Windows :
        \/ OpenWindow(w) \/ NewTab(w) \/ Navigate(w) \/ Pump(w)
        \/ CloseWindow(w)
        \/ \E tab \in TabIds : Select(w, tab)
    \/ DestroyApp \/ JoinLoader
    \/ Loader \/ XhrPass
    \/ Terminated

Spec == Init /\ [][Next]_vars

-----------------------------------------------------------------------------
(* Fairness.  The loader thread runs.  Every iteration of run_windows      *)
(* handles one event and then pumps every open window, so windows cannot   *)
(* come and go without pumps (SF); it returns to tai_browser_app_destroy   *)
(* when no window is left.  The user is not fair.                          *)
ThreadFairness ==
    /\ WF_vars(Loader)
    /\ \A w \in Windows : SF_vars(Pump(w))
    /\ WF_vars(DestroyApp)
    /\ WF_vars(JoinLoader)

\* Every transfer ends: CURLOPT_TIMEOUT_MS bounds each one and a redirect
\* chain ends at its limit, so a poll in time finishes each load.
FinishLoad(t) == PollNetwork /\ loc[t] = "active" /\ loc'[t] = "loaded"
NetworkFairness == \A t \in Tasks : SF_vars(FinishLoad(t))

FairSpec == Spec /\ ThreadFairness

-----------------------------------------------------------------------------
(* Properties.                                                             *)

\* task_publish, tai_tabset_destroy and tai_tabset_history follow
\* slot->active_task: it always names a task that is not freed yet, made for
\* that tab at its current generation.
ActiveTaskIsLive ==
    \A tab \in TabIds : activeTask[tab] # None =>
        /\ owner[tab] \in windows
        /\ Live(activeTask[tab])
        /\ tabOf[activeTask[tab]] = tab
        /\ genOf[activeTask[tab]] = gen[tab]

\* A load the loader still works on and was not told to stop is the current
\* load of an open tab: superseding a load or closing its window always
\* reaches the loader, wherever the task was at that moment.
UnwantedLoadsAreCancelled ==
    \A t \in Tasks : Live(t) /\ t \notin cancelled =>
        tabOf[t] # None /\ activeTask[tabOf[t]] = t

\* Every page has one owner: the completion that carries it, or the session
\* of its own tab.  A page nobody owns any more is destroyed (not leaked, not
\* freed twice), however its tab, window or app went away.
PagesHaveOneOwner ==
    \A t \in Tasks :
        /\ page[t] = "ready" => loc[t] \in {"loaded", "published", "inbox"}
        /\ page[t] = "shown" <=> tabOf[t] # None /\ shown[tabOf[t]] = t
        /\ page[t] = "shown" => owner[tabOf[t]] \in windows

\* When the loader has left its loop no task is in its hands, and when the
\* app is gone every task and page is.
NothingOutlivesTheApp ==
    /\ pc = "exited" => \A t \in Tasks :
           loc[t] \notin {"queued", "taken", "active", "loaded"}
    /\ sdl = "done" => \A t \in Tasks :
           loc[t] \in {"unborn", "freed"} /\ page[t] \in {"none", "destroyed"}

\* A session only ever replaces its page by the page of the newest request
\* made in that tab, never by one that was superseded or whose window closed,
\* in whatever order the loads finish.
CommitsAreCurrent ==
    [][\A tab \in TabIds : shown'[tab] # shown[tab] /\ shown'[tab] # None =>
          LET t == shown'[tab]
          IN  /\ tabOf[t] = tab
              /\ genOf[t] = gen[tab]
              /\ t \notin cancelled
              /\ shown[tab] # None => genOf[shown[tab]] < genOf[t]]_vars

\* If transfers end, pages never stay "loading" for ever: a tab's load is
\* settled by its result or by a newer request or the closing of its window.
LoadsSettle ==
    NetworkFairness => \A t \in Tasks :
        (\E tab \in TabIds : activeTask[tab] = t)
            ~> (\A tab \in TabIds : activeTask[tab] # t)

\* A cancelled task is freed even if the network never answers.
CancelledTasksAreFreed ==
    \A t \in Tasks : t \in cancelled /\ Live(t) ~> ~Live(t)

\* Closing the browser never waits for the network: the loader exits and is
\* joined.
ShutdownFinishes == stopping ~> sdl = "done"

-----------------------------------------------------------------------------
\* The tabs as their user sees them.
Promise == INSTANCE TabPromise WITH
    open <- {tab \in TabIds : owner[tab] # None},
    asked <- gen,
    loading <- {tab \in TabIds : activeTask[tab] # None},
    showing <- [tab \in TabIds |->
                  IF shown[tab] = None THEN 0 ELSE genOf[shown[tab]]]

\* With all its queues, the loader thread and cancellation, TabLoads does what
\* TabPromise says of each tab.
KeepsPromise == Promise!Spec
=============================================================================
