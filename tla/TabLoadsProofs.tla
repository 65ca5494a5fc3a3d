--------------------------- MODULE TabLoadsProofs ---------------------------
(***************************************************************************)
(* Proofs about TabLoads, for every set of windows and every bound.        *)
(*                                                                         *)
(* The safety properties of TabLoads are not inductive: why a cancelled    *)
(* load is never committed depends on where each task is, on which page    *)
(* each tab shows and on what the loader has in hand.  IInv adds those     *)
(* facts, one definition per actor or list they speak of.                  *)
(***************************************************************************)
EXTENDS TabLoads, TLAPS

-----------------------------------------------------------------------------
(* The inductive invariant.                                                *)

\* The slots of the windows.
TabInv ==
    /\ \A tab \in TabIds :
        /\ owner[tab] # None => owner[tab] \in windows /\ tab < nextTab
        /\ owner[tab] = None => activeTask[tab] = None /\ shown[tab] = None
        /\ tab >= nextTab => gen[tab] = 0
        /\ tab < nextTab => gen[tab] > 0
    /\ \A w \in Windows : active[w] # None => owner[active[w]] = w

\* slot->active_task.
ActiveInv ==
    \A tab \in TabIds : activeTask[tab] # None =>
        /\ Live(activeTask[tab])
        /\ tabOf[activeTask[tab]] = tab
        /\ genOf[activeTask[tab]] = gen[tab]
        /\ activeTask[tab] \notin cancelled

\* The page of slot->session: older than any load under way in its tab.
ShownInv ==
    \A tab \in TabIds : shown[tab] # None =>
        /\ tabOf[shown[tab]] = tab
        /\ loc[shown[tab]] = "freed"
        /\ page[shown[tab]] = "shown"
        /\ genOf[shown[tab]] \in 1..gen[tab]
        /\ activeTask[tab] # None => genOf[shown[tab]] < gen[tab]

\* The tasks, made in order, and wanted until they are cancelled or freed.
TaskOK(t) ==
    /\ t >= nextTask <=> loc[t] = "unborn"
    /\ loc[t] = "unborn" =>
        tabOf[t] = None /\ page[t] = "none" /\ t \notin cancelled
    /\ loc[t] # "unborn" =>
        tabOf[t] \in TabIds /\ tabOf[t] < nextTab /\ genOf[t] > 0
    /\ Live(t) /\ t \notin cancelled => activeTask[tabOf[t]] = t
    /\ loc[t] = "inbox" => owner[tabOf[t]] # None
TaskInv == \A t \in Tasks : TaskOK(t)

PageInv ==
    \A t \in Tasks :
        /\ page[t] = "ready" => loc[t] \in {"loaded", "published", "inbox"}
        /\ page[t] = "shown" => loc[t] = "freed" /\ shown[tabOf[t]] = t

\* loader_main: its task, and the walk of cancel_or_reap_loads.
LoaderInv ==
    /\ cur # None <=> pc \in {"start", "loading"}
    /\ \A t \in Tasks : loc[t] = "taken" <=> cur = t
    /\ scan \subseteq ActiveLoads
    /\ scan # {} <=> pc = "reap"

\* Shutdown.
StopInv ==
    /\ stopping <=> sdl # "running"
    /\ stopping => windows = {}
    /\ pc = "exited" => /\ stopping
                        /\ \A t \in Tasks : loc[t] \notin
                              {"queued", "taken", "active", "loaded"}
    /\ sdl = "done" => /\ pc = "exited"
                       /\ \A t \in Tasks : loc[t] \in {"unborn", "freed"}

IInv ==
    /\ TypeOK
    /\ TabInv
    /\ ActiveInv
    /\ ShownInv
    /\ TaskInv
    /\ PageInv
    /\ LoaderInv
    /\ StopInv

-----------------------------------------------------------------------------
\* tai_browser_app_create leaves no window, no task and an idle loader.
LEMMA InitInv == Init => IInv
  <1> SUFFICES ASSUME Init PROVE IInv
    OBVIOUS
  <1> USE BoundsAssumption DEF Init
  <1>1. TypeOK
    <2>1. /\ windows \subseteq Windows
          /\ owner \in [TabIds -> Windows \cup {None}]
          /\ active \in [Windows -> TabIds \cup {None}]
          /\ activeTask \in [TabIds -> Tasks \cup {None}]
          /\ shown \in [TabIds -> Tasks \cup {None}]
      OBVIOUS
    <2>2. /\ gen \in [TabIds -> Nat]
          /\ tabOf \in [Tasks -> TabIds \cup {None}]
          /\ genOf \in [Tasks -> Nat]
          /\ nextTab \in 1..(MaxTabIds + 1)
          /\ nextTask \in 1..(MaxTasks + 1)
      OBVIOUS
    <2>3. loc \in [Tasks -> Locations] /\ page \in [Tasks -> PageStates]
      BY DEF Locations, PageStates
    <2> QED
      BY <2>1, <2>2, <2>3 DEF TypeOK, LoaderPlaces
  <1>2. TabInv /\ ActiveInv /\ ShownInv
    BY DEF TabInv, ActiveInv, ShownInv, TabIds
  <1>3. TaskInv /\ PageInv
    BY DEF TaskInv, TaskOK, PageInv, Live, Tasks
  <1>4. LoaderInv /\ StopInv
    BY DEF LoaderInv, StopInv, ActiveLoads, Tasks
  <1> QED
    BY <1>1, <1>2, <1>3, <1>4 DEF IInv

-----------------------------------------------------------------------------
(* The steps of the SDL owner thread.                                      *)

LEMMA OpenWindowInv ==
  ASSUME IInv, NEW w \in Windows, OpenWindow(w)
  PROVE  IInv'
  <1> USE BoundsAssumption DEF OpenWindow, IInv, inputVars, loaderVars
  <1>1. TypeOK'
    BY DEF TypeOK
  <1>2. TabInv'
    BY DEF TypeOK, TabInv, TabIds
  <1>3. ActiveInv' /\ ShownInv' /\ TaskInv' /\ PageInv'
    BY DEF ActiveInv, ShownInv, TaskInv, TaskOK, PageInv, Live
  <1>4. LoaderInv' /\ StopInv'
    BY DEF LoaderInv, StopInv, ActiveLoads
  <1> QED
    BY <1>1, <1>2, <1>3, <1>4

LEMMA NewTabInv ==
  ASSUME IInv, NEW w \in Windows, NewTab(w)
  PROVE  IInv'
  <1> USE BoundsAssumption DEF NewTab, PushTask, IInv, loaderVars
  <1>1. TypeOK'
    BY DEF TypeOK, TabIds, Tasks, Locations
  <1>2. TabInv'
    BY DEF TypeOK, TabInv, TabIds
  <1>3. ActiveInv'
    BY DEF TypeOK, ActiveInv, TaskInv, TaskOK, TabInv, Live, TabIds, Tasks
  <1>4. ShownInv'
    BY DEF TypeOK, ShownInv, TaskInv, TaskOK, TabInv, TabIds, Tasks
  <1>5. TaskInv'
    BY DEF TypeOK, TaskInv, TaskOK, TabInv, Live, TabIds, Tasks
  <1>6. PageInv'
    BY DEF TypeOK, PageInv, TaskInv, TaskOK, Tasks
  <1>7. LoaderInv'
    BY DEF TypeOK, LoaderInv, TaskInv, TaskOK, ActiveLoads, Tasks
  <1>8. StopInv'
    BY DEF TypeOK, StopInv, Tasks
  <1> QED
    BY <1>1, <1>2, <1>3, <1>4, <1>5, <1>6, <1>7, <1>8

LEMMA NavigateInv ==
  ASSUME IInv, NEW w \in Windows, Navigate(w)
  PROVE  IInv'
  <1> DEFINE tab == active[w]
  <1> USE BoundsAssumption DEF Navigate, PushTask, Supersede, IInv, loaderVars
  <1>1. tab \in TabIds /\ owner[tab] = w /\ tab < nextTab
    BY DEF TypeOK, TabInv
  <1>2. TypeOK'
    <2>1. gen[tab] + 1 \in Nat /\ nextTask + 1 \in 1..(MaxTasks + 1)
      BY <1>1 DEF TypeOK, Tasks
    <2>2. gen' \in [TabIds -> Nat]
      BY <1>1, <2>1 DEF TypeOK
    <2>3. genOf' \in [Tasks -> Nat]
      BY <1>1, <2>1 DEF TypeOK
    <2> QED
      BY <1>1, <2>1, <2>2, <2>3 DEF TypeOK, Locations
  <1>3. TabInv'
    <2>1. gen[tab] + 1 > 0
      BY <1>1 DEF TypeOK, TabIds
    <2> QED
      BY <1>1, <2>1 DEF TypeOK, TabInv, TabIds
  <1>4. ActiveInv'
    BY <1>1 DEF TypeOK, ActiveInv, TaskInv, TaskOK, TabInv, Live, TabIds, Tasks
  <1>5. ShownInv'
    <2> SUFFICES ASSUME NEW other \in TabIds, shown[other] # None
                 PROVE  /\ tabOf'[shown[other]] = other
                        /\ loc'[shown[other]] = "freed"
                        /\ genOf'[shown[other]] \in 1..gen'[other]
                        /\ activeTask'[other] # None =>
                            genOf'[shown[other]] < gen'[other]
      BY DEF ShownInv
    <2>1. shown[other] \in Tasks /\ shown[other] # nextTask
      BY DEF TypeOK, ShownInv, TaskInv, TaskOK, Tasks
    <2>2. CASE other = tab
      BY <1>1, <2>1, <2>2 DEF TypeOK, ShownInv
    <2>3. CASE other # tab
      BY <1>1, <2>1, <2>3 DEF TypeOK, ShownInv
    <2> QED
      BY <2>2, <2>3
  <1>6. TaskInv'
    <2> SUFFICES ASSUME NEW t \in Tasks PROVE TaskOK(t)'
      BY DEF TaskInv
    <2> TaskOK(t)
      BY DEF TaskInv
    <2>1. CASE t = nextTask
      BY <1>1, <2>1 DEF TypeOK, TaskOK, Live, TabIds, Tasks
    <2>2. CASE t # nextTask
      <3>1. /\ loc'[t] = loc[t] /\ tabOf'[t] = tabOf[t] /\ genOf'[t] = genOf[t]
            /\ nextTask' = nextTask + 1 /\ nextTask \in Nat /\ t \in Nat
        BY <2>2 DEF TypeOK, Tasks
      <3>2. Live(t) /\ t \notin cancelled' => activeTask'[tabOf[t]] = t
        <4> SUFFICES ASSUME Live(t), t \notin cancelled'
                     PROVE  activeTask'[tabOf[t]] = t
          OBVIOUS
        <4>1. t \notin cancelled /\ activeTask[tab] # t
          OBVIOUS
        <4>2. tabOf[t] \in TabIds /\ activeTask[tabOf[t]] = t
          BY <4>1 DEF TaskOK, Live
        <4> QED
          BY <1>1, <4>1, <4>2 DEF TypeOK
      <3>3. t \in cancelled' => t \in cancelled \/ loc[t] # "unborn"
        <4>1. CASE activeTask[tab] = t
          BY <1>1, <4>1 DEF ActiveInv, Live, Tasks
        <4> QED
          BY <4>1
      <3> QED
        BY <2>2, <3>1, <3>2, <3>3 DEF TaskOK, Live
    <2> QED
      BY <2>1, <2>2
  <1>7. PageInv'
    BY <1>1 DEF TypeOK, PageInv, TaskInv, TaskOK, Tasks
  <1>8. LoaderInv'
    BY <1>1 DEF TypeOK, LoaderInv, TaskInv, TaskOK, ActiveLoads, Tasks
  <1>9. StopInv'
    BY <1>1 DEF TypeOK, StopInv, Tasks
  <1> QED
    BY <1>2, <1>3, <1>4, <1>5, <1>6, <1>7, <1>8, <1>9

LEMMA SelectInv ==
  ASSUME IInv, NEW w \in Windows, NEW tab \in TabIds, Select(w, tab)
  PROVE  IInv'
  <1> USE BoundsAssumption DEF Select, IInv, inputVars, loaderVars
  <1>1. TypeOK'
    BY DEF TypeOK
  <1>2. TabInv'
    BY DEF TypeOK, TabInv, TabIds
  <1>3. ActiveInv' /\ ShownInv' /\ TaskInv' /\ PageInv'
    BY DEF ActiveInv, ShownInv, TaskInv, TaskOK, PageInv, Live
  <1>4. LoaderInv' /\ StopInv'
    BY DEF LoaderInv, StopInv, ActiveLoads
  <1> QED
    BY <1>1, <1>2, <1>3, <1>4

Accepted(w) == {t \in Batch(w) : Accepts(t)}

\* The heart of the argument: a completion that the pump accepts is the one
\* load its slot points to, so each tab commits at most one page.
LEMMA AcceptedIsActive ==
  ASSUME IInv, NEW w \in Windows
  PROVE  /\ \A t \in Accepted(w) : /\ t \in Tasks
                                   /\ loc[t] \in {"published", "inbox"}
                                   /\ tabOf[t] \in TabIds
                                   /\ owner[tabOf[t]] = w
                                   /\ genOf[t] = gen[tabOf[t]]
                                   /\ activeTask[tabOf[t]] = t
         /\ \A tab \in TabIds, t \in Accepted(w) :
                tabOf[t] = tab <=> activeTask[tab] = t
  <1>1. TaskInv /\ ActiveInv
    BY DEF IInv
  <1>2. \A t \in Accepted(w) : /\ t \in Tasks
                               /\ loc[t] \in {"published", "inbox"}
                               /\ tabOf[t] \in TabIds
                               /\ owner[tabOf[t]] = w
                               /\ genOf[t] = gen[tabOf[t]]
                               /\ activeTask[tabOf[t]] = t
    BY <1>1 DEF Accepted, Batch, Accepts, TaskInv, TaskOK
  <1>3. \A tab \in TabIds, t \in Accepted(w) :
          tabOf[t] = tab <=> activeTask[tab] = t
    BY <1>1, <1>2, BoundsAssumption DEF ActiveInv, Tasks
  <1> QED
    BY <1>2, <1>3

\* tai_tabset_pump, slot by slot and page by page.
LEMMA PumpEffect ==
  ASSUME IInv, NEW w \in Windows, Pump(w)
  PROVE  \E commits \in SUBSET Accepted(w) :
           /\ activeTask' = [tab \in TabIds |->
                  IF activeTask[tab] \in Accepted(w)
                  THEN None ELSE activeTask[tab]]
           /\ shown' = [tab \in TabIds |->
                  IF activeTask[tab] \in commits
                  THEN activeTask[tab] ELSE shown[tab]]
           /\ Release(Batch(w) \cup Orphans, commits)
  <1> DEFINE accepted == Accepted(w)
  <1>1. PICK failed \in SUBSET {t \in Batch(w) : Accepts(t) /\ page[t] = "ready"} :
          LET commits == {t \in accepted \ failed : page[t] = "ready"}
          IN  /\ SettleTabs(accepted, commits)
              /\ shown' = [tab \in TabIds |->
                    IF \E t \in commits : tabOf[t] = tab
                    THEN CHOOSE t \in commits : tabOf[t] = tab
                    ELSE shown[tab]]
              /\ Release(Batch(w) \cup Orphans, commits)
    BY DEF Pump, Accepted
  <1> DEFINE commits == {t \in accepted \ failed : page[t] = "ready"}
  <1>2. \A tab \in TabIds, t \in accepted : tabOf[t] = tab <=> activeTask[tab] = t
    BY AcceptedIsActive
  <1>3. activeTask' = [tab \in TabIds |->
            IF activeTask[tab] \in accepted THEN None ELSE activeTask[tab]]
    BY <1>1, <1>2 DEF SettleTabs
  <1>4. shown' = [tab \in TabIds |->
            IF activeTask[tab] \in commits THEN activeTask[tab] ELSE shown[tab]]
    <2> SUFFICES ASSUME NEW tab \in TabIds
                 PROVE  (IF \E t \in commits : tabOf[t] = tab
                         THEN CHOOSE t \in commits : tabOf[t] = tab
                         ELSE shown[tab])
                        = IF activeTask[tab] \in commits
                          THEN activeTask[tab] ELSE shown[tab]
      BY <1>1
    <2>1. \A t \in commits : tabOf[t] = tab <=> activeTask[tab] = t
      BY <1>2
    <2>2. CASE activeTask[tab] \in commits
      BY <2>1, <2>2
    <2>3. CASE activeTask[tab] \notin commits
      BY <2>1, <2>3
    <2> QED
      BY <2>2, <2>3
  <1> QED
    BY <1>1, <1>3, <1>4

LEMMA PumpInv ==
  ASSUME IInv, NEW w \in Windows, Pump(w)
  PROVE  IInv'
  <1> USE BoundsAssumption
  <1> DEFINE released == Batch(w) \cup Orphans
             accepted == Accepted(w)
  <1>1. PICK commits \in SUBSET accepted :
          /\ activeTask' = [tab \in TabIds |->
                IF activeTask[tab] \in accepted THEN None ELSE activeTask[tab]]
          /\ shown' = [tab \in TabIds |->
                IF activeTask[tab] \in commits
                THEN activeTask[tab] ELSE shown[tab]]
          /\ Release(released, commits)
    BY PumpEffect
  <1>2. /\ w \in windows
        /\ loc' = [t \in Tasks |->
                    CASE t \in released -> "freed"
                      [] t \notin released /\ loc[t] = "published" -> "inbox"
                      [] OTHER -> loc[t]]
        /\ UNCHANGED <<windows, owner, active, gen, nextTab, nextTask, tabOf,
                       genOf, cancelled, stopping, sdl, pc, cur, stopSeen,
                       networkFailed, scan>>
    BY DEF Pump, inputVars, loaderVars
  <1>3. TypeOK /\ TabInv /\ ActiveInv /\ ShownInv /\ TaskInv /\ PageInv
        /\ LoaderInv /\ StopInv
    BY DEF IInv
  <1>4. \A t \in accepted : /\ t \in Tasks
                            /\ loc[t] \in {"published", "inbox"}
                            /\ tabOf[t] \in TabIds
                            /\ owner[tabOf[t]] = w
                            /\ genOf[t] = gen[tabOf[t]]
                            /\ activeTask[tabOf[t]] = t
    BY AcceptedIsActive
  <1>5. \A tab \in TabIds, t \in accepted : tabOf[t] = tab <=> activeTask[tab] = t
    BY AcceptedIsActive
  <1>6. \A tab \in TabIds :
          activeTask'[tab] = IF activeTask[tab] \in accepted
                             THEN None ELSE activeTask[tab]
    BY <1>1
  <1>7. \A tab \in TabIds :
          shown'[tab] = IF activeTask[tab] \in commits
                        THEN activeTask[tab] ELSE shown[tab]
    BY <1>1
  <1>8. \A t \in Tasks :
          /\ t \in released => loc'[t] = "freed"
          /\ t \notin released =>
              loc'[t] = IF loc[t] = "published" THEN "inbox" ELSE loc[t]
    BY <1>2
  <1>9. \A t \in Tasks :
          page'[t] = IF t \in commits THEN "shown"
                     ELSE IF \/ t \in released /\ page[t] = "ready"
                             \/ t \in {shown[tabOf[c]] : c \in commits}
                     THEN "destroyed" ELSE page[t]
    BY <1>1 DEF Release
  <1>10. \A t \in released : loc[t] \in {"published", "inbox"}
    BY DEF Batch, Orphans
  <1>11. \A tab \in TabIds : activeTask[tab] # None /\ activeTask[tab] \in released
            => activeTask[tab] \in accepted
    BY <1>3 DEF TypeOK, ActiveInv, TabInv, Batch, Orphans, Accepts, Accepted
  <1> HIDE DEF released, accepted
  <1>12. commits \subseteq accepted /\ accepted \subseteq released
         /\ released \subseteq Tasks
    BY DEF released, accepted, Accepted, Batch, Orphans
  <1>13. TypeOK'
    <2>1. loc' \in [Tasks -> Locations]
      BY <1>2, <1>3 DEF TypeOK, Locations
    <2>2. page' \in [Tasks -> PageStates]
      BY <1>1, <1>3 DEF TypeOK, Release, PageStates
    <2>3. activeTask' \in [TabIds -> Tasks \cup {None}]
      BY <1>1, <1>3 DEF TypeOK
    <2>4. shown' \in [TabIds -> Tasks \cup {None}]
      BY <1>1, <1>3 DEF TypeOK
    <2> QED
      BY <1>2, <1>3, <2>1, <2>2, <2>3, <2>4 DEF TypeOK
  <1>14. TabInv'
    <2>1. None \notin commits
      <3>1. None \notin Tasks
        BY DEF Tasks
      <3> QED
        BY <1>12, <3>1
    <2>2. \A tab \in TabIds : owner[tab] = None => activeTask[tab] \notin commits
      BY <1>3, <2>1 DEF TabInv
    <2> QED
      BY <1>2, <1>3, <1>6, <1>7, <2>2 DEF TabInv
  <1>15. ActiveInv'
    <2> SUFFICES ASSUME NEW tab \in TabIds, activeTask'[tab] # None
                 PROVE  (/\ Live(activeTask[tab])
                         /\ tabOf[activeTask[tab]] = tab
                         /\ genOf[activeTask[tab]] = gen[tab]
                         /\ activeTask[tab] \notin cancelled)'
      BY DEF ActiveInv
    <2>1. activeTask'[tab] = activeTask[tab] /\ activeTask[tab] \notin accepted
      BY <1>6
    <2>2. activeTask[tab] \in Tasks /\ activeTask[tab] \notin released
      BY <1>3, <1>11, <2>1 DEF TypeOK
    <2>3. Live(activeTask[tab])
      BY <1>3, <2>1 DEF ActiveInv
    <2>4. loc'[activeTask[tab]] \notin {"unborn", "freed"}
      BY <1>8, <2>2, <2>3 DEF Live
    <2> QED
      BY <1>2, <1>3, <2>1, <2>4 DEF ActiveInv, Live
  <1>16. ShownInv'
    <2> SUFFICES ASSUME NEW tab \in TabIds, shown'[tab] # None
                 PROVE  (/\ tabOf[shown[tab]] = tab
                         /\ loc[shown[tab]] = "freed"
                         /\ page[shown[tab]] = "shown"
                         /\ genOf[shown[tab]] \in 1..gen[tab]
                         /\ activeTask[tab] # None =>
                                genOf[shown[tab]] < gen[tab])'
      BY DEF ShownInv
    <2>1. CASE activeTask[tab] \in commits
      <3>1. shown'[tab] = activeTask[tab] /\ activeTask'[tab] = None
        BY <1>6, <1>7, <1>12, <2>1
      <3>2. activeTask[tab] \in released /\ activeTask[tab] \in Tasks
        BY <1>12, <2>1
      <3>3. tabOf[activeTask[tab]] = tab /\ genOf[activeTask[tab]] = gen[tab]
        BY <1>4, <1>5, <1>12, <2>1
      <3>4. gen[tab] \in 1..gen[tab]
        BY <1>3, <1>4, <1>12, <2>1, <3>3 DEF TypeOK, TaskInv, TaskOK
      <3> QED
        BY <1>2, <1>8, <1>9, <2>1, <3>1, <3>2, <3>3, <3>4
    <2>2. CASE activeTask[tab] \notin commits
      <3>1. shown'[tab] = shown[tab] /\ shown[tab] \in Tasks
        BY <1>3, <1>7, <2>2 DEF TypeOK
      <3>2. /\ tabOf[shown[tab]] = tab
            /\ loc[shown[tab]] = "freed"
            /\ page[shown[tab]] = "shown"
            /\ genOf[shown[tab]] \in 1..gen[tab]
            /\ activeTask[tab] # None => genOf[shown[tab]] < gen[tab]
        BY <1>3, <3>1 DEF ShownInv
      <3>3. shown[tab] \notin released
        BY <1>10, <3>2
      <3>4. \A c \in commits : shown[tabOf[c]] # shown[tab]
        <4> SUFFICES ASSUME NEW c \in commits, shown[tabOf[c]] = shown[tab]
                     PROVE  FALSE
          OBVIOUS
        <4>1. tabOf[c] \in TabIds /\ activeTask[tabOf[c]] = c
          BY <1>4, <1>12
        <4>2. tabOf[c] = tab
          BY <1>3, <3>1, <3>2, <4>1 DEF ShownInv
        <4> QED
          BY <2>2, <4>1, <4>2
      <3>5. page'[shown[tab]] = "shown"
        BY <1>9, <1>12, <3>1, <3>2, <3>3, <3>4
      <3>6. activeTask'[tab] # None => activeTask[tab] # None
        BY <1>6
      <3> QED
        BY <1>2, <1>8, <3>1, <3>2, <3>3, <3>5, <3>6
    <2> QED
      BY <2>1, <2>2
  <1>17. TaskInv'
    <2> SUFFICES ASSUME NEW t \in Tasks PROVE TaskOK(t)'
      BY DEF TaskInv
    <2> TaskOK(t)
      BY <1>3 DEF TaskInv
    <2>1. loc'[t] = "unborn" <=> loc[t] = "unborn"
      BY <1>8, <1>10
    <2>2. loc[t] = "unborn" => page'[t] = "none"
      <3> SUFFICES ASSUME loc[t] = "unborn" PROVE page'[t] = "none"
        OBVIOUS
      <3>1. t \notin released /\ page[t] = "none"
        BY <1>10 DEF TaskOK
      <3>2. \A c \in commits : shown[tabOf[c]] # t
        BY <1>3, <1>4, <1>12 DEF ShownInv, Tasks
      <3> QED
        BY <1>9, <1>12, <3>1, <3>2
    <2>3. Live(t)' /\ t \notin cancelled => activeTask'[tabOf[t]] = t
      <3> SUFFICES ASSUME Live(t)', t \notin cancelled
                   PROVE  activeTask'[tabOf[t]] = t
        OBVIOUS
      <3>1. Live(t) /\ t \notin released
        BY <1>8, <1>10 DEF Live
      <3>2. tabOf[t] \in TabIds /\ activeTask[tabOf[t]] = t
        BY <3>1 DEF TaskOK, Live
      <3> QED
        BY <1>6, <1>12, <3>1, <3>2
    <2>4. loc'[t] = "inbox" => owner[tabOf[t]] # None
      BY <1>8 DEF TaskOK, released, Orphans
    <2> QED
      BY <1>2, <2>1, <2>2, <2>3, <2>4 DEF TaskOK
  <1>18. PageInv'
    <2> SUFFICES ASSUME NEW t \in Tasks
                 PROVE  (/\ page[t] = "ready" =>
                              loc[t] \in {"loaded", "published", "inbox"}
                         /\ page[t] = "shown" =>
                              loc[t] = "freed" /\ shown[tabOf[t]] = t)'
      BY DEF PageInv
    <2>1. page'[t] = "ready" => loc'[t] \in {"loaded", "published", "inbox"}
      <3> SUFFICES ASSUME page'[t] = "ready"
                   PROVE  loc'[t] \in {"loaded", "published", "inbox"}
        OBVIOUS
      <3>1. page[t] = "ready" /\ t \notin released
        BY <1>9
      <3> QED
        BY <1>3, <1>8, <3>1 DEF PageInv
    <2>2. CASE t \in commits
      BY <1>2, <1>4, <1>7, <1>8, <1>12, <2>1, <2>2
    <2>3. CASE t \notin commits /\ page'[t] = "shown"
      <3>1. page[t] = "shown" /\ \A c \in commits : shown[tabOf[c]] # t
        BY <1>9, <2>3
      <3>2. loc[t] = "freed" /\ shown[tabOf[t]] = t /\ tabOf[t] \in TabIds
        BY <1>3, <3>1 DEF PageInv, TaskInv, TaskOK
      <3>3. activeTask[tabOf[t]] \notin commits
        BY <1>5, <1>12, <3>1, <3>2
      <3> QED
        BY <1>2, <1>7, <1>8, <1>10, <2>1, <3>2, <3>3
    <2> QED
      BY <2>1, <2>2, <2>3
  <1>19. LoaderInv'
    <2>1. \A t \in Tasks : /\ loc'[t] = "taken" <=> loc[t] = "taken"
                           /\ loc'[t] = "active" <=> loc[t] = "active"
                           /\ loc'[t] = "loaded" <=> loc[t] = "loaded"
      BY <1>8, <1>10
    <2> QED
      BY <1>2, <1>3, <2>1 DEF LoaderInv, ActiveLoads
  <1>20. StopInv'
    BY <1>2, <1>3 DEF StopInv, TypeOK
  <1> QED
    BY <1>13, <1>14, <1>15, <1>16, <1>17, <1>18, <1>19, <1>20 DEF IInv

LEMMA CloseWindowInv ==
  ASSUME IInv, NEW w \in Windows, CloseWindow(w)
  PROVE  IInv'
  <1> USE BoundsAssumption DEF CloseWindow, CancelLoadsOf, TabsOf, IInv,
          inputVars, loaderVars
  <1>1. TypeOK'
    BY DEF TypeOK, Locations, PageStates
  <1>2. TabInv'
    BY DEF TypeOK, TabInv, TabIds
  <1>3. ActiveInv'
    BY DEF TypeOK, ActiveInv, TaskInv, TaskOK, TabInv, Live
  <1>4. ShownInv'
    BY DEF TypeOK, ShownInv, TaskInv, TaskOK, TabInv
  <1>5. TaskInv'
    <2> SUFFICES ASSUME NEW t \in Tasks PROVE TaskOK(t)'
      BY DEF TaskInv
    <2> TaskOK(t)
      BY DEF TaskInv
    <2>1. loc[t] = "unborn" <=> loc'[t] = "unborn"
      BY DEF TypeOK
    <2>2. t \in cancelled' => t \in cancelled \/ loc[t] # "unborn"
      BY DEF TypeOK, ActiveInv, Live, Tasks
    <2>3. Live(t)' /\ t \notin cancelled' => activeTask'[tabOf[t]] = t
      <3> SUFFICES ASSUME Live(t)', t \notin cancelled'
                   PROVE  activeTask'[tabOf[t]] = t
        OBVIOUS
      <3>1. Live(t) /\ t \notin cancelled
        BY DEF TypeOK, Live
      <3>2. tabOf[t] \in TabIds /\ activeTask[tabOf[t]] = t
        BY <3>1 DEF TaskOK, Live
      <3>3. owner[tabOf[t]] # w
        BY <3>2
      <3> QED
        BY <3>2, <3>3 DEF TypeOK
    <2>4. loc'[t] = "inbox" => owner'[tabOf[t]] # None
      BY DEF TypeOK, TaskOK
    <2>5. loc[t] = "unborn" => page'[t] = "none"
      <3> SUFFICES ASSUME loc[t] = "unborn" PROVE page'[t] = "none"
        OBVIOUS
      <3>1. page[t] = "none"
        BY DEF TaskOK
      <3>2. \A tab \in TabIds : shown[tab] # t
        BY DEF ShownInv, Tasks
      <3> QED
        BY <3>1, <3>2 DEF TypeOK
    <2>6. nextTask' = nextTask /\ nextTab' = nextTab
          /\ tabOf' = tabOf /\ genOf' = genOf
      OBVIOUS
    <2> QED
      BY <2>1, <2>2, <2>3, <2>4, <2>5, <2>6 DEF TaskOK
  <1>6. PageInv'
    BY DEF TypeOK, PageInv, TaskInv, TaskOK, TabInv
  <1>7. LoaderInv'
    BY DEF TypeOK, LoaderInv, ActiveLoads
  <1>8. StopInv'
    BY DEF TypeOK, StopInv
  <1> QED
    BY <1>1, <1>2, <1>3, <1>4, <1>5, <1>6, <1>7, <1>8

LEMMA DestroyAppInv == IInv /\ DestroyApp => IInv'
  <1> SUFFICES ASSUME IInv, DestroyApp PROVE IInv'
    OBVIOUS
  <1> USE BoundsAssumption DEF DestroyApp, IInv, uiVars, inputVars, loaderVars
  <1>1. TypeOK'
    BY DEF TypeOK, Queued
  <1>2. TabInv' /\ ShownInv' /\ PageInv' /\ LoaderInv'
    BY DEF TabInv, ShownInv, PageInv, LoaderInv, ActiveLoads
  <1>3. \A tab \in TabIds : activeTask[tab] = None
    BY DEF TypeOK, TabInv
  <1>4. ActiveInv'
    BY <1>3 DEF ActiveInv
  <1>5. TaskInv'
    BY DEF TypeOK, TaskInv, TaskOK, Live, Queued
  <1>6. StopInv'
    BY DEF TypeOK, StopInv
  <1> QED
    BY <1>1, <1>2, <1>4, <1>5, <1>6

LEMMA JoinLoaderInv == IInv /\ JoinLoader => IInv'
  <1> SUFFICES ASSUME IInv, JoinLoader PROVE IInv'
    OBVIOUS
  <1> USE BoundsAssumption DEF JoinLoader, IInv, uiVars, inputVars, loaderVars
  <1>1. \A tab \in TabIds : activeTask[tab] = None /\ shown[tab] = None
    BY DEF TypeOK, TabInv, StopInv
  <1>2. TypeOK'
    BY DEF TypeOK, Locations, PageStates
  <1>3. TabInv' /\ ActiveInv' /\ ShownInv'
    BY <1>1 DEF TabInv, ActiveInv, ShownInv
  <1>4. TaskInv'
    BY <1>1 DEF TypeOK, TaskInv, TaskOK, Live, Locations
  <1>5. PageInv'
    BY <1>1 DEF TypeOK, PageInv, TaskInv, TaskOK, StopInv, TabInv
  <1>6. LoaderInv'
    BY DEF TypeOK, LoaderInv, ActiveLoads
  <1>7. StopInv'
    BY <1>1 DEF TypeOK, StopInv, TaskInv, TaskOK, TabInv, Locations
  <1> QED
    BY <1>2, <1>3, <1>4, <1>5, <1>6, <1>7

-----------------------------------------------------------------------------
(* The steps of the loader thread.                                         *)

LEMMA TakeTaskInv == IInv /\ TakeTask => IInv'
  <1> SUFFICES ASSUME IInv, TakeTask PROVE IInv'
    OBVIOUS
  <1> USE BoundsAssumption DEF TakeTask, IInv, uiVars, inputVars
  <1>1. TypeOK'
    BY DEF TypeOK, Queued, Locations, LoaderPlaces
  <1>2. TabInv' /\ ActiveInv'
    BY DEF TypeOK, TabInv, ActiveInv, Live, Queued
  <1>3. ShownInv' /\ PageInv'
    BY DEF TypeOK, ShownInv, PageInv, Queued
  <1>4. TaskInv'
    BY DEF TypeOK, TaskInv, TaskOK, Live, Queued
  <1>5. LoaderInv'
    BY DEF TypeOK, LoaderInv, ActiveLoads, Queued, Tasks
  <1>6. StopInv'
    BY DEF TypeOK, StopInv, Queued
  <1> QED
    BY <1>1, <1>2, <1>3, <1>4, <1>5, <1>6

\* completion_append, wherever the loader publishes the task in hand.
LEMMA PublishCurrentInv ==
  ASSUME IInv, pc \in {"start", "loading"},
         NEW result \in {"none", "ready"}, PublishCurrent(result),
         networkFailed' \in BOOLEAN,
         UNCHANGED <<uiVars, inputVars, cancelled, stopping, sdl, stopSeen, scan>>
  PROVE  IInv'
  <1> USE BoundsAssumption DEF PublishCurrent, IInv, uiVars, inputVars
  <1>1. cur \in Tasks /\ loc[cur] = "taken"
    BY DEF TypeOK, LoaderInv
  <1>2. TypeOK'
    BY <1>1 DEF TypeOK, Locations, PageStates, LoaderPlaces
  <1>3. TabInv' /\ ActiveInv'
    BY <1>1 DEF TypeOK, TabInv, ActiveInv, Live
  <1>4. ShownInv' /\ PageInv'
    BY <1>1 DEF TypeOK, ShownInv, PageInv
  <1>5. TaskInv'
    BY <1>1 DEF TypeOK, TaskInv, TaskOK, Live
  <1>6. LoaderInv'
    BY <1>1 DEF TypeOK, LoaderInv, ActiveLoads, Tasks
  <1>7. StopInv'
    BY <1>1 DEF TypeOK, StopInv
  <1> QED
    BY <1>2, <1>3, <1>4, <1>5, <1>6, <1>7

LEMMA StartTaskInv == IInv /\ StartTask => IInv'
  <1> SUFFICES ASSUME IInv, StartTask PROVE IInv'
    OBVIOUS
  <1>1. CASE PublishCurrent("none")
    <2>1. networkFailed' \in BOOLEAN
      BY DEF StartTask, IInv, TypeOK
    <2> QED
      BY <1>1, <2>1, PublishCurrentInv DEF StartTask
  <1>2. CASE pc' = "loading" /\ UNCHANGED <<loc, page, cur>>
    <2> USE <1>2 DEF StartTask, IInv, uiVars, inputVars
    <2>1. TypeOK' /\ TabInv' /\ ActiveInv' /\ ShownInv'
      BY DEF TypeOK, TabInv, ActiveInv, ShownInv, Live, LoaderPlaces
    <2>2. TaskInv' /\ PageInv'
      BY DEF TaskInv, TaskOK, PageInv, Live
    <2>3. LoaderInv' /\ StopInv'
      BY DEF LoaderInv, StopInv, ActiveLoads
    <2> QED
      BY <2>1, <2>2, <2>3
  <1> QED
    BY <1>1, <1>2 DEF StartTask

LEMMA LoadAtOnceInv == IInv /\ LoadAtOnce => IInv'
  <1> SUFFICES ASSUME IInv, LoadAtOnce PROVE IInv'
    OBVIOUS
  <1>1. networkFailed' \in BOOLEAN
    BY DEF LoadAtOnce, NetworkMayFail, IInv, TypeOK
  <1> QED
    BY <1>1, PublishCurrentInv DEF LoadAtOnce

LEMMA LoadAsyncInv == IInv /\ LoadAsync => IInv'
  <1> SUFFICES ASSUME IInv, LoadAsync PROVE IInv'
    OBVIOUS
  <1>1. CASE PublishCurrent("none")
    <2>1. networkFailed' \in BOOLEAN
      BY DEF LoadAsync, NetworkMayFail, IInv, TypeOK
    <2> QED
      BY <1>1, <2>1, PublishCurrentInv DEF LoadAsync
  <1>2. CASE /\ loc' = [loc EXCEPT ![cur] = "active"]
             /\ cur' = None
             /\ pc' = "poll"
             /\ UNCHANGED page
    <2> USE <1>2, BoundsAssumption
        DEF LoadAsync, NetworkMayFail, IInv, uiVars, inputVars
    <2>1. cur \in Tasks /\ loc[cur] = "taken"
      BY DEF TypeOK, LoaderInv
    <2>2. TypeOK'
      BY <2>1 DEF TypeOK, Locations, LoaderPlaces
    <2>3. TabInv' /\ ActiveInv' /\ ShownInv'
      BY <2>1 DEF TypeOK, TabInv, ActiveInv, ShownInv, Live
    <2>4. TaskInv' /\ PageInv'
      BY <2>1 DEF TypeOK, TaskInv, TaskOK, PageInv, Live
    <2>5. LoaderInv'
      BY <2>1 DEF TypeOK, LoaderInv, ActiveLoads, Tasks
    <2>6. StopInv'
      BY <2>1 DEF TypeOK, StopInv
    <2> QED
      BY <2>2, <2>3, <2>4, <2>5, <2>6
  <1> QED
    BY <1>1, <1>2 DEF LoadAsync

LEMMA PollNetworkInv == IInv /\ PollNetwork => IInv'
  <1> SUFFICES ASSUME IInv, PollNetwork PROVE IInv'
    OBVIOUS
  <1> USE BoundsAssumption
      DEF PollNetwork, NetworkMayFail, IInv, uiVars, inputVars
  <1>1. PICK finished \in SUBSET {t \in Tasks : loc[t] = "active"} :
          /\ loc' = [t \in Tasks |-> IF t \in finished THEN "loaded" ELSE loc[t]]
          /\ \E pages \in SUBSET finished :
                page' = [t \in Tasks |->
                            IF t \in pages THEN "ready" ELSE page[t]]
    OBVIOUS
  <1>2. PICK pages \in SUBSET finished :
          page' = [t \in Tasks |-> IF t \in pages THEN "ready" ELSE page[t]]
    BY <1>1
  <1>3. TypeOK'
    BY <1>1, <1>2 DEF TypeOK, ActiveLoads, Locations, PageStates, LoaderPlaces
  <1>4. TabInv' /\ ActiveInv'
    BY <1>1 DEF TypeOK, TabInv, ActiveInv, Live
  <1>5. ShownInv' /\ PageInv'
    BY <1>1, <1>2 DEF TypeOK, ShownInv, PageInv
  <1>6. TaskInv'
    BY <1>1, <1>2 DEF TypeOK, TaskInv, TaskOK, Live
  <1>7. LoaderInv'
    BY <1>1 DEF TypeOK, LoaderInv, ActiveLoads
  <1>8. StopInv'
    BY <1>1 DEF TypeOK, StopInv
  <1> QED
    BY <1>3, <1>4, <1>5, <1>6, <1>7, <1>8

LEMMA SkipPollInv == IInv /\ SkipPoll => IInv'
  <1> SUFFICES ASSUME IInv, SkipPoll PROVE IInv'
    OBVIOUS
  <1> USE DEF SkipPoll, NetworkMayFail, IInv, uiVars, inputVars
  <1>1. TypeOK' /\ TabInv' /\ ActiveInv' /\ ShownInv'
    BY DEF TypeOK, TabInv, ActiveInv, ShownInv, Live, LoaderPlaces
  <1>2. TaskInv' /\ PageInv'
    BY DEF TaskInv, TaskOK, PageInv, Live
  <1>3. LoaderInv' /\ StopInv'
    BY DEF LoaderInv, StopInv, ActiveLoads
  <1> QED
    BY <1>1, <1>2, <1>3

LEMMA XhrPassInv == IInv /\ XhrPass => IInv'
  <1> SUFFICES ASSUME IInv, XhrPass PROVE IInv'
    OBVIOUS
  <1> USE DEF XhrPass, IInv, uiVars, inputVars
  <1>1. TypeOK' /\ TabInv' /\ ActiveInv' /\ ShownInv'
    BY DEF TypeOK, TabInv, ActiveInv, ShownInv, Live
  <1>2. TaskInv' /\ PageInv'
    BY DEF TaskInv, TaskOK, PageInv, Live
  <1>3. LoaderInv' /\ StopInv'
    BY DEF LoaderInv, StopInv, ActiveLoads
  <1> QED
    BY <1>1, <1>2, <1>3

LEMMA ReapTaskInv == IInv /\ ReapTask => IInv'
  <1> SUFFICES ASSUME IInv, ReapTask PROVE IInv'
    OBVIOUS
  <1> USE BoundsAssumption DEF IInv
  <1>1. PICK t \in scan : /\ scan' = scan \ {t}
                          /\ pc' = IF scan = {t} THEN "check" ELSE "reap"
                          /\ \/ loc' = [loc EXCEPT ![t] = "published"]
                             \/ UNCHANGED loc
    BY DEF ReapTask
  <1>2. /\ pc = "reap"
        /\ UNCHANGED <<windows, owner, active, gen, activeTask, shown, nextTab,
                       nextTask, tabOf, genOf, cancelled, page, stopping, sdl,
                       cur, stopSeen, networkFailed>>
    BY DEF ReapTask, uiVars, inputVars
  <1>3. t \in Tasks /\ loc[t] \in {"active", "loaded"}
    BY <1>1 DEF TypeOK, LoaderInv, ActiveLoads
  <1>4. TypeOK'
    BY <1>1, <1>2, <1>3 DEF TypeOK, Locations, LoaderPlaces
  <1>5. TabInv' /\ ActiveInv' /\ ShownInv'
    BY <1>1, <1>2, <1>3 DEF TypeOK, TabInv, ActiveInv, ShownInv, Live
  <1>6. TaskInv' /\ PageInv'
    BY <1>1, <1>2, <1>3 DEF TypeOK, TaskInv, TaskOK, PageInv, Live
  <1>7. LoaderInv'
    BY <1>1, <1>2, <1>3 DEF TypeOK, LoaderInv, ActiveLoads
  <1>8. StopInv'
    BY <1>1, <1>2, <1>3 DEF TypeOK, StopInv
  <1> QED
    BY <1>4, <1>5, <1>6, <1>7, <1>8

LEMMA CheckDoneInv == IInv /\ CheckDone => IInv'
  <1> SUFFICES ASSUME IInv, CheckDone PROVE IInv'
    OBVIOUS
  <1> USE DEF CheckDone, IInv, uiVars, inputVars
  <1>1. TypeOK' /\ TabInv' /\ ActiveInv' /\ ShownInv'
    BY DEF TypeOK, TabInv, ActiveInv, ShownInv, Live, LoaderPlaces
  <1>2. TaskInv' /\ PageInv'
    BY DEF TaskInv, TaskOK, PageInv, Live
  <1>3. LoaderInv'
    BY DEF LoaderInv, ActiveLoads
  <1>4. StopInv'
    <2>1. \A t \in Tasks : loc[t] # "taken"
      BY BoundsAssumption DEF LoaderInv, Tasks
    <2> QED
      BY <2>1 DEF StopInv, ExitCondition, Queued, ActiveLoads, TypeOK
  <1> QED
    BY <1>1, <1>2, <1>3, <1>4

-----------------------------------------------------------------------------
LEMMA StutterInv == IInv /\ UNCHANGED vars => IInv'
  BY DEF IInv, vars, uiVars, inputVars, loaderVars, TypeOK, TabInv, ActiveInv,
         ShownInv, TaskInv, TaskOK, PageInv, LoaderInv, StopInv, Live,
         ActiveLoads

LEMMA NextInv == IInv /\ [Next]_vars => IInv'
  <1> SUFFICES ASSUME IInv, [Next]_vars PROVE IInv'
    OBVIOUS
  <1>1. CASE \E w \in Windows :
              \/ OpenWindow(w) \/ NewTab(w) \/ Navigate(w) \/ Pump(w)
              \/ CloseWindow(w)
              \/ \E tab \in TabIds : Select(w, tab)
    BY <1>1, OpenWindowInv, NewTabInv, NavigateInv, PumpInv, CloseWindowInv,
       SelectInv
  <1>2. CASE DestroyApp \/ JoinLoader
    BY <1>2, DestroyAppInv, JoinLoaderInv
  <1>3. CASE Loader \/ XhrPass
    BY <1>3, XhrPassInv, TakeTaskInv, StartTaskInv, LoadAtOnceInv, LoadAsyncInv,
       PollNetworkInv, SkipPollInv, ReapTaskInv, CheckDoneInv DEF Loader
  <1>4. CASE Terminated \/ UNCHANGED vars
    BY <1>4, StutterInv DEF Terminated
  <1> QED
    BY <1>1, <1>2, <1>3, <1>4 DEF Next

\* Every reachable state satisfies the inductive invariant.
THEOREM Inductive == Spec => []IInv
  <1> QED
    BY InitInv, NextInv, PTL DEF Spec

-----------------------------------------------------------------------------
(* What follows from it.                                                   *)

\* The variables keep their types: no list, pointer or counter of app,
\* TabSlot or LoadTask ever holds something else (tabset.c).
THEOREM TypeCorrect == Spec => []TypeOK
  <1>1. IInv => TypeOK
    BY DEF IInv
  <1> QED
    BY <1>1, Inductive, PTL

\* slot->active_task is never dangling, for any number of windows and tabs
\* and any order in which loads are made, finish and are dropped.
THEOREM ActiveTasksAreLive == Spec => []ActiveTaskIsLive
  <1>1. IInv => ActiveTaskIsLive
    BY DEF IInv, TabInv, ActiveInv, ActiveTaskIsLive
  <1> QED
    BY <1>1, Inductive, PTL

\* Superseding a load and closing its window always reach the loader.
THEOREM UnwantedLoadsStop == Spec => []UnwantedLoadsAreCancelled
  <1>1. IInv => UnwantedLoadsAreCancelled
    BY BoundsAssumption
       DEF IInv, TaskInv, TaskOK, UnwantedLoadsAreCancelled, Live, TabIds
  <1> QED
    BY <1>1, Inductive, PTL

\* No page is leaked or has two owners.
THEOREM PageOwnership == Spec => []PagesHaveOneOwner
  <1>1. IInv => PagesHaveOneOwner
    <2> SUFFICES ASSUME IInv, NEW t \in Tasks
                 PROVE  /\ page[t] = "ready" =>
                            loc[t] \in {"loaded", "published", "inbox"}
                        /\ page[t] = "shown" <=>
                            tabOf[t] # None /\ shown[tabOf[t]] = t
                        /\ page[t] = "shown" => owner[tabOf[t]] \in windows
      BY DEF PagesHaveOneOwner
    <2> USE BoundsAssumption DEF IInv
    <2>1. t # None /\ tabOf[t] \in TabIds \cup {None} /\ None \notin TabIds
      BY DEF TypeOK, Tasks, TabIds
    <2>2. page[t] = "shown" =>
            tabOf[t] \in TabIds /\ shown[tabOf[t]] = t
      BY DEF PageInv, TaskInv, TaskOK
    <2>3. tabOf[t] # None /\ shown[tabOf[t]] = t => page[t] = "shown"
      BY <2>1 DEF ShownInv
    <2>4. page[t] = "shown" => owner[tabOf[t]] \in windows
      BY <2>1, <2>2 DEF TabInv
    <2> QED
      BY <2>1, <2>2, <2>3, <2>4 DEF PageInv
  <1> QED
    BY <1>1, Inductive, PTL

\* Shutdown leaves no task and no page behind.
THEOREM ShutdownIsClean == Spec => []NothingOutlivesTheApp
  <1>1. IInv => NothingOutlivesTheApp
    <2> SUFFICES ASSUME IInv PROVE NothingOutlivesTheApp
      OBVIOUS
    <2> USE BoundsAssumption DEF IInv
    <2>1. CASE sdl = "done"
      <3>1. windows = {} /\ \A tab \in TabIds : shown[tab] = None
        BY <2>1 DEF StopInv, TabInv
      <3>2. \A t \in Tasks : page[t] \in {"none", "destroyed"}
        <4> SUFFICES ASSUME NEW t \in Tasks
                     PROVE  page[t] \in {"none", "destroyed"}
          OBVIOUS
        <4>1. page[t] # "ready"
          BY <2>1 DEF StopInv, PageInv
        <4>2. page[t] # "shown"
          BY <3>1 DEF PageInv, TaskInv, TaskOK, Tasks
        <4> QED
          BY <4>1, <4>2 DEF TypeOK, PageStates
      <3> QED
        BY <3>2 DEF StopInv, NothingOutlivesTheApp
    <2>2. CASE sdl # "done"
      BY <2>2 DEF StopInv, NothingOutlivesTheApp
    <2> QED
      BY <2>1, <2>2
  <1> QED
    BY <1>1, Inductive, PTL

\* A session only ever replaces its page by the page of its tab's newest
\* request, in whatever order the loads finish.
THEOREM CommitsStayCurrent == Spec => CommitsAreCurrent
  <1> DEFINE Current == \A tab \in TabIds :
        shown'[tab] # shown[tab] /\ shown'[tab] # None =>
            LET t == shown'[tab]
            IN  /\ tabOf[t] = tab
                /\ genOf[t] = gen[tab]
                /\ t \notin cancelled
                /\ shown[tab] # None => genOf[shown[tab]] < genOf[t]
  <1>1. IInv /\ [Next]_vars => [Current]_vars
    <2> SUFFICES ASSUME IInv, Next PROVE Current \/ UNCHANGED vars
      OBVIOUS
    <2>1. CASE \E w \in Windows : Pump(w)
      <3> PICK w \in Windows : Pump(w)
        BY <2>1
      <3>1. PICK commits \in SUBSET Accepted(w) :
              shown' = [tab \in TabIds |-> IF activeTask[tab] \in commits
                                           THEN activeTask[tab] ELSE shown[tab]]
        BY PumpEffect
      <3> SUFFICES ASSUME NEW tab \in TabIds, shown'[tab] # shown[tab],
                          shown'[tab] # None
                   PROVE  /\ tabOf[shown'[tab]] = tab
                          /\ genOf[shown'[tab]] = gen[tab]
                          /\ shown'[tab] \notin cancelled
                          /\ shown[tab] # None =>
                              genOf[shown[tab]] < genOf[shown'[tab]]
        OBVIOUS
      <3>2. shown'[tab] = activeTask[tab]
        BY <3>1
      <3> QED
        BY <3>2 DEF IInv, ActiveInv, ShownInv
    <2>2. CASE UNCHANGED shown
      BY <2>2
    <2>3. CASE \E w \in Windows : CloseWindow(w)
      BY <2>3 DEF CloseWindow
    <2> QED
      BY <2>1, <2>2, <2>3
         DEF Next, Loader, OpenWindow, NewTab, Navigate, Select, DestroyApp,
             JoinLoader, TakeTask, StartTask, LoadAtOnce, LoadAsync,
             PollNetwork, SkipPoll, XhrPass, ReapTask, CheckDone, Terminated, vars, uiVars
  <1>2. CommitsAreCurrent <=> [][Current]_vars
    BY DEF CommitsAreCurrent
  <1> QED
    BY <1>1, <1>2, Inductive, PTL DEF Spec

-----------------------------------------------------------------------------
(* TabLoads implements TabPromise.                                         *)

Open == {tab \in TabIds : owner[tab] # None}
Loading == {tab \in TabIds : activeTask[tab] # None}
Showing ==
    [tab \in TabIds |-> IF shown[tab] = None THEN 0 ELSE genOf[shown[tab]]]

LEMMA PromiseVars ==
  UNCHANGED <<owner, gen, activeTask, shown, genOf>>
      => UNCHANGED <<Open, gen, Loading, Showing>>
  BY DEF Open, Loading, Showing

\* The tabs are bound variables in these lemmas, because an action of
\* TabPromise applied to a state function cannot stand for its instances.
LEMMA NewTabOpens ==
  ASSUME IInv, NEW w \in Windows, NewTab(w),
         NEW new \in TabIds, new = nextTab
  PROVE  Promise!Open(new)
  <1> USE BoundsAssumption
      DEF NewTab, PushTask, IInv, Promise!Open
  <1>1. nextTab \in TabIds /\ gen[nextTab] = 0 /\ owner[nextTab] = None
    BY DEF TabInv, TypeOK, TabIds
  <1>2. \A tab \in TabIds : shown[tab] # None =>
            shown[tab] \in Tasks /\ shown[tab] # nextTask
    BY DEF TypeOK, ShownInv, TaskInv, TaskOK, Tasks
  <1>3. Open' = Open \cup {new}
    BY <1>1 DEF Open, TypeOK
  <1>4. Loading' = Loading \cup {new}
    BY <1>1 DEF Loading, TypeOK, Tasks
  <1>5. UNCHANGED Showing
    BY <1>2 DEF Showing, TypeOK
  <1> QED
    BY <1>1, <1>3, <1>4, <1>5 DEF Open, Loading, Showing, TypeOK

LEMMA NavigateAsks ==
  ASSUME IInv, NEW w \in Windows, Navigate(w),
         NEW asked \in TabIds, asked = active[w]
  PROVE  Promise!Ask(asked)
  <1> USE BoundsAssumption
      DEF Navigate, PushTask, IInv, Promise!Ask
  <1>1. active[w] \in TabIds /\ owner[active[w]] = w
    BY DEF TabInv, TypeOK
  <1>2. \A tab \in TabIds : shown[tab] # None =>
            shown[tab] \in Tasks /\ shown[tab] # nextTask
    BY DEF TypeOK, ShownInv, TaskInv, TaskOK, Tasks
  <1>3. UNCHANGED Open
    BY DEF Open
  <1>4. Loading' = Loading \cup {asked}
    BY <1>1 DEF Loading, TypeOK, Tasks
  <1>5. UNCHANGED Showing
    BY <1>2 DEF Showing, TypeOK
  <1> QED
    BY <1>1, <1>3, <1>4, <1>5 DEF Open, Loading, Showing, TypeOK

LEMMA PumpSettles ==
  ASSUME IInv, NEW w \in Windows, Pump(w),
         NEW settled, NEW replaced,
         settled = {tab \in TabIds : activeTask[tab] \in Accepted(w)},
         replaced = {tab \in TabIds : shown'[tab] # shown[tab]}
  PROVE  Promise!Settle(settled, replaced)
  <1> USE BoundsAssumption
  <1>1. PICK commits \in SUBSET Accepted(w) :
          /\ activeTask' = [tab \in TabIds |->
                IF activeTask[tab] \in Accepted(w)
                THEN None ELSE activeTask[tab]]
          /\ shown' = [tab \in TabIds |->
                IF activeTask[tab] \in commits
                THEN activeTask[tab] ELSE shown[tab]]
    BY PumpEffect
  <1>2. \A t \in Accepted(w) : /\ t # None
                               /\ owner[tabOf[t]] = w
                               /\ loc[t] \in {"published", "inbox"}
    BY AcceptedIsActive DEF Tasks
  <1>3. \A tab \in settled : /\ activeTask[tab] # None
                             /\ owner[tab] # None
                             /\ genOf[activeTask[tab]] = gen[tab]
    BY <1>2 DEF IInv, ActiveInv, TabInv
  <1>4. replaced = {tab \in TabIds : activeTask[tab] \in commits}
    <2> SUFFICES ASSUME NEW tab \in TabIds, activeTask[tab] \in commits
                 PROVE  shown[tab] # activeTask[tab]
      BY <1>1
    <2> QED
      BY <1>2 DEF IInv, ShownInv
  <1>5. Loading' = Loading \ settled
    BY <1>1 DEF Loading
  <1>6. Showing' = [tab \in TabIds |->
                      IF tab \in replaced THEN gen[tab] ELSE Showing[tab]]
    BY <1>1, <1>2, <1>3, <1>4 DEF Showing, Pump, inputVars
  <1>7. settled \subseteq Loading /\ replaced \subseteq settled
    BY <1>3, <1>4 DEF Loading
  <1>8. UNCHANGED <<Open, gen>>
    BY DEF Open, Pump
  <1> QED
    BY <1>5, <1>6, <1>7, <1>8
       DEF Promise!Settle, Open, Loading, Showing

LEMMA CloseWindowCloses ==
  ASSUME IInv, NEW w \in Windows, CloseWindow(w),
         NEW tabs, tabs = TabsOf(w)
  PROVE  Promise!Close(tabs)
  <1> USE BoundsAssumption DEF CloseWindow, TabsOf
  <1>1. Open' = Open \ tabs
    BY DEF Open
  <1>2. Loading' = Loading \ tabs
    BY DEF Loading
  <1>3. Showing' = [tab \in TabIds |->
                      IF tab \in tabs THEN 0 ELSE Showing[tab]]
    BY DEF Showing, inputVars
  <1> QED
    BY <1>1, <1>2, <1>3 DEF Promise!Close, Open, Loading, Showing

\* What the user sees of each tab is what TabPromise says: threads, queues and
\* cancellation never show.
THEOREM Implements == Spec => KeepsPromise
  <1>1. Init => Promise!Init
    BY DEF Init, Promise!Init
  <1>2. IInv /\ [Next]_vars => [Promise!Next]_(Promise!promiseVars)
    <2> SUFFICES ASSUME IInv, [Next]_vars
                 PROVE  Promise!Next \/ UNCHANGED Promise!promiseVars
      OBVIOUS
    <2>1. CASE \E w \in Windows : NewTab(w)
      <3> PICK w \in Windows : NewTab(w)
        BY <2>1
      <3>1. PICK new \in TabIds : new = nextTab
        BY DEF NewTab
      <3>2. Promise!Open(new)
        BY <3>1, NewTabOpens
      <3> QED
        BY <3>2 DEF Promise!Next
    <2>2. CASE \E w \in Windows : Navigate(w)
      <3> PICK w \in Windows : Navigate(w)
        BY <2>2
      <3>1. PICK asked \in TabIds : asked = active[w]
        BY DEF Navigate, IInv, TypeOK
      <3>2. Promise!Ask(asked)
        BY <3>1, NavigateAsks
      <3> QED
        BY <3>2 DEF Promise!Next
    <2>3. CASE \E w \in Windows : Pump(w)
      <3> PICK w \in Windows : Pump(w)
        BY <2>3
      <3>1. PICK settled \in SUBSET TabIds :
              settled = {tab \in TabIds : activeTask[tab] \in Accepted(w)}
        OBVIOUS
      <3>2. PICK replaced \in SUBSET TabIds :
              replaced = {tab \in TabIds : shown'[tab] # shown[tab]}
        OBVIOUS
      <3>3. Promise!Settle(settled, replaced)
        BY <3>1, <3>2, PumpSettles
      <3> QED
        BY <3>3 DEF Promise!Next
    <2>4. CASE \E w \in Windows : CloseWindow(w)
      <3> PICK w \in Windows : CloseWindow(w)
        BY <2>4
      <3>1. PICK tabs \in SUBSET TabIds : tabs = TabsOf(w)
        BY DEF TabsOf
      <3>2. Promise!Close(tabs)
        BY <3>1, CloseWindowCloses
      <3> QED
        BY <3>2 DEF Promise!Next
    <2>5. CASE UNCHANGED <<owner, gen, activeTask, shown, genOf>>
      BY <2>5, PromiseVars DEF Promise!promiseVars, Open, Loading, Showing
    <2> QED
      BY <2>1, <2>2, <2>3, <2>4, <2>5
         DEF Next, Loader, OpenWindow, Select, DestroyApp, JoinLoader, TakeTask,
             StartTask, LoadAtOnce, LoadAsync, PollNetwork, SkipPoll, XhrPass,
             ReapTask, CheckDone, Terminated, vars, uiVars, inputVars
  <1> QED
    BY <1>1, <1>2, Inductive, PTL DEF Spec, KeepsPromise, Promise!Spec
=============================================================================
