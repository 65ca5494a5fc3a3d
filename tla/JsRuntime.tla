----------------------------- MODULE JsRuntime -----------------------------
(***************************************************************************)
(* The script side of a page (TaiJsContext, src/js.c, and the tables of    *)
(* src/js_scheduling.js): entries from C into JavaScript with their time   *)
(* limit, and the timers.  The steps of a running script stand here as     *)
(* actions of their own; Pages adds what scripts do to the document and    *)
(* what C does when they return.                                           *)
(*                                                                         *)
(* Time is in units.  One unit is the least period of an interval; the two *)
(* second limit of an entry, the thirty seconds a synchronous request may  *)
(* add to it, delays and blocking are given in it.  A load that is told to *)
(* stop interrupts its scripts as well; PageLoads has that.                *)
(***************************************************************************)
EXTENDS Naturals, Sequences, FiniteSets, SequencesExt

CONSTANTS
    Delays,         \* delays scripts pass to setTimeout and setInterval
    Blockings,      \* how long a synchronous request may block
    ScriptLimit,    \* the limit of an entry: 2 s
    BlockLimit,     \* what blocking may add to it: 30 s
    Budget,         \* timers one pass runs: PRES_TASK_BUDGET
    MaxClock,       \* bound on the clock
    MaxHandles,     \* bound on the timers ever made
    None

ASSUME JsRuntimeAssumption ==
    /\ Delays \subseteq Nat /\ Blockings \subseteq Nat \ {0}
    /\ ScriptLimit \in Nat \ {0} /\ BlockLimit \in Nat
    /\ Budget \in Nat \ {0} /\ MaxClock \in Nat /\ MaxHandles \in Nat
    /\ None \notin Nat

VARIABLES
    clock,          \* tai_js_clock
    timers,         \* the timers by the order they were armed in
    callbacks,      \* handles in SET_INTERVAL_REQUESTS, by TRUE, and _TIMEOUT_
    nextHandle,     \* NEXT_TIMER_HANDLE
    half,           \* for the properties: timers of which a call of setTimeout,
                    \* setInterval or clearInterval did only one half
    entry,          \* the outermost entry into JavaScript, or None
    prevented,      \* whether a listener of the dispatch called preventDefault
    pass,           \* tai_js_run_timers: its now and what is left of its budget
    lastRun         \* for the properties: when the timer last run was due

timerVars == <<timers, callbacks, nextHandle, half, lastRun>>
jsVars == <<clock, timerVars, entry, prevented, pass>>

Handles == 0..(MaxHandles - 1)
Timers == [handle : Handles, interval : BOOLEAN, due : Nat, period : Nat]

JsTypeOK ==
    /\ clock \in 0..MaxClock
    /\ timers \in Seq(Timers)
    /\ callbacks \in [BOOLEAN -> SUBSET Handles] /\ half \subseteq Handles
    /\ nextHandle \in 0..MaxHandles
    /\ entry # None => entry.since <= clock /\ entry.extended <= BlockLimit
    /\ prevented \in BOOLEAN
    /\ pass # None => pass.left \in 0..Budget
    /\ lastRun \in Nat

JsInit ==
    /\ clock = 0
    /\ timers = <<>> /\ callbacks = [interval \in BOOLEAN |-> {}]
    /\ nextHandle = 0 /\ half = {}
    /\ entry = None /\ prevented = FALSE
    /\ pass = None
    /\ lastRun = 0

-----------------------------------------------------------------------------
(* Entries.  since and blocked are for the properties: when the entry began *)
(* and how much of it went by in synchronous requests.                     *)

Running == entry # None

Outermost == [since |-> clock, deadline |-> clock + ScriptLimit,
              extended |-> 0, blocked |-> 0]

EnterRenewing(e) ==
    IF e = None THEN Outermost
    ELSE [e EXCEPT !.deadline = clock + ScriptLimit, !.extended = 0]

\* enter_js: only the outermost entry sets the deadline.
Enter(e) == IF e = None THEN Outermost ELSE e

\* tai_js_dispatch_event, run_task and tai_js_run_animation_frame.
EnterJs ==
    /\ entry' = Enter(entry)
    /\ prevented' = FALSE

\* The script returns.
Return ==
    /\ Running
    /\ entry' = None
    /\ UNCHANGED <<clock, timerVars, prevented, pass>>

\* An aborted dispatch prevents nothing.
Abort == entry' = None /\ prevented' = FALSE

\* interrupt_handler, when QuickJS next polls it after the deadline.
Late == clock >= entry.deadline
Interrupt ==
    /\ Running /\ Late
    /\ Abort
    /\ UNCHANGED <<clock, timerVars, pass>>

Compute ==
    /\ Running /\ ~ Late /\ clock < MaxClock
    /\ clock' = clock + 1
    /\ UNCHANGED <<timerVars, entry, prevented, pass>>

Least(a, b) == IF a <= b THEN a ELSE b

\* What a request that blocked adds to the limit.
Added(blocked) == Least(blocked, BlockLimit - entry.extended)

\* op_xhr_send of a synchronous request: it blocks, extends the deadline and
\* polls the interrupt handler, also when it failed.
SendSync(blocked) ==
    /\ Running /\ clock + blocked <= MaxClock
    /\ clock' = clock + blocked
    /\ LET deadline == entry.deadline + Added(blocked)
       IN  IF clock' >= deadline THEN Abort
           ELSE /\ entry' = [entry EXCEPT !.deadline = deadline,
                                          !.extended = @ + Added(blocked),
                                          !.blocked = @ + blocked]
                /\ UNCHANGED prevented
    /\ UNCHANGED <<timerVars, pass>>

PreventDefault ==
    /\ Running
    /\ prevented' = TRUE
    /\ UNCHANGED <<clock, timerVars, entry, pass>>

\* The handler has read what its dispatch returned.
EndDispatch ==
    /\ prevented' = FALSE
    /\ UNCHANGED <<clock, timerVars, entry, pass>>

-----------------------------------------------------------------------------
(* Timers.  A call has two halves: js_scheduling.js stores or deletes the    *)
(* callback, then call_python arms or drops the timer in C.  Between them    *)
(* the argument goes through JSON, which may throw, as may the memory limit, *)
(* and the time limit may strike: then the second half is not done.  Left    *)
(* out: a toJSON that makes calls of its own, and scripts that call          *)
(* call_python or change the two tables themselves.                          *)

ClearedCallbackOnly(handle) == timers

Armed(interval) ==
    {timers[i].handle : i \in {j \in DOMAIN timers : timers[j].interval = interval}}

IntervalsNamed(handle) ==
    {i \in DOMAIN timers : timers[i].interval /\ timers[i].handle = handle}

\* Takes an interval with this handle out of the array, if there is one.
WithoutInterval(handle) ==
    IF IntervalsNamed(handle) = {} THEN timers
    ELSE RemoveAt(timers, CHOOSE i \in IntervalsNamed(handle) : TRUE)

\* The second half threw, and the script may go on, or was interrupted.
CutShort ==
    \/ UNCHANGED <<entry, prevented>>
    \/ Late /\ Abort

\* arm_timer.  An interval waits at least one unit.
Arm(handle, interval, delay) ==
    LET period == IF interval /\ delay = 0 THEN 1 ELSE delay
        armed  == [handle |-> handle, interval |-> interval,
                   due |-> clock + period, period |-> period]
        others == IF interval THEN WithoutInterval(handle) ELSE timers
    IN  timers' = Append(others, armed)

\* setTimeout and setInterval.
SetTimer(interval, delay) ==
    /\ Running /\ nextHandle < MaxHandles
    /\ nextHandle' = nextHandle + 1
    /\ callbacks' = [callbacks EXCEPT ![interval] = @ \cup {nextHandle}]
    /\ \/ /\ Arm(nextHandle, interval, delay)
          /\ UNCHANGED <<half, entry, prevented>>
       \/ /\ half' = half \cup {nextHandle}
          /\ UNCHANGED timers
          /\ CutShort
    /\ UNCHANGED <<clock, pass, lastRun>>

\* clearInterval, which may be given anything.  What JavaScript makes of it as a
\* key, and C of its JSON as an int(), need not name the same timer: 1.5 and
\* TRUE are no keys of the table, an array is no int().  None stands for what
\* names no timer, and for a second half that was not done.  No timeout can be
\* cleared.
ClearInterval(key, number) ==
    /\ Running
    /\ callbacks' = [callbacks EXCEPT ![TRUE] = @ \ {key}]
    /\ timers' = WithoutInterval(number)
    /\ half' = IF key = number THEN half
               ELSE half \cup ({key, number} \cap (callbacks[TRUE] \cup Armed(TRUE)))
    /\ IF number = None THEN CutShort ELSE UNCHANGED <<entry, prevented>>
    /\ UNCHANGED <<clock, nextHandle, pass, lastRun>>

FirstArmed == 1

\* next_due_timer: the earliest, of several the one armed first.
NextDue ==
    CHOOSE i \in DOMAIN timers : \A j \in DOMAIN timers :
        \/ timers[i].due < timers[j].due
        \/ timers[i].due = timers[j].due /\ i <= j

\* A pass of tai_js_run_timers runs what is due at its beginning.
BeginPass ==
    /\ pass' = [now |-> clock, left |-> Budget]
    /\ UNCHANGED <<clock, timerVars, entry, prevented>>

HasDue ==
    pass.left > 0 /\ timers # <<>> /\ timers[NextDue].due <= pass.now

\* An interval keeps to its ideal timeline.
Rearmed(t) == [t EXCEPT !.due = @ + t.period]

\* One timer: an interval is armed again, a timeout gone, before it runs.
RunTimer ==
    /\ pass # None /\ ~ Running /\ HasDue
    /\ LET t    == timers[NextDue]
           rest == RemoveAt(timers, NextDue)
       IN  /\ timers' = IF t.interval THEN Append(rest, Rearmed(t)) ELSE rest
           /\ callbacks' = IF t.interval THEN callbacks
                           ELSE [callbacks EXCEPT ![FALSE] = @ \ {t.handle}]
           /\ IF t.handle \in callbacks[t.interval] THEN EnterJs
              ELSE UNCHANGED <<entry, prevented>>
           /\ lastRun' = t.due
    /\ pass' = [pass EXCEPT !.left = @ - 1]
    /\ UNCHANGED <<clock, nextHandle, half>>

EndPass ==
    /\ ~ Running /\ ~ HasDue
    /\ pass' = None
    /\ UNCHANGED <<clock, timerVars, entry, prevented>>

\* Between the entries.
TimePasses ==
    /\ ~ Running /\ clock < MaxClock
    /\ clock' = clock + 1
    /\ UNCHANGED <<timerVars, entry, prevented, pass>>

ScriptStep ==
    \/ Return \/ Interrupt \/ Compute
    \/ \E blocked \in Blockings : SendSync(blocked)
    \/ \E interval \in BOOLEAN, delay \in Delays : SetTimer(interval, delay)
    \/ \E key, number \in 0..(nextHandle - 1) \cup {None} :
           ClearInterval(key, number)

-----------------------------------------------------------------------------
(* Properties.                                                             *)

\* Timers run in the order they are due, over all passes and however late: an
\* interval that catches up, or is armed again by its own callback, never
\* holds up a timer that was due before (next_due_timer, tai_js_run_timers).
TimersRunInOrder == [][lastRun' >= lastRun]_jsVars

\* The timers in C and the callbacks in JavaScript agree, kind by kind, but for
\* those of which a call did one half only, and of these none has both: what was
\* cleared, by either half, or has run as a timeout never runs again, also when a
\* callback clears its own interval while it runs, and a call that did both its
\* halves leaves nothing behind (arm_timer, op_clear_interval, tai_js_run_timers,
\* js_scheduling.js).
TimersMatchCallbacks ==
    /\ \A interval \in BOOLEAN :
           /\ Armed(interval) \ half = callbacks[interval] \ half
           /\ Armed(interval) \cap callbacks[interval] \cap half = {}
    /\ \A i, j \in DOMAIN timers :
           timers[i].handle = timers[j].handle => i = j

\* A script runs for no longer than its limit, not counting the time it was
\* blocked, and goes on for no longer than both limits together; a request
\* that blocked for less than its limit takes nothing from the script's own
\* time (enter_js, op_xhr_send).
ScriptsAreBounded ==
    Running =>
        /\ clock - entry.since - entry.blocked <= ScriptLimit
        /\ clock - entry.since <= ScriptLimit + BlockLimit
        /\ entry.blocked <= BlockLimit
              => entry.deadline = entry.since + ScriptLimit + entry.blocked

=============================================================================
