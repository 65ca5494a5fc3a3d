---------------------------- MODULE PagesProofs -----------------------------
(***************************************************************************)
(* Proofs about Pages and, in it, about JsRuntime, for every document and  *)
(* every number of timers.                                                 *)
(*                                                                         *)
(* The two halves hardly meet: JsInv is about the clock, the entries and   *)
(* the timers, of which a step of a page is one of a few steps (JsStep);   *)
(* DomInv and PageInv are about the tree and what a page keeps of it.      *)
(***************************************************************************)
EXTENDS Pages, WellFoundedInduction, FiniteSetTheorems, TLAPS

-----------------------------------------------------------------------------
(* The runtime's part of the inductive invariant.                          *)

\* The array of timers against the handles given out and the latest due time
\* that has run.
TimersOK(ts, next, low) ==
    /\ ts \in Seq(Timers)
    /\ \A i, j \in DOMAIN ts : ts[i].handle = ts[j].handle => i = j
    /\ \A i \in DOMAIN ts : ts[i].handle < next /\ ts[i].due >= low

\* The timers of each kind against its callbacks.  No handle is of both kinds,
\* which is why clearing an interval, by halves even, does nothing to a timeout.
MatchInv ==
    /\ callbacks \in [BOOLEAN -> SUBSET Handles]
    /\ half \subseteq 0..(nextHandle - 1)
    /\ \A interval \in BOOLEAN :
           /\ callbacks[interval] \subseteq 0..(nextHandle - 1)
           /\ Armed(interval) \ half = callbacks[interval] \ half
           /\ Armed(interval) \cap callbacks[interval] \cap half = {}
    /\ (Armed(TRUE) \cup callbacks[TRUE])
           \cap (Armed(FALSE) \cup callbacks[FALSE]) = {}

TimerInv ==
    /\ nextHandle \in 0..MaxHandles
    /\ lastRun \in Nat /\ lastRun <= clock
    /\ TimersOK(timers, nextHandle, lastRun)
    /\ MatchInv

Entries == [since : Nat, deadline : Nat, extended : 0..BlockLimit,
            blocked : Nat]

\* js->deadline: what is left of the limits of the entry.
EntryOK(e) ==
    /\ e \in Entries
    /\ e.since <= clock /\ clock <= e.deadline
    /\ e.deadline = e.since + ScriptLimit + e.extended
    /\ e.extended = Least(e.blocked, BlockLimit)
EntryInv == Running => EntryOK(entry)

PassInv == pass # None => /\ pass \in [now : Nat, left : 0..Budget]
                          /\ pass.now <= clock

JsInv ==
    /\ clock \in 0..MaxClock /\ prevented \in BOOLEAN
    /\ EntryInv
    /\ TimerInv
    /\ PassInv

-----------------------------------------------------------------------------
(* The page's part.                                                        *)

DomTypes ==
    /\ tag \in [Nodes -> Tags \cup {None}] /\ Root \in Made
    /\ parent \in [Nodes -> Made \cup {None}]
    /\ children \in [Nodes -> Seq(Made)]
    /\ idOf \in [Nodes -> Ids \cup {None}]
    /\ \A n \in Nodes \ Made : parent[n] = None /\ children[n] = <<>>

\* node->children and node->parent agree, and no node is above itself.
TreeInv ==
    /\ \A n \in Nodes : /\ IsInjective(children[n])
                        /\ ToSet(children[n]) = {m \in Made : parent[m] = n}
    /\ \A n \in Nodes : parent[n] # None => n \notin Chain(parent[n])

FocusInv ==
    /\ focused \in Made \cup {None} /\ scrollFocus \in Made \cup {None}
    /\ FocusIsInDocument

\* Scripts run inside a handler; only a click or a submit has changed anything
\* before them.
Tasks == [kind : {"click", "submit", "keydown", "frame", "tasks"},
          target : Made \cup {None}, candidate : Made \cup {None},
          changed : BOOLEAN]
TaskInv ==
    /\ Running => task # None
    /\ task # None => /\ task \in Tasks
                      /\ task.kind = "click" => task.target \in Made
                      /\ task.kind \notin {"click", "submit"} => ~ task.changed

\* What the frame still shows while a handler runs.
FrameInv ==
    /\ dirty \in BOOLEAN
    /\ frame \in [nodes : SUBSET Made, focus : Made \cup {None}]
    /\ task = None => ~ dirty /\ frame.focus = focused
    /\ ~ dirty => frame.nodes = Below(Root)
    /\ task # None /\ ~ dirty /\ ~ task.changed => frame.focus = focused

\* What window has under the names of the ids.
IdInv ==
    /\ globals \in [Ids -> Made \cup {None, Other}] /\ fresh \subseteq Ids
    /\ IdGlobalsAreCurrent

IInv ==
    /\ JsInv
    /\ DomTypes
    /\ TreeInv
    /\ FocusInv
    /\ TaskInv
    /\ FrameInv
    /\ IdInv

-----------------------------------------------------------------------------
(* Numbers and sequences.                                                  *)

\* By the prefixes of the natural numbers, which are finite sets.
LEMMA LeastNatural ==
    ASSUME NEW T \in SUBSET Nat, T # {}
    PROVE  \E x \in T : \A y \in T : x <= y
<1> DEFINE Segments == {0..(k - 1) : k \in T}
           R == StrictSubsetOrdering(Nat)
           S == FiniteSubsetsOf(Nat)
<1>1. Segments \subseteq S
  <2> SUFFICES ASSUME NEW k \in T PROVE 0..(k - 1) \in S
    OBVIOUS
  <2>1. k \in Nat
    OBVIOUS
  <2>2. 0 \in Int /\ k - 1 \in Int
    BY <2>1
  <2>3. IsFiniteSet(0..(k - 1))
    BY <2>2, FS_Interval
  <2> QED
    BY <2>1, <2>3 DEF FiniteSubsetsOf
<1>2. IsWellFoundedOn(R, S)
  BY FS_StrictSubsetOrderingWellFounded
<1>3. Segments # {}
  OBVIOUS
<1>4. PICK least \in Segments : \A other \in Segments : <<other, least>> \notin R
  <2> HIDE DEF Segments, R, S
  <2> QED
    BY <1>1, <1>2, <1>3, WFMin
<1>5. PICK x \in T : least = 0..(x - 1)
  OBVIOUS
<1>6. ASSUME NEW y \in T, y < x PROVE FALSE
  <2>1. 0..(y - 1) \in Segments /\ 0..(y - 1) \subseteq least
    BY <1>5, <1>6
  <2>2. y \in least /\ y \notin 0..(y - 1)
    BY <1>5, <1>6
  <2>3. least \subseteq Nat /\ 0..(y-1) \subseteq Nat
    BY <1>5
  <2>4. <<0..(y - 1), least>> \in R
    BY <2>1, <2>2, <2>3 DEF StrictSubsetOrdering
  <2> QED
    BY <1>4, <2>1, <2>4
<1> QED
  BY <1>6

LEMMA RemoveAtElements ==
    ASSUME NEW S, NEW s \in Seq(S), NEW n \in 1..Len(s)
    PROVE  /\ RemoveAt(s, n) \in Seq(S)
           /\ Len(RemoveAt(s, n)) = Len(s) - 1
           /\ \A i \in 1..(Len(s) - 1) :
                  RemoveAt(s, n)[i] = IF i < n THEN s[i] ELSE s[i + 1]
  <1> DEFINE a == SubSeq(s, 1, n - 1)
             b == SubSeq(s, n + 1, Len(s))
  <1>1. /\ a \in Seq(S) /\ Len(a) = n - 1
        /\ \A i \in 1..(n - 1) : a[i] = s[i]
    OBVIOUS
  <1>2. b \in Seq(S) /\ Len(b) = Len(s) - n
    OBVIOUS
  <1>3. ASSUME NEW i \in 1..(Len(s) - n) PROVE b[i] = s[n + i]
    OBVIOUS
  <1>4. RemoveAt(s, n) = a \o b
    BY DEF RemoveAt
  <1> HIDE DEF a, b
  <1>5. (a \o b) \in Seq(S) /\ Len(a \o b) = Len(s) - 1
    BY <1>1, <1>2
  <1>6. ASSUME NEW i \in 1..(Len(s) - 1)
        PROVE  (a \o b)[i] = IF i < n THEN s[i] ELSE s[i + 1]
    <2>1. CASE i < n
      BY <1>1, <1>2, <2>1
    <2>2. CASE ~ (i < n)
      <3>1. /\ i - (n - 1) \in 1..(Len(s) - n)
            /\ n + (i - (n - 1)) = i + 1
        BY <2>2
      <3>2. (a \o b)[i] = b[i - (n - 1)]
        <4>1. i \in 1..(Len(a) + Len(b)) /\ i > Len(a)
          BY <1>1, <1>2, <2>2
        <4>2. (a \o b)[i] = b[i - Len(a)]
          BY <1>1, <1>2, <4>1
        <4> QED
          BY <1>1, <4>2
      <3> QED
        BY <1>3, <2>2, <3>1, <3>2
    <2> QED
      BY <2>1, <2>2
  <1> QED
    BY <1>4, <1>5, <1>6


\* The handles of the timers of one kind, in any array.
Kind(ts, interval) ==
    {ts[i].handle : i \in {j \in DOMAIN ts : ts[j].interval = interval}}

LEMMA TimerRemoved ==
    ASSUME NEW ts, NEW next, NEW low, TimersOK(ts, next, low),
           NEW k \in DOMAIN ts
    PROVE  /\ TimersOK(RemoveAt(ts, k), next, low)
           /\ \A i \in DOMAIN RemoveAt(ts, k) :
                  RemoveAt(ts, k)[i].handle # ts[k].handle
           /\ \A kind : Kind(RemoveAt(ts, k), kind) =
                  IF kind = ts[k].interval THEN Kind(ts, kind) \ {ts[k].handle}
                  ELSE Kind(ts, kind)
<1> DEFINE rest == RemoveAt(ts, k)
           from(i) == IF i < k THEN i ELSE i + 1
<1>1. ts \in Seq(Timers) /\ k \in 1..Len(ts) /\ DOMAIN ts = 1..Len(ts)
  BY DEF TimersOK
<1>2. /\ rest \in Seq(Timers) /\ Len(rest) = Len(ts) - 1
      /\ \A i \in 1..(Len(ts) - 1) : rest[i] = ts[from(i)]
  BY <1>1, RemoveAtElements
<1>3. DOMAIN rest = 1..(Len(ts) - 1)
  BY <1>2
<1> HIDE DEF rest
<1>4. \A i \in DOMAIN rest : from(i) \in DOMAIN ts /\ from(i) # k
  BY <1>1, <1>3
<1>5. \A i, j \in DOMAIN rest : from(i) = from(j) => i = j
  BY <1>1, <1>3
<1>6. ASSUME NEW m \in DOMAIN ts, m # k
      PROVE  \E i \in DOMAIN rest : from(i) = m
  <2>1. CASE m < k
    BY <1>1, <1>3, <2>1
  <2>2. CASE ~ (m < k)
    <3>1. m - 1 \in DOMAIN rest /\ from(m - 1) = m
      BY <1>1, <1>3, <1>6, <2>2
    <3> QED
      BY <3>1
  <2> QED
    BY <2>1, <2>2
<1>7. \A i \in DOMAIN rest : rest[i] = ts[from(i)]
  BY <1>2, <1>3
<1> HIDE DEF from
<1>8. \A i, j \in DOMAIN rest : rest[i].handle = rest[j].handle => i = j
  BY <1>4, <1>5, <1>7 DEF TimersOK
<1>9. \A i \in DOMAIN rest : rest[i].handle # ts[k].handle
  BY <1>4, <1>7 DEF TimersOK
<1>10. \A i \in DOMAIN rest : rest[i].handle < next /\ rest[i].due >= low
  BY <1>4, <1>7 DEF TimersOK
<1>11. ASSUME NEW kind
       PROVE  Kind(rest, kind) = IF kind = ts[k].interval
                                 THEN Kind(ts, kind) \ {ts[k].handle}
                                 ELSE Kind(ts, kind)
  <2>1. ASSUME NEW h \in Kind(rest, kind)
        PROVE  h \in Kind(ts, kind) /\ h # ts[k].handle
    <3>1. PICK i \in DOMAIN rest : rest[i].interval = kind /\ rest[i].handle = h
      BY DEF Kind
    <3> QED
      BY <1>4, <1>7, <1>9, <3>1 DEF Kind
  <2>2. ASSUME NEW h \in Kind(ts, kind), h # ts[k].handle \/ kind # ts[k].interval
        PROVE  h \in Kind(rest, kind)
    <3>1. PICK m \in DOMAIN ts : ts[m].interval = kind /\ ts[m].handle = h
      BY DEF Kind
    <3>2. m # k
      BY <2>2, <3>1
    <3>3. PICK i \in DOMAIN rest : from(i) = m
      BY <1>6, <3>2
    <3>4. rest[i].interval = kind /\ rest[i].handle = h
      BY <1>7, <3>1, <3>3
    <3> QED
      BY <3>4 DEF Kind
  <2>3. CASE kind = ts[k].interval
    BY <2>1, <2>2, <2>3
  <2>4. CASE kind # ts[k].interval
    BY <2>1, <2>2, <2>4
  <2> QED
    BY <2>3, <2>4
<1>12. TimersOK(rest, next, low)
  BY <1>2, <1>8, <1>10 DEF TimersOK
<1> QED
  BY <1>9, <1>11, <1>12 DEF rest

LEMMA TimerAppended ==
    ASSUME NEW ts, NEW next \in Nat, NEW low, TimersOK(ts, next, low),
           NEW t \in Timers, \A i \in DOMAIN ts : ts[i].handle # t.handle,
           t.due >= low, NEW later \in Nat, next <= later, t.handle < later
    PROVE  /\ TimersOK(Append(ts, t), later, low)
           /\ \A kind : Kind(Append(ts, t), kind) =
                  IF kind = t.interval THEN Kind(ts, kind) \cup {t.handle}
                  ELSE Kind(ts, kind)
<1> DEFINE more == Append(ts, t)
<1>1. ts \in Seq(Timers) /\ DOMAIN ts = 1..Len(ts) /\ Len(ts) \in Nat
  BY DEF TimersOK
<1>2. /\ more \in Seq(Timers) /\ DOMAIN more = 1..(Len(ts) + 1)
      /\ \A i \in 1..Len(ts) : more[i] = ts[i]
      /\ more[Len(ts) + 1] = t
  BY <1>1
<1> HIDE DEF more
<1>3. /\ DOMAIN more = DOMAIN ts \cup {Len(ts) + 1}
      /\ \A i \in DOMAIN ts : more[i] = ts[i]
  BY <1>1, <1>2
<1>4. \A i, j \in DOMAIN more : more[i].handle = more[j].handle => i = j
  BY <1>2, <1>3 DEF TimersOK
<1>5. ASSUME NEW i \in DOMAIN more
      PROVE  more[i].handle < later /\ more[i].due >= low
  <2>1. CASE i \in DOMAIN ts
    <3>1. more[i] = ts[i] /\ ts[i] \in Timers /\ ts[i].handle < next
          /\ ts[i].due >= low
      BY <1>1, <1>2, <2>1 DEF TimersOK
    <3>2. ts[i].handle \in Nat
      BY <3>1 DEF Timers, Handles
    <3> QED
      BY <3>1, <3>2
  <2>2. CASE i = Len(ts) + 1
    BY <1>2, <2>2
  <2> QED
    BY <1>3, <2>1, <2>2
<1>6. ASSUME NEW kind
      PROVE  Kind(more, kind) = IF kind = t.interval
                                THEN Kind(ts, kind) \cup {t.handle}
                                ELSE Kind(ts, kind)
  <2>1. ASSUME NEW h \in Kind(more, kind)
        PROVE  h \in Kind(ts, kind) \/ (h = t.handle /\ kind = t.interval)
    <3>1. PICK i \in DOMAIN more : more[i].interval = kind /\ more[i].handle = h
      BY DEF Kind
    <3> QED
      BY <1>2, <1>3, <3>1 DEF Kind
  <2>2. Kind(ts, kind) \subseteq Kind(more, kind)
    BY <1>3 DEF Kind
  <2>3. kind = t.interval => t.handle \in Kind(more, kind)
    <3>1. Len(ts) + 1 \in DOMAIN more
      BY <1>3
    <3> QED
      BY <1>2, <3>1 DEF Kind
  <2> QED
    BY <2>1, <2>2, <2>3
<1>7. TimersOK(more, later, low)
  BY <1>2, <1>4, <1>5 DEF TimersOK
<1> QED
  BY <1>6, <1>7 DEF more

\* next_due_timer finds one, and it is the first to run.
LEMMA NextDueIsEarliest ==
    ASSUME timers \in Seq(Timers), timers # <<>>
    PROVE  /\ NextDue \in DOMAIN timers
           /\ \A i \in DOMAIN timers : timers[NextDue].due <= timers[i].due
<1> DEFINE Dues == {timers[i].due : i \in DOMAIN timers}
<1>1. \A i \in DOMAIN timers : timers[i].due \in Nat
  <2>1. \A i \in DOMAIN timers : timers[i] \in Timers
    OBVIOUS
  <2> QED
    BY <2>1 DEF Timers
<1>2. 1 \in DOMAIN timers
  OBVIOUS
<1>3. PICK d \in Dues : \A e \in Dues : d <= e
  BY <1>1, <1>2, LeastNatural
<1> DEFINE First == {i \in DOMAIN timers : timers[i].due = d}
<1>4. First \in SUBSET Nat /\ First # {}
  BY <1>3
<1>5. PICK k \in First : \A i \in First : k <= i
  <2> HIDE DEF First
  <2> QED
    BY <1>4, LeastNatural
<1>6. \A j \in DOMAIN timers :
          \/ timers[k].due < timers[j].due
          \/ timers[k].due = timers[j].due /\ k <= j
  <2> SUFFICES ASSUME NEW j \in DOMAIN timers
               PROVE  \/ timers[k].due < timers[j].due
                      \/ timers[k].due = timers[j].due /\ k <= j
    OBVIOUS
  <2>1. timers[k].due = d /\ d <= timers[j].due /\ d \in Nat
    BY <1>1, <1>3
  <2>2. CASE timers[j].due = d
    BY <1>5, <2>1, <2>2
  <2>3. CASE timers[j].due # d
    BY <1>1, <2>1, <2>3
  <2> QED
    BY <2>2, <2>3
<1>7. /\ NextDue \in DOMAIN timers
      /\ \A j \in DOMAIN timers :
             \/ timers[NextDue].due < timers[j].due
             \/ timers[NextDue].due = timers[j].due /\ NextDue <= j
  BY <1>5, <1>6 DEF NextDue
<1> QED
  BY <1>1, <1>7

-----------------------------------------------------------------------------
(* Every step of a page is one of these to its runtime.                    *)

\* The handlers and the bridge may end an entry or a dispatch.
Leaves ==
    /\ entry' \in {entry, None} /\ prevented' \in {prevented, TRUE, FALSE}
    /\ UNCHANGED <<clock, timerVars, pass>>

Enters == EnterJs /\ UNCHANGED <<clock, timerVars, pass>>

JsStep ==
    \/ Leaves \/ Enters
    \/ Compute \/ TimePasses
    \/ \E blocked \in Blockings : SendSync(blocked)
    \/ \E interval \in BOOLEAN, delay \in Delays : SetTimer(interval, delay)
    \/ \E key, number \in 0..(nextHandle - 1) \cup {None} :
           ClearInterval(key, number)
    \/ BeginPass \/ RunTimer \/ EndPass

LEMMA AfterMutationLeaves ==
    ASSUME Running, NEW changed, AfterMutation(changed) PROVE Leaves
BY DEF AfterMutation, Abort, Leaves, Enter, Running

LEMMA BridgeLeaves ==
    ASSUME BridgeCall PROVE Leaves
<1>1. ASSUME NEW n \in Nodes, NEW t \in NewTags, CreateElement(n, t)
      PROVE  Leaves
  BY <1>1 DEF CreateElement, Leaves, jsVars, timerVars
<1>2. ASSUME NEW p \in Made, NEW c \in Made, RemoveChild(p, c)
      PROVE  Leaves
  BY <1>2, AfterMutationLeaves DEF RemoveChild
<1>3. ASSUME NEW p \in Made, NEW c \in Made, NEW ref \in Made \cup {None},
             InsertBefore(p, c, ref)
      PROVE  Leaves
  BY <1>3, AfterMutationLeaves DEF InsertBefore
<1>4. ASSUME NEW p \in Made, SetTextContent(p)
      PROVE  Leaves
  <2>1. Running /\ AfterMutation(children[p] # <<>>)
    BY <1>4 DEF SetTextContent
  <2> QED
    BY <2>1, AfterMutationLeaves
<1>5. ASSUME NEW p \in Made, NEW new, SetInnerHtml(p, new)
      PROVE  Leaves
  <2>1. Running /\ AfterMutation(TRUE)
    BY <1>5 DEF SetInnerHtml
  <2> QED
    BY <2>1, AfterMutationLeaves
<1>6. ASSUME NEW p \in Made, NEW id \in Ids \cup {None}, SetId(p, id)
      PROVE  Leaves
  BY <1>6, AfterMutationLeaves DEF SetId
<1>7. CASE SetAttribute
  BY <1>7, AfterMutationLeaves DEF SetAttribute
<1>8. ASSUME NEW id \in Ids, SetGlobal(id)
      PROVE  Leaves
  BY <1>8 DEF SetGlobal, Leaves, jsVars, timerVars
<1> QED
  BY <1>1, <1>2, <1>3, <1>4, <1>5, <1>6, <1>7, <1>8 DEF BridgeCall

LEMMA OtherStepIsJsStep ==
    ASSUME OtherStep PROVE JsStep
BY DEF OtherStep, ScriptStep, JsStep, Leaves, Return, Interrupt, Abort,
       PreventDefault

LEMMA HandlerIsJsStep ==
    ASSUME Handler PROVE JsStep
<1>1. UNCHANGED jsVars => Leaves
  BY DEF Leaves, jsVars, timerVars
<1>2. ASSUME NEW kind, NEW target, NEW candidate, NEW changed,
             Dispatch(kind, target, candidate, changed)
      PROVE  Enters
  BY <1>2 DEF Dispatch, Enters
<1>3. EndDispatch => Leaves
  BY DEF EndDispatch, Leaves
<1>4. Click => Leaves \/ Enters
  BY <1>1, <1>2 DEF Click
<1>5. ClickDefault => Leaves \/ Enters
  BY <1>2, <1>3 DEF ClickDefault, Submit
<1>6. SubmitDefault \/ TextInputDefault => Leaves
  BY <1>3 DEF SubmitDefault, TextInputDefault
<1>7. TextInput \/ AnimationFrame => Enters
  BY <1>2 DEF TextInput, AnimationFrame
<1>8. Key => Leaves \/ Enters
  BY <1>1, <1>2 DEF Key, Submit
<1>9. BlurInput \/ ScrollBy \/ Resize \/ EndFrame => Leaves
  BY <1>1 DEF BlurInput, ScrollBy, Resize, EndFrame
<1>10. Onload => Enters
  BY DEF Onload, Enters
<1>11. RunTasks => BeginPass
  BY DEF RunTasks
<1>12. NextTimer => RunTimer
  BY DEF NextTimer
<1>13. EndTasks => EndPass
  BY DEF EndTasks
<1> QED
  BY <1>4, <1>5, <1>6, <1>7, <1>8, <1>9, <1>10, <1>11, <1>12, <1>13
     DEF Handler, JsStep

LEMMA NextIsJsStep ==
    ASSUME [Next]_vars PROVE JsStep
<1>1. CASE BridgeCall
  BY <1>1, BridgeLeaves DEF JsStep
<1>2. CASE OtherStep
  BY <1>2, OtherStepIsJsStep
<1>3. CASE Handler
  BY <1>3, HandlerIsJsStep
<1>4. CASE Wait
  BY <1>4 DEF Wait, JsStep
<1>5. CASE UNCHANGED vars
  BY <1>5 DEF vars, jsVars, timerVars, Leaves, JsStep
<1> QED
  BY <1>1, <1>2, <1>3, <1>4, <1>5 DEF Next

-----------------------------------------------------------------------------
(* None of them breaks JsInv.                                              *)

Clocked == clock \in 0..MaxClock

LEMMA ClockIsNat ==
    ASSUME Clocked PROVE clock \in Nat /\ clock <= clock
BY JsRuntimeAssumption DEF Clocked

LEMMA OutermostOK ==
    ASSUME Clocked PROVE EntryOK(Outermost)
<1>1. clock \in Nat /\ ScriptLimit \in Nat /\ BlockLimit \in Nat
  BY ClockIsNat, JsRuntimeAssumption
<1>2. Outermost \in Entries
  BY <1>1 DEF Outermost, Entries
<1> QED
  BY <1>1, <1>2 DEF Outermost, EntryOK, Least

LEMMA SameTimers ==
    ASSUME TimerInv, UNCHANGED timerVars, lastRun <= clock' PROVE TimerInv'
<1>1. /\ timers' = timers /\ callbacks' = callbacks /\ half' = half
      /\ nextHandle' = nextHandle /\ lastRun' = lastRun
  BY DEF timerVars
<1>2. \A interval : Armed(interval)' = Armed(interval)
  BY <1>1 DEF Armed
<1>3. MatchInv'
  BY <1>1, <1>2 DEF TimerInv, MatchInv
<1> QED
  BY <1>1, <1>3 DEF TimerInv

\* The rest of JsInv where only the entry or the dispatch changes.
LEMMA OnlyEntryChanges ==
    ASSUME JsInv, UNCHANGED <<clock, timerVars, pass>>,
           EntryInv', prevented' \in BOOLEAN
    PROVE  JsInv'
<1>1. /\ clock' = clock /\ UNCHANGED timerVars /\ lastRun' = lastRun
      /\ pass' = pass
  BY DEF timerVars
<1>2. TimerInv'
  <2>1. TimerInv /\ lastRun <= clock'
    BY <1>1 DEF JsInv, TimerInv
  <2> QED
    BY <1>1, <2>1, SameTimers
<1>3. PassInv'
  BY <1>1 DEF JsInv, PassInv
<1> QED
  BY <1>1, <1>2, <1>3 DEF JsInv

LEMMA EntersKeepsEntry ==
    ASSUME Clocked, EntryInv, EnterJs, clock' = clock PROVE EntryInv'
<1>1. CASE entry = None
  <2>1. entry' = Outermost
    BY <1>1 DEF EnterJs, Enter
  <2>2. EntryOK(Outermost)
    BY OutermostOK
  <2> QED
    BY <2>1, <2>2 DEF EntryInv, EntryOK
<1>2. CASE entry # None
  <2>1. entry' = entry
    BY <1>2 DEF EnterJs, Enter
  <2> QED
    BY <1>2, <2>1 DEF EntryInv, EntryOK, Running
<1> QED
  BY <1>1, <1>2

LEMMA LeavesInv == ASSUME JsInv, Leaves PROVE JsInv'
<1>1. EntryInv'
  BY DEF JsInv, Leaves, EntryInv, EntryOK, Running
<1> QED
  BY <1>1, OnlyEntryChanges DEF Leaves, JsInv

LEMMA EntersInv == ASSUME JsInv, Enters PROVE JsInv'
<1>1. EntryInv'
  BY EntersKeepsEntry DEF JsInv, Clocked, Enters
<1> QED
  BY <1>1, OnlyEntryChanges DEF Enters, EnterJs

\* The clock advances: what was in the past still is.
LEMMA ClockAdvances ==
    ASSUME JsInv, clock' \in 0..MaxClock, clock <= clock',
           UNCHANGED <<timerVars, pass>>
    PROVE  TimerInv' /\ PassInv'
<1>1. UNCHANGED timerVars /\ pass' = pass
  OBVIOUS
<1>2. clock \in Nat /\ clock' \in Nat
  BY JsRuntimeAssumption DEF JsInv
<1>3. TimerInv /\ lastRun <= clock'
  BY <1>2 DEF JsInv, TimerInv
<1>4. TimerInv'
  BY <1>1, <1>3, SameTimers
<1>5. PassInv'
  BY <1>1, <1>2 DEF JsInv, PassInv
<1> QED
  BY <1>4, <1>5

LEMMA ComputeInv == ASSUME JsInv, Compute PROVE JsInv'
<1>1. /\ clock' = clock + 1 /\ clock < MaxClock
      /\ entry' = entry /\ prevented' = prevented
      /\ UNCHANGED <<timerVars, pass>>
  BY DEF Compute
<1>2. clock \in Nat /\ clock' \in 0..MaxClock /\ clock <= clock'
  BY <1>1, JsRuntimeAssumption DEF JsInv
<1>3. EntryOK(entry) /\ ~ (clock >= entry.deadline)
  BY DEF JsInv, EntryInv, Compute, Late
<1>4. entry.since \in Nat /\ entry.deadline \in Nat
  BY <1>3 DEF EntryOK, Entries
<1>5. EntryInv'
  BY <1>1, <1>2, <1>3, <1>4 DEF EntryInv, EntryOK
<1> QED
  BY <1>1, <1>2, <1>5, ClockAdvances DEF JsInv

LEMMA TimePassesInv == ASSUME JsInv, TimePasses PROVE JsInv'
<1>1. /\ clock' = clock + 1 /\ clock < MaxClock
      /\ entry' = entry /\ prevented' = prevented
      /\ UNCHANGED <<timerVars, pass>>
  BY DEF TimePasses
<1>2. clock \in Nat /\ clock' \in 0..MaxClock /\ clock <= clock'
  BY <1>1, JsRuntimeAssumption DEF JsInv
<1>3. EntryInv'
  BY <1>1 DEF TimePasses, Running, EntryInv
<1> QED
  BY <1>1, <1>2, <1>3, ClockAdvances DEF JsInv

LEMMA SendSyncInv ==
    ASSUME JsInv, NEW blocked \in Blockings, SendSync(blocked) PROVE JsInv'
<1> DEFINE deadline == entry.deadline + Added(blocked)
<1>1. /\ clock' = clock + blocked /\ clock + blocked <= MaxClock
      /\ UNCHANGED <<timerVars, pass>>
  BY DEF SendSync
<1>2. /\ blocked \in Nat /\ clock \in Nat /\ clock' \in Nat
      /\ clock' \in 0..MaxClock /\ clock <= clock'
  BY <1>1, JsRuntimeAssumption DEF JsInv
<1>3. EntryOK(entry)
  BY DEF JsInv, EntryInv, SendSync
<1>4. /\ entry \in Entries
      /\ entry.since \in Nat /\ entry.deadline \in Nat
      /\ entry.extended \in 0..BlockLimit /\ entry.blocked \in Nat
  BY <1>3 DEF EntryOK, Entries
<1>5. BlockLimit \in Nat /\ ScriptLimit \in Nat
  BY JsRuntimeAssumption
<1>6. EntryInv' /\ prevented' \in BOOLEAN
  <2>1. CASE clock' >= deadline
    <3>1. Abort
      BY <2>1 DEF SendSync
    <3> QED
      BY <3>1 DEF Abort, EntryInv, Running
  <2>2. CASE ~ (clock' >= deadline)
    <3>1. /\ entry' = [entry EXCEPT !.deadline = deadline,
                                    !.extended = @ + Added(blocked),
                                    !.blocked = @ + blocked]
          /\ prevented' = prevented
      BY <2>2 DEF SendSync
    <3>2. /\ Added(blocked) \in Nat
          /\ entry.extended + Added(blocked) \in 0..BlockLimit
          /\ entry.extended + Added(blocked)
                = Least(entry.blocked + blocked, BlockLimit)
      BY <1>2, <1>3, <1>4, <1>5 DEF Added, Least, EntryOK
    <3> DEFINE added == Added(blocked)
               new == [entry EXCEPT !.deadline = entry.deadline + added,
                                    !.extended = @ + added,
                                    !.blocked = @ + blocked]
    <3>3. added \in Nat /\ entry.extended + added \in 0..BlockLimit
          /\ entry.extended + added = Least(entry.blocked + blocked, BlockLimit)
      BY <3>2
    <3>4. entry' = new
      BY <3>1
    <3>5. ~ (clock' >= entry.deadline + added)
      BY <2>2
    <3> HIDE DEF added, deadline
    <3>6. new \in Entries
      <4>1. /\ entry.deadline + added \in Nat
            /\ entry.blocked + blocked \in Nat
        BY <1>2, <1>4, <3>3
      <4> DEFINE e1 == [entry EXCEPT !.deadline = entry.deadline + added]
                 e2 == [e1 EXCEPT !.extended = entry.extended + added]
                 e3 == [e2 EXCEPT !.blocked = entry.blocked + blocked]
      <4>2. e1 \in Entries
        BY <1>4, <4>1 DEF Entries
      <4>3. e2 \in Entries
        <5> HIDE DEF e1
        <5> QED
          BY <3>3, <4>2 DEF Entries
      <4>4. e3 \in Entries
        <5> HIDE DEF e2
        <5> QED
          BY <4>1, <4>3 DEF Entries
      <4>5. new = e3
        BY <1>4 DEF Entries
      <4> QED
        BY <4>4, <4>5
    <3>7. /\ new.since = entry.since /\ new.deadline = entry.deadline + added
          /\ new.extended = entry.extended + added
          /\ new.blocked = entry.blocked + blocked
      BY <1>4 DEF Entries
    <3> HIDE DEF new
    <3>8. /\ new.since <= clock' /\ clock' <= new.deadline
          /\ new.deadline = new.since + ScriptLimit + new.extended
          /\ new.extended = Least(new.blocked, BlockLimit)
      <4>1. entry.since <= clock
        BY <1>3 DEF EntryOK
      <4>2. entry.deadline = entry.since + ScriptLimit + entry.extended
        BY <1>3 DEF EntryOK
      <4>3. entry.extended \in Nat
        BY <1>4, <1>5
      <4> QED
        BY <1>2, <1>4, <1>5, <3>3, <3>5, <3>7, <4>1, <4>2, <4>3
    <3>9. EntryInv'
      BY <3>4, <3>6, <3>8 DEF EntryInv, EntryOK
    <3> QED
      BY <3>1, <3>9 DEF JsInv
  <2> QED
    BY <2>1, <2>2
<1> QED
  BY <1>1, <1>2, <1>6, ClockAdvances DEF JsInv

\* The timers change, the entry and the clock do not.
LEMMA OnlyTimersChange ==
    ASSUME JsInv, TimerInv', entry' \in {entry, None}, prevented' \in BOOLEAN,
           UNCHANGED <<clock, pass>>
    PROVE  JsInv'
<1>1. clock' = clock /\ pass' = pass
  OBVIOUS
<1>2. EntryInv' /\ PassInv'
  BY <1>1 DEF JsInv, EntryInv, EntryOK, Running, PassInv
<1> QED
  BY <1>1, <1>2 DEF JsInv

LEMMA ArmedIsKind ==
    \A interval : /\ Armed(interval) = Kind(timers, interval)
                  /\ Armed(interval)' = Kind(timers', interval)
BY DEF Armed, Kind

\* The tables of the callbacks when one of them is written.
LEMMA TableWritten ==
    ASSUME NEW table \in [BOOLEAN -> SUBSET Handles], NEW kind \in BOOLEAN,
           NEW entries \in SUBSET Handles
    PROVE  /\ [table EXCEPT ![kind] = entries] \in [BOOLEAN -> SUBSET Handles]
           /\ \A other \in BOOLEAN : [table EXCEPT ![kind] = entries][other]
                  = IF other = kind THEN entries ELSE table[other]
OBVIOUS

\* The handles of the timers that are armed have been given out.
LEMMA ArmedHandles ==
    ASSUME TimerInv
    PROVE  \A interval : Armed(interval) \subseteq 0..(nextHandle - 1)
<1> SUFFICES ASSUME NEW i \in DOMAIN timers
             PROVE  timers[i].handle \in 0..(nextHandle - 1)
  BY DEF Armed
<1>1. timers[i] \in Timers /\ timers[i].handle < nextHandle
  BY DEF TimerInv, TimersOK
<1>2. timers[i].handle \in Nat /\ nextHandle \in Nat
  BY <1>1, JsRuntimeAssumption DEF Timers, Handles, TimerInv
<1> QED
  BY <1>1, <1>2

\* What setTimeout and setInterval do to the handles of each kind.
LEMMA HandleGivenOut ==
    ASSUME TimerInv, nextHandle < MaxHandles, nextHandle' = nextHandle + 1,
           NEW interval \in BOOLEAN,
           callbacks' = [callbacks EXCEPT ![interval]
                             = callbacks[interval] \cup {nextHandle}],
           \/ /\ \A kind \in BOOLEAN :
                     Armed(kind)' = IF kind = interval
                                    THEN Armed(kind) \cup {nextHandle}
                                    ELSE Armed(kind)
              /\ half' = half
           \/ /\ \A kind \in BOOLEAN : Armed(kind)' = Armed(kind)
              /\ half' = half \cup {nextHandle}
    PROVE  MatchInv'
<1>1. /\ nextHandle \in Nat /\ MaxHandles \in Nat
      /\ callbacks \in [BOOLEAN -> SUBSET Handles]
  BY JsRuntimeAssumption DEF TimerInv, MatchInv
<1>2. nextHandle \in Handles
  BY <1>1 DEF Handles
<1> DEFINE entries == callbacks[interval] \cup {nextHandle}
<1>3. entries \in SUBSET Handles
  BY <1>1, <1>2
<1> HIDE DEF entries
<1>4. /\ callbacks' \in [BOOLEAN -> SUBSET Handles]
      /\ \A kind \in BOOLEAN : callbacks'[kind] =
             IF kind = interval THEN entries ELSE callbacks[kind]
  BY <1>1, <1>3, TableWritten DEF entries
<1> DEFINE Old == 0..(nextHandle - 1)
           New == 0..(nextHandle' - 1)
<1>5. Old \subseteq New /\ nextHandle \in New /\ nextHandle \notin Old
  BY <1>1
<1>6. /\ \A kind \in BOOLEAN :
             /\ Armed(kind) \subseteq Old /\ callbacks[kind] \subseteq Old
             /\ Armed(kind) \ half = callbacks[kind] \ half
             /\ Armed(kind) \cap callbacks[kind] \cap half = {}
      /\ half \subseteq Old
      /\ (Armed(TRUE) \cup callbacks[TRUE])
             \cap (Armed(FALSE) \cup callbacks[FALSE]) = {}
  BY ArmedHandles DEF TimerInv, MatchInv
<1> HIDE DEF Old, New
<1>7. half' \subseteq New
  BY <1>5, <1>6
<1>8. ASSUME NEW kind \in BOOLEAN
      PROVE  /\ callbacks'[kind] \subseteq New
             /\ Armed(kind)' \ half' = callbacks'[kind] \ half'
             /\ Armed(kind)' \cap callbacks'[kind] \cap half' = {}
  <2>1. CASE kind = interval
    <3>1. callbacks'[kind] = callbacks[kind] \cup {nextHandle}
      BY <1>4, <2>1 DEF entries
    <3>2. \/ /\ Armed(kind)' = Armed(kind) \cup {nextHandle}
             /\ half' = half
          \/ /\ Armed(kind)' = Armed(kind)
             /\ half' = half \cup {nextHandle}
      BY <2>1
    <3> QED
      BY <1>5, <1>6, <3>1, <3>2
  <2>2. CASE kind # interval
    <3>1. callbacks'[kind] = callbacks[kind]
      BY <1>4, <2>2
    <3>2. /\ Armed(kind)' = Armed(kind)
          /\ half' = half \/ half' = half \cup {nextHandle}
      BY <2>2
    <3> QED
      BY <1>5, <1>6, <3>1, <3>2
  <2> QED
    BY <2>1, <2>2
<1>9. (Armed(TRUE)' \cup callbacks'[TRUE])
          \cap (Armed(FALSE)' \cup callbacks'[FALSE]) = {}
  <2>1. ASSUME NEW kind \in BOOLEAN, kind # interval
        PROVE  Armed(kind)' = Armed(kind) /\ callbacks'[kind] = callbacks[kind]
    BY <1>4, <2>1
  <2>2. ASSUME NEW kind \in BOOLEAN
        PROVE  /\ Armed(kind)' \subseteq Armed(kind) \cup {nextHandle}
               /\ callbacks'[kind] \subseteq callbacks[kind] \cup {nextHandle}
    BY <1>4 DEF entries
  <2>3. CASE interval = TRUE
    <3>1. Armed(FALSE)' = Armed(FALSE) /\ callbacks'[FALSE] = callbacks[FALSE]
      BY <2>1, <2>3
    <3>2. /\ Armed(TRUE)' \subseteq Armed(TRUE) \cup {nextHandle}
          /\ callbacks'[TRUE] \subseteq callbacks[TRUE] \cup {nextHandle}
      BY <2>2
    <3>3. nextHandle \notin Armed(FALSE) \cup callbacks[FALSE]
      BY <1>5, <1>6
    <3> QED
      BY <1>6, <3>1, <3>2, <3>3
  <2>4. CASE interval = FALSE
    <3>1. Armed(TRUE)' = Armed(TRUE) /\ callbacks'[TRUE] = callbacks[TRUE]
      BY <2>1, <2>4
    <3>2. /\ Armed(FALSE)' \subseteq Armed(FALSE) \cup {nextHandle}
          /\ callbacks'[FALSE] \subseteq callbacks[FALSE] \cup {nextHandle}
      BY <2>2
    <3>3. nextHandle \notin Armed(TRUE) \cup callbacks[TRUE]
      BY <1>5, <1>6
    <3> QED
      BY <1>6, <3>1, <3>2, <3>3
  <2> QED
    BY <2>3, <2>4
<1> QED
  BY <1>4, <1>7, <1>8, <1>9 DEF MatchInv, New

LEMMA SetTimerInv ==
    ASSUME JsInv, NEW interval \in BOOLEAN, NEW delay \in Delays,
           SetTimer(interval, delay)
    PROVE  JsInv'
<1> DEFINE period == IF interval /\ delay = 0 THEN 1 ELSE delay
           armed  == [handle |-> nextHandle, interval |-> interval,
                      due |-> clock + period, period |-> period]
<1>1. /\ nextHandle \in Nat /\ nextHandle < MaxHandles /\ clock \in Nat
      /\ delay \in Nat /\ MaxHandles \in Nat
      /\ TimersOK(timers, nextHandle, lastRun)
      /\ lastRun \in Nat /\ lastRun <= clock /\ TimerInv
  BY JsRuntimeAssumption DEF JsInv, TimerInv, SetTimer
<1>2. period \in Nat
  BY <1>1
<1>3. /\ armed \in Timers /\ armed.handle = nextHandle /\ armed.due >= lastRun
      /\ armed.interval = interval
  <2> HIDE DEF period
  <2>1. nextHandle \in Handles /\ clock + period \in Nat
        /\ clock + period >= lastRun
    BY <1>1, <1>2 DEF Handles
  <2> QED
    BY <1>2, <2>1 DEF Timers
<1>4. \A i \in DOMAIN timers : timers[i].handle # nextHandle
  <2>1. \A i \in DOMAIN timers : timers[i].handle < nextHandle
    BY <1>1 DEF TimersOK
  <2> QED
    BY <1>1, <2>1
<1>5. WithoutInterval(nextHandle) = timers
  BY <1>4 DEF WithoutInterval, IntervalsNamed
<1>6. /\ nextHandle' = nextHandle + 1
      /\ callbacks' = [callbacks EXCEPT ![interval]
                           = callbacks[interval] \cup {nextHandle}]
      /\ clock' = clock /\ pass' = pass /\ lastRun' = lastRun
  BY DEF SetTimer
<1>7. \/ /\ timers' = Append(timers, armed)
         /\ half' = half /\ entry' = entry /\ prevented' = prevented
      \/ /\ timers' = timers
         /\ half' = half \cup {nextHandle}
         /\ entry' \in {entry, None} /\ prevented' \in {prevented, FALSE}
  BY <1>5 DEF SetTimer, Arm, CutShort, Abort
<1>8. entry' \in {entry, None} /\ prevented' \in BOOLEAN
  BY <1>7 DEF JsInv
<1> HIDE DEF armed, period
<1> DEFINE later == nextHandle + 1
<1>9. later \in Nat /\ nextHandle <= later /\ armed.handle < later
  BY <1>1, <1>3
<1>10. TimersOK(timers', later, lastRun) /\ MatchInv'
  <2>1. CASE timers' = Append(timers, armed) /\ half' = half
    <3> HIDE DEF later
    <3>1. /\ TimersOK(Append(timers, armed), later, lastRun)
          /\ \A kind : Kind(Append(timers, armed), kind) =
                 IF kind = armed.interval
                 THEN Kind(timers, kind) \cup {armed.handle}
                 ELSE Kind(timers, kind)
      BY <1>1, <1>3, <1>4, <1>9, TimerAppended
    <3>2. \A kind \in BOOLEAN :
              Armed(kind)' = IF kind = interval
                             THEN Armed(kind) \cup {nextHandle}
                             ELSE Armed(kind)
      BY <1>3, <2>1, <3>1, ArmedIsKind
    <3> QED
      BY <1>1, <1>6, <2>1, <3>1, <3>2, HandleGivenOut DEF later
  <2>2. CASE timers' = timers /\ half' = half \cup {nextHandle}
    <3>1. \A kind \in BOOLEAN : Armed(kind)' = Armed(kind)
      BY <2>2 DEF Armed
    <3>2. TimersOK(timers, later, lastRun)
      <4> SUFFICES ASSUME NEW i \in DOMAIN timers
                   PROVE  timers[i].handle < later
        BY <1>1 DEF TimersOK
      <4>1. timers[i] \in Timers /\ timers[i].handle < nextHandle
        BY <1>1 DEF TimersOK
      <4>2. timers[i].handle \in Nat
        BY <4>1 DEF Timers, Handles
      <4> QED
        BY <1>1, <4>1, <4>2
    <3> HIDE DEF later
    <3> QED
      BY <1>1, <1>6, <2>2, <3>1, <3>2, HandleGivenOut
  <2> QED
    BY <1>7, <2>1, <2>2
<1>11. TimerInv'
  BY <1>1, <1>6, <1>10 DEF TimerInv
<1> QED
  BY <1>6, <1>8, <1>11, OnlyTimersChange

\* What a call of clearInterval leaves of the intervals' handles.
LEMMA HandlesCleared ==
    ASSUME TimerInv, NEW key, NEW number, nextHandle' = nextHandle,
           callbacks' = [callbacks EXCEPT ![TRUE] = callbacks[TRUE] \ {key}],
           Armed(TRUE)' = Armed(TRUE) \ {number}, Armed(FALSE)' = Armed(FALSE),
           half' = IF key = number THEN half
                   ELSE half \cup ({key, number}
                                   \cap (callbacks[TRUE] \cup Armed(TRUE)))
    PROVE  MatchInv'
<1>1. callbacks \in [BOOLEAN -> SUBSET Handles]
  BY DEF TimerInv, MatchInv
<1>2. callbacks[TRUE] \ {key} \in SUBSET Handles
  BY <1>1
<1>3. /\ callbacks' \in [BOOLEAN -> SUBSET Handles]
      /\ callbacks'[TRUE] = callbacks[TRUE] \ {key}
      /\ callbacks'[FALSE] = callbacks[FALSE]
  <2> DEFINE entries == callbacks[TRUE] \ {key}
  <2>1. callbacks' = [callbacks EXCEPT ![TRUE] = entries]
    OBVIOUS
  <2>2. entries \in SUBSET Handles
    BY <1>2
  <2> HIDE DEF entries
  <2>3. /\ callbacks' \in [BOOLEAN -> SUBSET Handles]
        /\ callbacks'[TRUE] = entries
        /\ callbacks'[FALSE] = callbacks[FALSE]
    BY <1>1, <2>1, <2>2
  <2> QED
    BY <2>3 DEF entries
<1> DEFINE Old == 0..(nextHandle - 1)
<1>4. /\ Armed(TRUE) \subseteq Old /\ callbacks[TRUE] \subseteq Old
      /\ callbacks[FALSE] \subseteq Old /\ half \subseteq Old
      /\ Armed(TRUE) \ half = callbacks[TRUE] \ half
      /\ Armed(TRUE) \cap callbacks[TRUE] \cap half = {}
      /\ Armed(FALSE) \ half = callbacks[FALSE] \ half
      /\ Armed(FALSE) \cap callbacks[FALSE] \cap half = {}
      /\ (Armed(TRUE) \cup callbacks[TRUE])
             \cap (Armed(FALSE) \cup callbacks[FALSE]) = {}
  BY ArmedHandles DEF TimerInv, MatchInv
<1> HIDE DEF Old
<1>5. /\ half \subseteq half' /\ half' \subseteq Old
      /\ half' \ half \subseteq callbacks[TRUE] \cup Armed(TRUE)
  BY <1>4
<1>6. Armed(TRUE)' \ half' = callbacks'[TRUE] \ half'
  <2>1. CASE key = number
    BY <1>3, <1>4, <2>1
  <2>2. CASE key # number
    BY <1>3, <1>4, <2>2
  <2> QED
    BY <2>1, <2>2
<1>7. Armed(TRUE)' \cap callbacks'[TRUE] \cap half' = {}
  <2>1. CASE key = number
    BY <1>3, <1>4, <2>1
  <2>2. CASE key # number
    BY <1>3, <1>4, <2>2
  <2> QED
    BY <2>1, <2>2
<1>8. /\ Armed(FALSE)' \ half' = callbacks'[FALSE] \ half'
      /\ Armed(FALSE)' \cap callbacks'[FALSE] \cap half' = {}
  <2> DEFINE a == Armed(FALSE)
             c == callbacks[FALSE]
             others == callbacks[TRUE] \cup Armed(TRUE)
             more == half'
  <2>1. Armed(FALSE)' = a /\ callbacks'[FALSE] = c
    BY <1>3
  <2>2. /\ a \ half = c \ half /\ a \cap c \cap half = {}
        /\ others \cap (a \cup c) = {}
        /\ half \subseteq more /\ more \ half \subseteq others
    BY <1>4, <1>5
  <2> HIDE DEF a, c, others, more
  <2>3. a \ more = c \ more /\ a \cap c \cap more = {}
    BY <2>2
  <2> QED
    BY <2>1, <2>3 DEF more
<1>9. (Armed(TRUE)' \cup callbacks'[TRUE])
          \cap (Armed(FALSE)' \cup callbacks'[FALSE]) = {}
  BY <1>3, <1>4
<1>10. callbacks'[TRUE] \subseteq Old /\ callbacks'[FALSE] \subseteq Old
  BY <1>3, <1>4
<1>11. ASSUME NEW kind \in BOOLEAN
       PROVE  /\ callbacks'[kind] \subseteq Old
              /\ Armed(kind)' \ half' = callbacks'[kind] \ half'
              /\ Armed(kind)' \cap callbacks'[kind] \cap half' = {}
  <2>1. CASE kind = TRUE
    BY <1>6, <1>7, <1>10, <2>1
  <2>2. CASE kind = FALSE
    BY <1>8, <1>10, <2>2
  <2> QED
    BY <2>1, <2>2
<1> QED
  BY <1>3, <1>5, <1>9, <1>11 DEF MatchInv, Old

LEMMA ClearIntervalInv ==
    ASSUME JsInv, NEW key, NEW number, ClearInterval(key, number)
    PROVE  JsInv'
<1>1. TimerInv /\ TimersOK(timers, nextHandle, lastRun)
  BY DEF JsInv, TimerInv
<1>2. /\ nextHandle' = nextHandle /\ clock' = clock
      /\ pass' = pass /\ lastRun' = lastRun
      /\ timers' = WithoutInterval(number)
      /\ callbacks' = [callbacks EXCEPT ![TRUE] = callbacks[TRUE] \ {key}]
      /\ half' = IF key = number THEN half
                 ELSE half \cup ({key, number}
                                 \cap (callbacks[TRUE] \cup Armed(TRUE)))
  BY DEF ClearInterval
<1>3. entry' \in {entry, None} /\ prevented' \in BOOLEAN
  BY DEF ClearInterval, CutShort, Abort, JsInv
<1>4. \A i \in DOMAIN timers : timers[i].interval \in BOOLEAN
  <2>1. \A i \in DOMAIN timers : timers[i] \in Timers
    BY <1>1 DEF TimersOK
  <2> QED
    BY <2>1 DEF Timers
<1>5. /\ TimersOK(timers', nextHandle, lastRun)
      /\ Armed(TRUE)' = Armed(TRUE) \ {number} /\ Armed(FALSE)' = Armed(FALSE)
  <2>1. CASE IntervalsNamed(number) = {}
    <3>1. timers' = timers
      BY <1>2, <2>1 DEF WithoutInterval
    <3>2. number \notin Armed(TRUE)
      BY <2>1 DEF Armed, IntervalsNamed
    <3>3. Armed(TRUE)' = Armed(TRUE) /\ Armed(FALSE)' = Armed(FALSE)
      BY <3>1 DEF Armed
    <3> QED
      BY <1>1, <3>1, <3>2, <3>3
  <2>2. CASE IntervalsNamed(number) # {}
    <3> DEFINE k == CHOOSE i \in IntervalsNamed(number) : TRUE
    <3>1. k \in IntervalsNamed(number)
      BY <2>2
    <3>2. timers' = RemoveAt(timers, k)
      BY <1>2, <2>2 DEF WithoutInterval
    <3> HIDE DEF k
    <3>3. k \in DOMAIN timers /\ timers[k].handle = number
      BY <3>1 DEF IntervalsNamed
    <3>4. timers[k].interval = TRUE
      <4>1. timers[k].interval
        BY <3>1 DEF IntervalsNamed
      <4> QED
        BY <1>4, <3>3, <4>1
    <3>5. /\ TimersOK(timers', nextHandle, lastRun)
          /\ \A kind : Kind(timers', kind) =
                 IF kind = timers[k].interval
                 THEN Kind(timers, kind) \ {timers[k].handle}
                 ELSE Kind(timers, kind)
      BY <1>1, <3>2, <3>3, TimerRemoved
    <3>6. /\ Kind(timers', TRUE) = Kind(timers, TRUE) \ {number}
          /\ Kind(timers', FALSE) = Kind(timers, FALSE)
      BY <3>3, <3>4, <3>5
    <3> QED
      BY <3>5, <3>6, ArmedIsKind
  <2> QED
    BY <2>1, <2>2
<1>6. MatchInv'
  BY <1>1, <1>2, <1>5, HandlesCleared
<1>7. TimerInv'
  BY <1>1, <1>2, <1>5, <1>6 DEF TimerInv
<1> QED
  BY <1>2, <1>3, <1>7, OnlyTimersChange

LEMMA PassChanges ==
    ASSUME JsInv, PassInv', UNCHANGED <<clock, timerVars, entry, prevented>>
    PROVE  JsInv'
<1>1. /\ clock' = clock /\ entry' = entry /\ prevented' = prevented
      /\ UNCHANGED timerVars
  OBVIOUS
<1>2. EntryInv'
  BY <1>1 DEF JsInv, EntryInv, EntryOK, Running
<1>3. TimerInv'
  <2>1. TimerInv /\ lastRun <= clock'
    BY <1>1 DEF JsInv, TimerInv
  <2> QED
    BY <1>1, <2>1, SameTimers
<1> QED
  BY <1>1, <1>2, <1>3 DEF JsInv

LEMMA BeginPassInv == ASSUME JsInv, BeginPass PROVE JsInv'
<1>1. clock \in Nat /\ Budget \in 0..Budget
  BY JsRuntimeAssumption DEF JsInv
<1>2. PassInv'
  BY <1>1 DEF BeginPass, PassInv
<1> QED
  BY <1>2, PassChanges DEF BeginPass

LEMMA EndPassInv == ASSUME JsInv, EndPass PROVE JsInv'
<1>1. PassInv'
  BY DEF EndPass, PassInv
<1> QED
  BY <1>1, PassChanges DEF EndPass

\* What RunTimer takes: the earliest timer, and due by now.
LEMMA DueTimer ==
    ASSUME JsInv, RunTimer
    PROVE  /\ NextDue \in DOMAIN timers
           /\ timers[NextDue] \in Timers
           /\ \A i \in DOMAIN timers : timers[NextDue].due <= timers[i].due
           /\ timers[NextDue].due <= clock
           /\ lastRun <= timers[NextDue].due
           /\ pass \in [now : Nat, left : 0..Budget] /\ pass.left > 0
           /\ lastRun' = timers[NextDue].due
<1>1. timers \in Seq(Timers) /\ timers # <<>>
  BY DEF JsInv, TimerInv, TimersOK, RunTimer, HasDue
<1>2. /\ NextDue \in DOMAIN timers
      /\ \A i \in DOMAIN timers : timers[NextDue].due <= timers[i].due
  BY <1>1, NextDueIsEarliest
<1>3. timers[NextDue] \in Timers
  BY <1>1, <1>2
<1>4. /\ pass \in [now : Nat, left : 0..Budget] /\ pass.now <= clock
      /\ pass.left > 0 /\ timers[NextDue].due <= pass.now
  BY DEF JsInv, PassInv, RunTimer, HasDue
<1>5. timers[NextDue].due <= clock
  <2>1. timers[NextDue].due \in Nat /\ pass.now \in Nat /\ clock \in Nat
    BY <1>3, <1>4, JsRuntimeAssumption DEF Timers, JsInv
  <2> QED
    BY <1>4, <2>1
<1>6. lastRun <= timers[NextDue].due
  <2>1. timers[NextDue].due >= lastRun
    BY <1>2 DEF JsInv, TimerInv, TimersOK
  <2>2. timers[NextDue].due \in Nat /\ lastRun \in Nat
    BY <1>3 DEF Timers, JsInv, TimerInv
  <2> QED
    BY <2>1, <2>2
<1>7. lastRun' = timers[NextDue].due
  BY DEF RunTimer
<1> QED
  BY <1>2, <1>3, <1>4, <1>5, <1>6, <1>7

LEMMA RearmedTimer ==
    ASSUME NEW t \in Timers
    PROVE  /\ Rearmed(t) \in Timers /\ Rearmed(t).handle = t.handle
           /\ Rearmed(t).due >= t.due /\ Rearmed(t).interval = t.interval
<1>1. t.due \in Nat /\ t.period \in Nat /\ t.due + t.period \in Nat
  BY DEF Timers
<1>2. Rearmed(t) = [t EXCEPT !.due = t.due + t.period]
  BY DEF Rearmed
<1>3. Rearmed(t) \in Timers
  BY <1>1, <1>2 DEF Timers
<1>4. /\ Rearmed(t).handle = t.handle /\ Rearmed(t).due = t.due + t.period
      /\ Rearmed(t).interval = t.interval
  BY <1>2 DEF Timers
<1> QED
  BY <1>1, <1>3, <1>4

\* A timeout that runs is gone, callback and all; an interval is as it was.
LEMMA HandleRun ==
    ASSUME TimerInv, NEW handle, NEW interval \in BOOLEAN,
           handle \in Armed(interval),
           nextHandle' = nextHandle, half' = half,
           interval =>
               /\ callbacks' = callbacks
               /\ Armed(TRUE)' = Armed(TRUE) /\ Armed(FALSE)' = Armed(FALSE),
           ~ interval =>
               /\ callbacks' = [callbacks EXCEPT ![FALSE]
                                    = callbacks[FALSE] \ {handle}]
               /\ Armed(TRUE)' = Armed(TRUE)
               /\ Armed(FALSE)' = Armed(FALSE) \ {handle}
    PROVE  MatchInv'
<1>1. /\ callbacks \in [BOOLEAN -> SUBSET Handles]
      /\ half \subseteq 0..(nextHandle - 1)
      /\ \A kind \in BOOLEAN :
             /\ callbacks[kind] \subseteq 0..(nextHandle - 1)
             /\ Armed(kind) \ half = callbacks[kind] \ half
             /\ Armed(kind) \cap callbacks[kind] \cap half = {}
      /\ (Armed(TRUE) \cup callbacks[TRUE])
             \cap (Armed(FALSE) \cup callbacks[FALSE]) = {}
  BY DEF TimerInv, MatchInv
<1>2. CASE interval
  <2>1. ASSUME NEW kind \in BOOLEAN PROVE Armed(kind)' = Armed(kind)
    <3>1. CASE kind = TRUE
      BY <1>2, <3>1
    <3>2. CASE kind = FALSE
      BY <1>2, <3>2
    <3> QED
      BY <3>1, <3>2
  <2>2. callbacks' = callbacks
    BY <1>2
  <2> QED
    BY <1>1, <2>1, <2>2 DEF MatchInv
<1>3. CASE ~ interval
  <2> DEFINE entries == callbacks[FALSE] \ {handle}
  <2>1. entries \in SUBSET Handles
    BY <1>1
  <2>2. /\ callbacks' \in [BOOLEAN -> SUBSET Handles]
        /\ callbacks'[FALSE] = callbacks[FALSE] \ {handle}
        /\ callbacks'[TRUE] = callbacks[TRUE]
    <3>1. callbacks' = [callbacks EXCEPT ![FALSE] = entries]
      BY <1>3
    <3>2. callbacks \in [BOOLEAN -> SUBSET Handles]
      BY <1>1
    <3> HIDE DEF entries
    <3>3. /\ callbacks' \in [BOOLEAN -> SUBSET Handles]
          /\ callbacks'[FALSE] = entries
          /\ callbacks'[TRUE] = callbacks[TRUE]
      BY <2>1, <3>1, <3>2
    <3> QED
      BY <3>3 DEF entries
  <2>3. Armed(TRUE)' = Armed(TRUE) /\ Armed(FALSE)' = Armed(FALSE) \ {handle}
    BY <1>3
  <2>4. ASSUME NEW kind \in BOOLEAN
        PROVE  /\ callbacks'[kind] \subseteq 0..(nextHandle - 1)
               /\ Armed(kind)' \ half' = callbacks'[kind] \ half'
               /\ Armed(kind)' \cap callbacks'[kind] \cap half' = {}
    <3>1. CASE kind = TRUE
      BY <1>1, <2>2, <2>3, <3>1
    <3>2. CASE kind = FALSE
      BY <1>1, <2>2, <2>3, <3>2
    <3> QED
      BY <3>1, <3>2
  <2>5. (Armed(TRUE)' \cup callbacks'[TRUE])
            \cap (Armed(FALSE)' \cup callbacks'[FALSE]) = {}
    BY <1>1, <2>2, <2>3
  <2> QED
    BY <1>1, <2>2, <2>4, <2>5 DEF MatchInv
<1> QED
  BY <1>2, <1>3

LEMMA RunTimerInv == ASSUME JsInv, RunTimer PROVE JsInv'
<1> DEFINE k == NextDue
           t == timers[k]
<1>1. /\ k \in DOMAIN timers /\ t \in Timers
      /\ \A i \in DOMAIN timers : t.due <= timers[i].due
      /\ t.due <= clock /\ lastRun <= t.due
      /\ pass \in [now : Nat, left : 0..Budget] /\ pass.left > 0
      /\ lastRun' = t.due
  BY DueTimer
<1>2. /\ timers' = IF t.interval THEN Append(RemoveAt(timers, k), Rearmed(t))
                   ELSE RemoveAt(timers, k)
      /\ callbacks' = IF t.interval THEN callbacks
                      ELSE [callbacks EXCEPT ![FALSE]
                                = callbacks[FALSE] \ {t.handle}]
      /\ nextHandle' = nextHandle /\ half' = half /\ clock' = clock
      /\ pass' = [pass EXCEPT !.left = @ - 1]
      /\ EnterJs \/ UNCHANGED <<entry, prevented>>
  BY DEF RunTimer
<1>3. TimerInv /\ TimersOK(timers, nextHandle, lastRun)
  BY DEF JsInv, TimerInv
<1> HIDE DEF k
<1>4. t.due \in Nat /\ t.interval \in BOOLEAN /\ t.handle \in Armed(t.interval)
  BY <1>1 DEF Timers, Armed
<1>5. TimersOK(timers, nextHandle, t.due)
  <2> SUFFICES ASSUME NEW i \in DOMAIN timers PROVE timers[i].due >= t.due
    BY <1>3 DEF TimersOK
  <2>1. timers[i] \in Timers
    BY <1>3 DEF TimersOK
  <2>2. timers[i].due \in Nat
    BY <2>1 DEF Timers
  <2> QED
    BY <1>1, <1>4, <2>2
<1> DEFINE rest == RemoveAt(timers, k)
<1>6. /\ TimersOK(rest, nextHandle, t.due)
      /\ \A i \in DOMAIN rest : rest[i].handle # t.handle
      /\ \A kind : Kind(rest, kind) =
             IF kind = t.interval THEN Kind(timers, kind) \ {t.handle}
             ELSE Kind(timers, kind)
  BY <1>1, <1>5, TimerRemoved
<1>7. TimersOK(timers', nextHandle, t.due) /\ MatchInv'
  <2>1. CASE t.interval
    <3> DEFINE again == Rearmed(t)
               low   == t.due
    <3>1. /\ again \in Timers /\ again.handle = t.handle /\ again.due >= low
          /\ again.interval = t.interval
      BY <1>1, RearmedTimer
    <3>2. nextHandle \in Nat /\ nextHandle <= nextHandle
      BY JsRuntimeAssumption DEF JsInv, TimerInv
    <3>3. again.handle < nextHandle
      BY <1>1, <1>3, <3>1 DEF TimersOK
    <3>4. \A i \in DOMAIN rest : rest[i].handle # again.handle
      BY <1>6, <3>1
    <3>5. timers' = Append(rest, again) /\ callbacks' = callbacks
      BY <1>2, <2>1
    <3>6. TimersOK(rest, nextHandle, low)
      BY <1>6
    <3> HIDE DEF rest, again, low
    <3>7. /\ TimersOK(Append(rest, again), nextHandle, low)
          /\ \A kind : Kind(Append(rest, again), kind) =
                 IF kind = again.interval
                 THEN Kind(rest, kind) \cup {again.handle}
                 ELSE Kind(rest, kind)
      BY <3>1, <3>2, <3>3, <3>4, <3>6, TimerAppended
    <3>8. \A kind : Kind(timers', kind) =
              IF kind = t.interval
              THEN (Kind(timers, kind) \ {t.handle}) \cup {t.handle}
              ELSE Kind(timers, kind)
      BY <1>6, <3>1, <3>5, <3>7
    <3>9. t.handle \in Kind(timers, t.interval)
      BY <1>4, ArmedIsKind
    <3>10. \A kind : Kind(timers', kind) = Kind(timers, kind)
      <4> SUFFICES ASSUME NEW kind
                   PROVE  Kind(timers', kind) = Kind(timers, kind)
        OBVIOUS
      <4>1. CASE kind = t.interval
        BY <3>8, <3>9, <4>1
      <4>2. CASE kind # t.interval
        BY <3>8, <4>2
      <4> QED
        BY <4>1, <4>2
    <3>11. Armed(TRUE)' = Armed(TRUE) /\ Armed(FALSE)' = Armed(FALSE)
      BY <3>10, ArmedIsKind
    <3>12. MatchInv'
      BY <1>2, <1>3, <1>4, <2>1, <3>5, <3>11, HandleRun
    <3> QED
      BY <3>5, <3>7, <3>12 DEF low
  <2>2. CASE ~ t.interval
    <3>1. timers' = rest
      BY <1>2, <2>2
    <3>2. t.interval = FALSE
      BY <1>4, <2>2
    <3> HIDE DEF rest
    <3>3. /\ Kind(timers', TRUE) = Kind(timers, TRUE)
          /\ Kind(timers', FALSE) = Kind(timers, FALSE) \ {t.handle}
      BY <1>6, <3>1, <3>2
    <3>4. /\ Armed(TRUE)' = Armed(TRUE)
          /\ Armed(FALSE)' = Armed(FALSE) \ {t.handle}
      BY <3>3, ArmedIsKind
    <3>5. callbacks' = [callbacks EXCEPT ![FALSE] = callbacks[FALSE] \ {t.handle}]
      BY <1>2, <2>2
    <3>6. MatchInv'
      BY <1>2, <1>3, <1>4, <2>2, <3>4, <3>5, HandleRun
    <3> QED
      BY <1>6, <3>1, <3>6
  <2> QED
    BY <1>4, <2>1, <2>2
<1>8. TimerInv'
  <2>1. lastRun' \in Nat /\ lastRun' <= clock'
    BY <1>1, <1>2, <1>4
  <2>2. nextHandle' \in 0..MaxHandles /\ TimersOK(timers', nextHandle', lastRun')
    BY <1>1, <1>2, <1>3, <1>7 DEF TimerInv
  <2> QED
    BY <1>7, <2>1, <2>2 DEF TimerInv
<1>9. PassInv'
  <2>1. pass.left - 1 \in 0..Budget /\ pass # None => pass.now <= clock
    BY <1>1, JsRuntimeAssumption DEF JsInv, PassInv
  <2>2. /\ pass' \in [now : Nat, left : 0..Budget] /\ pass'.now = pass.now
    BY <1>1, <1>2, <2>1, JsRuntimeAssumption
  <2>3. pass # None
    BY DEF RunTimer
  <2> QED
    BY <1>2, <2>1, <2>2, <2>3 DEF PassInv, JsInv
<1>10. EntryInv' /\ prevented' \in BOOLEAN
  <2>1. CASE EnterJs
    BY <1>2, <2>1, EntersKeepsEntry DEF JsInv, Clocked, EnterJs
  <2>2. CASE UNCHANGED <<entry, prevented>>
    BY <1>2, <2>2 DEF JsInv, EntryInv, EntryOK, Running
  <2> QED
    BY <1>2, <2>1, <2>2
<1>11. clock' \in 0..MaxClock
  BY <1>2 DEF JsInv
<1> QED
  BY <1>8, <1>9, <1>10, <1>11 DEF JsInv

LEMMA JsInvHolds == JsInv /\ JsStep => JsInv'
BY LeavesInv, EntersInv, ComputeInv, TimePassesInv, SendSyncInv, SetTimerInv,
   ClearIntervalInv, BeginPassInv, RunTimerInv, EndPassInv
   DEF JsStep

-----------------------------------------------------------------------------
(* Ancestors, for any parents: a set of nodes that holds n and is closed    *)
(* under parents holds its chain, which is what the lemmas use in the place *)
(* of an induction.                                                         *)

Climbs(par, set) == \A m \in set : par[m] # None => par[m] \in set
Up(par, n) == {m \in Nodes : \A set \in SUBSET Nodes :
                                 n \in set /\ Climbs(par, set) => m \in set}

LEMMA ChainIsUp == \A n : Chain(n) = Up(parent, n)
BY DEF Chain, Upward, Up, Climbs

LEMMA ChainIsUpNext == \A n : Chain(n)' = Up(parent', n)
BY DEF Chain, Upward, Up, Climbs

LEMMA UpWithin ==
    ASSUME NEW par, NEW set \in SUBSET Nodes, NEW n \in set, Climbs(par, set)
    PROVE  Up(par, n) \subseteq set
BY DEF Up

LEMMA UpStarts ==
    ASSUME NEW par, NEW n \in Nodes
    PROVE  n \in Up(par, n) /\ Up(par, n) \subseteq Nodes
BY DEF Up

LEMMA UpClimbs ==
    ASSUME NEW par \in [Nodes -> Nodes \cup {None}], NEW n \in Nodes
    PROVE  Climbs(par, Up(par, n))
BY PagesAssumption DEF Up, Climbs

LEMMA UpOfMember ==
    ASSUME NEW par \in [Nodes -> Nodes \cup {None}], NEW n \in Nodes,
           NEW m \in Up(par, n)
    PROVE  m \in Nodes /\ Up(par, m) \subseteq Up(par, n)
<1>1. Up(par, n) \in SUBSET Nodes
  BY UpStarts
<1>2. Climbs(par, Up(par, n))
  BY UpClimbs
<1> QED
  BY <1>1, <1>2, UpWithin

\* A chain is the node and its parent's chain.
LEMMA UpByParent ==
    ASSUME NEW par \in [Nodes -> Nodes \cup {None}], NEW n \in Nodes
    PROVE  /\ par[n] = None => Up(par, n) = {n}
           /\ par[n] # None => Up(par, n) = {n} \cup Up(par, par[n])
<1>1. n \in Up(par, n)
  BY UpStarts
<1>2. ASSUME par[n] = None PROVE Up(par, n) = {n}
  <2>1. Climbs(par, {n})
    BY <1>2 DEF Climbs
  <2>2. {n} \in SUBSET Nodes
    OBVIOUS
  <2>3. Up(par, n) \subseteq {n}
    BY <2>1, <2>2, UpWithin
  <2> QED
    BY <1>1, <2>3
<1>3. ASSUME par[n] # None PROVE Up(par, n) = {n} \cup Up(par, par[n])
  <2> DEFINE q == par[n]
             set == {n} \cup Up(par, q)
  <2>1. q \in Nodes
    BY <1>3
  <2>2. q \in Up(par, n)
    BY <1>1, <1>3, UpClimbs DEF Climbs
  <2>3. Up(par, q) \subseteq Up(par, n)
    BY <2>2, UpOfMember
  <2>4. q \in Up(par, q) /\ Up(par, q) \subseteq Nodes
    BY <2>1, UpStarts
  <2>5. Climbs(par, Up(par, q))
    BY <2>1, UpClimbs
  <2>6. Climbs(par, set)
    BY <2>4, <2>5 DEF Climbs
  <2>7. n \in set /\ set \in SUBSET Nodes
    BY <2>4
  <2> HIDE DEF set
  <2>8. Up(par, n) \subseteq set
    BY <2>6, <2>7, UpWithin
  <2> QED
    BY <1>1, <2>3, <2>8 DEF set
<1> QED
  BY <1>2, <1>3

\* Other parents on no node of the chain leave it alone.
LEMMA UpUnchanged ==
    ASSUME NEW par \in [Nodes -> Nodes \cup {None}],
           NEW new \in [Nodes -> Nodes \cup {None}], NEW n \in Nodes,
           \A m \in Up(par, n) : new[m] = par[m]
    PROVE  Up(new, n) = Up(par, n)
<1>1. n \in Up(par, n) /\ Up(par, n) \in SUBSET Nodes
  BY UpStarts
<1>2. Climbs(new, Up(par, n))
  BY UpClimbs DEF Climbs
<1>3. Up(new, n) \subseteq Up(par, n)
  BY <1>1, <1>2, UpWithin
<1>4. n \in Up(new, n) /\ Up(new, n) \in SUBSET Nodes
  BY UpStarts
<1>5. Climbs(par, Up(new, n))
  <2>1. Climbs(new, Up(new, n))
    BY UpClimbs
  <2> QED
    BY <1>3, <2>1 DEF Climbs
<1>6. Up(par, n) \subseteq Up(new, n)
  BY <1>4, <1>5, UpWithin
<1> QED
  BY <1>3, <1>6

\* Where nodes without parents get some, chains only grow.
LEMMA UpGrows ==
    ASSUME NEW par \in [Nodes -> Nodes \cup {None}],
           NEW new \in [Nodes -> Nodes \cup {None}], NEW n \in Nodes,
           \A m \in Up(par, n) : par[m] \in {new[m], None}
    PROVE  Up(par, n) \subseteq Up(new, n)
<1> DEFINE set == Up(par, n) \cap Up(new, n)
<1>1. n \in set /\ set \in SUBSET Nodes
  BY UpStarts
<1>2. Climbs(new, Up(new, n)) /\ Climbs(par, Up(par, n))
  BY UpClimbs
<1>3. Climbs(par, set)
  BY <1>2 DEF Climbs
<1> HIDE DEF set
<1>4. Up(par, n) \subseteq set
  BY <1>1, <1>3, UpWithin
<1> QED
  BY <1>4 DEF set

\* No node is above itself, also after one is moved below another of whose
\* chain it is no part, or is taken out.
Acyclic(par) == \A n \in Nodes : par[n] # None => n \notin Up(par, par[n])

LEMMA MovedBelow ==
    ASSUME NEW par \in [Nodes -> Nodes \cup {None}], Acyclic(par),
           NEW c \in Nodes, NEW p \in Nodes, c \notin Up(par, p)
    PROVE  Acyclic([par EXCEPT ![c] = p])
<1> DEFINE new == [par EXCEPT ![c] = p]
<1>1. new \in [Nodes -> Nodes \cup {None}] /\ new[c] = p
      /\ \A m \in Nodes \ {c} : new[m] = par[m]
  OBVIOUS
<1> HIDE DEF new
<1>2. Up(new, p) = Up(par, p)
  BY <1>1, UpStarts, UpUnchanged
<1> SUFFICES ASSUME NEW n \in Nodes, new[n] # None, n \in Up(new, new[n])
             PROVE  FALSE
  BY DEF Acyclic, new
<1>3. n # c
  BY <1>1, <1>2
<1> DEFINE q == par[n]
<1>4. q \in Nodes /\ new[n] = q /\ n \notin Up(par, q)
  BY <1>1, <1>3 DEF Acyclic
<1>5. c \in Up(par, q)
  BY <1>1, <1>4, UpStarts, UpUnchanged
<1> DEFINE set == Up(par, q) \cup Up(par, p)
<1>6. Climbs(par, Up(par, q)) /\ Climbs(par, Up(par, p))
  BY <1>4, UpClimbs
<1>7. /\ q \in Up(par, q) /\ Up(par, q) \subseteq Nodes
      /\ p \in Up(par, p) /\ Up(par, p) \subseteq Nodes
  BY <1>4, UpStarts
<1>8. Climbs(new, set)
  BY <1>1, <1>6, <1>7 DEF Climbs
<1>9. q \in set /\ set \in SUBSET Nodes
  BY <1>7
<1>10. Up(new, q) \subseteq set
  <2> HIDE DEF set, q
  <2> QED
    BY <1>8, <1>9, UpWithin
<1>11. n \in Up(par, p)
  BY <1>4, <1>10
<1>12. q \in Up(par, p)
  BY <1>4, <1>6, <1>11, PagesAssumption DEF Climbs
<1>13. Up(par, q) \subseteq Up(par, p)
  BY <1>12, UpOfMember
<1> QED
  BY <1>5, <1>13

LEMMA Pruned ==
    ASSUME NEW par \in [Nodes -> Nodes \cup {None}], Acyclic(par),
           NEW new \in [Nodes -> Nodes \cup {None}],
           \A m \in Nodes : new[m] \in {par[m], None}
    PROVE  Acyclic(new)
<1> SUFFICES ASSUME NEW n \in Nodes, new[n] # None, n \in Up(new, new[n])
             PROVE  FALSE
  BY DEF Acyclic
<1> DEFINE q == par[n]
<1>1. q \in Nodes /\ new[n] = q /\ n \notin Up(par, q)
  BY DEF Acyclic
<1>2. /\ Climbs(par, Up(par, q)) /\ q \in Up(par, q)
      /\ Up(par, q) \in SUBSET Nodes
  BY <1>1, UpClimbs, UpStarts
<1>3. Climbs(new, Up(par, q))
  BY <1>2 DEF Climbs
<1>4. Up(new, q) \subseteq Up(par, q)
  BY <1>2, <1>3, UpWithin
<1> QED
  BY <1>1, <1>4

\* Of two ancestors one is above the other.
LEMMA UpIsALine ==
    ASSUME NEW par \in [Nodes -> Nodes \cup {None}], NEW n \in Nodes,
           NEW a \in Up(par, n), NEW b \in Up(par, n)
    PROVE  a \in Up(par, b) \/ b \in Up(par, a)
<1> DEFINE Line == {m \in Up(par, n) :
                       \A x \in Up(par, n) : x \in Up(par, m) \/ m \in Up(par, x)}
<1>1. Line \in SUBSET Nodes
  BY UpStarts
<1>2. n \in Line
  BY UpStarts
<1>3. ASSUME NEW m \in Line, par[m] # None PROVE par[m] \in Line
  <2> DEFINE q == par[m]
  <2>1. m \in Nodes /\ m \in Up(par, n) /\ q \in Nodes
    BY <1>1, <1>3
  <2>2. q \in Up(par, n)
    BY <1>3, <2>1, UpClimbs DEF Climbs
  <2>3. Up(par, m) = {m} \cup Up(par, q)
    BY <1>3, <2>1, UpByParent
  <2>4. ASSUME NEW x \in Up(par, n)
        PROVE  x \in Up(par, q) \/ q \in Up(par, x)
    <3>1. x \in Nodes
      BY UpStarts
    <3>2. Climbs(par, Up(par, x)) /\ x \in Up(par, x)
      BY <3>1, UpClimbs, UpStarts
    <3>3. CASE x \in Up(par, m)
      BY <1>3, <2>3, <3>2, <3>3 DEF Climbs
    <3>4. CASE m \in Up(par, x)
      BY <1>3, <3>2, <3>4 DEF Climbs
    <3> QED
      BY <3>3, <3>4
  <2> QED
    BY <2>2, <2>4
<1>4. Climbs(par, Line)
  <2> HIDE DEF Line
  <2> QED
    BY <1>3 DEF Climbs
<1>5. Up(par, n) \subseteq Line
  <2> HIDE DEF Line
  <2> QED
    BY <1>1, <1>2, <1>4, UpWithin
<1> QED
  BY <1>5

\* Among some nodes of a chain one is innermost: its chain is the longest, and
\* so what is left of the nodes the least.
LEMMA InnermostExists ==
    ASSUME NEW par \in [Nodes -> Nodes \cup {None}], NEW n \in Nodes,
           NEW found \in SUBSET Up(par, n), found # {}
    PROVE  \E m \in found : found \subseteq Up(par, m)
<1> DEFINE Rests == {Nodes \ Up(par, m) : m \in found}
           R == StrictSubsetOrdering(Nodes)
           S == FiniteSubsetsOf(Nodes)
<1>1. IsWellFoundedOn(R, S)
  BY FS_StrictSubsetOrderingWellFounded
<1>2. S = SUBSET Nodes
  BY PagesAssumption, FS_FiniteSubsetsOfFinite
<1>3. Rests \subseteq S /\ Rests # {}
  <2>1. Rests \subseteq SUBSET Nodes
    OBVIOUS
  <2>2. Rests # {}
    OBVIOUS
  <2> HIDE DEF Rests, S
  <2> QED
    BY <1>2, <2>1, <2>2
<1>4. PICK least \in Rests : \A other \in Rests : <<other, least>> \notin R
  <2> HIDE DEF Rests, R, S
  <2> QED
    BY <1>1, <1>3, WFMin
<1>5. PICK m \in found : least = Nodes \ Up(par, m)
  OBVIOUS
<1>6. ASSUME NEW x \in found PROVE x \in Up(par, m)
  <2>1. x \in Nodes /\ m \in Nodes /\ x \in Up(par, x)
    BY UpStarts
  <2>2. CASE m \in Up(par, x)
    <3> DEFINE rest == Nodes \ Up(par, x)
    <3>1. Up(par, m) \subseteq Up(par, x)
      BY <2>1, <2>2, UpOfMember
    <3>2. rest \in Rests /\ rest \subseteq least
      BY <1>5, <3>1
    <3>3. <<rest, least>> \notin R
      BY <1>4, <3>2
    <3>4. rest = least
      <4>1. rest \in SUBSET Nodes /\ least \in SUBSET Nodes
        BY <1>5
      <4> HIDE DEF rest
      <4> QED
        BY <3>2, <3>3, <4>1 DEF StrictSubsetOrdering
    <3> QED
      BY <1>5, <2>1, <3>4
  <2>3. CASE x \in Up(par, m)
    BY <2>3
  <2> QED
    BY <2>2, <2>3, UpIsALine
<1> QED
  BY <1>6

LEMMA ParentTypes ==
    ASSUME DomTypes
    PROVE  /\ Made \subseteq Nodes /\ Root \in Made
           /\ parent \in [Nodes -> Nodes \cup {None}]
           /\ \A n \in Made : parent[n] \in Made \cup {None}
BY DEF DomTypes, Made

LEMMA ChainOfMade ==
    ASSUME DomTypes, NEW n \in Made
    PROVE  n \in Chain(n) /\ Chain(n) \subseteq Made
<1>1. Made \in SUBSET Nodes /\ n \in Nodes
  BY ParentTypes
<1>2. Climbs(parent, Made)
  BY ParentTypes DEF Climbs
<1> HIDE DEF Made
<1>3. Up(parent, n) \subseteq Made /\ n \in Up(parent, n)
  BY <1>1, <1>2, UpWithin, UpStarts
<1> QED
  BY <1>3, ChainIsUp

LEMMA NearestIsThere ==
    ASSUME DomTypes, NEW n \in Made, NEW these
    PROVE  Nearest(n, these) \in (Chain(n) \cap these) \cup {None}
<1> DEFINE found == Chain(n) \cap these
<1>1. CASE found = {}
  BY <1>1 DEF Nearest
<1>2. CASE found # {}
  <2>1. n \in Nodes /\ parent \in [Nodes -> Nodes \cup {None}]
    BY ParentTypes
  <2>2. found \in SUBSET Up(parent, n)
    BY ChainIsUp
  <2>3. PICK m \in found : found \subseteq Up(parent, m)
    <3> HIDE DEF found
    <3> QED
      BY <1>2, <2>1, <2>2, InnermostExists
  <2>4. found \subseteq Chain(m)
    BY <2>3, ChainIsUp
  <2>5. Nearest(n, these) = CHOOSE k \in found : found \subseteq Chain(k)
    BY <1>2 DEF Nearest
  <2> HIDE DEF found
  <2>6. Nearest(n, these) \in found
    BY <2>4, <2>5
  <2> QED
    BY <2>6 DEF found
<1> QED
  BY <1>1, <1>2

-----------------------------------------------------------------------------
(* Lists of children.                                                      *)

LEMMA RemovedOnce ==
    ASSUME NEW S, NEW s \in Seq(S), IsInjective(s), NEW k \in DOMAIN s
    PROVE  /\ RemoveAt(s, k) \in Seq(S) /\ IsInjective(RemoveAt(s, k))
           /\ ToSet(RemoveAt(s, k)) = ToSet(s) \ {s[k]}
<1> DEFINE rest == RemoveAt(s, k)
           from(i) == IF i < k THEN i ELSE i + 1
<1>1. k \in 1..Len(s) /\ DOMAIN s = 1..Len(s) /\ Len(s) \in Nat
  OBVIOUS
<1>2. /\ rest \in Seq(S) /\ Len(rest) = Len(s) - 1
      /\ \A i \in 1..(Len(s) - 1) : rest[i] = s[from(i)]
  BY <1>1, RemoveAtElements
<1>3. DOMAIN rest = 1..(Len(s) - 1)
  BY <1>2
<1> HIDE DEF rest
<1>4. \A i \in DOMAIN rest : from(i) \in DOMAIN s /\ from(i) # k
  BY <1>1, <1>3
<1>5. \A i, j \in DOMAIN rest : from(i) = from(j) => i = j
  BY <1>1, <1>3
<1>6. ASSUME NEW m \in DOMAIN s, m # k
      PROVE  \E i \in DOMAIN rest : from(i) = m
  <2>1. CASE m < k
    BY <1>1, <1>3, <2>1
  <2>2. CASE ~ (m < k)
    <3>1. m - 1 \in DOMAIN rest /\ from(m - 1) = m
      BY <1>1, <1>3, <1>6, <2>2
    <3> QED
      BY <3>1
  <2> QED
    BY <2>1, <2>2
<1>7. \A i \in DOMAIN rest : rest[i] = s[from(i)]
  BY <1>2, <1>3
<1> HIDE DEF from
<1>8. IsInjective(rest)
  BY <1>4, <1>5, <1>7 DEF IsInjective
<1>9. ToSet(rest) = ToSet(s) \ {s[k]}
  <2>1. ASSUME NEW i \in DOMAIN rest PROVE rest[i] \in ToSet(s) \ {s[k]}
    BY <1>4, <1>7 DEF ToSet, IsInjective
  <2>2. ASSUME NEW e \in ToSet(s) \ {s[k]}
        PROVE  \E i \in DOMAIN rest : rest[i] = e
    <3>1. PICK m \in DOMAIN s : s[m] = e
      BY DEF ToSet
    <3> QED
      BY <1>6, <1>7, <3>1
  <2> QED
    BY <2>1, <2>2 DEF ToSet
<1> QED
  BY <1>2, <1>8, <1>9 DEF rest

LEMMA InsertAtElements ==
    ASSUME NEW S, NEW s \in Seq(S), NEW k \in 1..(Len(s) + 1), NEW e \in S
    PROVE  /\ InsertAt(s, k, e) \in Seq(S)
           /\ Len(InsertAt(s, k, e)) = Len(s) + 1
           /\ \A i \in 1..(Len(s) + 1) :
                  /\ i < k => InsertAt(s, k, e)[i] = s[i]
                  /\ i = k => InsertAt(s, k, e)[i] = e
                  /\ i > k => InsertAt(s, k, e)[i] = s[i - 1]
<1> DEFINE a == SubSeq(s, 1, k - 1)
           b == SubSeq(s, k, Len(s))
           ae == a \o <<e>>
<1>1. /\ a \in Seq(S) /\ Len(a) = k - 1
      /\ \A i \in 1..(k - 1) : a[i] = s[i]
  OBVIOUS
<1>2. b \in Seq(S) /\ Len(b) = Len(s) - k + 1
  OBVIOUS
<1>3. ASSUME NEW i \in 1..(Len(s) - k + 1) PROVE b[i] = s[k + i - 1]
  OBVIOUS
<1>4. InsertAt(s, k, e) = ae \o b
  BY DEF InsertAt
<1>5. /\ <<e>> \in Seq(S) /\ Len(<<e>>) = 1 /\ <<e>>[1] = e
  OBVIOUS
<1> HIDE DEF a, b
<1>6. /\ ae \in Seq(S) /\ Len(ae) = k /\ ae[k] = e
      /\ \A i \in 1..(k - 1) : ae[i] = s[i]
  BY <1>1, <1>5
<1> HIDE DEF ae
<1>7. (ae \o b) \in Seq(S) /\ Len(ae \o b) = Len(s) + 1
  BY <1>2, <1>6
<1>8. ASSUME NEW i \in 1..(Len(s) + 1)
      PROVE  /\ i < k => (ae \o b)[i] = s[i]
             /\ i = k => (ae \o b)[i] = e
             /\ i > k => (ae \o b)[i] = s[i - 1]
  <2>1. CASE i <= k
    BY <1>2, <1>6, <2>1
  <2>2. CASE ~ (i <= k)
    <3>1. i - k \in 1..(Len(s) - k + 1) /\ k + (i - k) - 1 = i - 1
      BY <2>2
    <3>2. (ae \o b)[i] = b[i - k]
      <4>1. i \in 1..(Len(ae) + Len(b)) /\ i > Len(ae)
        BY <1>2, <1>6, <2>2
      <4>2. (ae \o b)[i] = b[i - Len(ae)]
        BY <1>2, <1>6, <4>1
      <4> QED
        BY <1>6, <4>2
    <3> QED
      BY <1>3, <2>2, <3>1, <3>2
  <2> QED
    BY <2>1, <2>2
<1> QED
  BY <1>4, <1>7, <1>8

LEMMA InsertedOnce ==
    ASSUME NEW S, NEW s \in Seq(S), IsInjective(s), NEW k \in 1..(Len(s) + 1),
           NEW e \in S, e \notin ToSet(s)
    PROVE  /\ InsertAt(s, k, e) \in Seq(S) /\ IsInjective(InsertAt(s, k, e))
           /\ ToSet(InsertAt(s, k, e)) = ToSet(s) \cup {e}
<1> DEFINE more == InsertAt(s, k, e)
           from(i) == IF i < k THEN i ELSE i - 1
<1>1. DOMAIN s = 1..Len(s) /\ Len(s) \in Nat
  OBVIOUS
<1>2. /\ more \in Seq(S) /\ Len(more) = Len(s) + 1
      /\ \A i \in 1..(Len(s) + 1) :
             /\ i < k => more[i] = s[i]
             /\ i = k => more[i] = e
             /\ i > k => more[i] = s[i - 1]
  BY InsertAtElements
<1>3. DOMAIN more = 1..(Len(s) + 1) /\ k \in DOMAIN more /\ more[k] = e
  BY <1>1, <1>2
<1> HIDE DEF more
<1>4. \A i \in DOMAIN more \ {k} : from(i) \in DOMAIN s /\ more[i] = s[from(i)]
  BY <1>1, <1>2, <1>3
<1>5. \A i, j \in DOMAIN more \ {k} : from(i) = from(j) => i = j
  BY <1>1, <1>3
<1>6. ASSUME NEW m \in DOMAIN s
      PROVE  \E i \in DOMAIN more \ {k} : from(i) = m
  <2>1. CASE m < k
    BY <1>1, <1>3, <2>1
  <2>2. CASE ~ (m < k)
    <3>1. m + 1 \in DOMAIN more \ {k} /\ from(m + 1) = m
      BY <1>1, <1>3, <2>2
    <3> QED
      BY <3>1
  <2> QED
    BY <2>1, <2>2
<1> HIDE DEF from
<1>7. \A i \in DOMAIN more \ {k} : more[i] \in ToSet(s)
  BY <1>4 DEF ToSet
<1>8. IsInjective(more)
  BY <1>3, <1>4, <1>5, <1>7 DEF IsInjective
<1>9. ToSet(more) = ToSet(s) \cup {e}
  <2>1. ASSUME NEW i \in DOMAIN more PROVE more[i] \in ToSet(s) \cup {e}
    BY <1>3, <1>7
  <2>2. ASSUME NEW x \in ToSet(s) PROVE \E i \in DOMAIN more : more[i] = x
    <3>1. PICK m \in DOMAIN s : s[m] = x
      BY DEF ToSet
    <3> QED
      BY <1>4, <1>6, <3>1
  <2> QED
    BY <1>3, <2>1, <2>2 DEF ToSet
<1> QED
  BY <1>2, <1>8, <1>9 DEF more

\* detach
LEMMA DetachedList ==
    ASSUME DomTypes, TreeInv, NEW c \in Made, parent[c] # None
    PROVE  LET rest == Detached(parent[c], c)
           IN  /\ rest \in Seq(Made) /\ IsInjective(rest)
               /\ ToSet(rest) = ToSet(children[parent[c]]) \ {c}
<1> DEFINE q == parent[c]
           s == children[q]
           k == CHOOSE i \in DOMAIN s : s[i] = c
<1>1. q \in Nodes
  BY ParentTypes
<1>2. s \in Seq(Made) /\ IsInjective(s) /\ c \in ToSet(s)
  BY <1>1 DEF DomTypes, TreeInv
<1> HIDE DEF q, s
<1>3. k \in DOMAIN s /\ s[k] = c
  BY <1>2 DEF ToSet
<1>4. Detached(q, c) = RemoveAt(s, k)
  BY DEF Detached, s
<1> HIDE DEF k
<1>5. /\ RemoveAt(s, k) \in Seq(Made) /\ IsInjective(RemoveAt(s, k))
      /\ ToSet(RemoveAt(s, k)) = ToSet(s) \ {c}
  BY <1>2, <1>3, RemovedOnce
<1> QED
  BY <1>4, <1>5 DEF q, s

-----------------------------------------------------------------------------
(* The document changes.                                                   *)

\* A step after which each id has the first element that it had.
SameFirsts == \A id \in Ids : FirstWithId(id)' = FirstWithId(id)

LEMMA FirstsFollow ==
    ASSUME Below(Root)' = Below(Root), idOf' = idOf,
           \A n, m \in Below(Root) : Precedes(n, m)' <=> Precedes(n, m)
    PROVE  SameFirsts
<1> SUFFICES ASSUME NEW id \in Ids PROVE FirstWithId(id)' = FirstWithId(id)
  BY DEF SameFirsts
<1> DEFINE all == {n \in Below(Root) : idOf[n] = id}
           first == {n \in all : \A m \in all \ {n} : Precedes(n, m)}
           all2 == {n \in Below(Root)' : idOf'[n] = id}
           first2 == {n \in all2 : \A m \in all2 \ {n} : Precedes(n, m)'}
<1>1. all2 = all
  OBVIOUS
<1>2. first2 = first
  BY <1>1
<1>3. all = {n \in Made : idOf[n] = id /\ InDocument(n)}
  <2> HIDE DEF Made
  <2> QED
    BY DEF Below, InDocument
<1>4. all2 = {n \in Made' : idOf'[n] = id /\ InDocument(n)'}
  <2> HIDE DEF Made
  <2> QED
    BY DEF Below, InDocument
<1>5. FirstWithId(id) = IF first = {} THEN None ELSE CHOOSE n \in first : TRUE
  <2> HIDE DEF all
  <2> QED
    BY <1>3 DEF FirstWithId
<1>6. FirstWithId(id)'
          = IF first2 = {} THEN None ELSE CHOOSE n \in first2 : TRUE
  <2> HIDE DEF all2
  <2> QED
    BY <1>4 DEF FirstWithId
<1> HIDE DEF first, first2
<1> QED
  BY <1>2, <1>5, <1>6

LEMMA FirstIsMade ==
    \A id : /\ FirstWithId(id) \in Made \cup {None}
            /\ FirstWithId(id)' \in Made' \cup {None}
<1> SUFFICES ASSUME NEW id
             PROVE  /\ FirstWithId(id) \in Made \cup {None}
                    /\ FirstWithId(id)' \in Made' \cup {None}
  OBVIOUS
<1> DEFINE all == {n \in Made : idOf[n] = id /\ InDocument(n)}
           first == {n \in all : \A m \in all \ {n} : Precedes(n, m)}
<1>1. first \subseteq Made /\ first' \subseteq Made'
  OBVIOUS
<1>2. FirstWithId(id) = IF first = {} THEN None ELSE CHOOSE n \in first : TRUE
  BY DEF FirstWithId
<1>3. FirstWithId(id)'
          = IF first' = {} THEN None ELSE CHOOSE n \in first' : TRUE
  BY DEF FirstWithId
<1> HIDE DEF first, Made
<1> QED
  BY <1>1, <1>2, <1>3

\* Nodes that are new and stand alone change nothing that is read off the tree.
LEMMA LooseNodes ==
    ASSUME DomTypes, parent' = parent, children' = children, idOf' = idOf,
           Made \subseteq Made',
           \A n \in Made' \ Made : parent[n] = None /\ children[n] = <<>>
    PROVE  /\ \A n : Chain(n)' = Chain(n)
           /\ Below(Root)' = Below(Root)
           /\ SameFirsts
<1>1. \A n : Chain(n)' = Chain(n)
  BY ChainIsUp, ChainIsUpNext
<1>2. Below(Root)' = Below(Root)
  <2>1. ASSUME NEW m \in Made' \ Made PROVE Root \notin Chain(m)
    <3>1. m \in Nodes
      BY <2>1 DEF Made
    <3>2. Up(parent, m) = {m}
      BY <2>1, <3>1, UpByParent, ParentTypes
    <3>3. Root # m
      BY <2>1, ParentTypes
    <3> QED
      BY <3>2, <3>3, ChainIsUp
  <2>2. Below(Root)' = {m \in Made' : Root \in Chain(m)}
    BY <1>1 DEF Below
  <2>3. Below(Root) = {m \in Made : Root \in Chain(m)}
    BY DEF Below
  <2> HIDE DEF Made
  <2> QED
    BY <2>1, <2>2, <2>3
<1>3. \A n, m : Precedes(n, m)' <=> Precedes(n, m)
  <2> SUFFICES ASSUME NEW n, NEW m
               PROVE  Precedes(n, m)' <=> Precedes(n, m)
    OBVIOUS
  <2>1. \A p \in Made' \ Made : DOMAIN children[p] = {}
    OBVIOUS
  <2>2. Precedes(n, m) <=>
          \/ n # m /\ n \in Chain(m)
          \/ \E p \in Made : \E i, j \in DOMAIN children[p] :
                i < j /\ children[p][i] \in Chain(n) /\ children[p][j] \in Chain(m)
    BY DEF Precedes
  <2>3. Precedes(n, m)' <=>
          \/ n # m /\ n \in Chain(m)
          \/ \E p \in Made' : \E i, j \in DOMAIN children[p] :
                i < j /\ children[p][i] \in Chain(n) /\ children[p][j] \in Chain(m)
    BY <1>1 DEF Precedes
  <2> HIDE DEF Made
  <2> QED
    BY <2>1, <2>2, <2>3
<1>4. SameFirsts
  BY <1>2, <1>3, FirstsFollow
<1> QED
  BY <1>1, <1>2, <1>4

DomInv == DomTypes /\ TreeInv

LEMMA CreateElementDom ==
    ASSUME DomInv, FocusInv, NEW n \in Nodes, NEW t \in NewTags,
           CreateElement(n, t)
    PROVE  /\ Made \subseteq Made'
           /\ DomInv' /\ FocusInv'
           /\ Below(Root)' = Below(Root) /\ SameFirsts
<1>1. /\ tag' = [tag EXCEPT ![n] = t] /\ tag[n] = None
      /\ parent' = parent /\ children' = children /\ idOf' = idOf
      /\ focused' = focused /\ scrollFocus' = scrollFocus
  BY DEF CreateElement, pageVars
<1>2. t \in Tags /\ t # None
  BY PagesAssumption
<1>3. DomTypes /\ TreeInv
  BY DEF DomInv
<1>4. tag' \in [Nodes -> Tags \cup {None}] /\ Made' = Made \cup {n}
  BY <1>1, <1>2, <1>3 DEF DomTypes, Made
<1>5. n \notin Made
  BY <1>1 DEF Made
<1>6. parent[n] = None /\ children[n] = <<>>
  BY <1>3, <1>5 DEF DomTypes
<1>7. \A m \in Nodes : children[m] \in Seq(Made) => children[m] \in Seq(Made')
  BY <1>4
<1>8. DomTypes'
  <2> HIDE DEF Made
  <2> QED
    BY <1>1, <1>3, <1>4, <1>7 DEF DomTypes
<1>9. /\ \A m : Chain(m)' = Chain(m)
      /\ Below(Root)' = Below(Root) /\ SameFirsts
  BY <1>1, <1>3, <1>4, <1>6, LooseNodes
<1>10. TreeInv'
  <2>1. \A m \in Nodes : {k \in Made : parent[k] = m} = {k \in Made' : parent[k] = m}
    BY <1>4, <1>6, PagesAssumption
  <2> HIDE DEF Made
  <2> QED
    BY <1>1, <1>3, <1>9, <2>1 DEF TreeInv
<1>11. FocusInv'
  <2> HIDE DEF Made
  <2> QED
    BY <1>1, <1>4, <1>9 DEF FocusInv, FocusIsInDocument, InDocument
<1> QED
  BY <1>4, <1>8, <1>9, <1>10, <1>11 DEF DomInv

LEMMA TreeIsAcyclic ==
    ASSUME TreeInv PROVE Acyclic(parent)
BY ChainIsUp DEF TreeInv, Acyclic

\* TreeInv of the next state, in its parts.
LEMMA TreeInvNext ==
    ASSUME Acyclic(parent'),
           \A n \in Nodes : /\ IsInjective(children'[n])
                            /\ ToSet(children'[n]) = {m \in Made' : parent'[m] = n}
    PROVE  TreeInv'
BY ChainIsUpNext DEF TreeInv, Acyclic

\* node_removed: unless the focus goes, what is above it was not removed.
LEMMA FocusFollows ==
    ASSUME DomTypes, FocusInv, DomTypes', Made \subseteq Made',
           scrollFocus' = scrollFocus, NEW removed, Blurs(removed),
           \A m \in Made \ removed : parent[m] \in {parent'[m], None}
    PROVE  FocusInv'
<1>1. CASE focused' = None
  BY <1>1 DEF FocusInv, FocusIsInDocument
<1>2. CASE focused' = focused /\ focused # None /\ Chain(focused) \cap removed = {}
  <2>1. focused \in Made /\ Root \in Chain(focused)
    BY <1>2 DEF FocusInv, FocusIsInDocument, InDocument
  <2>2. Chain(focused) \subseteq Made
    BY <2>1, ChainOfMade
  <2>3. /\ focused \in Nodes /\ parent \in [Nodes -> Nodes \cup {None}]
        /\ parent' \in [Nodes -> Nodes \cup {None}]
    <3>1. Made' \subseteq Nodes
      BY DEF Made
    <3>2. parent' \in [Nodes -> Made' \cup {None}]
      BY DEF DomTypes
    <3> HIDE DEF Made
    <3> QED
      BY <2>1, <3>1, <3>2, ParentTypes
  <2>4. Up(parent, focused) \subseteq Up(parent', focused)
    BY <1>2, <2>2, <2>3, ChainIsUp, UpGrows
  <2>5. Root \in Chain(focused)'
    BY <1>2, <2>1, <2>4, ChainIsUp, ChainIsUpNext
  <2>6. InDocument(focused)'
    BY <2>5 DEF InDocument
  <2> QED
    BY <1>2, <2>1, <2>6 DEF FocusInv, FocusIsInDocument
<1>3. CASE focused' = focused /\ focused = None
  BY <1>3, <1>1
<1> QED
  BY <1>1, <1>2, <1>3 DEF Blurs, LosesFocus

LEMMA InsertBeforeDom ==
    ASSUME DomInv, FocusInv, NEW p \in Made, NEW c \in Made,
           NEW ref \in Made \cup {None}, InsertBefore(p, c, ref)
    PROVE  Made' = Made /\ DomInv' /\ FocusInv'
<1> DEFINE without == [n \in Nodes |-> IF n = parent[c] THEN Detached(n, c)
                                       ELSE children[n]]
           at == IF ref = None THEN Len(without[p]) + 1
                 ELSE CHOOSE i \in DOMAIN without[p] : without[p][i] = ref
<1>1. /\ ref # None => ref # c /\ parent[ref] = p
      /\ c \notin Chain(p)
      /\ children' = [without EXCEPT ![p] = InsertAt(without[p], at, c)]
      /\ parent' = [parent EXCEPT ![c] = p]
      /\ Blurs(IF parent[c] # None THEN {c} ELSE {})
      /\ tag' = tag /\ idOf' = idOf /\ scrollFocus' = scrollFocus
  BY DEF InsertBefore, MayInsert, KeepsTree, AfterMutation
<1>2. DomTypes /\ TreeInv
  BY DEF DomInv
<1>3. Made' = Made
  BY <1>1 DEF Made
<1>4. /\ Made \subseteq Nodes /\ parent \in [Nodes -> Nodes \cup {None}]
      /\ None \notin Nodes
  BY <1>2, ParentTypes, PagesAssumption
<1> HIDE DEF Made
<1>5. ASSUME NEW n \in Nodes
      PROVE  /\ without[n] \in Seq(Made) /\ IsInjective(without[n])
             /\ ToSet(without[n]) = {m \in Made : parent[m] = n} \ {c}
  <2>1. CASE n = parent[c]
    <3>1. parent[c] # None
      BY <1>4, <2>1
    <3>2. without[n] = Detached(parent[c], c)
      BY <2>1
    <3>3. ToSet(children[n]) = {m \in Made : parent[m] = n}
      BY <1>2 DEF TreeInv
    <3> HIDE DEF without
    <3> QED
      BY <1>2, <2>1, <3>1, <3>2, <3>3, DetachedList
  <2>2. CASE n # parent[c]
    <3>1. without[n] = children[n]
      BY <2>2
    <3>2. c \notin {m \in Made : parent[m] = n}
      BY <2>2
    <3> HIDE DEF without
    <3> QED
      BY <1>2, <3>1, <3>2 DEF DomTypes, TreeInv
  <2> QED
    BY <2>1, <2>2
<1>6. DOMAIN without = Nodes
  OBVIOUS
<1> DEFINE s == without[p]
<1>7. s \in Seq(Made) /\ IsInjective(s)
      /\ ToSet(s) = {m \in Made : parent[m] = p} \ {c}
  BY <1>4, <1>5
<1>8. at \in 1..(Len(s) + 1)
  <2> HIDE DEF without
  <2>1. CASE ref = None
    BY <1>7, <2>1
  <2>2. CASE ref # None
    <3>1. ref \in ToSet(s)
      BY <1>1, <1>7, <2>2
    <3>2. \E i \in DOMAIN s : s[i] = ref
      BY <3>1 DEF ToSet
    <3>3. at \in DOMAIN s
      BY <2>2, <3>2
    <3>4. DOMAIN s = 1..Len(s) /\ Len(s) \in Nat
      BY <1>7
    <3> HIDE DEF at, s
    <3> QED
      BY <3>3, <3>4
  <2> QED
    BY <2>1, <2>2
<1> DEFINE more == InsertAt(s, at, c)
<1>9. c \notin ToSet(s)
  BY <1>7
<1> HIDE DEF at, s
<1>10. /\ more \in Seq(Made) /\ IsInjective(more)
       /\ ToSet(more) = ToSet(s) \cup {c}
  BY <1>7, <1>8, <1>9, InsertedOnce
<1>11. children' = [without EXCEPT ![p] = more]
  BY <1>1 DEF at, s
<1> HIDE DEF more, without
<1>12. ASSUME NEW n \in Nodes
       PROVE  /\ children'[n] \in Seq(Made) /\ IsInjective(children'[n])
              /\ ToSet(children'[n]) = {m \in Made : parent'[m] = n}
  <2>1. CASE n = p
    <3>1. children'[n] = more
      BY <1>6, <1>11, <2>1
    <3>2. ToSet(more) = {m \in Made : parent'[m] = n}
      BY <1>1, <1>4, <1>7, <1>10, <2>1
    <3> QED
      BY <1>10, <3>1, <3>2
  <2>2. CASE n # p
    <3>1. children'[n] = without[n]
      BY <1>6, <1>11, <2>2
    <3>2. {m \in Made : parent[m] = n} \ {c} = {m \in Made : parent'[m] = n}
      BY <1>1, <1>4, <2>2
    <3> QED
      BY <1>5, <3>1, <3>2
  <2> QED
    BY <2>1, <2>2
<1>13. Acyclic(parent')
  BY <1>1, <1>2, <1>4, ChainIsUp, TreeIsAcyclic, MovedBelow
<1>14. TreeInv'
  BY <1>3, <1>12, <1>13, TreeInvNext
<1>15. DomTypes'
  <2>1. parent' \in [Nodes -> Made \cup {None}]
    BY <1>1, <1>2 DEF DomTypes
  <2>2. DOMAIN children' = Nodes
    BY <1>6, <1>11
  <2>3. children' \in [Nodes -> Seq(Made)]
    <3>1. children' = [n \in Nodes |-> children'[n]]
      BY <1>6, <1>11
    <3> QED
      BY <1>12, <3>1
  <2>4. \A n \in Nodes \ Made : parent'[n] = None /\ children'[n] = <<>>
    <3> SUFFICES ASSUME NEW n \in Nodes \ Made
                 PROVE  parent'[n] = None /\ children'[n] = <<>>
      OBVIOUS
    <3>1. n # c /\ n # p /\ n # parent[c]
      BY <1>2, <1>4 DEF DomTypes
    <3>2. parent[n] = None /\ children[n] = <<>>
      BY <1>2 DEF DomTypes
    <3>3. without[n] = children[n]
      BY <3>1 DEF without
    <3> QED
      BY <1>1, <1>4, <1>6, <1>11, <3>1, <3>2, <3>3
  <2> QED
    BY <1>1, <1>2, <1>3, <2>1, <2>3, <2>4 DEF DomTypes
<1>16. FocusInv'
  <2> DEFINE removed == IF parent[c] # None THEN {c} ELSE {}
  <2>1. \A m \in Made \ removed : parent[m] \in {parent'[m], None}
    BY <1>1, <1>4
  <2> HIDE DEF removed
  <2> QED
    BY <1>1, <1>2, <1>3, <1>15, <2>1, FocusFollows DEF removed
<1> QED
  BY <1>3, <1>14, <1>15, <1>16 DEF DomInv

LEMMA RemoveChildDom ==
    ASSUME DomInv, FocusInv, NEW p \in Made, NEW c \in Made, RemoveChild(p, c)
    PROVE  Made' = Made /\ DomInv' /\ FocusInv'
<1> DEFINE rest == Detached(p, c)
<1>1. /\ parent[c] = p
      /\ parent' = [parent EXCEPT ![c] = None]
      /\ children' = [children EXCEPT ![p] = rest]
      /\ Blurs({c})
      /\ tag' = tag /\ idOf' = idOf /\ scrollFocus' = scrollFocus
  BY DEF RemoveChild, AfterMutation
<1>2. DomTypes /\ TreeInv
  BY DEF DomInv
<1>3. Made' = Made
  BY <1>1 DEF Made
<1>4. /\ Made \subseteq Nodes /\ parent \in [Nodes -> Nodes \cup {None}]
      /\ None \notin Nodes /\ p # None
  BY <1>2, ParentTypes, PagesAssumption
<1> HIDE DEF Made
<1>5. /\ rest \in Seq(Made) /\ IsInjective(rest)
      /\ ToSet(rest) = ToSet(children[p]) \ {c}
  BY <1>1, <1>2, <1>4, DetachedList
<1>6. children \in [Nodes -> Seq(Made)]
  BY <1>2 DEF DomTypes
<1> HIDE DEF rest
<1>7. ASSUME NEW n \in Nodes
      PROVE  /\ children'[n] \in Seq(Made) /\ IsInjective(children'[n])
             /\ ToSet(children'[n]) = {m \in Made : parent'[m] = n}
  <2>1. /\ IsInjective(children[n])
        /\ ToSet(children[n]) = {m \in Made : parent[m] = n}
    BY <1>2 DEF TreeInv
  <2>2. CASE n = p
    <3>1. children'[n] = rest
      BY <1>1, <1>4, <1>6, <2>2
    <3>2. {m \in Made : parent[m] = n} \ {c} = {m \in Made : parent'[m] = n}
      BY <1>1, <1>4
    <3> QED
      BY <1>5, <2>1, <2>2, <3>1, <3>2
  <2>3. CASE n # p
    <3>1. children'[n] = children[n]
      BY <1>1, <1>4, <1>6, <2>3
    <3>2. {m \in Made : parent[m] = n} = {m \in Made : parent'[m] = n}
      BY <1>1, <1>4, <2>3
    <3> QED
      BY <1>6, <2>1, <3>1, <3>2
  <2> QED
    BY <2>2, <2>3
<1>8. Acyclic(parent')
  <2>1. /\ parent' \in [Nodes -> Nodes \cup {None}]
        /\ \A m \in Nodes : parent'[m] \in {parent[m], None}
    BY <1>1, <1>4
  <2> QED
    BY <1>2, <1>4, <2>1, TreeIsAcyclic, Pruned
<1>9. TreeInv'
  BY <1>3, <1>7, <1>8, TreeInvNext
<1>10. DomTypes'
  <2>1. parent' \in [Nodes -> Made \cup {None}]
    BY <1>1, <1>2 DEF DomTypes
  <2>2. children' \in [Nodes -> Seq(Made)]
    BY <1>1, <1>5, <1>6
  <2>3. \A n \in Nodes \ Made : parent'[n] = None /\ children'[n] = <<>>
    BY <1>1, <1>2, <1>4, <1>6 DEF DomTypes
  <2> QED
    BY <1>1, <1>2, <1>3, <2>1, <2>2, <2>3 DEF DomTypes
<1>11. FocusInv'
  <2>1. \A m \in Made \ {c} : parent[m] \in {parent'[m], None}
    BY <1>1, <1>4
  <2> QED
    BY <1>1, <1>2, <1>3, <1>10, <2>1, FocusFollows
<1> QED
  BY <1>3, <1>9, <1>10, <1>11 DEF DomInv

\* op_inner_html_set and op_text_content_set: new children that were not made
\* before, or none.
LEMMA ReplaceChildrenDom ==
    ASSUME DomInv, FocusInv, NEW p \in Made, NEW new \in Seq(Nodes),
           IsInjective(new), ToSet(new) \cap Made = {},
           ReplaceChildren(p, new), scrollFocus' = scrollFocus,
           tag' \in [Nodes -> Tags \cup {None}], Made' = Made \cup ToSet(new),
           idOf' \in [Nodes -> Ids \cup {None}]
    PROVE  DomInv' /\ FocusInv'
<1> DEFINE old == ToSet(children[p])
           added == ToSet(new)
<1>1. /\ parent' = [n \in Nodes |-> IF n \in old THEN None
                                    ELSE IF n \in added THEN p
                                    ELSE parent[n]]
      /\ children' = [children EXCEPT ![p] = new]
      /\ Blurs(old)
  BY DEF ReplaceChildren
<1>2. DomTypes /\ TreeInv
  BY DEF DomInv
<1>3. /\ Made \subseteq Nodes /\ parent \in [Nodes -> Nodes \cup {None}]
      /\ parent \in [Nodes -> Made \cup {None}]
      /\ None \notin Nodes /\ p # None /\ Root \in Made
      /\ children \in [Nodes -> Seq(Made)]
  BY <1>2, ParentTypes, PagesAssumption DEF DomTypes
<1>4. added \subseteq Nodes
  BY DEF ToSet
<1>5. old = {m \in Made : parent[m] = p}
  BY <1>2, <1>3 DEF TreeInv
<1> DEFINE made == Made \cup added
<1>6. Made' = made
  OBVIOUS
<1>7. \A n \in Nodes \ Made : parent[n] = None /\ children[n] = <<>>
  BY <1>2 DEF DomTypes
<1>8. added \cap Made = {}
  OBVIOUS
<1> HIDE DEF Made, old, added
<1>9. parent' \in [Nodes -> made \cup {None}]
  BY <1>1, <1>3
<1>10. ASSUME NEW n \in Nodes
       PROVE  /\ children'[n] \in Seq(made) /\ IsInjective(children'[n])
              /\ ToSet(children'[n]) = {m \in made : parent'[m] = n}
  <2>1. CASE n = p
    <3>1. children'[n] = new
      BY <1>1, <1>3, <2>1
    <3>2. ToSet(new) = {m \in made : parent'[m] = n}
      <4>1. added = {m \in made : parent'[m] = n}
        BY <1>1, <1>3, <1>4, <1>5, <1>8, <2>1
      <4> QED
        BY <4>1 DEF added
    <3>3. new \in Seq(made)
      <4>1. \A i \in 1..Len(new) : new[i] \in added
        BY DEF added, ToSet
      <4> HIDE DEF made
      <4> QED
        BY <4>1 DEF made
    <3> QED
      BY <3>1, <3>2, <3>3
  <2>2. CASE n # p
    <3>1. children'[n] = children[n]
      BY <1>1, <1>3, <2>2
    <3>2. children[n] \in Seq(Made) /\ IsInjective(children[n])
          /\ ToSet(children[n]) = {m \in Made : parent[m] = n}
      BY <1>2, <1>3 DEF TreeInv
    <3>3. {m \in Made : parent[m] = n} = {m \in made : parent'[m] = n}
      BY <1>1, <1>3, <1>4, <1>5, <1>8, <2>2
    <3>4. children[n] \in Seq(made)
      BY <3>2
    <3> QED
      BY <3>1, <3>2, <3>3, <3>4
  <2> QED
    BY <2>1, <2>2
<1>11. parent' \in [Nodes -> Nodes \cup {None}]
  BY <1>3, <1>4, <1>9
<1>12. Acyclic(parent')
  <2> SUFFICES ASSUME NEW n \in Nodes, parent'[n] # None
               PROVE  n \notin Up(parent', parent'[n])
    BY DEF Acyclic
  <2>1. Climbs(parent', Made)
    BY <1>1, <1>3, <1>8 DEF Climbs
  <2>2. CASE n \in added
    <3>1. parent'[n] = p
      BY <1>1, <2>2
    <3>2. Up(parent', p) \subseteq Made
      BY <1>3, <2>1, UpWithin
    <3> QED
      BY <1>8, <2>2, <3>1, <3>2
  <2>3. CASE n \notin added
    <3> DEFINE q == parent[n]
    <3>1. parent'[n] = q /\ q # None /\ q \in Made /\ q \in Nodes
      BY <1>1, <1>3, <2>3
    <3>2. n \notin Up(parent, q)
      BY <1>2, <3>1, TreeIsAcyclic DEF Acyclic
    <3>3. /\ Climbs(parent, Up(parent, q)) /\ q \in Up(parent, q)
          /\ Up(parent, q) \in SUBSET Nodes
      BY <1>3, <3>1, UpClimbs, UpStarts
    <3>4. Up(parent, q) \subseteq Made
      BY <1>2, <3>1, ChainOfMade, ChainIsUp
    <3>5. Climbs(parent', Up(parent, q))
      BY <1>1, <1>8, <3>3, <3>4 DEF Climbs
    <3>6. Up(parent', q) \subseteq Up(parent, q)
      BY <3>3, <3>5, UpWithin
    <3> QED
      BY <3>1, <3>2, <3>6
  <2> QED
    BY <2>2, <2>3
<1>13. TreeInv'
  BY <1>6, <1>10, <1>12, TreeInvNext
<1>14. DomTypes'
  <2>1. children' \in [Nodes -> Seq(made)]
    <3>1. children' = [n \in Nodes |-> children'[n]]
      BY <1>1, <1>3
    <3> HIDE DEF made
    <3> QED
      BY <1>10, <3>1
  <2>2. \A n \in Nodes \ made : parent'[n] = None /\ children'[n] = <<>>
    BY <1>1, <1>3, <1>5, <1>7
  <2>3. Root \in made
    BY <1>3
  <2> HIDE DEF made
  <2> QED
    BY <1>6, <1>9, <2>1, <2>2, <2>3 DEF DomTypes
<1>15. FocusInv'
  <2>1. \A m \in Made \ old : parent[m] \in {parent'[m], None}
    BY <1>1, <1>3, <1>8
  <2>2. Made \subseteq Made'
    BY <1>6
  <2> QED
    BY <1>1, <1>2, <1>14, <2>1, <2>2, FocusFollows
<1> QED
  BY <1>13, <1>14, <1>15 DEF DomInv

LEMMA OrdersAreLists ==
    ASSUME NEW set \in SUBSET Nodes, NEW new \in Orders(set)
    PROVE  new \in Seq(Nodes) /\ IsInjective(new) /\ ToSet(new) \subseteq set
<1>1. Cardinality(set) \in Nat
  BY PagesAssumption, FS_Subset, FS_CardinalityType
<1>2. new \in [1..Cardinality(set) -> set] /\ IsInjective(new)
  BY DEF Orders
<1>3. new \in Seq(set)
  BY <1>1, <1>2
<1>4. ToSet(new) \subseteq set
  BY <1>2 DEF ToSet
<1> QED
  BY <1>2, <1>3, <1>4

LEMMA SetInnerHtmlDom ==
    ASSUME DomInv, FocusInv, NEW p \in Made, NEW set \in SUBSET (Nodes \ Made),
           NEW new \in Orders(set), SetInnerHtml(p, new)
    PROVE  Made \subseteq Made' /\ DomInv' /\ FocusInv'
<1>1. /\ new \in Seq(Nodes) /\ IsInjective(new) /\ ToSet(new) \subseteq Nodes
      /\ ToSet(new) \cap Made = {}
  BY OrdersAreLists
<1>2. PICK tags \in [ToSet(new) -> NewTags], ids \in [ToSet(new) -> Ids \cup {None}] :
        /\ tag'  = [n \in Nodes |-> IF n \in ToSet(new) THEN tags[n] ELSE tag[n]]
        /\ idOf' = [n \in Nodes |-> IF n \in ToSet(new) THEN ids[n] ELSE idOf[n]]
  BY DEF SetInnerHtml
<1>3. /\ tag \in [Nodes -> Tags \cup {None}]
      /\ idOf \in [Nodes -> Ids \cup {None}]
  BY DEF DomInv, DomTypes
<1>4. NewTags \subseteq Tags /\ None \notin Tags
  BY PagesAssumption
<1> DEFINE added == ToSet(new)
<1> HIDE DEF added
<1>5. /\ tag'  = [n \in Nodes |-> IF n \in added THEN tags[n] ELSE tag[n]]
      /\ idOf' = [n \in Nodes |-> IF n \in added THEN ids[n] ELSE idOf[n]]
      /\ tags \in [added -> NewTags] /\ ids \in [added -> Ids \cup {None}]
      /\ added \subseteq Nodes
  BY <1>1, <1>2 DEF added
<1>6. tag' \in [Nodes -> Tags \cup {None}]
  BY <1>3, <1>4, <1>5
<1>7. idOf' \in [Nodes -> Ids \cup {None}]
  BY <1>3, <1>5
<1>8. Made' = Made \cup added
  BY <1>4, <1>5 DEF Made
<1>9. ReplaceChildren(p, new) /\ scrollFocus' = scrollFocus
  BY DEF SetInnerHtml, AfterMutation
<1>10. Made' = Made \cup ToSet(new)
  BY <1>8 DEF added
<1> HIDE DEF Made
<1> QED
  BY <1>1, <1>6, <1>7, <1>9, <1>10, ReplaceChildrenDom

LEMMA SetTextContentDom ==
    ASSUME DomInv, FocusInv, NEW p \in Made, SetTextContent(p)
    PROVE  Made' = Made /\ DomInv' /\ FocusInv'
<1> DEFINE new == <<>>
<1>1. /\ new \in Seq(Nodes) /\ IsInjective(new) /\ ToSet(new) = {}
  BY DEF IsInjective, ToSet
<1>2. /\ ReplaceChildren(p, new) /\ tag' = tag /\ idOf' = idOf
      /\ scrollFocus' = scrollFocus
  BY DEF SetTextContent, AfterMutation
<1>3. Made' = Made
  BY <1>2 DEF Made
<1>4. /\ tag' \in [Nodes -> Tags \cup {None}]
      /\ idOf' \in [Nodes -> Ids \cup {None}]
  BY <1>2 DEF DomInv, DomTypes
<1> HIDE DEF new, Made
<1>5. Made' = Made \cup ToSet(new) /\ ToSet(new) \cap Made = {}
  BY <1>1, <1>3
<1> QED
  BY <1>1, <1>2, <1>3, <1>4, <1>5, ReplaceChildrenDom

LEMMA SetIdDom ==
    ASSUME DomInv, FocusInv, NEW n \in Made, NEW id \in Ids \cup {None},
           SetId(n, id)
    PROVE  Made' = Made /\ DomInv' /\ FocusInv'
<1>1. /\ idOf' = [idOf EXCEPT ![n] = id]
      /\ UNCHANGED <<tag, parent, children, focused, scrollFocus>>
  BY DEF SetId, AfterMutation
<1>2. Made' = Made
  BY <1>1 DEF Made
<1>3. \A m : Chain(m)' = Chain(m)
  BY <1>1, ChainIsUp, ChainIsUpNext
<1>4. idOf' \in [Nodes -> Ids \cup {None}]
  BY <1>1 DEF DomInv, DomTypes
<1> HIDE DEF Made
<1>5. DomTypes'
  BY <1>1, <1>2, <1>4 DEF DomInv, DomTypes
<1>6. TreeInv'
  BY <1>1, <1>2, <1>3 DEF DomInv, TreeInv
<1>7. FocusInv'
  BY <1>1, <1>2, <1>3 DEF FocusInv, FocusIsInDocument, InDocument
<1> QED
  BY <1>2, <1>5, <1>6, <1>7 DEF DomInv

\* A step that leaves the document alone.
LEMMA SameDocument ==
    ASSUME UNCHANGED domVars
    PROVE  /\ Made' = Made /\ \A n : Chain(n)' = Chain(n)
           /\ Below(Root)' = Below(Root) /\ SameFirsts
           /\ DomInv => DomInv'
<1>1. UNCHANGED <<tag, parent, children, idOf>>
  BY DEF domVars
<1>2. Made' = Made
  BY <1>1 DEF Made
<1>3. \A n : Chain(n)' = Chain(n)
  BY <1>1, ChainIsUp, ChainIsUpNext
<1>4. Below(Root)' = Below(Root)
  BY <1>2, <1>3 DEF Below
<1>5. \A n, m : Precedes(n, m)' = Precedes(n, m)
  BY <1>1, <1>2, <1>3 DEF Precedes
<1>7. SameFirsts
  BY <1>1, <1>4, <1>5, FirstsFollow
<1>8. ASSUME DomInv PROVE DomInv'
  BY <1>1, <1>2, <1>3, <1>8 DEF DomInv, DomTypes, TreeInv
<1> QED
  BY <1>2, <1>3, <1>4, <1>7, <1>8

-----------------------------------------------------------------------------
(* What a page keeps of its document: the rest of the inductive invariant.  *)

PageInv == FocusInv /\ TaskInv /\ FrameInv /\ IdInv

LEMMA SameNames ==
    ASSUME IdInv, Made \subseteq Made', SameFirsts, UNCHANGED idVars
    PROVE  IdInv'
<1> HIDE DEF Made
<1>1. globals' = globals /\ fresh' = fresh
  BY DEF idVars
<1>2. \A id \in fresh : globals'[id] \in {FirstWithId(id)', Other}
  BY <1>1 DEF SameFirsts, IdInv, IdGlobalsAreCurrent
<1>3. globals' \in [Ids -> Made' \cup {None, Other}]
  BY <1>1 DEF IdInv
<1> QED
  BY <1>1, <1>2, <1>3 DEF IdInv, IdGlobalsAreCurrent

LEMMA SyncedNames ==
    ASSUME IdInv, Synced PROVE IdInv'
<1>1. /\ globals' = [id \in Ids |-> IF globals[id] = Other THEN Other
                                    ELSE FirstWithId(id)']
      /\ fresh' = Ids
  BY DEF Synced
<1> HIDE DEF Made
<1>2. globals' \in [Ids -> Made' \cup {None, Other}]
  BY <1>1, FirstIsMade
<1>3. \A id \in Ids : globals'[id] \in {FirstWithId(id)', Other}
  BY <1>1
<1> QED
  BY <1>1, <1>2, <1>3 DEF IdInv, IdGlobalsAreCurrent

LEMMA HalfSyncedNames ==
    ASSUME IdInv, Made \subseteq Made', NEW lefts, HalfSynced(lefts)
    PROVE  IdInv'
<1>1. fresh' = {}
  BY DEF HalfSynced
<1> HIDE DEF Made
<1>2. globals' \in [Ids -> Made' \cup {None, Other}]
  <2>1. \A id \in Ids : globals[id] \in Made' \cup {None, Other}
    BY DEF IdInv
  <2>2. CASE \E deleted \in SUBSET Variables :
                 globals' = [id \in Ids |-> IF id \in deleted THEN None
                                            ELSE globals[id]]
    BY <2>1, <2>2
  <2>3. ASSUME NEW left, NEW made,
               globals' = [id \in Ids |->
                   IF globals[id] = Other \/ id = left THEN Other
                   ELSE IF id \in made THEN FirstWithId(id)' ELSE None]
        PROVE  globals' \in [Ids -> Made' \cup {None, Other}]
    BY <2>3, FirstIsMade
  <2> QED
    BY <2>2, <2>3 DEF HalfSynced
<1> QED
  BY <1>1, <1>2 DEF IdInv, IdGlobalsAreCurrent

\* after_mutation: whatever the frame shows, the handler that runs will make
\* it anew.
LEMMA AfterMutationPage ==
    ASSUME Running, TaskInv, FrameInv, IdInv,
           NEW changed, AfterMutation(changed),
           Made \subseteq Made', focused' \in Made' \cup {None},
           changed \/ SameFirsts
    PROVE  TaskInv' /\ FrameInv' /\ IdInv'
<1>1. /\ dirty' = TRUE /\ task' = task /\ frame' = frame
      /\ Running' => Running
      /\ \/ ~ changed /\ UNCHANGED idVars
         \/ Synced \/ HalfSynced(Ids) \/ HalfSynced({})
  BY DEF AfterMutation, Running, Enter, Abort
<1> HIDE DEF Made
<1>2. TaskInv'
  <2>1. task # None /\ task \in Tasks
    BY DEF TaskInv
  <2>2. task \in Tasks'
    BY <2>1 DEF Tasks
  <2>3. task.target \in Made => task.target \in Made'
    OBVIOUS
  <2> HIDE DEF Tasks
  <2> QED
    BY <1>1, <2>1, <2>2, <2>3 DEF TaskInv
<1>3. FrameInv'
  <2>1. frame \in [nodes : SUBSET Made', focus : Made' \cup {None}]
    BY DEF FrameInv
  <2>2. task # None
    BY DEF TaskInv
  <2> QED
    BY <1>1, <2>1, <2>2 DEF FrameInv
<1>4. IdInv'
  <2>1. CASE ~ changed /\ UNCHANGED idVars
    BY <2>1, SameNames
  <2>2. CASE Synced
    BY <2>2, SyncedNames
  <2>3. ASSUME NEW lefts, HalfSynced(lefts) PROVE IdInv'
    BY <2>3, HalfSyncedNames
  <2> QED
    BY <1>1, <2>1, <2>2, <2>3
<1> QED
  BY <1>2, <1>3, <1>4

\* The text of an element that has no child element.
LEMMA NoChildReplaced ==
    ASSUME DomInv, NEW p \in Made, children[p] = <<>>, SetTextContent(p)
    PROVE  SameFirsts
<1>1. /\ ReplaceChildren(p, <<>>) /\ tag' = tag /\ idOf' = idOf
  BY DEF SetTextContent
<1>2. ToSet(children[p]) = {} /\ ToSet(<<>>) = {}
  BY DEF ToSet
<1>3. /\ parent \in [Nodes -> Made \cup {None}]
      /\ children \in [Nodes -> Seq(Made)]
  BY DEF DomInv, DomTypes
<1>4. parent' = [n \in Nodes |-> parent[n]]
  BY <1>1, <1>2 DEF ReplaceChildren
<1>5. children' = [children EXCEPT ![p] = <<>>]
  BY <1>1 DEF ReplaceChildren
<1>6. UNCHANGED <<parent, children>>
  BY <1>3, <1>4, <1>5
<1> QED
  BY <1>1, <1>6, SameDocument DEF domVars

\* A step that changes nothing of the page itself, and starts no script.
LEMMA PageIsLeft ==
    ASSUME TaskInv, FrameInv, IdInv,
           Made \subseteq Made', Below(Root)' = Below(Root), SameFirsts,
           UNCHANGED <<idVars, focused, dirty, frame, task>>,
           Running' => Running
    PROVE  TaskInv' /\ FrameInv' /\ IdInv'
<1> HIDE DEF Made
<1>1. TaskInv'
  <2>1. task \in Tasks => task \in Tasks'
    BY DEF Tasks
  <2> HIDE DEF Tasks
  <2> QED
    BY <2>1 DEF TaskInv
<1>2. FrameInv'
  <2>1. frame \in [nodes : SUBSET Made', focus : Made' \cup {None}]
    BY DEF FrameInv
  <2> QED
    BY <2>1 DEF FrameInv
<1>3. IdInv'
  BY SameNames
<1> QED
  BY <1>1, <1>2, <1>3

LEMMA BridgeCallHolds ==
    ASSUME DomInv, PageInv, BridgeCall PROVE DomInv' /\ PageInv'
<1>1. FocusInv /\ TaskInv /\ FrameInv /\ IdInv
  BY DEF PageInv
<1>2. ASSUME NEW changed, Running, AfterMutation(changed), Made \subseteq Made',
             DomInv', FocusInv', changed \/ SameFirsts
      PROVE  DomInv' /\ PageInv'
  <2>1. focused' \in Made' \cup {None}
    BY <1>2 DEF FocusInv
  <2> HIDE DEF Made
  <2>2. TaskInv' /\ FrameInv' /\ IdInv'
    BY <1>1, <1>2, <2>1, AfterMutationPage
  <2> QED
    BY <1>2, <2>2 DEF PageInv
<1>3. ASSUME NEW n \in Nodes, NEW t \in NewTags, CreateElement(n, t)
      PROVE  DomInv' /\ PageInv'
  <2>1. /\ Made \subseteq Made' /\ DomInv' /\ FocusInv'
        /\ Below(Root)' = Below(Root) /\ SameFirsts
    BY <1>1, <1>3, CreateElementDom
  <2>2. UNCHANGED <<idVars, focused, dirty, frame, task>> /\ Running' = Running
    BY <1>3 DEF CreateElement, pageVars, jsVars, Running
  <2> HIDE DEF Made
  <2> QED
    BY <1>1, <2>1, <2>2, PageIsLeft DEF PageInv
<1>4. ASSUME NEW p \in Made, NEW c \in Made, RemoveChild(p, c)
      PROVE  DomInv' /\ PageInv'
  <2>1. Made' = Made /\ DomInv' /\ FocusInv'
    BY <1>1, <1>4, RemoveChildDom
  <2> QED
    BY <1>2, <1>4, <2>1 DEF RemoveChild
<1>5. ASSUME NEW p \in Made, NEW c \in Made, NEW ref \in Made \cup {None},
             InsertBefore(p, c, ref)
      PROVE  DomInv' /\ PageInv'
  <2>1. Made' = Made /\ DomInv' /\ FocusInv'
    BY <1>1, <1>5, InsertBeforeDom
  <2>2. Running /\ AfterMutation(TRUE)
    BY <1>5 DEF InsertBefore
  <2> HIDE DEF Made
  <2> QED
    BY <1>2, <2>1, <2>2
<1>6. ASSUME NEW p \in Made, SetTextContent(p) PROVE DomInv' /\ PageInv'
  <2>1. Made' = Made /\ DomInv' /\ FocusInv'
    BY <1>1, <1>6, SetTextContentDom
  <2>2. Running /\ AfterMutation(children[p] # <<>>)
    BY <1>6 DEF SetTextContent
  <2>3. children[p] # <<>> \/ SameFirsts
    BY <1>6, NoChildReplaced
  <2> DEFINE changed == children[p] # <<>>
  <2> HIDE DEF Made, changed
  <2>4. AfterMutation(changed) /\ (changed \/ SameFirsts)
    BY <2>2, <2>3 DEF changed
  <2> QED
    BY <1>2, <2>1, <2>2, <2>4
<1>7. ASSUME NEW p \in Made, NEW set \in SUBSET (Nodes \ Made),
             NEW new \in Orders(set), SetInnerHtml(p, new)
      PROVE  DomInv' /\ PageInv'
  <2>1. Made \subseteq Made' /\ DomInv' /\ FocusInv'
    BY <1>1, <1>7, SetInnerHtmlDom
  <2>2. Running /\ AfterMutation(TRUE)
    BY <1>7 DEF SetInnerHtml
  <2> HIDE DEF Made
  <2> QED
    BY <1>2, <2>1, <2>2
<1>8. ASSUME NEW p \in Made, NEW id \in Ids \cup {None}, SetId(p, id)
      PROVE  DomInv' /\ PageInv'
  <2>1. Made' = Made /\ DomInv' /\ FocusInv'
    BY <1>1, <1>8, SetIdDom
  <2>2. Running /\ AfterMutation(TRUE)
    BY <1>8 DEF SetId
  <2> HIDE DEF Made
  <2> QED
    BY <1>2, <2>1, <2>2
<1>9. ASSUME SetAttribute PROVE DomInv' /\ PageInv'
  <2>1. /\ UNCHANGED domVars /\ UNCHANGED <<focused, scrollFocus>>
        /\ Running /\ AfterMutation(FALSE)
    BY <1>9 DEF SetAttribute, AfterMutation
  <2>2. Made' = Made /\ (\A n : Chain(n)' = Chain(n)) /\ SameFirsts /\ DomInv'
    BY <2>1, SameDocument
  <2> HIDE DEF Made
  <2>3. FocusInv'
    BY <1>1, <2>1, <2>2 DEF FocusInv, FocusIsInDocument, InDocument
  <2> QED
    BY <1>2, <2>1, <2>2, <2>3
<1>10. ASSUME NEW id \in Ids, SetGlobal(id) PROVE DomInv' /\ PageInv'
  <2>1. /\ UNCHANGED domVars /\ UNCHANGED <<focused, scrollFocus>>
        /\ UNCHANGED <<dirty, frame, task>> /\ Running' = Running
    BY <1>10 DEF SetGlobal, jsVars, pageVars, Running
  <2>2. PICK value \in {None, Other} :
            globals' = [globals EXCEPT ![id] = value]
    BY <1>10 DEF SetGlobal
  <2>3. fresh' = fresh \ {id}
    BY <1>10 DEF SetGlobal
  <2>4. /\ Made' = Made /\ (\A n : Chain(n)' = Chain(n)) /\ SameFirsts
        /\ Below(Root)' = Below(Root) /\ DomInv'
    BY <2>1, SameDocument
  <2> HIDE DEF Made
  <2>5. FocusInv'
    BY <1>1, <2>1, <2>4 DEF FocusInv, FocusIsInDocument, InDocument
  <2>6. TaskInv' /\ FrameInv'
    <3>1. Tasks' = Tasks
      BY <2>4 DEF Tasks
    <3> HIDE DEF Tasks
    <3> QED
      BY <1>1, <2>1, <2>4, <3>1 DEF TaskInv, FrameInv
  <2>7. IdInv'
    <3>1. globals' \in [Ids -> Made' \cup {None, Other}]
      BY <1>1, <2>2, <2>4 DEF IdInv
    <3>2. \A other \in fresh \ {id} : globals'[other] = globals[other]
      BY <1>1, <2>2 DEF IdInv
    <3>3. \A other \in fresh \ {id} :
              globals'[other] \in {FirstWithId(other)', Other}
      BY <1>1, <2>4, <3>2 DEF IdInv, IdGlobalsAreCurrent, SameFirsts
    <3> QED
      BY <1>1, <2>3, <3>1, <3>3 DEF IdInv, IdGlobalsAreCurrent
  <2> QED
    BY <2>4, <2>5, <2>6, <2>7 DEF PageInv
<1> QED
  <2> HIDE DEF Made
  <2> QED
    BY <1>3, <1>4, <1>5, <1>6, <1>7, <1>8, <1>9, <1>10 DEF BridgeCall

-----------------------------------------------------------------------------
(* The handlers leave the document to the scripts.                          *)

LEMMA FocusStays ==
    ASSUME FocusInv, UNCHANGED domVars, focused' \in {focused, None},
           scrollFocus' \in Made \cup {None}
    PROVE  FocusInv'
<1>1. Made' = Made /\ \A n : Chain(n)' = Chain(n)
  BY SameDocument
<1> HIDE DEF Made
<1> QED
  BY <1>1 DEF FocusInv, FocusIsInDocument, InDocument

LEMMA Rebuilt ==
    ASSUME DomTypes, UNCHANGED domVars, Rebuild, focused' \in Made \cup {None}
    PROVE  FrameInv'
<1>1. Made' = Made /\ Below(Root)' = Below(Root)
  BY SameDocument
<1>2. Below(Root) \in SUBSET Made
  BY DEF Below
<1> HIDE DEF Made
<1>3. dirty' = FALSE /\ frame' = [nodes |-> Below(Root), focus |-> focused']
  BY DEF Rebuild
<1> DEFINE shown == Below(Root)
<1> HIDE DEF shown
<1>4. /\ dirty' = FALSE /\ frame' = [nodes |-> shown, focus |-> focused']
      /\ shown \in SUBSET Made' /\ Below(Root)' = shown
      /\ focused' \in Made' \cup {None}
  BY <1>1, <1>2, <1>3 DEF shown
<1> QED
  BY <1>4 DEF FrameInv

LEMMA FrameStays ==
    ASSUME FrameInv, UNCHANGED domVars, UNCHANGED <<dirty, frame>>,
           task' = None => ~ dirty /\ frame.focus = focused',
           task' # None /\ ~ dirty /\ ~ task'.changed => frame.focus = focused'
    PROVE  FrameInv'
<1>1. Made' = Made /\ Below(Root)' = Below(Root)
  BY SameDocument
<1> HIDE DEF Made
<1> QED
  BY <1>1 DEF FrameInv

\* How every handler ends.
LEMMA Finishes ==
    ASSUME DomTypes, FrameInv, UNCHANGED domVars, NEW changed,
           Finish(changed), ~ Running', focused' \in Made \cup {None},
           task # None /\ task.changed => changed,
           focused' # focused => changed
    PROVE  TaskInv' /\ FrameInv'
<1>1. task' = None
  BY DEF Finish
<1>2. TaskInv'
  BY <1>1 DEF TaskInv
<1>3. CASE dirty \/ changed
  BY <1>2, <1>3, Rebuilt DEF Finish
<1>4. CASE ~ (dirty \/ changed)
  <2>1. UNCHANGED <<dirty, frame>>
    BY <1>4 DEF Finish
  <2>2. ~ dirty /\ frame.focus = focused'
    BY <1>4 DEF FrameInv
  <2> QED
    BY <1>1, <1>2, <2>1, <2>2, FrameStays
<1> QED
  BY <1>3, <1>4

\* How every handler enters a script.
LEMMA Dispatches ==
    ASSUME UNCHANGED domVars,
           NEW kind \in {"click", "submit", "keydown", "frame"},
           NEW target \in Made \cup {None}, NEW candidate \in Made \cup {None},
           NEW changed \in BOOLEAN, Dispatch(kind, target, candidate, changed),
           kind = "click" => target \in Made,
           kind \notin {"click", "submit"} => ~ changed
    PROVE  TaskInv' /\ task' # None /\ task'.changed = changed
<1>1. Made' = Made
  BY SameDocument
<1>2. task' = [kind |-> kind, target |-> target, candidate |-> candidate,
               changed |-> changed]
  BY DEF Dispatch
<1> HIDE DEF Made
<1>3. task' \in Tasks'
  BY <1>1, <1>2 DEF Tasks
<1>4. task' # None
  <2>1. task' \in Handlers
    <3>1. Made \subseteq Nodes
      BY DEF Made
    <3> QED
      BY <1>2, <3>1 DEF Handlers
  <2> QED
    BY <2>1, NoneAssumption
<1>5. /\ task'.changed = changed /\ task'.kind = kind /\ task'.target = target
  BY <1>2
<1> HIDE DEF Tasks
<1> QED
  BY <1>1, <1>3, <1>4, <1>5 DEF TaskInv

\* Everything a step with the document and the globals unchanged has to show.
LEMMA PageStepHolds ==
    ASSUME DomInv, PageInv, UNCHANGED domVars, UNCHANGED idVars,
           focused' \in {focused, None}, scrollFocus' \in Made \cup {None},
           TaskInv', FrameInv'
    PROVE  DomInv' /\ PageInv'
<1>1. DomInv' /\ SameFirsts /\ Made' = Made
  BY SameDocument
<1> HIDE DEF Made
<1>2. FocusInv'
  BY FocusStays DEF PageInv
<1>3. IdInv'
  BY <1>1, SameNames DEF PageInv
<1> QED
  BY <1>1, <1>2, <1>3 DEF PageInv

\* What PageInv says of an idle page.
LEMMA IdlePage ==
    ASSUME PageInv, Idle
    PROVE  /\ ~ Running /\ ~ dirty /\ frame.focus = focused
           /\ frame.nodes = Below(Root) /\ frame.nodes \subseteq Made
           /\ focused \in Made \cup {None} /\ scrollFocus \in Made \cup {None}
<1> HIDE DEF Made
<1> QED
  BY DEF PageInv, Idle, FocusInv, TaskInv, FrameInv

LEMMA IdleTask ==
    ASSUME task' = None, ~ Running' PROVE TaskInv'
BY DEF TaskInv

LEMMA ClickHolds == ASSUME DomInv, PageInv, Click PROVE DomInv' /\ PageInv'
<1>1. /\ UNCHANGED domVars /\ UNCHANGED idVars
      /\ scrollFocus' = None /\ focused' = None /\ Idle /\ task = None
  BY DEF Click, Idle
<1>2. /\ ~ Running /\ ~ dirty /\ frame.focus = focused
      /\ frame.nodes \subseteq Made /\ DomTypes /\ FrameInv
  BY <1>1, IdlePage DEF DomInv, PageInv
<1> HIDE DEF Made
<1>3. CASE Finish(focused # None) /\ UNCHANGED jsVars
  <2>1. ~ Running'
    BY <1>2, <1>3 DEF Running, jsVars
  <2>2. TaskInv' /\ FrameInv'
    <3> DEFINE changed == focused # None
    <3>1. focused' # focused => changed
      BY <1>1
    <3>2. Finish(changed)
      BY <1>3
    <3> HIDE DEF changed
    <3> QED
      BY <1>1, <1>2, <2>1, <3>1, <3>2, Finishes
  <2> QED
    BY <1>1, <2>2, PageStepHolds
<1>4. ASSUME Settled, NEW target \in frame'.nodes,
             Dispatch("click", target,
                      Nearest(target, Scrollers \cap Below(Root)),
                      focused # None)
      PROVE  DomInv' /\ PageInv'
  <2>1. UNCHANGED <<dirty, frame>>
    BY <1>2, <1>4 DEF Settled
  <2>2. target \in Made
    BY <1>2, <1>4, <2>1
  <2> DEFINE candidate == Nearest(target, Scrollers \cap Below(Root))
             changed == focused # None
  <2>3. candidate \in Made \cup {None}
    BY <1>2, <2>2, NearestIsThere, ChainOfMade
  <2>4. Dispatch("click", target, candidate, changed)
    BY <1>4
  <2>5. changed \in BOOLEAN /\ (~ changed => focused = None)
    OBVIOUS
  <2> HIDE DEF candidate, changed
  <2>6. TaskInv' /\ task' # None /\ task'.changed = changed
    BY <1>1, <2>2, <2>3, <2>4, <2>5, Dispatches
  <2>7. FrameInv'
    BY <1>1, <1>2, <2>1, <2>5, <2>6, FrameStays
  <2> QED
    BY <1>1, <2>6, <2>7, PageStepHolds
<1> QED
  BY <1>3, <1>4 DEF Click

\* A node that is connected to the root is in the document.
LEMMA ConnectedIsInDocument ==
    ASSUME NEW n, Connected(n) PROVE InDocument(n)
BY DEF Connected, InDocument

LEMMA ClickDefaultHolds ==
    ASSUME DomInv, PageInv, ClickDefault PROVE DomInv' /\ PageInv'
<1>1. /\ UNCHANGED domVars /\ UNCHANGED idVars
      /\ task # None /\ ~ Running /\ task.kind = "click"
  BY DEF ClickDefault, Returned
<1>2. /\ DomTypes /\ FrameInv /\ FocusInv
      /\ focused \in Made \cup {None} /\ scrollFocus \in Made \cup {None}
      /\ task.target \in Made /\ task.candidate \in Made \cup {None}
      /\ task.changed \in BOOLEAN
  <2> HIDE DEF Made
  <2>1. task \in Tasks /\ task.target \in Made
    BY <1>1 DEF PageInv, TaskInv
  <2> QED
    BY <2>1 DEF DomInv, PageInv, FocusInv, Tasks
<1> HIDE DEF Made
<1>3. ASSUME NEW changed, Finish(changed), EndDispatch,
             task.changed => changed, focused' = focused,
             scrollFocus' \in Made \cup {None}
      PROVE  DomInv' /\ PageInv'
  <2>1. ~ Running'
    BY <1>1, <1>3 DEF Running, EndDispatch
  <2>2. TaskInv' /\ FrameInv'
    BY <1>1, <1>2, <1>3, <2>1, Finishes
  <2> QED
    BY <1>1, <1>3, <2>2, PageStepHolds
<1>4. CASE prevented
  BY <1>2, <1>3, <1>4 DEF ClickDefault
<1>5. CASE ~ prevented
  <2> DEFINE button == Nearest(task.target, Elements("button"))
             input  == Nearest(task.target, Elements("input"))
  <2>1. scrollFocus' \in Made \cup {None}
    BY <1>2, <1>5 DEF ClickDefault
  <2>2. CASE Submit(task.changed)
    <3>1. /\ Dispatch("submit", None, None, task.changed)
          /\ UNCHANGED <<dirty, frame, focused>>
      BY <2>2 DEF Submit
    <3>2. TaskInv' /\ task' # None /\ task'.changed = task.changed
      BY <1>1, <1>2, <3>1, Dispatches
    <3>3. FrameInv'
      <4>1. ~ dirty /\ ~ task.changed => frame.focus = focused
        BY <1>1, <1>2 DEF FrameInv
      <4> QED
        BY <1>1, <1>2, <3>1, <3>2, <4>1, FrameStays
    <3> QED
      BY <1>1, <2>1, <3>1, <3>2, <3>3, PageStepHolds
  <2>3. CASE UNCHANGED focused /\ EndDispatch /\ Finish(task.changed)
    BY <1>3, <2>1, <2>3
  <2>4. CASE ClickOther /\ EndDispatch
    <3>1. PICK fragment \in BOOLEAN :
              UNCHANGED focused /\ Finish(task.changed \/ fragment)
      BY <2>4 DEF ClickOther
    <3> DEFINE changed == task.changed \/ fragment
    <3>2. Finish(changed) /\ (task.changed => changed)
      BY <3>1
    <3> HIDE DEF changed
    <3> QED
      BY <1>3, <2>1, <2>4, <3>1, <3>2
  <2>5. CASE ClickInput(input) /\ input # None /\ EndDispatch
    <3>1. CASE UNCHANGED focused
      <4>1. Finish(TRUE)
        BY <2>5 DEF ClickInput
      <4> QED
        BY <1>3, <2>1, <2>5, <3>1, <4>1
    <3>2. CASE Connected(input) /\ focused' = input
      <4>1. Finish(TRUE)
        BY <2>5 DEF ClickInput
      <4>2. input \in Made
        BY <1>2, <2>5, NearestIsThere, ChainOfMade
      <4>3. InDocument(input)
        BY <3>2, ConnectedIsInDocument
      <4> HIDE DEF input
      <4>4. ~ Running'
        BY <1>1, <2>5 DEF Running, EndDispatch
      <4>5. TaskInv' /\ FrameInv'
        BY <1>1, <1>2, <3>2, <4>1, <4>2, <4>4, Finishes
      <4>6. /\ Made' = Made /\ \A n : Chain(n)' = Chain(n)
            /\ SameFirsts /\ DomInv'
        BY <1>1, SameDocument
      <4>7. FocusInv'
        BY <2>1, <3>2, <4>2, <4>3, <4>6
           DEF FocusInv, FocusIsInDocument, InDocument
      <4>8. IdInv'
        BY <1>1, <4>6, SameNames DEF PageInv
      <4> QED
        BY <4>5, <4>6, <4>7, <4>8 DEF PageInv
    <3> QED
      BY <2>5, <3>1, <3>2 DEF ClickInput
  <2> QED
    BY <1>5, <2>2, <2>3, <2>4, <2>5 DEF ClickDefault
<1> QED
  BY <1>4, <1>5

\* The handlers that end after their script, and leave the focus to it.
LEMMA EndsHold ==
    ASSUME DomInv, PageInv,
           SubmitDefault \/ TextInputDefault \/ EndFrame \/ EndTasks
    PROVE  DomInv' /\ PageInv'
<1>1. /\ UNCHANGED domVars /\ UNCHANGED idVars
      /\ UNCHANGED <<focused, scrollFocus>>
      /\ task # None /\ ~ Running'
  BY DEF SubmitDefault, TextInputDefault, EndFrame, EndTasks, Returned, EndPass,
         EndDispatch, Running, jsVars
<1>2. /\ DomTypes /\ FrameInv
      /\ focused \in Made \cup {None} /\ scrollFocus \in Made \cup {None}
      /\ task.kind \notin {"click", "submit"} => ~ task.changed
  BY <1>1 DEF DomInv, PageInv, FocusInv, TaskInv
<1> HIDE DEF Made
<1>3. ASSUME NEW changed, Finish(changed), task.changed => changed
      PROVE  DomInv' /\ PageInv'
  <2>1. TaskInv' /\ FrameInv'
    BY <1>1, <1>2, <1>3, Finishes
  <2> QED
    BY <1>1, <1>2, <2>1, PageStepHolds
<1>4. CASE SubmitDefault
  BY <1>3, <1>4 DEF SubmitDefault
<1>5. CASE TextInputDefault
  <2> DEFINE changed == ~ prevented /\ focused # None
  <2>1. Finish(changed) /\ ~ task.changed
    BY <1>2, <1>5 DEF TextInputDefault
  <2> HIDE DEF changed
  <2> QED
    BY <1>3, <2>1
<1>6. CASE EndFrame
  BY <1>2, <1>3, <1>6 DEF EndFrame
<1>7. CASE EndTasks
  BY <1>2, <1>3, <1>7 DEF EndTasks
<1> QED
  BY <1>4, <1>5, <1>6, <1>7

\* The handlers that enter a script at once.
LEMMA StartsHold ==
    ASSUME DomInv, PageInv, TextInput \/ Key \/ AnimationFrame
    PROVE  DomInv' /\ PageInv'
<1>1. /\ UNCHANGED domVars /\ UNCHANGED idVars /\ scrollFocus' = scrollFocus
      /\ Idle
  BY DEF TextInput, Key, AnimationFrame, pageVars
<1>2. /\ ~ Running /\ ~ dirty /\ frame.focus = focused /\ task = None
      /\ focused \in Made \cup {None} /\ scrollFocus \in Made \cup {None}
      /\ DomTypes /\ FrameInv
  BY <1>1, IdlePage DEF DomInv, PageInv, Idle
<1> HIDE DEF Made
<1>3. ASSUME NEW kind \in {"submit", "keydown", "frame"},
             Dispatch(kind, None, None, FALSE),
             UNCHANGED <<dirty, frame, focused>>
      PROVE  DomInv' /\ PageInv'
  <2>1. TaskInv' /\ task' # None /\ task'.changed = FALSE
    BY <1>1, <1>3, Dispatches
  <2>2. FrameInv'
    BY <1>1, <1>2, <1>3, <2>1, FrameStays
  <2> QED
    BY <1>1, <1>2, <1>3, <2>1, <2>2, PageStepHolds
<1>4. CASE TextInput
  BY <1>3, <1>4 DEF TextInput, pageVars
<1>5. CASE AnimationFrame
  BY <1>3, <1>5 DEF AnimationFrame, pageVars
<1>6. CASE Submit(FALSE)
  BY <1>3, <1>6 DEF Submit
<1>7. CASE UNCHANGED <<jsVars, focused, task>> /\ Rebuild
  <2>1. TaskInv'
    BY <1>2, <1>7, IdleTask DEF Running, jsVars
  <2>2. FrameInv'
    BY <1>1, <1>2, <1>7, Rebuilt
  <2> QED
    BY <1>1, <1>2, <1>7, <2>1, <2>2, PageStepHolds
<1> QED
  BY <1>4, <1>5, <1>6, <1>7 DEF Key

\* The handlers that run no script.
LEMMA ScriptlessHold ==
    ASSUME DomInv, PageInv, BlurInput \/ ScrollBy \/ Resize
    PROVE  DomInv' /\ PageInv'
<1>1. /\ UNCHANGED domVars /\ UNCHANGED idVars /\ UNCHANGED <<jsVars, task>>
      /\ Idle
      /\ focused' \in {focused, None} /\ scrollFocus' \in {scrollFocus, None}
  BY DEF BlurInput, ScrollBy, Resize
<1>2. /\ ~ Running /\ ~ dirty /\ frame.focus = focused /\ task = None
      /\ focused \in Made \cup {None} /\ scrollFocus \in Made \cup {None}
      /\ DomTypes /\ FrameInv
  BY <1>1, IdlePage DEF DomInv, PageInv, Idle
<1>3. TaskInv' /\ task' = None
  BY <1>1, <1>2, IdleTask DEF Running, jsVars
<1> HIDE DEF Made
<1>4. ASSUME FrameInv' PROVE DomInv' /\ PageInv'
  BY <1>1, <1>2, <1>3, <1>4, PageStepHolds
<1>5. CASE Rebuild
  BY <1>1, <1>2, <1>4, <1>5, Rebuilt
<1>6. CASE UNCHANGED <<dirty, frame>> /\ focused' = focused
  BY <1>1, <1>2, <1>3, <1>4, <1>6, FrameStays
<1>7. CASE BlurInput
  <2>1. CASE focused = None
    BY <1>6, <1>7, <2>1 DEF BlurInput
  <2>2. CASE focused # None
    BY <1>5, <1>7, <2>2 DEF BlurInput
  <2> QED
    BY <2>1, <2>2
<1>8. CASE ScrollBy
  BY <1>2, <1>5, <1>6, <1>8 DEF ScrollBy, Settled
<1>9. CASE Resize
  <2>1. /\ frame' = [nodes |-> Below(Root), focus |-> focused]
        /\ UNCHANGED <<focused, dirty>>
    BY <1>9 DEF Resize, Shown
  <2>2. Below(Root)' = Below(Root) /\ Made' = Made
    BY <1>1, SameDocument
  <2> DEFINE shown == Below(Root)
  <2>3. shown \in SUBSET Made /\ Below(Root)' = shown
    BY <2>2 DEF Below
  <2>4. frame' = [nodes |-> shown, focus |-> focused]
    BY <2>1
  <2> HIDE DEF shown
  <2>5. FrameInv'
    BY <1>2, <1>3, <2>1, <2>2, <2>3, <2>4 DEF FrameInv
  <2> QED
    BY <1>4, <2>5
<1> QED
  BY <1>7, <1>8, <1>9

\* A pass of the timers, up to its end.
LEMMA TasksHold ==
    ASSUME DomInv, PageInv, RunTasks \/ Onload \/ NextTimer
    PROVE  DomInv' /\ PageInv'
<1>1. UNCHANGED domVars /\ UNCHANGED idVars /\ UNCHANGED pageVars
  BY DEF RunTasks, Onload, NextTimer
<1>2. /\ UNCHANGED <<focused, scrollFocus, dirty, frame>> /\ FrameInv /\ TaskInv
      /\ focused \in Made \cup {None} /\ scrollFocus \in Made \cup {None}
  BY <1>1 DEF PageInv, FocusInv, pageVars
<1>3. Made' = Made
  BY <1>1, SameDocument
<1> HIDE DEF Made
<1>4. CASE RunTasks
  <2>1. Idle /\ task' = [kind |-> "tasks", target |-> None,
                         candidate |-> None, changed |-> FALSE]
    BY <1>4 DEF RunTasks
  <2>2. task' \in Tasks' /\ task'.kind = "tasks" /\ ~ task'.changed
    BY <2>1 DEF Tasks
  <2>3. task' # None
    <3>1. task' \in Handlers
      BY <2>1 DEF Handlers
    <3> QED
      BY <3>1, NoneAssumption
  <2> HIDE DEF Tasks
  <2>4. TaskInv'
    BY <2>2, <2>3 DEF TaskInv
  <2>5. ~ dirty /\ frame.focus = focused
    BY <2>1, IdlePage
  <2>6. FrameInv'
    BY <1>1, <1>2, <2>3, <2>5, FrameStays
  <2> QED
    BY <1>1, <1>2, <2>4, <2>6, PageStepHolds
<1>5. CASE Onload \/ NextTimer
  <2>1. task # None /\ task' = task
    BY <1>5 DEF Onload, NextTimer, Returned
  <2>2. task \in Tasks => task \in Tasks'
    BY <1>3 DEF Tasks
  <2> HIDE DEF Tasks
  <2>3. TaskInv'
    BY <1>2, <1>3, <2>1, <2>2 DEF TaskInv
  <2>4. ~ dirty /\ ~ task.changed => frame.focus = focused
    BY <1>2, <2>1 DEF FrameInv
  <2>5. FrameInv'
    BY <1>1, <1>2, <2>1, <2>4, FrameStays
  <2> QED
    BY <1>1, <1>2, <2>3, <2>5, PageStepHolds
<1> QED
  BY <1>4, <1>5

LEMMA HandlerHolds == ASSUME DomInv, PageInv, Handler PROVE DomInv' /\ PageInv'
BY ClickHolds, ClickDefaultHolds, EndsHold, StartsHold, ScriptlessHold, TasksHold
   DEF Handler

\* What a script does to nothing but the runtime, and the time between scripts.
LEMMA OthersHold ==
    ASSUME DomInv, PageInv, OtherStep \/ Wait \/ UNCHANGED vars
    PROVE  DomInv' /\ PageInv'
<1>1. /\ UNCHANGED domVars
      /\ UNCHANGED <<idVars, focused, scrollFocus, dirty, frame, task>>
  BY DEF OtherStep, Wait, vars, pageVars
<1>2. Running' => Running
  BY DEF OtherStep, Wait, vars, jsVars, Running, TimePasses
<1>3. /\ Made' = Made /\ \A n : Chain(n)' = Chain(n)
      /\ Below(Root)' = Below(Root) /\ SameFirsts /\ DomInv'
  BY <1>1, SameDocument
<1> HIDE DEF Made
<1>4. TaskInv' /\ FrameInv' /\ IdInv'
  BY <1>1, <1>2, <1>3, PageIsLeft DEF PageInv
<1>5. scrollFocus \in Made \cup {None}
  BY DEF PageInv, FocusInv
<1> QED
  BY <1>1, <1>4, <1>5, PageStepHolds DEF PageInv

-----------------------------------------------------------------------------
(* The document as loaded.                                                 *)

LEMMA InitJs == ASSUME JsInit PROVE JsInv
<1>1. /\ clock = 0 /\ timers = <<>> /\ nextHandle = 0 /\ half = {}
      /\ callbacks = [interval \in BOOLEAN |-> {}]
      /\ entry = None /\ prevented = FALSE /\ pass = None /\ lastRun = 0
  BY DEF JsInit
<1>2. TimersOK(timers, nextHandle, lastRun) /\ MatchInv
  <2>1. \A interval \in BOOLEAN : Armed(interval) = {}
    BY <1>1 DEF Armed
  <2>2. callbacks \in [BOOLEAN -> SUBSET Handles]
    BY <1>1
  <2>3. \A interval \in BOOLEAN : callbacks[interval] = {}
    BY <1>1
  <2>4. TimersOK(timers, nextHandle, lastRun)
    BY <1>1 DEF TimersOK
  <2> QED
    BY <1>1, <2>1, <2>2, <2>3, <2>4 DEF MatchInv
<1>3. 0 \in 0..MaxHandles /\ 0 \in 0..MaxClock
  BY JsRuntimeAssumption
<1>4. TimerInv
  BY <1>1, <1>2, <1>3 DEF TimerInv
<1>5. EntryInv /\ PassInv
  BY <1>1 DEF EntryInv, PassInv, Running
<1> QED
  BY <1>1, <1>3, <1>4, <1>5 DEF JsInv

LEMMA InitDom == ASSUME Init PROVE DomInv
<1> DEFINE Tagged == DOMAIN FirstTags
           Above(n) == {p \in Nodes : n \in ToSet(children[p])}
<1>1. /\ tag = [n \in Nodes |-> IF n \in Tagged THEN FirstTags[n] ELSE None]
      /\ children = [n \in Nodes |->
                       IF n \in Tagged THEN FirstChildren[n] ELSE <<>>]
      /\ parent = [n \in Nodes |-> IF Above(n) = {} THEN None
                                   ELSE CHOOSE p \in Above(n) : TRUE]
      /\ idOf \in [Nodes -> Ids \cup {None}]
  BY DEF Init
<1>2. /\ Tagged \subseteq Nodes /\ Root \in Tagged
      /\ \A n \in Tagged : FirstTags[n] \in Tags
      /\ \A n \in Tagged : FirstChildren[n] \in Seq(Tagged)
      /\ None \notin Tags /\ None \notin Nodes
  BY PagesAssumption
<1> HIDE DEF Tagged
<1>3. Made = Tagged
  BY <1>1, <1>2 DEF Made
<1>4. ASSUME NEW n \in Tagged
      PROVE  /\ children[n] = FirstChildren[n]
             /\ children[n] \in Seq(Tagged) /\ IsInjective(children[n])
             /\ ToSet(children[n]) \subseteq Tagged
  <2>1. children[n] = FirstChildren[n] /\ children[n] \in Seq(Tagged)
    BY <1>1, <1>2
  <2>2. IsInjective(children[n])
    BY <2>1, FirstTreeAssumption DEF Tagged
  <2>3. ToSet(children[n]) \subseteq Tagged
    BY <2>1 DEF ToSet
  <2> QED
    BY <2>1, <2>2, <2>3
<1>5. ASSUME NEW n \in Nodes \ Tagged
      PROVE  /\ children[n] = <<>> /\ ToSet(children[n]) = {}
             /\ IsInjective(children[n])
  BY <1>1 DEF ToSet, IsInjective
<1>6. ASSUME NEW n \in Nodes, NEW m \in Nodes, n # m
      PROVE  ToSet(children[n]) \cap ToSet(children[m]) = {}
  <2>1. CASE n \in Tagged /\ m \in Tagged
    BY <1>4, <1>6, <2>1, FirstTreeAssumption DEF Tagged
  <2>2. CASE n \notin Tagged \/ m \notin Tagged
    BY <1>5, <2>2
  <2> QED
    BY <2>1, <2>2
<1>7. ASSUME NEW n \in Nodes
      PROVE  /\ parent[n] = None \/ parent[n] \in Tagged
             /\ n \notin Tagged => parent[n] = None
             /\ \A p \in Nodes : parent[n] = p <=> n \in ToSet(children[p])
  <2>1. parent[n] = IF Above(n) = {} THEN None ELSE CHOOSE p \in Above(n) : TRUE
    BY <1>1
  <2>2. CASE Above(n) = {}
    BY <1>2, <2>1, <2>2
  <2>3. CASE Above(n) # {}
    <3>1. parent[n] \in Above(n)
      BY <2>1, <2>3
    <3> DEFINE q == parent[n]
    <3>2. q \in Nodes /\ n \in ToSet(children[q])
      BY <3>1
    <3>3. q \in Tagged
      BY <1>5, <3>2
    <3>4. n \in Tagged
      BY <1>4, <3>2, <3>3
    <3>5. \A p \in Nodes : n \in ToSet(children[p]) => p = q
      BY <1>6, <3>2
    <3> QED
      BY <3>2, <3>3, <3>4, <3>5
  <2> QED
    BY <2>2, <2>3
<1> HIDE DEF Made
<1>8. DomTypes
  <2>1. tag \in [Nodes -> Tags \cup {None}]
    BY <1>1, <1>2
  <2>2. parent \in [Nodes -> Tagged \cup {None}]
    BY <1>1, <1>7
  <2>3. children \in [Nodes -> Seq(Tagged)]
    BY <1>1, <1>2
  <2>4. \A n \in Nodes \ Tagged : parent[n] = None /\ children[n] = <<>>
    BY <1>5, <1>7
  <2> QED
    BY <1>1, <1>2, <1>3, <2>1, <2>2, <2>3, <2>4 DEF DomTypes
<1>9. ASSUME NEW n \in Nodes
      PROVE  /\ IsInjective(children[n])
             /\ ToSet(children[n]) = {m \in Made : parent[m] = n}
  <2>1. IsInjective(children[n]) /\ ToSet(children[n]) \subseteq Tagged
    BY <1>4, <1>5
  <2>2. \A m \in Tagged : parent[m] = n <=> m \in ToSet(children[n])
    BY <1>2, <1>7
  <2> QED
    BY <1>3, <2>1, <2>2
<1>10. ASSUME NEW n \in Nodes, parent[n] # None
       PROVE  n \notin Chain(parent[n])
  <2> DEFINE p == parent[n]
  <2>1. PICK level \in [Tagged -> 0..Cardinality(Nodes)] :
            \A a \in Tagged : \A c \in ToSet(FirstChildren[a]) :
                level[a] < level[c]
    BY FirstTreeAssumption DEF Tagged
  <2>2. Cardinality(Nodes) \in Nat
    BY PagesAssumption, FS_CardinalityType
  <2>3. \A a \in Tagged : level[a] \in Nat
    BY <2>1, <2>2
  <2>4. ASSUME NEW c \in Nodes, parent[c] # None
        PROVE  c \in Tagged /\ parent[c] \in Tagged /\ level[parent[c]] < level[c]
    <3>1. c \in Tagged /\ parent[c] \in Tagged
      BY <1>7, <2>4
    <3>2. c \in ToSet(FirstChildren[parent[c]])
      BY <1>2, <1>4, <1>7, <3>1
    <3> QED
      BY <2>1, <3>1, <3>2
  <2>5. p \in Tagged /\ n \in Tagged /\ level[p] < level[n]
    BY <1>10, <2>4
  <2> HIDE DEF p
  <2> DEFINE low == {m \in Tagged : level[m] <= level[p]}
  <2>6. p \in low /\ n \notin low
    BY <2>3, <2>5
  <2>7. Climbs(parent, low)
    <3> SUFFICES ASSUME NEW m \in low, parent[m] # None
                 PROVE  parent[m] \in low
      BY DEF Climbs
    <3>1. m \in Nodes /\ m \in Tagged /\ level[m] <= level[p]
      BY <1>2
    <3>2. parent[m] \in Tagged /\ level[parent[m]] < level[m]
      BY <2>4, <3>1
    <3>3. /\ level[parent[m]] \in Nat /\ level[m] \in Nat /\ level[p] \in Nat
      BY <2>3, <2>5, <3>1, <3>2
    <3> QED
      BY <3>1, <3>2, <3>3
  <2>8. low \in SUBSET Nodes
    BY <1>2
  <2> HIDE DEF low
  <2>9. Up(parent, p) \subseteq low
    BY <2>6, <2>7, <2>8, UpWithin
  <2> QED
    BY <2>6, <2>9, ChainIsUp DEF p
<1>11. TreeInv
  BY <1>9, <1>10 DEF TreeInv
<1> QED
  BY <1>8, <1>11 DEF DomInv

LEMMA InitPage == ASSUME Init PROVE PageInv
<1>1. /\ focused = None /\ scrollFocus = None
      /\ dirty = FALSE /\ frame = [nodes |-> Below(Root), focus |-> focused]
      /\ task = None /\ entry = None
  BY DEF Init, JsInit, Shown
<1>2. FocusInv
  BY <1>1 DEF FocusInv, FocusIsInDocument
<1>3. TaskInv
  BY <1>1 DEF TaskInv, Running
<1>4. FrameInv
  <2> DEFINE shown == Below(Root)
  <2>1. shown \in SUBSET Made
    BY DEF Below
  <2>2. frame = [nodes |-> shown, focus |-> focused] /\ shown = Below(Root)
    BY <1>1
  <2> HIDE DEF shown, Made
  <2>3. /\ frame \in [nodes : SUBSET Made, focus : Made \cup {None}]
        /\ frame.nodes = shown /\ frame.focus = focused
    BY <1>1, <2>1, <2>2
  <2> QED
    BY <1>1, <2>2, <2>3 DEF FrameInv
<1>5. IdInv
  <2>1. PICK taken \in SUBSET Ids :
            globals = [id \in Ids |-> IF id \in taken THEN Other
                                      ELSE FirstWithId(id)]
    BY DEF Init
  <2>2. fresh = Ids
    BY DEF Init
  <2> HIDE DEF Made
  <2>3. globals \in [Ids -> Made \cup {None, Other}]
    BY <2>1, FirstIsMade
  <2> QED
    BY <2>1, <2>2, <2>3 DEF IdInv, IdGlobalsAreCurrent
<1> QED
  BY <1>2, <1>3, <1>4, <1>5 DEF PageInv

-----------------------------------------------------------------------------
(* Theorems.                                                               *)

LEMMA InitInv == Init => IInv
BY InitJs, InitDom, InitPage DEF Init, IInv, DomInv, PageInv

LEMMA NextInv == IInv /\ [Next]_vars => IInv'
<1> SUFFICES ASSUME IInv, [Next]_vars PROVE IInv'
  OBVIOUS
<1>1. JsInv /\ DomInv /\ PageInv
  BY DEF IInv, DomInv, PageInv
<1>2. JsInv'
  BY <1>1, NextIsJsStep, JsInvHolds
<1>3. DomInv' /\ PageInv'
  <2>1. CASE BridgeCall
    BY <1>1, <2>1, BridgeCallHolds
  <2>2. CASE Handler
    BY <1>1, <2>2, HandlerHolds
  <2>3. CASE OtherStep \/ Wait \/ UNCHANGED vars
    BY <1>1, <2>3, OthersHold
  <2> QED
    BY <2>1, <2>2, <2>3 DEF Next
<1> QED
  BY <1>2, <1>3 DEF IInv, DomInv, PageInv

\* The invariant the others follow from: timers, entries, document and page
\* (src/js.c, src/dom.c and the page's handlers in src/browser.c).
THEOREM Inductive == Spec => []IInv
BY InitInv, NextInv, PTL DEF Spec

LEMMA TypesFollow == ASSUME IInv PROVE TypeOK
<1>1. JsTypeOK
  <2>1. /\ timers \in Seq(Timers) /\ nextHandle \in 0..MaxHandles
        /\ lastRun \in Nat
        /\ callbacks \in [BOOLEAN -> SUBSET Handles]
        /\ half \subseteq 0..(nextHandle - 1)
    BY DEF IInv, JsInv, TimerInv, TimersOK, MatchInv
  <2>2. half \subseteq Handles
    BY <2>1, JsRuntimeAssumption DEF Handles
  <2>3. entry # None => entry.since <= clock /\ entry.extended <= BlockLimit
    BY JsRuntimeAssumption
       DEF IInv, JsInv, EntryInv, EntryOK, Entries, Running
  <2>4. pass # None => pass.left \in 0..Budget
    BY DEF IInv, JsInv, PassInv
  <2> QED
    BY <2>1, <2>2, <2>3, <2>4 DEF JsTypeOK, IInv, JsInv
<1>2. globals \in [Ids -> Made \cup {None, Other}] /\ fresh \subseteq Ids
  BY DEF IInv, IdInv
<1>3. task \in Handlers \cup {None}
  <2>1. Tasks \subseteq Handlers
    BY DEF Tasks, Handlers, Made
  <2> HIDE DEF Tasks, Handlers
  <2> QED
    BY <2>1 DEF IInv, TaskInv
<1>4. frame.nodes \subseteq Made /\ dirty \in BOOLEAN
  BY DEF IInv, FrameInv
<1>5. focused \in Made \cup {None} /\ scrollFocus \in Made \cup {None}
  BY DEF IInv, FocusInv
<1>6. /\ tag \in [Nodes -> Tags \cup {None}]
      /\ parent \in [Nodes -> Made \cup {None}]
      /\ idOf \in [Nodes -> Ids \cup {None}]
  BY DEF IInv, DomTypes
<1>7. TreeInv
  BY DEF IInv
<1> HIDE DEF Made
<1> QED
  BY <1>1, <1>2, <1>3, <1>4, <1>5, <1>6, <1>7 DEF TypeOK, TreeInv

\* Every variable of a page and of its scripts stays within its type: the tree
\* stays a tree whatever the scripts do to it.
THEOREM TypeCorrect == Spec => []TypeOK
BY Inductive, TypesFollow, PTL

\* The focused input is in the document at every step of every script, of
\* documents of any size (node_removed, tai_page_activate_viewport).
THEOREM FocusStaysInDocument == Spec => []FocusIsInDocument
<1>1. IInv => FocusIsInDocument
  BY DEF IInv, FocusInv
<1> QED
  BY <1>1, Inductive, PTL

\* No handler ends before what it or its scripts changed is laid out anew
\* (rebuild_if_changed and the returns of the handlers).
THEOREM IdleFrameStaysCurrent == Spec => []IdleFrameIsCurrent
<1>1. ASSUME IInv, Idle PROVE ~ dirty /\ frame = Shown
  <2>1. /\ ~ dirty /\ frame.focus = focused /\ frame.nodes = Below(Root)
        /\ frame \in [nodes : SUBSET Made, focus : Made \cup {None}]
    BY <1>1 DEF IInv, FrameInv, Idle
  <2>2. frame = [nodes |-> frame.nodes, focus |-> frame.focus]
    BY <2>1
  <2> QED
    BY <2>1, <2>2 DEF Shown
<1>2. IInv => IdleFrameIsCurrent
  BY <1>1 DEF IdleFrameIsCurrent
<1> QED
  BY <1>2, Inductive, PTL

\* A name that a whole resync has set, and the script has not changed since, is
\* the first element with it or was taken before the browser could give it to
\* one, in documents of any size, whichever resyncs fail or are cut short
\* (after_mutation, sync_id_globals).
THEOREM IdGlobalsStayCurrent == Spec => []IdGlobalsAreCurrent
<1>1. IInv => IdGlobalsAreCurrent
  BY DEF IInv, IdInv
<1> QED
  BY <1>1, Inductive, PTL

\* The array in C and the tables in JavaScript hold the same timers but for the
\* calls that did one half, and no timer that lost one half runs, however many
\* are armed, cleared or run and whatever clearInterval is given (js.c,
\* js_scheduling.js).
THEOREM TimersStayMatched == Spec => []TimersMatchCallbacks
<1>1. IInv => TimersMatchCallbacks
  BY DEF IInv, JsInv, TimerInv, TimersOK, MatchInv, TimersMatchCallbacks
<1> QED
  BY <1>1, Inductive, PTL

\* The deadline bounds every script, for any limits and any blocking requests
\* (enter_js, op_xhr_send).
THEOREM ScriptsStayBounded == Spec => []ScriptsAreBounded
<1>1. ASSUME IInv, Running PROVE ScriptsAreBounded
  <2>1. EntryOK(entry) /\ clock \in Nat
    BY <1>1, JsRuntimeAssumption DEF IInv, JsInv, EntryInv
  <2>2. /\ entry.since \in Nat /\ entry.deadline \in Nat
        /\ entry.extended \in Nat /\ entry.blocked \in Nat
        /\ ScriptLimit \in Nat /\ BlockLimit \in Nat
    BY <2>1, JsRuntimeAssumption DEF EntryOK, Entries
  <2>3. /\ entry.since <= clock /\ clock <= entry.deadline
        /\ entry.deadline = entry.since + ScriptLimit + entry.extended
        /\ entry.blocked <= BlockLimit => entry.extended = entry.blocked
        /\ entry.extended <= entry.blocked /\ entry.extended <= BlockLimit
    BY <2>1, <2>2 DEF EntryOK, Least
  <2> QED
    BY <2>1, <2>2, <2>3 DEF ScriptsAreBounded
<1>2. IInv => ScriptsAreBounded
  BY <1>1 DEF ScriptsAreBounded
<1> QED
  BY <1>2, Inductive, PTL

\* Whatever order timers are armed in and however late the passes are, they run
\* by their due times (next_due_timer, tai_js_run_timers).
THEOREM TimersStayInOrder == Spec => TimersRunInOrder
<1>1. ASSUME IInv, [Next]_vars PROVE [lastRun' >= lastRun]_jsVars
  <2>1. lastRun \in Nat /\ JsInv
    BY <1>1 DEF IInv, JsInv, TimerInv
  <2>2. CASE RunTimer
    <3>1. lastRun <= lastRun'
      BY <2>1, <2>2, DueTimer
    <3>2. lastRun' \in Nat
      BY <1>1, NextInv DEF IInv, JsInv, TimerInv
    <3> QED
      BY <2>1, <3>1, <3>2
  <2>3. CASE UNCHANGED lastRun
    BY <2>1, <2>3
  <2>4. RunTimer \/ UNCHANGED lastRun
    <3>1. JsStep
      BY <1>1, NextIsJsStep
    <3> QED
      BY <3>1 DEF JsStep, Leaves, Enters, Compute, TimePasses, SendSync,
                  SetTimer, Arm, ClearInterval, BeginPass, EndPass, timerVars
  <2> QED
    BY <2>2, <2>3, <2>4
<1> QED
  BY <1>1, Inductive, PTL DEF Spec, TimersRunInOrder

=============================================================================
