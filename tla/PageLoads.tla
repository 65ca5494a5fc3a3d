----------------------------- MODULE PageLoads ------------------------------
(***************************************************************************)
(* The page loads of the loader thread from their first request to their   *)
(* completion (TaiPageLoad, src/browser.c) on the requests of its network  *)
(* (src/network.c).                                                        *)
(*                                                                         *)
(* Everything here is one thread; what makes it hard is that it calls      *)
(* itself.  A poll dispatches a finished request, whose callback completes *)
(* a page and runs its scripts; a script, or the checkpoint before one,    *)
(* polls the same network again.  stack holds the pages whose resources    *)
(* are being applied, the innermost last.                                  *)
(*                                                                         *)
(* Abstracted: what is requested, redirects (a request stays in flight),   *)
(* the response cache and the cookies; the requests of event-time scripts, *)
(* of which Job stands for the ones in flight (module XhrJobs).            *)
(***************************************************************************)
EXTENDS Naturals, Sequences, FiniteSets, SequencesExt

CONSTANTS
    Loads,
    MaxResources,   \* bound: scripts and styles of one document
    None            \* no load

ASSUME PageLoadsAssumption ==
    /\ MaxResources \in Nat
    /\ None \notin Loads

\* What page_apply_resources tells apart: the kind, and whether it has a URL.
Kinds == {"inline script", "inline style", "script", "style"}
External(kind) == kind \in {"script", "style"}
IsScript(kind) == kind \in {"inline script", "script"}

\* Requests: the document (part 0) and the resources of a load, the
\* synchronous XMLHttpRequest of a script of its page, and Job.
SyncPart == MaxResources + 1
Job == <<None, 0>>
Requests == (Loads \X (0..SyncPart)) \cup {Job}

VARIABLES
    status,         \* whether the TaiPageLoad is allocated
    ended,          \* how often the load's task was told of its end
    page,           \* the page it was given
    cancelled,      \* the loads with task->cancelled, or whose app is stopping
    resources,      \* load->resources, once the document is parsed
    answers,        \* resource->response
    listed,         \* load->requests
    pending,        \* load->pending_resources
    applied,        \* the resources whose content took effect, in order
    requests,       \* network->requests: the list as what follows each of them
    ready,          \* the requests with request->ready
    stack,          \* page_apply_resources: its load, index and place
    pc,             \* loader_main
    networkFailed   \* loader.network_failed

loadVars == <<status, ended, page, resources, answers, listed, pending, applied>>
vars == <<loadVars, cancelled, requests, ready, stack, pc, networkFailed>>

\* A request stands before those that follow it.
IsList(list) ==
    /\ list \in [DOMAIN list -> SUBSET DOMAIN list]
    /\ \A r \in DOMAIN list :
        /\ r \notin list[r]
        /\ \A s \in DOMAIN list \ {r} :
            (s \in list[r]) # (r \in list[s])
        /\ \A s \in list[r] : list[s] \subseteq list[r]

Places == {"apply", "checkpoint poll", "checked", "script", "waiting",
           "sync poll", "crash poll"}

TypeOK ==
    /\ status \in [Loads -> {"unborn", "live", "gone"}]
    /\ ended \in [Loads -> Nat]
    /\ page \in [Loads -> {"none", "ready"}]
    /\ cancelled \subseteq Loads
    /\ resources \in [Loads -> BoundedSeq(Kinds, MaxResources)]
    /\ answers \in [Loads -> [1..MaxResources -> {"none", "ok", "failed"}]]
    /\ listed \in [Loads -> SUBSET (0..MaxResources)]
    /\ pending \in [Loads -> 0..MaxResources]
    /\ applied \in [Loads -> BoundedSeq(1..MaxResources, MaxResources)]
    /\ DOMAIN requests \subseteq Requests /\ IsList(requests)
    /\ ready \subseteq DOMAIN requests
    /\ stack \in Seq([load : Loads, next : 1..(MaxResources + 1), at : Places])
    /\ pc \in {"take", "service", "dispatch", "reap"}
    /\ networkFailed \in BOOLEAN

NoAnswers == [i \in 1..MaxResources |-> "none"]

Init ==
    /\ status = [l \in Loads |-> "unborn"]
    /\ ended = [l \in Loads |-> 0]
    /\ page = [l \in Loads |-> "none"]
    /\ cancelled = {}
    /\ resources = [l \in Loads |-> <<>>]
    /\ answers = [l \in Loads |-> NoAnswers]
    /\ listed = [l \in Loads |-> {}]
    /\ pending = [l \in Loads |-> 0]
    /\ applied = [l \in Loads |-> <<>>]
    /\ requests = [r \in {} |-> {}]
    /\ ready = {}
    /\ stack = <<>>
    /\ pc = "take"
    /\ networkFailed = FALSE

Live == {l \in Loads : status[l] = "live"}
Top == Last(stack)
AtTop(at) == stack # <<>> /\ Top.at = at
MoveTop(at) == stack' = [stack EXCEPT ![Len(stack)].at = at]
NextResource ==
    stack' = [stack EXCEPT ![Len(stack)] =
                 [load |-> Top.load, next |-> Top.next + 1, at |-> "apply"]]

-----------------------------------------------------------------------------
(* Pieces of handlers.                                                     *)

\* tai_network_submit: a request in front of the others.
Submitted(id) ==
    [r \in DOMAIN requests \cup {id} |->
        IF r = id THEN DOMAIN requests ELSE requests[r]]

\* tai_network_cancel, and what network_poll detaches.
Without(list, gone) == [r \in DOMAIN list \ gone |-> list[r] \ gone]

\* page_load_complete and the task's page_load_done: frees the load.
End(l, result) ==
    /\ status' = [status EXCEPT ![l] = "gone"]
    /\ ended' = [ended EXCEPT ![l] = @ + 1]
    /\ page' = [page EXCEPT ![l] = result]

\* page_load_destroy and tai_page_destroy, for the loads that made no page.
Forget(loads) ==
    /\ resources' = [l \in Loads |-> IF l \in loads THEN <<>> ELSE resources[l]]
    /\ answers' = [l \in Loads |-> IF l \in loads THEN NoAnswers ELSE answers[l]]
    /\ applied' = [l \in Loads |-> IF l \in loads THEN <<>> ELSE applied[l]]
    /\ pending' = [l \in Loads |-> IF l \in loads THEN 0 ELSE pending[l]]

\* page_load_finish_resources enters page_apply_resources.
Apply(l) == stack' = Append(stack, [load |-> l, next |-> 1, at |-> "apply"])

\* The lists loader_service can leave: it submits a new job, drops one that is
\* late or whose page is gone, or neither.
Served ==
    {requests, Without(requests, {Job})} \cup
    (IF networkFailed \/ Job \in DOMAIN requests THEN {} ELSE {Submitted(Job)})

\* curl_multi_perform and complete_transfer: requests in flight get ready.
Transfer(served) ==
    /\ requests' = served
    /\ \E arrived \in SUBSET DOMAIN served :
        ready' = (ready \cap DOMAIN served) \cup arrived

AnyDispatchable(id) == id \in ready

\* A poll that a script or a checkpoint started only dispatches the requests
\* marked waited or nested.
Dispatchable(id) ==
    /\ id \in ready
    /\ stack = <<>> \/ id = Job \/ id[2] = SyncPart

Polling == IF stack = <<>> THEN pc = "dispatch"
           ELSE Top.at \in {"checkpoint poll", "crash poll", "sync poll"}

-----------------------------------------------------------------------------
(* loader_main.                                                            *)

\* load_task_start and tai_page_load_async, whose request may be answered at
\* once; it fails, or the load is cancelled meanwhile, and the task ends here.
StartLoad(l) ==
    /\ pc = "take" /\ stack = <<>>
    /\ status[l] = "unborn"
    /\ \/ /\ ~networkFailed /\ l \notin cancelled
          /\ status' = [status EXCEPT ![l] = "live"]
          /\ requests' = Submitted(<<l, 0>>)
          /\ listed' = [listed EXCEPT ![l] = {0}]
          /\ ready' \in {ready, ready \cup {<<l, 0>>}}
          /\ UNCHANGED <<ended, page>>
       \/ /\ End(l, "none")
          /\ UNCHANGED <<requests, listed, ready>>
    /\ pc' = "service"
    /\ UNCHANGED <<resources, answers, pending, applied, cancelled, stack,
                   networkFailed>>

\* tai_page_load_async_markup: a page without resources, without the network.
StartMarkup(l) ==
    /\ pc = "take" /\ stack = <<>>
    /\ status[l] = "unborn"
    /\ ~networkFailed /\ l \notin cancelled
    /\ status' = [status EXCEPT ![l] = "live"]
    /\ Apply(l)
    /\ pc' = "service"
    /\ UNCHANGED <<ended, page, resources, answers, listed, pending, applied,
                   cancelled, requests, ready, networkFailed>>

TakeNothing ==
    /\ pc = "take" /\ stack = <<>>
    /\ pc' = "service"
    /\ UNCHANGED <<loadVars, cancelled, requests, ready, stack, networkFailed>>

\* loader_service, then tai_network_poll up to its callbacks, or its failure.
Poll ==
    /\ pc = "service" /\ stack = <<>>
    /\ \E served \in Served :
        \/ /\ Live # {} \/ Job \in DOMAIN served
           /\ Transfer(served)
           /\ pc' = "dispatch"
           /\ UNCHANGED networkFailed
        \/ /\ Live # {} \/ Job \in DOMAIN served
           /\ requests' = served
           /\ ready' = ready \cap DOMAIN served
           /\ networkFailed' = TRUE
           /\ pc' = "reap"
        \/ /\ Live = {} /\ Job \notin DOMAIN served
           /\ requests' = served
           /\ ready' = ready \cap DOMAIN served
           /\ pc' = "take"
           /\ UNCHANGED networkFailed
    /\ UNCHANGED <<loadVars, cancelled, stack>>

ForgetListed(reaped) == {}

\* tai_page_load_async_cancel: the requests of the loads in reaped.
CancelledRequests(reaped) == UNION {{l} \X listed[l] : l \in reaped}

\* cancel_or_reap_loads; the failure of the network ends the job as well.
Reap ==
    /\ pc = "reap" /\ stack = <<>>
    /\ LET reaped == {l \in Live : networkFailed \/ l \in cancelled}
           gone == CancelledRequests(reaped) \cup
                   (IF networkFailed THEN {Job} ELSE {})
       IN  /\ requests' = Without(requests, gone)
           /\ ready' = ready \ gone
           /\ status' = [l \in Loads |->
                           IF l \in reaped THEN "gone" ELSE status[l]]
           /\ ended' = [l \in Loads |->
                           IF l \in reaped THEN ended[l] + 1 ELSE ended[l]]
           /\ listed' = [l \in Loads |-> IF l \in reaped THEN {} ELSE listed[l]]
           /\ Forget(reaped)
    /\ pc' = "take"
    /\ UNCHANGED <<page, cancelled, stack, networkFailed>>

-----------------------------------------------------------------------------
(* The callbacks a poll dispatches.                                        *)

SubmitCountingRefused(l, accepted) ==
    /\ listed' = [listed EXCEPT ![l] = accepted]
    /\ pending' = [pending EXCEPT
                    ![l] = Cardinality({i \in DOMAIN resources'[l] :
                                            External(resources'[l][i])})]

\* page_load_submit_resource for the resources in accepted; the network
\* refuses the others.
SubmitResources(l, accepted) ==
    /\ listed' = [listed EXCEPT ![l] = accepted]
    /\ pending' = [pending EXCEPT ![l] = Cardinality(accepted)]

\* One after the other: a later resource stands before an earlier one.
SubmittedAll(list, l, accepted) ==
    [r \in DOMAIN list \cup ({l} \X accepted) |->
        IF r \in DOMAIN list THEN list[r]
        ELSE DOMAIN list \cup ({l} \X {i \in accepted : i < r[2]})]

\* page_load_finish_document: an error page has no resources.
FinishDocument(l, rest) ==
    \/ /\ End(l, "none")
       /\ listed' = [listed EXCEPT ![l] = {}]
       /\ requests' = rest
       /\ ready' = ready \ {<<l, 0>>}
       /\ UNCHANGED <<resources, answers, pending, stack>>
    \/ \E kinds \in BoundedSeq(Kinds, MaxResources) :
       \E accepted \in SUBSET {i \in DOMAIN kinds : External(kinds[i])} :
       \E instant \in SUBSET accepted :
        /\ resources' = [resources EXCEPT ![l] = kinds]
        /\ SubmitResources(l, accepted)
        /\ requests' = SubmittedAll(rest, l, accepted)
        /\ ready' = (ready \ {<<l, 0>>}) \cup ({l} \X instant)
        /\ IF pending'[l] = 0 THEN Apply(l) ELSE UNCHANGED stack
        /\ UNCHANGED <<status, ended, page, answers>>

FinishEarly(l) == pending[l] <= 2

\* The last resource that was waited for.
IsLastResource(l) == pending[l] <= 1

\* page_load_request_done for a resource; the last one completes the page.
FinishResource(l, i, rest) ==
    /\ listed' = [listed EXCEPT ![l] = @ \ {i}]
    /\ \E answer \in {"ok", "failed"} :
        answers' = [answers EXCEPT ![l][i] = answer]
    /\ pending' = [pending EXCEPT ![l] = IF @ > 0 THEN @ - 1 ELSE 0]
    /\ IF IsLastResource(l) THEN Apply(l) ELSE UNCHANGED stack
    /\ requests' = rest
    /\ ready' = ready \ {<<l, i>>}
    /\ UNCHANGED <<status, ended, page, resources>>

\* network_poll detaches the first request it may dispatch and calls back.
Dispatch ==
    /\ Polling
    /\ \E id \in DOMAIN requests :
        /\ Dispatchable(id)
        /\ \A other \in DOMAIN requests \ {id} :
               Dispatchable(other) => other \in requests[id]
        /\ LET rest == Without(requests, {id})
           IN  \/ /\ id # Job /\ id[2] = 0
                  /\ FinishDocument(id[1], rest)
               \/ /\ id # Job /\ id[2] \in 1..MaxResources
                  /\ FinishResource(id[1], id[2], rest)
               \/ /\ id = Job \/ id[2] = SyncPart
                  /\ requests' = rest
                  /\ ready' = ready \ {id}
                  /\ UNCHANGED <<status, ended, page, resources, answers,
                                 listed, pending, stack>>
    /\ UNCHANGED <<applied, cancelled, pc, networkFailed>>

\* The poll returns; tai_network_request_until looks for its response.
EndPoll ==
    /\ Polling
    /\ \A id \in DOMAIN requests : ~Dispatchable(id)
    /\ IF stack = <<>> THEN pc' = "reap" /\ UNCHANGED stack
       ELSE /\ CASE Top.at = "checkpoint poll" -> MoveTop("checked")
                 [] Top.at = "crash poll" -> NextResource
                 [] Top.at = "sync poll" ->
                        MoveTop(IF <<Top.load, SyncPart>> \in DOMAIN requests
                                THEN "waiting" ELSE "script")
            /\ UNCHANGED pc
    /\ UNCHANGED <<loadVars, cancelled, requests, ready, networkFailed>>

-----------------------------------------------------------------------------
(* page_apply_resources and page_finish_visual on the innermost page.      *)

Finished == Top.next > Len(resources[Top.load])
Kind == resources[Top.load][Top.next]
\* An external resource counts only with an answer that is no error.
HasContent(l, i) == External(resources[l][i]) => answers[l][i] = "ok"

\* page_load_complete without a page: a checkpoint, a style or the first frame
\* failed.
FailPage ==
    /\ End(Top.load, "none")
    /\ Forget({Top.load})
    /\ stack' = Front(stack)
    /\ UNCHANGED listed

TakeEffect ==
    /\ applied' = [applied EXCEPT ![Top.load] =
                     IF HasContent(Top.load, Top.next) THEN Append(@, Top.next)
                                                       ELSE @]
    /\ UNCHANGED <<status, ended, page, resources, answers, listed, pending>>

ApplyStyle ==
    /\ AtTop("apply") /\ ~Finished /\ ~IsScript(Kind)
    /\ \/ TakeEffect /\ NextResource
       \/ HasContent(Top.load, Top.next) /\ FailPage
    /\ UNCHANGED <<cancelled, requests, ready, pc, networkFailed>>

\* loader_checkpoint serves the jobs and, if there is one, polls.
RunCheckpoint(Polls, Returns) ==
    /\ \E served \in Served :
        \/ /\ Job \in DOMAIN served
           /\ Transfer(served)
           /\ Polls
           /\ UNCHANGED networkFailed
        \/ /\ requests' = served
           /\ ready' = ready \cap DOMAIN served
           /\ Returns
           /\ \/ Job \in DOMAIN served /\ networkFailed' = TRUE
              \/ Job \notin DOMAIN served /\ UNCHANGED networkFailed
    /\ UNCHANGED <<loadVars, cancelled, pc>>

\* It runs before every script and the first frame...
Checkpoint ==
    /\ AtTop("apply")
    /\ Finished \/ (~Finished /\ IsScript(Kind))
    /\ RunCheckpoint(MoveTop("checkpoint poll"), MoveTop("checked"))

\* ...which asks at its end whether the load was cancelled.
StopAtCheckpoint ==
    /\ AtTop("checked") /\ Top.load \in cancelled
    /\ FailPage
    /\ UNCHANGED <<cancelled, requests, ready, pc, networkFailed>>

\* A script without content is skipped.
StartScript ==
    /\ AtTop("checked") /\ Top.load \notin cancelled /\ ~Finished
    /\ TakeEffect
    /\ IF HasContent(Top.load, Top.next) THEN MoveTop("script")
                                         ELSE NextResource
    /\ UNCHANGED <<cancelled, requests, ready, pc, networkFailed>>

\* The script returns; or it throws or is interrupted, and a checkpoint tells
\* whether that is worth reporting.  The load goes on.
EndScript ==
    /\ AtTop("script")
    /\ \/ /\ NextResource
          /\ UNCHANGED <<loadVars, cancelled, requests, ready, pc, networkFailed>>
       \/ RunCheckpoint(MoveTop("crash poll"), NextResource)

\* loader_request: the script waits in tai_network_request_until.
SendSync ==
    /\ AtTop("script") /\ Top.load \notin cancelled
    /\ requests' = Submitted(<<Top.load, SyncPart>>)
    /\ ready' \in {ready, ready \cup {<<Top.load, SyncPart>>}}
    /\ MoveTop("waiting")
    /\ UNCHANGED <<loadVars, cancelled, pc, networkFailed>>

GivesUpNever(l) == FALSE

\* loader_request_service says that the load was cancelled.
GivesUp(l) == l \in cancelled

\* One turn of tai_network_request_until: loader_request_service, then the
\* deadline, then a nested poll; tai_network_cancel unless that is answered.
WaitSync ==
    /\ AtTop("waiting")
    /\ \E served \in Served :
        LET without == Without(served, {<<Top.load, SyncPart>>})
        IN  \/ /\ ~GivesUp(Top.load)
               /\ Transfer(served)
               /\ MoveTop("sync poll")
            \/ \* cancelled, timed out, or the poll failed
               /\ requests' = without
               /\ ready' = ready \cap DOMAIN without
               /\ MoveTop("script")
    /\ UNCHANGED <<loadVars, cancelled, pc, networkFailed>>

\* page_finish_visual draws the first frame.
FinishPage ==
    /\ AtTop("checked") /\ Top.load \notin cancelled /\ Finished
    /\ \/ /\ End(Top.load, "ready")
          /\ stack' = Front(stack)
          /\ UNCHANGED <<resources, answers, listed, pending, applied>>
       \/ FailPage
    /\ UNCHANGED <<cancelled, requests, ready, pc, networkFailed>>

-----------------------------------------------------------------------------
\* The SDL thread sets task->cancelled, at any moment.
Cancel(l) ==
    /\ l \notin cancelled
    /\ cancelled' = cancelled \cup {l}
    /\ UNCHANGED <<loadVars, requests, ready, stack, pc, networkFailed>>

Loader ==
    \/ \E l \in Loads : StartLoad(l) \/ StartMarkup(l)
    \/ TakeNothing \/ Poll \/ Reap \/ Dispatch \/ EndPoll
    \/ ApplyStyle \/ Checkpoint \/ StopAtCheckpoint \/ StartScript \/ EndScript
    \/ SendSync \/ WaitSync \/ FinishPage

Next == Loader \/ \E l \in Loads : Cancel(l)

Spec == Init /\ [][Next]_vars

-----------------------------------------------------------------------------
(* Fairness.  The loader thread runs, and a script ends: js.c interrupts it  *)
(* after two seconds, to which it adds 30 at most for synchronous requests.  *)
ThreadFairness == WF_vars(Loader) /\ SF_vars(EndScript)

\* Every transfer ends (CURLOPT_TIMEOUT_MS, redirects >= 10), so as long as a
\* load has requests in flight some poll finds one ready...
Arrives(l) ==
    /\ Poll \/ Checkpoint \/ WaitSync
    /\ \E p \in 0..MaxResources : <<l, p>> \in ready' \ ready
\* ...and a script does not wait past its deadline.
DeadlinePasses == WaitSync /\ Last(stack').at = "script"
NetworkFairness ==
    /\ \A l \in Loads : SF_vars(Arrives(l))
    /\ SF_vars(DeadlinePasses)

FairSpec == Spec /\ ThreadFairness

-----------------------------------------------------------------------------
(* Properties.                                                             *)

\* No page's scripts run inside a script of another page, or of their own
\* page's load: whatever a nested poll finds ready, only the outer poll
\* completes resources.
NoNestedScripts == Len(stack) <= 1

\* The network's requests name exactly the loads that list them, and these are
\* allocated: no callback reaches a freed load, none is left that nobody will
\* cancel, and a load waits for what it asked for and no more.  A load is freed
\* as its task hears of its end, once: from the callback, from its cancellation
\* or when it could not start, never from two of them.
LoadsOwnTheirRequests ==
    /\ \A l \in Loads :
        /\ listed[l] = {p \in 0..MaxResources : <<l, p>> \in DOMAIN requests}
        /\ listed[l] # {} => status[l] = "live"
        /\ status[l] = "live" => pending[l] = Cardinality(listed[l] \ {0})
    /\ \A l \in Loads : <<l, SyncPart>> \in DOMAIN requests =>
            \E k \in DOMAIN stack : stack[k].load = l
    /\ \A l \in Loads :
        /\ ended[l] = IF status[l] = "gone" THEN 1 ELSE 0
        /\ page[l] = "ready" => ended[l] = 1

\* Scripts and styles take effect in document order and only when all of them
\* have been answered, in whatever order the answers came and although some
\* were refused; a page that is delivered has them all.
DocumentOrder ==
    \A l \in Loads :
        LET usable == {i \in DOMAIN resources[l] : HasContent(l, i)}
            taken == Range(applied[l])
        IN  /\ \A j, k \in DOMAIN applied[l] :
                   j < k => applied[l][j] < applied[l][k]
            /\ taken # {} => listed[l] = {} /\ taken \subseteq usable
            /\ \A i \in usable : (\E j \in taken : i < j) => i \in taken
            /\ page[l] = "ready" => taken = usable

\* Once all loads were told to stop they end, even if the network never answers
\* again and a script of their pages is waiting for it.  (The script of a page
\* that was not told to stop may keep the others waiting until its deadline.)
CancelledLoadsEnd == Loads \subseteq cancelled ~> Live = {}

\* If transfers end, every load ends, with the subresources that were refused,
\* failed or slow.
LoadsEnd ==
    NetworkFairness =>
        \A l \in Loads : status[l] = "live" ~> status[l] = "gone"
=============================================================================
