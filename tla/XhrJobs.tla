------------------------------ MODULE XhrJobs ------------------------------
(***************************************************************************)
(* XMLHttpRequest across the two threads: the jobs that page script on the *)
(* SDL thread hands to the loader (src/tabset.c), and the TaiPageFetch     *)
(* records that the page and the performer of a request share              *)
(* (src/browser.c).                                                        *)
(*                                                                         *)
(* A synchronous job lives on the stack of the SDL thread, which waits for *)
(* it without a timeout; the loader reaches it through a pointer.  An      *)
(* asynchronous fetch is counted: one reference is the page's, one the     *)
(* job's.  Script of a page that is still loading runs on the loader       *)
(* itself, which then serves both kinds of jobs from nested polls.         *)
(*                                                                         *)
(* Fetches are numbered as they are sent.  Abstracted: requests, responses *)
(* and CORS; the life of load tasks (module TabLoads).                     *)
(***************************************************************************)
EXTENDS Naturals, Sequences, FiniteSets, SequencesExt

CONSTANTS
    Pages,
    MaxFetches, \* bound: asynchronous requests that are sent
    MaxSyncs,   \* bound: synchronous requests that are sent
    None        \* a NULL pointer

Fetches == 1..MaxFetches

ASSUME XhrAssumption ==
    /\ MaxFetches \in Nat
    /\ MaxSyncs \in Nat
    /\ None \notin Pages

VARIABLES
    where,          \* the thread that holds the page
    fetches,        \* page->fetches
    nextFetch,      \* the fetch allocated next
    references,     \* fetch->references, 0 once freed
    done,           \* the fetches with fetch->done
    abandoned,      \* the fetches with fetch->abandoned
    delivered,      \* how often onload or dropXHR ran for the fetch
    job,            \* where the loader's job for the fetch is
    sync,           \* where the job of the waiting SDL thread is
    syncs,          \* how many synchronous requests were sent
    late,           \* the jobs past their deadline; None is the synchronous one
    sdl,            \* the SDL thread
    walk,           \* tai_page_run_tasks: its page, last, slot and final
    pc,             \* the loader
    script,         \* the loading page whose script the loader runs, and from
                    \* where: load_task_start or a callback of tai_network_poll
    stopping,       \* app->stopping
    stopSeen,       \* loader_main's stopping, read at the end of its wait
    xhrClosed,      \* app->xhr_closed
    networkFailed   \* loader.network_failed

pageVars == <<where, fetches>>
fetchVars == <<nextFetch, references, done, abandoned>>
jobVars == <<job, sync, syncs, late>>
sdlVars == <<sdl, walk>>
loaderVars == <<pc, script, networkFailed, stopSeen>>
appVars == <<stopping, xhrClosed>>
vars == <<pageVars, fetchVars, delivered, jobVars, sdlVars, loaderVars,
          appVars>>

JobPlaces == {"none", "queued", "taken", "inflight"}

TypeOK ==
    /\ where \in [Pages ->
            {"unborn", "loader", "published", "sdl", "destroyed"}]
    /\ fetches \in [Pages -> Seq(Fetches)]
    /\ nextFetch \in 1..(MaxFetches + 1)
    /\ references \in [Fetches -> 0..2]
    /\ done \subseteq Fetches
    /\ abandoned \subseteq Fetches
    /\ delivered \in [Fetches -> Nat]
    /\ job \in [Fetches -> JobPlaces]
    /\ sync \in JobPlaces \cup {"done"}
    /\ syncs \in 0..MaxSyncs
    /\ late \subseteq Fetches \cup {None}
    /\ sdl \in {"idle", "walk", "callback", "joining", "done"}
    /\ walk \in [page : Pages, last : Fetches, slot : Nat, final : BOOLEAN]
               \cup {None}
    /\ pc \in {"wait", "service", "script", "submit", "expire", "nested",
               "poll", "reap", "check", "closing", "drain", "exited"}
    /\ script \in [page : Pages, from : {"start", "poll"}] \cup {None}
    /\ stopping \in BOOLEAN
    /\ stopSeen \in BOOLEAN
    /\ xhrClosed \in BOOLEAN
    /\ networkFailed \in BOOLEAN

Init ==
    /\ where = [p \in Pages |-> "unborn"]
    /\ fetches = [p \in Pages |-> <<>>]
    /\ nextFetch = 1
    /\ references = [f \in Fetches |-> 0]
    /\ done = {}
    /\ abandoned = {}
    /\ delivered = [f \in Fetches |-> 0]
    /\ job = [f \in Fetches |-> "none"]
    /\ sync = "none"
    /\ syncs = 0
    /\ late = {}
    /\ sdl = "idle"
    /\ walk = None
    /\ pc = "wait"
    /\ script = None
    /\ stopping = FALSE
    /\ stopSeen = FALSE
    /\ xhrClosed = FALSE
    /\ networkFailed = FALSE

AsyncIn(place) == {f \in Fetches : job[f] = place}

-----------------------------------------------------------------------------
(* TaiPageFetch.                                                           *)

\* tai_page_fetch_finish for the jobs in finished, whose reference is dropped.
Finish(finished) ==
    /\ done' = done \cup finished
    /\ references' = [f \in Fetches |->
            IF f \in finished THEN references[f] - 1 ELSE references[f]]

\* page_xhr_start: the page's reference and the owner's; accepted says that
\* net.start took the latter, otherwise the fetch fails at once.
StartFetch(p, place, accepted) ==
    /\ nextFetch \in Fetches
    /\ nextFetch' = nextFetch + 1
    /\ references' = [references EXCEPT
                        ![nextFetch] = IF accepted THEN 2 ELSE 1]
    /\ done' = IF accepted THEN done ELSE done \cup {nextFetch}
    /\ job' = [job EXCEPT ![nextFetch] = IF accepted THEN place ELSE "none"]
    /\ fetches' = [fetches EXCEPT ![p] = Append(@, nextFetch)]
    /\ UNCHANGED abandoned

DestroyLeakingFetches(pages, published) ==
    /\ where' = [p \in Pages |-> CASE p \in pages -> "destroyed"
                                    [] p \in published -> "published"
                                    [] OTHER -> where[p]]
    /\ fetches' = [p \in Pages |-> IF p \in pages THEN <<>> ELSE fetches[p]]
    /\ UNCHANGED <<references, abandoned>>

DestroyForgettingAbandon(pages, published) ==
    LET gone == UNION {Range(fetches[p]) : p \in pages}
    IN  /\ where' = [p \in Pages |-> CASE p \in pages -> "destroyed"
                                        [] p \in published -> "published"
                                        [] OTHER -> where[p]]
        /\ fetches' = [p \in Pages |-> IF p \in pages THEN <<>> ELSE fetches[p]]
        /\ references' = [f \in Fetches |->
                IF f \in gone THEN references[f] - 1 ELSE references[f]]
        /\ UNCHANGED abandoned

\* tai_page_destroy for pages, as far as requests are concerned: it lets go of
\* their fetches and marks them abandoned.  published are the loaded pages
\* that leave the loader in the same step.
LetGo(pages, published) ==
    LET gone == UNION {Range(fetches[p]) : p \in pages}
    IN  /\ where' = [p \in Pages |-> CASE p \in pages -> "destroyed"
                                        [] p \in published -> "published"
                                        [] OTHER -> where[p]]
        /\ fetches' = [p \in Pages |-> IF p \in pages THEN <<>> ELSE fetches[p]]
        /\ abandoned' = abandoned \cup gone
        /\ references' = [f \in Fetches |->
                IF f \in gone THEN references[f] - 1 ELSE references[f]]

-----------------------------------------------------------------------------
(* The SDL thread.  While its synchronous job is out it is blocked.        *)

Unblocked == sync = "none"

\* Script of p runs on the SDL thread: in an event or a timer, or in an onload.
RunsScript(p) ==
    /\ Unblocked
    /\ where[p] = "sdl"
    /\ sdl = "idle" \/ (sdl = "callback" /\ walk.page = p)

\* app_start, or its refusal (no memory; the app is closing).
SendAsync(p) ==
    /\ RunsScript(p)
    /\ \E accepted \in BOOLEAN :
        /\ accepted => ~stopping /\ ~xhrClosed
        /\ StartFetch(p, "queued", accepted)
    /\ UNCHANGED <<where, delivered, sync, syncs, late, sdlVars, loaderVars,
                   appVars>>

\* app_xhr_request_body up to the wait.
SendSync(p) ==
    /\ RunsScript(p)
    /\ ~stopping /\ ~xhrClosed
    /\ syncs < MaxSyncs
    /\ sync' = "queued"
    /\ syncs' = syncs + 1
    /\ late' = late \ {None}
    /\ UNCHANGED <<pageVars, fetchVars, delivered, job, sdlVars, loaderVars,
                   appVars>>

\* ...and its return.
ReturnSync ==
    /\ sync = "done"
    /\ sync' = "none"
    /\ UNCHANGED <<pageVars, fetchVars, delivered, job, syncs, late, sdlVars,
                   loaderVars, appVars>>

\* tai_page_run_tasks, when tai_page_next_task says that a fetch is done.
RunTasks(p) ==
    /\ Unblocked
    /\ sdl = "idle"
    /\ where[p] = "sdl"
    /\ Range(fetches[p]) \cap done # {}
    /\ sdl' = "walk"
    /\ walk' = [page |-> p, last |-> Last(fetches[p]), slot |-> 1,
                 final |-> FALSE]
    /\ UNCHANGED <<pageVars, fetchVars, delivered, jobVars, loaderVars,
                   appVars>>

IsFinalUnlessMore(fetch) == walk.slot = Len(fetches[walk.page])

\* Only requests sent before this call are delivered.
IsFinal(fetch) == fetch = walk.last

\* The walk looks at the fetch in its slot: one that is not done stays...
SkipFetch ==
    /\ sdl = "walk"
    /\ LET fetch == fetches[walk.page][walk.slot]
       IN  /\ fetch \notin done
           /\ \/ IsFinal(fetch) /\ sdl' = "idle" /\ walk' = None
              \/ /\ ~IsFinal(fetch)
                 /\ walk' = [walk EXCEPT !.slot = @ + 1]
                 /\ UNCHANGED sdl
    /\ UNCHANGED <<pageVars, fetchVars, delivered, jobVars, loaderVars,
                   appVars>>

DeliverWithoutUnlink ==
    /\ sdl = "walk"
    /\ LET fetch == fetches[walk.page][walk.slot]
       IN  /\ fetch \in done
           /\ walk' = [walk EXCEPT !.final = IsFinal(fetch)]
           /\ delivered' = [delivered EXCEPT ![fetch] = @ + 1]
    /\ sdl' = "callback"
    /\ UNCHANGED <<pageVars, fetchVars, jobVars, loaderVars, appVars>>

\* ...and one that is done leaves the list and runs its onload, or dropXHR.
DeliverFetch ==
    /\ sdl = "walk"
    /\ LET fetch == fetches[walk.page][walk.slot]
       IN  /\ fetch \in done
           /\ walk' = [walk EXCEPT !.final = IsFinal(fetch)]
           /\ fetches' = [fetches EXCEPT ![walk.page] = RemoveAt(@, walk.slot)]
           /\ delivered' = [delivered EXCEPT ![fetch] = @ + 1]
           /\ references' = [references EXCEPT ![fetch] = @ - 1]
    /\ sdl' = "callback"
    /\ UNCHANGED <<where, nextFetch, done, abandoned, jobVars, loaderVars,
                   appVars>>

\* The script returns.
EndCallback ==
    /\ Unblocked
    /\ sdl = "callback"
    /\ sdl' = IF walk.final THEN "idle" ELSE "walk"
    /\ walk' = IF walk.final THEN None ELSE walk
    /\ UNCHANGED <<pageVars, fetchVars, delivered, jobVars, loaderVars,
                   appVars>>

\* A commit of tai_tabset_pump gives the page app->event_net; a stale
\* completion is dropped, and a page ends with its tab or is replaced.
CommitPage(p) ==
    /\ Unblocked /\ sdl = "idle"
    /\ where[p] = "published"
    /\ where' = [where EXCEPT ![p] = "sdl"]
    /\ UNCHANGED <<fetches, fetchVars, delivered, jobVars, sdlVars,
                   loaderVars, appVars>>

ClosePage(p) ==
    /\ Unblocked /\ sdl = "idle"
    /\ where[p] \in {"published", "sdl"}
    /\ LetGo({p}, {})
    /\ UNCHANGED <<nextFetch, done, delivered, jobVars, sdlVars, loaderVars,
                   appVars>>

\* tai_browser_app_destroy, once every window is gone.
DestroyApp ==
    /\ Unblocked /\ sdl = "idle"
    /\ \A p \in Pages : where[p] # "sdl"
    /\ stopping' = TRUE
    /\ sdl' = "joining"
    /\ UNCHANGED <<pageVars, fetchVars, delivered, jobVars, walk, loaderVars,
                   xhrClosed>>

\* pthread_join and completions_free.
JoinLoader ==
    /\ sdl = "joining"
    /\ pc = "exited"
    /\ LetGo({p \in Pages : where[p] = "published"}, {})
    /\ sdl' = "done"
    /\ UNCHANGED <<nextFetch, done, delivered, jobVars, walk, loaderVars,
                   appVars>>
-----------------------------------------------------------------------------
(* The loader thread.                                                      *)

NetworkMayFail == networkFailed' \in {networkFailed, TRUE}

InFlight == sync = "inflight" \/ AsyncIn("inflight") # {}
Loading == {p \in Pages : where[p] = "loader"}
HasLoads == Loading # {}

\* The end of loader_main's condition wait, without a queued load...
Wake ==
    /\ pc = "wait"
    /\ \/ stopping \/ HasLoads \/ InFlight
       \/ sync = "queued" \/ AsyncIn("queued") # {}
    /\ stopSeen' = stopping
    /\ pc' = "service"
    /\ UNCHANGED <<pageVars, fetchVars, delivered, jobVars, sdlVars, script,
                   networkFailed, appVars>>

\* ...and with one, whose load_task_start may run the page's first scripts.
StartLoad(p) ==
    /\ pc = "wait"
    /\ ~stopping /\ ~networkFailed
    /\ where[p] = "unborn"
    /\ where' = [where EXCEPT ![p] = "loader"]
    /\ script' = [page |-> p, from |-> "start"]
    /\ stopSeen' = FALSE
    /\ pc' = "script"
    /\ UNCHANGED <<fetches, fetchVars, delivered, jobVars, sdlVars,
                   networkFailed, appVars>>

\* A resource of the page arrives in tai_network_poll and its scripts run.
ResumeLoad(p) ==
    /\ pc = "poll"
    /\ where[p] = "loader"
    /\ script' = [page |-> p, from |-> "poll"]
    /\ pc' = "script"
    /\ UNCHANGED <<pageVars, fetchVars, delivered, jobVars, sdlVars,
                   networkFailed, stopSeen, appVars>>

\* loader_start: this is already the loader, which submits the fetch itself.
LoaderSend ==
    /\ pc = "script"
    /\ \E accepted \in BOOLEAN :
        /\ accepted => ~networkFailed
        /\ StartFetch(script.page, "inflight", accepted)
    /\ UNCHANGED <<where, delivered, sync, syncs, late, sdlVars, loaderVars,
                   appVars>>

EndScript ==
    /\ pc = "script"
    /\ script' = None
    /\ pc' = IF script.from = "start" THEN "service" ELSE "poll"
    /\ UNCHANGED <<pageVars, fetchVars, delivered, jobVars, sdlVars,
                   networkFailed, stopSeen, appVars>>

\* loader_service: between polls at "service", and from a script at
\* loader_checkpoint and between the polls of a synchronous request of its own.
\* Under app->mutex loader_take_jobs takes both queues...
TakeJobs ==
    /\ pc \in {"service", "script"}
    /\ job' = [f \in Fetches |-> IF job[f] = "queued" THEN "taken" ELSE job[f]]
    /\ sync' = IF sync = "queued" THEN "taken" ELSE sync
    /\ pc' = "submit"
    /\ UNCHANGED <<pageVars, fetchVars, delivered, syncs, late, sdlVars,
                   script, networkFailed, stopSeen, appVars>>

SubmitDroppingRefused ==
    /\ pc = "submit"
    /\ \E refused \in SUBSET AsyncIn("taken"), syncRefused \in BOOLEAN :
        LET ended == {f \in AsyncIn("taken") : networkFailed \/ f \in abandoned}
            syncEnds == sync = "taken" /\ (networkFailed \/ syncRefused)
        IN  /\ Finish(ended)
            /\ sync' = CASE syncEnds -> "done"
                          [] sync = "taken" /\ ~syncEnds -> "inflight"
                          [] OTHER -> sync
            /\ job' = [f \in Fetches |->
                    CASE f \in ended \cup refused -> "none"
                      [] job[f] = "taken" /\ f \notin ended -> "inflight"
                      [] OTHER -> job[f]]
    /\ pc' = "expire"
    /\ UNCHANGED <<pageVars, nextFetch, abandoned, delivered, syncs, late,
                   sdlVars, script, networkFailed, stopSeen, appVars>>

\* ...then submits them: one that is refused, of an abandoned fetch or without
\* a network, is finished at once.
SubmitJobs ==
    /\ pc = "submit"
    /\ \E refused \in SUBSET AsyncIn("taken"), syncRefused \in BOOLEAN :
        LET ended == {f \in AsyncIn("taken") :
                        networkFailed \/ f \in abandoned \/ f \in refused}
            syncEnds == sync = "taken" /\ (networkFailed \/ syncRefused)
        IN  /\ Finish(ended)
            /\ sync' = CASE syncEnds -> "done"
                          [] sync = "taken" /\ ~syncEnds -> "inflight"
                          [] OTHER -> sync
            /\ job' = [f \in Fetches |->
                    CASE f \in ended -> "none"
                      [] job[f] = "taken" /\ f \notin ended -> "inflight"
                      [] OTHER -> job[f]]
    /\ pc' = "expire"
    /\ UNCHANGED <<pageVars, nextFetch, abandoned, delivered, syncs, late,
                   sdlVars, script, networkFailed, stopSeen, appVars>>

\* The jobs in ended and, if syncEnds, the synchronous one leave the loader.
EndInFlight(ended, syncEnds) ==
    /\ Finish(ended)
    /\ job' = [f \in Fetches |-> IF f \in ended THEN "none" ELSE job[f]]
    /\ sync' = IF syncEnds THEN "done" ELSE sync

Expired == {f \in AsyncIn("inflight") : f \in late \/ f \in abandoned}

SyncExpiresNever == FALSE
SyncExpires == sync = "inflight" /\ None \in late

\* loader_expire_jobs and async_expire.
ExpireJobs ==
    /\ pc = "expire"
    /\ EndInFlight(Expired, SyncExpires)
    /\ pc' = IF script # None THEN "nested" ELSE "poll"
    /\ UNCHANGED <<pageVars, nextFetch, abandoned, delivered, syncs, late,
                   sdlVars, script, networkFailed, stopSeen, appVars>>

\* Requests the network completes in a poll, with an answer or an error.
Complete ==
    \E ended \in SUBSET AsyncIn("inflight"), syncEnds \in BOOLEAN :
        /\ syncEnds => sync = "inflight"
        /\ EndInFlight(ended, syncEnds)

\* A nested poll completes the jobs in flight and none of the loading page's
\* resources.
NestedPoll ==
    /\ pc = "nested"
    /\ Complete
    /\ NetworkMayFail
    /\ pc' = "script"
    /\ UNCHANGED <<pageVars, nextFetch, abandoned, delivered, syncs, late,
                   sdlVars, script, stopSeen, appVars>>

\* tai_network_poll, the end of its callbacks; a failure ends every job.
Poll ==
    /\ pc = "poll"
    /\ HasLoads \/ InFlight
    /\ \/ /\ ~networkFailed
          /\ Complete
          /\ UNCHANGED networkFailed
       \/ /\ EndInFlight(AsyncIn("inflight"), sync = "inflight")
          /\ networkFailed' = TRUE
    /\ pc' = "reap"
    /\ UNCHANGED <<pageVars, nextFetch, abandoned, delivered, syncs, late,
                   sdlVars, script, stopSeen, appVars>>

SkipPoll ==
    /\ pc = "poll"
    /\ ~HasLoads /\ ~InFlight
    /\ pc' = "check"
    /\ UNCHANGED <<pageVars, fetchVars, delivered, jobVars, sdlVars, script,
                   networkFailed, stopSeen, appVars>>

\* cancel_or_reap_loads: finished pages are published, cancelled loads
\* destroyed; all of them when the app stops or the network has failed.
ReapLoads ==
    /\ pc = "reap"
    /\ \E kept \in SUBSET Loading : \E cancelled \in SUBSET (Loading \ kept) :
        /\ stopSeen \/ networkFailed => kept = {}
        /\ LetGo(cancelled, Loading \ (kept \cup cancelled))
    /\ pc' = "check"
    /\ UNCHANGED <<nextFetch, done, delivered, jobVars, sdlVars, script,
                   networkFailed, stopSeen, appVars>>

DoneWithoutRequests == stopping /\ ~HasLoads /\ ~InFlight

\* loader_main's done: requests do not keep the loader.
Done == stopping /\ ~HasLoads

CheckDone ==
    /\ pc = "check"
    /\ pc' = IF Done THEN "closing" ELSE "wait"
    /\ UNCHANGED <<pageVars, fetchVars, delivered, jobVars, sdlVars, script,
                   networkFailed, stopSeen, appVars>>

\* Past the loop.
CloseXhr ==
    /\ pc = "closing"
    /\ xhrClosed' = TRUE
    /\ networkFailed' = TRUE
    /\ pc' = "drain"
    /\ UNCHANGED <<pageVars, fetchVars, delivered, jobVars, sdlVars, script,
                   stopSeen, stopping>>

DrainInFlightOnly == AsyncIn("inflight")
Drained == AsyncIn("queued") \cup AsyncIn("inflight")

DrainJobs ==
    /\ pc = "drain"
    /\ EndInFlight(Drained, sync \in {"queued", "inflight"})
    /\ pc' = "exited"
    /\ UNCHANGED <<pageVars, nextFetch, abandoned, delivered, syncs, late,
                   sdlVars, script, networkFailed, stopSeen, appVars>>
-----------------------------------------------------------------------------
(* Time.                                                                   *)

\* The deadline of a job, set when it is sent, passes.
TimePasses(j) ==
    /\ IF j = None THEN sync \in {"queued", "taken", "inflight"}
                   ELSE job[j] = "inflight"
    /\ j \notin late
    /\ late' = late \cup {j}
    /\ UNCHANGED <<pageVars, fetchVars, delivered, job, sync, syncs, sdlVars,
                   loaderVars, appVars>>

-----------------------------------------------------------------------------
SdlThread ==
    \/ \E p \in Pages :
        \/ SendAsync(p) \/ SendSync(p) \/ RunTasks(p)
        \/ CommitPage(p) \/ ClosePage(p)
    \/ ReturnSync \/ SkipFetch \/ DeliverFetch \/ EndCallback
    \/ DestroyApp \/ JoinLoader

Loader ==
    \/ Wake \/ EndScript \/ LoaderSend \/ TakeJobs \/ SubmitJobs \/ ExpireJobs
    \/ NestedPoll \/ Poll \/ SkipPoll \/ ReapLoads \/ CheckDone
    \/ CloseXhr \/ DrainJobs
    \/ \E p \in Pages : StartLoad(p) \/ ResumeLoad(p)

\* The process is gone once the app is.
Terminated == sdl = "done" /\ UNCHANGED vars

Next ==
    \/ SdlThread
    \/ Loader
    \/ \E j \in Fetches \cup {None} : TimePasses(j)
    \/ Terminated

Spec == Init /\ [][Next]_vars

-----------------------------------------------------------------------------
(* Fairness.  Both threads run; a script ends (js.c interrupts it after two *)
(* seconds) and one poll handles finitely many resources, hence SF; and    *)
(* every iteration of run_windows runs the due tasks of every page.  Which *)
(* pages are committed and closed, and when, is the user's.                *)
ThreadFairness ==
    /\ WF_vars(Loader) /\ SF_vars(EndScript) /\ SF_vars(Poll)
    /\ WF_vars(ReturnSync)
    /\ \A p \in Pages : SF_vars(RunTasks(p))
    /\ WF_vars(SkipFetch) /\ WF_vars(DeliverFetch) /\ SF_vars(EndCallback)
    /\ WF_vars(JoinLoader)

ClockFairness == \A j \in Fetches \cup {None} : WF_vars(TimePasses(j))

FairSpec == Spec /\ ThreadFairness

-----------------------------------------------------------------------------
(* Properties.                                                             *)

\* A fetch is alive exactly as long as its page lists it or the loader has
\* its job, whichever thread lets go last: never freed under the other one,
\* never leaked.
ReferencesCountHolders ==
    \A f \in Fetches :
        references[f] = Cardinality({p \in Pages : f \in Range(fetches[p])})
                        + (IF job[f] = "none" THEN 0 ELSE 1)

\* The walk of tai_page_run_tasks keeps a pointer into the list and one to its
\* last fetch while onloads run that send more requests: both stay good, and the
\* walk ends although every onload sends another request.
WalkStaysOnList ==
    sdl = "walk" \/ (sdl = "callback" /\ ~walk.final) =>
        \E i \in DOMAIN fetches[walk.page] :
            i >= walk.slot /\ fetches[walk.page][i] = walk.last

\* A request answers its script once, with its result, and not at all when the
\* page is gone first.
OnloadRunsOnce ==
    \A f \in Fetches :
        /\ delivered[f] <= 1
        /\ delivered[f] = 1 => f \in done /\ f \notin abandoned

\* Every job the app accepted is finished when the loader has exited, and no
\* fetch outlives the app.
ExitLeavesNoJob ==
    /\ pc = "exited" =>
        /\ sync \in {"none", "done"}
        /\ \A f \in Fetches : job[f] = "none"
    /\ sdl = "done" => \A f \in Fetches : references[f] = 0

\* The SDL thread, and with it every window, does not wait for ever for a
\* synchronous request, even when the network never answers or page scripts
\* keep the loader busy: its deadline passes.
SyncIsAnswered == ClockFairness => (sync # "none" ~> sync = "none")

\* Every asynchronous request of a page in a window is answered, even if only
\* with an error, unless the page goes away first.
SentRequestsAreAnswered ==
    ClockFairness => \A p \in Pages, f \in Fetches :
        where[p] = "sdl" /\ f \in Range(fetches[p])
            ~> delivered[f] > 0 \/ f \in abandoned

\* The requests of a page that is gone stop without an answer and before their
\* deadline.
AbandonedJobsStop ==
    \A f \in Fetches :
        job[f] # "none" /\ (\A p \in Pages : f \notin Range(fetches[p]))
            ~> job[f] = "none"

\* Neither jobs nor the network keep the app from ending.
ShutdownFinishes == stopping ~> sdl = "done"
=============================================================================
