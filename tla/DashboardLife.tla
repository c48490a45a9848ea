--------------------------- MODULE DashboardLife ---------------------------
(***************************************************************************)
(* The life of the dashboard process (main.py): the probe of the embedding *)
(* service at start-up, the watchdog that promotes a dashboard which came  *)
(* up without its models, the backfill and the file watcher, the proactive *)
(* loop, and the shutdown, which cancels them one after the other.  The    *)
(* requests that read the shared state meanwhile are here too: searches,   *)
(* statistics and flushes.                                                 *)
(*                                                                         *)
(* One event loop runs the coroutines: what lies between two awaits is one *)
(* step.  The worker thread of the backfill and the watcher's threads run  *)
(* beside it, also while a handler holds the loop.                         *)
(***************************************************************************)
EXTENDS Integers

CONSTANTS
  WatcherEnabled,   \* settings.watcher_enabled
  ScanEnabled,      \* settings.proactive_scan_enabled
  MaxDocs,          \* size of the collection (bound)
  MaxStarts,        \* starts of the process (bound)
  MaxFaults         \* faults of the embedding service and of Chroma (bound)

States == {"ready", "loading", "unreachable"}

ASSUME ConstantsAssumption ==
  /\ {WatcherEnabled, ScanEnabled} \subseteq BOOLEAN
  /\ {MaxDocs, MaxStarts, MaxFaults} \subseteq Nat

VARIABLES
  ollama,     \* what a probe of the embedding service finds, see Probe
  chroma,     \* Chroma answers
  docs,       \* how many documents the collection has
  mode,       \* the process: down, up, stopping, closed
  stopAt,     \* what the shutdown is waiting for
  app,        \* app.state, see TypeOK
  watchdog,   \* the task that promotes the dashboard
  probed,     \* what its probe returned
  backfill,   \* the coroutine _backfill_and_start_watcher
  byWatchdog, \* it runs inside the watchdog, not in a task of its own
  thread,     \* the worker thread of run_initial_backfill
  observer,   \* the watcher's threads run
  scan,       \* the proactive loop
  indexOpen,  \* session_index is open
  loop,       \* the handler that holds the event loop
  seen,       \* what this handler has read
  report,     \* the last answer of GET /api/chroma/stats
  search,     \* a search that awaits its query: "none" or "asked"
  answer,     \* the last answer of POST /api/logs/search
  starts, faults   \* counters of bounded events

env == <<ollama, chroma, faults>>
tasks == <<watchdog, probed, backfill, byWatchdog, thread, observer, scan>>
searches == <<search, answer>>
requests == <<loop, seen, report, searches>>
vars == <<env, docs, mode, stopAt, app, tasks, indexOpen, requests, starts>>

NoApp == [store |-> FALSE, graph |-> FALSE, emb |-> "unreachable",
          complete |-> FALSE, watcher |-> FALSE]

Init ==
  /\ ollama \in States /\ chroma = TRUE /\ faults = 0
  /\ docs = 0
  /\ mode = "down" /\ stopAt = "nothing"
  /\ app = NoApp
  /\ watchdog = "none" /\ probed = "unreachable"
  /\ backfill = "none" /\ byWatchdog = FALSE
  /\ thread = "idle" /\ observer = "off"
  /\ scan = "none"
  /\ indexOpen = FALSE
  /\ loop = "free" /\ seen = 0 /\ report = [total |-> 0, listed |-> 0]
  /\ search = "none" /\ answer = "none"
  /\ starts = 0

-----------------------------------------------------------------------------
(* The services around the dashboard *)

\* ollama-init has pulled the models.
ModelsArrive ==
  /\ ollama # "ready"
  /\ ollama' = "ready"
  /\ UNCHANGED <<chroma, faults, docs, mode, stopAt, app, tasks, indexOpen,
                 requests, starts>>

ServiceFails ==
  /\ faults < MaxFaults
  /\ faults' = faults + 1
  /\ \/ ollama' \in {"loading", "unreachable"} /\ UNCHANGED chroma
     \/ chroma' = FALSE /\ UNCHANGED ollama
  /\ UNCHANGED <<docs, mode, stopAt, app, tasks, indexOpen, requests, starts>>

ChromaReturns ==
  /\ ~chroma
  /\ chroma' = TRUE
  /\ UNCHANGED <<ollama, faults, docs, mode, stopAt, app, tasks, indexOpen,
                 requests, starts>>

-----------------------------------------------------------------------------
(* Start-up: no request is served before the lifespan yields *)

\* embeddings_state: unreachable without an answer of status 200 in JSON;
\* loading when a required model is missing, or the list is no list.
Probe == ollama

Up(state) ==
  /\ mode = "down" /\ starts < MaxStarts
  /\ Probe = state
  /\ starts' = starts + 1
  /\ mode' = "up" /\ stopAt' = "nothing"
  /\ indexOpen' = TRUE
  /\ scan' = IF ScanEnabled THEN "sleep" ELSE "none"
  /\ probed' = "unreachable"
  /\ UNCHANGED <<env, docs, requests>>

\* No retry: semantic search stays off until the next start.
StartUnreachable ==
  /\ Up("unreachable")
  /\ app' = [NoApp EXCEPT !.complete = TRUE]
  /\ watchdog' = "none"
  /\ backfill' = "none" /\ byWatchdog' = FALSE
  /\ UNCHANGED <<thread, observer>>

StartLoading ==
  /\ Up("loading")
  /\ app' = [NoApp EXCEPT !.emb = "loading"]
  /\ watchdog' = "sleep"
  /\ backfill' = "none" /\ byWatchdog' = FALSE
  /\ UNCHANGED <<thread, observer>>

\* build_vectorstore connects to Chroma: without it the start fails.
StartReady ==
  /\ Up("ready") /\ chroma
  /\ app' = [NoApp EXCEPT !.store = TRUE, !.graph = TRUE, !.emb = "ready"]
  /\ watchdog' = "none"
  /\ backfill' = "running" /\ byWatchdog' = FALSE
  /\ thread' = "busy"
  /\ UNCHANGED observer

\* Without Chroma the lifespan raises, and the process ends.
StartFails ==
  /\ mode = "down" /\ starts < MaxStarts
  /\ Probe = "ready" /\ ~chroma
  /\ starts' = starts + 1
  /\ UNCHANGED <<env, docs, mode, stopAt, app, tasks, indexOpen, requests>>

-----------------------------------------------------------------------------
(* The backfill and the watcher *)

\* The threads embed an entry; they do not wait for the loop.
ThreadAdds ==
  /\ thread = "busy" \/ observer # "off"
  /\ chroma /\ docs < MaxDocs
  /\ docs' = docs + 1
  /\ UNCHANGED <<env, mode, stopAt, app, tasks, indexOpen, requests, starts>>

ThreadEnds ==
  /\ thread = "busy"
  /\ thread' = "finished"
  /\ UNCHANGED <<env, docs, mode, stopAt, app, watchdog, probed, backfill,
                 byWatchdog, observer, scan, indexOpen, requests, starts>>

\* Any step of it raises: Chroma, the embedder or a file.
ThreadRaises ==
  /\ thread = "busy"
  /\ thread' = "raised"
  /\ UNCHANGED <<env, docs, mode, stopAt, app, watchdog, probed, backfill,
                 byWatchdog, observer, scan, indexOpen, requests, starts>>

\* The watchdog awaits the backfill and ends with it.
Ended(pc) ==
  /\ backfill' = pc
  /\ watchdog' = IF byWatchdog THEN "done" ELSE watchdog
  /\ UNCHANGED <<env, docs, mode, stopAt, probed, byWatchdog, thread, scan,
                 indexOpen, requests, starts>>

\* The coroutine resumes after the thread; the watcher starts, then the flag.
BackfillDone ==
  /\ backfill = "running" /\ thread = "finished" /\ loop = "free"
  /\ observer' = IF WatcherEnabled THEN "on" ELSE "off"
  /\ app' = [app EXCEPT !.watcher = WatcherEnabled, !.complete = TRUE]
  /\ Ended("done")

\* Mutant: the flag is set in a finally clause.
BackfillFailed_Complete ==
  /\ backfill = "running" /\ thread \in {"finished", "raised"}
  /\ loop = "free"
  /\ app' = [app EXCEPT !.complete = TRUE]
  /\ UNCHANGED observer
  /\ Ended("failed")

\* The thread raised, or the watcher did not start: logged, and nothing more.
BackfillFailed ==
  /\ backfill = "running" /\ thread \in {"finished", "raised"}
  /\ loop = "free"
  /\ UNCHANGED <<app, observer>>
  /\ Ended("failed")

-----------------------------------------------------------------------------
(* The watchdog *)

WatchdogStep(from, to) ==
  /\ watchdog = from /\ loop = "free"
  /\ watchdog' = to
  /\ UNCHANGED <<env, docs, mode, stopAt, byWatchdog, observer, scan,
                 indexOpen, requests, starts>>

WatchdogWakes ==
  /\ WatchdogStep("sleep", "probe")
  /\ UNCHANGED <<app, probed, backfill, thread>>

\* The probe runs in a worker thread; its result is used in a later step.
WatchdogProbes ==
  /\ watchdog = "probe"
  /\ watchdog' = "probed"
  /\ probed' = Probe
  /\ UNCHANGED <<env, docs, mode, stopAt, app, backfill, byWatchdog, thread,
                 observer, scan, indexOpen, requests, starts>>

\* Mutant: a watchdog that finds the service unreachable gives up.
WatchdogWaits_GivesUp ==
  /\ probed # "ready"
  /\ WatchdogStep("probed", IF probed = "unreachable" THEN "done" ELSE "sleep")
  /\ UNCHANGED <<app, probed, backfill, thread>>

\* Not ready: the state is shown, and the watchdog sleeps again.
WatchdogWaits ==
  /\ probed # "ready"
  /\ WatchdogStep("probed", "sleep")
  /\ app' = [app EXCEPT !.emb = probed]
  /\ UNCHANGED <<probed, backfill, thread>>

\* Ready: the store, then the graph, then the state, without an await between
\* them; then the backfill, which the watchdog awaits.
Promote ==
  /\ watchdog = "probed" /\ probed = "ready" /\ chroma /\ loop = "free"
  /\ watchdog' = "backfill"
  /\ app' = [app EXCEPT !.store = TRUE, !.graph = TRUE, !.emb = "ready"]
  /\ backfill' = "running" /\ byWatchdog' = TRUE
  /\ thread' = "busy"
  /\ UNCHANGED <<env, docs, mode, stopAt, probed, observer, scan, indexOpen,
                 requests, starts>>

\* Mutant: the state is shown before the store is built.
PromoteFails_StateFirst ==
  /\ probed = "ready" /\ ~chroma
  /\ WatchdogStep("probed", "dead")
  /\ app' = [app EXCEPT !.emb = "ready"]
  /\ UNCHANGED <<probed, backfill, thread>>

\* build_vectorstore raises outside the loop's try: the watchdog is gone.
PromoteFails ==
  /\ probed = "ready" /\ ~chroma
  /\ WatchdogStep("probed", "dead")
  /\ UNCHANGED <<app, probed, backfill, thread>>

-----------------------------------------------------------------------------
(* The proactive loop; what a scan does is in AgentTurns *)

ScanStep(from, to) ==
  /\ scan = from /\ loop = "free"
  /\ scan' = to
  /\ UNCHANGED <<env, docs, mode, stopAt, app, watchdog, probed, backfill,
                 byWatchdog, thread, observer, indexOpen, requests, starts>>

ScanStarts == app.store /\ ScanStep("sleep", "scanning")

ScanEnds == ScanStep("scanning", "sleep")

-----------------------------------------------------------------------------
(* The shutdown: uvicorn has drained the requests *)

WatchdogActive == watchdog \in {"sleep", "probe", "probed", "backfill"}

Shutdown(from, to) ==
  /\ stopAt = from /\ mode = "stopping"
  /\ stopAt' = to
  /\ UNCHANGED <<env, docs, probed, byWatchdog, thread, requests, starts>>

\* The backfill's task is cancelled and not awaited; the watchdog is awaited.
Stop ==
  /\ mode = "up" /\ loop = "free" /\ search = "none"
  /\ mode' = "stopping" /\ stopAt' = "watchdog"
  /\ backfill' = IF backfill = "running" THEN "cancelling" ELSE backfill
  /\ watchdog' = IF WatchdogActive THEN "cancelling" ELSE watchdog
  /\ UNCHANGED <<env, docs, app, probed, byWatchdog, thread, observer, scan,
                 indexOpen, requests, starts>>

\* A cancelled coroutine ends at its next step; its thread goes on.
BackfillCancelled ==
  /\ backfill = "cancelling"
  /\ backfill' = "cancelled"
  /\ watchdog' = IF byWatchdog THEN "cancelled" ELSE watchdog
  /\ UNCHANGED <<env, docs, mode, stopAt, app, probed, byWatchdog, thread,
                 observer, scan, indexOpen, requests, starts>>

WatchdogCancelled ==
  /\ watchdog = "cancelling" /\ backfill # "cancelling"
  /\ watchdog' = "cancelled"
  /\ UNCHANGED <<env, docs, mode, stopAt, app, probed, backfill, byWatchdog,
                 thread, observer, scan, indexOpen, requests, starts>>

StopScan ==
  /\ watchdog # "cancelling"
  /\ Shutdown("watchdog", "scan")
  /\ scan' = IF scan = "none" THEN "none" ELSE "cancelling"
  /\ UNCHANGED <<mode, app, watchdog, backfill, observer, indexOpen>>

\* Mutant: the loop takes the cancellation for a failed scan.
ScanCancelled_Survives ==
  /\ scan = "cancelling"
  /\ scan' = "scanning"
  /\ UNCHANGED <<env, docs, mode, stopAt, app, watchdog, probed, backfill,
                 byWatchdog, thread, observer, indexOpen, requests, starts>>

\* The loop passes CancelledError on, also out of a scan.
ScanCancelled ==
  /\ scan = "cancelling"
  /\ scan' = "ended"
  /\ UNCHANGED <<env, docs, mode, stopAt, app, watchdog, probed, backfill,
                 byWatchdog, thread, observer, indexOpen, requests, starts>>

\* Mutant: the cancelled loop is not awaited.
ScanDrained_NotAwaited == TRUE

ScanDrained == scan \in {"none", "ended"}

\* The watcher is stopped and joined; after the join's timeout its thread may
\* still be at its last tick.
StopWatcher ==
  /\ ScanDrained
  /\ Shutdown("scan", "runs")
  /\ observer' \in IF app.watcher THEN {"off", "last"} ELSE {observer}
  /\ UNCHANGED <<mode, app, watchdog, backfill, scan, indexOpen>>

LastTickEnds ==
  /\ observer = "last"
  /\ observer' = "off"
  /\ UNCHANGED <<env, docs, mode, stopAt, app, watchdog, probed, backfill,
                 byWatchdog, thread, scan, indexOpen, requests, starts>>

\* The load runs are cancelled (see AgitatorRuns), then the index is closed.
CloseIndex ==
  /\ Shutdown("runs", "nothing")
  /\ mode' = "closed"
  /\ indexOpen' = FALSE
  /\ UNCHANGED <<app, watchdog, backfill, observer, scan>>

\* The process ends: after the shutdown, when the executor's threads are done,
\* or at any time, killed.  Chroma keeps the documents.
Exit ==
  /\ mode # "down"
  /\ mode' = "down" /\ stopAt' = "nothing"
  /\ app' = NoApp
  /\ watchdog' = "none" /\ backfill' = "none" /\ byWatchdog' = FALSE
  /\ probed' = "unreachable"
  /\ thread' = "idle" /\ observer' = "off" /\ scan' = "none"
  /\ indexOpen' = FALSE
  /\ loop' = "free" /\ seen' = 0 /\ report' = [total |-> 0, listed |-> 0]
  /\ search' = "none" /\ answer' = "none"
  /\ UNCHANGED <<env, docs, starts>>

-----------------------------------------------------------------------------
(* Searches: the store is read before the query is awaited, the flag after *)

SearchStep ==
  /\ mode = "up" /\ loop = "free"
  /\ UNCHANGED <<env, docs, mode, stopAt, app, tasks, indexOpen, loop, seen,
                 report, starts>>

\* 503 without a store.
SearchRefused ==
  /\ ~app.store /\ search = "none"
  /\ answer' = "unavailable"
  /\ UNCHANGED search
  /\ SearchStep

SearchStarts ==
  /\ app.store /\ search = "none"
  /\ search' = "asked"
  /\ UNCHANGED answer
  /\ SearchStep

\* partial_corpus, as of the end of the query.
SearchEnds ==
  /\ search = "asked"
  /\ search' = "none"
  /\ answer' = IF app.complete THEN "complete" ELSE "partial"
  /\ SearchStep

\* The query raises: an error of status 500.
SearchFails ==
  /\ search = "asked"
  /\ ~chroma \/ ollama # "ready"
  /\ search' = "none" /\ answer' = "failed"
  /\ SearchStep

-----------------------------------------------------------------------------
(* Statistics and flushes: their calls of Chroma hold the loop *)

HoldLoop(handler) ==
  /\ mode = "up" /\ loop = "free" /\ app.store /\ chroma
  /\ loop' = handler /\ seen' = docs
  /\ UNCHANGED <<env, docs, mode, stopAt, app, tasks, indexOpen, report,
                 searches, starts>>

Release ==
  /\ loop' = "free" /\ seen' = 0
  /\ UNCHANGED <<env, mode, stopAt, app, tasks, indexOpen, searches, starts>>

\* collection.count(), then collection.get(); an empty one is not read.
StatsCount == docs > 0 /\ HoldLoop("stats")

StatsOfNothing ==
  /\ mode = "up" /\ loop = "free" /\ app.store /\ chroma /\ docs = 0
  /\ report' = [total |-> 0, listed |-> 0]
  /\ UNCHANGED <<env, docs, mode, stopAt, app, tasks, indexOpen, loop, seen,
                 searches, starts>>

StatsReport == [total |-> seen, listed |-> docs]

StatsGet ==
  /\ loop = "stats" /\ chroma
  /\ report' = StatsReport
  /\ UNCHANGED docs
  /\ Release

\* The ids, then their deletion; documents added in between stay.
FlushList == docs > 0 /\ HoldLoop("flush")

FlushDelete ==
  /\ loop = "flush" /\ chroma
  /\ docs' = docs - seen
  /\ UNCHANGED report
  /\ Release

\* Chroma fails between the two calls, or between two batches of a deletion.
SecondCallFails ==
  /\ loop # "free" /\ ~chroma
  /\ docs' \in IF loop = "flush" THEN (docs - seen) .. docs ELSE {docs}
  /\ UNCHANGED report
  /\ Release

-----------------------------------------------------------------------------
EventLoop ==
  \/ BackfillDone \/ BackfillFailed \/ BackfillCancelled
  \/ WatchdogWakes \/ WatchdogWaits \/ Promote \/ PromoteFails
  \/ WatchdogCancelled
  \/ StopScan \/ ScanCancelled \/ StopWatcher \/ CloseIndex
  \/ StatsGet \/ FlushDelete \/ SecondCallFails

Threads == ThreadEnds \/ ThreadRaises \/ WatchdogProbes \/ LastTickEnds

Next ==
  \/ ModelsArrive \/ ServiceFails \/ ChromaReturns
  \/ StartUnreachable \/ StartLoading \/ StartReady \/ StartFails
  \/ EventLoop \/ Threads \/ ThreadAdds
  \/ ScanStarts \/ ScanEnds
  \/ Stop \/ Exit
  \/ SearchRefused \/ SearchStarts \/ SearchEnds \/ SearchFails
  \/ StatsCount \/ StatsOfNothing \/ FlushList

Spec == Init /\ [][Next]_vars

\* The loop runs what is ready and the threads end, for their calls have
\* timeouts.  The environment: the models are pulled in the end.  Nothing makes
\* a document arrive, a scan start, an operator act or the process end.
FairSpec ==
  /\ Spec
  /\ WF_vars(WatchdogWakes) /\ WF_vars(WatchdogProbes)
  /\ WF_vars(WatchdogWaits) /\ WF_vars(Promote \/ PromoteFails)
  /\ WF_vars(WatchdogCancelled) /\ WF_vars(BackfillCancelled)
  /\ WF_vars(ThreadEnds \/ ThreadRaises)
  /\ WF_vars(BackfillDone \/ BackfillFailed)
  /\ WF_vars(StopScan) /\ WF_vars(ScanCancelled)
  /\ WF_vars(StopWatcher) /\ WF_vars(CloseIndex)
  /\ WF_vars(StatsGet \/ FlushDelete \/ SecondCallFails)
  /\ WF_vars(ModelsArrive)

-----------------------------------------------------------------------------
ServiceTypes ==
  /\ ollama \in States /\ chroma \in BOOLEAN /\ faults \in 0..MaxFaults
  /\ docs \in 0..MaxDocs

ProcessTypes ==
  /\ mode \in {"down", "up", "stopping", "closed"}
  /\ stopAt \in {"nothing", "watchdog", "scan", "runs"}
  /\ app \in [store : BOOLEAN, graph : BOOLEAN, emb : States,
              complete : BOOLEAN, watcher : BOOLEAN]
  /\ indexOpen \in BOOLEAN
  /\ starts \in 0..MaxStarts

TaskTypes ==
  /\ watchdog \in {"none", "sleep", "probe", "probed", "backfill", "done",
                   "dead", "cancelling", "cancelled"}
  /\ probed \in States
  /\ backfill \in {"none", "running", "done", "failed", "cancelling",
                   "cancelled"}
  /\ byWatchdog \in BOOLEAN
  /\ thread \in {"idle", "busy", "finished", "raised"}
  /\ observer \in {"off", "on", "last"}
  /\ scan \in {"none", "sleep", "scanning", "cancelling", "ended"}

RequestTypes ==
  /\ loop \in {"free", "stats", "flush"}
  /\ seen \in 0..MaxDocs
  /\ report \in [total : 0..MaxDocs, listed : 0..MaxDocs]
  /\ search \in {"none", "asked"}
  /\ answer \in {"none", "complete", "partial", "unavailable", "failed"}

\* The types.
TypeOK == ServiceTypes /\ ProcessTypes /\ TaskTypes /\ RequestTypes

\* No request sees a half-promoted dashboard: the state reads "ready" exactly
\* when there is a store, and the agent's tools search exactly that store.
ReadyMeansWired ==
  mode = "up" => /\ app.emb = "ready" <=> app.store
                 /\ app.graph = app.store

\* A search that is answered as complete was answered after a backfill that
\* went through in this process, whatever ended, failed or was promoted while
\* it awaited its query; a failed backfill leaves every answer partial.
CompleteMeansBackfilled == answer = "complete" => backfill = "done"

\* The process that has shut down has left nothing behind that acts on the
\* dashboard's state: no watcher was started after the watcher was stopped, no
\* scan runs on the closed index, no watchdog and no backfill will resume.
NothingOutlivesShutdown ==
  mode = "closed" =>
    /\ observer # "on"
    /\ scan \in {"none", "ended"}
    /\ ~WatchdogActive /\ watchdog # "cancelling"
    /\ backfill # "running"

\* The statistics never claim documents they do not list: a flush, the only
\* one to delete, cannot run between their two reads, for both hold the loop.
StatsNeverOverstate == report.total <= report.listed

\* A dashboard that came up while the models were pulled becomes ready, unless
\* it stops, or Chroma was away at the moment of its promotion.
PromotionHappens ==
  (mode = "up" /\ app.emb = "loading") ~>
    (app.emb = "ready" \/ mode # "up" \/ watchdog = "dead")

\* Whoever waits for whom at the shutdown, it comes to its end.
ShutdownEnds == mode = "stopping" ~> mode # "stopping"

=============================================================================
