# Verification of the agentic log analysis system

TLA+ models of the parts of this repository where order matters, the TLC runs
that check them, and theorems about them that TLAPS proves. Paths are relative
to the repository; `D/` stands for `dashboard/src/log_dashboard/`, `S/` for
`apps/shared-data-api/src/shared_data_api/`, `F/` for `apps/fnol/src/fnol/`.

## The system

Four insurance apps write logs; a dashboard reads them, embeds them in a vector
store and lets an operator question them, and it can drive load through the
apps to make something happen.

| part | state | operations | interacts with | what is hard |
|---|---|---|---|---|
| Agitator (`D/agitator/`, `D/routers/agitator.py`) | records of runs, one asyncio task per run and per request | start, cancel, list, shut down | logs in to and calls the four apps | a cancel at any point of a run, eviction of records whose task still sends, two starts at once |
| Log ingestion (`D/ingest/`) | file offset, the collection | backfill, watcher tick, fold, upsert, flush | the apps' files, Chroma, embeddings | a file that grows or is rolled while two threads read it, lines cut anywhere, failures between two steps |
| Agent sessions (`D/agent/sessions.py`) | an LRU of threads, the checkpointer | touch, evict, close | the chat and error routes | eviction of a thread whose request still runs |
| Agent graph (`D/agent/graph.py`, `nodes.py`, `tools.py`, `responses.py`) | message history, tool budget | ingest, analyze, correlate, predict, respond | the LLM, the collection | a budget that ends with a tool call pending |
| Proactive scan (`D/agent/proactive.py`) | findings buffer, last_scan_at | scan, skip, fail | graph, collection, `/api/status` | loop versus promotion, failures |
| Lifespan (`D/main.py`) | the app state, background tasks | start, promote embeddings, stop | everything above | the watchdog replaces objects while requests use them, the shutdown cancels tasks that wait for threads |
| Read routes (`D/ingest/reader.py`, `rollup.py`, `D/routers/logs.py`, `search.py`, `status.py`, `chroma_stats.py`, `errors.py`) | none | tail, page, search, roll up, count | files, collection | ties at a page border, windows, files that are rolled |
| Log Explorer (`dashboard/frontend/src/pages/LogExplorer.tsx`) | filters, rows, cursor | change filter, refresh, load more | the read routes | answers that overtake each other |
| Claims (`S/services/claims_service.py`, `S/routers/claims.py`) | claims and status history (Postgres), policies (Mongo) | authorise, validate, create, read | FNOL, simulator | two databases, one transaction |
| Claim simulator (`S/simulator/claim_status.py`) | the tick under way | tick, stop | claims, users | a tick that fails half-way, stop during a tick |
| Seed and consistency (`S/seeds/seed.py`, `S/db/consistency.py`) | the two databases | seed if empty, compare | start-up | a crash between two inserts |
| FNOL (`F/`) | none | login, submit, get | Shared Data API | a time-out after the claim was committed |
| Customer Portal (`apps/customer-portal`), Agent Portal (`apps/agent-portal`) | none | login, reads | Shared Data API | the same time-outs |
| Request path of the four apps (middleware, filters, exception handlers) | the tag of a request in flight | log, check key, inject fault, check token | the log files | the order of the filters, a tag that must not leak from one request to another |
| Front ends, compose file, CI | - | - | - | - |

What makes each part correct is stated by the properties below. `PROJECT.json` lists every
component with its status, and every hazard at its line.

## Modules

| module | what it is |
|---|---|
| `AgitatorRuns` | the run registry and the tasks of the runs |
| `RunPromise` | what the operator is promised about runs: the abstract specification |
| `MCAgitatorRuns` | its instances for TLC |
| `AgitatorRunsProofs` | its theorems |
| `LogIngest` | one app's log, from its file to the collection |
| `MCLogIngest` | its instances for TLC |
| `LogIngestProofs` | its theorems |
| `SharedData` | the claims of the Shared Data API: seed, simulator, FNOL's submissions, readers |
| `MCSharedData` | its instances for TLC |
| `SharedDataProofs` | its theorems |
| `AgentTurns` | the agent: chat turns, error analyses and scans on the graph, their threads and checkpoints |
| `MCAgentTurns` | its instance for TLC |
| `AgentTurnsProofs` | its theorems |
| `DashboardLife` | the dashboard's process: start, promotion, backfill task, loops, shutdown, and what requests see meanwhile |
| `MCDashboardLife` | its instance for TLC |
| `DashboardLifeProofs` | its theorems |
| `LogReads` | the tail, the pages and the Log Explorer, the cards and charts, the days of the corpus |
| `MCLogReads` | its instance for TLC |
| `LogReadsProofs` | its theorems |
| `LogSeriesProofs` | its theorems about the charts and the days |
| `AppRequests` | a request on its way through the filters of the four applications |
| `MCAppRequests` | its instance for TLC |
| `AppRequestsProofs` | its theorems |

How they fit together: `AppRequests` is the way of one request, and says what
lines it leaves in an app's log; `SharedData` is what a submission and the
simulator then do to the claims. `LogIngest` takes a log to the collection;
`LogReads` is what an operator reads of log and collection, `AgentTurns` what
the agent makes of it. `DashboardLife` holds the tasks that the others assume to
run (`LogIngest`'s backfill and watcher, the scan loop of `AgentTurns`, the
runs of `AgitatorRuns`) and shows in which order they come and go; there they
are a program counter each.

Mutated definitions (`Name_Bug`, marked "Mutant") stand next to the definition
they change. They are not part of any specification: each shows that a property
fails for a plausible bug.

### AgitatorRuns

`records` is `RunRegistry._records`, `byId` its `_by_id`; `state`, `scenario`,
`sent`, `succeeded`, `failed` are a `RunRecord`'s fields. A run id has one
asyncio task (`task`) and up to `Count` request tasks, which are counted by
where they are: not `spawned` yet, `queued` at the semaphore, `sending`.
`cancelling` says that a CancelledError is on its way into the run's task, and
`drained` that the run's request tasks have been cancelled after it.

- `StartRun` is the route up to its first await: the 404 and 400 answers change
  nothing and are left out; `LoginFailed`, `TryStart`, `TryStartRaises` end the
  logins. The registry's lock is never held across an await, so each of its
  methods is one action. `TryStart` contains the eviction (`Evictable`,
  `Insert`) and the creation of the task.
- `SpawnNext`, `Gather`, `Fire`, `Answered`, `TransportError` are
  `run_batch` and `_fire`; `LookupFound`, `LookupEmpty`, `LookupRaises` are the
  policy lookup that only claim-burst does.
- `Cancel` and `CancelAll` set `cancelling`; `CancelRequests` is the propagation
  from the gather, or from the spawn loop's handler, to the request tasks,
  which end by `QueuedCancelled` and `SendCancelled`; `Cancelled` is the
  wrapper's `except CancelledError`.
- `GatherDone` is the wrapper's end. A cancel that arrives when the gather is
  complete and the task has not run yet is still delivered at the task's next
  step, so `GatherDone` requires `~cancelling`.
- `CancelAll` is the lifespan's exit, `LoopClosed` what `asyncio.run` does after
  it. A task that was created is first in the ready queue, ahead of any request
  that could cancel it, so no cancel reaches a task that has not started.

### RunPromise

Two variables the operator can see, an outcome and a count, and one more for the
cancels that were accepted. An accepted cancel decides the outcome, a run that
succeeds has accounted for all its requests, no more than `MaxConcurrent` runs
run, and what is finished does not change. `AgitatorRuns` implements it, with
the mapping at its end.

### LogIngest

The app writes lines in two parts, so that a reader can meet a line that is half
written. Positions count parts from the beginning of the log; `rolled` is where
the active file begins; sizes and offsets are relative to it, as in the code.
`pc` is the one ingesting thread: the worker thread of the backfill (`active`,
`opening`, `archives`, `backfill`), then the observer's thread (`idle`, `read`, `adding`).

- `StatActive`, `ReadActive`, `ReadArchives`, `AddBatch`, `StartWatcher` are
  `run_initial_backfill` and `_backfill_and_start_watcher`, in the order of
  their reads; the failing branches are `ActiveUnreadable`,
  `ArchiveUnreadable` (an OSError skips the file), `ArchiveTruncated` (gzip's
  EOFError is not an OSError and ends the backfill) and `BackfillAddFails`.
- `Stat`, `Read`, `AddBatch`, `Added` are one `_read_and_upsert`, with
  `TickAborted` and `AddFails`. The app may write or roll between any two.
  The UTF-8 back-off of the reader only drops the bytes of a character that is
  cut, which belong to the unfinished line, so it is part of `cut`.
- `Entries` is `parse_and_fold` with the identity it really uses: a dictionary
  keyed by the raw line. `DocId` is the text at the time of the upsert.
- `FlushSnapshot`, `FlushDelete`, `FlushFails` are `POST /chroma/flush`, with
  its await between listing and deleting.
- `excused` is a history variable that no guard reads. A line enters it when it
  is lost by something the handler cannot see (the hand-over cut it, an upsert
  or a file failed, the file was rolled before the line was read, a flush) and
  leaves it when a later backfill reads it whole. Without it the invariant
  could only be stated for executions where nothing goes wrong.
- `Wanted` is `filter_for_ingest`, `Headers` the lines that parse. A JSON log
  (Shared Data API, FNOL, Customer Portal) has `Multiline = FALSE, Gzip =
  FALSE`; the Agent Portal's has both. `CutParses` says that a header cut short
  may still parse: true of Logback text, whose message runs to the end of the
  line, false of JSON.

winston rolls `app.log` into `app1.log` and so on, the Python apps into
`app.log.1`; in both cases the model only needs that the active file starts
empty and the old one is not found by the `.gz` glob.

### SharedData

`users` and `owner` are the Mongo collections; `status`, `customer`, `policy`,
`adjuster` the columns of `claims`, `history` the rows of
`claim_status_history`. Two databases share no transaction, so each read and
each commit is a step of its own, and a process may end between any two.

- `Start` to `SeedClaims` are the lifespan up to `yield`: the count of users that
  decides whether Mongo is seeded, three `insert_many`, then the claims in one
  transaction. `SeedFails` is an `insert_many` that raises after inserting some
  of its documents; `Crash` and `Dispose` end the process, which keeps nothing
  but the databases.
- `TickRead`, `TickPick`, `TickCommit` are one `tick`, cut where it awaits:
  the select of Postgres, the query of Mongo, the commit. `tick` is what the
  coroutine holds in between, and `Transition` writes from it, not from what the
  database has by then. `TickFails` is the `except Exception` of `_run`, with a
  commit that failed before or after taking effect; how many ticks failed in a
  row decides what is logged and is left out (`TickEnds`). `StopSimulator` and
  `SimulatorEnds` are `stop` with its `wait_for`.
- `Submit`, `GiveUp`, `Told` are FNOL's proxy; `Accept`, `Reject`, `Persist`,
  `Respond`, `HandlerFails` the handler behind it. FNOL's time-out does not end
  the handler. `payload.ok` stands for the checks of the vehicle and of the
  incident's date, which depend on nothing that changes.
- `ReadRow` and `ReadHistory` are the two statements of `GET /claims/{id}`
  (`selectinload` runs the second), each with its own snapshot.

Transactions are commit steps, which is what READ COMMITTED gives code whose
only updates of a row come from one task. Deleting the volume of one database
is outside the model: `warn_on_volume_asymmetry` logs it and changes nothing.

### AgentTurns

A turn is one run of the compiled graph; `turn[r].pc` is the node it enters next
and `chan` the run's own `AgentState`. `checkpoint` is the `InMemorySaver`,
`lru` `SessionIndex._lru`, `findings` the `FindingsBuffer`.

- `PostChat`, `GetErrorDetail`, `StartScan` are the two routes and one iteration
  of the proactive loop up to the start of the run, `Touch` included. A request
  that is refused (413, 400, 404, 503) changes nothing and is left out.
- `Ingest`, `Analyze`, `Correlate`, `Predict`, `Respond` are the nodes with the
  router behind them and the checkpoint that LangGraph saves after each; turns
  interleave between any two. `Loaded` is what a run finds in its thread.
- `Reply` makes the answer of what `ainvoke` returned, `StreamReply` of what it
  reads back from the thread, `ScanReply` a finding; `LlmFails` is a call that
  raises, `Disconnect` a client that closes the stream. Which tool is called, and
  every text, is abstract; a message keeps who wrote it and what a tool found.
- `Promote` exchanges the graph and keeps the checkpointer; `CloseIndex` is
  `aclose` at the shutdown.
- `strays`, `alone` and `kept` are history: threads that were evicted while a
  turn ran, turns that shared their thread, turns that lost theirs. The
  properties excuse exactly these.

### DashboardLife

`app` is what the handlers read of `app.state`; `watchdog`, `backfill`, `scan`
are the program counters of the three tasks, `thread` the worker thread of the
backfill, `observer` watchdog's threads. What lies between two awaits is one
step, the threads run beside it.

- `StartReady`, `StartLoading`, `StartUnreachable`, `StartFails` are the
  lifespan up to `yield`, by what the probe finds; `WatchdogWakes` to
  `PromoteFails` the loop of `_embeddings_watchdog`. `Promote` has the writes of
  the state, `PromoteFails` the exception of `build_vectorstore`, which is
  outside the loop's `try` and ends the task.
- `ThreadAdds`, `ThreadEnds`, `ThreadRaises`, `BackfillDone`, `BackfillFailed`
  are the backfill and its end on the loop, which starts the watcher.
- `Stop` to `Exit` are the lifespan after `yield`, one action per await; a
  cancelled task ends when it is resumed (`WatchdogCancelled`, `ScanCancelled`,
  `BackfillCancelled`), its thread goes on.
- `StatsCount` with `StatsGet`, `FlushList` with `FlushDelete` are the two calls
  of a handler that makes them without giving up the loop (`loop`), while the
  threads still add.
- `SearchStarts` and `SearchEnds` are a search: it reads the store, awaits its
  query on a thread, and reads the flag for `partial_corpus` when that is over.
  Anything may happen in between. `SearchRefused` is the 503 of a dashboard
  without a store; one search at a time is followed. The shutdown begins when no
  search is under way: uvicorn waits for its requests first.

### LogReads

`file[a]` is the sequence of an app's entries, with lengths of lines in bytes;
`TailLines` reads it backwards in chunks, as `reader.py` does. `Page` and
`NextBefore` are the page of `GET /api/logs` and its cursor, `CountInWindow` and
`History` a count of the card and its chart, `ByDayDefault` and `ByDay` the days
of `/api/chroma/stats`. `Lets` is how a choice of apps or levels filters: the
frontend sends no parameter for an empty one, and both routes skip an empty
one, so it lets all in. These are operators, checked against references (the last
lines; the card's count; every entry once) in every state of the files.

`filter` to `loading` are the state of the Log Explorer; `since` is the lower
bound as it was resolved when the window last changed. `pending` holds the
requests on their way. `Deliver` applies an answer whenever it comes, as the
page does: it neither aborts a request nor compares it with the current
filters. `due` and `mixed` are history: what the next pages still owe the
operator, and whether an answer was overtaken or failed.

### AppRequests

A hop is a request as one application sees it; `<<r, "edge">>` is the one the
client sent, `<<r, "sda">>` the one the edge application (or the Agitator)
sends to the Shared Data API. `at` is the hop's place in the stack of its
application, `ctx` the tag that is bound (a contextvar in Python, an
AsyncLocalStorage in Node, an MDC entry in Java), `lines` what it wrote.

- `FnolStack`, `CustomerStack`, `AgentStack`, `DataStack` are the filters in the
  order in which a request meets them. The two Python applications add them
  in the reverse order (Starlette), Spring orders them by number.
- `BindSource`, `CheckKey`, `Chaos`, `Wake`, `CheckToken` are the filters. They
  are shared by the applications where these agree; where they do not, the
  difference is in the stack or in a guard. The route `health` stands for every
  path an application answers by itself and to anyone (`Public`): the key and
  the token are not asked for, the injected fault comes before the answer all
  the same. (The Agent Portal's `/actuator/health` meets only the request log.)
- `TagOn` says which lines carry the tag: all, but in the Agent Portal, whose
  log pattern has no place for it, only those to which `SourceContext` was
  appended by hand, its warnings, its errors and the request line. `Refuse` is
  a refusal by a dependency or a route, for which the Python applications have a
  line and the portals none.
- `Forward`, `PassOn`, `GiveUp` are the three clients of the Shared Data API;
  `Answer` is the way back through the request log.
- `Login`, `Read`, `CreateClaim` are its routes, as far as the caller matters;
  what else a claim needs is in `SharedData`.
- `PythonFails` and `PortalFails` are an exception in a route: Starlette's
  handler for `Exception` stands outside the request log, those of Express and
  Spring inside. `CallFails` is an error of the Customer Portal's call that is
  not axios's own: it becomes an `AppError`, which `error-handler.ts` answers
  with 500 and no ERROR line.
- A token's `via` is history: which application its user really logged in
  through, next to the claim `app` that the Shared Data API derived from a key.

## Runs

| run | module | expect | properties | shows |
|---|---|---|---|---|
| `AgitatorRegistry` | `MCAgitatorRuns` | pass | `NoRunIsLost`, `SlotsAreKept`, `PromiseKept` | Three runs compete for two slots, two scenarios and a deque of two records: eviction, the cap and the scenario check hold for the tasks that send, and the registry implements RunPromise. |
| `AgitatorRequests` | `MCAgitatorRuns` | pass | `CountersAddUp`, `FinishedIsFrozen`, `CancelTakesEffect`, `RunsTerminate` | Runs in turn, three requests each, two in flight, cancelled at any point, on a fair event loop: every result is counted once, an accepted cancel takes effect even if no app answers, a finished record does not change, and every run ends if the HTTP calls end. |
| `IngestJson` | `MCLogIngest` | pass | `TypeOK`, `EveryLineIsEmbedded`, `WatchedLineIsEmbedded` | A JSON log, rolled once, with a failing step, a restart and a flush, under fair threads: the handler goes past a line without embedding it only for a cause it cannot see, and a line whose modify event is pending is embedded without another write. |
| `IngestLogback` | `MCLogIngest` | pass | `TextIsVerbatim`, `EveryLineIsEmbedded` | Two Logback events with traces, cut anywhere by the backfill and the ticks, and rolled into an archive at any moment: a document is one stretch of the log, and no line, rolled or not, is lost outside the window of the roll. |
| `IngestHandover` | `MCLogIngest` | violation | `HandoverLosesNothing` | A line half written when the backfill reads the file is lost: each reader gets one half. |
| `SharedRequests` | `MCSharedData` | pass | `ClaimsAreOwned`, `AnswersAreTrue`, `ReaderSeesItsStatus` | Two submissions through FNOL with time-outs, failures and a crash at any point, beside the simulator and a reader: no false answer, no claim for a policy of someone else, no status ahead of its history. |
| `SharedTimeline` | `MCSharedData` | pass | `HistoryIsSound`, `TimelineIsKept`, `ClaimsFinish` | A seeded claim and a filed one under a fair simulator, with a seed, a tick or a handler that fails and a crash or a shutdown: histories are paths, grow only, are signed by the adjuster, and every claim ends. |
| `SharedSeed` | `MCSharedData` | violation | `NoDatabaseIsLeftEmpty` | A seed that is interrupted after its first insert is never taken up again, and Postgres stays empty. |
| `AgentTurns` | `MCAgentTurns` | pass | `TypeOK`, `CheckpointsAreTracked`, `BudgetIsKept`, `AnswersAreTheirOwn`, `AnsweredTurnsAreKept`, `EveryTurnEnds` | Two turns, questions or scans, on one shared thread or on two, with an index of one thread, a budget of two tool rounds, failing models, disconnects and the promotion of the dashboard: budgets, answers, conversations and the checkpointer's memory. |
| `DashboardLife` | `MCDashboardLife` | pass | `ReadyMeansWired`, `CompleteMeansBackfilled`, `NothingOutlivesShutdown`, `PromotionHappens`, `ShutdownEnds` | Two starts of the dashboard, ready, loading or unreachable, with two failures of its services, a promotion, a backfill that may fail, scans, statistics and flushes, a stop or a kill at any point: what the routes say of the process is true, the promotion comes, and the shutdown ends and leaves nothing running. |
| `LogReads` | `MCLogReads` | pass | `TypeOK`, `TableAnswersTheFilter`, `NothingIsSkipped`, `TailIsTheEnd`, `SeriesAddUp` | Two apps write three lines of two lengths and roll a file while an operator chooses nothing, the errors of a closed window, or a search of one app, pages and refreshes with two requests under way: the table answers its filters and pages skip nothing but ties; tails, charts of two buckets and days agree with their references. |
| `AppRequests` | `MCAppRequests` | pass | `OriginIsKept`, `EveryAnswerIsLogged`, `ChaosBehindAuth`, `ClaimsComeThroughFnol`, `FailuresAreSeen`, `AnswersArrive` | Two requests, public ones too, through any of the four applications, with tokens carried from one to the other, two key configurations, injected faults, expiry, time-outs, and an exception or a call that fails by itself: tags and lines stay with their request, claims come through FNOL only, and a client is answered even when the Shared Data API is not. |

`CHECK_DEADLOCK FALSE` stands in the configurations because the processes really
stop: the run ids, turns, requests and bounded events (lines, rolls, faults,
starts) run out, and the dashboard may be down for good.

### Bounds

`AgitatorRegistry` has three run ids, so that a third start meets two active
runs (the cap), a full deque with an active and a finished record (eviction
skips the active one), and a scenario that is taken; one request per run is
enough there, for the registry does not look at requests. The three ids are
interchangeable and the properties of that run are safety, so symmetry is sound.
`AgitatorRequests` has three requests with two in flight, the least with one
sending, one queued and one not spawned at the moment of a cancel; and two run
ids of which only one fits the deque, so that one evicts the other. It checks
liveness, hence has no symmetry.

`IngestJson` has three lines: one before, one across and one after a boundary
(the end of the backfill, of a tick, of a file). `IngestLogback` has two events
with a trace line each, the least in which a trace can be attached to the wrong
one. One roll, one fault, two starts and one flush let every pair of them meet
at every step of a tick.

`SharedRequests` has two customers, two submissions and one policy, so that a
customer files for someone else's policy, and two handlers meet; a fault and a
crash can hit any step. It starts from an empty table to keep the requests in
the foreground; the customers, and the submissions, are interchangeable.
`SharedTimeline` has one claim of each origin, seeded with any of the chains and
filed, so that the simulator has two claims to choose from; one crash or shutdown
gives a second start with its seed over what is there.

`AgentTurns` has two turns, each a request or a scan, and one session, so that
the turns share a thread, or one evicts the other's (`MaxSessions` is 1); two
tool rounds, so that a budget can end with a call pending and with an answer;
one entry, an error, that a tool finds or does not. A buffer of one finding is
full with the first.

`DashboardLife` has two documents, so that a flush and a count can disagree in
both directions; two faults, one of each service or the same twice; two starts,
the second over what the first has left.

`LogReads` has two apps of which the first writes errors and the other INFO,
three entries at three times (ties included), pages of one and a tail of two, so
that a page ends, a tie falls on its border and the tail loses an entry; lines
of 2 and 3 bytes against chunks of 4 put the border of a chunk anywhere. Two
requests may be under way, the least that overtake each other. The filters are
nothing chosen, the errors in a window that ends, and a search of the first app
at any level; a file of mixed levels, and any other filters, are for the
theorems. The clock stands at 0, 3 or 4 (`Times`): a chart of two buckets of
2 has its borders at even times, so entries fall on a border, inside a bucket and
before the chart, and the clock between two borders. Days of 2 put the same
borders into the corpus; `SeriesAddUp` tries every window in every state.

`AppRequests` has two requests, one that a test tags and one without a tag, and
an X-Chaos that sleeps or fails on the first, none on the second; one customer
and one agent; keys that differ, and FNOL with the Customer Portal's key. The
first request may log in and the second carry its token anywhere. Either may go
to a public path.

### Fairness

`LoopFairness`: the asyncio loop runs every ready callback in the order it
became ready, so what a run can do by itself is done (weak fairness per run).
`HttpFairness`, an assumption of `RunsTerminate` only: `build_client` gives
every client a time-out of 10 s, so each call ends with an answer or an error.
`CancelTakesEffect` does not assume it. `ThreadFairness`: the worker and the
observer's thread keep running; nothing is assumed of the app (it may never
write again), of an operator, or of faults.

`AgentTurns`: weak fairness of each turn's own step; every call of the model ends,
because the client has a time-out (`llm_timeout_seconds`). Nothing is assumed of
clients. `DashboardLife`: weak fairness of the loop's ready callbacks and of the
threads, whose calls have time-outs, and of `ModelsArrive` (the compose file's
`ollama-init` pulls the models); none of documents, scans, operators, faults, or
Chroma's return. `AppRequests`: weak fairness of each request's step in its edge
application, `GiveUp` included, which is the client's time-out; none of the
Shared Data API, which may stop for ever. `LogReads` needs none.

`SimulatorFairness`: docker-compose.yml restarts the container whenever it stops
(`restart: unless-stopped`), and the loop ticks for ever. `rng.choice` gives every
open claim a positive chance at each tick and the draw moves it with a positive
one, so with probability one no claim is passed over for ever: strong fairness
of `TickRead(c)` per claim. Which of its next statuses a claim takes is left open.

## Proofs

| theorem | module | states |
|---|---|---|
| `Invariance` | `AgitatorRunsProofs` | The inductive invariant: the type invariant, a consistent registry, records that follow their tasks, requests that are accounted for, cancellations that travel from run to requests, and slots that are never overbooked. |
| `TypeCorrect` | `AgitatorRunsProofs` | Every variable keeps its type. |
| `RegistryStaysConsistent` | `AgitatorRunsProofs` | The deque and the index name the same records, each once, for any deque length and any sequence of evictions. |
| `NoActiveRunIsLost` | `AgitatorRunsProofs` | A run that can still send is never evicted nor shown as finished. |
| `NoRunIsEverLost` (`NoRunIsLost`) | `AgitatorRunsProofs` | Whatever is evicted, started or answered when, the deque and the index agree and hold every run that can send. |
| `TrafficStaysCapped` | `AgitatorRunsProofs` | At most MaxConcurrent runs can send at any moment, for any number of start requests. |
| `ScenariosStayExclusive` | `AgitatorRunsProofs` | Two runs never drive one scenario at the same time. |
| `SlotsStayKept` (`SlotsAreKept`) | `AgitatorRunsProofs` | The cap and the one-run-per-scenario rule hold for the runs that send, for any interleaving of starts, cancels and ends. |
| `CountersStayExact` (`CountersAddUp`) | `AgitatorRunsProofs` | Each of a run's requests is counted at most once, and each of them when the run ends as succeeded. |
| `CancelAlwaysDecides` | `AgitatorRunsProofs` | A run ends as cancelled exactly when its cancel was accepted. |
| `FinishedStaysFrozen` (`FinishedIsFrozen`) | `AgitatorRunsProofs` | No step changes the outcome, counters or scenario of a finished run. |
| `Refinement` (`PromiseKept`) | `AgitatorRunsProofs` | The registry and its tasks implement RunPromise, the operator's view, by the mapping of the run. |
| `Invariance` | `LogIngestProofs` | The inductive invariant: the types, what the backfill holds as one stretch of the file, entries that are not empty, entries that are verbatim while nothing is rolled, and every line safe behind the offset of whichever thread reads. |
| `TypesHold` (`TypeOK`) | `LogIngestProofs` | Every variable keeps its type, for a log of any length: each document, batch and flush is made of pieces of lines, and no offset or size is beyond what was written. |
| `NoLineIsSkipped` (`EveryLineIsEmbedded`) | `LogIngestProofs` | For any log, batch size, number of rolls, faults, starts and flushes, and any interleaving of the app, the backfill and the watcher, the reader goes past a wanted line only when it is embedded, about to be, or lost for a cause. |
| `DocumentsAreVerbatim` (`TextIsVerbatim`) | `LogIngestProofs` | Wherever the backfill and the ticks cut a log of any length, a document is one stretch of it, of which only the last line may be cut, while no file is rolled. |
| `HistoryStaysAPath` | `SharedDataProofs` | Every claim's history is a path of the status graph that ends in its status, through failing and cancelled ticks, crashes and re-seeds. |
| `AdjusterAlwaysActs` | `SharedDataProofs` | No claim leaves "submitted" without an agent and its adjuster signs every later row, because policies are inserted after the agents. |
| `HistoryStaysSound` (`HistoryIsSound`) | `SharedDataProofs` | Both: a history can be followed and each row is signed by who may act, whatever fails or is interrupted. |
| `ClaimsStayOwned` (`ClaimsAreOwned`) | `SharedDataProofs` | Every claim belongs to the owner of its policy, who filed it. |
| `AnswersStayTrue` (`AnswersAreTrue`) | `SharedDataProofs` | What FNOL told a customer is true for any number of requests, time-outs, failures and crashes. |
| `ReaderStaysCovered` (`ReaderSeesItsStatus`) | `SharedDataProofs` | A claim's two-statement read never shows a status that its history lacks. |
| `TimelineStaysKept` (`TimelineIsKept`) | `SharedDataProofs` | No step loses or rewrites a row of a history or reopens a finished claim. |
| `TypeCorrect` | `SharedDataProofs` | Type correctness of the claims, the seed, the simulator and the requests. |
| `Invariance` | `AgentTurnsProofs` | The inductive invariant: the types, what index and history know of the threads in use, whose messages a conversation can hold, what a run's own state says at each node, a lone run's state in its thread, and answered turns in every copy of theirs. |
| `TypesHold` (`TypeOK`) | `AgentTurnsProofs` | Every variable keeps its type, the index at most MaxSessions threads and the buffer at most MaxFindings findings, for any sequence of requests. |
| `MemoryIsBounded` (`CheckpointsAreTracked`) | `AgentTurnsProofs` | A checkpoint is of a thread that the index tracks, or dropped while a turn was running on it. |
| `BudgetHolds` (`BudgetIsKept`) | `AgentTurnsProofs` | For any budget, the tool rounds of a turn and those it has left add up to it, and the flag is set exactly when none is left. |
| `AnswersAreOwn` (`AnswersAreTheirOwn`) | `AgentTurnsProofs` | For any number of turns on any threads, an answer belongs to its question but in the cases the client is told of or reads a shared thread back; scans and findings say only what the scan found. |
| `AnswersAreKept` (`AnsweredTurnsAreKept`) | `AgentTurnsProofs` | An answered question stays in its conversation with its answer, across later turns, failures and the promotion, until its thread is evicted or unless turns ran on it side by side. |
| `Invariance` | `DashboardLifeProofs` | The inductive invariant: the types, store, graph and state wired together, a probing watchdog that has promoted nothing, a complete flag that is earned, counts that stand while a handler holds the loop, and how far the shutdown is. |
| `TypeCorrect` | `DashboardLifeProofs` | Every variable keeps its type; a flush never deletes more than there is. |
| `ReadyStaysWired` (`ReadyMeansWired`) | `DashboardLifeProofs` | No request finds a half-promoted dashboard, for any order of faults, starts and promotions. |
| `CompleteIsTrue` (`CompleteMeansBackfilled`) | `DashboardLifeProofs` | A search is answered as complete only after a backfill of this process that went through, whatever changes while it awaits its query. |
| `ShutdownIsClean` (`NothingOutlivesShutdown`) | `DashboardLifeProofs` | A dashboard that has shut down has left no watcher, scan, watchdog or backfill behind. |
| `StatsAreSound` | `DashboardLifeProofs` | The statistics list every document they count, for a collection of any size. |
| `Invariance` | `LogReadsProofs` | The inductive invariant: the types, entries that are known by their ids and not of the future, requests of which only the newest is about the present filters, and a table that is of one question whenever no answer was overtaken. |
| `TypesHold` (`TypeOK`) | `LogReadsProofs` | Every variable keeps its type: the table is a sequence of entries, whatever pages are appended to it, and the requests are what the routes take. |
| `TableIsAnswered` (`TableAnswersTheFilter`) | `LogReadsProofs` | For any apps, filters (a choice of apps or levels that is empty lets all in) and page size, the table holds what the filters let in, newest first and none twice, whatever is written and rolled between its pages, unless an answer was overtaken or did not come. |
| `NothingIsOwed` (`NothingIsSkipped`) | `LogReadsProofs` | When there is no next page, everything that was there for the first one, is still in the tails and is not of the very time at which a page ended was shown, for any page size. |
| `TailsAreWhole` (`TailIsTheEnd`) | `LogReadsProofs` | For any chunk size and any lengths of lines, reading chunks from the end until there is one newline more than lines wanted yields the last lines, whole. |
| `SeriesAgree` (`SeriesAddUp`) | `LogSeriesProofs` | For any buckets, days and entries, the chart draws what its card counts less what is before the first bucket, the days of the default window are whole, and a window with a lower bound that is not of the future, with any upper bound or none, has a day for each of its entries unless it has more than MaxDays days. Windows with an upper bound only, and longer ones, do leave entries out. |
| `Invariance` | `AppRequestsProofs` | The inductive invariant (what is true of a hop at each filter and of its lines, also for public paths and for lines without a tag, what two hops of one request know of each other, what a token and a claim go back to) holds in every reachable state. |
| `TypeCorrect` | `AppRequestsProofs` | Every variable keeps its type and no hop leaves its stack of filters. |
| `OriginStays` (`OriginIsKept`) | `AppRequestsProofs` | For any number of concurrent requests, the request line and every other line about a request carry its own tag, also behind the call to the Shared Data API, except the two kinds that carry none: what the Agent Portal says at INFO, and a Python application's answer to an exception. |
| `ChaosStaysBehindAuth` (`ChaosBehindAuth`) | `AppRequestsProofs` | The Shared Data API and the Agent Portal inject a fault only into the request of a known caller or into one whose route is open to anyone (the public paths, and the Agent Portal's login). |
| `ClaimsStayFnol` (`ClaimsComeThroughFnol`) | `AppRequestsProofs` | Every claim was filed for a customer who logged in through FNOL, for any assignment of keys. |
| `VerdictStays` | `AppRequestsProofs` | A client whose request went to the Shared Data API is told its verdict, a time-out or a failure, and never anything else. |
| `FailuresStaySeen` (`FailuresAreSeen`) | `AppRequestsProofs` | Every answer of 500 and more leaves a line that the dashboard reads, and an ERROR where it arose unless it was a time-out or a call of the Customer Portal that failed by itself, which leaves a WARN only. |
| `AnswersStayLogged` (`EveryAnswerIsLogged`) | `AppRequestsProofs` | A request that is answered has one request line, its last, with the status of the answer, except those refused before the request log and those that an exception ended. |

### AgitatorRunsProofs

The theorems hold for any set of run ids, any scenarios, any deque length, cap,
number of requests and concurrency. The assumption is `ConstantsAssumption` of `AgitatorRuns` (the positive
settings of `config.py`, the scenario sets, a finite set of run ids).

The argument is one inductive invariant, `IInv`, with these parts.

- `RegistryConsistent`, one half of `NoRunIsLost`.
- `Lifecycle`: a record's state follows its task (a task that lives has a
  running, listed record; one that is done has a final one). It is what makes
  "the registry says running" and "can still send" the same thing.
- `Accounting`: `sent`, `succeeded`, `failed`, `queued`, `sending` and
  `spawned` of a run add up at every point of its life. `CountersAddUp` alone is
  not inductive: the count of a task still queued is not in it.
- `Flags`: where a cancel can be on its way, and that `drained` runs have no
  request left to start. It gives `CancelDecides`, and that a run whose record
  is final is quiet.
- `Slots`: the running records number at most `MaxConcurrent` and have distinct
  scenarios. With `Lifecycle` it gives `TrafficCapped` and `OneRunPerScenario`, the two
  halves of `SlotsAreKept`.

`Init => IInv` and one lemma per action family give `Invariance`; the properties
follow from `IInv` in a few lines each. `FinishedStaysFrozen` and `Refinement`
use `IInv` to rule out steps of a finished run: `PromiseStep` shows that every
step is a step of `RunPromise` or a stutter.

### SharedDataProofs

The theorems hold for any users, policies, claims, requests, and any number of
faults and crashes. They assume `ConstantsAssumption` (customers and agents are
different users, there is an agent to seed, the seed's claims are claims) and
`NoneIsNoStatus`. The inductive invariant `IInv` adds to the safety properties:

- `Seeding`: the seed of Mongo goes on only while there is no policy, and there
  is a policy only when every agent is there. From it comes `AgentsAreThere`: a
  claim has a policy, hence an agent can be picked, hence `SYSTEM_ACTOR_ID` is
  never written.
- `TickIsCurrent`: what a tick has loaded is still so when it commits. The code
  takes no lock and compares no version; it holds because the simulator is the
  only one to change a claim.
- `HandlersWork`: a handler works only while the process serves, when policies do
  not change any more, so what `Accept` has checked holds at `Persist`; and a
  submission's claim belongs to it alone.
- `RowsAreFilled`, `ReadingIsCovered`: the same for the columns of a row, and for
  a reader between its two statements.

The work is in the three transactions: `TransitionSafe`, `PersistSafe` and
`InsertSafe` show what each does to every claim, one lemma per family of actions
uses them, and the theorems follow from `Invariance`. `TimelineStaysKept` needs
in addition that the seed inserts into an empty table only.

### DashboardLifeProofs

For any size of the collection, any number of starts and faults, with and
without watcher and scans (`ConstantsAssumption`). The inductive invariant has,
besides the types and the safety properties:

- `Wired`: store, graph and state are set together, also while the process
  starts and stops.
- `ProbingIsBefore`: a watchdog that still probes has promoted nothing, so its
  promotion does not overwrite a backfill's result.
- `CompleteIsEarned`: why the flag is set; with `AnswerIsEarned`, that what a
  search was answered stays true of this process, `CompleteMeansBackfilled`
  follows.
- `CountStands`: what the handler that holds the loop has counted is not more
  than there is, which threads that only add do not change, and a flush, the
  only one to delete, cannot run.
- `WatcherIsKnown`, `ShutdownOrder`: how far the shutdown has come says which
  tasks are over, and none starts another after its own end.

One lemma per family of actions keeps it.

### AppRequestsProofs

For any requests, users, directives and key configurations, with
`ConstantsAssumption` of the module (which tags and directives there are, that
customers and agents differ). The inductive invariant has three layers:

- of one hop (`Good`): where it is (`Placed`), that the tag is bound from the
  request log to the answer and stands on every line but those of `Untagged`
  (`Tagged`), what the filters behind it have established, be it a caller or
  that the path is public (`Known`), and what was logged of a failure before it
  is answered (`Loud`). `OriginIsKept` and `ChaosBehindAuth` follow.
- of the two hops of a request (`HopsAgree`): the data hop carries the key of
  the edge application it came through, unless it is a read, and an edge hop
  that waited answers with the verdict, a time-out or a failure.
- of what outlives requests (`TokensAreTrue`, `ClaimsAreTrue`): a token that
  names FNOL was issued through FNOL. With one key for two applications this is
  true because the later one has it, and FNOL is the first of the list.

`EveryAnswerIsLogged` follows from the first layer too: a hop has no request line
before it answers and writes one, the last, when it does (`Told`).

`IssuedIs` is the step where the three meet. An action moves one hop, or brings a
new one; `OneHopMoves`, `AnswerHops` and `ArrivalKeeps` show that once, and the
lemma of an action only shows that its hop stays good.

### LogIngestProofs

For a log of any length with any headers, any batch size and any number of
rolls, faults, starts and flushes (`ConstantsAssumption`). The inductive
invariant, beside the types:

- `Shape`: what the backfill holds of the active file was read in one piece, and
  a file begins with a line.
- `Full`: only an upsert has a batch, and no entry is empty.
- `Unrolled`: while nothing was rolled every entry, in the batch or stored, is
  one stretch of the log. `TextIsVerbatim` says it of the stored ones.
- `Behind` makes `EveryLineIsEmbedded` inductive: what is safe (embedded, in the
  batch, or excused) reaches the offset of whichever thread is reading. Between
  the backfill's two reads it is what was read of the active file; in the
  handler, which has taken a size and not read yet, it is also the size when
  the file that had it is gone. An offset in the middle of a line counts as its
  end (`LineEnd`): that is the line of `IngestHandover`, and it is excused.

`ReadLines`, `Entries` and `Passing` are first shown to do to a stretch of lines
what the properties need: whole lines that parse come out as entries of their
own, and what comes out is made of what went in. They pick a set of positions
in ascending order (`InOrder`), so `RankIsOwn` and its neighbours, which count
the members below one, take the place of an induction on the sequence. The
steps follow, one lemma per action.

### AgentTurnsProofs

For any turns, sessions and log entries, any budget and sizes of the index and
the buffer (`ConstantsAssumption`). The inductive invariant:

- `Known`: the index, or the history of what it dropped under a running turn,
  knows every thread in use. `CheckpointsAreTracked` is its second half; the
  first half is why a turn that saves after an eviction does not break it.
- `Runs`: what a run's own state says at each node (`RunOK`): tool results and
  tool rounds left add up, the flag is set when none is left, the question is
  there, and behind the last analysis an answer stands last unless the budget
  ended. `BudgetIsKept` is a part of it.
- `Signed`: no message of a turn is anywhere before the turn has loaded its
  thread, so what a run finds in its thread is of others.
- `Alone`, `Kept`: a run that shares its thread with no other has its state in
  it; an answered turn is in its thread and in the copy of every run on that
  thread, so that whichever of them saves does not lose it.
- `AnswerIsForTheQuestion`, `FindingsOwn`: the two parts of
  `AnswersAreTheirOwn`.

A step forgets threads and starts turns (`Fading`), loads a thread
(`Ingesting`), saves it (`Saving`) or ends a turn (`Ending`). One lemma of each
kind keeps the invariant, and an action only has to be shown to be of its kind.

### LogReadsProofs and LogSeriesProofs

For any apps, levels, filters, page sizes, chunks, lengths of lines, buckets and
days (`ConstantsAssumption`). The inductive invariant:

- `Written`: an entry is known by its id and not of the future. It makes the order
  of `get_logs` total (`NewerIs`), hence a sorted page unique (`SortedIs`).
- `Asking`: at most the newest request is about the present filters, it is the
  only one on its way unless answers may mix, and only the table's button
  asks for a page that is not the first.
- `Table`: while the table is of one question it fits the filters, is in order,
  and the cursor separates it from all it still owes (`Owed`). The cursor is the
  strengthening: neither order nor `NothingIsSkipped` is inductive without it,
  for the next page is made of a tail that has changed since the last.

`LogsAnswerKeeps` is where it is used: the new page lies before the old cursor
and the rows behind it. `TailIs` shows that `tail_lines` returns the last lines:
the reading stops at the beginning of the file, where nothing is cut, or with one
newline more than wanted, which leaves enough lines when the first is dropped. `Ends` is a recursive function,
of which `EndsExist` shows that there is exactly one.

`LogSeriesProofs` is about counting. `ColumnsAre` is a bijection between a set
that is dealt out to columns and its drawing; with `GridIs` and `BucketIs` (the
grid ends after now, and an entry of its time is in one bucket) the chart draws
what the card counts. `WholeDays` and `PartsGrow` are the arithmetic of the
days.

Induction over data is out of reach, so where a statement is about all prefixes
of a sequence the proofs take the least number for which it fails
(`LeastNatural`, from the library's well-founded relations).

## Only model-checked

Liveness (`CancelTakesEffect`, `RunsTerminate`, `WatchedLineIsEmbedded`,
`ClaimsFinish`, `EveryTurnEnds`, `PromotionHappens`, `ShutdownEnds`,
`AnswersArrive`) is out of the provers' reach, and stays with TLC, and so do the
two properties that the code violates. Every safety invariant and action
property that a passing run checks is stated by a theorem.

The other way round, some definitions are proved and in no run, because the
theorem says more than the run would: the type invariants of `AgitatorRuns`,
`SharedData`, `DashboardLife` and `AppRequests`; `CancelDecides`, which
`PromiseKept` implies (an end of `RunPromise` is a cancelled one exactly when a
cancel was accepted); `StatsNeverOverstate`; and `VerdictIsPassedOn`.

## Where code and documents disagree

- **The hand-over cuts a line** (`IngestHandover`). `_read_text_lines_with_size`
  returns the size with the unfinished last line in it; the backfill parses one
  half, the watcher reads the other, and the line is lost until a restart.
- **An interrupted seed is never completed** (`SharedSeed`). Any user is enough
  for the next start to skip the users and the policies; without policies the
  claims are skipped too, and the API serves with an empty table for good.

Seen while modelling, without a run of their own.

Ingestion: what was written during the backfill waits for the app's next write,
for the watcher starts without a first read (`watcher.py:189`). A header and
its trace become two documents when a tick ends between them and the dashboard
is restarted later. The dashboard looks for `.gz` archives only, which three of
the four apps never write (they roll at 10 MB into other names), and an archive
that is still being compressed ends the backfill with an `EOFError`
(`ArchiveTruncated`). Archives are read in the order of their names, so number 10
of a day before number 2, which changes no document. Two equal Logback headers in one read are one key of
the fold's dictionary, so both entries are the same object and it gets both
traces (`TextIsVerbatim` is therefore limited to executions without a roll, the
way copies arise here). `LogEntry.id` is made before folding and the document id
after it. A flush keeps what is added between its listing and its delete.

Lifespan: `build_vectorstore` in the watchdog stands outside its `try`
(`main.py:107`), although the comment above the loop says it never crashes
(`main.py:86`); when Chroma is away at that moment the watchdog is dead, and a
search answers "try again in a minute" until the process is restarted.
`PromotionHappens` excuses exactly that. The lifespan's exit signals the runs and
does not drain them. After "ready" the embedding service is never probed
again, and `partial_corpus` is read after the awaited search, not before it, so a
search whose query ran over half of the corpus is answered as complete when the
backfill ends before the answer is made. `CompleteMeansBackfilled` says no more
than that the backfill was over by then.

Agent: `sessions.py:6` speaks of evicting the oldest thread that is not active,
but `touch` evicts the oldest, active or not, and a turn that still runs writes
its checkpoint again; nothing forgets that one. A scan whose budget ends has an empty summary,
which is kept as a finding, and `nodes.py:186` (the final AIMessage is
already in the state) does not hold then. `llm_max_messages_per_session` (`config.py:175`) is
read by nothing.

Requests: an exception in a Python application leaves no `request` line and its
ERROR line has no tag, although `request_logger.py:28` says that every event of
a request carries it and `docs/tech/logging-strategy.md:84` that every request
emits a line; the Agent Portal answers a bad token before its request log, with
the same effect. (A third answer without one is not modelled: Express refuses a
body it cannot parse before the Customer Portal's request log.) The success lines
of the Agent Portal have no tag either (`AuthController.java:30`,
`ClaimsController.java:32,40`, `ProfileController.java:30`; the pattern,
`logback-spring.xml:4-5`, does not print the MDC), although
`RequestLoggingFilter.java:16` wants it for "any domain log statement"; they are
INFO, which the dashboard does not embed, so of what it embeds only the
exceptions of the Python applications are `unknown`. ADR-013:16,58 and `S/middleware/chaos.py:19-22` say that a
request without a key is refused before an injected fault can reach it; the
public paths pass (`S/middleware/api_key.py:45-47`), and the Shared Data API's
own tests inject their faults into `/health` without a key
(`test_chaos.py:54,77,95,123`). The same holds for `/api/health` and the login
of the Agent Portal (`JwtAuthenticationFilter.java:34-47`). A call of the
Customer Portal that fails with an error of another kind than axios's is answered
500 with a WARN that blames the Shared Data API and without the ERROR of other
500s (`errors.ts:27`, `error-handler.ts:19-22`); an interrupted sleep in the
Agent Portal's `ChaosFilter.java:67-71` is answered 500 without any line. The comment of the Customer Portal's `chaos.ts:17` says the
other three inject faults whatever the caller's token; two of them check first. A
customer who was told of a failure may have a claim, and a second submission
makes a second one; a claim's history is loaded without an order. A transport
error of the Agitator's Agent Portal login is outside `_login`'s error handling
and becomes a 500 in place of the documented 502.

Reading: a card looks at the tail only, so a loud app pushes its own errors out
of it within the hour; the lower bound of a preset window is resolved when the
window changes and stays for every refresh, and every other change of the
filters, after it. The days of the corpus for a window with an upper bound only
begin 30 days before now (`chroma_stats.py:285`) while its entries have no lower
bound (`:257`), and no window shows more than 366 days, so older entries are in
no day, although the comment has "the chart axis" match "the operator's stated
window" (`:283-284`).

## Not modelled, and why

Password hashing, the dashboard's own login, redaction, the other front-end pages
and the deployment keep no state whose order matters. The LLM and the embedding
model are outside: only the shape of what they return matters to the code.
Wording and layout of log events are left out everywhere. In `AgitatorRuns` the
bodies of requests are left out, and a login that fails is one event whatever it
was; in `LogIngest` the apps are independent of each other, so one is modelled.
In `AgentTurns` the proactive loop's time stamps, in `DashboardLife` an
exception of the probe itself, in `LogReads` the debounce, the 401 logout, the
plain tallies, the verdict of a card and pages that read one app's file later than another's, in
`AppRequests` the validation of bodies (its 422 and the warning that goes with
it), the Agent Portal's `/actuator`, bodies that cannot be parsed (Express refuses them before its request log) and the interrupt of a
sleeping thread at the Agent Portal's shutdown are left out.

## What is left

Every component with state is modelled, and every safety property of a passing
run is proved. What would add most now are abstract specifications next to
`RunPromise`: what a reader of the collection is promised about a log
(`LogIngest`), and what a client is promised about a submission (`SharedData`),
each implemented by its module; the properties above are the invariants such
refinements would need.
