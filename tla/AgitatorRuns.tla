---------------------------- MODULE AgitatorRuns ----------------------------
(***************************************************************************)
(* The Agitator's run registry and the asyncio tasks behind each run.      *)
(*                                                                         *)
(* RunRegistry (agitator/runs.py) keeps a bounded deque of run records and *)
(* an index by id.  POST /agitator/runs logs in to the target apps and     *)
(* then calls try_start; the run's task optionally looks a policy up,      *)
(* spawns `count` request tasks one sleep apart, gathers them and          *)
(* finalizes the record.  Cancelling a run cancels its task, which cancels *)
(* and drains its request tasks before it finalizes the record.            *)
(*                                                                         *)
(* Atomicity.  No critical section of the registry's lock contains an      *)
(* await, so on the one event loop the lock is never found taken and every *)
(* registry call is one step together with the code around it up to the    *)
(* next suspension (the logins, a sleep, a gather, an HTTP call).          *)
(*                                                                         *)
(* A run's requests are interchangeable, so they are counted: queued (at   *)
(* the semaphore) and sending (inside send()).                             *)
(***************************************************************************)
EXTENDS Integers, Sequences, FiniteSets

CONSTANTS
  Run,             \* run ids: each start_run call draws a fresh uuid
  Scenario,        \* names in SCENARIOS
  LookupScenarios, \* those whose run() first awaits a lookup (claim-burst)
  ChaosScenarios,  \* those whose spec has requires_chaos
  EnableChaos,     \* settings.enable_chaos
  MaxRecent,       \* _MAX_RECENT, the deque's maxlen
  MaxConcurrent,   \* settings.agitator_max_concurrent_runs
  Count,           \* the run's "count" parameter
  Concurrency      \* the size of a run's semaphore

ASSUME ConstantsAssumption ==
  /\ IsFiniteSet(Run)
  /\ "none" \notin Scenario
  /\ LookupScenarios \subseteq Scenario
  /\ ChaosScenarios \subseteq Scenario
  /\ EnableChaos \in BOOLEAN
  /\ MaxRecent \in Nat \ {0}
  /\ MaxConcurrent \in Nat \ {0}
  /\ Count \in Nat \ {0}
  /\ Concurrency \in Nat \ {0}

VARIABLES
  records,     \* the deque: run ids, oldest first
  byId,        \* the keys of _by_id
  scenario,    \* RunRecord.scenario_name
  state,       \* RunRecord.state, "none" before the record is in the registry
  sent, succeeded, failed,  \* RunRecord's counters
  task,        \* where the run's handler or task is suspended
  spawned,     \* request tasks created so far
  queued, sending,          \* request tasks at the semaphore, in send()
  cancelling,  \* task.cancel() was called on the run's task
  drained,     \* its request tasks were cancelled
  server       \* the process: serving, lifespan exited, event loop closed

registryVars == <<records, byId>>
counterVars == <<sent, succeeded, failed>>
fireVars == <<spawned, queued, sending>>
vars == <<records, byId, scenario, state, sent, succeeded, failed, task,
          spawned, queued, sending, cancelling, drained, server>>

None == "none"
Terminal == {"succeeded", "failed", "cancelled"}
TaskLive == {"lookup", "spawning", "gathering", "draining"}

Init ==
  /\ records = <<>>
  /\ byId = {}
  /\ scenario = [r \in Run |-> None]
  /\ state = [r \in Run |-> "none"]
  /\ sent = [r \in Run |-> 0]
  /\ succeeded = [r \in Run |-> 0]
  /\ failed = [r \in Run |-> 0]
  /\ task = [r \in Run |-> "idle"]
  /\ spawned = [r \in Run |-> 0]
  /\ queued = [r \in Run |-> 0]
  /\ sending = [r \in Run |-> 0]
  /\ cancelling = [r \in Run |-> FALSE]
  /\ drained = [r \in Run |-> FALSE]
  /\ server = "serving"

-----------------------------------------------------------------------------
(* The registry *)

Running(r) == r \in byId /\ state[r] = "running"
RunningRecords == {i \in DOMAIN records : state[records[i]] = "running"}
RunningRuns == {records[i] : i \in RunningRecords}

\* The deque without its i-th entry.
Without(s, i) == [j \in 1..Len(s) - 1 |-> IF j < i THEN s[j] ELSE s[j + 1]]

\* Mutant: the oldest record goes, running or not.
Evictable_Oldest(i) == i \in DOMAIN records /\ i = 1

\* try_start's eviction: the oldest record that is not running goes, from the
\* deque and from the index, when the deque is full.
Evictable(i) ==
  /\ i \in DOMAIN records \ RunningRecords
  /\ \A j \in 1..i - 1 : j \in RunningRecords

Insert(r) ==
  \/ /\ Len(records) < MaxRecent
     /\ records' = Append(records, r)
     /\ byId' = byId \cup {r}
  \/ /\ Len(records) >= MaxRecent
     /\ \E i \in DOMAIN records :
          /\ Evictable(i)
          /\ records' = Append(Without(records, i), r)
          /\ byId' = (byId \ {records[i]}) \cup {r}

CapReached == Cardinality(RunningRecords) >= MaxConcurrent
ScenarioBusy(s) == \E r \in RunningRuns : scenario[r] = s
RegistryFull == Len(records) >= MaxRecent /\ RunningRecords = DOMAIN records

MayStart(r) == ~CapReached /\ ~ScenarioBusy(scenario[r]) /\ ~RegistryFull

\* The counters of a record that is gone or no longer running stay put.
Counted(r, n) == IF Running(r) THEN n ELSE 0

\* mark_sent: a response came back; `ok` is the scenario's verdict on it.
MarkSent(r, ok) ==
  /\ sent' = [sent EXCEPT ![r] = @ + Counted(r, 1)]
  /\ succeeded' = [succeeded EXCEPT ![r] = @ + IF ok THEN Counted(r, 1) ELSE 0]
  /\ failed' = [failed EXCEPT ![r] = @ + IF ok THEN 0 ELSE Counted(r, 1)]

\* mark_failure, called n times in a row: no response, so sent stays.
MarkFailure(r, n) ==
  /\ failed' = [failed EXCEPT ![r] = @ + Counted(r, n)]
  /\ UNCHANGED <<sent, succeeded>>

\* finalize, the run task's last act: a record leaves "running" once.
Finalize(r, outcome) ==
  /\ state' = [state EXCEPT ![r] = IF Running(r) THEN outcome ELSE @]
  /\ task' = [task EXCEPT ![r] = "done"]

-----------------------------------------------------------------------------
(* POST /agitator/runs *)

\* start_run up to the logins of bootstrap_session.
StartRun(r, s) ==
  /\ server = "serving"
  /\ task[r] = "idle"
  /\ s \in ChaosScenarios => EnableChaos
  /\ scenario' = [scenario EXCEPT ![r] = s]
  /\ task' = [task EXCEPT ![r] = "bootstrapping"]
  /\ UNCHANGED <<registryVars, state, counterVars, fireVars, cancelling,
                 drained, server>>

\* The handler answers with an error and drops the record it had built; its
\* id was never published, so it stands for the one of a later request.
DropRequest(r) ==
  /\ task[r] = "bootstrapping"
  /\ task' = [task EXCEPT ![r] = "idle"]
  /\ scenario' = [scenario EXCEPT ![r] = None]
  /\ UNCHANGED <<registryVars, state, counterVars, fireVars, cancelling,
                 drained, server>>

\* AgitatorAuthError: a login failed (502).
LoginFailed(r) == DropRequest(r)

\* try_start raises: cap reached (429), scenario busy (409), full (503).
TryStartRaises(r) == ~MayStart(r) /\ DropRequest(r)

\* run() up to its first suspension: the lookup, or the spawn loop's first
\* sleep, with one request task created.
Enter(r, where) ==
  LET n == IF where = "spawning" THEN 1 ELSE 0 IN
    /\ task' = [task EXCEPT ![r] = where]
    /\ spawned' = [spawned EXCEPT ![r] = n]
    /\ queued' = [queued EXCEPT ![r] = n]
    /\ UNCHANGED sending

FirstStop(r) == IF scenario[r] \in LookupScenarios THEN "lookup" ELSE "spawning"

\* try_start.  The task it creates is next in the loop's ready queue, so it
\* takes its first step before any request that could name the run.
TryStart(r) ==
  /\ task[r] = "bootstrapping"
  /\ MayStart(r)
  /\ Insert(r)
  /\ state' = [state EXCEPT ![r] = "running"]
  /\ Enter(r, FirstStop(r))
  /\ UNCHANGED <<scenario, counterVars, cancelling, drained, server>>

-----------------------------------------------------------------------------
(* The run's task: _wrapped around Scenario.run() *)

LookupFound(r) ==
  /\ task[r] = "lookup"
  /\ ~cancelling[r]
  /\ Enter(r, "spawning")
  /\ UNCHANGED <<registryVars, scenario, state, counterVars, cancelling,
                 drained, server>>

\* Mutant: one request too few is marked.
LookupEmpty_OneShort(r) ==
  /\ task[r] = "lookup"
  /\ ~cancelling[r]
  /\ MarkFailure(r, Count - 1)
  /\ Finalize(r, "succeeded")
  /\ UNCHANGED <<registryVars, scenario, fireVars, cancelling, drained, server>>

\* No policy: every intended request is marked failed and run() returns.
LookupEmpty(r) ==
  /\ task[r] = "lookup"
  /\ ~cancelling[r]
  /\ MarkFailure(r, Count)
  /\ Finalize(r, "succeeded")
  /\ UNCHANGED <<registryVars, scenario, fireVars, cancelling, drained, server>>

\* Mutant: an exception ends the task and leaves the record running.
LookupRaises_Unstamped(r) ==
  /\ task[r] = "lookup"
  /\ ~cancelling[r]
  /\ task' = [task EXCEPT ![r] = "done"]
  /\ UNCHANGED <<registryVars, scenario, state, counterVars, fireVars,
                 cancelling, drained, server>>

\* The lookup's transport raised: _wrapped finalizes the run as failed.
LookupRaises(r) ==
  /\ task[r] = "lookup"
  /\ ~cancelling[r]
  /\ Finalize(r, "failed")
  /\ UNCHANGED <<registryVars, scenario, counterVars, fireVars, cancelling,
                 drained, server>>

\* Mutant: the loop runs once too often.
SpawnNext_OneMore(r) ==
  /\ task[r] = "spawning"
  /\ ~cancelling[r]
  /\ spawned[r] <= Count
  /\ spawned' = [spawned EXCEPT ![r] = @ + 1]
  /\ queued' = [queued EXCEPT ![r] = @ + 1]
  /\ UNCHANGED <<registryVars, scenario, state, counterVars, task, sending,
                 cancelling, drained, server>>

\* The spawn loop's sleep ends: the next request task is created ...
SpawnNext(r) ==
  /\ task[r] = "spawning"
  /\ ~cancelling[r]
  /\ spawned[r] < Count
  /\ spawned' = [spawned EXCEPT ![r] = @ + 1]
  /\ queued' = [queued EXCEPT ![r] = @ + 1]
  /\ UNCHANGED <<registryVars, scenario, state, counterVars, task, sending,
                 cancelling, drained, server>>

\* ... or, after the last one, the task waits for all of them.
Gather(r) ==
  /\ task[r] = "spawning"
  /\ ~cancelling[r]
  /\ spawned[r] >= Count
  /\ task' = [task EXCEPT ![r] = "gathering"]
  /\ UNCHANGED <<registryVars, scenario, state, counterVars, fireVars,
                 cancelling, drained, server>>

Quiet(r) == queued[r] = 0 /\ sending[r] = 0

GatherDone(r) ==
  /\ task[r] = "gathering"
  /\ ~cancelling[r]
  /\ Quiet(r)
  /\ Finalize(r, "succeeded")
  /\ UNCHANGED <<registryVars, scenario, counterVars, fireVars, cancelling,
                 drained, server>>

\* CancelledError in the spawn loop: cancel every request task, then drain.
CancelRequests(r) ==
  /\ task[r] = "spawning"
  /\ cancelling[r]
  /\ task' = [task EXCEPT ![r] = "draining"]
  /\ drained' = [drained EXCEPT ![r] = TRUE]
  /\ UNCHANGED <<registryVars, scenario, state, counterVars, fireVars,
                 cancelling, server>>

\* Mutant: the record is finalized before the request tasks have ended.
Cancelled_Undrained(r) ==
  /\ task[r] \in {"lookup", "gathering", "draining"}
  /\ cancelling[r]
  /\ Finalize(r, "cancelled")
  /\ UNCHANGED <<registryVars, scenario, counterVars, fireVars, cancelling,
                 drained, server>>

\* CancelledError reaches _wrapped: out of the lookup at once, out of either
\* gather only when every request task has ended.
Cancelled(r) ==
  /\ task[r] \in {"lookup", "gathering", "draining"}
  /\ cancelling[r]
  /\ Quiet(r)
  /\ Finalize(r, "cancelled")
  /\ UNCHANGED <<registryVars, scenario, counterVars, fireVars, cancelling,
                 drained, server>>

-----------------------------------------------------------------------------
(* A request task: _fire *)

Fire(r) ==
  /\ queued[r] > 0
  /\ ~drained[r]
  /\ sending[r] < Concurrency
  /\ queued' = [queued EXCEPT ![r] = @ - 1]
  /\ sending' = [sending EXCEPT ![r] = @ + 1]
  /\ UNCHANGED <<registryVars, scenario, state, counterVars, task, spawned,
                 cancelling, drained, server>>

EndSend(r) ==
  /\ sending[r] > 0
  /\ sending' = [sending EXCEPT ![r] = @ - 1]
  /\ UNCHANGED <<registryVars, scenario, state, task, spawned, queued,
                 cancelling, drained, server>>

Answered(r, ok) == ~drained[r] /\ EndSend(r) /\ MarkSent(r, ok)

TransportError(r) == ~drained[r] /\ EndSend(r) /\ MarkFailure(r, 1)

\* A cancelled request task ends wherever it was, and counts nothing.
SendCancelled(r) == drained[r] /\ EndSend(r) /\ UNCHANGED counterVars

QueuedCancelled(r) ==
  /\ drained[r]
  /\ queued[r] > 0
  /\ queued' = [queued EXCEPT ![r] = @ - 1]
  /\ UNCHANGED <<registryVars, scenario, state, counterVars, task, spawned,
                 sending, cancelling, drained, server>>

-----------------------------------------------------------------------------
(* Cancellation and shutdown *)

\* Mutant: a gather keeps the cancellation from its request tasks.
CancelTasks_GatherShields(R) ==
  /\ cancelling' = [r \in Run |-> cancelling[r] \/ r \in R]
  /\ UNCHANGED <<registryVars, scenario, state, counterVars, task, fireVars,
                 drained>>

\* task.cancel() on each of the runs in R.  A task suspended in gather passes
\* the cancellation on to the gathered request tasks at once.
CancelTasks(R) ==
  /\ cancelling' = [r \in Run |-> cancelling[r] \/ r \in R]
  /\ drained' = [r \in Run |-> drained[r] \/ (r \in R /\ task[r] = "gathering")]
  /\ UNCHANGED <<registryVars, scenario, state, counterVars, task, fireVars>>

\* POST /agitator/runs/{id}/cancel on a record that is still running.
Cancel(r) ==
  /\ server = "serving"
  /\ Running(r)
  /\ task[r] # "done"
  /\ CancelTasks({r})
  /\ UNCHANGED server

\* Mutant: the shutdown stamps every record, not only the running ones.
CancelAll_StampsRecords ==
  /\ server = "serving"
  /\ \A r \in Run : task[r] # "bootstrapping"
  /\ cancelling' = [r \in Run |-> cancelling[r] \/ r \in byId]
  /\ state' = [r \in Run |-> IF r \in byId THEN "cancelled" ELSE state[r]]
  /\ server' = "stopped"
  /\ UNCHANGED <<registryVars, scenario, counterVars, task, fireVars, drained>>

\* The lifespan's exit, after the server closed its connections: cancel_all,
\* which signals the tasks and returns.
CancelAll ==
  /\ server = "serving"
  /\ \A r \in Run : task[r] # "bootstrapping"
  /\ CancelTasks(RunningRuns)
  /\ server' = "stopped"

\* asyncio.run closes the loop after the tasks that are left have ended.
LoopClosed ==
  /\ server = "stopped"
  /\ \A r \in Run : task[r] \notin TaskLive
  /\ server' = "exited"
  /\ UNCHANGED <<registryVars, scenario, state, counterVars, task, fireVars,
                 cancelling, drained>>

-----------------------------------------------------------------------------
\* What a run does by itself on the event loop, whatever its target apps do.
LoopStep(r) ==
  \/ SpawnNext(r) \/ Gather(r) \/ GatherDone(r)
  \/ CancelRequests(r) \/ Cancelled(r)
  \/ Fire(r) \/ SendCancelled(r) \/ QueuedCancelled(r)

\* The outcomes of an HTTP call the run waits for.
Lookup(r) == LookupFound(r) \/ LookupEmpty(r) \/ LookupRaises(r)
Response(r) == (\E ok \in BOOLEAN : Answered(r, ok)) \/ TransportError(r)

RunStep(r) ==
  \/ \E s \in Scenario : StartRun(r, s)
  \/ LoginFailed(r)
  \/ TryStartRaises(r)
  \/ TryStart(r)
  \/ LoopStep(r)
  \/ Lookup(r)
  \/ Response(r)
  \/ Cancel(r)

Next == (\E r \in Run : RunStep(r)) \/ CancelAll \/ LoopClosed

Spec == Init /\ [][Next]_vars

\* The event loop runs every ready callback, first come first served.
LoopFairness == \A r \in Run : WF_vars(LoopStep(r))

\* Every HTTP call ends: build_client gives each client a timeout of 10 s.
HttpFairness == \A r \in Run : WF_vars(Lookup(r)) /\ WF_vars(Response(r))

LoopSpec == Spec /\ LoopFairness

-----------------------------------------------------------------------------
(* Properties *)

\* Every variable has its type.
TypeOK ==
  /\ records \in Seq(Run)
  /\ byId \in SUBSET Run
  /\ scenario \in [Run -> Scenario \cup {None}]
  /\ state \in [Run -> {"none", "running"} \cup Terminal]
  /\ sent \in [Run -> Nat]
  /\ succeeded \in [Run -> Nat]
  /\ failed \in [Run -> Nat]
  /\ task \in [Run -> {"idle", "bootstrapping", "done"} \cup TaskLive]
  /\ spawned \in [Run -> Nat]
  /\ queued \in [Run -> Nat]
  /\ sending \in [Run -> Nat]
  /\ cancelling \in [Run -> BOOLEAN]
  /\ drained \in [Run -> BOOLEAN]
  /\ server \in {"serving", "stopped", "exited"}

\* A run that can still put a request on the wire.
Active(r) == task[r] \in TaskLive \/ ~Quiet(r)
ActiveRuns == {r \in Run : Active(r)}

\* The deque and the index name the same records, each once, within the bound
\* (runs.py:150-164: eviction must not leave a stale _by_id entry behind).
RegistryConsistent ==
  /\ Len(records) <= MaxRecent
  /\ byId = {records[i] : i \in DOMAIN records}
  /\ \A i, j \in DOMAIN records : records[i] = records[j] => i = j

\* A run that can still send is listed and shown as running, so an operator
\* can always find it and cancel it (runs.py:6: "never evicted").
ActiveRunsAreListed ==
  \A r \in Run : Active(r) => r \in byId /\ state[r] = "running"

\* No run is lost by an eviction, a start or a late answer: the deque and the
\* index agree, and what still sends is in them (runs.py:6, 153-161).
NoRunIsLost == RegistryConsistent /\ ActiveRunsAreListed

\* The cap holds for the traffic itself, not only for the records: at most
\* MaxConcurrent runs can send at any moment (try_start's cap check).
TrafficCapped == Cardinality(ActiveRuns) <= MaxConcurrent

\* No scenario is driven by two runs at once (try_start's scenario check).
OneRunPerScenario ==
  \A r, q \in ActiveRuns : scenario[r] = scenario[q] => r = q

\* The two limits of try_start hold for the runs that send, however their
\* starts, their logins and their ends interleave (runs.py:143-148).
SlotsAreKept == TrafficCapped /\ OneRunPerScenario

\* The counters add up: every answer is a success or a failure, a run that
\* ends as succeeded has accounted for each of its Count requests, and no run
\* for more (base.py:_fire, claim_burst.py's mark_failure loop).
CountersAddUp ==
  \A r \in Run :
    /\ sent[r] <= succeeded[r] + failed[r]
    /\ succeeded[r] + failed[r] + queued[r] + sending[r] <= Count
    /\ state[r] = "succeeded" => succeeded[r] + failed[r] = Count

\* Once a cancel was accepted the run ends as cancelled, and only then: not as
\* succeeded or failed by a completion that raced the cancel.
CancelDecides ==
  \A r \in Run :
    state[r] \in Terminal => (state[r] = "cancelled" <=> cancelling[r])

\* A finished record is history: no late answer, late cancel or shutdown
\* changes its state or its counters (the `state != "running"` returns).
FinishedIsFrozen ==
  [][\A r \in Run :
       state[r] \in Terminal =>
         <<state[r], sent[r], succeeded[r], failed[r], scenario[r]>>' =
           <<state[r], sent[r], succeeded[r], failed[r], scenario[r]>>]_vars

\* An accepted cancel ends the run even when the target apps never answer.
CancelTakesEffect ==
  \A r \in Run : cancelling[r] ~> state[r] = "cancelled"

\* Every run that starts ends, cancelled or not, if every HTTP call ends.
RunsTerminate ==
  HttpFairness => \A r \in Run : state[r] = "running" ~> state[r] \in Terminal

\* What the operator is promised, see RunPromise.
Promise == INSTANCE RunPromise WITH
  outcome <- state,
  accounted <- [r \in Run |-> succeeded[r] + failed[r]],
  asked <- cancelling
PromiseKept == Promise!Spec
=============================================================================
