------------------------- MODULE AgitatorRunsProofs -------------------------
(***************************************************************************)
(* Proofs about AgitatorRuns, for any number of runs, any cap, any deque   *)
(* length and any request count.                                           *)
(***************************************************************************)
EXTENDS AgitatorRuns, FiniteSetTheorems, SequenceTheorems, TLAPS

-----------------------------------------------------------------------------
(* The inductive invariant *)

\* The record's state follows the task, and only listed runs run.
LifecycleAt(r) ==
  /\ state[r] = "none" <=> task[r] \in {"idle", "bootstrapping"}
  /\ state[r] = "running" <=> task[r] \in TaskLive
  /\ state[r] = "running" => r \in byId
  /\ r \in byId => state[r] # "none"
  /\ task[r] # "idle" => scenario[r] \in Scenario
  /\ ~Quiet(r) => task[r] \in {"spawning", "gathering", "draining"}

Lifecycle == \A r \in Run : LifecycleAt(r)

\* Every request task spawned is accounted for, in flight, or was cancelled.
Accounted(r) == succeeded[r] + failed[r]
Known(r) == Accounted(r) + queued[r] + sending[r]

AccountingAt(r) ==
  /\ sent[r] <= Accounted(r)
  /\ spawned[r] <= Count
  /\ Known(r) <= Count
  /\ task[r] \in {"idle", "bootstrapping", "lookup"} =>
       Known(r) = 0 /\ spawned[r] = 0
  /\ task[r] \in {"spawning", "gathering"} /\ ~drained[r] =>
       Known(r) = spawned[r]
  /\ task[r] = "gathering" => spawned[r] = Count
  /\ state[r] = "succeeded" => Accounted(r) = Count

Accounting == \A r \in Run : AccountingAt(r)

\* Who has been cancelled, and how far the cancellation has travelled.
FlagsAt(r) ==
  /\ cancelling[r] => state[r] \in {"running", "cancelled"}
  /\ state[r] = "cancelled" => cancelling[r]
  /\ drained[r] => cancelling[r] /\ task[r] \in {"gathering", "draining", "done"}
  /\ task[r] = "draining" => drained[r]
  /\ task[r] = "gathering" /\ cancelling[r] => drained[r]

Flags == \A r \in Run : FlagsAt(r)

RunningSet == {r \in Run : state[r] = "running"}

\* The slots of try_start.
Slots ==
  /\ \A r, q \in RunningSet : scenario[r] = scenario[q] => r = q
  /\ Cardinality(RunningSet) <= MaxConcurrent

IInv ==
  TypeOK /\ RegistryConsistent /\ Lifecycle /\ Accounting /\ Flags /\ Slots
-----------------------------------------------------------------------------
(* The deque *)

\* Evicting one entry keeps the others, each once, and shortens the deque.
LEMMA WithoutProperties ==
  ASSUME NEW S, NEW s \in Seq(S), NEW i \in DOMAIN s,
         \A j, k \in DOMAIN s : s[j] = s[k] => j = k
  PROVE  LET w == Without(s, i)
         IN  /\ w \in Seq(S)
             /\ Len(w) = Len(s) - 1
             /\ {w[j] : j \in DOMAIN w} = {s[j] : j \in DOMAIN s} \ {s[i]}
             /\ \A j, k \in DOMAIN w : w[j] = w[k] => j = k
<1> DEFINE w == Without(s, i)
<1>1. /\ Len(s) \in Nat
      /\ DOMAIN s = 1..Len(s)
      /\ \A j \in 1..Len(s) : s[j] \in S
      /\ i \in 1..Len(s)
  BY LenProperties, ElementOfSeq
<1>2. Len(s) - 1 \in Nat
  BY <1>1
<1>3. \A j \in 1..Len(s) - 1 : (IF j < i THEN s[j] ELSE s[j + 1]) \in S
  BY <1>1
<1>4. w \in Seq(S)
  BY <1>2, <1>3, SMT DEF Without
<1>5. Len(w) = Len(s) - 1 /\ DOMAIN w = 1..Len(s) - 1
  BY <1>2, SMT DEF Without
<1>6. \A j \in DOMAIN w : w[j] = IF j < i THEN s[j] ELSE s[j + 1]
  BY <1>5 DEF Without
<1>7. {w[j] : j \in DOMAIN w} = {s[j] : j \in DOMAIN s} \ {s[i]}
  <2>1. ASSUME NEW j \in DOMAIN w
        PROVE  w[j] \in {s[k] : k \in DOMAIN s} \ {s[i]}
    BY <1>1, <1>5, <1>6
  <2>2. ASSUME NEW k \in DOMAIN s, k # i
        PROVE  \E j \in DOMAIN w : w[j] = s[k]
    <3>1. CASE k < i
      BY <3>1, <1>1, <1>5, <1>6
    <3>2. CASE k > i
      <4>1. k - 1 \in DOMAIN w /\ w[k - 1] = s[k]
        BY <3>2, <1>1, <1>5, <1>6
      <4> QED BY <4>1
    <3> QED BY <2>2, <3>1, <3>2, <1>1
  <2> QED BY <2>1, <2>2
<1>8. \A j, k \in DOMAIN w : w[j] = w[k] => j = k
  BY <1>1, <1>5, <1>6
<1> QED BY <1>4, <1>5, <1>7, <1>8

\* try_start's insertion keeps the deque and the index in step.
LEMMA InsertProperties ==
  ASSUME TypeOK, RegistryConsistent, NEW r \in Run, r \notin byId, Insert(r)
  PROVE  /\ records' \in Seq(Run) /\ byId' \in SUBSET Run
         /\ RegistryConsistent'
         /\ r \in byId'
         /\ byId' \subseteq byId \cup {r}
         /\ \A q \in byId : state[q] = "running" => q \in byId'
<1> USE ConstantsAssumption
<1>0. /\ records \in Seq(Run) /\ Len(records) \in Nat
      /\ DOMAIN records = 1..Len(records)
  BY LenProperties DEF TypeOK
<1>1. ASSUME NEW s \in Seq(Run), Len(s) < MaxRecent, Len(s) \in Nat,
             \A i, j \in DOMAIN s : s[i] = s[j] => i = j,
             records' = Append(s, r),
             byId' = {s[i] : i \in DOMAIN s} \cup {r},
             r \notin {s[i] : i \in DOMAIN s}
      PROVE  records' \in Seq(Run) /\ byId' \in SUBSET Run /\ RegistryConsistent'
  <2>1. /\ DOMAIN s = 1..Len(s)
        /\ \A i \in 1..Len(s) : s[i] \in Run
    BY LenProperties, ElementOfSeq
  <2>2. /\ records' \in Seq(Run)
        /\ Len(records') = Len(s) + 1
        /\ DOMAIN records' = 1..Len(s) + 1
        /\ \A i \in 1..Len(s) : records'[i] = s[i]
        /\ records'[Len(s) + 1] = r
    BY <1>1, <2>1
  <2>3. byId' = {records'[i] : i \in DOMAIN records'}
    BY <1>1, <2>1, <2>2
  <2>4. \A i, j \in DOMAIN records' : records'[i] = records'[j] => i = j
    BY <1>1, <2>1, <2>2
  <2>5. byId' \in SUBSET Run /\ Len(records') <= MaxRecent
    BY <1>1, <2>1, <2>2
  <2> QED BY <2>2, <2>3, <2>4, <2>5 DEF RegistryConsistent
<1>2. CASE Len(records) < MaxRecent
  <2>1. records' = Append(records, r) /\ byId' = byId \cup {r}
    BY <1>2, <1>0 DEF Insert
  <2> QED BY <1>0, <1>1, <1>2, <2>1 DEF RegistryConsistent
<1>3. CASE Len(records) >= MaxRecent
  <2>1. PICK i \in DOMAIN records :
          /\ Evictable(i)
          /\ records' = Append(Without(records, i), r)
          /\ byId' = (byId \ {records[i]}) \cup {r}
    BY <1>0, <1>3 DEF Insert
  <2> DEFINE w == Without(records, i)
  <2>2. /\ w \in Seq(Run)
        /\ Len(w) = Len(records) - 1
        /\ {w[j] : j \in DOMAIN w} = byId \ {records[i]}
        /\ \A j, k \in DOMAIN w : w[j] = w[k] => j = k
    BY <1>0, WithoutProperties DEF RegistryConsistent
  <2>3. Len(w) < MaxRecent /\ Len(w) \in Nat
    BY <1>0, <2>2 DEF RegistryConsistent
  <2> HIDE DEF w
  <2>4. records' \in Seq(Run) /\ byId' \in SUBSET Run /\ RegistryConsistent'
    BY <1>1, <2>1, <2>2, <2>3 DEF w
  <2>5. state[records[i]] # "running"
    BY <2>1 DEF Evictable, RunningRecords
  <2> QED BY <2>1, <2>4, <2>5
<1> QED BY <1>0, <1>2, <1>3

-----------------------------------------------------------------------------
(* Counting the slots *)

\* The deque's running records are as many as the running runs: the cap that
\* try_start tests on the deque is a cap on the runs.
LEMMA RunningCount ==
  ASSUME TypeOK, RegistryConsistent, Lifecycle
  PROVE  /\ RunningRuns = RunningSet
         /\ IsFiniteSet(RunningSet)
         /\ Cardinality(RunningSet) \in Nat
         /\ Cardinality(RunningRecords) \in Nat
         /\ Cardinality(RunningSet) <= Cardinality(RunningRecords)
<1>0. /\ Len(records) \in Nat
      /\ DOMAIN records = 1..Len(records)
      /\ \A i \in 1..Len(records) : records[i] \in Run
  BY LenProperties, ElementOfSeq DEF TypeOK
<1>1. RunningRuns = RunningSet
  BY <1>0 DEF RunningRuns, RunningRecords, RunningSet, Lifecycle, LifecycleAt, RegistryConsistent
<1>2. IsFiniteSet(RunningSet) /\ Cardinality(RunningSet) \in Nat
  BY ConstantsAssumption, FS_Subset, FS_CardinalityType DEF RunningSet
<1>3. IsFiniteSet(RunningRecords) /\ Cardinality(RunningRecords) \in Nat
  <2>1. IsFiniteSet(1..Len(records))
    BY <1>0, FS_Interval
  <2>2. RunningRecords \in SUBSET (1..Len(records))
    BY <1>0 DEF RunningRecords
  <2> QED BY <2>1, <2>2, FS_Subset, FS_CardinalityType
<1>4. Cardinality(RunningSet) <= Cardinality(RunningRecords)
  <2> DEFINE f == [i \in RunningRecords |-> records[i]]
  <2>1. f \in Surjection(RunningRecords, RunningSet)
    BY <1>1 DEF RunningRuns, Surjection
  <2> QED BY <1>3, <2>1, FS_Surjection
<1> QED BY <1>1, <1>2, <1>3, <1>4

-----------------------------------------------------------------------------
(* Each step preserves the type invariant *)

\* A request task that ends leaves everything but the counters well typed.
LEMMA EndSendTypes ==
  ASSUME TypeOK, NEW r \in Run, EndSend(r),
         sent' \in [Run -> Nat], succeeded' \in [Run -> Nat],
         failed' \in [Run -> Nat]
  PROVE  TypeOK'
<1>1. sending' \in [Run -> Nat]
  BY DEF TypeOK, EndSend
<1>2. UNCHANGED <<records, byId, scenario, state, task, spawned, queued,
                  cancelling, drained, server>>
  BY DEF EndSend, registryVars
<1> QED BY <1>1, <1>2 DEF TypeOK

\* No step of a registry call, a task or a request leaves a variable ill typed.
LEMMA TypeStep ==
  ASSUME TypeOK, RegistryConsistent, Lifecycle, Accounting, [Next]_vars
  PROVE  TypeOK'
<1> USE ConstantsAssumption DEF TypeOK, TaskLive, Terminal, None,
      registryVars, counterVars, fireVars
<1>1. ASSUME NEW r \in Run, NEW s \in Scenario, StartRun(r, s)
      PROVE  TypeOK'
  BY <1>1 DEF StartRun
<1>2. ASSUME NEW r \in Run, DropRequest(r)
      PROVE  TypeOK'
  BY <1>2 DEF DropRequest
<1>3. ASSUME NEW r \in Run, TryStart(r)
      PROVE  TypeOK'
  <2>1. r \notin byId
    BY <1>3 DEF TryStart, Lifecycle, LifecycleAt
  <2>2. records' \in Seq(Run) /\ byId' \in SUBSET Run
    BY <1>3, <2>1, InsertProperties DEF TryStart
  <2> QED BY <1>3, <2>2 DEF TryStart, Enter, FirstStop
<1>4. ASSUME NEW r \in Run, Lookup(r)
      PROVE  TypeOK'
  <2>1. CASE LookupFound(r)
    BY <2>1 DEF LookupFound, Enter
  <2>2. CASE LookupEmpty(r)
    BY <2>2 DEF LookupEmpty, MarkFailure, Counted, Finalize
  <2>3. CASE LookupRaises(r)
    BY <2>3 DEF LookupRaises, Finalize
  <2> QED BY <1>4, <2>1, <2>2, <2>3 DEF Lookup
<1>5. ASSUME NEW r \in Run, LoopStep(r)
      PROVE  TypeOK'
  <2>1. CASE SpawnNext(r)
    BY <2>1 DEF SpawnNext
  <2>2. CASE Gather(r)
    BY <2>2 DEF Gather
  <2>3. CASE GatherDone(r)
    BY <2>3 DEF GatherDone, Finalize
  <2>4. CASE CancelRequests(r)
    BY <2>4 DEF CancelRequests
  <2>5. CASE Cancelled(r)
    BY <2>5 DEF Cancelled, Finalize
  <2>6. CASE Fire(r)
    BY <2>6 DEF Fire
  <2>7. CASE SendCancelled(r)
    BY <2>7, EndSendTypes DEF SendCancelled
  <2>8. CASE QueuedCancelled(r)
    BY <2>8 DEF QueuedCancelled
  <2> QED BY <1>5, <2>1, <2>2, <2>3, <2>4, <2>5, <2>6, <2>7, <2>8 DEF LoopStep
<1>7. ASSUME NEW r \in Run, Response(r)
      PROVE  TypeOK'
  <2>1. CASE TransportError(r)
    <3>1. failed' \in [Run -> Nat] /\ UNCHANGED <<sent, succeeded>>
      BY <2>1 DEF TransportError, MarkFailure, Counted
    <3> QED BY <2>1, <3>1, EndSendTypes DEF TransportError
  <2>2. ASSUME NEW ok \in BOOLEAN, Answered(r, ok)
        PROVE  TypeOK'
    <3>1. /\ sent' \in [Run -> Nat]
          /\ succeeded' \in [Run -> Nat]
          /\ failed' \in [Run -> Nat]
      BY <2>2 DEF Answered, MarkSent, Counted
    <3> QED BY <2>2, <3>1, EndSendTypes DEF Answered
  <2> QED BY <1>7, <2>1, <2>2 DEF Response
<1>9. ASSUME NEW R, CancelTasks(R), server' \in {"serving", "stopped", "exited"}
      PROVE  TypeOK'
  BY <1>9 DEF CancelTasks
<1>10. CASE LoopClosed
  BY <1>10 DEF LoopClosed
<1>11. CASE UNCHANGED vars
  BY <1>11 DEF vars
<1> QED
  BY <1>1, <1>2, <1>3, <1>4, <1>5, <1>7, <1>9, <1>10, <1>11
  DEF Next, RunStep, LoginFailed, TryStartRaises, Cancel, CancelAll

-----------------------------------------------------------------------------
(* Each step preserves the rest of the invariant *)

\* The steps of Next, one disjunct per kind of change.
LEMMA Steps ==
  ASSUME TypeOK, RegistryConsistent, Lifecycle, [Next]_vars
  PROVE  \/ \E r \in Run :
              \/ \E s \in Scenario : StartRun(r, s)
              \/ DropRequest(r)
              \/ TryStart(r)
              \/ LookupFound(r)
              \/ LookupEmpty(r)
              \/ LookupRaises(r)
              \/ SpawnNext(r)
              \/ Gather(r)
              \/ GatherDone(r)
              \/ CancelRequests(r)
              \/ Cancelled(r)
              \/ Fire(r)
              \/ \E ok \in BOOLEAN : Answered(r, ok)
              \/ TransportError(r)
              \/ SendCancelled(r)
              \/ QueuedCancelled(r)
         \/ \E R \in SUBSET RunningSet : CancelTasks(R)
         \/ LoopClosed
         \/ UNCHANGED vars
<1>1. ASSUME NEW r \in Run, Cancel(r)
      PROVE  \E R \in SUBSET RunningSet : CancelTasks(R)
  BY <1>1 DEF Cancel, Running, RunningSet
<1>2. ASSUME CancelAll
      PROVE  \E R \in SUBSET RunningSet : CancelTasks(R)
  BY <1>2, RunningCount DEF CancelAll
<1> QED
  BY <1>1, <1>2
  DEF Next, RunStep, LoginFailed, TryStartRaises, LoopStep, Lookup, Response

\* Only try_start touches the deque and the index, and keeps them in step.
LEMMA RegistryStep ==
  ASSUME TypeOK, RegistryConsistent, Lifecycle, [Next]_vars
  PROVE  RegistryConsistent'
<1>1. ASSUME NEW r \in Run, TryStart(r)
      PROVE  RegistryConsistent'
  <2>1. r \notin byId
    BY <1>1 DEF TryStart, Lifecycle, LifecycleAt
  <2> QED BY <1>1, <2>1, InsertProperties DEF TryStart
<1>2. CASE UNCHANGED <<records, byId>>
  BY <1>2 DEF RegistryConsistent
<1> QED
  BY <1>1, <1>2, Steps
  DEF StartRun, DropRequest, LookupFound, LookupEmpty, LookupRaises, SpawnNext,
      Gather, GatherDone, CancelRequests, Cancelled, Fire, Answered,
      TransportError, SendCancelled, QueuedCancelled, EndSend, CancelTasks,
      LoopClosed, registryVars, vars

\* A record runs exactly while its task lives, and only tasks that are past
\* their lookup have requests.
LEMMA LifecycleStep ==
  ASSUME TypeOK, RegistryConsistent, Lifecycle, Accounting, [Next]_vars
  PROVE  Lifecycle'
<1> SUFFICES ASSUME NEW q \in Run
             PROVE  LifecycleAt(q)'
  BY DEF Lifecycle
<1> USE DEF TypeOK, LifecycleAt, Quiet, TaskLive, Terminal, registryVars,
        fireVars
<1>0. LifecycleAt(q)
  BY DEF Lifecycle
<1>1. ASSUME NEW r \in Run, NEW s \in Scenario, StartRun(r, s)
      PROVE  LifecycleAt(q)'
  BY <1>0, <1>1 DEF StartRun
<1>2. ASSUME NEW r \in Run, DropRequest(r)
      PROVE  LifecycleAt(q)'
  BY <1>0, <1>2 DEF DropRequest
<1>3. ASSUME NEW r \in Run, TryStart(r)
      PROVE  LifecycleAt(q)'
  <2>1. /\ r \in byId'
        /\ byId' \subseteq byId \cup {r}
        /\ state[q] = "running" => q \in byId'
    BY <1>0, <1>3, InsertProperties DEF TryStart, Lifecycle, LifecycleAt
  <2> QED BY <1>0, <1>3, <2>1 DEF TryStart, Enter, FirstStop
<1>4. ASSUME NEW r \in Run, LookupFound(r)
      PROVE  LifecycleAt(q)'
  BY <1>0, <1>4 DEF LookupFound, Enter
<1>5. ASSUME NEW r \in Run, LookupEmpty(r) \/ LookupRaises(r)
      PROVE  LifecycleAt(q)'
  BY <1>0, <1>5 DEF LookupEmpty, LookupRaises, Finalize, Running, Lifecycle, Accounting
<1>6. ASSUME NEW r \in Run, SpawnNext(r) \/ Gather(r)
      PROVE  LifecycleAt(q)'
  BY <1>0, <1>6 DEF SpawnNext, Gather
<1>7. ASSUME NEW r \in Run, GatherDone(r) \/ Cancelled(r)
      PROVE  LifecycleAt(q)'
  BY <1>0, <1>7 DEF GatherDone, Cancelled, Finalize, Running
<1>8. ASSUME NEW r \in Run, CancelRequests(r)
      PROVE  LifecycleAt(q)'
  BY <1>0, <1>8 DEF CancelRequests
<1>9. ASSUME NEW r \in Run, Fire(r)
      PROVE  LifecycleAt(q)'
  BY <1>0, <1>9 DEF Fire
<1>10. ASSUME NEW r \in Run, EndSend(r)
       PROVE  LifecycleAt(q)'
  BY <1>0, <1>10 DEF EndSend
<1>11. ASSUME NEW r \in Run, QueuedCancelled(r)
       PROVE  LifecycleAt(q)'
  BY <1>0, <1>11 DEF QueuedCancelled
<1>12. ASSUME NEW R, CancelTasks(R)
       PROVE  LifecycleAt(q)'
  BY <1>0, <1>12 DEF CancelTasks
<1>13. CASE LoopClosed
  BY <1>0, <1>13 DEF LoopClosed
<1>14. CASE UNCHANGED vars
  BY <1>0, <1>14 DEF vars
<1> HIDE DEF TypeOK, LifecycleAt, Quiet, TaskLive, Terminal, registryVars, fireVars
<1> QED
  BY <1>1, <1>2, <1>3, <1>4, <1>5, <1>6, <1>7, <1>8, <1>9, <1>10, <1>11, <1>12,
     <1>13, <1>14, Steps
  DEF Answered, TransportError, SendCancelled

\* Two counts that add up to nothing are both zero.
LEMMA SumZero ==
  ASSUME NEW a \in Nat, NEW b \in Nat, NEW c \in Nat, NEW d \in Nat, NEW e \in Nat,
         a + b + c + d = 0, e <= a + b
  PROVE  a = 0 /\ b = 0 /\ c = 0 /\ d = 0 /\ e = 0
OBVIOUS

\* A request moves from spawned to queued to sending to counted, once.
LEMMA AccountingStep ==
  ASSUME TypeOK, RegistryConsistent, Lifecycle, Accounting, Flags, [Next]_vars
  PROVE  Accounting'
<1> SUFFICES ASSUME NEW q \in Run
             PROVE  AccountingAt(q)'
  BY DEF Accounting
<1>0. \A r \in Run : AccountingAt(r) /\ LifecycleAt(r) /\ FlagsAt(r)
  BY DEF Accounting, Lifecycle, Flags
<1>a. /\ sent[q] \in Nat /\ succeeded[q] \in Nat /\ failed[q] \in Nat
      /\ spawned[q] \in Nat /\ queued[q] \in Nat /\ sending[q] \in Nat
      /\ Count \in Nat \ {0}
  BY ConstantsAssumption DEF TypeOK
<1>b. ASSUME UNCHANGED <<sent[q], succeeded[q], failed[q], spawned[q], queued[q],
                         sending[q], task[q], drained[q], state[q]>>
      PROVE  AccountingAt(q)'
  BY <1>0, <1>b DEF AccountingAt, Accounted, Known
<1>1. ASSUME NEW r \in Run, NEW s \in Scenario, StartRun(r, s)
      PROVE  AccountingAt(q)'
  <2>1. /\ task[r] = "idle"
        /\ task[q]' = IF q = r THEN "bootstrapping" ELSE task[q]
        /\ UNCHANGED <<sent[q], succeeded[q], failed[q], spawned[q], queued[q], sending[q], drained[q], state[q]>>
    BY <1>1 DEF StartRun, registryVars, counterVars, fireVars, TypeOK
  <2> QED BY <1>0, <1>a, <2>1 DEF AccountingAt, Accounted, Known, TaskLive, Terminal
<1>2. ASSUME NEW r \in Run, DropRequest(r)
      PROVE  AccountingAt(q)'
  <2>1. /\ task[r] = "bootstrapping"
        /\ task[q]' = IF q = r THEN "idle" ELSE task[q]
        /\ UNCHANGED <<sent[q], succeeded[q], failed[q], spawned[q], queued[q], sending[q], drained[q], state[q]>>
    BY <1>2, <1>0 DEF DropRequest, registryVars, counterVars, fireVars, TypeOK
  <2> QED BY <1>0, <1>a, <2>1 DEF AccountingAt, Accounted, Known, TaskLive, Terminal
<1>3. ASSUME NEW r \in Run, NEW where \in {"lookup", "spawning"}, Enter(r, where),
             task[r] \in {"bootstrapping", "lookup"}, ~drained[r],
             UNCHANGED <<sent, succeeded, failed, drained>>,
             state[r]' = "running", q # r => UNCHANGED state[q]
      PROVE  AccountingAt(q)'
  <2> DEFINE n == IF where = "spawning" THEN 1 ELSE 0
  <2>1. /\ task[q]' = IF q = r THEN where ELSE task[q]
        /\ spawned[q]' = IF q = r THEN n ELSE spawned[q]
        /\ queued[q]' = IF q = r THEN n ELSE queued[q]
        /\ UNCHANGED <<sent[q], succeeded[q], failed[q], sending[q], drained[q]>>
    BY <1>3 DEF Enter, TypeOK
  <2>2. CASE q # r
    BY <1>3, <1>b, <2>1, <2>2
  <2>3. CASE q = r
    <3>1. Known(q) = 0 /\ spawned[q] = 0 /\ sent[q] <= Accounted(q)
      BY <1>0, <1>3, <2>3 DEF AccountingAt
    <3>4. /\ succeeded[q] + failed[q] + queued[q] + sending[q] = 0
          /\ sent[q] <= succeeded[q] + failed[q]
      BY <3>1 DEF Known, Accounted
    <3>2. /\ sent[q] = 0 /\ succeeded[q] = 0 /\ failed[q] = 0 /\ sending[q] = 0
      BY <1>a, <3>4, SumZero
    <3>3. /\ spawned[q]' = n /\ queued[q]' = n /\ task[q]' = where /\ ~drained[q]'
          /\ sent[q]' = 0 /\ succeeded[q]' = 0 /\ failed[q]' = 0 /\ sending[q]' = 0
          /\ state[q]' = "running"
      BY <1>3, <2>1, <2>3, <3>2
    <3>5. n \in {0, 1} /\ (where = "lookup" => n = 0)
      OBVIOUS
    <3> QED BY <1>3, <1>a, <3>3, <3>5 DEF AccountingAt, Accounted, Known
  <2> QED BY <2>2, <2>3
<1>4. ASSUME NEW r \in Run, TryStart(r)
      PROVE  AccountingAt(q)'
  <2>1. FirstStop(r) \in {"lookup", "spawning"}
    BY DEF FirstStop
  <2>2. /\ task[r] = "bootstrapping"
        /\ Enter(r, FirstStop(r))
        /\ UNCHANGED <<sent, succeeded, failed, drained>>
        /\ state[r]' = "running"
        /\ q # r => UNCHANGED state[q]
    BY <1>4 DEF TryStart, counterVars, TypeOK
  <2>3. ~drained[r]
    BY <1>0, <2>2 DEF FlagsAt
  <2> QED BY <1>3, <2>1, <2>2, <2>3
<1>5. ASSUME NEW r \in Run, LookupFound(r)
      PROVE  AccountingAt(q)'
  <2>1. /\ task[r] = "lookup"
        /\ Enter(r, "spawning")
        /\ UNCHANGED <<sent, succeeded, failed, drained, state>>
    BY <1>5 DEF LookupFound, counterVars
  <2>2. ~drained[r] /\ state[r] = "running"
    BY <1>0, <2>1 DEF FlagsAt, LifecycleAt, TaskLive
  <2> QED BY <1>3, <2>1, <2>2
<1>6. ASSUME NEW r \in Run, LookupEmpty(r)
      PROVE  AccountingAt(q)'
  <2>1. /\ task[r] = "lookup"
        /\ failed[q]' = IF q = r THEN failed[q] + Count ELSE failed[q]
        /\ task[q]' = IF q = r THEN "done" ELSE task[q]
        /\ state[q]' = IF q = r THEN "succeeded" ELSE state[q]
        /\ UNCHANGED <<sent[q], succeeded[q], spawned[q], queued[q], sending[q], drained[q]>>
    BY <1>6, <1>0 DEF LookupEmpty, MarkFailure, Counted, Finalize, Running, LifecycleAt, TaskLive, registryVars, counterVars, fireVars, TypeOK
  <2>2. CASE q # r
    BY <1>b, <2>1, <2>2
  <2>3. CASE q = r
    <3>1. Known(q) = 0 /\ spawned[q] = 0 /\ sent[q] <= Accounted(q)
      BY <1>0, <2>1, <2>3 DEF AccountingAt
    <3>4. /\ succeeded[q] + failed[q] + queued[q] + sending[q] = 0
          /\ sent[q] <= succeeded[q] + failed[q]
      BY <3>1 DEF Known, Accounted
    <3>2. /\ sent[q] = 0 /\ succeeded[q] = 0 /\ failed[q] = 0
          /\ queued[q] = 0 /\ sending[q] = 0
      BY <1>a, <3>4, SumZero
    <3>3. /\ sent[q]' = 0 /\ succeeded[q]' = 0 /\ failed[q]' = Count
          /\ queued[q]' = 0 /\ sending[q]' = 0 /\ spawned[q]' = 0
          /\ task[q]' = "done"
      BY <1>a, <2>1, <2>3, <3>1, <3>2
    <3> QED BY <1>a, <3>3 DEF AccountingAt, Accounted, Known
  <2> QED BY <2>2, <2>3
<1>7. ASSUME NEW r \in Run, LookupRaises(r)
      PROVE  AccountingAt(q)'
  <2>1. /\ task[r] = "lookup"
        /\ task[q]' = IF q = r THEN "done" ELSE task[q]
        /\ state[q]' = IF q = r THEN "failed" ELSE state[q]
        /\ UNCHANGED <<sent[q], succeeded[q], failed[q], spawned[q], queued[q], sending[q], drained[q]>>
    BY <1>7, <1>0 DEF LookupRaises, Finalize, Running, LifecycleAt, TaskLive, registryVars, counterVars, fireVars, TypeOK
  <2> QED BY <1>0, <1>a, <2>1 DEF AccountingAt, Accounted, Known, TaskLive, Terminal
<1>8. ASSUME NEW r \in Run, SpawnNext(r)
      PROVE  AccountingAt(q)'
  <2>1. /\ task[r] = "spawning" /\ ~drained[r] /\ spawned[r] < Count
        /\ spawned[q]' = IF q = r THEN spawned[q] + 1 ELSE spawned[q]
        /\ queued[q]' = IF q = r THEN queued[q] + 1 ELSE queued[q]
        /\ UNCHANGED <<sent[q], succeeded[q], failed[q], sending[q], task[q], drained[q], state[q]>>
    BY <1>8, <1>0 DEF SpawnNext, FlagsAt, registryVars, counterVars, fireVars, TypeOK
  <2> QED BY <1>0, <1>a, <2>1 DEF AccountingAt, Accounted, Known, TaskLive, Terminal
<1>9. ASSUME NEW r \in Run, Gather(r)
      PROVE  AccountingAt(q)'
  <2>1. /\ task[r] = "spawning" /\ ~drained[r] /\ spawned[r] >= Count
        /\ task[q]' = IF q = r THEN "gathering" ELSE task[q]
        /\ UNCHANGED <<sent[q], succeeded[q], failed[q], spawned[q], queued[q], sending[q], drained[q], state[q]>>
    BY <1>9, <1>0 DEF Gather, FlagsAt, registryVars, counterVars, fireVars, TypeOK
  <2> QED BY <1>0, <1>a, <2>1 DEF AccountingAt, Accounted, Known, TaskLive, Terminal
<1>10. ASSUME NEW r \in Run, GatherDone(r)
       PROVE  AccountingAt(q)'
  <2>1. /\ task[r] = "gathering" /\ ~drained[r] /\ queued[r] = 0 /\ sending[r] = 0
        /\ task[q]' = IF q = r THEN "done" ELSE task[q]
        /\ state[q]' = IF q = r THEN "succeeded" ELSE state[q]
        /\ UNCHANGED <<sent[q], succeeded[q], failed[q], spawned[q], queued[q], sending[q], drained[q]>>
    BY <1>10, <1>0 DEF GatherDone, Quiet, Finalize, Running, FlagsAt, LifecycleAt, TaskLive, registryVars, counterVars, fireVars, TypeOK
  <2> QED BY <1>0, <1>a, <2>1 DEF AccountingAt, Accounted, Known, TaskLive, Terminal
<1>11. ASSUME NEW r \in Run, CancelRequests(r)
       PROVE  AccountingAt(q)'
  <2>1. /\ task[r] = "spawning"
        /\ task[q]' = IF q = r THEN "draining" ELSE task[q]
        /\ drained[q]' = IF q = r THEN TRUE ELSE drained[q]
        /\ UNCHANGED <<sent[q], succeeded[q], failed[q], spawned[q], queued[q], sending[q], state[q]>>
    BY <1>11, <1>0 DEF CancelRequests, registryVars, counterVars, fireVars, TypeOK
  <2> QED BY <1>0, <1>a, <2>1 DEF AccountingAt, Accounted, Known, TaskLive, Terminal
<1>12. ASSUME NEW r \in Run, Cancelled(r)
       PROVE  AccountingAt(q)'
  <2>1. /\ task[q]' = IF q = r THEN "done" ELSE task[q]
        /\ state[q]' = IF q = r THEN "cancelled" ELSE state[q]
        /\ UNCHANGED <<sent[q], succeeded[q], failed[q], spawned[q], queued[q], sending[q], drained[q]>>
    BY <1>12, <1>0 DEF Cancelled, Finalize, Running, LifecycleAt, TaskLive, registryVars, counterVars, fireVars, TypeOK
  <2> QED BY <1>0, <1>a, <2>1 DEF AccountingAt, Accounted, Known, TaskLive, Terminal
<1>13. ASSUME NEW r \in Run, Fire(r)
       PROVE  AccountingAt(q)'
  <2>1. /\ queued[r] > 0
        /\ queued[q]' = IF q = r THEN queued[q] - 1 ELSE queued[q]
        /\ sending[q]' = IF q = r THEN sending[q] + 1 ELSE sending[q]
        /\ UNCHANGED <<sent[q], succeeded[q], failed[q], spawned[q], task[q], drained[q], state[q]>>
    BY <1>13, <1>0 DEF Fire, registryVars, counterVars, fireVars, TypeOK
  <2> QED BY <1>0, <1>a, <2>1 DEF AccountingAt, Accounted, Known, TaskLive, Terminal
<1>14. ASSUME NEW r \in Run, Answered(r, TRUE)
       PROVE  AccountingAt(q)'
  <2>1. /\ sending[r] > 0 /\ task[r] \in {"spawning", "gathering", "draining"}
        /\ sending[q]' = IF q = r THEN sending[q] - 1 ELSE sending[q]
        /\ sent[q]' = IF q = r THEN sent[q] + 1 ELSE sent[q]
        /\ succeeded[q]' = IF q = r THEN succeeded[q] + 1 ELSE succeeded[q]
        /\ UNCHANGED <<failed[q], spawned[q], queued[q], task[q], drained[q], state[q]>>
    BY <1>14, <1>0 DEF Answered, EndSend, MarkSent, Counted, Running, LifecycleAt, Quiet, TaskLive, registryVars, counterVars, fireVars, TypeOK
  <2> QED BY <1>0, <1>a, <2>1 DEF AccountingAt, Accounted, Known, TaskLive, Terminal
<1>15. ASSUME NEW r \in Run, Answered(r, FALSE)
       PROVE  AccountingAt(q)'
  <2>1. /\ sending[r] > 0 /\ task[r] \in {"spawning", "gathering", "draining"}
        /\ sending[q]' = IF q = r THEN sending[q] - 1 ELSE sending[q]
        /\ sent[q]' = IF q = r THEN sent[q] + 1 ELSE sent[q]
        /\ failed[q]' = IF q = r THEN failed[q] + 1 ELSE failed[q]
        /\ UNCHANGED <<succeeded[q], spawned[q], queued[q], task[q], drained[q], state[q]>>
    BY <1>15, <1>0 DEF Answered, EndSend, MarkSent, Counted, Running, LifecycleAt, Quiet, TaskLive, registryVars, counterVars, fireVars, TypeOK
  <2> QED BY <1>0, <1>a, <2>1 DEF AccountingAt, Accounted, Known, TaskLive, Terminal
<1>16. ASSUME NEW r \in Run, TransportError(r)
       PROVE  AccountingAt(q)'
  <2>1. /\ sending[r] > 0 /\ task[r] \in {"spawning", "gathering", "draining"}
        /\ sending[q]' = IF q = r THEN sending[q] - 1 ELSE sending[q]
        /\ failed[q]' = IF q = r THEN failed[q] + 1 ELSE failed[q]
        /\ UNCHANGED <<sent[q], succeeded[q], spawned[q], queued[q], task[q], drained[q], state[q]>>
    BY <1>16, <1>0 DEF TransportError, EndSend, MarkFailure, Counted, Running, LifecycleAt, Quiet, TaskLive, registryVars, counterVars, fireVars, TypeOK
  <2> QED BY <1>0, <1>a, <2>1 DEF AccountingAt, Accounted, Known, TaskLive, Terminal
<1>17. ASSUME NEW r \in Run, SendCancelled(r)
       PROVE  AccountingAt(q)'
  <2>1. /\ drained[r] /\ sending[r] > 0 /\ task[r] \in {"spawning", "gathering", "draining"}
        /\ sending[q]' = IF q = r THEN sending[q] - 1 ELSE sending[q]
        /\ UNCHANGED <<sent[q], succeeded[q], failed[q], spawned[q], queued[q], task[q], drained[q], state[q]>>
    BY <1>17, <1>0 DEF SendCancelled, EndSend, LifecycleAt, Quiet, registryVars, counterVars, fireVars, TypeOK
  <2> QED BY <1>0, <1>a, <2>1 DEF AccountingAt, Accounted, Known, TaskLive, Terminal
<1>18. ASSUME NEW r \in Run, QueuedCancelled(r)
       PROVE  AccountingAt(q)'
  <2>1. /\ drained[r] /\ queued[r] > 0
        /\ task[r] \in {"spawning", "gathering", "draining"}
        /\ queued[q]' = IF q = r THEN queued[q] - 1 ELSE queued[q]
        /\ UNCHANGED <<sent[q], succeeded[q], failed[q], spawned[q], sending[q], task[q], drained[q], state[q]>>
    BY <1>18, <1>0 DEF QueuedCancelled, LifecycleAt, Quiet, registryVars, counterVars, fireVars, TypeOK
  <2> QED BY <1>0, <1>a, <2>1 DEF AccountingAt, Accounted, Known, TaskLive, Terminal
<1>19. ASSUME NEW R, CancelTasks(R)
       PROVE  AccountingAt(q)'
  <2>1. /\ drained[q] => drained[q]'
        /\ UNCHANGED <<sent[q], succeeded[q], failed[q], spawned[q], queued[q], sending[q], task[q], state[q]>>
    BY <1>19 DEF CancelTasks, counterVars, fireVars, TypeOK
  <2> QED BY <1>0, <1>a, <2>1 DEF AccountingAt, Accounted, Known
<1>20. CASE LoopClosed
  BY <1>20, <1>b DEF LoopClosed, counterVars, fireVars
<1>21. CASE UNCHANGED vars
  BY <1>21, <1>b DEF vars
<1>22. ASSUME NEW r \in Run, NEW ok \in BOOLEAN, Answered(r, ok)
       PROVE  AccountingAt(q)'
  BY <1>14, <1>15, <1>22
<1> QED
  BY <1>1, <1>2, <1>4, <1>5, <1>6, <1>7, <1>8, <1>9, <1>10, <1>11, <1>12, <1>13,
     <1>16, <1>17, <1>18, <1>19, <1>20, <1>21, <1>22, Steps

\* A cancellation travels from the run to its requests, and never to a run
\* that has ended otherwise.
LEMMA FlagsStep ==
  ASSUME TypeOK, RegistryConsistent, Lifecycle, Flags, [Next]_vars
  PROVE  Flags'
<1> SUFFICES ASSUME NEW q \in Run
             PROVE  FlagsAt(q)'
  BY DEF Flags
<1> USE DEF TypeOK, FlagsAt, TaskLive, Terminal, registryVars, counterVars, fireVars
<1>0. FlagsAt(q) /\ LifecycleAt(q)
  BY DEF Lifecycle, Flags
<1>1. ASSUME NEW r \in Run, NEW s \in Scenario, StartRun(r, s)
      PROVE  FlagsAt(q)'
  BY <1>0, <1>1 DEF StartRun
<1>2. ASSUME NEW r \in Run, DropRequest(r)
      PROVE  FlagsAt(q)'
  BY <1>0, <1>2 DEF DropRequest
<1>3. ASSUME NEW r \in Run, TryStart(r)
      PROVE  FlagsAt(q)'
  BY <1>0, <1>3 DEF TryStart, Enter, FirstStop, LifecycleAt
<1>4. ASSUME NEW r \in Run, LookupFound(r)
      PROVE  FlagsAt(q)'
  BY <1>0, <1>4 DEF LookupFound, Enter
<1>5. ASSUME NEW r \in Run, NEW outcome \in {"succeeded", "failed"},
             ~cancelling[r], Finalize(r, outcome), UNCHANGED <<cancelling, drained>>
      PROVE  FlagsAt(q)'
  BY <1>0, <1>5 DEF Finalize
<1>6. ASSUME NEW r \in Run, LookupEmpty(r) \/ LookupRaises(r) \/ GatherDone(r)
      PROVE  FlagsAt(q)'
  BY <1>5, <1>6 DEF LookupEmpty, LookupRaises, GatherDone
<1>7. ASSUME NEW r \in Run, SpawnNext(r)
      PROVE  FlagsAt(q)'
  BY <1>0, <1>7 DEF SpawnNext
<1>8. ASSUME NEW r \in Run, Gather(r)
      PROVE  FlagsAt(q)'
  BY <1>0, <1>8 DEF Gather
<1>9. ASSUME NEW r \in Run, CancelRequests(r)
      PROVE  FlagsAt(q)'
  BY <1>0, <1>9 DEF CancelRequests
<1>10. ASSUME NEW r \in Run, Cancelled(r)
       PROVE  FlagsAt(q)'
  BY <1>0, <1>10 DEF Cancelled, Finalize, Running
<1>11. ASSUME NEW r \in Run, Fire(r)
       PROVE  FlagsAt(q)'
  BY <1>0, <1>11 DEF Fire
<1>12. ASSUME NEW r \in Run, EndSend(r)
       PROVE  FlagsAt(q)'
  BY <1>0, <1>12 DEF EndSend
<1>13. ASSUME NEW r \in Run, QueuedCancelled(r)
       PROVE  FlagsAt(q)'
  BY <1>0, <1>13 DEF QueuedCancelled
<1>14. ASSUME NEW R \in SUBSET RunningSet, CancelTasks(R)
       PROVE  FlagsAt(q)'
  BY <1>0, <1>14 DEF CancelTasks, RunningSet, LifecycleAt
<1>15. CASE LoopClosed
  BY <1>0, <1>15 DEF LoopClosed
<1>16. CASE UNCHANGED vars
  BY <1>0, <1>16 DEF vars
<1> HIDE DEF TypeOK, FlagsAt, TaskLive, Terminal, registryVars, counterVars, fireVars
<1> QED
  BY <1>1, <1>2, <1>3, <1>4, <1>6, <1>7, <1>8, <1>9, <1>10, <1>11, <1>12, <1>13,
     <1>14, <1>15, <1>16, Steps
  DEF Answered, TransportError, SendCancelled

\* try_start takes a slot only when one is free; nothing else takes one.
LEMMA SlotsStep ==
  ASSUME TypeOK, RegistryConsistent, Lifecycle, Slots, [Next]_vars
  PROVE  Slots'
<1>0. IsFiniteSet(RunningSet) /\ Cardinality(RunningSet) \in Nat
  BY RunningCount
<1>1. ASSUME RunningSet' \subseteq RunningSet,
             \A q \in RunningSet : UNCHANGED scenario[q]
      PROVE  Slots'
  <2>1. Cardinality(RunningSet') <= Cardinality(RunningSet)
        /\ Cardinality(RunningSet') \in Nat
    BY <1>0, <1>1, FS_Subset, FS_CardinalityType
  <2>2. Cardinality(RunningSet') <= MaxConcurrent
    BY <1>0, <2>1, ConstantsAssumption DEF Slots
  <2> QED BY <1>1, <2>2 DEF Slots
<1>2. ASSUME NEW r \in Run, TryStart(r)
      PROVE  Slots'
  <2>1. /\ RunningSet' = RunningSet \cup {r}
        /\ r \notin RunningSet
        /\ UNCHANGED scenario
    BY <1>2 DEF TryStart, RunningSet, Lifecycle, LifecycleAt, TypeOK
  <2>2. /\ ~(Cardinality(RunningRecords) >= MaxConcurrent)
        /\ \A q \in RunningSet : scenario[q] # scenario[r]
    BY <1>2, RunningCount, ConstantsAssumption DEF TryStart, MayStart, CapReached, ScenarioBusy
  <2>3. Cardinality(RunningSet) < MaxConcurrent
    BY <1>0, <2>2, RunningCount, ConstantsAssumption
  <2>4. Cardinality(RunningSet') = Cardinality(RunningSet) + 1
    BY <1>0, <2>1, FS_AddElement
  <2>5. Cardinality(RunningSet') <= MaxConcurrent
    BY <1>0, <2>3, <2>4, ConstantsAssumption
  <2>6. \A p, q \in RunningSet' : scenario[p]' = scenario[q]' => p = q
    BY <2>1, <2>2 DEF Slots
  <2> QED BY <2>5, <2>6 DEF Slots
<1>3. ASSUME NEW r \in Run, NEW outcome \in Terminal, Finalize(r, outcome),
             UNCHANGED scenario
      PROVE  Slots'
  <2>1. RunningSet' \subseteq RunningSet
    BY <1>3 DEF Finalize, RunningSet, TypeOK, Terminal
  <2> QED BY <1>1, <1>3, <2>1
<1>4. ASSUME UNCHANGED state, \A q \in RunningSet : UNCHANGED scenario[q]
      PROVE  Slots'
  <2>1. RunningSet' = RunningSet
    BY <1>4 DEF RunningSet
  <2> QED BY <1>1, <1>4, <2>1
<1>5. ASSUME NEW r \in Run, \/ \E s \in Scenario : StartRun(r, s)
                            \/ DropRequest(r)
      PROVE  Slots'
  <2>1. r \notin RunningSet
    BY <1>5 DEF StartRun, DropRequest, RunningSet, Lifecycle, LifecycleAt, TaskLive
  <2>2. UNCHANGED state /\ \A q \in RunningSet : UNCHANGED scenario[q]
    BY <1>5, <2>1 DEF StartRun, DropRequest, RunningSet, TypeOK
  <2> QED BY <1>4, <2>2
<1>6. ASSUME NEW r \in Run,
             LookupEmpty(r) \/ LookupRaises(r) \/ GatherDone(r) \/ Cancelled(r)
      PROVE  Slots'
  BY <1>3, <1>6 DEF LookupEmpty, LookupRaises, GatherDone, Cancelled, Terminal
<1>7. ASSUME UNCHANGED <<state, scenario>>
      PROVE  Slots'
  BY <1>4, <1>7
<1> QED
  BY <1>2, <1>5, <1>6, <1>7, Steps
  DEF LookupFound, SpawnNext, Gather, CancelRequests, Fire, Answered,
      TransportError, SendCancelled, QueuedCancelled, EndSend, CancelTasks,
      LoopClosed, vars

-----------------------------------------------------------------------------
(* The theorems *)

\* The empty registry satisfies the invariant.
LEMMA InitIInv == Init => IInv
<1> SUFFICES ASSUME Init PROVE IInv
  OBVIOUS
<1> USE ConstantsAssumption DEF Init, None
<1>1. TypeOK
  BY DEF TypeOK
<1>2. RegistryConsistent
  BY DEF RegistryConsistent
<1>3. Lifecycle
  BY DEF Lifecycle, LifecycleAt, Quiet, TaskLive
<1>4. Accounting
  BY DEF Accounting, AccountingAt, Accounted, Known
<1>5. Flags
  BY DEF Flags, FlagsAt
<1>6. Slots
  <2>1. RunningSet = {}
    BY DEF RunningSet
  <2> QED BY <2>1, FS_EmptySet DEF Slots
<1> QED BY <1>1, <1>2, <1>3, <1>4, <1>5, <1>6 DEF IInv

\* The strengthened invariant holds in every reachable state.
THEOREM Invariance == Spec => []IInv
<1>1. IInv /\ [Next]_vars => IInv'
  BY TypeStep, RegistryStep, LifecycleStep, AccountingStep, FlagsStep, SlotsStep
  DEF IInv
<1> QED BY <1>1, InitIInv, PTL DEF Spec

\* Every variable keeps its type.
THEOREM TypeCorrect == Spec => []TypeOK
<1>1. IInv => TypeOK
  BY DEF IInv
<1> QED BY <1>1, Invariance, PTL

\* The deque and the index never disagree, whatever is evicted when.
THEOREM RegistryStaysConsistent == Spec => []RegistryConsistent
<1>1. IInv => RegistryConsistent
  BY DEF IInv
<1> QED BY <1>1, Invariance, PTL

\* No run that can still send is ever evicted or shown as finished.
THEOREM NoActiveRunIsLost == Spec => []ActiveRunsAreListed
<1>1. IInv => ActiveRunsAreListed
  BY DEF IInv, ActiveRunsAreListed, Active, Lifecycle, LifecycleAt, TaskLive
<1> QED BY <1>1, Invariance, PTL

\* runs.py:6, 153-161: whatever is evicted, started or answered when, the deque
\* and the index agree and hold every run that can send.
THEOREM NoRunIsEverLost == Spec => []NoRunIsLost
<1> QED BY RegistryStaysConsistent, NoActiveRunIsLost, PTL DEF NoRunIsLost

\* The cap bounds the runs that can send, not only the records that say so.
THEOREM TrafficStaysCapped == Spec => []TrafficCapped
<1>1. IInv => TrafficCapped
  <2> SUFFICES ASSUME IInv PROVE TrafficCapped
    OBVIOUS
  <2>1. ActiveRuns \in SUBSET RunningSet
    BY DEF IInv, ActiveRuns, Active, RunningSet, Lifecycle, LifecycleAt, TaskLive
  <2>2. /\ IsFiniteSet(RunningSet) /\ Cardinality(RunningSet) \in Nat
        /\ Cardinality(RunningSet) <= MaxConcurrent
    BY RunningCount DEF IInv, Slots
  <2>3. Cardinality(ActiveRuns) <= Cardinality(RunningSet)
        /\ Cardinality(ActiveRuns) \in Nat
    BY <2>1, <2>2, FS_Subset, FS_CardinalityType
  <2> QED BY <2>2, <2>3, ConstantsAssumption DEF TrafficCapped
<1> QED BY <1>1, Invariance, PTL

\* Two runs never drive one scenario at the same time.
THEOREM ScenariosStayExclusive == Spec => []OneRunPerScenario
<1>1. IInv => OneRunPerScenario
  BY DEF IInv, OneRunPerScenario, ActiveRuns, Active, Slots, RunningSet,
         Lifecycle, LifecycleAt, TaskLive
<1> QED BY <1>1, Invariance, PTL

\* runs.py:143-148: both limits of try_start, for the runs that send.
THEOREM SlotsStayKept == Spec => []SlotsAreKept
<1> QED BY TrafficStaysCapped, ScenariosStayExclusive, PTL DEF SlotsAreKept

\* Each request of a run is counted at most once, and all of them when the run
\* ends as succeeded.
THEOREM CountersStayExact == Spec => []CountersAddUp
<1>1. IInv => CountersAddUp
  BY DEF IInv, CountersAddUp, Accounting, AccountingAt, Accounted, Known
<1> QED BY <1>1, Invariance, PTL

\* How a run ended tells whether its cancel was accepted in time.
THEOREM CancelAlwaysDecides == Spec => []CancelDecides
<1>1. IInv => CancelDecides
  BY DEF IInv, CancelDecides, Flags, FlagsAt, Terminal
<1> QED BY <1>1, Invariance, PTL

\* No step touches the state, the counters or the scenario of a run that ended.
THEOREM FinishedStaysFrozen == Spec => FinishedIsFrozen
<1> DEFINE Result(r) == <<state[r], sent[r], succeeded[r], failed[r], scenario[r]>>
<1>1. ASSUME IInv, [Next]_vars, NEW q \in Run, state[q] \in Terminal
      PROVE  UNCHANGED Result(q)
  <2>0. /\ task[q] \notin {"idle", "bootstrapping"} \cup TaskLive
        /\ queued[q] = 0 /\ sending[q] = 0
    BY <1>1 DEF IInv, Lifecycle, LifecycleAt, Terminal, TaskLive, Quiet
  <2> USE <2>0 DEF TypeOK, TaskLive, counterVars
  <2>t. TypeOK
    BY <1>1 DEF IInv
  <2>1. ASSUME NEW r \in Run, \/ \E s \in Scenario : StartRun(r, s)
                              \/ DropRequest(r)
        PROVE  UNCHANGED Result(q)
    BY <2>1, <2>t DEF StartRun, DropRequest
  <2>2. ASSUME NEW r \in Run, TryStart(r)
        PROVE  UNCHANGED Result(q)
    BY <2>2, <2>t DEF TryStart
  <2>3. ASSUME NEW r \in Run, NEW outcome, r # q, Finalize(r, outcome), UNCHANGED scenario,
               UNCHANGED counterVars \/ MarkFailure(r, Count)
        PROVE  UNCHANGED Result(q)
    BY <2>3, <2>t DEF Finalize, MarkFailure
  <2>4. ASSUME NEW r \in Run,
               LookupEmpty(r) \/ LookupRaises(r) \/ GatherDone(r) \/ Cancelled(r)
        PROVE  UNCHANGED Result(q)
    <3>1. r # q
      BY <2>4 DEF LookupEmpty, LookupRaises, GatherDone, Cancelled
    <3> QED BY <2>3, <2>4, <3>1 DEF LookupEmpty, LookupRaises, GatherDone, Cancelled
  <2>5. ASSUME NEW r \in Run, NEW ok \in BOOLEAN, Answered(r, ok)
        PROVE  UNCHANGED Result(q)
    <3>1. r # q
      BY <2>5 DEF Answered, EndSend
    <3> QED BY <2>5, <3>1, <2>t DEF Answered, EndSend, MarkSent
  <2>6. ASSUME NEW r \in Run, TransportError(r)
        PROVE  UNCHANGED Result(q)
    <3>1. r # q
      BY <2>6 DEF TransportError, EndSend
    <3> QED BY <2>6, <3>1, <2>t DEF TransportError, EndSend, MarkFailure
  <2>7. ASSUME UNCHANGED <<state, sent, succeeded, failed, scenario>>
        PROVE  UNCHANGED Result(q)
    BY <2>7
  <2>8. TypeOK /\ RegistryConsistent /\ Lifecycle
    BY <1>1 DEF IInv
  <2> HIDE <2>0 DEF TypeOK, TaskLive, counterVars
  <2> HIDE DEF Result
  <2> QED
    BY <1>1, <2>1, <2>2, <2>4, <2>5, <2>6, <2>7, <2>8, Steps
    DEF LookupFound, SpawnNext, Gather, CancelRequests, Fire, SendCancelled,
        QueuedCancelled, EndSend, CancelTasks, LoopClosed, vars, counterVars
<1>2. IInv /\ [Next]_vars =>
        [\A r \in Run : state[r] \in Terminal => Result(r)' = Result(r)]_vars
  BY <1>1
<1> QED BY <1>2, Invariance, PTL DEF Spec, FinishedIsFrozen

-----------------------------------------------------------------------------
(* The registry and its tasks implement RunPromise *)

Tally == [r \in Run |-> succeeded[r] + failed[r]]

\* What each step of the detailed specification is to the operator: a step of
\* RunPromise, or nothing at all.
LEMMA PromiseStep ==
  ASSUME IInv, [Next]_vars
  PROVE  [Promise!Next]_(Promise!vars)
<1>0. TypeOK /\ RegistryConsistent /\ Lifecycle /\ Accounting /\ Slots
  BY DEF IInv
<1>l. Promise!Live = RunningSet
  BY DEF Promise!Live, RunningSet
<1>c. \A S : Promise!Cardinality(S) = Cardinality(S)
  BY DEF Promise!Cardinality, Cardinality
<1>t. Tally = [r \in Run |-> succeeded[r] + failed[r]]
  BY DEF Tally
<1>u. ASSUME UNCHANGED <<state, scenario, succeeded, failed, cancelling>>
      PROVE  UNCHANGED Promise!vars
  BY <1>u DEF Promise!vars
<1>s. ASSUME NEW r \in Run, NEW n,
             succeeded[r]' + failed[r]' = n,
             \A q \in Run \ {r} : UNCHANGED <<succeeded[q], failed[q]>>
      PROVE  Tally' = [Tally EXCEPT ![r] = n]
  BY <1>s DEF Tally
<1>p. ASSUME NEW r \in Run,
             \/ /\ succeeded' = [succeeded EXCEPT ![r] = @ + 1]
                /\ UNCHANGED failed
             \/ /\ failed' = [failed EXCEPT ![r] = @ + 1]
                /\ UNCHANGED succeeded
      PROVE  Tally' = [Tally EXCEPT ![r] = @ + 1]
  <2>1. succeeded[r]' + failed[r]' = Tally[r] + 1
    BY <1>0, <1>p DEF Tally, TypeOK
  <2>2. \A q \in Run \ {r} : UNCHANGED <<succeeded[q], failed[q]>>
    BY <1>0, <1>p DEF TypeOK
  <2> QED BY <1>s, <2>1, <2>2
<1>1. ASSUME NEW r \in Run,
             \/ \E s \in Scenario : StartRun(r, s)
             \/ DropRequest(r)
      PROVE  Promise!Next
  <2>1. state[r] = "none"
    BY <1>0, <1>1 DEF StartRun, DropRequest, Lifecycle, LifecycleAt, TaskLive
  <2>2. \E s \in Scenario \cup {None} : scenario' = [scenario EXCEPT ![r] = s]
    BY <1>1 DEF StartRun, DropRequest
  <2>3. UNCHANGED <<state, succeeded, failed, cancelling>>
    BY <1>1 DEF StartRun, DropRequest, counterVars
  <2>4. \E s \in Scenario \cup {None} : Promise!Prepare(r, s)
    BY <2>1, <2>2, <2>3 DEF Promise!Prepare
  <2> QED BY <2>4 DEF Promise!Next
<1>2. ASSUME NEW r \in Run, TryStart(r)
      PROVE  Promise!Next
  <2>1. state[r] = "none" /\ scenario[r] # None
    BY <1>0, <1>2, ConstantsAssumption
    DEF TryStart, Lifecycle, LifecycleAt, TaskLive, None
  <2>2. /\ ~(Cardinality(RunningRecords) >= MaxConcurrent)
        /\ \A q \in RunningSet : scenario[q] # scenario[r]
    BY <1>0, <1>2, RunningCount, ConstantsAssumption
    DEF TryStart, MayStart, CapReached, ScenarioBusy
  <2>3. Cardinality(RunningSet) < MaxConcurrent
    BY <1>0, <2>2, RunningCount, ConstantsAssumption
  <2>4. /\ state' = [state EXCEPT ![r] = "running"]
        /\ UNCHANGED <<scenario, succeeded, failed, cancelling>>
    BY <1>2 DEF TryStart, counterVars
  <2>5. Promise!Start(r)
    BY <1>c, <1>l, <2>1, <2>2, <2>3, <2>4 DEF Promise!Start
  <2> QED BY <2>5 DEF Promise!Next
<1>3. ASSUME NEW r \in Run, LookupEmpty(r)
      PROVE  Promise!Next
  <2>1. /\ state[r] = "running" /\ Running(r)
        /\ succeeded[r] = 0 /\ failed[r] = 0
    <3>1. AccountingAt(r) /\ LifecycleAt(r)
      BY <1>0 DEF Accounting, Lifecycle
    <3>2. state[r] = "running" /\ r \in byId
      BY <1>3, <3>1 DEF LookupEmpty, LifecycleAt, TaskLive
    <3>3. Known(r) = 0
      BY <1>3, <3>1 DEF LookupEmpty, AccountingAt
    <3> QED
      BY <1>0, <3>1, <3>2, <3>3, SumZero
      DEF Known, Accounted, AccountingAt, Running, TypeOK
  <2>2. /\ state' = [state EXCEPT ![r] = "succeeded"]
        /\ UNCHANGED <<scenario, cancelling>>
        /\ ~cancelling[r]
    BY <1>0, <1>3, <2>1 DEF LookupEmpty, Finalize, TypeOK
  <2>3. /\ failed' = [failed EXCEPT ![r] = Count]
        /\ UNCHANGED succeeded
    BY <1>0, <1>3, <2>1, ConstantsAssumption DEF LookupEmpty, MarkFailure, Counted, TypeOK
  <2>4. Tally' = [Tally EXCEPT ![r] = Count]
    <3>1. succeeded[r]' + failed[r]' = Count
      BY <1>0, <2>1, <2>3, ConstantsAssumption DEF TypeOK
    <3>2. \A q \in Run \ {r} : UNCHANGED <<succeeded[q], failed[q]>>
      BY <1>0, <2>3 DEF TypeOK
    <3> QED BY <1>s, <3>1, <3>2
  <2>5. Promise!End(r)
    BY <1>t, <2>1, <2>2, <2>4 DEF Promise!End, Tally
  <2> QED BY <2>5 DEF Promise!Next
<1>4. ASSUME NEW r \in Run, LookupRaises(r)
      PROVE  Promise!Next
  <2>1. state[r] = "running" /\ Running(r)
    BY <1>0, <1>4 DEF LookupRaises, Lifecycle, LifecycleAt, TaskLive, Running
  <2>2. /\ state' = [state EXCEPT ![r] = "failed"]
        /\ UNCHANGED <<scenario, succeeded, failed, cancelling>>
        /\ ~cancelling[r]
    BY <1>0, <1>4, <2>1 DEF LookupRaises, Finalize, TypeOK, counterVars
  <2>3. Promise!End(r)
    BY <2>1, <2>2 DEF Promise!End
  <2> QED BY <2>3 DEF Promise!Next
<1>5. ASSUME NEW r \in Run, GatherDone(r)
      PROVE  Promise!Next
  <2>1. state[r] = "running" /\ Running(r)
    BY <1>0, <1>5 DEF GatherDone, Lifecycle, LifecycleAt, TaskLive, Running
  <2>2. /\ state' = [state EXCEPT ![r] = "succeeded"]
        /\ UNCHANGED <<scenario, succeeded, failed, cancelling>>
        /\ ~cancelling[r]
    BY <1>0, <1>5, <2>1 DEF GatherDone, Finalize, TypeOK, counterVars
  <2>3. AccountingAt(r)' /\ state'[r] = "succeeded"
    BY <1>0, <2>2, AccountingStep DEF IInv, Accounting, TypeOK
  <2>4. Tally[r] = Count /\ Tally' = Tally
    BY <2>2, <2>3 DEF AccountingAt, Accounted, Tally
  <2>5. Tally' = [Tally EXCEPT ![r] = Count]
    BY <2>4 DEF Tally
  <2>6. Promise!End(r)
    BY <1>t, <2>1, <2>2, <2>5 DEF Promise!End, Tally
  <2> QED BY <2>6 DEF Promise!Next
<1>6. ASSUME NEW r \in Run, Cancelled(r)
      PROVE  Promise!Next
  <2>1. state[r] = "running" /\ Running(r)
    BY <1>0, <1>6 DEF Cancelled, Lifecycle, LifecycleAt, TaskLive, Running
  <2>2. /\ state' = [state EXCEPT ![r] = "cancelled"]
        /\ UNCHANGED <<scenario, succeeded, failed, cancelling>>
        /\ cancelling[r]
    BY <1>0, <1>6, <2>1 DEF Cancelled, Finalize, TypeOK, counterVars
  <2>3. Promise!End(r)
    BY <2>1, <2>2 DEF Promise!End
  <2> QED BY <2>3 DEF Promise!Next
<1>7. ASSUME NEW r \in Run, sending[r] > 0, UNCHANGED <<state, scenario, cancelling>>,
             Tally' = [Tally EXCEPT ![r] = @ + 1]
      PROVE  Promise!Next
  <2>1. state[r] = "running"
    BY <1>0, <1>7 DEF Lifecycle, LifecycleAt, Quiet, TaskLive, TypeOK
  <2>2. Tally[r] < Count
    BY <1>0, <1>7, ConstantsAssumption
    DEF Accounting, AccountingAt, Known, Accounted, Tally, TypeOK
  <2>3. Promise!Account(r)
    BY <1>7, <2>1, <2>2 DEF Promise!Account, Tally
  <2> QED BY <2>3 DEF Promise!Next
<1>8. ASSUME NEW r \in Run, sending[r] > 0
      PROVE  Running(r)
  BY <1>0, <1>8 DEF Lifecycle, LifecycleAt, Quiet, TaskLive, Running, TypeOK
<1>9. ASSUME NEW r \in Run, NEW ok \in BOOLEAN, Answered(r, ok)
      PROVE  Promise!Next
  <2>1. sending[r] > 0 /\ UNCHANGED <<state, scenario, cancelling>>
    BY <1>9 DEF Answered, EndSend
  <2>2. CASE ok = TRUE
    <3>1. succeeded' = [succeeded EXCEPT ![r] = @ + 1] /\ UNCHANGED failed
      <4>1. Counted(r, 1) = 1
        BY <1>8, <2>1 DEF Counted
      <4>2. MarkSent(r, TRUE)
        BY <1>9, <2>2 DEF Answered
      <4>3. /\ succeeded' = [succeeded EXCEPT ![r] = @ + 1]
            /\ failed' = [failed EXCEPT ![r] = @ + 0]
        BY <4>1, <4>2 DEF MarkSent
      <4>4. failed' = failed
        <5>1. failed[r] + 0 = failed[r]
          BY <1>0 DEF TypeOK
        <5> QED BY <1>0, <4>3, <5>1 DEF TypeOK
      <4> QED BY <4>3, <4>4
    <3> QED BY <1>7, <1>p, <2>1, <3>1
  <2>3. CASE ok = FALSE
    <3>1. failed' = [failed EXCEPT ![r] = @ + 1] /\ UNCHANGED succeeded
      <4>1. Counted(r, 1) = 1
        BY <1>8, <2>1 DEF Counted
      <4>2. MarkSent(r, FALSE)
        BY <1>9, <2>3 DEF Answered
      <4>3. /\ failed' = [failed EXCEPT ![r] = @ + 1]
            /\ succeeded' = [succeeded EXCEPT ![r] = @ + 0]
        BY <4>1, <4>2 DEF MarkSent
      <4>4. succeeded' = succeeded
        <5>1. succeeded[r] + 0 = succeeded[r]
          BY <1>0 DEF TypeOK
        <5> QED BY <1>0, <4>3, <5>1 DEF TypeOK
      <4> QED BY <4>3, <4>4
    <3> QED BY <1>7, <1>p, <2>1, <3>1
  <2> QED BY <2>2, <2>3
<1>10. ASSUME NEW r \in Run, TransportError(r)
       PROVE  Promise!Next
  <2>1. sending[r] > 0 /\ UNCHANGED <<state, scenario, cancelling>>
    BY <1>10 DEF TransportError, EndSend
  <2>2. failed' = [failed EXCEPT ![r] = @ + 1] /\ UNCHANGED succeeded
    BY <1>0, <1>8, <1>10, <2>1 DEF TransportError, MarkFailure, Counted, TypeOK
  <2> QED BY <1>7, <1>p, <2>1, <2>2
<1>11. ASSUME NEW R \in SUBSET RunningSet, CancelTasks(R)
       PROVE  Promise!Next
  <2>1. R \in SUBSET Run /\ R \subseteq Promise!Live
    BY <1>l DEF RunningSet
  <2>2. Promise!Ask(R)
    BY <1>11, <2>1 DEF CancelTasks, counterVars, Promise!Ask
  <2> QED BY <2>1, <2>2 DEF Promise!Next
<1>12. ASSUME NEW r \in Run, \/ LookupFound(r) \/ SpawnNext(r) \/ Gather(r)
                             \/ CancelRequests(r) \/ Fire(r)
                             \/ SendCancelled(r) \/ QueuedCancelled(r)
       PROVE  UNCHANGED Promise!vars
  BY <1>12, <1>u DEF LookupFound, SpawnNext, Gather, CancelRequests, Fire,
                     SendCancelled, QueuedCancelled, EndSend, counterVars
<1>13. ASSUME LoopClosed \/ UNCHANGED vars
       PROVE  UNCHANGED Promise!vars
  BY <1>13, <1>u DEF LoopClosed, vars, counterVars
<1> QED
  BY <1>0, <1>1, <1>2, <1>3, <1>4, <1>5, <1>6, <1>9, <1>10, <1>11, <1>12, <1>13, Steps

\* The operator's contract: every behaviour of the registry and its tasks is
\* one of RunPromise, with the tally of results as the run's account.
THEOREM Refinement == Spec => PromiseKept
<1>1. Init => Promise!Init
  BY DEF Init, Promise!Init
<1>2. IInv /\ [Next]_vars => [Promise!Next]_(Promise!vars)
  BY PromiseStep
<1> QED BY <1>1, <1>2, Invariance, PTL DEF Spec, PromiseKept, Promise!Spec
=============================================================================
