------------------------ MODULE DashboardLifeProofs ------------------------
(***************************************************************************)
(* Theorems about DashboardLife: what a request may find in app.state,     *)
(* what the statistics claim, and what a shutdown leaves behind, for any   *)
(* size of the collection and any number of starts and faults.             *)
(***************************************************************************)
EXTENDS DashboardLife, TLAPS

-----------------------------------------------------------------------------
(* The inductive invariant *)

\* Store, graph and state are set together, whatever the process does.
Wired ==
  /\ app.emb = "ready" <=> app.store
  /\ app.graph = app.store

\* A watchdog that still probes has not promoted anything: the only coroutine
\* to write the state finds it as StartLoading left it.
ProbingIsBefore ==
  watchdog \in {"sleep", "probe", "probed"} =>
    ~app.store /\ ~app.complete /\ backfill = "none"

\* The flag is set with the state of a dashboard that will have no store, or
\* by a backfill that went through.
CompleteIsEarned ==
  app.complete =>
    \/ ~app.store /\ watchdog = "none" /\ backfill = "none"
    \/ backfill = "done"

\* The handler that holds the loop has read a count that still stands: what
\* the threads add meanwhile only makes the collection larger.
CountStands ==
  loop # "free" => mode = "up" /\ seen <= docs

\* A process that is down has no tasks, and a watcher runs only if the state
\* knows of it: the shutdown stops the one it knows of.
WatcherIsKnown ==
  /\ mode = "down" =>
       watchdog = "none" /\ backfill = "none" /\ observer = "off"
  /\ observer = "on" => app.watcher

\* How far the shutdown is, and what is over by then.
ShutdownOrder ==
  /\ mode = "stopping" <=> stopAt # "nothing"
  /\ mode \in {"stopping", "closed"} =>
       ~WatchdogActive /\ backfill # "running"
  /\ stopAt \in {"scan", "runs"} \/ mode = "closed" => watchdog # "cancelling"
  /\ stopAt = "scan" => scan \in {"none", "cancelling", "ended"}
  /\ stopAt = "runs" \/ mode = "closed" =>
       scan \in {"none", "ended"} /\ observer # "on"

\* A search that awaits its query has found a store, which stays; an answer
\* that says complete is of a process whose backfill is done.
AnswerIsEarned ==
  /\ answer = "complete" => backfill = "done"
  /\ search = "asked" => app.store /\ mode = "up"
  /\ mode = "down" => answer = "none"

IInv ==
  /\ TypeOK
  /\ Wired
  /\ ProbingIsBefore
  /\ CompleteIsEarned
  /\ CountStands
  /\ WatcherIsKnown
  /\ ShutdownOrder
  /\ StatsNeverOverstate
  /\ AnswerIsEarned

LEMMA ConstantTypes ==
  /\ WatcherEnabled \in BOOLEAN /\ ScanEnabled \in BOOLEAN
  /\ MaxDocs \in Nat /\ MaxStarts \in Nat /\ MaxFaults \in Nat
BY ConstantsAssumption

LEMMA NoAppFields ==
  /\ NoApp \in [store : BOOLEAN, graph : BOOLEAN, emb : States,
                complete : BOOLEAN, watcher : BOOLEAN]
  /\ ~NoApp.store /\ ~NoApp.graph /\ NoApp.emb = "unreachable"
  /\ ~NoApp.complete /\ ~NoApp.watcher
BY DEF NoApp, States

LEMMA InitIInv == Init => IInv
<1> SUFFICES ASSUME Init PROVE IInv
  OBVIOUS
<1> USE NoAppFields, ConstantTypes DEF Init
<1>1. ServiceTypes
  <2>1. chroma \in BOOLEAN
    OBVIOUS
  <2>2. ollama \in States /\ docs \in 0..MaxDocs /\ faults \in 0..MaxFaults
    OBVIOUS
  <2> QED BY <2>1, <2>2 DEF ServiceTypes
<1>2. ProcessTypes
  <2>1. indexOpen \in BOOLEAN
    OBVIOUS
  <2>2. starts \in 0..MaxStarts
    OBVIOUS
  <2>3. app \in [store : BOOLEAN, graph : BOOLEAN, emb : States,
                 complete : BOOLEAN, watcher : BOOLEAN]
    OBVIOUS
  <2> QED BY <2>1, <2>2, <2>3 DEF ProcessTypes
<1>3. TaskTypes
  <2>1. byWatchdog \in BOOLEAN
    OBVIOUS
  <2> QED BY <2>1 DEF TaskTypes, States
<1>4. RequestTypes
  <2>1. /\ loop \in {"free", "stats", "flush"} /\ seen \in 0..MaxDocs
        /\ search \in {"none", "asked"}
        /\ answer \in {"none", "complete", "partial", "unavailable", "failed"}
    OBVIOUS
  <2>2. report \in [total : 0..MaxDocs, listed : 0..MaxDocs]
    OBVIOUS
  <2> QED BY <2>1, <2>2 DEF RequestTypes
<1>5. Wired /\ ProbingIsBefore /\ CompleteIsEarned
  BY DEF Wired, ProbingIsBefore, CompleteIsEarned
<1>6. /\ CountStands /\ StatsNeverOverstate /\ WatcherIsKnown /\ ShutdownOrder
      /\ AnswerIsEarned
  BY DEF CountStands, StatsNeverOverstate, WatcherIsKnown, ShutdownOrder,
     AnswerIsEarned,
     WatchdogActive
<1> QED BY <1>1, <1>2, <1>3, <1>4, <1>5, <1>6 DEF IInv, TypeOK

-----------------------------------------------------------------------------
(* One lemma per family of actions.  The steps that change several parts of *)
(* the state are shown conjunct by conjunct.                               *)

LEMMA ServicesKeep ==
  ASSUME IInv, ModelsArrive \/ ChromaReturns \/ ThreadAdds
  PROVE  IInv'
<1> USE ConstantTypes
    DEF IInv, TypeOK, ServiceTypes, ProcessTypes, TaskTypes, RequestTypes,
        Wired, ProbingIsBefore, CompleteIsEarned, CountStands, WatcherIsKnown,
        ShutdownOrder, StatsNeverOverstate, AnswerIsEarned, WatchdogActive,
        States, env, tasks,
        requests, searches
<1>1. CASE ModelsArrive
  BY <1>1 DEF ModelsArrive
<1>2. CASE ChromaReturns
  BY <1>2 DEF ChromaReturns
<1>3. CASE ThreadAdds
  BY <1>3 DEF ThreadAdds
<1> QED BY <1>1, <1>2, <1>3

LEMMA FaultsKeep ==
  ASSUME IInv, ServiceFails
  PROVE  IInv'
<1> USE ConstantTypes
    DEF IInv, TypeOK, States, tasks, requests, searches
<1>1. CASE ServiceFails
  <2>1. ServiceTypes'
    <3> USE <1>1 DEF ServiceFails, ServiceTypes
    <3>1. ollama' \in States
      OBVIOUS
    <3>2. chroma' \in BOOLEAN
      OBVIOUS
    <3>3. docs' \in 0..MaxDocs
      OBVIOUS
    <3>4. faults' \in 0..MaxFaults
      OBVIOUS
    <3> QED BY <3>1, <3>2, <3>3, <3>4
  <2>2. RequestTypes'
    BY <1>1 DEF ServiceFails, ServiceTypes, RequestTypes
  <2>3. ProcessTypes'
    BY <1>1 DEF ServiceFails, ServiceTypes, ProcessTypes
  <2>4. TaskTypes'
    BY <1>1 DEF ServiceFails, ServiceTypes, TaskTypes
  <2>5. Wired' /\ ProbingIsBefore' /\ CompleteIsEarned'
    BY <1>1 DEF ServiceFails, ProcessTypes, Wired, ProbingIsBefore,
       CompleteIsEarned
  <2>6. WatcherIsKnown' /\ ShutdownOrder' /\ AnswerIsEarned'
    BY <1>1 DEF ServiceFails, ProcessTypes, WatcherIsKnown, ShutdownOrder,
       WatchdogActive, AnswerIsEarned
  <2>7. CountStands' /\ StatsNeverOverstate'
    BY <1>1 DEF ServiceFails, ServiceTypes, RequestTypes, ShutdownOrder,
       CountStands, StatsNeverOverstate
  <2> QED BY <2>1, <2>2, <2>3, <2>4, <2>5, <2>6, <2>7
<1> QED BY <1>1

LEMMA StartsKeep ==
  ASSUME IInv, StartUnreachable \/ StartLoading \/ StartReady \/ StartFails
  PROVE  IInv'
<1> USE ConstantTypes, NoAppFields
    DEF IInv, TypeOK, States, Up, Probe, env, tasks, requests, searches
<1>1. CASE StartUnreachable
  <2>1. ServiceTypes'
    BY <1>1 DEF StartUnreachable, ServiceTypes
  <2>2. RequestTypes'
    BY <1>1 DEF StartUnreachable, ServiceTypes, RequestTypes
  <2>3. ProcessTypes'
    <3> USE <1>1 DEF StartUnreachable, ProcessTypes
    <3>1. app' \in [store : BOOLEAN, graph : BOOLEAN, emb : States,
                   complete : BOOLEAN, watcher : BOOLEAN]
      OBVIOUS
    <3>2. indexOpen' \in BOOLEAN /\ starts' \in 0..MaxStarts
      OBVIOUS
    <3>3. /\ mode' \in {"down", "up", "stopping", "closed"}
          /\ stopAt' \in {"nothing", "watchdog", "scan", "runs"}
      OBVIOUS
    <3> QED BY <3>1, <3>2, <3>3
  <2>4. TaskTypes'
    BY <1>1 DEF StartUnreachable, ServiceTypes, TaskTypes
  <2>5. Wired' /\ ProbingIsBefore' /\ CompleteIsEarned'
    BY <1>1 DEF StartUnreachable, ProcessTypes, Wired, ProbingIsBefore,
       CompleteIsEarned
  <2>6. WatcherIsKnown' /\ ShutdownOrder' /\ AnswerIsEarned'
    BY <1>1 DEF StartUnreachable, ProcessTypes, WatcherIsKnown, ShutdownOrder,
       WatchdogActive, AnswerIsEarned
  <2>7. CountStands' /\ StatsNeverOverstate'
    BY <1>1 DEF StartUnreachable, ServiceTypes, RequestTypes, ShutdownOrder,
       CountStands, StatsNeverOverstate
  <2> QED BY <2>1, <2>2, <2>3, <2>4, <2>5, <2>6, <2>7
<1>2. CASE StartLoading
  <2>1. ServiceTypes'
    BY <1>2 DEF StartLoading, ServiceTypes
  <2>2. RequestTypes'
    BY <1>2 DEF StartLoading, ServiceTypes, RequestTypes
  <2>3. ProcessTypes'
    BY <1>2 DEF StartLoading, ServiceTypes, ProcessTypes
  <2>4. TaskTypes'
    BY <1>2 DEF StartLoading, ServiceTypes, TaskTypes
  <2>5. Wired' /\ ProbingIsBefore' /\ CompleteIsEarned'
    BY <1>2 DEF StartLoading, ProcessTypes, Wired, ProbingIsBefore,
       CompleteIsEarned
  <2>6. WatcherIsKnown' /\ ShutdownOrder' /\ AnswerIsEarned'
    BY <1>2 DEF StartLoading, ProcessTypes, WatcherIsKnown, ShutdownOrder,
       WatchdogActive, AnswerIsEarned
  <2>7. CountStands' /\ StatsNeverOverstate'
    BY <1>2 DEF StartLoading, ServiceTypes, RequestTypes, ShutdownOrder,
       CountStands, StatsNeverOverstate
  <2> QED BY <2>1, <2>2, <2>3, <2>4, <2>5, <2>6, <2>7
<1>3. CASE StartReady
  <2>1. ServiceTypes'
    BY <1>3 DEF StartReady, ServiceTypes
  <2>2. RequestTypes'
    BY <1>3 DEF StartReady, ServiceTypes, RequestTypes
  <2>3. ProcessTypes'
    <3> USE <1>3 DEF StartReady, ProcessTypes
    <3>1. app' \in [store : BOOLEAN, graph : BOOLEAN, emb : States,
                   complete : BOOLEAN, watcher : BOOLEAN]
      OBVIOUS
    <3>2. indexOpen' \in BOOLEAN /\ starts' \in 0..MaxStarts
      OBVIOUS
    <3>3. /\ mode' \in {"down", "up", "stopping", "closed"}
          /\ stopAt' \in {"nothing", "watchdog", "scan", "runs"}
      OBVIOUS
    <3> QED BY <3>1, <3>2, <3>3
  <2>4. TaskTypes'
    BY <1>3 DEF StartReady, ServiceTypes, TaskTypes
  <2>5. Wired' /\ ProbingIsBefore' /\ CompleteIsEarned'
    BY <1>3 DEF StartReady, ProcessTypes, Wired, ProbingIsBefore,
       CompleteIsEarned
  <2>6. WatcherIsKnown' /\ ShutdownOrder' /\ AnswerIsEarned'
    BY <1>3 DEF StartReady, ProcessTypes, WatcherIsKnown, ShutdownOrder,
       WatchdogActive, AnswerIsEarned
  <2>7. CountStands' /\ StatsNeverOverstate'
    BY <1>3 DEF StartReady, ServiceTypes, RequestTypes, ShutdownOrder,
       CountStands, StatsNeverOverstate
  <2> QED BY <2>1, <2>2, <2>3, <2>4, <2>5, <2>6, <2>7
<1>4. CASE StartFails
  <2>1. ServiceTypes'
    BY <1>4 DEF StartFails, ServiceTypes
  <2>2. RequestTypes'
    BY <1>4 DEF StartFails, ServiceTypes, RequestTypes
  <2>3. ProcessTypes'
    BY <1>4 DEF StartFails, ServiceTypes, ProcessTypes
  <2>4. TaskTypes'
    BY <1>4 DEF StartFails, ServiceTypes, TaskTypes
  <2>5. Wired' /\ ProbingIsBefore' /\ CompleteIsEarned'
    BY <1>4 DEF StartFails, ProcessTypes, Wired, ProbingIsBefore,
       CompleteIsEarned
  <2>6. WatcherIsKnown' /\ ShutdownOrder' /\ AnswerIsEarned'
    BY <1>4 DEF StartFails, ProcessTypes, WatcherIsKnown, ShutdownOrder,
       WatchdogActive, AnswerIsEarned
  <2>7. CountStands' /\ StatsNeverOverstate'
    BY <1>4 DEF StartFails, ServiceTypes, RequestTypes, ShutdownOrder,
       CountStands, StatsNeverOverstate
  <2> QED BY <2>1, <2>2, <2>3, <2>4, <2>5, <2>6, <2>7
<1> QED BY <1>1, <1>2, <1>3, <1>4

LEMMA BackfillKeeps ==
  ASSUME IInv, BackfillDone \/ BackfillFailed \/ BackfillCancelled \/
         ThreadEnds \/ ThreadRaises
  PROVE  IInv'
<1> USE ConstantTypes
    DEF IInv, TypeOK, ServiceTypes, ProcessTypes, TaskTypes, RequestTypes,
        Wired, ProbingIsBefore, CompleteIsEarned, CountStands, WatcherIsKnown,
        ShutdownOrder, StatsNeverOverstate, AnswerIsEarned, WatchdogActive,
        Ended, env, requests, searches
<1>1. CASE BackfillDone
  <2>1. TypeOK'
    BY <1>1 DEF BackfillDone
  <2>2. Wired' /\ ProbingIsBefore' /\ CompleteIsEarned' /\ WatcherIsKnown'
    BY <1>1 DEF BackfillDone
  <2>3. CountStands' /\ ShutdownOrder' /\ StatsNeverOverstate'
    BY <1>1 DEF BackfillDone
  <2>4. AnswerIsEarned'
    BY <1>1 DEF BackfillDone
  <2> QED BY <2>1, <2>2, <2>3, <2>4
<1>2. CASE BackfillFailed
  BY <1>2 DEF BackfillFailed
<1>3. CASE BackfillCancelled
  BY <1>3 DEF BackfillCancelled
<1>4. CASE ThreadEnds
  BY <1>4 DEF ThreadEnds
<1>5. CASE ThreadRaises
  BY <1>5 DEF ThreadRaises
<1> QED BY <1>1, <1>2, <1>3, <1>4, <1>5

LEMMA WatchdogKeeps ==
  ASSUME IInv, WatchdogWakes \/ WatchdogProbes \/ WatchdogWaits \/ Promote \/
         PromoteFails \/ WatchdogCancelled
  PROVE  IInv'
<1> USE DEF IInv, TypeOK, ServiceTypes, ProcessTypes, TaskTypes, RequestTypes,
        Wired, ProbingIsBefore, CompleteIsEarned, CountStands, WatcherIsKnown,
        ShutdownOrder, StatsNeverOverstate, AnswerIsEarned, WatchdogActive,
        WatchdogStep,
        States, Probe, env, requests, searches
<1>1. CASE WatchdogWakes
  BY <1>1 DEF WatchdogWakes
<1>2. CASE WatchdogProbes
  BY <1>2 DEF WatchdogProbes
<1>3. CASE WatchdogWaits
  BY <1>3 DEF WatchdogWaits
<1>4. CASE Promote
  <2>1. TypeOK'
    BY <1>4 DEF Promote
  <2>2. Wired' /\ ProbingIsBefore' /\ CompleteIsEarned' /\ WatcherIsKnown'
    BY <1>4 DEF Promote
  <2>3. CountStands' /\ ShutdownOrder' /\ StatsNeverOverstate'
    BY <1>4 DEF Promote
  <2>4. AnswerIsEarned'
    BY <1>4 DEF Promote
  <2> QED BY <2>1, <2>2, <2>3, <2>4
<1>5. CASE PromoteFails
  BY <1>5 DEF PromoteFails
<1>6. CASE WatchdogCancelled
  BY <1>6 DEF WatchdogCancelled
<1> QED BY <1>1, <1>2, <1>3, <1>4, <1>5, <1>6

LEMMA StopsKeep ==
  ASSUME IInv, Stop \/ StopScan \/ StopWatcher \/ LastTickEnds
  PROVE  IInv'
<1> USE DEF IInv, TypeOK, ServiceTypes, ProcessTypes, TaskTypes, RequestTypes,
        Wired, ProbingIsBefore, CompleteIsEarned, CountStands, WatcherIsKnown,
        ShutdownOrder, StatsNeverOverstate, AnswerIsEarned, WatchdogActive,
        Shutdown,
        ScanDrained, States, env, requests, searches
<1>1. CASE Stop
  BY <1>1 DEF Stop
<1>2. CASE StopScan
  BY <1>2 DEF StopScan
<1>3. CASE StopWatcher
  BY <1>3 DEF StopWatcher
<1>4. CASE LastTickEnds
  BY <1>4 DEF LastTickEnds
<1> QED BY <1>1, <1>2, <1>3, <1>4

LEMMA EndsKeep ==
  ASSUME IInv, CloseIndex \/ Exit
  PROVE  IInv'
<1> USE ConstantTypes, NoAppFields
    DEF IInv, TypeOK, Shutdown, States, env, requests, searches
<1>1. CASE CloseIndex
  <2>1. ServiceTypes'
    BY <1>1 DEF CloseIndex, ServiceTypes
  <2>2. RequestTypes'
    BY <1>1 DEF CloseIndex, ServiceTypes, RequestTypes
  <2>3. ProcessTypes'
    BY <1>1 DEF CloseIndex, ServiceTypes, ProcessTypes
  <2>4. TaskTypes'
    BY <1>1 DEF CloseIndex, ServiceTypes, TaskTypes
  <2>5. Wired' /\ ProbingIsBefore' /\ CompleteIsEarned'
    BY <1>1 DEF CloseIndex, ProcessTypes, Wired, ProbingIsBefore,
       CompleteIsEarned
  <2>6. WatcherIsKnown' /\ ShutdownOrder' /\ AnswerIsEarned'
    BY <1>1 DEF CloseIndex, ProcessTypes, WatcherIsKnown, ShutdownOrder,
       WatchdogActive, AnswerIsEarned
  <2>7. CountStands' /\ StatsNeverOverstate'
    BY <1>1 DEF CloseIndex, ServiceTypes, RequestTypes, ShutdownOrder,
       CountStands, StatsNeverOverstate
  <2> QED BY <2>1, <2>2, <2>3, <2>4, <2>5, <2>6, <2>7
<1>2. CASE Exit
  <2>1. ServiceTypes'
    BY <1>2 DEF Exit, ServiceTypes
  <2>2. RequestTypes'
    BY <1>2 DEF Exit, ServiceTypes, RequestTypes
  <2>3. ProcessTypes'
    BY <1>2 DEF Exit, ServiceTypes, ProcessTypes
  <2>4. TaskTypes'
    BY <1>2 DEF Exit, ServiceTypes, TaskTypes
  <2>5. Wired' /\ ProbingIsBefore' /\ CompleteIsEarned'
    BY <1>2 DEF Exit, ProcessTypes, Wired, ProbingIsBefore, CompleteIsEarned
  <2>6. WatcherIsKnown' /\ ShutdownOrder' /\ AnswerIsEarned'
    BY <1>2 DEF Exit, ProcessTypes, WatcherIsKnown, ShutdownOrder,
       WatchdogActive, AnswerIsEarned
  <2>7. CountStands' /\ StatsNeverOverstate'
    BY <1>2 DEF Exit, ServiceTypes, RequestTypes, ShutdownOrder, CountStands,
       StatsNeverOverstate
  <2> QED BY <2>1, <2>2, <2>3, <2>4, <2>5, <2>6, <2>7
<1> QED BY <1>1, <1>2

LEMMA ScanStartsKeeps ==
  ASSUME IInv, ScanStarts
  PROVE  IInv'
<1> USE DEF IInv, TypeOK, ScanStep, env, requests, searches
<1>1. CASE ScanStarts
  <2>1. ServiceTypes'
    BY <1>1 DEF ScanStarts, ServiceTypes
  <2>2. RequestTypes'
    BY <1>1 DEF ScanStarts, ServiceTypes, RequestTypes
  <2>3. ProcessTypes'
    BY <1>1 DEF ScanStarts, ServiceTypes, ProcessTypes
  <2>4. TaskTypes'
    BY <1>1 DEF ScanStarts, ServiceTypes, TaskTypes
  <2>5. Wired' /\ ProbingIsBefore' /\ CompleteIsEarned'
    BY <1>1 DEF ScanStarts, ProcessTypes, Wired, ProbingIsBefore,
       CompleteIsEarned
  <2>6. WatcherIsKnown' /\ ShutdownOrder' /\ AnswerIsEarned'
    BY <1>1 DEF ScanStarts, ProcessTypes, WatcherIsKnown, ShutdownOrder,
       WatchdogActive, AnswerIsEarned
  <2>7. CountStands' /\ StatsNeverOverstate'
    BY <1>1 DEF ScanStarts, ServiceTypes, RequestTypes, ShutdownOrder,
       CountStands, StatsNeverOverstate
  <2> QED BY <2>1, <2>2, <2>3, <2>4, <2>5, <2>6, <2>7
<1> QED BY <1>1

LEMMA ScansKeep ==
  ASSUME IInv, ScanEnds \/ ScanCancelled
  PROVE  IInv'
<1> USE DEF IInv, TypeOK, ServiceTypes, ProcessTypes, TaskTypes, RequestTypes,
        Wired, ProbingIsBefore, CompleteIsEarned, CountStands, WatcherIsKnown,
        ShutdownOrder, StatsNeverOverstate, AnswerIsEarned, WatchdogActive,
        ScanStep, env,
        requests, searches
<1>1. CASE ScanEnds
  BY <1>1 DEF ScanEnds
<1>2. CASE ScanCancelled
  BY <1>2 DEF ScanCancelled
<1> QED BY <1>1, <1>2

LEMMA ReadsKeep ==
  ASSUME IInv, StatsCount \/ StatsOfNothing \/ FlushList
  PROVE  IInv'
<1> USE ConstantTypes
    DEF IInv, TypeOK, HoldLoop, env, tasks, searches
<1>1. CASE StatsCount
  <2>1. ServiceTypes'
    BY <1>1 DEF StatsCount, ServiceTypes
  <2>2. RequestTypes'
    BY <1>1 DEF StatsCount, ServiceTypes, RequestTypes
  <2>3. ProcessTypes'
    BY <1>1 DEF StatsCount, ServiceTypes, ProcessTypes
  <2>4. TaskTypes'
    BY <1>1 DEF StatsCount, ServiceTypes, TaskTypes
  <2>5. Wired' /\ ProbingIsBefore' /\ CompleteIsEarned'
    BY <1>1 DEF StatsCount, ProcessTypes, Wired, ProbingIsBefore,
       CompleteIsEarned
  <2>6. WatcherIsKnown' /\ ShutdownOrder' /\ AnswerIsEarned'
    BY <1>1 DEF StatsCount, ProcessTypes, WatcherIsKnown, ShutdownOrder,
       WatchdogActive, AnswerIsEarned
  <2>7. CountStands' /\ StatsNeverOverstate'
    BY <1>1 DEF StatsCount, ServiceTypes, RequestTypes, ShutdownOrder,
       CountStands, StatsNeverOverstate
  <2> QED BY <2>1, <2>2, <2>3, <2>4, <2>5, <2>6, <2>7
<1>2. CASE StatsOfNothing
  <2>1. ServiceTypes'
    BY <1>2 DEF StatsOfNothing, ServiceTypes
  <2>2. RequestTypes'
    BY <1>2 DEF StatsOfNothing, ServiceTypes, RequestTypes
  <2>3. ProcessTypes'
    BY <1>2 DEF StatsOfNothing, ServiceTypes, ProcessTypes
  <2>4. TaskTypes'
    BY <1>2 DEF StatsOfNothing, ServiceTypes, TaskTypes
  <2>5. Wired' /\ ProbingIsBefore' /\ CompleteIsEarned'
    BY <1>2 DEF StatsOfNothing, ProcessTypes, Wired, ProbingIsBefore,
       CompleteIsEarned
  <2>6. WatcherIsKnown' /\ ShutdownOrder' /\ AnswerIsEarned'
    BY <1>2 DEF StatsOfNothing, ProcessTypes, WatcherIsKnown, ShutdownOrder,
       WatchdogActive, AnswerIsEarned
  <2>7. CountStands' /\ StatsNeverOverstate'
    BY <1>2 DEF StatsOfNothing, ServiceTypes, RequestTypes, ShutdownOrder,
       CountStands, StatsNeverOverstate
  <2> QED BY <2>1, <2>2, <2>3, <2>4, <2>5, <2>6, <2>7
<1>3. CASE FlushList
  <2>1. ServiceTypes'
    BY <1>3 DEF FlushList, ServiceTypes
  <2>2. RequestTypes'
    BY <1>3 DEF FlushList, ServiceTypes, RequestTypes
  <2>3. ProcessTypes'
    BY <1>3 DEF FlushList, ServiceTypes, ProcessTypes
  <2>4. TaskTypes'
    BY <1>3 DEF FlushList, ServiceTypes, TaskTypes
  <2>5. Wired' /\ ProbingIsBefore' /\ CompleteIsEarned'
    BY <1>3 DEF FlushList, ProcessTypes, Wired, ProbingIsBefore,
       CompleteIsEarned
  <2>6. WatcherIsKnown' /\ ShutdownOrder' /\ AnswerIsEarned'
    BY <1>3 DEF FlushList, ProcessTypes, WatcherIsKnown, ShutdownOrder,
       WatchdogActive, AnswerIsEarned
  <2>7. CountStands' /\ StatsNeverOverstate'
    BY <1>3 DEF FlushList, ServiceTypes, RequestTypes, ShutdownOrder,
       CountStands, StatsNeverOverstate
  <2> QED BY <2>1, <2>2, <2>3, <2>4, <2>5, <2>6, <2>7
<1> QED BY <1>1, <1>2, <1>3

LEMMA AnswersKeep ==
  ASSUME IInv, StatsGet \/ FlushDelete \/ SecondCallFails
  PROVE  IInv'
<1> USE ConstantTypes
    DEF IInv, TypeOK, ServiceTypes, ProcessTypes, TaskTypes, RequestTypes,
        Wired, ProbingIsBefore, CompleteIsEarned, CountStands, WatcherIsKnown,
        ShutdownOrder, StatsNeverOverstate, AnswerIsEarned, WatchdogActive,
        Release, env, tasks,
        searches
<1>1. CASE StatsGet
  BY <1>1 DEF StatsGet, StatsReport
<1>2. CASE FlushDelete
  BY <1>2 DEF FlushDelete
<1>3. CASE SecondCallFails
  BY <1>3 DEF SecondCallFails
<1> QED BY <1>1, <1>2, <1>3

\* A search that ends with the flag set had a store: so the flag is that of a
\* backfill, not of a dashboard that will never have one.
LEMMA SearchesKeep ==
  ASSUME IInv, SearchRefused \/ SearchStarts \/ SearchEnds \/ SearchFails
  PROVE  IInv'
<1> USE DEF IInv, TypeOK, ServiceTypes, ProcessTypes, TaskTypes, RequestTypes,
        Wired, ProbingIsBefore, CompleteIsEarned, CountStands, WatcherIsKnown,
        ShutdownOrder, StatsNeverOverstate, AnswerIsEarned, WatchdogActive,
        SearchStep, env, tasks
<1>1. CASE SearchRefused
  BY <1>1 DEF SearchRefused
<1>2. CASE SearchStarts
  <2>1. TypeOK'
    BY <1>2 DEF SearchStarts
  <2>2. Wired' /\ ProbingIsBefore' /\ CompleteIsEarned' /\ WatcherIsKnown'
    BY <1>2 DEF SearchStarts
  <2>3. CountStands' /\ ShutdownOrder' /\ StatsNeverOverstate'
    BY <1>2 DEF SearchStarts
  <2>4. AnswerIsEarned'
    BY <1>2 DEF SearchStarts
  <2> QED BY <2>1, <2>2, <2>3, <2>4
<1>3. CASE SearchEnds
  BY <1>3 DEF SearchEnds
<1>4. CASE SearchFails
  BY <1>4 DEF SearchFails
<1> QED BY <1>1, <1>2, <1>3, <1>4

-----------------------------------------------------------------------------
(* Theorems *)

\* The invariant holds in every reachable state.
THEOREM Invariance == Spec => []IInv
<1>1. Init => IInv
  BY InitIInv
<1>2. IInv /\ [Next]_vars => IInv'
  <2> SUFFICES ASSUME IInv, [Next]_vars PROVE IInv'
    OBVIOUS
  <2>1. CASE UNCHANGED vars
    BY <2>1 DEF vars, env, tasks, requests, searches, IInv, TypeOK, ServiceTypes,
       ProcessTypes,
       TaskTypes, RequestTypes, Wired,
       ProbingIsBefore, CompleteIsEarned, CountStands, WatcherIsKnown,
       ShutdownOrder, StatsNeverOverstate, AnswerIsEarned, WatchdogActive
  <2>2. CASE Next
    BY <2>2, ServicesKeep, FaultsKeep, StartsKeep, BackfillKeeps,
       WatchdogKeeps, StopsKeep, EndsKeep, ScanStartsKeeps, ScansKeep,
       ReadsKeep, AnswersKeep, SearchesKeep
       DEF Next, EventLoop, Threads
  <2> QED BY <2>1, <2>2
<1> QED BY <1>1, <1>2, PTL DEF Spec

\* Every variable of the process stays within its type; in particular a flush
\* never takes the collection below nothing.
THEOREM TypeCorrect == Spec => []TypeOK
<1>1. IInv => TypeOK
  BY DEF IInv
<1> QED BY <1>1, Invariance, PTL

\* main.py:98-120: no request finds a store without its graph, or a state
\* that says ready without a store, at whatever moment of a promotion.
THEOREM ReadyStaysWired == Spec => []ReadyMeansWired
<1>1. IInv => ReadyMeansWired
  BY DEF IInv, Wired, ReadyMeansWired
<1> QED BY <1>1, Invariance, PTL

\* search.py:34,71,96: an answer that is not marked partial comes after a
\* backfill of this process that went through, though the store was read
\* before the query was awaited and the flag after it.
THEOREM CompleteIsTrue == Spec => []CompleteMeansBackfilled
<1>1. IInv => CompleteMeansBackfilled
  BY DEF IInv, AnswerIsEarned, CompleteMeansBackfilled
<1> QED BY <1>1, Invariance, PTL

\* main.py:218-242: whatever runs when the shutdown begins, nothing that acts
\* on the dashboard's state is left when it is over.
THEOREM ShutdownIsClean == Spec => []NothingOutlivesShutdown
<1>1. IInv => NothingOutlivesShutdown
  BY DEF IInv, ShutdownOrder, NothingOutlivesShutdown
<1> QED BY <1>1, Invariance, PTL

\* chroma_stats.py: the statistics list all the documents they count, whatever
\* the threads add and the operator deletes between their two reads.
THEOREM StatsAreSound == Spec => []StatsNeverOverstate
<1>1. IInv => StatsNeverOverstate
  BY DEF IInv
<1> QED BY <1>1, Invariance, PTL
=============================================================================
