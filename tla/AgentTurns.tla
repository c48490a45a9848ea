----------------------------- MODULE AgentTurns -----------------------------
(***************************************************************************)
(* The dashboard's agent: chat turns, error analyses and proactive scans.  *)
(*                                                                         *)
(* A turn is one run of the compiled graph (agent/graph.py)                *)
(*                                                                         *)
(*   ingest -> analyze -> (correlate -> predict)* -> respond               *)
(*                                                                         *)
(* on a thread, a pair of a user and a session.  The run works on its own  *)
(* copy of the thread's state and saves it in the checkpointer after every *)
(* node.  Turns interleave between any two nodes, also two turns of one    *)
(* thread.  The index of threads (agent/sessions.py) forgets the least     *)
(* recently used one when it is full, and makes the checkpointer forget it *)
(* too, whether or not a turn still runs on it.                            *)
(*                                                                         *)
(* Text is abstract: a message has a type, the turn that wrote it and, for *)
(* the result of a tool, the log entries found.                            *)
(***************************************************************************)
EXTENDS Integers, Sequences, FiniteSets

CONSTANTS
  ChatTurns,     \* turns started by requests: chat or error analysis
  ScanTurns,     \* turns started by the proactive loop
  Sessions,      \* the operators' sessions: pairs of a sub and a session id
  Entries,       \* log entries that tools can find
  Level,         \* the level of each entry
  TopK,          \* how many entries one tool round finds at most (bound)
  MaxToolCalls,  \* settings.llm_max_tool_calls_per_request
  MaxSessions,   \* settings.session_index_max
  MaxFindings,   \* FindingsBuffer's maxlen
  NoTurn         \* no answer: the empty string

Turns == ChatTurns \cup ScanTurns

\* Thread ids: a turn that gets a fresh session id runs on a thread of its own,
\* named after it.
Threads == Sessions \cup Turns

ASSUME ConstantsAssumption ==
  /\ Sessions \cap Turns = {}
  /\ NoTurn \notin Turns
  /\ Level \in [Entries -> {"ERROR", "WARN", "INFO"}]
  /\ {MaxToolCalls, MaxSessions, MaxFindings} \subseteq Nat \ {0}
  /\ TopK \in Nat

VARIABLES
  turn,        \* the turns, see TypeOK
  lru,         \* SessionIndex._lru, least recently used first
  checkpoint,  \* InMemorySaver: the latest state of each thread it knows
  store,       \* app.state.vectorstore is there, and in app.state.agent_graph
  findings,    \* FindingsBuffer._findings, oldest first
  dryRun,      \* settings.dashboard_llm_dry_run
  closed,      \* the lifespan has closed the index
  strays       \* history: threads dropped by the index but not forgotten

vars == <<turn, lru, checkpoint, store, findings, dryRun, closed, strays>>

MsgTypes == {"human", "call", "answer", "tool"}
Messages == [type : MsgTypes, turn : Turns, entries : SUBSET Entries]
Msg(type, r, found) == [type |-> type, turn |-> r, entries |-> found]

\* AgentState: messages, tool_budget_remaining, _exhausted and citations.
States == [msgs : Seq(Messages), left : 0..MaxToolCalls, spent : BOOLEAN,
           cites : SUBSET Entries]
Blank == [msgs |-> <<>>, left |-> MaxToolCalls, spent |-> FALSE, cites |-> {}]

Nodes == {"ingest", "analyze", "correlate", "predict", "respond", "reply"}
Running(r) == turn[r].pc \in Nodes
OnThread(t) == {r \in Turns : turn[r].thread = t /\ turn[r].kind # "none"}

Init ==
  /\ turn = [r \in Turns |->
       [kind |-> "none", thread |-> r, pc |-> "start",
        chan |-> Blank, store |-> FALSE, status |-> "none",
        answer |-> NoTurn, alone |-> TRUE, kept |-> TRUE]]
  /\ lru = <<>>
  /\ checkpoint = [t \in {} |-> Blank]
  /\ store \in BOOLEAN
  /\ findings = <<>>
  /\ dryRun \in BOOLEAN
  /\ closed = FALSE
  /\ strays = {}

-----------------------------------------------------------------------------
(* The index of threads *)

\* The threads the index knows.
Tracked == {lru[i] : i \in DOMAIN lru}

\* The queue when t is used: t is its last thread, new or moved to the end.
Queued(t) ==
  IF t \notin Tracked THEN Append(lru, t)
  ELSE LET at == CHOOSE i \in DOMAIN lru : lru[i] = t
       IN [i \in DOMAIN lru |->
             IF i < at THEN lru[i] ELSE IF i < Len(lru) THEN lru[i + 1] ELSE t]

Forget(T) == [t \in DOMAIN checkpoint \ T |-> checkpoint[t]]

\* A turn loses what it relied on when its thread is forgotten.
Evicted(T, tn) == [r \in Turns |->
  IF tn[r].thread \in T THEN [tn[r] EXCEPT !.kept = FALSE] ELSE tn[r]]

\* Mutant: one thread more than the limit.
Touch_OneMore(t, tn) ==
  LET queue == Queued(t)
      full == t \notin Tracked /\ Len(queue) > MaxSessions + 1
  IN /\ lru' = IF full THEN Tail(queue) ELSE queue
     /\ turn' = tn
     /\ checkpoint' = IF full THEN Forget({Head(queue)}) ELSE checkpoint
     /\ UNCHANGED strays

\* Mutant: the index forgets the thread but not its checkpoint.
Touch_Leaks(t, tn) ==
  LET queue == Queued(t)
      full == t \notin Tracked /\ Len(queue) > MaxSessions
  IN /\ lru' = IF full THEN Tail(queue) ELSE queue
     /\ turn' = tn
     /\ UNCHANGED <<checkpoint, strays>>

\* SessionIndex.touch, as the turns become tn.  The lock is free whenever touch
\* is called and adelete_thread neither suspends nor raises, so all of it is
\* one step.
Touch(t, tn) ==
  LET queue == Queued(t)
      victim == Head(queue)
      full == t \notin Tracked /\ Len(queue) > MaxSessions
      busy == \E r \in OnThread(victim) : Running(r)
  IN IF full
     THEN /\ lru' = Tail(queue)
          /\ turn' = Evicted({victim}, tn)
          /\ checkpoint' = Forget({victim})
          /\ strays' = (strays \ {t}) \cup (IF busy THEN {victim} ELSE {})
     ELSE /\ lru' = queue
          /\ turn' = tn
          /\ strays' = strays \ {t}
          /\ UNCHANGED checkpoint

\* SessionIndex.aclose, when the requests are done and the loop was awaited.
CloseIndex ==
  /\ ~closed
  /\ \A r \in Turns : ~Running(r)
  /\ closed' = TRUE
  /\ lru' = <<>>
  /\ checkpoint' = Forget(Tracked)
  /\ turn' = Evicted(Tracked, turn)
  /\ UNCHANGED <<store, findings, dryRun, strays>>

\* Mutant: the new graph comes with a new checkpointer.
Promote_NewCheckpointer ==
  /\ ~store /\ ~closed
  /\ store' = TRUE
  /\ checkpoint' = [t \in {} |-> Blank]
  /\ UNCHANGED <<turn, lru, findings, dryRun, closed, strays>>

\* The watchdog finds the embedding service: a new graph, the old checkpointer.
Promote ==
  /\ ~store /\ ~closed
  /\ store' = TRUE
  /\ UNCHANGED <<turn, lru, checkpoint, findings, dryRun, closed, strays>>

-----------------------------------------------------------------------------
(* The requests and the loop *)

Started(r, kind, t) == [turn EXCEPT
  ![r].kind = kind, ![r].thread = t, ![r].pc = "ingest", ![r].store = store]

StartTurn(r, kind, t) ==
  /\ turn[r].pc = "start" /\ ~closed
  /\ Touch(t, Started(r, kind, t))
  /\ UNCHANGED <<store, findings, dryRun, closed>>

\* POST /api/chat: the client's session, or a new one when it sends none.  A
\* message over the token cap is refused before anything changes.  Only the
\* reply depends on body.streaming, which is settled there.
PostChat(r) ==
  \E t \in Sessions \cup {r} : StartTurn(r, "ask", t)

\* GET /api/errors/{id}: always a new session, and only with the store; without
\* it, or for an entry that is malformed, unknown, no warning or error, or too
\* long, the request is refused before anything changes.
GetErrorDetail(r) ==
  /\ store
  /\ StartTurn(r, "ask", r)

\* The session of a scan is new.
ScanSession(r) == r

\* One iteration of the loop, which awaits the scan before it sleeps again.  In
\* dry-run mode and without the store it skips the scan.
StartScan(r) ==
  /\ \A q \in ScanTurns : ~Running(q)
  /\ ~dryRun /\ store
  /\ StartTurn(r, "scan", ScanSession(r))

-----------------------------------------------------------------------------
(* The graph: every node saves the thread's state *)

Save(r, c) == [t \in DOMAIN checkpoint \cup {turn[r].thread} |->
                IF t = turn[r].thread THEN c ELSE checkpoint[t]]

Node(r, c, next) ==
  /\ turn' = [turn EXCEPT ![r].chan = c, ![r].pc = next]
  /\ checkpoint' = Save(r, c)
  /\ UNCHANGED <<lru, store, findings, dryRun, closed, strays>>

Loaded(t) == IF t \in DOMAIN checkpoint THEN checkpoint[t].msgs ELSE <<>>

\* What ingest_node resets for the turn.
Reset(msgs) == [Blank EXCEPT !.msgs = msgs]

\* The run loads the thread, adds the request's message and enters ingest_node.
Ingest(r) ==
  LET t == turn[r].thread
      others == {q \in OnThread(t) \ {r} : Running(q)}
      c == Reset(Append(Loaded(t), Msg("human", r, {})))
  IN /\ turn[r].pc = "ingest"
     /\ turn' = [q \in Turns |->
          IF q = r THEN [turn[r] EXCEPT !.chan = c, !.pc = "analyze",
                                        !.alone = (others = {})]
          ELSE IF q \in others THEN [turn[q] EXCEPT !.alone = FALSE]
          ELSE turn[q]]
     /\ checkpoint' = Save(r, c)
     /\ UNCHANGED <<lru, store, findings, dryRun, closed, strays>>

\* What the model may say: the dry-run model asks for a tool until it sees a
\* result of one, of whatever turn; the real one does as it likes.
LlmReplies(msgs) ==
  IF ~dryRun THEN {"call", "answer"}
  ELSE IF \E i \in DOMAIN msgs : msgs[i].type = "tool" THEN {"answer"}
  ELSE {"call"}

Says(r, type) ==
  [turn[r].chan EXCEPT !.msgs = Append(@, Msg(type, r, {}))]

RouteAfterAnalyze(type) == IF type = "call" THEN "correlate" ELSE "respond"

\* Mutant: the router forgets the budget.
RouteAfterPredict_NoBudget(type, left) ==
  IF type = "call" THEN "correlate" ELSE "respond"

RouteAfterPredict(type, left) ==
  IF type = "call" /\ left > 0 THEN "correlate" ELSE "respond"

Analyze(r) ==
  /\ turn[r].pc = "analyze"
  /\ \E type \in LlmReplies(turn[r].chan.msgs) :
       Node(r, Says(r, type), RouteAfterAnalyze(type))

Predict(r) ==
  /\ turn[r].pc = "predict"
  /\ \E type \in LlmReplies(turn[r].chan.msgs) :
       Node(r, Says(r, type), RouteAfterPredict(type, turn[r].chan.left))

\* Mutant: the flag is set one round late.
Correlate_LateFlag(r) ==
  LET c == turn[r].chan
      left == IF c.left = 0 THEN 0 ELSE c.left - 1
  IN /\ turn[r].pc = "correlate"
     /\ \E found \in SUBSET Entries :
          /\ Cardinality(found) <= TopK
          /\ Node(r, [c EXCEPT !.msgs = Append(@, Msg("tool", r, found)),
                               !.left = left, !.spent = (c.left = 0)],
                  "predict")

\* One tool round.  A tool that fails, or has no store, finds nothing.
Correlate(r) ==
  LET c == turn[r].chan
      left == IF c.left = 0 THEN 0 ELSE c.left - 1
  IN /\ turn[r].pc = "correlate"
     /\ \E found \in SUBSET Entries :
          /\ Cardinality(found) <= TopK
          /\ turn[r].store \/ found = {}
          /\ Node(r, [c EXCEPT !.msgs = Append(@, Msg("tool", r, found)),
                               !.left = left, !.spent = (left = 0)],
                  "predict")

\* The entries of every tool result in the thread, old turns' included.
ExtractCitations(msgs) == UNION {msgs[i].entries : i \in DOMAIN msgs}

\* Mutant: the edge from respond to END is missing.
AfterRespond_NoEdge == "respond"

AfterRespond == "reply"

Respond(r) ==
  LET c == turn[r].chan
  IN /\ turn[r].pc = "respond"
     /\ Node(r, [c EXCEPT !.cites = ExtractCitations(c.msgs)], AfterRespond)

-----------------------------------------------------------------------------
(* The answer *)

\* extract_answer: the last message of the model without tool calls, whatever
\* turn it is of; the empty string when there is none.
ExtractAnswer(msgs) ==
  LET answers == {i \in DOMAIN msgs : msgs[i].type = "answer"}
  IN IF answers = {} THEN NoTurn
     ELSE msgs[CHOOSE i \in answers : \A j \in answers : j <= i].turn

SeverityFor(cites) ==
  IF \E e \in cites : Level[e] = "ERROR" THEN "error"
  ELSE IF \E e \in cites : Level[e] = "WARN" THEN "warn"
  ELSE "info"

\* A turn that is over keeps what it returned: the answer and the flag.
Over(r, status, answer, result) == [turn EXCEPT
  ![r].pc = "done", ![r].status = status, ![r].answer = answer,
  ![r].chan = [Blank EXCEPT !.spent = result.spent], ![r].store = FALSE]

\* The response is made of the state that ainvoke returns, the run's own.
Reply(r) ==
  LET result == turn[r].chan
  IN /\ turn[r].pc = "reply" /\ turn[r].kind = "ask"
     /\ turn' = Over(r, "ok", ExtractAnswer(result.msgs), result)
     /\ UNCHANGED <<lru, checkpoint, store, findings, dryRun, closed, strays>>

\* The streaming route reads the thread back from the checkpointer instead.
StreamReply(r) ==
  LET t == turn[r].thread
      result == IF t \in DOMAIN checkpoint THEN checkpoint[t] ELSE Blank
  IN /\ turn[r].pc = "reply" /\ turn[r].kind = "ask"
     /\ turn' = Over(r, "streamed", ExtractAnswer(result.msgs), result)
     /\ UNCHANGED <<lru, checkpoint, store, findings, dryRun, closed, strays>>

\* FindingsBuffer.append on a deque of MaxFindings.
Buffered(f) ==
  IF Len(findings) < MaxFindings THEN Append(findings, f)
  ELSE Append(Tail(findings), f)

Finding(r) == [turn |-> r, answer |-> ExtractAnswer(turn[r].chan.msgs),
               severity |-> SeverityFor(turn[r].chan.cites)]

\* The scan is over; its answer is a finding, unless the model said there are
\* no anomalies.  The empty string is not that sentinel.
ScanReply(r) ==
  /\ turn[r].pc = "reply" /\ turn[r].kind = "scan"
  /\ turn' = Over(r, "ok", Finding(r).answer, turn[r].chan)
  /\ \/ findings' = Buffered(Finding(r))
     \/ Finding(r).answer # NoTurn /\ UNCHANGED findings
  /\ UNCHANGED <<lru, checkpoint, store, dryRun, closed, strays>>

\* A call of the model raises: 502 or 500, an error event, or no finding.  What
\* the nodes before it saved stays in the checkpointer.
LlmFails(r) ==
  /\ turn[r].pc \in {"analyze", "predict"} /\ ~dryRun
  /\ turn' = Over(r, "failed", NoTurn, Blank)
  /\ UNCHANGED <<lru, checkpoint, store, findings, dryRun, closed, strays>>

\* The client of a stream goes away: no further node runs.
Disconnect(r) ==
  /\ Running(r) /\ turn[r].kind = "ask" /\ turn[r].pc # "ingest"
  /\ turn' = Over(r, "failed", NoTurn, Blank)
  /\ UNCHANGED <<lru, checkpoint, store, findings, dryRun, closed, strays>>

-----------------------------------------------------------------------------
Work(r) == Ingest(r) \/ Analyze(r) \/ Correlate(r) \/ Predict(r) \/ Respond(r)
             \/ Reply(r) \/ StreamReply(r) \/ ScanReply(r) \/ LlmFails(r)

Next ==
  \/ \E r \in ChatTurns : PostChat(r) \/ GetErrorDetail(r)
  \/ \E r \in ScanTurns : StartScan(r)
  \/ \E r \in Turns : Work(r) \/ Disconnect(r)
  \/ Promote
  \/ CloseIndex

Spec == Init /\ [][Next]_vars

\* The event loop runs every turn on, and a call of the model ends: it answers,
\* or the client's timeout raises (llm_timeout_seconds).
FairSpec == Spec /\ \A r \in Turns : WF_vars(Work(r))

-----------------------------------------------------------------------------
Kinds == {"none", "ask", "scan"}
Statuses == {"none", "ok", "streamed", "failed"}
Answered(r) == turn[r].status \in {"ok", "streamed"}
Severities == {"error", "warn", "info"}

TurnStates ==
  [kind : Kinds, thread : Threads, pc : Nodes \cup {"start", "done"},
   chan : States, store : BOOLEAN, status : Statuses,
   answer : Turns \cup {NoTurn}, alone : BOOLEAN, kept : BOOLEAN]

Findings == [turn : ScanTurns, answer : Turns \cup {NoTurn},
             severity : Severities]

\* The types, and the bounds of the index and of the buffer.
TypeOK ==
  /\ turn \in [Turns -> TurnStates]
  /\ lru \in Seq(Threads) /\ Len(lru) <= MaxSessions
  /\ DOMAIN checkpoint \subseteq Threads
  /\ \A t \in DOMAIN checkpoint : checkpoint[t] \in States
  /\ findings \in Seq(Findings) /\ Len(findings) <= MaxFindings
  /\ store \in BOOLEAN /\ dryRun \in BOOLEAN /\ closed \in BOOLEAN
  /\ strays \subseteq Threads

\* The memory of the checkpointer is bounded by the index: it knows a thread
\* the index does not track only when a turn was running on the thread as it
\* was evicted.
CheckpointsAreTracked ==
  DOMAIN checkpoint \subseteq Tracked \cup strays

\* A turn pays for every tool round: the rounds it ran and those it may still
\* run add up to the limit, whatever earlier turns of its thread used, and the
\* flag for the client says that none is left.
Rounds(r) == Cardinality({i \in DOMAIN turn[r].chan.msgs :
  turn[r].chan.msgs[i].type = "tool" /\ turn[r].chan.msgs[i].turn = r})
BudgetIsKept ==
  \A r \in Turns : turn[r].pc \in Nodes \ {"ingest"} =>
    /\ Rounds(r) + turn[r].chan.left = MaxToolCalls
    /\ turn[r].chan.spent <=> turn[r].chan.left = 0

\* The answer returned for a question is the answer to it, unless the client is
\* told that the tool budget is used up, or, for a stream, which reads the
\* thread back, another turn ran on the thread or the thread was evicted.
AnswerIsForTheQuestion ==
  \A r \in Turns : Answered(r) =>
    \/ turn[r].answer = r
    \/ turn[r].chan.spent
    \/ turn[r].status = "streamed" /\ ~(turn[r].alone /\ turn[r].kept)

\* A scan judges the logs on what it found itself, and a finding carries its
\* scan's own words, or none when the budget ended first; the buffer keeps the
\* newest findings.
FindingsAreFromTheirScan ==
  /\ \A r \in Turns : turn[r].kind = "scan" =>
       \A i \in DOMAIN turn[r].chan.msgs : turn[r].chan.msgs[i].turn = r
  /\ \A i \in DOMAIN findings :
       findings[i].answer \in {findings[i].turn, NoTurn}

\* Nobody is given the answer to another question, whatever shares the thread,
\* the checkpointer or the buffer with it.
AnswersAreTheirOwn == AnswerIsForTheQuestion /\ FindingsAreFromTheirScan

\* An answered question stays in the conversation, across the promotion of the
\* dashboard and the failures of later turns: until its thread is evicted, or
\* when no other turn ran on the thread at the same time.
AnsweredTurnsAreKept ==
  \A r \in Turns : Answered(r) /\ turn[r].alone /\ turn[r].kept =>
    /\ turn[r].thread \in DOMAIN checkpoint
    /\ LET msgs == checkpoint[turn[r].thread].msgs
           own(type) == \E i \in DOMAIN msgs :
             msgs[i].turn = r /\ msgs[i].type = type
       IN own("human") /\ (own("answer") \/ turn[r].chan.spent)

\* Every turn that starts comes to an end, however often the model asks for
\* tools and whatever fails.
EveryTurnEnds ==
  \A r \in Turns : turn[r].pc = "ingest" ~> turn[r].pc = "done"
=============================================================================
