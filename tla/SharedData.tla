----------------------------- MODULE SharedData -----------------------------
(***************************************************************************)
(* The claims of the Shared Data API over its two databases.               *)
(*                                                                         *)
(* The process starts, seeds Mongo (users, policies) and Postgres (claims  *)
(* and their status history) if they look empty, then serves and runs the  *)
(* claim-status simulator.  Customers file claims through FNOL, a proxy    *)
(* that gives up on a slow answer; the portals read claims.  The process   *)
(* may crash at any step and is started again.                             *)
(*                                                                         *)
(* A transaction takes effect at its commit.  Times, texts, vehicles are   *)
(* left out: a payload is acceptable or not.                               *)
(***************************************************************************)
EXTENDS Integers, Sequences, FiniteSets

CONSTANTS
  Customer, Agent,     \* the users to be seeded, by role
  Policy,              \* the policies to be seeded
  Claim,               \* claim ids
  SeedClaim,           \* the ids that _seed_claims gives out
  Request,             \* calls of POST /fnol/submit
  None, System,        \* no value; SYSTEM_ACTOR_ID
  MaxFaults, MaxCrashes  \* bounds

User == Customer \cup Agent

ASSUME ConstantsAssumption ==
  /\ Customer \cap Agent = {} /\ Agent # {}
  /\ SeedClaim \subseteq Claim
  /\ {None, System} \cap (User \cup Policy \cup Claim) = {} /\ None # System
  /\ {MaxFaults, MaxCrashes} \subseteq Nat

VARIABLES
  pc,                  \* the process: "down", a step of the seed, "serving" ...
  users,               \* db.users
  owner,               \* db.policies: customer_id of each policy, if it exists
  status, customer, policy, adjuster,  \* the columns of claims
  history,             \* claim_status_history, by claim
  sim,                 \* where the simulator's task is
  tick,                \* what its current tick has loaded and drawn
  handler,             \* where SDA's create_claim is, for each request
  payload,             \* what was submitted, and by whom
  filed,               \* the claim the handler has committed
  view,                \* what the customer was told
  reader,              \* one GET /claims/{id}
  faults, crashes      \* counters of bounded events

mongoVars == <<users, owner>>
claimVars == <<status, customer, policy, adjuster, history>>
simVars == <<sim, tick>>
requestVars == <<handler, payload, filed, view>>
bounds == <<faults, crashes>>
vars == <<pc, mongoVars, claimVars, simVars, requestVars, reader, bounds>>

Statuses == {"submitted", "triaged", "investigating", "settled", "closed",
             "denied"}
Terminal == {"closed", "denied"}

ASSUME NoneIsNoStatus == None \notin Statuses

\* TRANSITIONS, without the weights: the simulator may also stay.
Transitions ==
  { <<"submitted", "triaged">>,
    <<"triaged", "investigating">>, <<"triaged", "denied">>,
    <<"investigating", "settled">>, <<"investigating", "denied">>,
    <<"settled", "closed">> }

Exists(c) == status[c] # None
Rows == {c \in Claim : Exists(c)}
Policies == {p \in Policy : owner[p] # None}
Agents == users \cap Agent

NoTick == [claim |-> None, from |-> None, to |-> None, actor |-> None]
NoRead == [stage |-> "idle", claim |-> None, status |-> None, entries |-> {}]

Init ==
  /\ pc = "down"
  /\ users = {} /\ owner = [p \in Policy |-> None]
  /\ status = [c \in Claim |-> None]
  /\ customer = [c \in Claim |-> None]
  /\ policy = [c \in Claim |-> None]
  /\ adjuster = [c \in Claim |-> None]
  /\ history = [c \in Claim |-> <<>>]
  /\ sim = "off" /\ tick = NoTick
  /\ handler = [q \in Request |-> "idle"]
  /\ payload = [q \in Request |-> None]
  /\ filed = [q \in Request |-> None]
  /\ view = [q \in Request |-> "none"]
  /\ reader = NoRead
  /\ faults = 0 /\ crashes = 0

Fault == faults < MaxFaults /\ faults' = faults + 1 /\ UNCHANGED crashes

-----------------------------------------------------------------------------
(* The process: lifespan, run_seed_if_empty, a crash at any point *)

Start ==
  /\ pc = "down"
  /\ pc' = IF users = {} THEN "customers" ELSE "claims"
  /\ UNCHANGED <<mongoVars, claimVars, simVars, requestVars, reader, bounds>>

\* _seed_users_and_policies: three insert_many in turn.
SeedCustomers ==
  /\ pc = "customers"
  /\ users' = users \cup Customer
  /\ pc' = "agents"
  /\ UNCHANGED <<owner, claimVars, simVars, requestVars, reader, bounds>>

SeedAgents ==
  /\ pc = "agents"
  /\ users' = users \cup Agent
  /\ pc' = "policies"
  /\ UNCHANGED <<owner, claimVars, simVars, requestVars, reader, bounds>>

SeedPolicies ==
  /\ pc = "policies"
  /\ owner' \in [Policy -> Customer]
  /\ pc' = "claims"
  /\ UNCHANGED <<users, claimVars, simVars, requestVars, reader, bounds>>

\* An insert_many that raises has inserted some of its documents; the lifespan
\* raises and the process ends.
SeedFails ==
  /\ \/ /\ pc = "customers"
        /\ \E D \in SUBSET Customer : users' = users \cup D
        /\ UNCHANGED owner
     \/ /\ pc = "agents"
        /\ \E D \in SUBSET Agent : users' = users \cup D
        /\ UNCHANGED owner
     \/ /\ pc = "policies"
        /\ \E D \in SUBSET Policy : \E f \in [D -> Customer] :
             owner' = [p \in Policy |-> IF p \in D THEN f[p] ELSE owner[p]]
        /\ UNCHANGED users
  /\ pc' = "down"
  /\ Fault
  /\ UNCHANGED <<claimVars, simVars, requestVars, reader>>

\* The status chains that _seed_claims builds.
Chains ==
  { <<"submitted">>,
    <<"submitted", "triaged">>,
    <<"submitted", "triaged", "investigating">>,
    <<"submitted", "triaged", "investigating", "settled">>,
    <<"submitted", "triaged", "investigating", "settled", "closed">>,
    <<"submitted", "triaged", "denied">>,
    <<"submitted", "triaged", "investigating", "denied">> }

HistoryOf(chain, who, agent) ==
  [i \in DOMAIN chain |->
     [from |-> IF i = 1 THEN None ELSE chain[i - 1],
      to |-> chain[i],
      actor |-> IF i = 1 THEN who ELSE agent]]

\* One transaction for all seeded claims, of existing policies and agents.
InsertSeedClaims ==
  \E seed \in [SeedClaim ->
               [chain : Chains, policy : Policies, agent : Agents]] :
    LET Last(c) == seed[c].chain[Len(seed[c].chain)] IN
      /\ status' = [c \in Claim |->
                      IF c \in SeedClaim THEN Last(c) ELSE status[c]]
      /\ customer' = [c \in Claim |->
                        IF c \in SeedClaim THEN owner[seed[c].policy]
                        ELSE customer[c]]
      /\ policy' = [c \in Claim |->
                      IF c \in SeedClaim THEN seed[c].policy ELSE policy[c]]
      /\ adjuster' = [c \in Claim |->
                        IF c \in SeedClaim /\ Last(c) # "submitted"
                        THEN seed[c].agent ELSE adjuster[c]]
      /\ history' = [c \in Claim |->
                       IF c \in SeedClaim
                       THEN HistoryOf(seed[c].chain, owner[seed[c].policy],
                                      seed[c].agent)
                       ELSE history[c]]

\* Mutant: the seed does not look for claims that are there.
SeedClaims_Again ==
  /\ pc = "claims"
  /\ IF Policies = {} \/ Agents = {}
       THEN UNCHANGED claimVars
       ELSE InsertSeedClaims
  /\ pc' = "serving"
  /\ sim' = "sleeping"
  /\ UNCHANGED <<mongoVars, tick, requestVars, reader, bounds>>

\* _seed_claims, skipped without policies or agents, or if there are claims;
\* then the simulator starts and the API serves.
SeedClaims ==
  /\ pc = "claims"
  /\ IF Policies = {} \/ Agents = {} \/ Rows # {}
       THEN UNCHANGED claimVars
       ELSE InsertSeedClaims
  /\ pc' = "serving"
  /\ sim' = "sleeping"
  /\ UNCHANGED <<mongoVars, tick, requestVars, reader, bounds>>

\* Nothing of the process survives: its handlers, its simulator, its readers.
\* FNOL turns the broken connections into a 502.
ProcessEnds ==
  /\ pc' = "down"
  /\ sim' = "off" /\ tick' = NoTick
  /\ handler' = [q \in Request |->
                   IF handler[q] = "idle" THEN "idle" ELSE "done"]
  /\ view' = [q \in Request |->
                IF view[q] = "waiting" THEN "failed" ELSE view[q]]
  /\ reader' = NoRead
  /\ UNCHANGED <<mongoVars, payload, filed>>

Crash ==
  /\ pc # "down"
  /\ crashes < MaxCrashes
  /\ crashes' = crashes + 1
  /\ ProcessEnds
  /\ UNCHANGED <<claimVars, faults>>

\* A shutdown: the server finishes its requests, then simulator.stop is called.
StopSimulator ==
  /\ pc = "serving"
  /\ \A q \in Request : handler[q] \in {"idle", "done"}
  /\ reader.stage # "row"
  /\ crashes < MaxCrashes
  /\ crashes' = crashes + 1
  /\ pc' = "stopping"
  /\ UNCHANGED <<mongoVars, claimVars, simVars, requestVars, reader, faults>>

\* The databases are disposed of when the simulator's task has ended.
Dispose ==
  /\ pc = "stopping" /\ sim = "off"
  /\ ProcessEnds
  /\ UNCHANGED <<claimVars, bounds>>

-----------------------------------------------------------------------------
(* The simulator: _run and tick *)

\* After a tick that went through and after one that failed: the failures in a
\* row that _on_tick_success and _on_tick_failure count only decide what is
\* logged.
TickEnds ==
  sim' = "sleeping" /\ tick' = NoTick

\* Mutant: a settled claim counts as finished.
OpenClaims_Unsettled == {c \in Rows : status[c] \notin Terminal \cup {"settled"}}

OpenClaims == {c \in Rows : status[c] \notin Terminal}

\* The select: a claim is chosen and its next status drawn.
TickRead(c) ==
  /\ pc = "serving" /\ sim = "sleeping"
  /\ c \in OpenClaims
  /\ \E next \in Statuses :
       /\ <<status[c], next>> \in Transitions
       /\ tick' = [claim |-> c, from |-> status[c], to |-> next,
                   actor |-> adjuster[c]]
  /\ sim' = IF status[c] = "submitted" THEN "picking" ELSE "writing"
  /\ UNCHANGED <<pc, mongoVars, claimVars, requestVars, reader, bounds>>

\* There is no open claim, or the draw says to stay (every weight sum but that
\* of a terminal status is below 1).
TickIdle ==
  /\ pc = "serving" /\ sim = "sleeping"
  /\ TickEnds
  /\ UNCHANGED <<pc, mongoVars, claimVars, requestVars, reader, bounds>>

\* _pick_random_agent_id reads Mongo.
TickPick ==
  /\ sim = "picking"
  /\ \E a \in IF Agents = {} THEN {None} ELSE Agents :
       tick' = [tick EXCEPT !.actor = a]
  /\ sim' = "writing"
  /\ UNCHANGED <<pc, mongoVars, claimVars, requestVars, reader, bounds>>

\* Mutant: the adjuster is drawn and not assigned.
Transition_Unassigned ==
  LET c == tick.claim
      entry == [from |-> tick.from, to |-> tick.to,
                actor |-> IF tick.actor = None THEN System ELSE tick.actor]
  IN /\ status' = [status EXCEPT ![c] = tick.to]
     /\ history' = [history EXCEPT ![c] = Append(@, entry)]
     /\ UNCHANGED <<customer, policy, adjuster>>

\* The tick's transaction, with what the tick has loaded.
Transition ==
  LET c == tick.claim
      entry == [from |-> tick.from, to |-> tick.to,
                actor |-> IF tick.actor = None THEN System ELSE tick.actor]
  IN /\ status' = [status EXCEPT ![c] = tick.to]
     /\ adjuster' = [adjuster EXCEPT
                       ![c] = IF tick.from = "submitted" THEN tick.actor ELSE @]
     /\ history' = [history EXCEPT ![c] = Append(@, entry)]
     /\ UNCHANGED <<customer, policy>>

TickCommit ==
  /\ sim = "writing"
  /\ Transition
  /\ TickEnds
  /\ UNCHANGED <<pc, mongoVars, requestVars, reader, bounds>>

\* Any exception; one of the commit may come after it took effect.
TickFails ==
  /\ sim \in {"sleeping", "picking", "writing"} /\ pc = "serving"
  /\ UNCHANGED claimVars \/ (sim = "writing" /\ Transition)
  /\ TickEnds
  /\ Fault
  /\ UNCHANGED <<pc, mongoVars, requestVars, reader>>

\* stop(): the loop ends between two ticks, or wait_for cancels the tick after
\* 5 s, before or after its commit took effect, and waits for its end.
SimulatorEnds ==
  /\ pc = "stopping" /\ sim # "off"
  /\ UNCHANGED claimVars \/ (sim = "writing" /\ Transition)
  /\ sim' = "off" /\ tick' = NoTick
  /\ UNCHANGED <<pc, mongoVars, requestVars, reader, bounds>>

-----------------------------------------------------------------------------
(* POST /fnol/submit -> POST /claims *)

\* A logged-in user u files a claim for customer c and policy p; ok says that
\* the vehicle is on the policy and the incident in its window.
Submit(q) ==
  /\ pc = "serving"
  /\ view[q] = "none"
  /\ \E u \in users, c \in Customer, p \in Policy, ok \in BOOLEAN :
       payload' = [payload EXCEPT
                     ![q] = [user |-> u, customer |-> c, policy |-> p, ok |-> ok]]
  /\ handler' = [handler EXCEPT ![q] = "received"]
  /\ view' = [view EXCEPT ![q] = "waiting"]
  /\ UNCHANGED <<pc, mongoVars, claimVars, simVars, filed, reader, bounds>>

\* FNOL answers, if it still waits.
Told(q, answer) ==
  [view EXCEPT ![q] = IF @ = "waiting" THEN answer ELSE @]

\* verify_create_authorization for FNOL's calls: a customer, for herself.
Authorized(q) ==
  payload[q].user \in Customer /\ payload[q].user = payload[q].customer

\* Mutant: the policy's owner is not looked at.
Valid_AnyOwner(q) ==
  owner[payload[q].policy] # None /\ payload[q].ok

\* load_policy_and_validate.
Valid(q) ==
  owner[payload[q].policy] = payload[q].customer /\ payload[q].ok

Accept(q) ==
  /\ handler[q] = "received"
  /\ Authorized(q) /\ Valid(q)
  /\ handler' = [handler EXCEPT ![q] = "validated"]
  /\ UNCHANGED <<pc, mongoVars, claimVars, simVars, payload, filed, view,
                 reader, bounds>>

Reject(q) ==
  /\ handler[q] = "received"
  /\ ~(Authorized(q) /\ Valid(q))
  /\ handler' = [handler EXCEPT ![q] = "done"]
  /\ view' = Told(q, "rejected")
  /\ UNCHANGED <<pc, mongoVars, claimVars, simVars, payload, filed, reader,
                 bounds>>

\* persist_new_claim: claim and first history row in one transaction.
Persist(q, c) ==
  /\ handler[q] = "validated"
  /\ ~Exists(c) /\ c \notin SeedClaim
  /\ status' = [status EXCEPT ![c] = "submitted"]
  /\ customer' = [customer EXCEPT ![c] = payload[q].customer]
  /\ policy' = [policy EXCEPT ![c] = payload[q].policy]
  /\ history' = [history EXCEPT
                   ![c] = << [from |-> None, to |-> "submitted",
                              actor |-> payload[q].user] >>]
  /\ filed' = [filed EXCEPT ![q] = c]
  /\ handler' = [handler EXCEPT ![q] = "committed"]
  /\ UNCHANGED <<pc, mongoVars, adjuster, simVars, payload, view, reader,
                 bounds>>

Respond(q) ==
  /\ handler[q] = "committed"
  /\ handler' = [handler EXCEPT ![q] = "done"]
  /\ view' = Told(q, "created")
  /\ UNCHANGED <<pc, mongoVars, claimVars, simVars, payload, filed, reader,
                 bounds>>

\* An exception before the commit, or after it, from the refresh: a 500.
HandlerFails(q) ==
  /\ handler[q] \in {"received", "validated", "committed"}
  /\ Fault
  /\ handler' = [handler EXCEPT ![q] = "done"]
  /\ view' = Told(q, "failed")
  /\ UNCHANGED <<pc, mongoVars, claimVars, simVars, payload, filed, reader>>

\* Mutant: a time-out is reported as a rejection.
GiveUp_AsRejection(q) ==
  /\ view[q] = "waiting"
  /\ view' = [view EXCEPT ![q] = "rejected"]
  /\ UNCHANGED <<pc, mongoVars, claimVars, simVars, handler, payload, filed,
                 reader, bounds>>

\* FNOL's client times out after 10 s: a 502; SDA's handler goes on.
GiveUp(q) ==
  /\ view[q] = "waiting"
  /\ view' = [view EXCEPT ![q] = "failed"]
  /\ UNCHANGED <<pc, mongoVars, claimVars, simVars, handler, payload, filed,
                 reader, bounds>>

-----------------------------------------------------------------------------
(* GET /claims/{id}: the claim's row, then its history, two statements *)

ReadRow(c) ==
  /\ pc = "serving" /\ reader.stage # "row"
  /\ Exists(c)
  /\ reader' = [stage |-> "row", claim |-> c, status |-> status[c],
                entries |-> {}]
  /\ UNCHANGED <<pc, mongoVars, claimVars, simVars, requestVars, bounds>>

\* Mutant: the history comes from a snapshot that misses the last commit.
ReadHistory_Stale ==
  /\ reader.stage = "row"
  /\ reader' = [reader EXCEPT
                  !.stage = "answered",
                  !.entries = {history[reader.claim][i] :
                                 i \in 1..Len(history[reader.claim]) - 1}]
  /\ UNCHANGED <<pc, mongoVars, claimVars, simVars, requestVars, bounds>>

ReadHistory ==
  /\ reader.stage = "row"
  /\ reader' = [reader EXCEPT
                  !.stage = "answered",
                  !.entries = {history[reader.claim][i] :
                                 i \in DOMAIN history[reader.claim]}]
  /\ UNCHANGED <<pc, mongoVars, claimVars, simVars, requestVars, bounds>>

-----------------------------------------------------------------------------
Startup ==
  \/ Start \/ SeedCustomers \/ SeedAgents \/ SeedPolicies \/ SeedClaims

SimulatorStep ==
  \/ \E c \in Claim : TickRead(c)
  \/ TickIdle \/ TickPick \/ TickCommit \/ TickFails \/ SimulatorEnds

RequestStep(q) ==
  \/ Submit(q) \/ Accept(q) \/ Reject(q)
  \/ \E c \in Claim : Persist(q, c)
  \/ Respond(q) \/ HandlerFails(q) \/ GiveUp(q)

Next ==
  \/ Startup \/ SeedFails \/ Crash \/ StopSimulator \/ Dispose
  \/ SimulatorStep
  \/ \E q \in Request : RequestStep(q)
  \/ \E c \in Claim : ReadRow(c)
  \/ ReadHistory

Spec == Init /\ [][Next]_vars

\* The container is restarted whenever it stops, and the simulator's task runs.
\* random.choice and the draw give every open claim a positive chance to move
\* at each tick, so none is passed over for ever.
SimulatorFairness ==
  /\ WF_vars(Startup \/ Dispose)
  /\ WF_vars(TickPick \/ TickCommit \/ SimulatorEnds)
  /\ \A c \in Claim : SF_vars(TickRead(c))

FairSpec == Spec /\ SimulatorFairness

-----------------------------------------------------------------------------
(* Properties *)

Entries == [from : Statuses \cup {None}, to : Statuses,
            actor : User \cup {System}]

Ticks == [claim : Claim, from : Statuses, to : Statuses,
          actor : Agent \cup {None}]

Payloads == [user : User, customer : Customer, policy : Policy, ok : BOOLEAN]

Reads == [stage : {"idle", "row", "answered"}, claim : Claim \cup {None},
          status : Statuses \cup {None}, entries : SUBSET Entries]

\* Every variable has its type.
TypeOK ==
  /\ pc \in {"down", "customers", "agents", "policies", "claims", "serving",
            "stopping"}
  /\ users \subseteq User
  /\ owner \in [Policy -> Customer \cup {None}]
  /\ status \in [Claim -> Statuses \cup {None}]
  /\ customer \in [Claim -> Customer \cup {None}]
  /\ policy \in [Claim -> Policy \cup {None}]
  /\ adjuster \in [Claim -> Agent \cup {None}]
  /\ history \in [Claim -> Seq(Entries)]
  /\ sim \in {"off", "sleeping", "picking", "writing"}
  /\ tick \in Ticks \cup {NoTick}
  /\ handler \in [Request -> {"idle", "received", "validated", "committed",
                             "done"}]
  /\ payload \in [Request -> Payloads \cup {None}]
  /\ filed \in [Request -> Claim \cup {None}]
  /\ view \in [Request -> {"none", "waiting", "created", "rejected", "failed"}]
  /\ reader \in Reads
  /\ faults \in Nat /\ crashes \in Nat

\* A claim's history is a path of the status graph, from its submission to its
\* current status, each row beginning where the one before ended, whatever
\* fails or crashes (data-model.md: "Every status change writes a row").
HistoryIsAPath ==
  \A c \in Rows :
    /\ history[c] # <<>>
    /\ history[c][1].from = None /\ history[c][1].to = "submitted"
    /\ \A i \in 2..Len(history[c]) :
         /\ history[c][i].from = history[c][i - 1].to
         /\ <<history[c][i].from, history[c][i].to>> \in Transitions
    /\ history[c][Len(history[c])].to = status[c]

\* After the submission it is the claim's adjuster, an agent, who acts (ADR-007,
\* decision 3), and never the system: the order of the seed's inserts leaves
\* no claim without an agent to assign (models.py:45 "if agent seeding somehow
\* failed").
AdjusterActs ==
  \A c \in Rows :
    /\ status[c] # "submitted" => adjuster[c] \in Agent
    /\ \A i \in 2..Len(history[c]) : history[c][i].actor = adjuster[c]

\* Both: a history can be followed, and whoever acted in it was entitled to.
HistoryIsSound == HistoryIsAPath /\ AdjusterActs

\* Every claim belongs to the owner of its policy, who filed it herself: no
\* check passes on data that another request or the seed has changed.
ClaimsAreOwned ==
  \A c \in Rows :
    /\ owner[policy[c]] = customer[c]
    /\ history[c][1].actor = customer[c]

\* What a customer is told is true, now and later: a claim that was announced
\* exists, a rejected one does not, and no two submissions share a claim.
AnswersAreTrue ==
  \A q \in Request :
    /\ view[q] = "created" => filed[q] \in Rows
    /\ view[q] = "rejected" => filed[q] = None
    /\ \A r \in Request : filed[q] = filed[r] /\ filed[q] # None => q = r

\* GET /claims/{id} reads the row before the history, so a transition between
\* the two shows as a history that is ahead of the status, never behind it.
ReaderSeesItsStatus ==
  reader.stage = "answered" =>
    \E e \in reader.entries : e.to = reader.status

\* No row of a claim's history is lost or rewritten, and a finished claim does
\* not change, through failing ticks, crashes and restarts with their seed
\* (ADR-007: "timeline data survives restarts").
TimelineIsKept ==
  [][\A c \in Rows :
       /\ Len(history[c]) <= Len(history'[c])
       /\ \A i \in 1..Len(history[c]) : history'[c][i] = history[c][i]
       /\ status[c] \in Terminal => history'[c] = history[c]]_vars

\* The simulator brings every claim to an end (ADR-007: without it "claim
\* statuses would never change at runtime").
ClaimsFinish ==
  \A c \in Claim : Exists(c) ~> status[c] \in Terminal

\* data-model.md:98 "seeds these on startup if either DB is empty
\* (idempotent)": when the API serves, neither is.
NoDatabaseIsLeftEmpty == pc = "serving" => users # {} /\ Rows # {}
=============================================================================
