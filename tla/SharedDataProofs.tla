-------------------------- MODULE SharedDataProofs --------------------------
(***************************************************************************)
(* Theorems about SharedData: the history of a claim, who acts on it, whose *)
(* it is, and what customers and readers are told, for any numbers of      *)
(* users, policies, claims, requests, faults and crashes.                  *)
(***************************************************************************)
EXTENDS SharedData, SequenceTheorems, TLAPS

-----------------------------------------------------------------------------
(* The inductive invariant *)

\* The seed of Mongo goes on only while there is no policy, and a policy is
\* inserted only after every agent.
Seeding ==
  /\ pc \in {"customers", "agents", "policies"} => Policies = {}
  /\ users = {} => Policies = {}
  /\ pc = "policies" \/ Policies # {} => Agent \subseteq users

\* The simulator alone changes a claim, so what its tick has loaded is current.
TickIsCurrent ==
  /\ sim # "off" => pc \in {"serving", "stopping"}
  /\ sim \in {"picking", "writing"} =>
       /\ tick \in Ticks
       /\ tick.claim \in Rows
       /\ tick.from = status[tick.claim]
       /\ <<tick.from, tick.to>> \in Transitions
  /\ sim = "picking" => tick.from = "submitted"
  /\ sim = "writing" =>
       /\ tick.actor \in Agent
       /\ tick.from # "submitted" => tick.actor = adjuster[tick.claim]

\* A claim has its policy and its customer from the start.
RowsAreFilled ==
  \A c \in Rows : customer[c] \in Customer /\ policy[c] \in Policy

\* A handler works only while the process serves, on a payload that its checks
\* have passed, and files one claim.
HandlersWork ==
  \A q \in Request :
    /\ handler[q] \in {"received", "validated", "committed"} => pc = "serving"
    /\ handler[q] # "idle" => payload[q] \in Payloads
    /\ handler[q] = "idle" <=> view[q] = "none"
    /\ handler[q] = "validated" => Authorized(q) /\ Valid(q)
    /\ handler[q] \in {"idle", "received", "validated"} => filed[q] = None
    /\ handler[q] = "committed" => filed[q] # None
    /\ filed[q] # None => filed[q] \in Rows
    /\ view[q] = "created" => filed[q] # None
    /\ view[q] = "rejected" => filed[q] = None /\ handler[q] = "done"
    /\ \A r \in Request : filed[q] = filed[r] /\ filed[q] # None => q = r

\* The status that the reader has is in the history that it will read.
ReadingIsCovered ==
  reader.stage = "row" =>
    /\ reader.claim \in Rows
    /\ \E i \in DOMAIN history[reader.claim] :
         history[reader.claim][i].to = reader.status

IInv ==
  /\ TypeOK
  /\ Seeding
  /\ HistoryIsAPath
  /\ AdjusterActs
  /\ ClaimsAreOwned
  /\ RowsAreFilled
  /\ TickIsCurrent
  /\ HandlersWork
  /\ ReadingIsCovered
  /\ ReaderSeesItsStatus

-----------------------------------------------------------------------------
(* The status graph *)

\* No transition leads back to the submission, or out of a terminal status.
LEMMA TransitionFacts ==
  ASSUME NEW from, NEW to, <<from, to>> \in Transitions
  PROVE  /\ from \in Statuses \ Terminal
         /\ to \in Statuses \ {"submitted"}
BY DEF Transitions, Statuses, Terminal

\* The chains of the seed are paths of the graph.
LEMMA ChainFacts ==
  ASSUME NEW chain \in Chains
  PROVE  /\ chain \in Seq(Statuses)
         /\ Len(chain) >= 1
         /\ chain[1] = "submitted"
         /\ \A i \in 2..Len(chain) : <<chain[i - 1], chain[i]>> \in Transitions
         /\ chain[Len(chain)] # "submitted" \/ Len(chain) = 1
<1>1. CASE chain = <<"submitted">>
  BY <1>1 DEF Statuses
<1>2. CASE chain = <<"submitted", "triaged">>
  BY <1>2 DEF Statuses, Transitions
<1>3. CASE chain = <<"submitted", "triaged", "investigating">>
  BY <1>3 DEF Statuses, Transitions
<1>4. CASE chain = <<"submitted", "triaged", "investigating", "settled">>
  BY <1>4 DEF Statuses, Transitions
<1>5. CASE chain = <<"submitted", "triaged", "investigating", "settled",
                     "closed">>
  BY <1>5 DEF Statuses, Transitions
<1>6. CASE chain = <<"submitted", "triaged", "denied">>
  BY <1>6 DEF Statuses, Transitions
<1>7. CASE chain = <<"submitted", "triaged", "investigating", "denied">>
  BY <1>7 DEF Statuses, Transitions
<1>. QED
  BY <1>1, <1>2, <1>3, <1>4, <1>5, <1>6, <1>7 DEF Chains

\* A seeded history is a path of the graph.
LEMMA SeededHistory ==
  ASSUME NEW chain \in Chains, NEW who \in Customer, NEW agent \in Agent
  PROVE  LET h == HistoryOf(chain, who, agent) IN
           /\ h \in Seq(Entries)
           /\ Len(h) = Len(chain) /\ Len(h) >= 1
           /\ h[1].from = None /\ h[1].to = "submitted" /\ h[1].actor = who
           /\ \A i \in 2..Len(h) :
                /\ h[i].from = h[i - 1].to
                /\ <<h[i].from, h[i].to>> \in Transitions
                /\ h[i].actor = agent
           /\ h[Len(h)].to = chain[Len(chain)]
<1>. DEFINE h == HistoryOf(chain, who, agent)
<1>1. /\ chain \in Seq(Statuses) /\ Len(chain) \in Nat
      /\ DOMAIN chain = 1..Len(chain)
      /\ Len(chain) >= 1
      /\ chain[1] = "submitted"
      /\ \A i \in 2..Len(chain) : <<chain[i - 1], chain[i]>> \in Transitions
  BY ChainFacts
<1>2. \A i \in 1..Len(chain) :
        /\ h[i].from = IF i = 1 THEN None ELSE chain[i - 1]
        /\ h[i].to = chain[i]
        /\ h[i].actor = IF i = 1 THEN who ELSE agent
        /\ h[i] \in Entries
  BY <1>1 DEF HistoryOf, Entries, User
<1>3. h \in [1..Len(chain) -> Entries]
  BY <1>1, <1>2 DEF HistoryOf
<1>4. h \in Seq(Entries) /\ Len(h) = Len(chain)
  BY <1>1, <1>3, SeqDef
<1>. HIDE DEF h
<1>5. ASSUME NEW i \in 2..Len(h)
      PROVE  /\ h[i].from = h[i - 1].to
             /\ <<h[i].from, h[i].to>> \in Transitions
             /\ h[i].actor = agent
  <2>1. i \in 1..Len(chain) /\ i - 1 \in 1..Len(chain) /\ i # 1
    BY <1>1, <1>4
  <2>2. h[i - 1].to = chain[i - 1] /\ h[i].to = chain[i]
    BY <1>2, <2>1
  <2>3. h[i].from = chain[i - 1] /\ h[i].actor = agent
    BY <1>2, <2>1
  <2>. QED
    BY <1>1, <1>4, <2>2, <2>3
<1>6. h[1].from = None /\ h[1].to = "submitted" /\ h[1].actor = who
  <2>1. 1 \in 1..Len(chain)
    BY <1>1
  <2>. QED
    BY <1>1, <1>2, <2>1
<1>7. h[Len(h)].to = chain[Len(chain)]
  <2>1. Len(chain) \in 1..Len(chain)
    BY <1>1
  <2>. QED
    BY <1>2, <1>4, <2>1
<1>. QED
  BY <1>1, <1>4, <1>5, <1>6, <1>7 DEF h

-----------------------------------------------------------------------------
(* What a step leaves alone *)

\* The claims and the policies.
LEMMA ClaimsFrame ==
  ASSUME IInv, UNCHANGED <<claimVars, mongoVars>>
  PROVE  /\ Rows' = Rows /\ Policies' = Policies
         /\ HistoryIsAPath' /\ AdjusterActs' /\ ClaimsAreOwned'
         /\ RowsAreFilled'
BY DEF IInv, claimVars, mongoVars, Rows, Exists, Policies, HistoryIsAPath,
       AdjusterActs, ClaimsAreOwned, RowsAreFilled

LEMMA SimulatorFrame ==
  ASSUME IInv, UNCHANGED <<claimVars, sim, tick, pc>>
  PROVE  TickIsCurrent'
BY DEF IInv, TickIsCurrent, claimVars, Rows, Exists

LEMMA RequestFrame ==
  ASSUME IInv, UNCHANGED <<claimVars, mongoVars, requestVars, pc>>
  PROVE  HandlersWork'
BY DEF IInv, HandlersWork, claimVars, mongoVars, requestVars, Rows, Exists,
       Authorized, Valid

LEMMA ReaderFrame ==
  ASSUME IInv, UNCHANGED <<claimVars, reader>>
  PROVE  ReadingIsCovered' /\ ReaderSeesItsStatus'
BY DEF IInv, ReadingIsCovered, ReaderSeesItsStatus, claimVars, Rows, Exists

LEMMA SeedingFrame ==
  ASSUME IInv, UNCHANGED <<mongoVars, pc>>
  PROVE  Seeding'
BY DEF IInv, Seeding, mongoVars, Policies

\* A claim has a policy, so every agent is there.
LEMMA AgentsAreThere ==
  ASSUME IInv, Rows # {}
  PROVE  Policies # {} /\ Agents = Agent
<1>1. PICK c \in Rows : TRUE
  OBVIOUS
<1>2. owner[policy[c]] \in Customer /\ policy[c] \in Policy
  BY <1>1 DEF IInv, ClaimsAreOwned, RowsAreFilled
<1>3. policy[c] \in Policies
  BY <1>2, ConstantsAssumption DEF Policies, User
<1>. QED
  BY <1>3 DEF IInv, Seeding, Agents

-----------------------------------------------------------------------------
(* The three transactions that change claims *)

\* Appending to a history keeps what was there.
LEMMA Appended ==
  ASSUME NEW S, NEW s \in Seq(S), NEW e \in S
  PROVE  /\ Append(s, e) \in Seq(S)
         /\ Len(Append(s, e)) = Len(s) + 1
         /\ \A i \in 1..Len(s) : Append(s, e)[i] = s[i]
         /\ Append(s, e)[Len(s) + 1] = e
OBVIOUS

\* The simulator's transaction extends one history by one step of the graph.
LEMMA TransitionSafe ==
  ASSUME IInv, sim = "writing", Transition, UNCHANGED mongoVars
  PROVE  /\ Rows' = Rows
         /\ status' \in [Claim -> Statuses \cup {None}]
         /\ adjuster' \in [Claim -> Agent \cup {None}]
         /\ history' \in [Claim -> Seq(Entries)]
         /\ UNCHANGED <<customer, policy>>
         /\ HistoryIsAPath' /\ AdjusterActs' /\ ClaimsAreOwned'
         /\ RowsAreFilled'
         /\ \A d \in Rows :
              /\ Len(history[d]) <= Len(history'[d])
              /\ \A i \in 1..Len(history[d]) : history'[d][i] = history[d][i]
              /\ status[d] \in Terminal => history'[d] = history[d]
<1>. DEFINE c == tick.claim
            entry == [from |-> tick.from, to |-> tick.to, actor |-> tick.actor]
            n == Len(history[c])
<1>1. /\ c \in Rows /\ c \in Claim
      /\ tick.from = status[c]
      /\ <<tick.from, tick.to>> \in Transitions
      /\ tick.actor \in Agent
      /\ tick.from # "submitted" => tick.actor = adjuster[c]
  BY DEF IInv, TickIsCurrent, Rows
<1>2. tick.actor # None
  BY <1>1, ConstantsAssumption DEF User
<1>3. /\ tick.from \in Statuses \ Terminal
      /\ tick.to \in Statuses \ {"submitted"}
  BY <1>1, TransitionFacts
<1>4. tick.to # None
  BY <1>3, NoneIsNoStatus
<1>5. entry \in Entries
  BY <1>1, <1>3 DEF Entries, User
<1>6. /\ status \in [Claim -> Statuses \cup {None}]
      /\ adjuster \in [Claim -> Agent \cup {None}]
      /\ history \in [Claim -> Seq(Entries)]
  BY DEF IInv, TypeOK
<1>7. /\ status' = [status EXCEPT ![c] = tick.to]
      /\ adjuster' = [adjuster EXCEPT
                        ![c] = IF tick.from = "submitted" THEN tick.actor
                               ELSE @]
      /\ history' = [history EXCEPT ![c] = Append(@, entry)]
      /\ UNCHANGED <<customer, policy, mongoVars>>
  BY <1>2 DEF Transition
<1>8. /\ status'[c] = tick.to
      /\ adjuster'[c] = tick.actor
      /\ history'[c] = Append(history[c], entry)
      /\ \A d \in Claim : d # c => /\ status'[d] = status[d]
                                  /\ adjuster'[d] = adjuster[d]
                                  /\ history'[d] = history[d]
  BY <1>1, <1>6, <1>7
<1>9. /\ history[c] \in Seq(Entries) /\ n \in Nat
      /\ Len(history'[c]) = n + 1
      /\ \A i \in 1..n : history'[c][i] = history[c][i]
      /\ history'[c][n + 1] = entry
  BY <1>1, <1>5, <1>6, <1>8, Appended
<1>10. Rows' = Rows
  BY <1>1, <1>4, <1>8, NoneIsNoStatus DEF Rows, Exists
<1>11. /\ status' \in [Claim -> Statuses \cup {None}]
       /\ adjuster' \in [Claim -> Agent \cup {None}]
       /\ history' \in [Claim -> Seq(Entries)]
  BY <1>1, <1>3, <1>5, <1>6, <1>7, Appended
<1>12. /\ n >= 1 /\ history[c][1].from = None
       /\ history[c][1].to = "submitted"
       /\ history[c][1].actor = customer[c]
       /\ \A i \in 2..n :
            /\ history[c][i].from = history[c][i - 1].to
            /\ <<history[c][i].from, history[c][i].to>> \in Transitions
            /\ history[c][i].actor = adjuster[c]
       /\ history[c][n].to = status[c]
  <2>1. history[c] # <<>>
    BY <1>1 DEF IInv, HistoryIsAPath
  <2>2. n >= 1
    BY <1>9, <2>1, EmptySeq
  <2>. QED
    BY <1>1, <2>2 DEF IInv, HistoryIsAPath, AdjusterActs, ClaimsAreOwned
<1>. HIDE DEF n, entry
<1>13. HistoryIsAPath'
  <2>1. ASSUME NEW d \in Rows, d # c
        PROVE  history'[d] = history[d] /\ status'[d] = status[d]
    BY <1>8, <2>1 DEF Rows
  <2>2. /\ history'[c] # <<>>
        /\ history'[c][1].from = None /\ history'[c][1].to = "submitted"
    BY <1>9, <1>12
  <2>3. ASSUME NEW i \in 2..n + 1
        PROVE  /\ history'[c][i].from = history'[c][i - 1].to
               /\ <<history'[c][i].from, history'[c][i].to>> \in Transitions
    <3>1. CASE i \in 2..n
      <4>1. i \in 1..n /\ i - 1 \in 1..n
        BY <1>9, <3>1
      <4>2. /\ history'[c][i] = history[c][i]
            /\ history'[c][i - 1] = history[c][i - 1]
        BY <1>9, <4>1
      <4>. QED
        BY <1>12, <3>1, <4>2
    <3>2. CASE i = n + 1
      <4>1. history'[c][i].from = tick.from /\ history'[c][i].to = tick.to
        BY <1>9, <3>2 DEF entry
      <4>2. history'[c][i - 1].to = status[c]
        BY <1>9, <1>12, <3>2
      <4>. QED
        BY <1>1, <4>1, <4>2
    <3>. QED
      BY <1>9, <3>1, <3>2
  <2>4. history'[c][n + 1].to = status'[c]
    BY <1>8, <1>9 DEF entry
  <2>5. \A d \in Rows :
          /\ history[d] # <<>>
          /\ history[d][1].from = None /\ history[d][1].to = "submitted"
          /\ \A i \in 2..Len(history[d]) :
               /\ history[d][i].from = history[d][i - 1].to
               /\ <<history[d][i].from, history[d][i].to>> \in Transitions
          /\ history[d][Len(history[d])].to = status[d]
    BY DEF IInv, HistoryIsAPath
  <2>6. ASSUME NEW d \in Rows
        PROVE  /\ history'[d] # <<>>
               /\ history'[d][1].from = None /\ history'[d][1].to = "submitted"
               /\ \A i \in 2..Len(history'[d]) :
                    /\ history'[d][i].from = history'[d][i - 1].to
                    /\ <<history'[d][i].from, history'[d][i].to>> \in Transitions
               /\ history'[d][Len(history'[d])].to = status'[d]
    <3>1. CASE d = c
      BY <1>9, <2>2, <2>3, <2>4, <3>1
    <3>2. CASE d # c
      BY <2>1, <2>5, <3>2
    <3>. QED
      BY <3>1, <3>2
  <2>. QED
    BY <1>10, <2>6 DEF HistoryIsAPath
<1>14. AdjusterActs'
  <2>1. \A i \in 2..n + 1 : history'[c][i].actor = adjuster'[c]
    <3>1. ASSUME NEW i \in 2..n
          PROVE  history'[c][i].actor = tick.actor
      <4>1. CASE tick.from = "submitted"
        <5>1. history[c][n].to = "submitted" /\ n \in 2..n
          BY <1>1, <1>9, <1>12, <4>1
        <5>2. <<history[c][n].from, history[c][n].to>> \in Transitions
          BY <1>12, <5>1
        <5>. QED
          BY <5>1, <5>2, TransitionFacts
      <4>2. CASE tick.from # "submitted"
        <5>1. i \in 1..n
          BY <1>9
        <5>. QED
          BY <1>1, <1>9, <1>12, <4>2, <5>1
      <4>. QED
        BY <4>1, <4>2
    <3>2. history'[c][n + 1].actor = tick.actor
      BY <1>9 DEF entry
    <3>3. \A i \in 2..n + 1 : i \in 2..n \/ i = n + 1
      BY <1>9
    <3>. QED
      BY <1>8, <3>1, <3>2, <3>3
  <2>2. adjuster'[c] \in Agent
    BY <1>1, <1>8
  <2>3. ASSUME NEW d \in Rows, d # c
        PROVE  /\ history'[d] = history[d] /\ status'[d] = status[d]
               /\ adjuster'[d] = adjuster[d]
    BY <1>8, <2>3 DEF Rows
  <2>4. \A d \in Rows :
          /\ status[d] # "submitted" => adjuster[d] \in Agent
          /\ \A i \in 2..Len(history[d]) : history[d][i].actor = adjuster[d]
    BY DEF IInv, AdjusterActs
  <2>. QED
    BY <1>9, <1>10, <2>1, <2>2, <2>3, <2>4 DEF AdjusterActs
<1>15. ClaimsAreOwned' /\ RowsAreFilled'
  <2>1. \A d \in Rows : history'[d][1].actor = history[d][1].actor
    BY <1>8, <1>9, <1>12 DEF Rows
  <2>. QED
    BY <1>7, <1>10, <2>1
       DEF IInv, ClaimsAreOwned, RowsAreFilled, mongoVars
<1>16. ASSUME NEW d \in Rows
       PROVE  /\ Len(history[d]) <= Len(history'[d])
              /\ \A i \in 1..Len(history[d]) : history'[d][i] = history[d][i]
              /\ status[d] \in Terminal => history'[d] = history[d]
  <2>1. CASE d = c
    BY <1>1, <1>3, <1>9, <2>1 DEF n
  <2>2. CASE d # c
    <3>1. history'[d] = history[d] /\ Len(history[d]) \in Nat
      BY <1>6, <1>8, <2>2 DEF Rows
    <3>. QED
      BY <3>1
  <2>. QED
    BY <2>1, <2>2
<1>. QED
  BY <1>7, <1>10, <1>11, <1>13, <1>14, <1>15, <1>16

\* A new claim, in persist_new_claim's transaction.
LEMMA PersistSafe ==
  ASSUME IInv, NEW q \in Request, NEW c \in Claim, Persist(q, c)
  PROVE  /\ Rows' = Rows \cup {c} /\ c \notin Rows
         /\ TypeOK'
         /\ HistoryIsAPath' /\ AdjusterActs' /\ ClaimsAreOwned'
         /\ RowsAreFilled'
         /\ \A d \in Rows : history'[d] = history[d] /\ status'[d] = status[d]
<1>. DEFINE entry == [from |-> None, to |-> "submitted",
                      actor |-> payload[q].user]
<1>1. TypeOK
  BY DEF IInv
<1>2. /\ payload[q] \in Payloads
      /\ payload[q].user = payload[q].customer
      /\ owner[payload[q].policy] = payload[q].customer
  BY DEF IInv, HandlersWork, Persist, Authorized, Valid
<1>3. /\ payload[q].user \in Customer /\ payload[q].customer \in Customer
      /\ payload[q].policy \in Policy
  BY <1>2 DEF Payloads
<1>4. "submitted" \in Statuses /\ "submitted" # None
  BY NoneIsNoStatus DEF Statuses
<1>5. entry \in Entries
  BY <1>3, <1>4 DEF Entries, User
<1>6. /\ status' = [status EXCEPT ![c] = "submitted"]
      /\ customer' = [customer EXCEPT ![c] = payload[q].customer]
      /\ policy' = [policy EXCEPT ![c] = payload[q].policy]
      /\ history' = [history EXCEPT ![c] = <<entry>>]
      /\ filed' = [filed EXCEPT ![q] = c]
      /\ handler' = [handler EXCEPT ![q] = "committed"]
      /\ UNCHANGED <<pc, users, owner, adjuster, sim, tick, payload, view,
                     reader, faults, crashes>>
      /\ ~Exists(c)
  BY DEF Persist, mongoVars, simVars, bounds
<1>7. TypeOK'
  BY <1>1, <1>3, <1>4, <1>5, <1>6 DEF TypeOK
<1>8. /\ status'[c] = "submitted"
      /\ customer'[c] = payload[q].customer
      /\ policy'[c] = payload[q].policy
      /\ history'[c] = <<entry>>
      /\ \A d \in Claim : d # c => /\ status'[d] = status[d]
                                  /\ customer'[d] = customer[d]
                                  /\ policy'[d] = policy[d]
                                  /\ history'[d] = history[d]
  BY <1>1, <1>6 DEF TypeOK
<1>9. Rows' = Rows \cup {c} /\ c \notin Rows
  BY <1>4, <1>6, <1>8 DEF Rows, Exists
<1>10. \A d \in Rows : d # c /\ d \in Claim
  BY <1>9 DEF Rows
<1>11. /\ Len(history'[c]) = 1 /\ history'[c] # <<>>
       /\ history'[c][1] = entry
  BY <1>8
<1>12. HistoryIsAPath'
  BY <1>8, <1>9, <1>10, <1>11 DEF IInv, HistoryIsAPath
<1>13. AdjusterActs'
  BY <1>6, <1>8, <1>9, <1>10, <1>11 DEF IInv, AdjusterActs
<1>14. ClaimsAreOwned'
  BY <1>2, <1>6, <1>8, <1>9, <1>10, <1>11 DEF IInv, ClaimsAreOwned
<1>15. RowsAreFilled'
  BY <1>3, <1>8, <1>9, <1>10 DEF IInv, RowsAreFilled
<1>. QED
  BY <1>7, <1>8, <1>9, <1>10, <1>12, <1>13, <1>14, <1>15

\* The seed's transaction, on an empty table.
LEMMA InsertSafe ==
  ASSUME IInv, Rows = {}, InsertSeedClaims, UNCHANGED mongoVars
  PROVE  /\ status' \in [Claim -> Statuses \cup {None}]
         /\ customer' \in [Claim -> Customer \cup {None}]
         /\ policy' \in [Claim -> Policy \cup {None}]
         /\ adjuster' \in [Claim -> Agent \cup {None}]
         /\ history' \in [Claim -> Seq(Entries)]
         /\ HistoryIsAPath' /\ AdjusterActs' /\ ClaimsAreOwned'
         /\ RowsAreFilled'
<1>1. PICK seed \in [SeedClaim ->
                     [chain : Chains, policy : Policies, agent : Agents]] :
        LET Last(c) == seed[c].chain[Len(seed[c].chain)] IN
          /\ status' = [c \in Claim |->
                          IF c \in SeedClaim THEN Last(c) ELSE status[c]]
          /\ customer' = [c \in Claim |->
                            IF c \in SeedClaim THEN owner[seed[c].policy]
                            ELSE customer[c]]
          /\ policy' = [c \in Claim |->
                          IF c \in SeedClaim THEN seed[c].policy ELSE policy[c]]
          /\ adjuster' = [c \in Claim |->
                            IF c \in SeedClaim /\ Last(c) # "submitted"
                            THEN seed[c].agent ELSE adjuster[c]]
          /\ history' = [c \in Claim |->
                           IF c \in SeedClaim
                           THEN HistoryOf(seed[c].chain, owner[seed[c].policy],
                                          seed[c].agent)
                           ELSE history[c]]
  BY DEF InsertSeedClaims
<1>. DEFINE Chain(c) == seed[c].chain
            Owner(c) == owner[seed[c].policy]
            Final(c) == Chain(c)[Len(Chain(c))]
            H(c) == HistoryOf(Chain(c), Owner(c), seed[c].agent)
<1>2. TypeOK /\ \A c \in Claim : status[c] = None
  BY DEF IInv, Rows, Exists
<1>3. ASSUME NEW c \in SeedClaim
      PROVE  /\ c \in Claim /\ Chain(c) \in Chains
             /\ seed[c].policy \in Policy /\ seed[c].agent \in Agent
             /\ Owner(c) \in Customer
  BY <1>1, <1>2, ConstantsAssumption DEF TypeOK, Policies, Agents
<1>4. ASSUME NEW c \in SeedClaim
      PROVE  /\ Final(c) \in Statuses
             /\ Final(c) = "submitted" => Len(Chain(c)) = 1
             /\ H(c) \in Seq(Entries) /\ H(c) # <<>>
             /\ Len(H(c)) = Len(Chain(c))
             /\ H(c)[1].from = None /\ H(c)[1].to = "submitted"
             /\ H(c)[1].actor = Owner(c)
             /\ \A i \in 2..Len(H(c)) :
                  /\ H(c)[i].from = H(c)[i - 1].to
                  /\ <<H(c)[i].from, H(c)[i].to>> \in Transitions
                  /\ H(c)[i].actor = seed[c].agent
             /\ H(c)[Len(H(c))].to = Final(c)
  <2>1. /\ Chain(c) \in Seq(Statuses) /\ Len(Chain(c)) >= 1
        /\ Final(c) # "submitted" \/ Len(Chain(c)) = 1
    BY <1>3, ChainFacts
  <2>2. Final(c) \in Statuses
    BY <2>1
  <2>3. /\ H(c) \in Seq(Entries)
        /\ Len(H(c)) = Len(Chain(c)) /\ Len(H(c)) >= 1
        /\ H(c)[1].from = None /\ H(c)[1].to = "submitted"
        /\ H(c)[1].actor = Owner(c)
        /\ \A i \in 2..Len(H(c)) :
             /\ H(c)[i].from = H(c)[i - 1].to
             /\ <<H(c)[i].from, H(c)[i].to>> \in Transitions
             /\ H(c)[i].actor = seed[c].agent
        /\ H(c)[Len(H(c))].to = Final(c)
    BY <1>3, SeededHistory
  <2>. HIDE DEF H, Final
  <2>. QED
    BY <2>1, <2>2, <2>3
<1>5. ASSUME NEW c \in Claim
      PROVE  /\ c \in SeedClaim => /\ status'[c] = Final(c)
                                   /\ customer'[c] = Owner(c)
                                   /\ policy'[c] = seed[c].policy
                                   /\ history'[c] = H(c)
                                   /\ Final(c) # "submitted" =>
                                        adjuster'[c] = seed[c].agent
             /\ c \notin SeedClaim => /\ status'[c] = None
                                      /\ customer'[c] = customer[c]
                                      /\ policy'[c] = policy[c]
                                      /\ adjuster'[c] = adjuster[c]
                                      /\ history'[c] = history[c]
             /\ adjuster'[c] \in {adjuster[c], seed[c].agent}
             /\ adjuster'[c] = adjuster[c] \/ c \in SeedClaim
  BY <1>1, <1>2
<1>6. Rows' = SeedClaim
  <2>1. Rows' = {c \in Claim : status'[c] # None}
    BY DEF Rows, Exists
  <2>. HIDE DEF Final, H, Owner, Chain
  <2>. QED
    BY <1>3, <1>4, <1>5, <2>1, NoneIsNoStatus
<1>7. /\ status' = [c \in Claim |-> status'[c]]
      /\ customer' = [c \in Claim |-> customer'[c]]
      /\ policy' = [c \in Claim |-> policy'[c]]
      /\ adjuster' = [c \in Claim |-> adjuster'[c]]
      /\ history' = [c \in Claim |-> history'[c]]
  BY <1>1
<1>. HIDE DEF Final, H, Owner, Chain
<1>8. /\ status' \in [Claim -> Statuses \cup {None}]
      /\ customer' \in [Claim -> Customer \cup {None}]
      /\ policy' \in [Claim -> Policy \cup {None}]
      /\ adjuster' \in [Claim -> Agent \cup {None}]
      /\ history' \in [Claim -> Seq(Entries)]
  <2>1. ASSUME NEW c \in Claim
        PROVE  /\ status'[c] \in Statuses \cup {None}
               /\ customer'[c] \in Customer \cup {None}
               /\ policy'[c] \in Policy \cup {None}
               /\ adjuster'[c] \in Agent \cup {None}
               /\ history'[c] \in Seq(Entries)
    BY <1>2, <1>3, <1>4, <1>5 DEF TypeOK
  <2>. QED
    BY <1>7, <2>1
<1>9. HistoryIsAPath'
  <2>1. ASSUME NEW c \in SeedClaim
        PROVE  history'[c] = H(c) /\ status'[c] = Final(c)
    BY <1>3, <1>5
  <2>2. ASSUME NEW c \in SeedClaim
        PROVE  /\ history'[c] # <<>>
               /\ history'[c][1].from = None /\ history'[c][1].to = "submitted"
               /\ \A i \in 2..Len(history'[c]) :
                    /\ history'[c][i].from = history'[c][i - 1].to
                    /\ <<history'[c][i].from, history'[c][i].to>> \in Transitions
               /\ history'[c][Len(history'[c])].to = status'[c]
    BY <1>4, <2>1
  <2>. QED
    BY <1>6, <2>2 DEF HistoryIsAPath
<1>10. AdjusterActs'
  <2>1. ASSUME NEW c \in SeedClaim
        PROVE  /\ status'[c] # "submitted" => adjuster'[c] \in Agent
               /\ \A i \in 2..Len(history'[c]) :
                    history'[c][i].actor = adjuster'[c]
    <3>1. CASE Final(c) = "submitted"
      <4>1. Len(history'[c]) = 1 /\ status'[c] = "submitted"
        BY <1>3, <1>4, <1>5, <3>1
      <4>. QED
        BY <4>1
    <3>2. CASE Final(c) # "submitted"
      <4>1. history'[c] = H(c) /\ adjuster'[c] = seed[c].agent
        BY <1>3, <1>5, <3>2
      <4>2. seed[c].agent \in Agent
        BY <1>3
      <4>. QED
        BY <1>4, <4>1, <4>2
    <3>. QED
      BY <3>1, <3>2
  <2>. QED
    BY <1>6, <2>1 DEF AdjusterActs
<1>11. ClaimsAreOwned'
  BY <1>3, <1>4, <1>5, <1>6 DEF ClaimsAreOwned, mongoVars, Owner
<1>12. RowsAreFilled'
  BY <1>3, <1>5, <1>6 DEF RowsAreFilled
<1>. QED
  BY <1>8, <1>9, <1>10, <1>11, <1>12

-----------------------------------------------------------------------------
(* Every step keeps the invariant *)

\* The seed of Mongo changes policies only while there is neither a policy nor,
\* therefore, a claim.
LEMMA SeedingKeeps ==
  ASSUME IInv, Start \/ SeedCustomers \/ SeedAgents \/ SeedPolicies \/ SeedFails
  PROVE  IInv'
<1>1. /\ UNCHANGED <<claimVars, simVars, requestVars, reader, crashes>>
      /\ faults' \in Nat
  BY DEF Start, SeedCustomers, SeedAgents, SeedPolicies, SeedFails, Fault,
         bounds, IInv, TypeOK
<1>2. pc \in {"down", "customers", "agents", "policies"}
  BY DEF Start, SeedCustomers, SeedAgents, SeedPolicies, SeedFails
<1>3. /\ sim = "off"
      /\ \A q \in Request :
           handler[q] \notin {"received", "validated", "committed"}
  BY <1>2 DEF IInv, TickIsCurrent, HandlersWork
<1>4. pc' \in {"customers", "claims", "agents", "policies", "down"}
  BY DEF Start, SeedCustomers, SeedAgents, SeedPolicies, SeedFails
<1>5. users' \subseteq User /\ owner' \in [Policy -> Customer \cup {None}]
  <2>1. users \subseteq User /\ owner \in [Policy -> Customer \cup {None}]
    BY DEF IInv, TypeOK
  <2>. QED
    BY <2>1 DEF Start, SeedCustomers, SeedAgents, SeedPolicies, SeedFails,
                User, mongoVars
<1>6. TypeOK'
  BY <1>1, <1>4, <1>5
     DEF IInv, TypeOK, claimVars, simVars, requestVars, bounds
<1>7. UNCHANGED owner \/ Policies = {}
  BY DEF Start, SeedCustomers, SeedAgents, SeedPolicies, SeedFails, mongoVars,
         IInv, Seeding
<1>8. UNCHANGED owner \/ Rows = {}
  BY <1>7, AgentsAreThere
<1>9. Rows' = Rows
  BY <1>1 DEF Rows, Exists, claimVars
<1>10. Seeding'
  <2>1. Policies' = Policies \/ Policies = {}
    BY <1>7 DEF Policies
  <2>2. users \subseteq users'
    BY DEF Start, SeedCustomers, SeedAgents, SeedPolicies, SeedFails, mongoVars
  <2>3. CASE Start
    BY <2>3 DEF Start, mongoVars, Policies, IInv, Seeding
  <2>4. CASE SeedCustomers
    BY <2>4 DEF SeedCustomers, Policies, IInv, Seeding
  <2>5. CASE SeedAgents
    BY <2>5 DEF SeedAgents, Policies, IInv, Seeding
  <2>6. CASE SeedPolicies \/ SeedFails
    <3>1. pc' \in {"claims", "down"}
      BY <2>6 DEF SeedPolicies, SeedFails
    <3>2. CASE pc = "policies"
      <4>1. Agent \subseteq users'
        BY <2>2, <3>2 DEF IInv, Seeding
      <4>2. users' # {}
        BY <4>1, ConstantsAssumption
      <4>. QED
        BY <3>1, <4>1, <4>2 DEF Seeding
    <3>3. CASE pc # "policies"
      <4>1. pc \in {"customers", "agents"} /\ UNCHANGED owner
        BY <2>6, <3>3 DEF SeedPolicies, SeedFails
      <4>2. Policies' = {}
        BY <4>1 DEF IInv, Seeding, Policies
      <4>. QED
        BY <3>1, <4>2 DEF Seeding
    <3>. QED
      BY <3>2, <3>3
  <2>. QED
    BY <2>3, <2>4, <2>5, <2>6
<1>11. HistoryIsAPath' /\ AdjusterActs'
  BY <1>1, <1>9 DEF IInv, HistoryIsAPath, AdjusterActs, claimVars
<1>12. ClaimsAreOwned' /\ RowsAreFilled'
  BY <1>1, <1>8, <1>9 DEF IInv, ClaimsAreOwned, RowsAreFilled, claimVars
<1>13. TickIsCurrent'
  BY <1>1, <1>3 DEF IInv, TickIsCurrent, simVars
<1>14. HandlersWork'
  BY <1>1, <1>3, <1>9 DEF IInv, HandlersWork, requestVars
<1>15. ReadingIsCovered' /\ ReaderSeesItsStatus'
  BY <1>1, ReaderFrame
<1>. QED
  BY <1>6, <1>10, <1>11, <1>12, <1>13, <1>14, <1>15 DEF IInv

\* The seed inserts claims into an empty table only.
LEMMA SeedClaimsKeeps ==
  ASSUME IInv, SeedClaims
  PROVE  IInv'
<1>1. /\ pc = "claims" /\ pc' = "serving" /\ sim' = "sleeping"
      /\ UNCHANGED <<mongoVars, tick, requestVars, reader, bounds>>
  BY DEF SeedClaims
<1>2. CASE UNCHANGED claimVars
  <2>1. TypeOK'
    BY <1>1, <1>2 DEF IInv, TypeOK, claimVars, mongoVars, requestVars, bounds
  <2>2. Seeding'
    BY <1>1 DEF IInv, Seeding, mongoVars, Policies
  <2>3. /\ Rows' = Rows
        /\ HistoryIsAPath' /\ AdjusterActs' /\ ClaimsAreOwned' /\ RowsAreFilled'
    BY <1>1, <1>2, ClaimsFrame
  <2>4. TickIsCurrent'
    BY <1>1 DEF TickIsCurrent
  <2>5. HandlersWork'
    BY <1>1, <2>3 DEF IInv, HandlersWork, requestVars, mongoVars, Authorized,
                      Valid
  <2>6. ReadingIsCovered' /\ ReaderSeesItsStatus'
    BY <1>1, <1>2, ReaderFrame
  <2>. QED
    BY <2>1, <2>2, <2>3, <2>4, <2>5, <2>6 DEF IInv
<1>3. CASE Rows = {} /\ InsertSeedClaims
  <2>1. /\ status' \in [Claim -> Statuses \cup {None}]
        /\ customer' \in [Claim -> Customer \cup {None}]
        /\ policy' \in [Claim -> Policy \cup {None}]
        /\ adjuster' \in [Claim -> Agent \cup {None}]
        /\ history' \in [Claim -> Seq(Entries)]
        /\ HistoryIsAPath' /\ AdjusterActs' /\ ClaimsAreOwned' /\ RowsAreFilled'
    BY <1>1, <1>3, InsertSafe
  <2>2. TypeOK'
    BY <1>1, <2>1 DEF IInv, TypeOK, mongoVars, requestVars, bounds
  <2>3. Seeding'
    BY <1>1 DEF IInv, Seeding, mongoVars, Policies
  <2>4. TickIsCurrent'
    BY <1>1 DEF TickIsCurrent
  <2>5. \A q \in Request : filed[q] = None /\ handler[q] \in {"idle", "done"}
    BY <1>1, <1>3 DEF IInv, HandlersWork, TypeOK
  <2>6. HandlersWork'
    BY <1>1, <2>5 DEF IInv, HandlersWork, requestVars
  <2>7. ReadingIsCovered' /\ ReaderSeesItsStatus'
    BY <1>1, <1>3 DEF IInv, ReadingIsCovered, ReaderSeesItsStatus
  <2>. QED
    BY <2>1, <2>2, <2>3, <2>4, <2>6, <2>7 DEF IInv
<1>. QED
  BY <1>2, <1>3 DEF SeedClaims

\* The end of the process touches neither database.
LEMMA EndKeeps ==
  ASSUME IInv, Crash \/ StopSimulator \/ Dispose
  PROVE  IInv'
<1>1. UNCHANGED <<claimVars, mongoVars>>
  BY DEF Crash, StopSimulator, Dispose, ProcessEnds
<1>2. /\ Rows' = Rows
      /\ HistoryIsAPath' /\ AdjusterActs' /\ ClaimsAreOwned' /\ RowsAreFilled'
  BY <1>1, ClaimsFrame
<1>3. TypeOK /\ faults' = faults /\ crashes' \in Nat
  BY DEF IInv, TypeOK, Crash, StopSimulator, Dispose, bounds
<1>4. Seeding'
  <2>1. pc' \in {"down", "stopping"}
    BY DEF Crash, StopSimulator, Dispose, ProcessEnds
  <2>. QED
    BY <1>1, <2>1 DEF IInv, Seeding, mongoVars, Policies
<1>5. CASE StopSimulator
  <2>1. /\ pc = "serving" /\ pc' = "stopping"
        /\ UNCHANGED <<simVars, requestVars, reader>>
        /\ \A q \in Request : handler[q] \in {"idle", "done"}
    BY <1>5 DEF StopSimulator
  <2>2. TypeOK'
    BY <1>1, <1>3, <2>1 DEF TypeOK, claimVars, mongoVars, simVars, requestVars
  <2>3. TickIsCurrent'
    BY <1>1, <2>1 DEF IInv, TickIsCurrent, simVars, claimVars, Rows, Exists
  <2>4. HandlersWork'
    BY <1>1, <1>2, <2>1 DEF IInv, HandlersWork, requestVars, mongoVars,
                            Authorized, Valid
  <2>5. ReadingIsCovered' /\ ReaderSeesItsStatus'
    BY <1>1, <2>1, ReaderFrame
  <2>. QED
    BY <1>2, <1>4, <2>2, <2>3, <2>4, <2>5 DEF IInv
<1>6. CASE ProcessEnds
  <2>1. /\ pc' = "down" /\ sim' = "off" /\ tick' = NoTick
        /\ reader' = NoRead
        /\ handler' = [q \in Request |->
                         IF handler[q] = "idle" THEN "idle" ELSE "done"]
        /\ view' = [q \in Request |->
                      IF view[q] = "waiting" THEN "failed" ELSE view[q]]
        /\ UNCHANGED <<payload, filed>>
    BY <1>6 DEF ProcessEnds
  <2>2. TypeOK'
    <3>1. NoRead \in Reads
      BY DEF NoRead, Reads
    <3>. QED
      BY <1>1, <1>3, <2>1, <3>1 DEF TypeOK, claimVars, mongoVars
  <2>3. TickIsCurrent' /\ ReadingIsCovered' /\ ReaderSeesItsStatus'
    BY <2>1 DEF TickIsCurrent, ReadingIsCovered, ReaderSeesItsStatus, NoRead
  <2>4. HandlersWork'
    BY <1>2, <2>1 DEF IInv, HandlersWork
  <2>. QED
    BY <1>2, <1>4, <2>2, <2>3, <2>4 DEF IInv
<1>. QED
  BY <1>5, <1>6 DEF Crash, Dispose

\* A tick loads what nobody else changes before it commits.
LEMMA SimulatorKeeps ==
  ASSUME IInv, SimulatorStep
  PROVE  IInv'
<1>1. /\ UNCHANGED <<pc, mongoVars, requestVars, reader, crashes>>
      /\ faults' \in Nat
  BY DEF SimulatorStep, TickRead, TickIdle, TickPick, TickCommit, TickFails,
         SimulatorEnds, Fault, bounds, IInv, TypeOK
<1>2. TypeOK /\ TickIsCurrent
  BY DEF IInv
<1>3. Seeding'
  BY <1>1, SeedingFrame
<1>4. /\ sim' \in {"off", "sleeping", "picking", "writing"}
      /\ tick' \in Ticks \cup {NoTick}
      /\ TickIsCurrent' \/ ~UNCHANGED claimVars
  <2>1. ASSUME NEW c \in Claim, TickRead(c)
        PROVE  <1>4!1 /\ <1>4!2 /\ <1>4!3
    <3>1. PICK next \in Statuses :
            /\ <<status[c], next>> \in Transitions
            /\ tick' = [claim |-> c, from |-> status[c], to |-> next,
                        actor |-> adjuster[c]]
      BY <2>1 DEF TickRead
    <3>2. /\ c \in Rows /\ status[c] \in Statuses
          /\ sim' = IF status[c] = "submitted" THEN "picking" ELSE "writing"
          /\ pc = "serving" /\ UNCHANGED <<claimVars>>
      BY <2>1, <3>1, TransitionFacts DEF TickRead, OpenClaims
    <3>3. tick' \in Ticks
      BY <1>2, <3>1, <3>2 DEF Ticks, TypeOK
    <3>4. status[c] # "submitted" => adjuster[c] \in Agent
      BY <3>2 DEF IInv, AdjusterActs
    <3>5. TickIsCurrent'
      BY <1>1, <3>1, <3>2, <3>3, <3>4
         DEF TickIsCurrent, claimVars, Rows, Exists
    <3>. QED
      BY <1>2, <3>2, <3>3, <3>5 DEF TypeOK
  <2>2. CASE TickIdle
    BY <2>2, <1>1, <1>2 DEF TickIdle, TickEnds, TickIsCurrent
  <2>3. CASE TickPick
    <3>1. sim = "picking" /\ sim' = "writing"
      BY <2>3 DEF TickPick
    <3>2. tick \in Ticks /\ tick.claim \in Rows
      BY <1>2, <3>1 DEF TickIsCurrent
    <3>3. Agents = Agent
      BY <3>2, AgentsAreThere
    <3>4. PICK a \in Agent : tick' = [tick EXCEPT !.actor = a]
      BY <2>3, <3>3, ConstantsAssumption DEF TickPick
    <3>5. /\ tick' \in Ticks /\ tick'.actor = a
          /\ tick'.claim = tick.claim /\ tick'.from = tick.from
          /\ tick'.to = tick.to
      BY <3>2, <3>4 DEF Ticks
    <3>6. UNCHANGED <<claimVars>>
      BY <2>3 DEF TickPick
    <3>7. TickIsCurrent'
      BY <1>1, <1>2, <3>1, <3>2, <3>5, <3>6
         DEF TickIsCurrent, claimVars, Rows, Exists
    <3>. QED
      BY <1>2, <3>1, <3>5, <3>6, <3>7 DEF TypeOK
  <2>4. CASE TickCommit
    BY <2>4, <1>1, <1>2 DEF TickCommit, TickEnds, TickIsCurrent
  <2>5. CASE TickFails
    BY <2>5, <1>1, <1>2 DEF TickFails, TickEnds, TickIsCurrent, TypeOK
  <2>6. CASE SimulatorEnds
    BY <2>6, <1>1, <1>2 DEF SimulatorEnds, TickIsCurrent, TypeOK
  <2>. QED
    BY <2>1, <2>2, <2>3, <2>4, <2>5, <2>6 DEF SimulatorStep
<1>5. CASE UNCHANGED claimVars
  <2>1. TypeOK'
    BY <1>1, <1>2, <1>4, <1>5
       DEF TypeOK, claimVars, mongoVars, requestVars
  <2>2. /\ HistoryIsAPath' /\ AdjusterActs' /\ ClaimsAreOwned' /\ RowsAreFilled'
    BY <1>1, <1>5, ClaimsFrame
  <2>3. HandlersWork'
    BY <1>1, <1>5, RequestFrame
  <2>4. ReadingIsCovered' /\ ReaderSeesItsStatus'
    BY <1>1, <1>5, ReaderFrame
  <2>. QED
    BY <1>3, <1>4, <1>5, <2>1, <2>2, <2>3, <2>4 DEF IInv
<1>6. CASE sim = "writing" /\ Transition /\ sim' \in {"sleeping", "off"}
  <2>1. /\ Rows' = Rows
        /\ status' \in [Claim -> Statuses \cup {None}]
        /\ adjuster' \in [Claim -> Agent \cup {None}]
        /\ history' \in [Claim -> Seq(Entries)]
        /\ UNCHANGED <<customer, policy>>
        /\ HistoryIsAPath' /\ AdjusterActs' /\ ClaimsAreOwned' /\ RowsAreFilled'
        /\ \A d \in Rows :
             /\ Len(history[d]) <= Len(history'[d])
             /\ \A i \in 1..Len(history[d]) : history'[d][i] = history[d][i]
    BY <1>1, <1>6, TransitionSafe
  <2>2. TypeOK'
    BY <1>1, <1>2, <1>4, <2>1 DEF TypeOK, mongoVars, requestVars
  <2>3. TickIsCurrent'
    BY <1>1, <1>2, <1>6 DEF TickIsCurrent
  <2>4. HandlersWork'
    BY <1>1, <2>1 DEF IInv, HandlersWork, requestVars, mongoVars, Authorized,
                      Valid
  <2>5. ReadingIsCovered'
    <3>1. SUFFICES ASSUME reader.stage = "row"
                   PROVE  \E i \in DOMAIN history'[reader.claim] :
                            history'[reader.claim][i].to = reader.status
      BY <1>1, <2>1 DEF IInv, ReadingIsCovered
    <3>2. reader.claim \in Rows /\ reader.claim \in Claim
      BY <3>1 DEF IInv, ReadingIsCovered, Rows
    <3>3. PICK i \in DOMAIN history[reader.claim] :
            history[reader.claim][i].to = reader.status
      BY <3>1 DEF IInv, ReadingIsCovered
    <3>4. /\ history[reader.claim] \in Seq(Entries)
          /\ history'[reader.claim] \in Seq(Entries)
      BY <1>2, <2>1, <3>2 DEF TypeOK
    <3>5. /\ i \in 1..Len(history[reader.claim])
          /\ i \in DOMAIN history'[reader.claim]
      BY <2>1, <3>2, <3>4
    <3>. QED
      BY <2>1, <3>2, <3>3, <3>5
  <2>6. ReaderSeesItsStatus'
    BY <1>1 DEF IInv, ReaderSeesItsStatus
  <2>. QED
    BY <1>3, <2>1, <2>2, <2>3, <2>4, <2>5, <2>6 DEF IInv
<1>. QED
  BY <1>5, <1>6 DEF SimulatorStep, TickRead, TickIdle, TickPick, TickCommit,
                    TickFails, SimulatorEnds, TickEnds

\* A handler checks, then files; FNOL may have given up on it.
LEMMA RequestKeeps ==
  ASSUME IInv, NEW q \in Request, RequestStep(q)
  PROVE  IInv'
<1>1. TypeOK /\ HandlersWork
  BY DEF IInv
<1>2. CASE \E c \in Claim : Persist(q, c)
  <2>1. PICK c \in Claim : Persist(q, c)
    BY <1>2
  <2>2. /\ Rows' = Rows \cup {c} /\ c \notin Rows
        /\ TypeOK'
        /\ HistoryIsAPath' /\ AdjusterActs' /\ ClaimsAreOwned'
        /\ RowsAreFilled'
        /\ \A d \in Rows : history'[d] = history[d] /\ status'[d] = status[d]
    BY <2>1, PersistSafe
  <2>3. /\ UNCHANGED <<pc, mongoVars, adjuster, simVars, payload, view, reader>>
        /\ handler[q] = "validated"
        /\ filed' = [filed EXCEPT ![q] = c]
        /\ handler' = [handler EXCEPT ![q] = "committed"]
    BY <2>1 DEF Persist
  <2>4. Seeding'
    BY <2>3, SeedingFrame
  <2>5. TickIsCurrent'
    <3>1. \A d \in Rows : adjuster'[d] = adjuster[d] /\ d \in Rows'
      BY <2>2, <2>3
    <3>2. TickIsCurrent
      BY DEF IInv
    <3>. QED
      BY <2>2, <2>3, <3>1, <3>2 DEF TickIsCurrent, simVars
  <2>6. c # None
    BY ConstantsAssumption
  <2>7. \A r \in Request : filed[r] # c
    BY <1>1, <2>2, <2>6 DEF HandlersWork
  <2>8. HandlersWork'
    BY <1>1, <2>2, <2>3, <2>6, <2>7 DEF HandlersWork, TypeOK, mongoVars,
                                         Authorized, Valid
  <2>9. ReadingIsCovered' /\ ReaderSeesItsStatus'
    BY <2>2, <2>3 DEF IInv, ReadingIsCovered, ReaderSeesItsStatus
  <2>. QED
    BY <2>2, <2>4, <2>5, <2>8, <2>9 DEF IInv
<1>3. CASE \/ Submit(q) \/ Accept(q) \/ Reject(q)
           \/ Respond(q) \/ HandlerFails(q) \/ GiveUp(q)
  <2>1. /\ UNCHANGED <<pc, mongoVars, claimVars, simVars, filed, reader, crashes>>
        /\ faults' \in Nat
    BY <1>1, <1>3 DEF Submit, Accept, Reject, Respond, HandlerFails, GiveUp,
                      Fault, bounds, TypeOK
  <2>2. /\ Rows' = Rows /\ HistoryIsAPath' /\ AdjusterActs' /\ ClaimsAreOwned'
        /\ RowsAreFilled'
    BY <2>1, ClaimsFrame
  <2>3. Seeding' /\ ReadingIsCovered' /\ ReaderSeesItsStatus'
    BY <2>1, SeedingFrame, ReaderFrame
  <2>4. TickIsCurrent'
    BY <2>1, SimulatorFrame DEF simVars
  <2>5. TypeOK' /\ HandlersWork'
    <3>1. CASE Submit(q)
      <4>1. PICK p \in Payloads : payload' = [payload EXCEPT ![q] = p]
        <5>1. PICK u \in users, c \in Customer, p \in Policy, ok \in BOOLEAN :
                payload' = [payload EXCEPT
                     ![q] = [user |-> u, customer |-> c, policy |-> p, ok |-> ok]]
          BY <3>1 DEF Submit
        <5>2. [user |-> u, customer |-> c, policy |-> p, ok |-> ok] \in Payloads
          BY <1>1, <5>1 DEF TypeOK, Payloads
        <5>. QED
          BY <5>1, <5>2
      <4>2. /\ pc = "serving" /\ view[q] = "none"
            /\ handler' = [handler EXCEPT ![q] = "received"]
            /\ view' = [view EXCEPT ![q] = "waiting"]
        BY <3>1 DEF Submit
      <4>3. handler[q] = "idle" /\ filed[q] = None
        BY <1>1, <4>2 DEF HandlersWork
      <4>4. TypeOK'
        BY <1>1, <2>1, <4>1, <4>2
           DEF TypeOK, mongoVars, claimVars, simVars
      <4>. QED
        BY <1>1, <2>1, <2>2, <4>1, <4>2, <4>3, <4>4
           DEF HandlersWork, TypeOK, mongoVars, Authorized, Valid
    <3>2. CASE Accept(q)
      BY <1>1, <2>1, <2>2, <3>2
         DEF Accept, TypeOK, HandlersWork, mongoVars, claimVars, simVars,
             Authorized, Valid
    <3>3. CASE Reject(q)
      BY <1>1, <2>1, <2>2, <3>3
         DEF Reject, Told, TypeOK, HandlersWork, mongoVars, claimVars, simVars,
             Authorized, Valid
    <3>4. CASE Respond(q)
      BY <1>1, <2>1, <2>2, <3>4
         DEF Respond, Told, TypeOK, HandlersWork, mongoVars, claimVars, simVars,
             Authorized, Valid
    <3>5. CASE HandlerFails(q)
      BY <1>1, <2>1, <2>2, <3>5
         DEF HandlerFails, Told, TypeOK, HandlersWork, mongoVars, claimVars,
             simVars, Authorized, Valid
    <3>6. CASE GiveUp(q)
      BY <1>1, <2>1, <2>2, <3>6
         DEF GiveUp, TypeOK, HandlersWork, mongoVars, claimVars, simVars,
             Authorized, Valid
    <3>. QED
      BY <1>3, <3>1, <3>2, <3>3, <3>4, <3>5, <3>6
  <2>. QED
    BY <2>2, <2>3, <2>4, <2>5 DEF IInv
<1>. QED
  BY <1>2, <1>3 DEF RequestStep

\* A read loads a status that the history has, and keeps having.
LEMMA ReaderKeeps ==
  ASSUME IInv, (\E c \in Claim : ReadRow(c)) \/ ReadHistory
  PROVE  IInv'
<1>1. UNCHANGED <<pc, mongoVars, claimVars, simVars, requestVars, bounds>>
  BY DEF ReadRow, ReadHistory
<1>2. /\ HistoryIsAPath' /\ AdjusterActs' /\ ClaimsAreOwned' /\ RowsAreFilled'
  BY <1>1, ClaimsFrame
<1>3. Seeding' /\ TickIsCurrent' /\ HandlersWork'
  BY <1>1, SeedingFrame, SimulatorFrame, RequestFrame DEF simVars
<1>4. TypeOK
  BY DEF IInv
<1>5. reader' \in Reads /\ ReadingIsCovered' /\ ReaderSeesItsStatus'
  <2>1. ASSUME NEW c \in Claim, ReadRow(c)
        PROVE  reader' \in Reads /\ ReadingIsCovered' /\ ReaderSeesItsStatus'
    <3>1. /\ reader' = [stage |-> "row", claim |-> c, status |-> status[c],
                        entries |-> {}]
          /\ c \in Rows
      BY <2>1 DEF ReadRow, Rows
    <3>2. /\ history[c] # <<>> /\ history[c] \in Seq(Entries)
          /\ history[c][Len(history[c])].to = status[c]
      BY <1>4, <3>1 DEF IInv, HistoryIsAPath, TypeOK, Rows
    <3>3. Len(history[c]) \in DOMAIN history[c]
      BY <3>2, EmptySeq
    <3>. QED
      BY <1>1, <1>4, <3>1, <3>2, <3>3
         DEF Reads, TypeOK, ReadingIsCovered, ReaderSeesItsStatus, claimVars,
             Rows, Exists
  <2>2. CASE ReadHistory
    <3>1. /\ reader.stage = "row" /\ reader \in Reads
          /\ reader' = [reader EXCEPT
                          !.stage = "answered",
                          !.entries = {history[reader.claim][i] :
                                         i \in DOMAIN history[reader.claim]}]
      BY <1>4, <2>2 DEF ReadHistory, TypeOK
    <3>2. /\ reader.claim \in Claim
          /\ \E i \in DOMAIN history[reader.claim] :
               history[reader.claim][i].to = reader.status
      BY <3>1 DEF IInv, ReadingIsCovered, Rows
    <3>3. \A i \in DOMAIN history[reader.claim] :
            history[reader.claim][i] \in Entries
      BY <1>4, <3>2 DEF TypeOK
    <3>4. /\ reader'.stage = "answered" /\ reader'.claim = reader.claim
          /\ reader'.status = reader.status
          /\ reader'.entries = {history[reader.claim][i] :
                                  i \in DOMAIN history[reader.claim]}
          /\ reader' = [stage |-> "answered", claim |-> reader.claim,
                        status |-> reader.status, entries |-> reader'.entries]
      BY <3>1 DEF Reads
    <3>5. reader' \in Reads
      <4>1. reader'.entries \subseteq Entries
        BY <3>3, <3>4
      <4>2. /\ reader.claim \in Claim \cup {None}
            /\ reader.status \in Statuses \cup {None}
        BY <3>1 DEF Reads
      <4>. HIDE DEF Entries
      <4>. QED
        BY <3>4, <4>1, <4>2 DEF Reads
    <3>6. \E e \in reader'.entries : e.to = reader'.status
      BY <3>2, <3>4
    <3>. QED
      BY <3>4, <3>5, <3>6 DEF ReadingIsCovered, ReaderSeesItsStatus
  <2>. QED
    BY <2>1, <2>2
<1>6. TypeOK'
  BY <1>1, <1>4, <1>5
     DEF TypeOK, mongoVars, claimVars, simVars, requestVars, bounds
<1>. QED
  BY <1>2, <1>3, <1>5, <1>6 DEF IInv

LEMMA InitHolds == Init => IInv
<1>1. SUFFICES ASSUME Init PROVE IInv
  OBVIOUS
<1>2. Rows = {} /\ Policies = {}
  BY <1>1 DEF Init, Rows, Exists, Policies
<1>3. TypeOK
  <2>1. <<>> \in Seq(Entries) /\ NoRead \in Reads
    BY DEF NoRead, Reads
  <2>. HIDE DEF Entries, Reads
  <2>2. /\ users \subseteq User
        /\ owner \in [Policy -> Customer \cup {None}]
        /\ status \in [Claim -> Statuses \cup {None}]
        /\ history \in [Claim -> Seq(Entries)]
    BY <1>1, <2>1 DEF Init
  <2>. QED
    BY <1>1, <2>1, <2>2 DEF Init, TypeOK
<1>. QED
  BY <1>1, <1>2, <1>3
     DEF Init, IInv, Seeding, HistoryIsAPath, AdjusterActs, ClaimsAreOwned,
         RowsAreFilled, TickIsCurrent, HandlersWork, ReadingIsCovered,
         ReaderSeesItsStatus, NoRead

LEMMA StutterKeeps == IInv /\ UNCHANGED vars => IInv'
<1>1. SUFFICES ASSUME IInv, UNCHANGED vars PROVE IInv'
  OBVIOUS
<1>2. /\ UNCHANGED <<pc, mongoVars, claimVars, simVars, requestVars, reader,
                     bounds>>
  BY <1>1 DEF vars
<1>3. TypeOK'
  BY <1>1, <1>2
     DEF IInv, TypeOK, mongoVars, claimVars, simVars, requestVars, bounds
<1>. QED
  BY <1>1, <1>2, <1>3, ClaimsFrame, SimulatorFrame, RequestFrame, ReaderFrame,
     SeedingFrame
     DEF IInv, simVars

LEMMA StepKeeps == IInv /\ [Next]_vars => IInv'
<1>1. SUFFICES ASSUME IInv, [Next]_vars PROVE IInv'
  OBVIOUS
<1>2. CASE \/ Start \/ SeedCustomers \/ SeedAgents \/ SeedPolicies \/ SeedFails
  BY <1>1, <1>2, SeedingKeeps
<1>3. CASE SeedClaims
  BY <1>1, <1>3, SeedClaimsKeeps
<1>4. CASE Crash \/ StopSimulator \/ Dispose
  BY <1>1, <1>4, EndKeeps
<1>5. CASE SimulatorStep
  BY <1>1, <1>5, SimulatorKeeps
<1>6. CASE \E q \in Request : RequestStep(q)
  BY <1>1, <1>6, RequestKeeps
<1>7. CASE (\E c \in Claim : ReadRow(c)) \/ ReadHistory
  BY <1>1, <1>7, ReaderKeeps
<1>8. CASE UNCHANGED vars
  BY <1>1, <1>8, StutterKeeps
<1>. QED
  BY <1>1, <1>2, <1>3, <1>4, <1>5, <1>6, <1>7, <1>8 DEF Next, Startup

LEMMA Invariance == Spec => []IInv
BY InitHolds, StepKeeps, PTL DEF Spec

-----------------------------------------------------------------------------
(* The theorems *)

\* Every variable has its type in every reachable state.
THEOREM TypeCorrect == Spec => []TypeOK
<1>1. IInv => TypeOK
  BY DEF IInv
<1>. QED
  BY <1>1, Invariance, PTL

\* A claim's history is always a path of the status graph to its status: the
\* simulator writes what its tick loaded, and nobody else changes a claim.
THEOREM HistoryStaysAPath == Spec => []HistoryIsAPath
<1>1. IInv => HistoryIsAPath
  BY DEF IInv
<1>. QED
  BY <1>1, Invariance, PTL

\* No claim leaves its submission without an agent, and its adjuster signs
\* every later row, whatever point the seed was interrupted at.
THEOREM AdjusterAlwaysActs == Spec => []AdjusterActs
<1>1. IInv => AdjusterActs
  BY DEF IInv
<1>. QED
  BY <1>1, Invariance, PTL

\* claim_status.py:142-176: every history is a path, signed by who may act,
\* through failing ticks, crashes and interrupted seeds.
THEOREM HistoryStaysSound == Spec => []HistoryIsSound
<1>. QED
  BY HistoryStaysAPath, AdjusterAlwaysActs, PTL DEF HistoryIsSound

\* A claim belongs to the owner of its policy, who filed it.
THEOREM ClaimsStayOwned == Spec => []ClaimsAreOwned
<1>1. IInv => ClaimsAreOwned
  BY DEF IInv
<1>. QED
  BY <1>1, Invariance, PTL

\* No answer of POST /fnol/submit is ever false, however late it comes.
THEOREM AnswersStayTrue == Spec => []AnswersAreTrue
<1>1. IInv => AnswersAreTrue
  BY DEF IInv, HandlersWork, AnswersAreTrue
<1>. QED
  BY <1>1, Invariance, PTL

\* GET /claims/{id} never shows a status that its history lacks.
THEOREM ReaderStaysCovered == Spec => []ReaderSeesItsStatus
<1>1. IInv => ReaderSeesItsStatus
  BY DEF IInv
<1>. QED
  BY <1>1, Invariance, PTL

\* No step loses or rewrites a row of a history, and a finished claim is
\* finished for good.
THEOREM TimelineStaysKept == Spec => TimelineIsKept
<1>. DEFINE Kept == \A c \in Rows :
                     /\ Len(history[c]) <= Len(history'[c])
                     /\ \A i \in 1..Len(history[c]) :
                          history'[c][i] = history[c][i]
                     /\ status[c] \in Terminal => history'[c] = history[c]
<1>1. IInv /\ [Next]_vars => [Kept]_vars
  <2>1. SUFFICES ASSUME IInv, Next PROVE Kept
    BY DEF vars
  <2>2. \A c \in Rows : Len(history[c]) \in Nat
    BY <2>1 DEF IInv, TypeOK, Rows
  <2>3. CASE UNCHANGED claimVars
    BY <2>2, <2>3 DEF claimVars
  <2>4. CASE Rows = {}
    BY <2>4
  <2>5. CASE sim = "writing" /\ Transition /\ UNCHANGED mongoVars
    BY <2>1, <2>5, TransitionSafe
  <2>6. CASE \E q \in Request, c \in Claim : Persist(q, c)
    <3>1. \A c \in Rows : history'[c] = history[c]
      BY <2>1, <2>6, PersistSafe
    <3>. QED
      BY <2>2, <3>1
  <2>7. CASE Startup \/ SeedFails \/ Crash \/ StopSimulator \/ Dispose
    BY <2>3, <2>4, <2>7
       DEF Startup, SeedFails, Crash, StopSimulator, Dispose, Start,
           SeedCustomers, SeedAgents, SeedPolicies, SeedClaims
  <2>8. CASE SimulatorStep
    BY <2>3, <2>5, <2>8
       DEF SimulatorStep, TickRead, TickIdle, TickPick, TickCommit, TickFails,
           SimulatorEnds
  <2>9. CASE \E q \in Request : RequestStep(q)
    BY <2>3, <2>6, <2>9
       DEF RequestStep, Submit, Accept, Reject, Respond, HandlerFails, GiveUp
  <2>10. CASE (\E c \in Claim : ReadRow(c)) \/ ReadHistory
    BY <2>3, <2>10 DEF ReadRow, ReadHistory
  <2>. QED
    BY <2>1, <2>7, <2>8, <2>9, <2>10 DEF Next
<1>. QED
  BY <1>1, Invariance, PTL DEF Spec, TimelineIsKept
=============================================================================
