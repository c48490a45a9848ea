-------------------------- MODULE AppRequestsProofs --------------------------
(***************************************************************************)
(* Theorems about AppRequests: whose tag a line carries, whom an injected  *)
(* fault may reach, whose claims are filed, and what a client is told, for *)
(* any number of requests, users and key configurations.                   *)
(*                                                                         *)
(* The invariant has three layers.  Good says what is true of one hop at   *)
(* each point of its application's stack; HopsAgree says what the two hops *)
(* of a forwarded request know of each other; TokensAreTrue and            *)
(* ClaimsAreTrue say what an issued token and a filed claim go back to.    *)
(* An action moves one hop (OneHopMoves, QuietMove, AnswerMove) or brings  *)
(* a new one (ArrivalKeeps, ForwardKeeps), so each of these is shown once. *)
(***************************************************************************)
EXTENDS AppRequests, SequenceTheorems, TLAPS

-----------------------------------------------------------------------------
(* What a hop, a line and a token look like.                               *)

Levels == {"INFO", "WARN", "ERROR"}
Events == {"request", "chaos", "jwt_decode_failed", "sda_upstream_rejected",
           "sda_upstream_unreachable", "done", "login_failed", "login_success",
           "claim_validation_rejected", "claim_created", "unhandled_exception",
           "http_exception"}
Sources == {"prod", "synthetic", "test", "health", "absent", Unknown}
Statuses == {0, 200, 201, 400, 401, 403, 404, 418, 500, 502}
Routes == {"login", "read", "health", "submit"}
Directive == {"none", "slow", "invalid", "error418", "error500"}
KeyValues == {NoKey} \cup {ks[e] : ks \in KeySchemes, e \in Edges}

LineType == [event : Events, level : Levels, source : Sources,
             status : Statuses]
TokenType == [by : Requests, user : Users, role : {"customer", "agent"},
              app : Edges, via : Edges]
HopType ==
  [app : Apps, route : Routes, user : Users \cup {Nobody}, source : Sources,
   chaos : Directive, key : KeyValues, bearer : TokenType \cup {NoToken},
   at : 1..5, stage : {"filters", "asleep", "waiting"}, ctx : Sources,
   caller : Edges \cup {"-"}, who : Users \cup {Nobody},
   lines : Seq(LineType), status : Statuses]

LinesIn(p) == {p.lines[i] : i \in DOMAIN p.lines}

\* Where in its stack an application logs, injects and routes.
LogAt(app) == IF app = "ap" THEN 2 ELSE 1
ChaosAt(app) == IF app \in {"fnol", "cp"} THEN 2 ELSE 3
RouteAt(app) == IF app = "sda" THEN 5 ELSE 4

\* The four stacks, spelt out.
LEMMA StackIs ==
  /\ \A app \in {"fnol", "cp"} :
       StackOf(app) = <<"log", "chaos", "token", "route">>
  /\ StackOf("ap") = <<"token", "log", "chaos", "route">>
  /\ StackOf("sda") = <<"log", "key", "chaos", "token", "route">>
BY DEF StackOf, FnolStack, CustomerStack, AgentStack, DataStack

\* A filter is found at one place of a stack only.
LEMMA AtLog ==
  ASSUME NEW app \in Apps, NEW i \in 1..5, StackOf(app)[i] = "log",
         i <= RouteAt(app)
  PROVE  i = LogAt(app)
BY StackIs DEF Apps, Edges, LogAt, RouteAt

LEMMA AtKey ==
  ASSUME NEW app \in Apps, NEW i \in 1..5, StackOf(app)[i] = "key",
         i <= RouteAt(app)
  PROVE  app = "sda" /\ i = 2
BY StackIs DEF Apps, Edges, RouteAt

LEMMA AtChaos ==
  ASSUME NEW app \in Apps, NEW i \in 1..5, StackOf(app)[i] = "chaos",
         i <= RouteAt(app)
  PROVE  i = ChaosAt(app)
BY StackIs DEF Apps, Edges, ChaosAt, RouteAt

LEMMA AtToken ==
  ASSUME NEW app \in Apps, NEW i \in 1..5, StackOf(app)[i] = "token",
         i <= RouteAt(app)
  PROVE  i = IF app = "ap" THEN 1 ELSE ChaosAt(app) + 1
BY StackIs DEF Apps, Edges, ChaosAt, RouteAt

LEMMA AtRoute ==
  ASSUME NEW app \in Apps, NEW i \in 1..5, StackOf(app)[i] = "route",
         i <= RouteAt(app)
  PROVE  i = RouteAt(app)
BY StackIs DEF Apps, Edges, RouteAt

\* A hop has passed the request log when it is beyond it.
LEMMA PassedLog ==
  ASSUME NEW p \in HopType, p.at <= RouteAt(p.app)
  PROVE  HasPassed(p, "log") <=> p.at > LogAt(p.app)
<1>1. p.app \in Apps /\ p.at \in 1..5
  BY DEF HopType
<1>2. ASSUME HasPassed(p, "log") PROVE p.at > LogAt(p.app)
  BY <1>1, <1>2, AtLog DEF HasPassed, RouteAt
<1>3. ASSUME p.at > LogAt(p.app) PROVE HasPassed(p, "log")
  <2>1. StackOf(p.app)[LogAt(p.app)] = "log"
    BY <1>1, StackIs DEF Apps, Edges, LogAt
  <2> QED BY <1>1, <1>3, <2>1 DEF HasPassed, LogAt
<1> QED BY <1>2, <1>3

\* To append an element adds it to those of the sequence.
LEMMA RangeOfAppend ==
  ASSUME NEW S, NEW s \in Seq(S), NEW e \in S
  PROVE  {Append(s, e)[i] : i \in DOMAIN Append(s, e)}
           = {s[i] : i \in DOMAIN s} \cup {e}
<1>1. Append(s, e) \in Seq(S) /\ Len(Append(s, e)) = Len(s) + 1
  OBVIOUS
<1>2. \A i \in 1..Len(s) : Append(s, e)[i] = s[i]
  OBVIOUS
<1>3. Append(s, e)[Len(s) + 1] = e
  OBVIOUS
<1>4. DOMAIN s = 1..Len(s) /\ DOMAIN Append(s, e) = 1..(Len(s) + 1)
  BY <1>1
<1>5. Len(s) \in Nat
  OBVIOUS
<1> QED BY <1>2, <1>3, <1>4, <1>5

\* ... and no index of a request line but its own, if it is one.
LEMMA RequestLinesOfAppend ==
  ASSUME NEW p \in HopType, NEW l \in LineType, NEW q,
         q.lines = Append(p.lines, l)
  PROVE  /\ l.event # "request" => RequestLines(q) = RequestLines(p)
         /\ l.event = "request" =>
              RequestLines(q) = RequestLines(p) \cup {Len(q.lines)}
         /\ q.lines[Len(q.lines)] = l
<1>1. p.lines \in Seq(LineType)
  BY DEF HopType
<1>2. /\ q.lines \in Seq(LineType) /\ Len(q.lines) = Len(p.lines) + 1
      /\ q.lines[Len(p.lines) + 1] = l /\ Len(p.lines) \in Nat
      /\ \A i \in 1..Len(p.lines) : q.lines[i] = p.lines[i]
  BY <1>1
<1>3. DOMAIN p.lines = 1..Len(p.lines) /\ DOMAIN q.lines = 1..(Len(p.lines) + 1)
  BY <1>1, <1>2
<1>4. ASSUME NEW i \in 1..(Len(p.lines) + 1), i # Len(p.lines) + 1
      PROVE  i \in 1..Len(p.lines)
  BY <1>2, <1>4
<1>5. 1..Len(p.lines) \subseteq 1..(Len(p.lines) + 1)
  BY <1>2
<1>6. Len(p.lines) + 1 \in 1..(Len(p.lines) + 1)
  BY <1>2
<1> QED BY <1>2, <1>3, <1>4, <1>5, <1>6 DEF RequestLines

\* What the operators that write a line write is one.
LEMMA LineIsLine ==
  ASSUME NEW p \in HopType, NEW event \in Events, NEW level \in Levels
  PROVE  Line(p, event, level) \in LineType
BY DEF Line, TagOn, LineType, HopType, Statuses, Sources

LEMMA RequestLineIsLine ==
  ASSUME NEW p \in HopType, NEW status \in Statuses
  PROVE  RequestLine(p, status) \in LineType
BY DEF RequestLine, LineType, HopType, Events, Levels

\* All but some fields are kept.
Kept(p, q) ==
  /\ q.app = p.app /\ q.route = p.route /\ q.user = p.user
  /\ q.source = p.source /\ q.chaos = p.chaos /\ q.key = p.key
  /\ q.bearer = p.bearer

\* Says adds a line and leaves the rest of the hop.
LEMMA SaysFields ==
  ASSUME NEW p \in HopType, NEW event \in Events, NEW level \in Levels
  PROVE  LET q == Says(p, event, level) IN
         /\ q \in HopType /\ Kept(p, q)
         /\ q.at = p.at /\ q.stage = p.stage /\ q.ctx = p.ctx
         /\ q.caller = p.caller /\ q.who = p.who /\ q.status = p.status
         /\ LinesIn(q) = LinesIn(p) \cup {Line(p, event, level)}
         /\ event # "request" => RequestLines(q) = RequestLines(p)
<1> DEFINE q == Says(p, event, level)
<1>1. Line(p, event, level) \in LineType
  BY LineIsLine
<1>2. p.lines \in Seq(LineType)
  BY DEF HopType
<1>3. q = [p EXCEPT !.lines = Append(p.lines, Line(p, event, level))]
  BY DEF Says
<1>4. Append(p.lines, Line(p, event, level)) \in Seq(LineType)
  BY <1>1, <1>2
<1>5. q.lines = Append(p.lines, Line(p, event, level))
  BY <1>3 DEF HopType
<1>6. LinesIn(q) = LinesIn(p) \cup {Line(p, event, level)}
  BY <1>1, <1>2, <1>5, RangeOfAppend DEF LinesIn
<1>7. q \in HopType
  BY <1>3, <1>4 DEF HopType
<1>8. /\ Kept(p, q)
      /\ q.at = p.at /\ q.stage = p.stage /\ q.ctx = p.ctx
      /\ q.caller = p.caller /\ q.who = p.who /\ q.status = p.status
  BY <1>3 DEF HopType, Kept
<1>9. event # "request" => RequestLines(q) = RequestLines(p)
  <2> DEFINE l == Line(p, event, level)
  <2>1. l.event = event
    BY DEF Line
  <2> HIDE DEF q, l
  <2>2. l \in LineType /\ q.lines = Append(p.lines, l)
    BY <1>1, <1>5 DEF l
  <2> QED BY <2>1, <2>2, RequestLinesOfAppend
<1> QED BY <1>6, <1>7, <1>8, <1>9

\* Answer sets the status, unbinds the tag, and adds the request line if the
\* hop has come through the request log.
LEMMA AnswerFields ==
  ASSUME NEW p \in HopType, NEW status \in Statuses, p.at <= RouteAt(p.app)
  PROVE  LET q == Answer(p, status) IN
         /\ q \in HopType /\ Kept(p, q)
         /\ q.at = p.at /\ q.stage = p.stage /\ q.ctx = Unknown
         /\ q.caller = p.caller /\ q.who = p.who /\ q.status = status
         /\ LinesIn(q) = LinesIn(p) \cup
              IF p.at > LogAt(p.app) THEN {RequestLine(p, status)} ELSE {}
         /\ RequestLines(q) = RequestLines(p) \cup
              IF p.at > LogAt(p.app) THEN {Len(q.lines)} ELSE {}
         /\ p.at > LogAt(p.app) => q.lines[Len(q.lines)].status = status
<1> DEFINE q == Answer(p, status)
           l == IF HasPassed(p, "log")
                THEN Append(p.lines, RequestLine(p, status)) ELSE p.lines
<1>1. RequestLine(p, status) \in LineType
  BY RequestLineIsLine
<1>2. p.lines \in Seq(LineType)
  BY DEF HopType
<1>3. q = [p EXCEPT !.status = status, !.lines = l, !.ctx = Unknown]
  BY DEF Answer
<1>4. l \in Seq(LineType)
  BY <1>1, <1>2
<1> HIDE DEF l
<1>5. q.lines = l
  BY <1>3 DEF HopType
<1>6. LinesIn(q) = LinesIn(p) \cup
              IF p.at > LogAt(p.app) THEN {RequestLine(p, status)} ELSE {}
  <2>1. CASE p.at > LogAt(p.app)
    <3>1. l = Append(p.lines, RequestLine(p, status))
      BY <2>1, PassedLog DEF l
    <3> QED BY <1>1, <1>2, <1>5, <2>1, <3>1, RangeOfAppend DEF LinesIn
  <2>2. CASE ~(p.at > LogAt(p.app))
    <3>1. l = p.lines
      BY <2>2, PassedLog DEF l
    <3> QED BY <1>5, <2>2, <3>1 DEF LinesIn
  <2> QED BY <2>1, <2>2
<1>7. q \in HopType
  BY <1>3, <1>4 DEF HopType, Sources
<1>8. /\ Kept(p, q)
      /\ q.at = p.at /\ q.stage = p.stage /\ q.ctx = Unknown
      /\ q.caller = p.caller /\ q.who = p.who /\ q.status = status
  BY <1>3 DEF HopType, Kept
<1>9. /\ RequestLines(q) = RequestLines(p) \cup
           IF p.at > LogAt(p.app) THEN {Len(q.lines)} ELSE {}
      /\ p.at > LogAt(p.app) => q.lines[Len(q.lines)].status = status
  <2>1. /\ RequestLine(p, status).event = "request"
        /\ RequestLine(p, status).status = status
    BY DEF RequestLine
  <2> HIDE DEF q
  <2>2. CASE p.at > LogAt(p.app)
    <3>1. q.lines = Append(p.lines, RequestLine(p, status))
      BY <1>5, <2>2, PassedLog DEF l
    <3> QED BY <1>1, <2>1, <2>2, <3>1, RequestLinesOfAppend
  <2>3. CASE ~(p.at > LogAt(p.app))
    <3>1. q.lines = p.lines
      BY <1>5, <2>3, PassedLog DEF l
    <3> QED BY <2>3, <3>1 DEF RequestLines
  <2> QED BY <2>2, <2>3
<1> QED BY <1>6, <1>7, <1>8, <1>9

-----------------------------------------------------------------------------
\* The tag that belongs on a request's lines.
TagOf(r) == Normalize(Origin[r])

\* Where a hop is: it sleeps among the injected faults and waits at its route.
Placed(p) ==
  /\ p.at <= RouteAt(p.app)
  /\ p.stage = "asleep" => p.at = ChaosAt(p.app)
  /\ p.stage = "waiting" =>
       p.at = RouteAt(p.app) /\ p.app # "sda" /\ ~Public(p)

\* The tag is bound from the request log to the answer, and is on every line.
Tagged(r, p) ==
  /\ p.source \in {Origin[r], TagOf(r)}
  /\ p.status = 0 =>
       p.ctx = IF p.at > LogAt(p.app) THEN TagOf(r) ELSE Unknown
  /\ \A line \in LinesIn(p) :
       line.source = IF Untagged(p, line) THEN Unknown ELSE TagOf(r)

\* What is known of a caller beyond the filters that check it; a line about
\* an injected fault means that they have been passed.
Known(p) ==
  /\ p.app = "sda" /\ p.at > 2 => Public(p) \/ p.caller # "-"
  /\ p.app = "ap" /\ p.at > 1 => Anonymous(p) \/ p.who # Nobody
  /\ p.app = "sda" /\ p.at > 4 => Anonymous(p) \/ p.bearer # NoToken
  /\ (\E line \in LinesIn(p) : line.event = "chaos")
       => p.at >= ChaosAt(p.app)

\* The hop has written a line of one of these levels.
HasLevel(p, levels) == \E line \in LinesIn(p) : line.level \in levels

\* The Customer Portal has warned of the call that fails.
Warned(p) ==
  /\ p.app = "cp"
  /\ \E line \in LinesIn(p) : line.event = "sda_upstream_unreachable"

\* The failure is the hop's own and has left its line.
OwnFailure(p) == HasLevel(p, {"ERROR"}) \/ Warned(p)

\* A hop that failed has said so, unless it passes a failure on.
Loud(p) ==
  /\ p.status >= 500 => HasLevel(p, {"WARN", "ERROR"})
  /\ p.status = 500 => OwnFailure(p) \/ p.stage = "waiting"
  /\ p.app = "sda" => p.status # 502

\* What the request log has told of the hop: nothing before the answer, then
\* the status answered; the Agent Portal may refuse a hop before its log.
Told(p) ==
  /\ p.status = 0 => ~Raised(p) /\ RequestLines(p) = {}
  /\ p.status # 0 =>
       IF Raised(p) \/ RefusedEarly(p) THEN RequestLines(p) = {}
       ELSE /\ RequestLines(p) = {Len(p.lines)}
            /\ p.lines[Len(p.lines)].status = p.status
  /\ p.app = "ap" /\ p.at = 1 => p.who = Nobody

Good(r, p) ==
  /\ p \in HopType
  /\ Placed(p) /\ Tagged(r, p) /\ Known(p) /\ Loud(p) /\ Told(p)

\* An exception shows in the lines of a hop as a set.
LEMMA RaisedIs ==
  ASSUME NEW p
  PROVE  Raised(p) <=>
           /\ p.app \in Python
           /\ \E line \in LinesIn(p) : line.event = "unhandled_exception"
BY DEF Raised, LinesIn

\* The hop is behind its request log, or the Agent Portal refuses its token.
Refusable(p, status) ==
  \/ p.at > LogAt(p.app)
  \/ p.app = "ap" /\ p.at = 1 /\ status = 401 /\ ~Anonymous(p)

\* A line with the tag that belongs on it leaves a hop good.
LEMMA SaysGood ==
  ASSUME NEW r \in Requests, NEW p, Good(r, p), p.status = 0,
         NEW event \in Events, NEW level \in Levels,
         event = "chaos" => p.at >= ChaosAt(p.app),
         event # "request",
         event = "unhandled_exception" => p.app \notin Python,
         p.ctx = TagOf(r) \/ (p.app = "ap" /\ level = "INFO")
  PROVE  Good(r, Says(p, event, level))
<1> DEFINE q == Says(p, event, level)
           l == Line(p, event, level)
<1>1. p \in HopType
  BY DEF Good
<1>2. /\ q \in HopType /\ Kept(p, q)
      /\ q.at = p.at /\ q.stage = p.stage /\ q.ctx = p.ctx
      /\ q.caller = p.caller /\ q.who = p.who /\ q.status = p.status
      /\ LinesIn(q) = LinesIn(p) \cup {l}
      /\ RequestLines(q) = RequestLines(p)
  BY <1>1, SaysFields
<1>3. /\ l.event = event /\ l.level = level
      /\ l.source = IF Untagged(p, l) THEN Unknown ELSE TagOf(r)
  BY DEF Line, TagOn, Untagged
<1>4. \A line : Untagged(q, line) <=> Untagged(p, line)
  BY <1>2 DEF Untagged, Kept
<1> HIDE DEF q, l
<1>5. Placed(q)
  BY <1>2 DEF Good, Placed, Kept, Public
<1>6. Tagged(r, q)
  <2>1. \A line \in LinesIn(q) :
          line.source = IF Untagged(q, line) THEN Unknown ELSE TagOf(r)
    BY <1>2, <1>3, <1>4 DEF Good, Tagged
  <2> QED BY <1>2, <2>1 DEF Good, Tagged, Kept
<1>7. Known(q)
  BY <1>2, <1>3 DEF Good, Known, Kept, Anonymous, Public
<1>8. Loud(q)
  BY <1>2 DEF Good, Loud, Kept
<1>9. Told(q)
  <2>1. ~Raised(p) /\ RequestLines(p) = {}
    BY DEF Good, Told
  <2>2. ~Raised(q)
    BY <1>2, <1>3, <2>1, RaisedIs DEF Kept
  <2> QED BY <1>2, <2>1, <2>2 DEF Good, Told, Kept
<1> QED BY <1>2, <1>5, <1>6, <1>7, <1>8, <1>9 DEF Good, q

\* So does an answer, if a failure has been logged.
LEMMA AnswerGood ==
  ASSUME NEW r \in Requests, NEW p, Good(r, p), p.status = 0,
         NEW status \in Statuses \ {0},
         status >= 500 => HasLevel(p, {"WARN", "ERROR"}),
         status = 500 => OwnFailure(p) \/ p.stage = "waiting",
         p.app = "sda" => status # 502, Refusable(p, status)
  PROVE  Good(r, Answer(p, status))
<1> DEFINE q == Answer(p, status)
           l == RequestLine(p, status)
<1>1. p \in HopType /\ p.at <= RouteAt(p.app)
  BY DEF Good, Placed
<1>2. /\ q \in HopType /\ Kept(p, q)
      /\ q.at = p.at /\ q.stage = p.stage /\ q.ctx = Unknown
      /\ q.caller = p.caller /\ q.who = p.who /\ q.status = status
      /\ LinesIn(q) = LinesIn(p) \cup
           IF p.at > LogAt(p.app) THEN {l} ELSE {}
      /\ RequestLines(q) = RequestLines(p) \cup
           IF p.at > LogAt(p.app) THEN {Len(q.lines)} ELSE {}
      /\ p.at > LogAt(p.app) => q.lines[Len(q.lines)].status = status
  BY <1>1, AnswerFields
<1>3. l.event = "request" /\ l.source = p.ctx
  BY DEF RequestLine
<1>4. \A line : Untagged(q, line) <=> Untagged(p, line)
  BY <1>2 DEF Untagged, Kept
<1>5. ~Untagged(q, l)
  BY <1>3 DEF Untagged
<1> HIDE DEF q, l
<1>6. Placed(q)
  BY <1>2 DEF Good, Placed, Kept, Public
<1>7. Tagged(r, q)
  <2>1. \A line \in LinesIn(q) :
          line.source = IF Untagged(q, line) THEN Unknown ELSE TagOf(r)
    BY <1>2, <1>3, <1>4, <1>5 DEF Good, Tagged
  <2> QED BY <1>2, <2>1 DEF Good, Tagged, Kept
<1>8. Known(q)
  BY <1>2, <1>3 DEF Good, Known, Kept, Anonymous, Public
<1>9. Loud(q)
  BY <1>2 DEF Loud, Kept, HasLevel, OwnFailure, Warned
<1>10. Told(q)
  <2>1. /\ ~Raised(p) /\ RequestLines(p) = {}
        /\ p.app = "ap" /\ p.at = 1 => p.who = Nobody
    BY DEF Good, Told
  <2>2. ~Raised(q)
    BY <1>2, <1>3, <2>1, RaisedIs DEF Kept
  <2>3. Anonymous(q) <=> Anonymous(p)
    BY <1>2 DEF Kept, Anonymous, Public
  <2>4. CASE p.at > LogAt(p.app)
    <3>1. p.app = "ap" => p.at > 1 /\ (Anonymous(p) \/ p.who # Nobody)
      BY <1>1, <2>4 DEF Good, Known, LogAt, HopType
    <3>2. ~RefusedEarly(q)
      BY <1>2, <2>3, <3>1 DEF RefusedEarly, Kept
    <3>3. q.app = "ap" => q.at # 1
      BY <1>1, <1>2, <3>1 DEF Kept, HopType
    <3> QED BY <1>2, <2>1, <2>2, <2>4, <3>2, <3>3 DEF Told
  <2>5. CASE ~(p.at > LogAt(p.app))
    <3>1. p.app = "ap" /\ p.at = 1 /\ status = 401 /\ ~Anonymous(p)
      BY <2>5 DEF Refusable
    <3>2. RefusedEarly(q) /\ RequestLines(q) = {} /\ q.who = Nobody
      BY <1>2, <2>1, <2>3, <2>5, <3>1 DEF RefusedEarly, Kept
    <3> QED BY <1>2, <3>2 DEF Told
  <2> QED BY <2>4, <2>5
<1> QED BY <1>2, <1>6, <1>7, <1>8, <1>9, <1>10 DEF Good, q

-----------------------------------------------------------------------------
\* The types of the variables.
Types ==
  /\ keys \in KeySchemes
  /\ hops \in [Hops -> HopType \cup {NoHop}]
  /\ tokens \subseteq TokenType /\ expired \subseteq tokens
  /\ faults \in 0..MaxFaults

\* What holds of one hop in the state it is in.
HopStands(h) ==
  Sent(h) =>
    /\ Good(h[1], hops[h])
    /\ hops[h].app \in (IF h[2] = "edge" THEN Edges ELSE {"sda"})
    /\ hops[h].bearer \in tokens \cup {NoToken}
    /\ hops[h].caller \in {"-", Caller(hops[h].key)}

HopsAreGood == \A h \in Hops : HopStands(h)

\* The two hops of a request: logins and claims have come through an edge
\* application and with its key, and a waiting one answers as it was answered.
HopsAgree(r) ==
  LET edge == hops[<<r, "edge">>]  data == hops[<<r, "sda">>] IN
  /\ Sent(<<r, "sda">>) /\ data.route \notin {"read", "health"} =>
       /\ Sent(<<r, "edge">>)
       /\ data.key = keys[edge.app]
  /\ Sent(<<r, "edge">>) /\ edge.stage = "waiting" =>
       /\ Sent(<<r, "sda">>)
       /\ edge.status \in {0, data.status, 500, 502}
       /\ edge.status = 500 => data.status = 500 \/ OwnFailure(edge)

Linked == \A r \in Requests : HopsAgree(r)

\* A token's role is its user's, and FNOL is named by FNOL's only.
TokensAreTrue ==
  \A t \in tokens :
    t.role = RoleOf(t.user) /\ (t.app = "fnol" => t.via = "fnol")

\* A claim was filed under a token of FNOL for the token's user.
ClaimsAreTrue ==
  \A c \in claims :
    /\ c.under \in tokens
    /\ c.under.app = "fnol" /\ c.under.role = "customer"
    /\ c.under.user = c.for

\* The inductive invariant.
IInv == Types /\ HopsAreGood /\ Linked /\ TokensAreTrue /\ ClaimsAreTrue

\* An unsent request is not a hop.
LEMMA NoHopIsNone == NoHop \notin HopType
BY DEF NoHop, HopType, Apps, Edges

\* What the invariant says of a hop that runs.
LEMMA HopIs ==
  ASSUME IInv, NEW h \in Hops, Running(h)
  PROVE  /\ h[1] \in Requests /\ h[2] \in {"edge", "sda"}
         /\ h = <<h[1], h[2]>>
         /\ Good(h[1], hops[h]) /\ hops[h] \in HopType
         /\ hops[h].status = 0
         /\ hops[h].app \in (IF h[2] = "edge" THEN Edges ELSE {"sda"})
         /\ hops[h].bearer \in tokens \cup {NoToken}
         /\ hops[h].caller \in {"-", Caller(hops[h].key)}
BY DEF IInv, HopsAreGood, HopStands, Running, Sent, Hops, Good

\* One hop moves on, and what the other one relies on stays.
LEMMA OneHopMoves ==
  ASSUME IInv, NEW h \in Hops, Running(h), NEW q, Good(h[1], q),
         Kept(hops[h], q), q.caller \in {"-", Caller(q.key)},
         hops' = [hops EXCEPT ![h] = q],
         keys' = keys, tokens \subseteq tokens',
         h[2] = "edge" /\ q.stage = "waiting" =>
           /\ hops[h].stage = "waiting"
           /\ LET data == hops[<<h[1], "sda">>] IN
              /\ q.status \in {0, data.status, 500, 502}
              /\ q.status = 500 =>
                   data.status = 500 \/ OwnFailure(q)
  PROVE  /\ hops' \in [Hops -> HopType \cup {NoHop}]
         /\ HopsAreGood' /\ Linked'
<1>1. q \in HopType /\ q # NoHop
  BY NoHopIsNone DEF Good
<1>2. hops \in [Hops -> HopType \cup {NoHop}]
  BY DEF IInv, Types
<1>3. /\ hops' \in [Hops -> HopType \cup {NoHop}]
      /\ hops'[h] = q
      /\ \A k \in Hops \ {h} : hops'[k] = hops[k]
  BY <1>1, <1>2
<1>4. \A k \in Hops : Sent(k)' <=> Sent(k)
  BY <1>1, <1>3 DEF Sent, Running
<1>5. \A key : Caller(key)' = Caller(key)
  BY DEF Caller
<1>6. HopsAreGood'
  <2> SUFFICES ASSUME NEW k \in Hops PROVE HopStands(k)'
    BY DEF HopsAreGood
  <2>1. CASE k = h
    BY <1>3, <2>1, <1>5, HopIs DEF Kept, HopStands
  <2>2. CASE k # h
    BY <1>3, <1>4, <1>5, <2>2 DEF IInv, HopsAreGood, HopStands
  <2> QED BY <2>1, <2>2
<1>7. Linked'
  <2> SUFFICES ASSUME NEW r \in Requests PROVE HopsAgree(r)'
    BY DEF Linked
  <2> DEFINE e == <<r, "edge">>
             d == <<r, "sda">>
  <2>0. e \in Hops /\ d \in Hops /\ e # d
    BY DEF Hops
  <2>1. CASE h # e /\ h # d
    BY <1>3, <1>4, <2>0, <2>1 DEF IInv, Linked, HopsAgree
  <2>2. CASE h = e
    <3>1. hops'[e] = q /\ hops'[d] = hops[d]
      BY <1>3, <2>0, <2>2
    <3>2. h[1] = r /\ h[2] = "edge"
      BY <2>2
    <3> QED BY <1>4, <2>0, <2>2, <3>1, <3>2 DEF IInv, Linked, HopsAgree,
            Kept, Running, Sent
  <2>3. CASE h = d
    <3>1. hops'[d] = q /\ hops'[e] = hops[e] /\ hops[d].status = 0
      BY <1>3, <2>0, <2>3 DEF Running
    <3> QED BY <1>4, <2>0, <2>3, <3>1 DEF IInv, Linked, HopsAgree, Kept
  <2> QED BY <2>1, <2>2, <2>3
<1> QED BY <1>3, <1>6, <1>7

\* The same with nothing else changed.
LEMMA QuietMove ==
  ASSUME IInv, NEW h \in Hops, Running(h), NEW q, Good(h[1], q),
         Kept(hops[h], q), q.caller \in {"-", Caller(q.key)},
         hops' = [hops EXCEPT ![h] = q],
         UNCHANGED <<keys, tokens, expired, claims>>,
         faults' \in 0..MaxFaults,
         h[2] = "edge" /\ q.stage = "waiting" =>
           /\ hops[h].stage = "waiting"
           /\ LET data == hops[<<h[1], "sda">>] IN
              /\ q.status \in {0, data.status, 500, 502}
              /\ q.status = 500 =>
                   data.status = 500 \/ OwnFailure(q)
  PROVE  IInv'
<1>1. /\ hops' \in [Hops -> HopType \cup {NoHop}]
      /\ HopsAreGood' /\ Linked'
  BY OneHopMoves
<1>2. Types'
  BY <1>1 DEF IInv, Types
<1>3. TokensAreTrue' /\ ClaimsAreTrue'
  BY DEF IInv, TokensAreTrue, ClaimsAreTrue, RoleOf
<1> QED BY <1>1, <1>2, <1>3 DEF IInv

\* A hop at a filter is where that filter is.
LEMMA StageOf ==
  ASSUME IInv, NEW h \in Hops, NEW filter, At(h, filter)
  PROVE  LET p == hops[h] IN
         /\ Running(h) /\ p \in HopType /\ Good(h[1], p)
         /\ filter = "log" => p.at = LogAt(p.app)
         /\ filter = "key" => p.app = "sda" /\ p.at = 2
         /\ filter = "chaos" => p.at = ChaosAt(p.app)
         /\ filter = "token" =>
              p.at = IF p.app = "ap" THEN 1 ELSE ChaosAt(p.app) + 1
         /\ filter = "route" => p.at = RouteAt(p.app)
<1>1. Running(h)
  BY DEF At
<1>2. /\ Good(h[1], hops[h]) /\ hops[h] \in HopType
  BY <1>1, HopIs
<1>3. /\ hops[h].app \in Apps /\ hops[h].at \in 1..5
      /\ hops[h].at <= RouteAt(hops[h].app)
  BY <1>2 DEF Good, HopType, Placed
<1>4. StackOf(hops[h].app)[hops[h].at] = filter
  BY DEF At
<1>5. filter = "log" => hops[h].at = LogAt(hops[h].app)
  BY <1>3, <1>4, AtLog
<1>6. filter = "key" => hops[h].app = "sda" /\ hops[h].at = 2
  BY <1>3, <1>4, AtKey
<1>7. filter = "chaos" => hops[h].at = ChaosAt(hops[h].app)
  BY <1>3, <1>4, AtChaos
<1>8. filter = "token" =>
        hops[h].at = IF hops[h].app = "ap" THEN 1 ELSE ChaosAt(hops[h].app) + 1
  BY <1>3, <1>4, AtToken
<1>9. filter = "route" => hops[h].at = RouteAt(hops[h].app)
  BY <1>3, <1>4, AtRoute
<1> QED BY <1>1, <1>2, <1>5, <1>6, <1>7, <1>8, <1>9

\* What a filter that lets a hop pass may change.
Passed(p, q) ==
  /\ q \in HopType /\ Kept(p, q)
  /\ q.at = p.at + 1 /\ q.status = 0
  /\ q.stage \in {"filters", p.stage}
  /\ q.lines = p.lines /\ LinesIn(q) = LinesIn(p)

\* A hop that a filter lets pass stays good.
LEMMA PassedGood ==
  ASSUME NEW r \in Requests, NEW p, Good(r, p), p.status = 0,
         NEW q, Passed(p, q), p.at < RouteAt(p.app),
         p.stage # "asleep" \/ q.stage = "filters",
         q.ctx = IF q.at > LogAt(q.app) THEN TagOf(r) ELSE Unknown,
         Known(q)
  PROVE  Good(r, q)
<1>1. p.at \in 1..5 /\ p.app \in Apps
  BY DEF Good, HopType
<1>2. Placed(q)
  BY <1>1 DEF Good, Placed, Passed, Kept, Public, RouteAt
<1>3. Tagged(r, q)
  BY DEF Good, Tagged, Passed, Kept, Untagged
<1>4. Loud(q)
  BY DEF Good, Loud, Passed, Kept
<1>5. Told(q)
  BY <1>1 DEF Good, Told, Raised, RequestLines, Passed, Kept
<1> QED BY <1>2, <1>3, <1>4, <1>5 DEF Good, Passed

\* The filters, one lemma for each.
LEMMA BindSourceKeeps ==
  ASSUME IInv, NEW h \in Hops, BindSource(h)
  PROVE  IInv'
<1> DEFINE p == hops[h]
           q == Onward([p EXCEPT !.ctx = Normalize(p.source)])
<1>1. /\ Running(h) /\ p \in HopType /\ Good(h[1], p)
      /\ p.at = LogAt(p.app)
  BY StageOf DEF BindSource
<1>2. /\ h[1] \in Requests /\ p.status = 0
      /\ p.caller \in {"-", Caller(p.key)}
  BY <1>1, HopIs
<1>3. Normalize(p.source) = TagOf(h[1])
  BY <1>1 DEF Good, Tagged, TagOf, Normalize, Unknown
<1>4. TagOf(h[1]) \in Sources
  BY <1>1, <1>3 DEF HopType, Normalize, Sources
<1>5. p.at \in 1..5 /\ p.app \in Apps /\ p.at < RouteAt(p.app)
  BY <1>1 DEF HopType, LogAt, RouteAt, Apps, Edges
<1>6. /\ q \in HopType /\ Kept(p, q) /\ q.at = p.at + 1
      /\ q.stage = p.stage /\ q.ctx = TagOf(h[1]) /\ q.caller = p.caller
      /\ q.who = p.who /\ q.status = p.status /\ q.lines = p.lines
  <2>1. q = [p EXCEPT !.ctx = TagOf(h[1]), !.at = p.at + 1]
    BY <1>1, <1>3 DEF Onward, HopType
  <2> HIDE DEF q
  <2>2. p.at + 1 \in 1..5
    BY <1>5 DEF RouteAt
  <2> QED BY <1>1, <1>4, <2>1, <2>2 DEF HopType, Kept
<1>7. /\ hops' = [hops EXCEPT ![h] = q]
      /\ UNCHANGED <<keys, tokens, expired, claims, faults>>
  BY DEF BindSource, Becomes
<1> HIDE DEF q
<1>8. Passed(p, q)
  BY <1>2, <1>6 DEF Passed, LinesIn
<1>9. p.stage # "asleep" /\ p.stage # "waiting"
  BY <1>1, <1>5 DEF Good, Placed, LogAt, ChaosAt
<1>10. Known(q)
  BY <1>1, <1>5, <1>6, <1>8 DEF Good, Known, Passed, Kept, Anonymous, Public, LogAt,
     ChaosAt, Apps, Edges
<1>11. Good(h[1], q)
  BY <1>1, <1>2, <1>5, <1>6, <1>8, <1>9, <1>10, PassedGood DEF Kept
<1>12. faults \in 0..MaxFaults
  BY DEF IInv, Types
<1> QED BY <1>1, <1>2, <1>6, <1>7, <1>9, <1>11, <1>12, QuietMove DEF Kept

\* The hop h, with what it has said, may answer.
MayAnswer(h, s, status) ==
  /\ Good(h[1], s) /\ Kept(hops[h], s) /\ s.caller \in {"-", Caller(s.key)}
  /\ s.status = 0 /\ s.stage = hops[h].stage
  /\ status \in Statuses \ {0} /\ Refusable(s, status)
  /\ status >= 500 => HasLevel(s, {"WARN", "ERROR"})
  /\ status = 500 => OwnFailure(s) \/ s.stage = "waiting"
  /\ s.app = "sda" => status # 502
  /\ h[2] = "edge" /\ s.stage = "waiting" =>
       LET data == hops[<<h[1], "sda">>] IN
       /\ status \in {data.status, 500, 502}
       /\ status = 500 => data.status = 500 \/ OwnFailure(s)

\* A hop answers, and tokens may have been issued.
LEMMA AnswerHops ==
  ASSUME IInv, NEW h \in Hops, Running(h), NEW s, NEW status,
         MayAnswer(h, s, status),
         hops' = [hops EXCEPT ![h] = Answer(s, status)],
         keys' = keys, tokens \subseteq tokens'
  PROVE  /\ hops' \in [Hops -> HopType \cup {NoHop}]
         /\ HopsAreGood' /\ Linked'
<1> DEFINE q == Answer(s, status)
           data == hops[<<h[1], "sda">>]
<1>1. h[1] \in Requests
  BY HopIs
<1>2. Good(h[1], q)
  BY <1>1, AnswerGood DEF MayAnswer
<1>3. s \in HopType /\ s.at <= RouteAt(s.app) /\ status \in Statuses
  BY DEF MayAnswer, Good, Placed
<1>4. /\ Kept(s, q) /\ q.caller = s.caller /\ q.stage = s.stage
      /\ q.status = status /\ LinesIn(s) \subseteq LinesIn(q)
  BY <1>3, AnswerFields
<1>5. hops' = [hops EXCEPT ![h] = q]
  OBVIOUS
<1> HIDE DEF q
<1>6. Kept(hops[h], q) /\ q.caller \in {"-", Caller(q.key)}
  BY <1>4 DEF Kept, MayAnswer
<1>7. OwnFailure(s) => OwnFailure(q)
  BY <1>4 DEF OwnFailure, Warned, HasLevel, Kept
<1>8. h[2] = "edge" /\ q.stage = "waiting" =>
        /\ hops[h].stage = "waiting"
        /\ q.status \in {0, data.status, 500, 502}
        /\ q.status = 500 => data.status = 500 \/ OwnFailure(q)
  BY <1>4, <1>7 DEF MayAnswer
<1> QED BY <1>2, <1>5, <1>6, <1>8, OneHopMoves

\* A hop answers, and nothing else has changed.
LEMMA AnswerMove ==
  ASSUME IInv, NEW h \in Hops, Running(h), NEW s, NEW status,
         MayAnswer(h, s, status),
         hops' = [hops EXCEPT ![h] = Answer(s, status)],
         UNCHANGED <<keys, tokens, expired, claims>>,
         faults' \in 0..MaxFaults
  PROVE  IInv'
<1>1. /\ hops' \in [Hops -> HopType \cup {NoHop}]
      /\ HopsAreGood' /\ Linked'
  BY AnswerHops
<1>2. Types' /\ TokensAreTrue' /\ ClaimsAreTrue'
  BY <1>1 DEF IInv, Types, TokensAreTrue, ClaimsAreTrue, RoleOf
<1> QED BY <1>1, <1>2 DEF IInv

\* What a refusal adds in a Python application does not disturb it.
LEMMA RefuseMove ==
  ASSUME IInv, NEW h \in Hops, Running(h), NEW s, NEW status,
         MayAnswer(h, s, status),
         hops' = [hops EXCEPT ![h] = Refuse(s, status)],
         UNCHANGED <<keys, tokens, expired, claims>>,
         faults' \in 0..MaxFaults
  PROVE  IInv'
<1>1. CASE s.app \notin Python
  <2>1. hops' = [hops EXCEPT ![h] = Answer(s, status)]
    BY <1>1 DEF Refuse
  <2> QED BY <2>1, AnswerMove
<1>2. CASE s.app \in Python
  <2> DEFINE q == Says(s, "http_exception", "INFO")
  <2>1. hops' = [hops EXCEPT ![h] = Answer(q, status)]
    BY <1>2 DEF Refuse
  <2>2. "http_exception" \in Events /\ "INFO" \in Levels
    BY DEF Events, Levels
  <2>3. /\ h[1] \in Requests /\ Good(h[1], s) /\ s \in HopType
        /\ s.status = 0
    BY HopIs DEF MayAnswer, Good
  <2>4. s.at > LogAt(s.app)
    BY <1>2 DEF MayAnswer, Refusable, Python
  <2>5. s.ctx = TagOf(h[1])
    BY <2>3, <2>4 DEF Good, Tagged
  <2>6. Good(h[1], q)
    BY <2>2, <2>3, <2>5, SaysGood
  <2>7. /\ Kept(s, q) /\ q.at = s.at /\ q.stage = s.stage
        /\ q.caller = s.caller /\ q.status = s.status
        /\ LinesIn(s) \subseteq LinesIn(q)
    BY <2>2, <2>3, SaysFields
  <2> HIDE DEF q
  <2>8. /\ \A levels : HasLevel(s, levels) => HasLevel(q, levels)
        /\ OwnFailure(s) => OwnFailure(q)
    BY <2>7 DEF HasLevel, OwnFailure, Warned, Kept
  <2>9. MayAnswer(h, q, status)
    BY <2>4, <2>6, <2>7, <2>8 DEF MayAnswer, Kept, Refusable
  <2> QED BY <2>1, <2>9, AnswerMove
<1> QED BY <1>1, <1>2

LEMMA CheckKeyKeeps ==
  ASSUME IInv, NEW h \in Hops, CheckKey(h)
  PROVE  IInv'
<1> DEFINE p == hops[h]
           caller == Caller(p.key)
           q == Onward([p EXCEPT !.caller = caller])
<1>1. /\ Running(h) /\ p \in HopType /\ Good(h[1], p)
      /\ p.app = "sda" /\ p.at = 2
  BY StageOf DEF CheckKey
<1>2. /\ h[1] \in Requests /\ p.status = 0
      /\ p.caller \in {"-", Caller(p.key)}
  BY <1>1, HopIs
<1>3. UNCHANGED <<keys, tokens, expired, claims>> /\ faults' \in 0..MaxFaults
  BY DEF CheckKey, IInv, Types
<1>4. p.stage = "filters"
  BY <1>1 DEF Good, Placed, HopType, ChaosAt
<1>5. CASE ~Public(p) /\ caller = "-"
  <2>1. hops' = [hops EXCEPT ![h] = Answer(p, 401)]
    BY <1>5 DEF CheckKey, Becomes
  <2>2. MayAnswer(h, p, 401)
    BY <1>1, <1>2, <1>4 DEF MayAnswer, Statuses, Kept, Refusable, LogAt
  <2> HIDE DEF p, q, caller
  <2>3. Running(h)
    BY <1>1
  <2> QED BY <1>3, <2>1, <2>2, <2>3, AnswerMove
<1>6. CASE ~Public(p) /\ caller # "-"
  <2>1. hops' = [hops EXCEPT ![h] = q]
    BY <1>6 DEF CheckKey, Becomes
  <2>2. caller \in Edges
    BY <1>6 DEF Caller, Edges
  <2>3. /\ q \in HopType /\ Kept(p, q) /\ q.at = 3
        /\ q.stage = p.stage /\ q.ctx = p.ctx /\ q.caller = caller
        /\ q.who = p.who /\ q.status = p.status /\ q.lines = p.lines
    <3> HIDE DEF caller
    <3>1. q = [p EXCEPT !.caller = caller, !.at = p.at + 1]
      BY <1>1 DEF Onward, HopType
    <3> HIDE DEF q
    <3>2. p.at + 1 = 3 /\ 3 \in 1..5
      BY <1>1
    <3> QED BY <1>1, <2>2, <3>1, <3>2 DEF HopType, Kept
  <2> HIDE DEF q
  <2>4. Passed(p, q)
    BY <1>1, <1>2, <2>3 DEF Passed, LinesIn
  <2>5. Known(q)
    BY <1>1, <1>6, <2>3, <2>4 DEF Good, Known, Passed, Kept, Public, ChaosAt
  <2>6. Good(h[1], q)
    <3>1. q.ctx = IF q.at > LogAt(q.app) THEN TagOf(h[1]) ELSE Unknown
      BY <1>1, <1>2, <2>3 DEF Good, Tagged, Kept, LogAt
    <3> QED BY <1>1, <1>2, <1>4, <2>3, <2>4, <2>5, <3>1, PassedGood DEF RouteAt
  <2> QED BY <1>1, <1>2, <1>3, <1>4, <2>1, <2>3, <2>6, QuietMove DEF Kept
<1>7. CASE Public(p)
  <2> DEFINE o == Onward(p)
  <2>1. hops' = [hops EXCEPT ![h] = o]
    BY <1>7 DEF CheckKey, Becomes
  <2>2. /\ o \in HopType /\ Kept(p, o) /\ o.at = 3
        /\ o.stage = p.stage /\ o.ctx = p.ctx /\ o.caller = p.caller
        /\ o.who = p.who /\ o.status = p.status /\ o.lines = p.lines
    <3>1. p.at + 1 = 3 /\ 3 \in 1..5
      BY <1>1
    <3> QED BY <1>1, <3>1 DEF Onward, HopType, Kept
  <2> HIDE DEF o
  <2>3. Passed(p, o)
    BY <1>1, <1>2, <2>2 DEF Passed, LinesIn
  <2>4. Known(o)
    BY <1>1, <1>7, <2>2, <2>3 DEF Good, Known, Passed, Kept, Public, ChaosAt
  <2>5. o.ctx = IF o.at > LogAt(o.app) THEN TagOf(h[1]) ELSE Unknown
    BY <1>1, <1>2, <2>2 DEF Good, Tagged, Kept, LogAt
  <2>6. Good(h[1], o)
    BY <1>1, <1>2, <1>4, <2>2, <2>3, <2>4, <2>5, PassedGood DEF RouteAt
  <2> QED BY <1>1, <1>2, <1>3, <1>4, <2>1, <2>2, <2>6, QuietMove DEF Kept
<1> QED BY <1>5, <1>6, <1>7

LEMMA ChaosKeeps ==
  ASSUME IInv, NEW h \in Hops, Chaos(h)
  PROVE  IInv'
<1> DEFINE p == hops[h]
<1>1. /\ Running(h) /\ p \in HopType /\ Good(h[1], p)
      /\ p.at = ChaosAt(p.app) /\ p.stage = "filters"
  BY StageOf DEF Chaos
<1>2. /\ h[1] \in Requests /\ p.status = 0
      /\ p.caller \in {"-", Caller(p.key)}
  BY <1>1, HopIs
<1>3. UNCHANGED <<keys, tokens, expired, claims>> /\ faults' \in 0..MaxFaults
  BY DEF Chaos, IInv, Types
<1>4. /\ p.at > LogAt(p.app) /\ p.at < RouteAt(p.app)
      /\ p.at \in 2..3 /\ p.app \in Apps
  BY <1>1 DEF LogAt, ChaosAt, RouteAt, HopType
<1>5. p.ctx = TagOf(h[1])
  BY <1>1, <1>2, <1>4 DEF Good, Tagged
<1>6. CASE p.chaos = "none" /\ Becomes(h, Onward(p))
  <2> DEFINE q == Onward(p)
  <2>1. hops' = [hops EXCEPT ![h] = q]
    BY <1>6 DEF Becomes
  <2>2. /\ q \in HopType /\ Kept(p, q) /\ q.at = p.at + 1
        /\ q.stage = p.stage /\ q.ctx = p.ctx /\ q.caller = p.caller
        /\ q.who = p.who /\ q.status = p.status /\ q.lines = p.lines
    <3>1. p.at + 1 \in 1..5
      BY <1>4
    <3> QED BY <1>1, <3>1 DEF Onward, HopType, Kept
  <2> HIDE DEF q
  <2>3. Passed(p, q)
    BY <1>2, <2>2 DEF Passed, LinesIn
  <2>4. Known(q)
    BY <1>1, <1>4, <2>2, <2>3 DEF Good, Known, Passed, Kept, Anonymous, Public, ChaosAt
  <2>5. Good(h[1], q)
    BY <1>1, <1>2, <1>4, <1>5, <2>2, <2>3, <2>4, PassedGood DEF Kept, LogAt
  <2> QED BY <1>1, <1>2, <1>3, <2>1, <2>2, <2>5, QuietMove DEF Kept
<1>7. CASE p.chaos = "slow" /\ Becomes(h, [p EXCEPT !.stage = "asleep"])
  <2> DEFINE q == [p EXCEPT !.stage = "asleep"]
  <2>1. hops' = [hops EXCEPT ![h] = q]
    BY <1>7 DEF Becomes
  <2>2. /\ q \in HopType /\ Kept(p, q) /\ q.at = p.at
        /\ q.stage = "asleep" /\ q.ctx = p.ctx /\ q.caller = p.caller
        /\ q.who = p.who /\ q.status = p.status /\ q.lines = p.lines
    BY <1>1 DEF HopType, Kept
  <2> HIDE DEF q
  <2>3. LinesIn(q) = LinesIn(p)
    BY <2>2 DEF LinesIn
  <2>4. Placed(q)
    BY <1>1, <2>2 DEF Good, Placed, Kept, Public
  <2>5. Tagged(h[1], q)
    BY <1>1, <2>2, <2>3 DEF Good, Tagged, Kept, Untagged
  <2>6. Known(q)
    BY <1>1, <2>2, <2>3 DEF Good, Known, Kept, Anonymous, Public
  <2>7. Loud(q)
    BY <1>1, <1>2, <2>2 DEF Loud, Good, Kept
  <2>8. Told(q)
    BY <1>1, <2>2 DEF Good, Told, Raised, RefusedEarly, RequestLines, Kept,
       Anonymous, Public
  <2>9. Good(h[1], q)
    BY <2>2, <2>4, <2>5, <2>6, <2>7, <2>8 DEF Good
  <2> QED BY <1>1, <1>2, <1>3, <2>1, <2>2, <2>9, QuietMove DEF Kept
<1>8. ASSUME p.chaos \in DOMAIN ChaosStatus,
             LET status == ChaosStatus[p.chaos] IN
               Becomes(h, Answer(Says(p, "chaos", ChaosLevel(status)), status))
      PROVE  IInv'
  <2> DEFINE status == ChaosStatus[p.chaos]
             level == ChaosLevel(status)
             s == Says(p, "chaos", level)
  <2>1. hops' = [hops EXCEPT ![h] = Answer(s, status)]
    BY <1>8 DEF Becomes
  <2>2. /\ status \in Statuses \ {0} /\ status # 502
        /\ level \in Levels /\ (status >= 500 => level = "ERROR")
    BY <1>8 DEF ChaosStatus, ChaosLevel, Statuses, Levels
  <2> HIDE DEF status, level
  <2>3. "chaos" \in Events
    BY DEF Events
  <2>4. /\ s \in HopType /\ Kept(p, s) /\ s.at = p.at /\ s.stage = p.stage
        /\ s.status = p.status /\ s.caller = p.caller
        /\ LinesIn(s) = LinesIn(p) \cup {Line(p, "chaos", level)}
    BY <1>1, <2>2, <2>3, SaysFields
  <2>5. Good(h[1], s)
    BY <1>1, <1>2, <1>4, <1>5, <2>2, <2>3, SaysGood DEF ChaosAt
  <2>6. level = "ERROR" => HasLevel(s, {"ERROR"})
    <3>1. Line(p, "chaos", level).level = level
      BY DEF Line
    <3> QED BY <2>4, <3>1 DEF HasLevel
  <2>7. HasLevel(s, {"ERROR"}) => HasLevel(s, {"WARN", "ERROR"}) /\ OwnFailure(s)
    BY DEF HasLevel, OwnFailure
  <2>8. /\ s.caller \in {"-", Caller(s.key)} /\ s.status = 0
        /\ Refusable(s, status)
    BY <1>2, <1>4, <2>4 DEF Kept, Refusable
  <2> HIDE DEF s
  <2>9. MayAnswer(h, s, status)
    BY <1>1, <2>2, <2>4, <2>5, <2>6, <2>7, <2>8 DEF MayAnswer
  <2> QED BY <1>1, <1>3, <2>1, <2>9, AnswerMove
<1> QED BY <1>6, <1>7, <1>8 DEF Chaos

LEMMA WakeKeeps ==
  ASSUME IInv, NEW h \in Hops, Wake(h)
  PROVE  IInv'
<1> DEFINE p == hops[h]
           s == Says(p, "chaos", "WARN")
           q == Onward([s EXCEPT !.stage = "filters"])
<1>1. /\ Running(h) /\ p \in HopType /\ Good(h[1], p)
      /\ p.at = ChaosAt(p.app)
  BY StageOf DEF Wake
<1>2. /\ h[1] \in Requests /\ p.status = 0
      /\ p.caller \in {"-", Caller(p.key)}
  BY <1>1, HopIs
<1>3. UNCHANGED <<keys, tokens, expired, claims>> /\ faults' \in 0..MaxFaults
  BY DEF Wake, IInv, Types
<1>4. /\ p.at > LogAt(p.app) /\ p.at < RouteAt(p.app)
      /\ p.at \in 2..3 /\ p.app \in Apps
  BY <1>1 DEF LogAt, ChaosAt, RouteAt, HopType
<1>5. p.ctx = TagOf(h[1])
  BY <1>1, <1>2, <1>4 DEF Good, Tagged
<1>6. "chaos" \in Events /\ "WARN" \in Levels
  BY DEF Events, Levels
<1>7. /\ s \in HopType /\ Kept(p, s) /\ s.at = p.at /\ s.stage = p.stage
      /\ s.ctx = p.ctx /\ s.status = p.status /\ s.caller = p.caller
      /\ s.who = p.who
  BY <1>1, <1>6, SaysFields
<1>8. Good(h[1], s)
  BY <1>1, <1>2, <1>4, <1>5, <1>6, SaysGood DEF ChaosAt
<1>9. hops' = [hops EXCEPT ![h] = q]
  BY DEF Wake, Becomes
<1> HIDE DEF s
<1>10. /\ q \in HopType /\ Kept(s, q) /\ q.at = s.at + 1
       /\ q.stage = "filters" /\ q.ctx = s.ctx /\ q.caller = s.caller
       /\ q.who = s.who /\ q.status = s.status /\ q.lines = s.lines
  <2>1. q = [s EXCEPT !.stage = "filters", !.at = s.at + 1]
    BY <1>7 DEF Onward, HopType
  <2>2. s.at + 1 \in 1..5
    BY <1>4, <1>7
  <2> HIDE DEF q
  <2> QED BY <1>7, <2>1, <2>2 DEF HopType, Kept
<1> HIDE DEF q
<1>11. Passed(s, q)
  BY <1>2, <1>7, <1>10 DEF Passed, LinesIn
<1>12. Known(q)
  BY <1>1, <1>4, <1>7, <1>8, <1>10, <1>11 DEF Good, Known, Passed, Kept,
     Anonymous, Public, ChaosAt, Apps, Edges
<1>13. Good(h[1], q)
  <2>1. q.ctx = IF q.at > LogAt(q.app) THEN TagOf(h[1]) ELSE Unknown
    BY <1>4, <1>5, <1>7, <1>10 DEF Kept, LogAt
  <2>2. s.at < RouteAt(s.app) /\ s.status = 0
    BY <1>2, <1>4, <1>7 DEF Kept
  <2> QED BY <1>2, <1>8, <1>10, <1>11, <1>12, <2>1, <2>2, PassedGood
<1>14. Kept(p, q) /\ q.caller \in {"-", Caller(q.key)}
  BY <1>2, <1>7, <1>10 DEF Kept
<1> QED BY <1>1, <1>3, <1>9, <1>10, <1>13, <1>14, QuietMove

LEMMA CheckTokenKeeps ==
  ASSUME IInv, NEW h \in Hops, CheckToken(h)
  PROVE  IInv'
<1> DEFINE p == hops[h]
<1>1. /\ Running(h) /\ p \in HopType /\ Good(h[1], p)
      /\ p.at = IF p.app = "ap" THEN 1 ELSE ChaosAt(p.app) + 1
  BY StageOf DEF CheckToken
<1>2. /\ h[1] \in Requests /\ p.status = 0
      /\ p.caller \in {"-", Caller(p.key)}
      /\ p.bearer \in tokens \cup {NoToken}
  BY <1>1, HopIs
<1>3. UNCHANGED <<keys, tokens, expired, claims>> /\ faults' \in 0..MaxFaults
  BY DEF CheckToken, IInv, Types
<1>4. /\ p.app \in Apps /\ p.at \in 1..4 /\ p.at < RouteAt(p.app)
      /\ p.app = "ap" => p.at = 1 /\ p.at < LogAt(p.app)
      /\ p.app # "ap" => p.at > LogAt(p.app)
      /\ p.app = "sda" => p.at = 4
  BY <1>1 DEF HopType, LogAt, ChaosAt, RouteAt, Apps, Edges
<1>5. p.stage = "filters"
  <2>1. p.stage \in {"filters", "asleep", "waiting"}
    BY <1>1 DEF HopType
  <2> QED BY <1>1, <1>4, <2>1 DEF Good, Placed, ChaosAt, RouteAt
<1>6. p.ctx = IF p.app = "ap" THEN Unknown ELSE TagOf(h[1])
  BY <1>1, <1>2, <1>4 DEF Good, Tagged, LogAt
<1>7. ASSUME NEW q, q \in HopType, Kept(p, q), q.at = p.at + 1,
             q.stage = p.stage, q.ctx = p.ctx, q.caller = p.caller,
             q.status = p.status, q.lines = p.lines,
             Anonymous(p) \/ (q.who # Nobody /\ p.bearer # NoToken),
             hops' = [hops EXCEPT ![h] = q]
      PROVE  IInv'
  <2>1. Passed(p, q)
    BY <1>2, <1>7 DEF Passed, LinesIn
  <2>2. Known(q)
    BY <1>1, <1>4, <1>7, <2>1 DEF Good, Known, Passed, Kept, Anonymous, Public,
       ChaosAt, Apps, Edges
  <2>3. q.ctx = IF q.at > LogAt(q.app) THEN TagOf(h[1]) ELSE Unknown
    BY <1>4, <1>6, <1>7 DEF Kept, LogAt
  <2>4. Good(h[1], q)
    BY <1>1, <1>2, <1>4, <1>5, <1>7, <2>1, <2>2, <2>3, PassedGood
  <2>5. q.caller \in {"-", Caller(q.key)} /\ q.stage # "waiting"
    BY <1>2, <1>5, <1>7 DEF Kept
  <2> QED BY <1>1, <1>3, <1>7, <2>4, <2>5, QuietMove
<1>8. CASE Anonymous(p)
  <2> DEFINE q == Onward(p)
  <2>1. hops' = [hops EXCEPT ![h] = q]
    BY <1>8 DEF CheckToken, Becomes
  <2>2. p.at + 1 \in 1..5
    BY <1>4
  <2>3. /\ q \in HopType /\ Kept(p, q) /\ q.at = p.at + 1
        /\ q.stage = p.stage /\ q.ctx = p.ctx /\ q.caller = p.caller
        /\ q.status = p.status /\ q.lines = p.lines
    BY <1>1, <2>2 DEF Onward, HopType, Kept
  <2> HIDE DEF q
  <2>4. Anonymous(p) \/ (q.who # Nobody /\ p.bearer # NoToken)
    BY <1>8
  <2> QED BY <1>7, <2>1, <2>3, <2>4
<1>9. CASE ~Anonymous(p) /\ Valid(p.bearer)
  <2> DEFINE q == Onward([p EXCEPT !.who = p.bearer.user])
  <2>1. hops' = [hops EXCEPT ![h] = q]
    BY <1>9 DEF CheckToken, Becomes
  <2>2. p.at + 1 \in 1..5
    BY <1>4
  <2>3. p.bearer # NoToken /\ p.bearer.user \in Users
    BY <1>2, <1>9 DEF Valid, IInv, Types, TokenType
  <2>4. p.bearer.user # Nobody
    BY <2>3, ConstantsAssumption
  <2>5. /\ q \in HopType /\ Kept(p, q) /\ q.at = p.at + 1
        /\ q.stage = p.stage /\ q.ctx = p.ctx /\ q.caller = p.caller
        /\ q.status = p.status /\ q.lines = p.lines
        /\ q.who = p.bearer.user
    <3>1. q = [p EXCEPT !.who = p.bearer.user, !.at = p.at + 1]
      BY <1>1 DEF Onward, HopType
    <3> HIDE DEF q
    <3> QED BY <1>1, <2>2, <2>3, <3>1 DEF HopType, Kept
  <2> HIDE DEF q
  <2> QED BY <1>7, <2>1, <2>3, <2>4, <2>5
<1>10. CASE ~Anonymous(p) /\ ~Valid(p.bearer)
  <2>1. CASE p.bearer = NoToken
    <3>1. hops' = [hops EXCEPT ![h] = Refuse(p, 401)]
      BY <1>10, <2>1 DEF CheckToken, Becomes
    <3>2. MayAnswer(h, p, 401)
      BY <1>1, <1>2, <1>4, <1>5, <1>10 DEF MayAnswer, Statuses, Kept, Refusable
    <3> QED BY <1>1, <1>3, <3>1, <3>2, RefuseMove
  <2>2. CASE p.bearer # NoToken
    <3> DEFINE s == Says(p, "jwt_decode_failed", "INFO")
    <3>1. hops' = [hops EXCEPT ![h] = Refuse(s, 401)]
      BY <1>10, <2>2 DEF CheckToken, Becomes
    <3>2. "jwt_decode_failed" \in Events /\ "INFO" \in Levels
      BY DEF Events, Levels
    <3>3. /\ s \in HopType /\ Kept(p, s) /\ s.stage = p.stage /\ s.at = p.at
          /\ s.status = p.status /\ s.caller = p.caller
      BY <1>1, <3>2, SaysFields
    <3>4. Good(h[1], s)
      BY <1>1, <1>2, <1>6, <3>2, SaysGood
    <3> HIDE DEF s
    <3>5. MayAnswer(h, s, 401)
      BY <1>2, <1>4, <1>5, <1>10, <3>3, <3>4 DEF MayAnswer, Statuses, Kept,
         Refusable, Anonymous, Public
    <3> QED BY <1>1, <1>3, <3>1, <3>5, RefuseMove
  <2> QED BY <2>1, <2>2
<1> QED BY <1>8, <1>9, <1>10

-----------------------------------------------------------------------------
\* A hop that has just arrived is good.
LEMMA NewHopGood ==
  ASSUME NEW r \in Requests, NEW app \in Apps, NEW route \in Routes,
         NEW user \in Users \cup {Nobody}, NEW source \in Sources,
         NEW chaos \in Directive, NEW key \in KeyValues,
         NEW bearer \in TokenType \cup {NoToken},
         source \in {Origin[r], TagOf(r)}
  PROVE  LET p == NewHop(app, route, user, source, chaos, key, bearer) IN
         /\ Good(r, p) /\ p # NoHop
         /\ p.app = app /\ p.route = route /\ p.key = key
         /\ p.bearer = bearer /\ p.caller = "-" /\ p.stage = "filters"
         /\ p.status = 0
<1> DEFINE p == NewHop(app, route, user, source, chaos, key, bearer)
<1>1. p \in HopType
  BY DEF NewHop, HopType, Sources, Statuses
<1>2. /\ p.app = app /\ p.route = route /\ p.key = key /\ p.source = source
      /\ p.bearer = bearer /\ p.caller = "-" /\ p.stage = "filters"
      /\ p.status = 0 /\ p.at = 1 /\ p.ctx = Unknown /\ p.lines = <<>>
      /\ p.who = Nobody
  BY DEF NewHop
<1> HIDE DEF p
<1>3. LinesIn(p) = {}
  BY <1>2 DEF LinesIn
<1>4. Placed(p)
  BY <1>2 DEF Placed, RouteAt
<1>5. Tagged(r, p)
  BY <1>2, <1>3 DEF Tagged, LogAt
<1>6. Known(p) /\ Loud(p) /\ Told(p)
  BY <1>2, <1>3 DEF Known, Loud, Told, Raised, RequestLines
<1> QED BY <1>1, <1>2, <1>4, <1>5, <1>6, NoHopIsNone DEF Good, p

\* The tags a client names and those they become are of the type.
LEMMA OriginIsSource ==
  ASSUME NEW r \in Requests
  PROVE  Origin[r] \in Sources /\ TagOf(r) \in Sources
BY ConstantsAssumption DEF TagOf, Normalize, Sources

\* The keys in use are of the type.
LEMMA KeysAreValues ==
  ASSUME IInv
  PROVE  NoKey \in KeyValues /\ \A app \in Edges : keys[app] \in KeyValues
BY DEF IInv, Types, KeyValues

\* The tokens that are issued are of the type.
LEMMA TokensAreTyped == IInv => tokens \subseteq TokenType
BY DEF IInv, Types

\* A request arrives at the first application that sees it.
LEMMA ArrivalKeeps ==
  ASSUME IInv, NEW h \in Hops, NEW p, Unsent(h[1]), Good(h[1], p),
         p.app \in (IF h[2] = "edge" THEN Edges ELSE {"sda"}),
         p.bearer \in tokens \cup {NoToken},
         p.caller = "-", p.stage = "filters",
         h[2] = "sda" => p.route \in {"read", "health"},
         hops' = [hops EXCEPT ![h] = p],
         UNCHANGED <<keys, tokens, expired, claims, faults>>
  PROVE  IInv'
<1>1. hops \in [Hops -> HopType \cup {NoHop}] /\ p \in HopType
  BY DEF IInv, Types, Good
<1>2. /\ hops' \in [Hops -> HopType \cup {NoHop}] /\ hops'[h] = p
      /\ \A k \in Hops \ {h} : hops'[k] = hops[k]
  BY <1>1
<1>3. Types' /\ TokensAreTrue' /\ ClaimsAreTrue'
  BY <1>2 DEF IInv, Types, TokensAreTrue, ClaimsAreTrue, RoleOf
<1>4. HopsAreGood'
  <2> SUFFICES ASSUME NEW k \in Hops PROVE HopStands(k)'
    BY DEF HopsAreGood
  <2>1. CASE k = h
    BY <1>2, <2>1 DEF HopStands
  <2>2. CASE k # h
    <3>1. \A key : Caller(key)' = Caller(key)
      BY DEF Caller
    <3> QED BY <1>2, <2>2, <3>1 DEF IInv, HopsAreGood, HopStands, Sent
  <2> QED BY <2>1, <2>2
<1>5. Linked'
  <2> SUFFICES ASSUME NEW r \in Requests PROVE HopsAgree(r)'
    BY DEF Linked
  <2> DEFINE e == <<r, "edge">>
             d == <<r, "sda">>
  <2>1. e \in Hops /\ d \in Hops /\ e # d
    BY DEF Hops
  <2>2. CASE h[1] = r
    <3>1. h = e \/ h = d
      BY <2>2 DEF Hops
    <3>2. CASE h = e
      <4>1. hops'[e] = p /\ hops'[d] = NoHop
        BY <1>2, <2>1, <2>2, <3>2 DEF Unsent
      <4> QED BY <4>1 DEF HopsAgree, Sent
    <3>3. CASE h = d
      <4>1. hops'[d] = p /\ hops'[e] = NoHop
            /\ p.route \in {"read", "health"}
        BY <1>2, <2>1, <2>2, <3>3 DEF Unsent
      <4> QED BY <4>1 DEF HopsAgree, Sent
    <3> QED BY <3>1, <3>2, <3>3
  <2>3. CASE h[1] # r
    <3>1. hops'[e] = hops[e] /\ hops'[d] = hops[d]
      BY <1>2, <2>1, <2>3
    <3> QED BY <3>1 DEF IInv, Linked, HopsAgree, Sent
  <2> QED BY <2>2, <2>3
<1> QED BY <1>3, <1>4, <1>5 DEF IInv

\* The two ways for a client to send, and the call to the Shared Data API.
LEMMA SendKeeps ==
  ASSUME IInv, NEW r \in Requests, Send(r)
  PROVE  IInv'
<1> DEFINE h == <<r, "edge">>
<1>1. h \in Hops /\ h[1] = r /\ h[2] = "edge"
  BY DEF Hops
<1>2. PICK app \in Edges, chaos \in Directives[r],
           bearer \in tokens \cup {NoToken} :
       \E route \in RoutesOf(app) : \E user \in Named(route) :
         hops' = [hops EXCEPT ![h] = NewHop(app, route, user, Origin[r],
                                            chaos, NoKey, bearer)]
  BY DEF Send, Becomes
<1>3. PICK route \in RoutesOf(app) :
         \E user \in Named(route) :
           hops' = [hops EXCEPT ![h] = NewHop(app, route, user, Origin[r],
                                              chaos, NoKey, bearer)]
  BY <1>2
<1>4. PICK user \in Named(route) :
         hops' = [hops EXCEPT ![h] = NewHop(app, route, user, Origin[r],
                                            chaos, NoKey, bearer)]
  BY <1>3
<1>5. /\ app \in Apps /\ route \in Routes /\ user \in Users \cup {Nobody}
      /\ chaos \in Directive
  BY <1>2, <1>3, <1>4, ConstantsAssumption DEF Apps, RoutesOf, Routes, Named,
     Users, Directive
<1> DEFINE p == NewHop(app, route, user, Origin[r], chaos, NoKey, bearer)
<1>6. /\ Good(r, p) /\ p.app = app /\ p.bearer = bearer
      /\ p.caller = "-" /\ p.stage = "filters"
  BY <1>2, <1>5, NewHopGood, OriginIsSource, KeysAreValues, TokensAreTyped
<1>7. hops' = [hops EXCEPT ![h] = p]
  BY <1>4
<1> HIDE DEF p
<1>8. UNCHANGED <<keys, tokens, expired, claims, faults>> /\ Unsent(r)
  BY DEF Send
<1> HIDE DEF h
<1> QED BY <1>1, <1>2, <1>6, <1>7, <1>8, ArrivalKeeps

LEMMA SendDirectKeeps ==
  ASSUME IInv, NEW r \in Requests, SendDirect(r)
  PROVE  IInv'
<1> DEFINE h == <<r, "sda">>
<1>1. h \in Hops /\ h[1] = r /\ h[2] = "sda"
  BY DEF Hops
<1>2. PICK chaos \in Directives[r], key \in {keys["cp"], NoKey},
           bearer \in tokens \cup {NoToken}, route \in {"read", "health"} :
       hops' = [hops EXCEPT ![h] = NewHop("sda", route, Nobody, Origin[r],
                                          chaos, key, bearer)]
  BY DEF SendDirect, Becomes
<1>3. /\ "sda" \in Apps /\ route \in Routes /\ Nobody \in Users \cup {Nobody}
      /\ chaos \in Directive /\ key \in KeyValues
  BY <1>2, ConstantsAssumption, KeysAreValues DEF Apps, Edges, Routes,
     Directive
<1> DEFINE p == NewHop("sda", route, Nobody, Origin[r], chaos, key, bearer)
<1>4. /\ Good(r, p) /\ p.app = "sda" /\ p.route = route /\ p.bearer = bearer
      /\ p.caller = "-" /\ p.stage = "filters"
  BY <1>2, <1>3, NewHopGood, OriginIsSource, TokensAreTyped
<1>5. hops' = [hops EXCEPT ![h] = p]
  BY <1>2
<1> HIDE DEF p
<1>6. UNCHANGED <<keys, tokens, expired, claims, faults>> /\ Unsent(r)
  BY DEF SendDirect
<1> HIDE DEF h
<1> QED BY <1>1, <1>2, <1>4, <1>5, <1>6, ArrivalKeeps

LEMMA ForwardKeeps ==
  ASSUME IInv, NEW r \in Requests, Forward(r)
  PROVE  IInv'
<1> DEFINE e == <<r, "edge">>
           d == <<r, "sda">>
           p == hops[e]
           q == [p EXCEPT !.stage = "waiting"]
           u == Upstream(p)
<1>1. e \in Hops /\ d \in Hops /\ e # d
  BY DEF Hops
<1>2. /\ Running(e) /\ p \in HopType /\ Good(r, p)
      /\ p.at = RouteAt(p.app)
  BY <1>1, StageOf DEF Forward, AtEdgeRoute
<1>3. /\ p.status = 0 /\ p.app \in Edges
      /\ p.bearer \in tokens \cup {NoToken}
      /\ p.caller \in {"-", Caller(p.key)}
  BY <1>1, <1>2, HopIs
<1>4. p.ctx = TagOf(r) /\ p.app # "sda" /\ ~Public(p)
  BY <1>2, <1>3 DEF Forward, Good, Tagged, Edges, LogAt, RouteAt
<1>5. /\ q \in HopType /\ Kept(p, q) /\ q.at = p.at /\ q.stage = "waiting"
      /\ q.ctx = p.ctx /\ q.caller = p.caller /\ q.who = p.who
      /\ q.status = 0 /\ q.lines = p.lines
  BY <1>2, <1>3 DEF HopType, Kept
<1>6. /\ Good(r, u) /\ u # NoHop /\ u.app = "sda" /\ u.key = keys[p.app]
      /\ u.bearer = p.bearer /\ u.caller = "-" /\ u.stage = "filters"
      /\ u.route = p.route /\ u.status = 0
  <2> DEFINE route == p.route  user == p.user  ctx == p.ctx
             key == keys[p.app]  bearer == p.bearer
             n == NewHop("sda", route, user, ctx, "none", key, bearer)
  <2>1. /\ "sda" \in Apps /\ "none" \in Directive
        /\ route \in Routes /\ user \in Users \cup {Nobody}
        /\ ctx \in Sources /\ key \in KeyValues
        /\ bearer \in TokenType \cup {NoToken}
    BY <1>2, <1>3, KeysAreValues DEF HopType, Apps, Directive
  <2>2. ctx \in {Origin[r], TagOf(r)}
    BY <1>4
  <2>3. n = u
    BY DEF Upstream
  <2> HIDE DEF p, u, route, user, ctx, key, bearer
  <2>4. /\ Good(r, n) /\ n # NoHop /\ n.app = "sda" /\ n.key = key
        /\ n.bearer = bearer /\ n.caller = "-" /\ n.stage = "filters"
        /\ n.route = route /\ n.status = 0
    BY <2>1, <2>2, NewHopGood
  <2> QED BY <2>3, <2>4 DEF route, key, bearer
<1>7. /\ hops' = [hops EXCEPT ![e] = q, ![d] = u]
      /\ UNCHANGED <<keys, tokens, expired, claims, faults>>
  BY DEF Forward
<1> HIDE DEF q, u
<1>8. Good(r, q) /\ q # NoHop
  <2>1. LinesIn(q) = LinesIn(p)
    BY <1>5 DEF LinesIn
  <2>2. Placed(q)
    BY <1>2, <1>4, <1>5 DEF Good, Placed, Kept, Public
  <2>3. Tagged(r, q)
    BY <1>2, <1>3, <1>5, <2>1 DEF Good, Tagged, Kept, Untagged
  <2>4. Known(q)
    BY <1>2, <1>5, <2>1 DEF Good, Known, Kept, Anonymous, Public
  <2>5. Loud(q)
    BY <1>4, <1>5 DEF Loud, Kept
  <2>6. Told(q)
    <3>1. Told(p) /\ p.status = 0
      BY <1>2, <1>3 DEF Good
    <3> HIDE DEF p
    <3>2. Raised(q) <=> Raised(p)
      BY <1>5 DEF Raised, Kept
    <3>3. RequestLines(q) = RequestLines(p)
      BY <1>5 DEF RequestLines
    <3> QED BY <1>5, <3>1, <3>2, <3>3 DEF Told, Kept
  <2> QED BY <1>5, <2>2, <2>3, <2>4, <2>5, <2>6, NoHopIsNone DEF Good
<1>9. hops \in [Hops -> HopType \cup {NoHop}] /\ u \in HopType
  BY <1>6 DEF IInv, Types, Good
<1>10. /\ hops' \in [Hops -> HopType \cup {NoHop}]
       /\ hops'[e] = q /\ hops'[d] = u
       /\ \A k \in Hops \ {e, d} : hops'[k] = hops[k]
  BY <1>1, <1>5, <1>7, <1>9
<1>11. Types' /\ TokensAreTrue' /\ ClaimsAreTrue'
  BY <1>7, <1>10 DEF IInv, Types, TokensAreTrue, ClaimsAreTrue, RoleOf
<1>12. HopsAreGood'
  <2> SUFFICES ASSUME NEW k \in Hops PROVE HopStands(k)'
    BY DEF HopsAreGood
  <2>1. \A key : Caller(key)' = Caller(key)
    BY <1>7 DEF Caller
  <2>2. CASE k = e
    BY <1>3, <1>5, <1>7, <1>8, <1>10, <2>1, <2>2 DEF HopStands, Kept
  <2>3. CASE k = d
    BY <1>3, <1>6, <1>7, <1>10, <2>3 DEF HopStands
  <2>4. CASE k # e /\ k # d
    BY <1>7, <1>10, <2>1, <2>4 DEF IInv, HopsAreGood, HopStands, Sent
  <2> QED BY <2>2, <2>3, <2>4
<1>13. Linked'
  <2> SUFFICES ASSUME NEW k \in Requests PROVE HopsAgree(k)'
    BY DEF Linked
  <2>1. CASE k = r
    BY <1>5, <1>6, <1>7, <1>8, <1>10, <2>1 DEF HopsAgree, Sent, Kept
  <2>2. CASE k # r
    <3>1. /\ hops'[<<k, "edge">>] = hops[<<k, "edge">>]
          /\ hops'[<<k, "sda">>] = hops[<<k, "sda">>]
      BY <1>10, <2>2 DEF Hops
    <3> QED BY <1>7, <3>1 DEF IInv, Linked, HopsAgree, Sent
  <2> QED BY <2>1, <2>2
<1> QED BY <1>11, <1>12, <1>13 DEF IInv

-----------------------------------------------------------------------------
\* A hop that is at its route may write a line there.
LEMMA RouteSays ==
  ASSUME NEW r \in Requests, NEW p, Good(r, p), p.status = 0,
         p.at = RouteAt(p.app), NEW event \in Events, NEW level \in Levels,
         event = "unhandled_exception" => p.app \notin Python,
         event # "request"
  PROVE  LET s == Says(p, event, level) IN
         /\ Good(r, s) /\ Kept(p, s) /\ s.stage = p.stage /\ s.status = 0
         /\ s.caller = p.caller /\ HasLevel(s, {level})
         /\ s.at > LogAt(s.app)
<1> DEFINE s == Says(p, event, level)
<1>1. p \in HopType /\ p.app \in Apps
  BY DEF Good, HopType
<1>2. p.at > LogAt(p.app) /\ p.at >= ChaosAt(p.app)
  BY <1>1 DEF LogAt, ChaosAt, RouteAt
<1>3. p.ctx = TagOf(r)
  BY <1>2 DEF Good, Tagged
<1>4. Good(r, s)
  BY <1>2, <1>3, SaysGood
<1>5. /\ Kept(p, s) /\ s.stage = p.stage /\ s.status = 0 /\ s.at = p.at
      /\ s.caller = p.caller
      /\ LinesIn(s) = LinesIn(p) \cup {Line(p, event, level)}
  BY <1>1, SaysFields
<1>6. Line(p, event, level).level = level
  BY DEF Line
<1> HIDE DEF s
<1>7. HasLevel(s, {level})
  BY <1>5, <1>6 DEF HasLevel
<1>8. s.at > LogAt(s.app)
  BY <1>2, <1>5 DEF Kept
<1> QED BY <1>4, <1>5, <1>7, <1>8 DEF s

\* What an edge application that waits, and the one it waits for, are like.
LEMMA WaitingIs ==
  ASSUME IInv, NEW r \in Requests, Waiting(r)
  PROVE  LET e == <<r, "edge">>  d == <<r, "sda">>  p == hops[e] IN
         /\ e \in Hops /\ Running(e) /\ Good(r, p) /\ p.status = 0
         /\ p.at = RouteAt(p.app) /\ p.stage = "waiting"
         /\ p.caller \in {"-", Caller(p.key)} /\ p.app # "sda"
         /\ hops[d].status \in Statuses /\ hops[d].status # 502
<1> DEFINE e == <<r, "edge">>
           d == <<r, "sda">>
           p == hops[e]
<1>1. e \in Hops /\ d \in Hops /\ Running(e) /\ p.stage = "waiting"
  BY DEF Hops, Waiting
<1>2. /\ Good(r, p) /\ p.status = 0 /\ p.caller \in {"-", Caller(p.key)}
      /\ p.at = RouteAt(p.app) /\ p.app # "sda"
  BY <1>1, HopIs DEF Good, Placed
<1>3. Sent(d)
  BY <1>1 DEF IInv, Linked, HopsAgree, Running, Sent
<1>4. Good(r, hops[d]) /\ hops[d].app = "sda"
  BY <1>1, <1>3 DEF IInv, HopsAreGood, HopStands
<1>5. hops[d].status \in Statuses /\ hops[d].status # 502
  BY <1>4 DEF Good, Loud, HopType
<1> QED BY <1>1, <1>2, <1>5

\* The end of the wait.
LEMMA PassOnKeeps ==
  ASSUME IInv, NEW r \in Requests, PassOn(r)
  PROVE  IInv'
<1> DEFINE e == <<r, "edge">>
           p == hops[e]
           status == hops[<<r, "sda">>].status
           rejected == Says(p, "sda_upstream_rejected", "WARN")
           done == Says(p, "done", "INFO")
<1>1. /\ e \in Hops /\ Running(e) /\ Good(r, p) /\ p.status = 0
      /\ p.at = RouteAt(p.app) /\ p.stage = "waiting"
      /\ p.caller \in {"-", Caller(p.key)} /\ p.app # "sda"
      /\ status \in Statuses /\ status # 502
  BY WaitingIs DEF PassOn
<1>2. /\ hops' = [hops EXCEPT ![e] = IF status >= 400
                                     THEN Refuse(rejected, status)
                                     ELSE Answer(Reported(p), status)]
      /\ status # 0
      /\ UNCHANGED <<keys, tokens, expired, claims>>
      /\ faults' \in 0..MaxFaults
  BY DEF PassOn, Becomes, IInv, Types
<1>3. /\ "sda_upstream_rejected" \in Events /\ "WARN" \in Levels
      /\ "done" \in Events /\ "INFO" \in Levels
  BY DEF Events, Levels
<1>4. p.at > LogAt(p.app)
  BY <1>1 DEF Good, HopType, RouteAt, LogAt
<1>5. Reported(p) \in {p, done}
  BY DEF Reported
<1> HIDE DEF p
<1>6. /\ Good(r, rejected) /\ Kept(p, rejected)
      /\ rejected.stage = p.stage /\ rejected.status = 0
      /\ rejected.caller = p.caller /\ HasLevel(rejected, {"WARN"})
      /\ rejected.at > LogAt(rejected.app)
  BY <1>1, <1>3, RouteSays
<1>7. /\ Good(r, done) /\ Kept(p, done)
      /\ done.stage = p.stage /\ done.status = 0
      /\ done.caller = p.caller /\ HasLevel(done, {"INFO"})
      /\ done.at > LogAt(done.app)
  BY <1>1, <1>3, RouteSays
<1> HIDE DEF rejected, done
<1>8. CASE status >= 400
  <2>1. MayAnswer(e, rejected, status)
    BY <1>1, <1>2, <1>6 DEF MayAnswer, Kept, HasLevel, Refusable, p
  <2>2. hops' = [hops EXCEPT ![e] = Refuse(rejected, status)]
    BY <1>2, <1>8
  <2> HIDE DEF e, status
  <2> QED BY <1>1, <1>2, <2>1, <2>2, RefuseMove
<1>9. CASE ~(status >= 400)
  <2>1. PICK s \in {p, done} :
          hops' = [hops EXCEPT ![e] = Answer(s, status)]
    BY <1>2, <1>5, <1>9
  <2>2. /\ Good(r, s) /\ Kept(p, s) /\ s.stage = "waiting" /\ s.status = 0
        /\ s.caller \in {"-", Caller(s.key)} /\ s.app # "sda"
        /\ s.at > LogAt(s.app)
    BY <1>1, <1>4, <1>7, <2>1 DEF Kept
  <2>3. status < 500 /\ status # 502 /\ status \in Statuses \ {0}
    BY <1>1, <1>2, <1>9 DEF Statuses
  <2>4. s.stage = hops[e].stage /\ Kept(hops[e], s)
    BY <1>1, <2>2 DEF p
  <2>5. status \in {hops[<<r, "sda">>].status, 500, 502}
    OBVIOUS
  <2> HIDE DEF status
  <2>6. MayAnswer(e, s, status)
    <3>1. e[1] = r /\ Refusable(s, status)
      BY <2>2 DEF Refusable
    <3> HIDE DEF e
    <3>2. hops[<<e[1], "sda">>] = hops[<<r, "sda">>]
      BY <3>1
    <3> QED BY <2>2, <2>3, <2>4, <2>5, <3>1, <3>2 DEF MayAnswer, Statuses
  <2>7. /\ e \in Hops /\ Running(e)
        /\ UNCHANGED <<keys, tokens, expired, claims>>
        /\ faults' \in 0..MaxFaults
    BY <1>1, <1>2
  <2>8. hops' = [hops EXCEPT ![e] = Answer(s, status)]
    BY <2>1
  <2> HIDE DEF e
  <2> QED BY <2>6, <2>7, <2>8, AnswerMove
<1> QED BY <1>8, <1>9

LEMMA GiveUpKeeps ==
  ASSUME IInv, NEW r \in Requests, GiveUp(r)
  PROVE  IInv'
<1> DEFINE e == <<r, "edge">>
           p == hops[e]
           s == Says(p, "sda_upstream_unreachable", "WARN")
<1>1. /\ e \in Hops /\ Running(e) /\ Good(r, p) /\ p.status = 0
      /\ p.at = RouteAt(p.app) /\ p.stage = "waiting"
      /\ p.caller \in {"-", Caller(p.key)} /\ p.app # "sda"
      /\ hops[<<r, "sda">>].status \in Statuses
  <2>1. Waiting(r)
    BY DEF GiveUp
  <2> HIDE DEF s
  <2> QED BY <2>1, WaitingIs
<1>2. /\ hops' = [hops EXCEPT ![e] = Refuse(s, 502)]
      /\ UNCHANGED <<keys, tokens, expired, claims>>
      /\ faults' \in 0..MaxFaults
  BY DEF GiveUp, Becomes, IInv, Types
<1>3. "sda_upstream_unreachable" \in Events /\ "WARN" \in Levels
  BY DEF Events, Levels
<1> HIDE DEF p
<1>4. /\ Good(r, s) /\ Kept(p, s) /\ s.stage = p.stage /\ s.status = 0
      /\ s.caller = p.caller /\ HasLevel(s, {"WARN"})
      /\ s.at > LogAt(s.app)
  BY <1>1, <1>3, RouteSays
<1> HIDE DEF s
<1>5. MayAnswer(e, s, 502)
  BY <1>1, <1>4 DEF MayAnswer, Kept, HasLevel, Statuses, Refusable, p
<1>6. Running(e) /\ e \in Hops
  BY <1>1
<1> HIDE DEF e
<1> QED BY <1>2, <1>5, <1>6, RefuseMove

-----------------------------------------------------------------------------
\* A hop at a route of the Shared Data API has a known caller and, unless it
\* logs in, a token.
LEMMA DataRouteIs ==
  ASSUME IInv, NEW r \in Requests, NEW route, AtDataRoute(r, route),
         route # "health"
  PROVE  LET d == <<r, "sda">>  p == hops[d] IN
         /\ d \in Hops /\ Running(d) /\ Good(r, p) /\ p \in HopType
         /\ p.status = 0 /\ p.app = "sda" /\ p.at = RouteAt(p.app)
         /\ p.route = route /\ p.stage # "waiting"
         /\ p.caller = Caller(p.key) /\ p.caller \in Edges
         /\ Anonymous(p) \/ p.bearer \in tokens
<1> DEFINE d == <<r, "sda">>
           p == hops[d]
<1>1. d \in Hops /\ Running(d) /\ p.route = route
  BY DEF Hops, AtDataRoute, At
<1>2. /\ Good(r, p) /\ p \in HopType /\ p.at = RouteAt(p.app)
  BY <1>1, StageOf DEF AtDataRoute
<1>3. /\ p.status = 0 /\ p.app = "sda"
      /\ p.caller \in {"-", Caller(p.key)}
      /\ p.bearer \in tokens \cup {NoToken}
  BY <1>1, HopIs
<1>4. p.at = 5
  BY <1>2, <1>3 DEF RouteAt
<1>5. p.caller # "-" /\ (Anonymous(p) \/ p.bearer # NoToken)
  BY <1>1, <1>2, <1>3, <1>4 DEF Good, Known, Public
<1>6. p.stage # "waiting"
  BY <1>2, <1>3 DEF Good, Placed
<1>7. p.caller \in Edges
  BY <1>2, <1>5 DEF HopType
<1> QED BY <1>1, <1>2, <1>3, <1>5, <1>6, <1>7

\* The Shared Data API writes a line and answers.
LEMMA DataAnswers ==
  ASSUME IInv, NEW r \in Requests, NEW p, Good(r, p), p.status = 0,
         p.at = RouteAt(p.app), p.app = "sda", p.stage # "waiting",
         Kept(hops[<<r, "sda">>], p), p.caller \in {"-", Caller(p.key)},
         p.stage = hops[<<r, "sda">>].stage,
         NEW event \in Events, NEW level \in Levels,
         event \notin {"unhandled_exception", "request"},
         NEW status \in Statuses \ {0}, status < 500
  PROVE  MayAnswer(<<r, "sda">>, Says(p, event, level), status)
<1> DEFINE s == Says(p, event, level)
<1>1. /\ event = "unhandled_exception" => p.app \notin Python
      /\ event # "request"
  OBVIOUS
<1>2. /\ Good(r, s) /\ Kept(p, s) /\ s.stage = p.stage /\ s.status = 0
      /\ s.caller = p.caller /\ s.at > LogAt(s.app)
  <2>1. Good(r, s) /\ s.at > LogAt(s.app)
    BY <1>1, RouteSays, Zenon
  <2>2. /\ Kept(p, s) /\ s.stage = p.stage /\ s.caller = p.caller
        /\ s.status = p.status
    BY SaysFields DEF Good
  <2> HIDE DEF s
  <2> QED BY <2>1, <2>2
<1> HIDE DEF s
<1>3. MayAnswer(<<r, "sda">>, s, status)
  BY <1>2 DEF MayAnswer, Kept, Statuses, Refusable
<1> QED BY <1>3 DEF s

\* A token that names FNOL was issued to one who logged in through FNOL: the
\* caller is FNOL by its key only if no later application has the same key.
LEMMA IssuedIs ==
  ASSUME IInv, NEW r \in Requests, AtDataRoute(r, "login"),
         hops[<<r, "sda">>].user # Nobody
  PROVE  LET t == Issued(r) IN
         /\ t \in TokenType /\ t.role = RoleOf(t.user)
         /\ t.app = "fnol" => t.via = "fnol"
<1> DEFINE d == <<r, "sda">>
           p == hops[d]
           e == <<r, "edge">>
           t == Issued(r)
<1>1. /\ d \in Hops /\ Running(d) /\ p \in HopType /\ p.route = "login"
      /\ p.caller = Caller(p.key) /\ p.caller \in Edges
  BY DataRouteIs
<1>2. Sent(e) /\ p.key = keys[hops[e].app]
  BY <1>1 DEF IInv, Linked, HopsAgree, Running, Sent
<1>3. e \in Hops
  BY DEF Hops
<1>4. hops[e].app \in Edges
  BY <1>2, <1>3 DEF IInv, HopsAreGood, HopStands
<1>5. p.user \in Users
  BY <1>1 DEF HopType
<1>6. /\ t.by = r /\ t.user = p.user /\ t.role = RoleOf(p.user)
      /\ t.app = p.caller /\ t.via = hops[e].app
  BY DEF Issued
<1>7. t \in TokenType
  BY <1>1, <1>4, <1>5 DEF Issued, TokenType, RoleOf
<1>8. p.caller = "fnol" => hops[e].app = "fnol"
  BY <1>1, <1>2, <1>4 DEF Caller, Edges
<1> QED BY <1>6, <1>7, <1>8

\* The routes of the Shared Data API.
LEMMA LoginKeeps ==
  ASSUME IInv, NEW r \in Requests, Login(r)
  PROVE  IInv'
<1> DEFINE d == <<r, "sda">>
           p == hops[d]
<1>1. /\ d \in Hops /\ Running(d) /\ Good(r, p) /\ p \in HopType
      /\ p.status = 0 /\ p.app = "sda" /\ p.at = RouteAt(p.app)
      /\ p.route = "login" /\ p.stage # "waiting"
      /\ p.caller = Caller(p.key) /\ p.caller \in Edges
  BY DataRouteIs DEF Login
<1>2. /\ UNCHANGED <<keys, expired, claims, faults>>
      /\ faults' \in 0..MaxFaults
  BY DEF Login, IInv, Types
<1>3. /\ "login_failed" \in Events /\ "login_success" \in Events
      /\ "WARN" \in Levels /\ "INFO" \in Levels
      /\ 401 \in Statuses \ {0} /\ 200 \in Statuses \ {0}
  BY DEF Events, Levels, Statuses
<1>4. CASE p.user = Nobody
  <2>1. /\ hops' = [hops EXCEPT
              ![d] = Refuse(Says(p, "login_failed", "WARN"), 401)]
        /\ tokens' = tokens
    BY <1>4 DEF Login, Becomes
  <2>2. MayAnswer(d, Says(p, "login_failed", "WARN"), 401)
    BY <1>1, <1>3, DataAnswers DEF Kept
  <2> HIDE DEF d
  <2> QED BY <1>1, <1>2, <2>1, <2>2, RefuseMove
<1>5. CASE p.user # Nobody
  <2> DEFINE s == [p EXCEPT !.who = p.user]
  <2>1. /\ hops' = [hops EXCEPT
              ![d] = Answer(Says(s, "login_success", "INFO"), 200)]
        /\ tokens' = tokens \cup {Issued(r)}
    BY <1>5 DEF Login, Becomes
  <2>2. /\ s \in HopType /\ Kept(p, s) /\ s.at = p.at /\ s.ctx = p.ctx
        /\ s.stage = p.stage /\ s.caller = p.caller
        /\ s.status = p.status /\ s.lines = p.lines
    BY <1>1 DEF HopType, Kept
  <2> HIDE DEF s
  <2>3. Good(r, s)
    <3>1. LinesIn(s) = LinesIn(p)
      BY <2>2 DEF LinesIn
    <3>2. Placed(s) /\ Loud(s)
      BY <1>1, <2>2, <3>1 DEF Good, Placed, Loud, Kept, Public,
         HasLevel, OwnFailure, Warned
    <3>3. Tagged(r, s)
      BY <1>1, <2>2, <3>1 DEF Good, Tagged, Kept, Untagged
    <3>4. Known(s)
      BY <1>1, <2>2, <3>1 DEF Good, Known, Kept, Anonymous, Public
    <3>5. Told(s)
      BY <1>1, <2>2 DEF Good, Told, Raised, RequestLines, Kept
    <3> QED BY <2>2, <3>2, <3>3, <3>4, <3>5 DEF Good
  <2>4. MayAnswer(d, Says(s, "login_success", "INFO"), 200)
    BY <1>1, <1>3, <2>2, <2>3, DataAnswers DEF Kept
  <2>5. tokens \subseteq tokens' /\ keys' = keys
    BY <1>2, <2>1
  <2>6. /\ hops' \in [Hops -> HopType \cup {NoHop}]
        /\ HopsAreGood' /\ Linked'
    <3> HIDE DEF d
    <3> QED BY <1>1, <2>1, <2>4, <2>5, AnswerHops
  <2>7. /\ Issued(r) \in TokenType
        /\ Issued(r).role = RoleOf(Issued(r).user)
        /\ Issued(r).app = "fnol" => Issued(r).via = "fnol"
    BY <1>5, IssuedIs DEF Login
  <2>8. Types'
    BY <1>2, <2>1, <2>6, <2>7 DEF IInv, Types
  <2>9. TokensAreTrue'
    BY <2>1, <2>7 DEF IInv, TokensAreTrue, RoleOf
  <2>10. ClaimsAreTrue'
    BY <1>2, <2>5 DEF IInv, ClaimsAreTrue
  <2> QED BY <2>6, <2>8, <2>9, <2>10 DEF IInv
<1> QED BY <1>4, <1>5

LEMMA ReadKeeps ==
  ASSUME IInv, NEW r \in Requests, Read(r)
  PROVE  IInv'
<1> DEFINE d == <<r, "sda">>
           p == hops[d]
<1>1. /\ d \in Hops /\ Running(d) /\ Good(r, p) /\ p \in HopType
      /\ p.status = 0 /\ p.app = "sda" /\ p.at = RouteAt(p.app)
      /\ p.stage # "waiting" /\ p.caller = Caller(p.key)
  BY DataRouteIs DEF Read
<1>2. /\ UNCHANGED <<keys, tokens, expired, claims, faults>>
      /\ faults' \in 0..MaxFaults
  BY DEF Read, IInv, Types
<1>3. /\ "done" \in Events /\ "INFO" \in Levels
      /\ 404 \in Statuses \ {0} /\ 200 \in Statuses \ {0}
  BY DEF Events, Levels, Statuses
<1>4. MayAnswer(d, Says(p, "done", "INFO"), 200)
  BY <1>1, <1>3, DataAnswers DEF Kept
<1>5. MayAnswer(d, p, 200)
  BY <1>1, <1>3 DEF MayAnswer, Kept, Refusable, RouteAt, LogAt
<1>11. MayAnswer(d, p, 404)
  BY <1>1, <1>3 DEF MayAnswer, Kept, Refusable, RouteAt, LogAt
<1>6. \/ hops' = [hops EXCEPT ![d] = Answer(Says(p, "done", "INFO"), 200)]
      \/ hops' = [hops EXCEPT ![d] = Answer(p, 200)]
      \/ hops' = [hops EXCEPT ![d] = Refuse(p, 404)]
  BY DEF Read, Becomes
<1>7. d \in Hops /\ Running(d)
  BY <1>1
<1> HIDE DEF d, p
<1>8. CASE hops' = [hops EXCEPT ![d] = Answer(Says(p, "done", "INFO"), 200)]
  BY <1>2, <1>4, <1>7, <1>8, AnswerMove
<1>9. CASE hops' = [hops EXCEPT ![d] = Answer(p, 200)]
  BY <1>2, <1>5, <1>7, <1>9, AnswerMove
<1>10. CASE hops' = [hops EXCEPT ![d] = Refuse(p, 404)]
  BY <1>2, <1>7, <1>10, <1>11, RefuseMove
<1> QED BY <1>6, <1>8, <1>9, <1>10

LEMMA CreateClaimKeeps ==
  ASSUME IInv, NEW r \in Requests, CreateClaim(r)
  PROVE  IInv'
<1> DEFINE d == <<r, "sda">>
           p == hops[d]
           refused == Says(p, "claim_validation_rejected", "WARN")
           filed == Says(p, "claim_created", "INFO")
           status == IF MayFile(p) THEN 400 ELSE 403
<1>1. /\ d \in Hops /\ Running(d) /\ Good(r, p) /\ p \in HopType
      /\ p.status = 0 /\ p.app = "sda" /\ p.at = RouteAt(p.app)
      /\ p.stage # "waiting" /\ p.caller = Caller(p.key)
      /\ p.route = "submit" /\ p.bearer \in tokens
  <2>1. AtDataRoute(r, "submit")
    BY DEF CreateClaim
  <2> QED BY <2>1, DataRouteIs DEF Anonymous, Public
<1>2. /\ UNCHANGED <<keys, tokens, expired, faults>>
      /\ faults' \in 0..MaxFaults
  BY DEF CreateClaim, IInv, Types
<1>3. /\ "claim_validation_rejected" \in Events /\ "claim_created" \in Events
      /\ "WARN" \in Levels /\ "INFO" \in Levels
      /\ status \in Statuses \ {0} /\ status < 500 /\ 201 \in Statuses \ {0}
  BY DEF Events, Levels, Statuses
<1>4. MayAnswer(d, refused, status)
  BY <1>1, <1>3, DataAnswers DEF Kept
<1>5. MayAnswer(d, filed, 201)
  BY <1>1, <1>3, DataAnswers DEF Kept
<1>6. \/ /\ hops' = [hops EXCEPT ![d] = Refuse(refused, status)]
         /\ claims' = claims
      \/ /\ hops' = [hops EXCEPT ![d] = Answer(filed, 201)]
         /\ MayFile(p)
         /\ claims' = claims \cup {[for |-> p.user, under |-> p.bearer]}
  BY DEF CreateClaim, Becomes
<1> HIDE DEF d, refused, filed, status
<1>7. CASE /\ hops' = [hops EXCEPT ![d] = Refuse(refused, status)]
           /\ claims' = claims
  BY <1>1, <1>2, <1>4, <1>7, RefuseMove
<1>8. CASE /\ hops' = [hops EXCEPT ![d] = Answer(filed, 201)]
           /\ MayFile(p)
           /\ claims' = claims \cup {[for |-> p.user, under |-> p.bearer]}
  <2>1. keys' = keys /\ tokens \subseteq tokens'
    BY <1>2
  <2>2. /\ hops' \in [Hops -> HopType \cup {NoHop}]
        /\ HopsAreGood' /\ Linked'
    BY <1>1, <1>5, <1>8, <2>1, AnswerHops
  <2>3. Types' /\ TokensAreTrue'
    BY <1>2, <2>2 DEF IInv, Types, TokensAreTrue, RoleOf
  <2>4. ClaimsAreTrue'
    BY <1>1, <1>2, <1>8 DEF IInv, ClaimsAreTrue, MayFile
  <2> QED BY <2>2, <2>3, <2>4 DEF IInv
<1> QED BY <1>6, <1>7, <1>8

-----------------------------------------------------------------------------
\* The routes that raise.
LEMMA FailsAt ==
  ASSUME IInv, NEW h \in Hops, Fails(h)
  PROVE  /\ Running(h) /\ h[1] \in Requests /\ Good(h[1], hops[h])
         /\ hops[h] \in HopType /\ hops[h].status = 0
         /\ hops[h].at = RouteAt(hops[h].app)
         /\ hops[h].caller \in {"-", Caller(hops[h].key)}
         /\ UNCHANGED <<keys, tokens, expired, claims>>
         /\ faults' \in 0..MaxFaults
<1>1. At(h, "route") /\ UNCHANGED <<keys, tokens, expired, claims>>
  BY DEF Fails
<1>2. Running(h) /\ hops[h].at = RouteAt(hops[h].app)
  BY <1>1, StageOf
<1>3. faults' \in 0..MaxFaults
  BY ConstantsAssumption DEF Fails, IInv, Types
<1> QED BY <1>1, <1>2, <1>3, HopIs

LEMMA PythonFailsKeeps ==
  ASSUME IInv, NEW h \in Hops, PythonFails(h)
  PROVE  IInv'
<1> DEFINE p == hops[h]
           unbound == [p EXCEPT !.ctx = Unknown]
           l == Line(unbound, "unhandled_exception", "ERROR")
           s == Says(unbound, "unhandled_exception", "ERROR")
           q == [s EXCEPT !.status = 500]
<1>1. /\ Running(h) /\ h[1] \in Requests /\ Good(h[1], p)
      /\ p \in HopType /\ p.status = 0 /\ p.at = RouteAt(p.app)
      /\ p.caller \in {"-", Caller(p.key)}
      /\ UNCHANGED <<keys, tokens, expired, claims>>
      /\ faults' \in 0..MaxFaults
  BY FailsAt DEF PythonFails
<1>2. /\ p.app \in {"fnol", "sda"} /\ hops' = [hops EXCEPT ![h] = q]
      /\ p.app \in Python
  BY DEF PythonFails, Becomes, Python
<1>3. /\ unbound \in HopType /\ Kept(p, unbound) /\ unbound.at = p.at
      /\ unbound.stage = p.stage /\ unbound.caller = p.caller
      /\ unbound.who = p.who /\ unbound.ctx = Unknown
      /\ unbound.lines = p.lines
  BY <1>1 DEF HopType, Kept, Sources
<1>4. /\ l.event = "unhandled_exception" /\ l.level = "ERROR"
      /\ l.source = Unknown
  BY <1>3 DEF Line, TagOn
<1> HIDE DEF unbound
<1>5. "unhandled_exception" \in Events /\ "ERROR" \in Levels
  BY DEF Events, Levels
<1>6. /\ s \in HopType /\ Kept(p, s) /\ s.at = p.at /\ s.stage = p.stage
      /\ s.caller = p.caller /\ s.who = p.who
      /\ LinesIn(s) = LinesIn(p) \cup {l}
      /\ RequestLines(s) = RequestLines(p)
  <2>1. /\ s \in HopType /\ Kept(unbound, s) /\ s.at = unbound.at
        /\ s.stage = unbound.stage
        /\ s.caller = unbound.caller /\ s.who = unbound.who
        /\ LinesIn(s) = LinesIn(unbound) \cup {l}
        /\ RequestLines(s) = RequestLines(unbound)
    BY <1>3, <1>5, SaysFields
  <2>2. LinesIn(unbound) = LinesIn(p) /\ RequestLines(unbound) = RequestLines(p)
    BY <1>3 DEF LinesIn, RequestLines
  <2> QED BY <1>3, <2>1, <2>2 DEF Kept
<1> HIDE DEF s, l
<1>7. /\ q \in HopType /\ Kept(p, q) /\ q.at = p.at /\ q.stage = p.stage
      /\ q.caller = p.caller /\ q.who = p.who /\ q.status = 500
      /\ LinesIn(q) = LinesIn(p) \cup {l}
      /\ RequestLines(q) = RequestLines(p)
  <2>1. q.lines = s.lines
    BY <1>6 DEF HopType
  <2>2. q \in HopType
    BY <1>6 DEF HopType, Statuses
  <2>3. /\ Kept(p, q) /\ q.at = p.at /\ q.stage = p.stage
        /\ q.caller = p.caller /\ q.who = p.who /\ q.status = 500
    BY <1>6 DEF HopType, Kept
  <2>4. LinesIn(q) = LinesIn(s) /\ RequestLines(q) = RequestLines(s)
    BY <2>1 DEF LinesIn, RequestLines
  <2> QED BY <1>6, <2>2, <2>3, <2>4
<1> HIDE DEF q
<1>8. Good(h[1], q)
  <2>1. Placed(q)
    BY <1>1, <1>7 DEF Good, Placed, Kept, Public
  <2>2. Tagged(h[1], q)
    BY <1>1, <1>2, <1>4, <1>7 DEF Good, Tagged, Kept, Untagged
  <2>3. Known(q)
    BY <1>1, <1>4, <1>7 DEF Good, Known, Kept, Anonymous, Public
  <2>4. Loud(q)
    BY <1>2, <1>4, <1>7 DEF Loud, HasLevel, OwnFailure, Kept
  <2>5. Told(q)
    <3>1. Raised(q)
      BY <1>2, <1>4, <1>7, RaisedIs DEF Kept
    <3>2. RequestLines(p) = {}
      BY <1>1 DEF Good, Told
    <3>3. q.app # "ap"
      BY <1>2, <1>7 DEF Kept
    <3> QED BY <1>7, <3>1, <3>2, <3>3 DEF Told
  <2> QED BY <1>7, <2>1, <2>2, <2>3, <2>4, <2>5 DEF Good
<1>9. OwnFailure(q)
  BY <1>4, <1>7 DEF HasLevel, OwnFailure
<1>10. q.caller \in {"-", Caller(q.key)}
  BY <1>1, <1>7 DEF Kept
<1>11. /\ Kept(hops[h], q)
       /\ h[2] = "edge" /\ q.stage = "waiting" =>
            /\ hops[h].stage = "waiting"
            /\ LET data == hops[<<h[1], "sda">>] IN
               /\ q.status \in {0, data.status, 500, 502}
               /\ q.status = 500 =>
                    data.status = 500 \/ OwnFailure(q)
  BY <1>7, <1>9
<1>12. /\ Running(h) /\ UNCHANGED <<keys, tokens, expired, claims>>
       /\ faults' \in 0..MaxFaults
  BY <1>1
<1>13. hops' = [hops EXCEPT ![h] = q]
  BY <1>2
<1> HIDE DEF p
<1> QED BY <1>8, <1>10, <1>11, <1>12, <1>13, QuietMove

LEMMA PortalFailsKeeps ==
  ASSUME IInv, NEW h \in Hops, PortalFails(h)
  PROVE  IInv'
<1> DEFINE p == hops[h]
           s == Says(p, "unhandled_exception", "ERROR")
<1>1. /\ Running(h) /\ h[1] \in Requests /\ Good(h[1], p)
      /\ p \in HopType /\ p.status = 0 /\ p.at = RouteAt(p.app)
      /\ p.caller \in {"-", Caller(p.key)}
      /\ UNCHANGED <<keys, tokens, expired, claims>>
      /\ faults' \in 0..MaxFaults
  BY FailsAt DEF PortalFails
<1>2. p.app \in {"cp", "ap"} /\ hops' = [hops EXCEPT ![h] = Answer(s, 500)]
  BY DEF PortalFails, Becomes
<1>3. "unhandled_exception" \in Events /\ "ERROR" \in Levels
  BY DEF Events, Levels
<1>4. p.app \notin Python
  BY <1>2 DEF Python
<1>5. /\ Good(h[1], s) /\ Kept(p, s) /\ s.stage = p.stage /\ s.status = 0
      /\ s.caller = p.caller /\ HasLevel(s, {"ERROR"})
      /\ s.at > LogAt(s.app)
  BY <1>1, <1>3, <1>4, RouteSays
<1> HIDE DEF s
<1>6. MayAnswer(h, s, 500)
  BY <1>1, <1>2, <1>5 DEF MayAnswer, Kept, HasLevel, OwnFailure, Statuses,
     Refusable
<1>7. /\ Running(h) /\ UNCHANGED <<keys, tokens, expired, claims>>
      /\ faults' \in 0..MaxFaults
  BY <1>1
<1>8. hops' = [hops EXCEPT ![h] = Answer(s, 500)]
  BY <1>2
<1> HIDE DEF p
<1> QED BY <1>6, <1>7, <1>8, AnswerMove

LEMMA CallFailsKeeps ==
  ASSUME IInv, NEW r \in Requests, CallFails(r)
  PROVE  IInv'
<1> DEFINE e == <<r, "edge">>
           p == hops[e]
           s == Says(p, "sda_upstream_unreachable", "WARN")
           l == Line(p, "sda_upstream_unreachable", "WARN")
<1>1. /\ e \in Hops /\ e[1] = r /\ Fails(e)
      /\ p.app = "cp" /\ hops' = [hops EXCEPT ![e] = Answer(s, 500)]
  BY DEF CallFails, Becomes, Hops
<1>2. /\ Running(e) /\ Good(r, p)
      /\ p \in HopType /\ p.status = 0 /\ p.at = RouteAt(p.app)
      /\ p.caller \in {"-", Caller(p.key)}
      /\ UNCHANGED <<keys, tokens, expired, claims>>
      /\ faults' \in 0..MaxFaults
  <2> HIDE DEF e
  <2> QED BY <1>1, FailsAt
<1>3. "sda_upstream_unreachable" \in Events /\ "WARN" \in Levels
  BY DEF Events, Levels
<1> HIDE DEF p
<1>4. /\ Good(r, s) /\ Kept(p, s) /\ s.stage = p.stage /\ s.status = 0
      /\ s.caller = p.caller /\ HasLevel(s, {"WARN"})
      /\ s.at > LogAt(s.app)
  BY <1>1, <1>2, <1>3, RouteSays
<1>5. l \in LinesIn(s) /\ l.event = "sda_upstream_unreachable"
  BY <1>2, <1>3, SaysFields DEF Line
<1> HIDE DEF s, l
<1>6. OwnFailure(s) /\ HasLevel(s, {"WARN", "ERROR"})
  BY <1>1, <1>4, <1>5 DEF OwnFailure, Warned, HasLevel, Kept
<1>7. MayAnswer(e, s, 500)
  BY <1>1, <1>2, <1>4, <1>6 DEF MayAnswer, Kept, Statuses, Refusable, p
<1>8. /\ e \in Hops /\ Running(e) /\ hops' = [hops EXCEPT ![e] = Answer(s, 500)]
      /\ UNCHANGED <<keys, tokens, expired, claims>>
      /\ faults' \in 0..MaxFaults
  BY <1>1, <1>2
<1> HIDE DEF e
<1> QED BY <1>7, <1>8, AnswerMove

\* An application answers by itself.
LEMMA HealthKeeps ==
  ASSUME IInv, NEW h \in Hops, Health(h)
  PROVE  IInv'
<1> DEFINE p == hops[h]
<1>1. /\ Running(h) /\ p \in HopType /\ Good(h[1], p)
      /\ p.at = RouteAt(p.app) /\ Public(p)
  BY StageOf DEF Health
<1>2. p.status = 0 /\ p.caller \in {"-", Caller(p.key)}
  BY <1>1, HopIs
<1>3. /\ hops' = [hops EXCEPT ![h] = Answer(p, 200)]
      /\ UNCHANGED <<keys, tokens, expired, claims>>
      /\ faults' \in 0..MaxFaults
  BY DEF Health, Becomes, IInv, Types
<1>4. p.stage # "waiting"
  BY <1>1 DEF Good, Placed
<1>5. p.at > LogAt(p.app)
  BY <1>1 DEF RouteAt, LogAt
<1>6. MayAnswer(h, p, 200)
  BY <1>1, <1>2, <1>4, <1>5 DEF MayAnswer, Kept, Statuses, Refusable
<1> QED BY <1>1, <1>3, <1>6, AnswerMove

\* Time passes for the tokens.
LEMMA ExpireKeeps ==
  ASSUME IInv, Expire
  PROVE  IInv'
<1>1. Types' /\ TokensAreTrue' /\ ClaimsAreTrue'
  BY DEF IInv, Types, TokensAreTrue, ClaimsAreTrue, RoleOf, Expire
<1>2. HopsAreGood' /\ Linked'
  BY DEF IInv, HopsAreGood, HopStands, Linked, HopsAgree, Sent, Caller, Expire
<1> QED BY <1>1, <1>2 DEF IInv

-----------------------------------------------------------------------------
\* The invariant holds at the start and is kept by every step.
LEMMA InitIInv == Init => IInv
<1> SUFFICES ASSUME Init PROVE IInv
  OBVIOUS
<1>1. \A h \in Hops : ~Sent(h)
  BY DEF Init, Sent
<1>2. Types
  BY ConstantsAssumption DEF Init, Types
<1>3. HopsAreGood
  BY <1>1 DEF HopsAreGood, HopStands
<1>4. Linked
  <2> SUFFICES ASSUME NEW r \in Requests PROVE HopsAgree(r)
    BY DEF Linked
  <2>1. ~Sent(<<r, "edge">>) /\ ~Sent(<<r, "sda">>)
    BY <1>1 DEF Hops
  <2> QED BY <2>1 DEF HopsAgree
<1>5. TokensAreTrue /\ ClaimsAreTrue
  BY DEF Init, TokensAreTrue, ClaimsAreTrue
<1> QED BY <1>2, <1>3, <1>4, <1>5 DEF IInv

LEMMA StutterIInv == IInv /\ UNCHANGED vars => IInv'
<1> SUFFICES ASSUME IInv, UNCHANGED vars PROVE IInv'
  OBVIOUS
<1>1. Types' /\ TokensAreTrue' /\ ClaimsAreTrue'
  BY DEF IInv, Types, TokensAreTrue, ClaimsAreTrue, RoleOf, vars
<1>2. HopsAreGood' /\ Linked'
  BY DEF IInv, HopsAreGood, HopStands, Linked, HopsAgree, Sent, Caller, vars
<1> QED BY <1>1, <1>2 DEF IInv

LEMMA FiltersKeep ==
  ASSUME IInv, NEW h \in Hops, Filters(h)
  PROVE  IInv'
BY BindSourceKeeps, CheckKeyKeeps, ChaosKeeps, WakeKeeps, CheckTokenKeeps
   DEF Filters

LEMMA NextIInv == IInv /\ [Next]_vars => IInv'
<1> SUFFICES ASSUME IInv, [Next]_vars PROVE IInv'
  OBVIOUS
<1>1. ASSUME NEW r \in Requests, Send(r) PROVE IInv'
  BY <1>1, SendKeeps
<1>2. ASSUME NEW r \in Requests, SendDirect(r) PROVE IInv'
  BY <1>2, SendDirectKeeps
<1>3. ASSUME NEW r \in Requests, EdgeStep(r) PROVE IInv'
  <2>1. <<r, "edge">> \in Hops
    BY DEF Hops
  <2> QED BY <1>3, <2>1, FiltersKeep, HealthKeeps, ForwardKeeps, PassOnKeeps,
          GiveUpKeeps DEF EdgeStep
<1>4. ASSUME NEW r \in Requests, DataStep(r) PROVE IInv'
  <2>1. <<r, "sda">> \in Hops
    BY DEF Hops
  <2> QED BY <1>4, <2>1, FiltersKeep, HealthKeeps, LoginKeeps, ReadKeeps,
          CreateClaimKeeps DEF DataStep
<1>5. ASSUME NEW h \in Hops, PythonFails(h) PROVE IInv'
  BY <1>5, PythonFailsKeeps
<1>6. ASSUME NEW h \in Hops, PortalFails(h) PROVE IInv'
  BY <1>6, PortalFailsKeeps
<1>7. CASE Expire
  BY <1>7, ExpireKeeps
<1>8. ASSUME NEW r \in Requests, CallFails(r) PROVE IInv'
  BY <1>8, CallFailsKeeps
<1>9. CASE UNCHANGED vars
  BY <1>9, StutterIInv
<1> QED BY <1>1, <1>2, <1>3, <1>4, <1>5, <1>6, <1>7, <1>8, <1>9 DEF Next

\* The invariant holds in every reachable state of the four applications.
THEOREM Invariance == Spec => []IInv
<1> QED BY InitIInv, NextIInv, PTL DEF Spec

-----------------------------------------------------------------------------
\* What the invariant says of a hop that was sent.
LEMMA SentIsGood ==
  ASSUME IInv, NEW h \in Hops, Sent(h)
  PROVE  /\ h[1] \in Requests /\ Good(h[1], hops[h])
         /\ LinesOf(h) = LinesIn(hops[h])
BY DEF IInv, HopsAreGood, HopStands, Hops, LinesOf, LinesIn

\* main.py:47-65 and the stacks of the other three: a hop never leaves its
\* stack of filters, a bearer is an issued token, and every variable keeps its
\* type.
THEOREM TypeCorrect == Spec => []TypeOK
<1>1. IInv => TypeOK
  <2> SUFFICES ASSUME IInv PROVE TypeOK
    OBVIOUS
  <2>1. /\ keys \in KeySchemes /\ expired \subseteq tokens
        /\ faults \in 0..MaxFaults
    BY DEF IInv, Types
  <2>2. \A t \in tokens : t.user \in Users /\ t.app \in Edges /\ t.via \in Edges
    BY DEF IInv, Types, TokenType
  <2>3. ASSUME NEW h \in Hops, Sent(h)
        PROVE  LET p == hops[h] IN
               /\ p.app \in (IF h[2] = "edge" THEN Edges ELSE {"sda"})
               /\ p.at \in 1..Len(StackOf(p.app))
               /\ p.stage \in {"filters", "asleep", "waiting"}
               /\ p.caller \in Edges \cup {"-"}
               /\ p.who \in Users \cup {Nobody}
               /\ p.bearer \in tokens \cup {NoToken}
               /\ p.status \in Statuses
    <3> DEFINE p == hops[h]
    <3>1. /\ p \in HopType /\ Placed(p)
          /\ p.app \in (IF h[2] = "edge" THEN Edges ELSE {"sda"})
          /\ p.bearer \in tokens \cup {NoToken}
      BY <2>3 DEF IInv, HopsAreGood, HopStands, Good
    <3>2. Len(StackOf(p.app)) = RouteAt(p.app)
      <4>1. \A app \in {"fnol", "cp", "ap"} : Len(StackOf(app)) = 4
        BY StackIs
      <4>2. Len(StackOf("sda")) = 5
        BY StackIs
      <4>3. p.app \in {"fnol", "cp", "ap", "sda"}
        BY <3>1 DEF HopType, Apps, Edges
      <4> QED BY <4>1, <4>2, <4>3 DEF RouteAt
    <3>3. p.at \in 1..RouteAt(p.app)
      BY <3>1 DEF HopType, Placed, RouteAt
    <3> QED BY <3>1, <3>2, <3>3 DEF HopType
  <2> QED BY <2>1, <2>2, <2>3 DEF TypeOK, Statuses
<1> QED BY <1>1, Invariance, PTL

\* request_logger.py:28-34, source-context.ts, SourceContext.java:9-13: however
\* the requests interleave, each line carries the tag of its own request, also
\* those the Shared Data API writes after the edge application has given up,
\* but for the two kinds that carry none.
THEOREM OriginStays == Spec => []OriginIsKept
<1>1. IInv => OriginIsKept
  <2> SUFFICES ASSUME IInv, NEW r \in Requests, NEW side \in {"edge", "sda"},
                      Sent(<<r, side>>), NEW line \in LinesOf(<<r, side>>)
               PROVE  line.source =
                        IF Untagged(hops[<<r, side>>], line) THEN Unknown
                        ELSE Normalize(Origin[r])
    BY DEF OriginIsKept
  <2>1. <<r, side>> \in Hops
    BY DEF Hops
  <2>2. Tagged(r, hops[<<r, side>>]) /\ line \in LinesIn(hops[<<r, side>>])
    BY <2>1, SentIsGood DEF Good
  <2> QED BY <2>2 DEF Tagged, TagOf
<1> QED BY <1>1, Invariance, PTL

\* ADR-013, main.py:53-56, WebConfig.java:35-37: the two applications that
\* check a caller before they inject faults do it for all but the routes that
\* are open to anyone.
THEOREM ChaosStaysBehindAuth == Spec => []ChaosBehindAuth
<1>1. IInv => ChaosBehindAuth
  <2> SUFFICES ASSUME IInv, NEW h \in Hops, Sent(h),
                      \/ hops[h].stage = "asleep"
                      \/ \E line \in LinesOf(h) : line.event = "chaos"
               PROVE  /\ hops[h].app = "sda" => Public(hops[h])
                                                \/ hops[h].caller # "-"
                      /\ hops[h].app = "ap" => Anonymous(hops[h])
                                               \/ hops[h].who # Nobody
    BY DEF ChaosBehindAuth
  <2>1. /\ Good(h[1], hops[h]) /\ LinesOf(h) = LinesIn(hops[h])
    BY SentIsGood
  <2>2. hops[h].at >= ChaosAt(hops[h].app) /\ hops[h].at \in 1..5
    BY <2>1 DEF Good, Placed, Known, HopType, ChaosAt
  <2> QED BY <2>1, <2>2 DEF Good, Known, ChaosAt
<1> QED BY <1>1, Invariance, PTL

\* claims_service.py:70-77: whatever keys are configured and wherever tokens
\* are carried, a claim's customer has logged in through FNOL.
THEOREM ClaimsStayFnol == Spec => []ClaimsComeThroughFnol
<1>1. IInv => ClaimsComeThroughFnol
  <2> SUFFICES ASSUME IInv, NEW c \in claims
               PROVE  /\ c.under.via = "fnol" /\ c.under.user = c.for
                      /\ c.for \in Customers
    BY DEF ClaimsComeThroughFnol
  <2>1. /\ c.under \in tokens /\ c.under.app = "fnol"
        /\ c.under.role = "customer" /\ c.under.user = c.for
    BY DEF IInv, ClaimsAreTrue
  <2>2. c.under.via = "fnol" /\ RoleOf(c.under.user) = "customer"
    BY <2>1 DEF IInv, TokensAreTrue
  <2> QED BY <2>1, <2>2 DEF RoleOf
<1> QED BY <1>1, Invariance, PTL

\* routers/claims.py:20-39, errors.ts:13-28, SdaClient.java:81-101: what a
\* client is told is the Shared Data API's verdict, a time-out or a failure.
THEOREM VerdictStays == Spec => []VerdictIsPassedOn
<1>1. IInv => VerdictIsPassedOn
  <2> SUFFICES ASSUME IInv, NEW r \in Requests, Answered(<<r, "edge">>),
                      hops[<<r, "edge">>].stage = "waiting"
               PROVE  hops[<<r, "edge">>].status
                        \in {hops[<<r, "sda">>].status, 502, 500} \ {0}
    BY DEF VerdictIsPassedOn
  <2> QED BY DEF IInv, Linked, HopsAgree, Answered
<1> QED BY <1>1, Invariance, PTL

\* An answered request has one request line, its last, which tells the status
\* that was answered, or leaves none where the code writes none; a request
\* under way has none.
THEOREM AnswersStayLogged == Spec => []EveryAnswerIsLogged
<1>1. IInv => EveryAnswerIsLogged
  <2> SUFFICES ASSUME IInv, NEW h \in Hops, Sent(h)
               PROVE  LET p == hops[h] IN
                      IF p.status = 0 \/ Raised(p) \/ RefusedEarly(p)
                      THEN RequestLines(p) = {}
                      ELSE /\ RequestLines(p) = {Len(p.lines)}
                           /\ p.lines[Len(p.lines)].status = p.status
    BY DEF EveryAnswerIsLogged
  <2>1. Good(h[1], hops[h])
    BY SentIsGood
  <2> QED BY <2>1 DEF Good, Told
<1> QED BY <1>1, Invariance, PTL

\* config.py:120: every answer of 500 and more leaves a line the dashboard
\* reads, and one that is neither a time-out nor a call of the Customer Portal
\* that failed by itself an ERROR where it arose.
THEOREM FailuresStaySeen == Spec => []FailuresAreSeen
<1>1. IInv => FailuresAreSeen
  <2> SUFFICES ASSUME IInv, NEW h \in Hops, Answered(h),
                      hops[h].status >= 500
               PROVE  /\ \E line \in LinesOf(h) :
                           line.level \in {"WARN", "ERROR"}
                      /\ \/ hops[h].status = 502 \/ CallFailed(hops[h])
                         \/ \E k \in Hops :
                             /\ k[1] = h[1] /\ Sent(k)
                             /\ \E line \in LinesOf(k) : line.level = "ERROR"
    BY DEF FailuresAreSeen
  <2>1. Sent(h)
    BY DEF Answered
  <2>2. /\ h[1] \in Requests /\ Good(h[1], hops[h])
        /\ LinesOf(h) = LinesIn(hops[h])
    BY <2>1, SentIsGood
  <2>3. \E line \in LinesOf(h) : line.level \in {"WARN", "ERROR"}
    BY <2>2 DEF Good, Loud, HasLevel
  <2>4. ASSUME hops[h].status # 502, ~CallFailed(hops[h])
        PROVE  \E k \in Hops :
                 /\ k[1] = h[1] /\ Sent(k)
                 /\ \E line \in LinesOf(k) : line.level = "ERROR"
    <3>1. hops[h].status = 500
      BY <2>2, <2>4 DEF Good, HopType, Statuses
    <3>2. ~Warned(hops[h])
      BY <2>4, <3>1 DEF CallFailed, Warned, LinesIn
    <3>3. CASE HasLevel(hops[h], {"ERROR"})
      BY <2>1, <2>2, <3>3 DEF HasLevel
    <3>4. CASE hops[h].stage = "waiting" /\ ~HasLevel(hops[h], {"ERROR"})
      <4> DEFINE e == <<h[1], "edge">>
                 d == <<h[1], "sda">>
      <4>1. h = e \/ h = d
        BY DEF Hops
      <4>2. h # d
        BY <2>1, <2>2, <3>4 DEF IInv, HopsAreGood, HopStands, Good, Placed
      <4>3. h = e /\ d \in Hops
        BY <2>2, <4>1, <4>2 DEF Hops
      <4>4. Sent(d) /\ hops[d].status = 500
        BY <2>1, <2>2, <3>1, <3>2, <3>4, <4>3
           DEF IInv, Linked, HopsAgree, OwnFailure
      <4>5. /\ Good(h[1], hops[d]) /\ hops[d].app = "sda"
            /\ LinesOf(d) = LinesIn(hops[d])
        BY <4>3, <4>4, SentIsGood DEF IInv, HopsAreGood, HopStands
      <4>6. HasLevel(hops[d], {"ERROR"})
        BY <4>4, <4>5 DEF Good, Loud, Placed, OwnFailure, Warned
      <4> QED BY <4>3, <4>4, <4>5, <4>6 DEF HasLevel
    <3> QED BY <2>2, <3>1, <3>2, <3>3, <3>4 DEF Good, Loud, OwnFailure
  <2> QED BY <2>3, <2>4
<1> QED BY <1>1, Invariance, PTL
=============================================================================
