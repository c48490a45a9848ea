----------------------------- MODULE AppRequests -----------------------------
(***************************************************************************)
(* A request on its way through the four applications: FNOL, the Customer  *)
(* Portal (CP) and the Agent Portal (AP) at the edge, and the Shared Data  *)
(* API (SDA) behind them.  Each application runs a request through a stack *)
(* of filters of its own, in an order of its own: the request log, which   *)
(* binds the X-Source tag for the lines written meanwhile, the caller's    *)
(* key, the injected faults of X-Chaos, the bearer token, and the route.   *)
(* The route of an edge application calls the Shared Data API, with a      *)
(* time-out, and passes its verdict on.                                    *)
(*                                                                         *)
(* A hop is one request as one application sees it: a request that an edge *)
(* application forwards has two.  What a hop writes into its application's *)
(* log is the sequence "lines" of the hop.                                 *)
(***************************************************************************)
EXTENDS Integers, Sequences

CONSTANTS
  Requests,     \* the requests clients may send (bound)
  Origin,       \* Requests -> the X-Source the client names, or "absent"
  Customers, Agents,   \* users by role
  Directives,   \* Requests -> what its X-Chaos may say
  KeySchemes,   \* how the three API keys may be configured
  MaxFaults     \* unexpected exceptions (bound)

Edges == {"fnol", "cp", "ap"}
Apps == Edges \cup {"sda"}
Python == {"fnol", "sda"}
Users == Customers \cup Agents

\* A user name or password the Shared Data API does not know.
Nobody == "nobody"

ASSUME ConstantsAssumption ==
  /\ Origin \in [Requests -> {"prod", "synthetic", "test", "health", "absent"}]
  /\ Directives \in [Requests -> SUBSET {"none", "slow", "invalid", "error418",
                                         "error500"}]
  /\ \A keys \in KeySchemes : DOMAIN keys = Edges
  /\ MaxFaults \in Nat
  /\ Nobody \notin Users /\ Customers \cap Agents = {}

VARIABLES
  keys,     \* the key of each edge application
  hops,     \* <<request, "edge" | "sda">> -> the hop, see TypeOK
  tokens,   \* every token issued
  expired,  \* those whose time is over
  claims,   \* the claims filed: who for, and under which token
  faults

vars == <<keys, hops, tokens, expired, claims, faults>>

Hops == Requests \X {"edge", "sda"}
NoHop == [app |-> "none"]
NoToken == [by |-> "none"]
NoKey == "nokey"
Unknown == "unknown"

Init ==
  /\ keys \in KeySchemes
  /\ hops = [h \in Hops |-> NoHop]
  /\ tokens = {} /\ expired = {} /\ claims = {} /\ faults = 0

-----------------------------------------------------------------------------
(* The stacks, outermost filter first.                                     *)

FnolStack == <<"log", "chaos", "token", "route">>
CustomerStack == <<"log", "chaos", "token", "route">>

\* Mutant: the filter of injected faults is registered first.
AgentStack_ChaosFirst == <<"chaos", "token", "log", "route">>

AgentStack == <<"token", "log", "chaos", "route">>

\* Mutant: the key is checked outside the request log.
DataStack_KeyFirst == <<"key", "log", "chaos", "token", "route">>

DataStack == <<"log", "key", "chaos", "token", "route">>

StackOf(app) ==
  CASE app = "fnol" -> FnolStack
    [] app = "cp" -> CustomerStack
    [] app = "ap" -> AgentStack
    [] app = "sda" -> DataStack

\* "health" stands for every path an application answers by itself and to
\* anyone; the Shared Data API's are /health, /docs, /openapi.json and /redoc.
RoutesOf(app) ==
  {"login", "read", "health"} \cup IF app = "fnol" THEN {"submit"} ELSE {}

Public(p) == p.route = "health"

\* These and login ask for no token.
Anonymous(p) == Public(p) \/ p.route = "login"

Running(h) == hops[h] # NoHop /\ hops[h].status = 0

\* The hop is at this filter of its application's stack.
At(h, filter) ==
  /\ Running(h)
  /\ StackOf(hops[h].app)[hops[h].at] = filter

HasPassed(p, filter) == \E i \in 1..(p.at - 1) : StackOf(p.app)[i] = filter

-----------------------------------------------------------------------------
(* The log.  The dashboard reads a line without a tag as unknown.          *)

\* structlog and winston put the tag that is bound on every line.  Logback's
\* pattern has none: the Agent Portal appends it to its warnings and errors
\* and to the request line, and to nothing else.
TagOn(p, level) == IF p.app = "ap" /\ level = "INFO" THEN Unknown ELSE p.ctx

Line(p, event, level) ==
  [event |-> event, level |-> level, source |-> TagOn(p, level), status |-> 0]

RequestLine(p, status) ==
  [event |-> "request", level |-> "INFO", source |-> p.ctx, status |-> status]

Says(p, event, level) == [p EXCEPT !.lines = Append(@, Line(p, event, level))]

Normalize(source) == IF source = "absent" THEN Unknown ELSE source

\* The response travels back: the request log, if the request came through
\* it, writes its line and unbinds the tag.
Answer(p, status) ==
  [p EXCEPT !.status = status,
            !.lines = IF HasPassed(p, "log")
                      THEN Append(@, RequestLine(p, status)) ELSE @,
            !.ctx = Unknown]

\* A refusal by a dependency or a route.  In the Python applications it is an
\* HTTPException, whose handler writes a line; the portals write none.
Refuse(p, status) ==
  Answer(IF p.app \in Python THEN Says(p, "http_exception", "INFO") ELSE p,
         status)

Becomes(h, p) == hops' = [hops EXCEPT ![h] = p]
Onward(p) == [p EXCEPT !.at = @ + 1]

-----------------------------------------------------------------------------
(* Clients.                                                                *)

NewHop(app, route, user, source, chaos, key, bearer) ==
  [app |-> app, route |-> route, user |-> user, source |-> source,
   chaos |-> chaos, key |-> key, bearer |-> bearer, at |-> 1,
   stage |-> "filters", ctx |-> Unknown, caller |-> "-", who |-> Nobody,
   lines |-> <<>>, status |-> 0]

Unsent(r) == hops[<<r, "edge">>] = NoHop /\ hops[<<r, "sda">>] = NoHop

\* What a request names: the user who logs in, the customer a claim is for.
Named(route) == CASE route = "login" -> Users \cup {Nobody}
                  [] route = "submit" -> Customers
                  [] route \in {"read", "health"} -> {Nobody}

\* A browser, a test, a health check or the Agitator calls an edge
\* application.
Send(r) ==
  /\ Unsent(r)
  /\ \E app \in Edges, chaos \in Directives[r],
        bearer \in tokens \cup {NoToken} :
       \E route \in RoutesOf(app) : \E user \in Named(route) :
         /\ route \in {"login", "health"} => bearer = NoToken
         /\ Becomes(<<r, "edge">>, NewHop(app, route, user, Origin[r], chaos,
                                          NoKey, bearer))
  /\ UNCHANGED <<keys, tokens, expired, claims, faults>>

\* The Agitator reads the Shared Data API directly, with the Customer
\* Portal's key; so does any other client on the machine, without a key, and
\* the health check.
SendDirect(r) ==
  /\ Unsent(r)
  /\ \E chaos \in Directives[r], key \in {keys["cp"], NoKey},
        bearer \in tokens \cup {NoToken}, route \in {"read", "health"} :
       /\ route = "health" => key = NoKey /\ bearer = NoToken
       /\ Becomes(<<r, "sda">>, NewHop("sda", route, Nobody, Origin[r], chaos,
                                       key, bearer))
  /\ UNCHANGED <<keys, tokens, expired, claims, faults>>

Expire ==
  /\ expired # tokens
  /\ expired' = tokens
  /\ UNCHANGED <<keys, hops, tokens, claims, faults>>

-----------------------------------------------------------------------------
(* The filters.                                                            *)

\* Mutant: one tag per application, not one per request.
BindSource_Shared(h) ==
  /\ At(h, "log")
  /\ LET tag == Normalize(hops[h].source) IN
       hops' = [k \in Hops |->
         IF k = h THEN Onward([hops[h] EXCEPT !.ctx = tag])
         ELSE IF hops[k] # NoHop /\ hops[k].app = hops[h].app
              THEN [hops[k] EXCEPT !.ctx = tag] ELSE hops[k]]
  /\ UNCHANGED <<keys, tokens, expired, claims, faults>>

BindSource(h) ==
  /\ At(h, "log")
  /\ Becomes(h, Onward([hops[h] EXCEPT !.ctx = Normalize(hops[h].source)]))
  /\ UNCHANGED <<keys, tokens, expired, claims, faults>>

\* Of two applications with the same key the later one has it.
Caller(key) ==
  IF key = keys["ap"] THEN "ap"
  ELSE IF key = keys["cp"] THEN "cp" ELSE IF key = keys["fnol"] THEN "fnol"
  ELSE "-"

\* A public path passes without a key, and its caller stays unknown.  The
\* refusal is the filter's own and writes no line.
CheckKey(h) ==
  /\ At(h, "key")
  /\ LET p == hops[h]  caller == Caller(p.key) IN
       Becomes(h, IF Public(p) THEN Onward(p)
                  ELSE IF caller = "-" THEN Answer(p, 401)
                  ELSE Onward([p EXCEPT !.caller = caller]))
  /\ UNCHANGED <<keys, tokens, expired, claims, faults>>

\* The level of a line about an injected error: a 5xx is an error.
ChaosLevel(status) == IF status >= 500 THEN "ERROR" ELSE "WARN"

ChaosStatus == [invalid |-> 400, error418 |-> 418, error500 |-> 500]

Chaos(h) ==
  /\ At(h, "chaos") /\ hops[h].stage = "filters"
  /\ LET p == hops[h] IN
       \/ p.chaos = "none" /\ Becomes(h, Onward(p))
       \/ p.chaos = "slow" /\ Becomes(h, [p EXCEPT !.stage = "asleep"])
       \/ /\ p.chaos \in DOMAIN ChaosStatus
          /\ LET status == ChaosStatus[p.chaos] IN
               Becomes(h, Answer(Says(p, "chaos", ChaosLevel(status)), status))
  /\ UNCHANGED <<keys, tokens, expired, claims, faults>>

\* The injected delay is over, and the request goes on.
Wake(h) ==
  /\ At(h, "chaos") /\ hops[h].stage = "asleep"
  /\ Becomes(h, Onward([Says(hops[h], "chaos", "WARN")
                         EXCEPT !.stage = "filters"]))
  /\ UNCHANGED <<keys, tokens, expired, claims, faults>>

Valid(bearer) == bearer # NoToken /\ bearer \notin expired

\* The applications share the secret, so each can check a token of another.
\* A token that does not hold gets a line of its own, a missing one does not.
CheckToken(h) ==
  /\ At(h, "token")
  /\ LET p == hops[h]
         checked == IF p.bearer = NoToken THEN p
                    ELSE Says(p, "jwt_decode_failed", "INFO")
     IN Becomes(h, IF Anonymous(p) THEN Onward(p)
                   ELSE IF Valid(p.bearer)
                        THEN Onward([p EXCEPT !.who = p.bearer.user])
                   ELSE Refuse(checked, 401))
  /\ UNCHANGED <<keys, tokens, expired, claims, faults>>

-----------------------------------------------------------------------------
(* The routes that an application answers by itself.                       *)

Health(h) ==
  /\ At(h, "route") /\ Public(hops[h])
  /\ Becomes(h, Answer(hops[h], 200))
  /\ UNCHANGED <<keys, tokens, expired, claims, faults>>

-----------------------------------------------------------------------------
(* The routes of the edge applications.                                    *)

AtEdgeRoute(r) ==
  At(<<r, "edge">>, "route") /\ hops[<<r, "edge">>].stage = "filters"

\* The call to the Shared Data API: the caller's own key, the client's token,
\* the tag that is bound, and no X-Chaos.
Upstream(p) ==
  NewHop("sda", p.route, p.user, p.ctx, "none", keys[p.app], p.bearer)

Forward(r) ==
  /\ AtEdgeRoute(r) /\ ~Public(hops[<<r, "edge">>])
  /\ LET h == <<r, "edge">>  p == hops[h] IN
       hops' = [hops EXCEPT ![h] = [p EXCEPT !.stage = "waiting"],
                            ![<<r, "sda">>] = Upstream(p)]
  /\ UNCHANGED <<keys, tokens, expired, claims, faults>>

Waiting(r) == Running(<<r, "edge">>) /\ hops[<<r, "edge">>].stage = "waiting"

\* FNOL alone has a route that does not report its success: get_claim.
Reported(p) ==
  IF p.app = "fnol" /\ p.route = "read" THEN p ELSE Says(p, "done", "INFO")

\* The verdict arrives in time and is passed on.
PassOn(r) ==
  /\ Waiting(r) /\ hops[<<r, "sda">>].status # 0
  /\ LET h == <<r, "edge">>  p == hops[h]  status == hops[<<r, "sda">>].status
     IN Becomes(h, IF status >= 400
                   THEN Refuse(Says(p, "sda_upstream_rejected", "WARN"), status)
                   ELSE Answer(Reported(p), status))
  /\ UNCHANGED <<keys, tokens, expired, claims, faults>>

\* Mutant: a call that is not answered is not given up.
GiveUp_Never(r) ==
  /\ Waiting(r) /\ hops[<<r, "sda">>].status # 0
  /\ LET h == <<r, "edge">> IN
       Becomes(h, Refuse(Says(hops[h], "sda_upstream_unreachable", "WARN"),
                         502))
  /\ UNCHANGED <<keys, tokens, expired, claims, faults>>

\* No connection, no answer in time, or the answer is lost on its way.
GiveUp(r) ==
  /\ Waiting(r)
  /\ LET h == <<r, "edge">> IN
       Becomes(h, Refuse(Says(hops[h], "sda_upstream_unreachable", "WARN"),
                         502))
  /\ UNCHANGED <<keys, tokens, expired, claims, faults>>

-----------------------------------------------------------------------------
(* The routes of the Shared Data API.                                      *)

AtDataRoute(r, route) ==
  At(<<r, "sda">>, "route") /\ hops[<<r, "sda">>].route = route

RoleOf(user) == IF user \in Customers THEN "customer" ELSE "agent"

\* The token says which application its user has logged in through; "via" is
\* not in the token but is which one it really was.
Issued(r) ==
  LET p == hops[<<r, "sda">>] IN
  [by |-> r, user |-> p.user, role |-> RoleOf(p.user), app |-> p.caller,
   via |-> hops[<<r, "edge">>].app]

Login(r) ==
  /\ AtDataRoute(r, "login")
  /\ LET h == <<r, "sda">>  p == hops[h] IN
       \/ /\ p.user = Nobody
          /\ Becomes(h, Refuse(Says(p, "login_failed", "WARN"), 401))
          /\ UNCHANGED tokens
       \/ /\ p.user # Nobody
          /\ tokens' = tokens \cup {Issued(r)}
          /\ Becomes(h, Answer(Says([p EXCEPT !.who = p.user],
                                    "login_success", "INFO"), 200))
  /\ UNCHANGED <<keys, expired, claims, faults>>

\* Users, policies and claims: what is asked for is there or is not.  A list
\* of claims is not reported.
Read(r) ==
  /\ AtDataRoute(r, "read")
  /\ LET h == <<r, "sda">>  p == hops[h] IN
       \/ \E q \in {Says(p, "done", "INFO"), p} : Becomes(h, Answer(q, 200))
       \/ Becomes(h, Refuse(p, 404))
  /\ UNCHANGED <<keys, tokens, expired, claims, faults>>

\* Mutant: the key is taken to say enough.
MayFile_ByKey(p) ==
  /\ p.caller = "fnol"
  /\ p.bearer.role = "customer" /\ p.bearer.user = p.user

MayFile(p) ==
  /\ p.caller = "fnol" /\ p.bearer.app = "fnol"
  /\ p.bearer.role = "customer" /\ p.bearer.user = p.user

\* POST /claims; what makes the rest of a claim valid is in SharedData.
CreateClaim(r) ==
  /\ AtDataRoute(r, "submit")
  /\ LET h == <<r, "sda">>  p == hops[h] IN
       \/ /\ Becomes(h, Refuse(Says(p, "claim_validation_rejected", "WARN"),
                               IF MayFile(p) THEN 400 ELSE 403))
          /\ UNCHANGED claims
       \/ /\ MayFile(p)
          /\ claims' = claims \cup {[for |-> p.user, under |-> p.bearer]}
          /\ Becomes(h, Answer(Says(p, "claim_created", "INFO"), 201))
  /\ UNCHANGED <<keys, tokens, expired, faults>>

-----------------------------------------------------------------------------
(* Unexpected exceptions of a route.                                       *)

Fails(h) ==
  /\ faults < MaxFaults /\ faults' = faults + 1
  /\ At(h, "route")
  /\ UNCHANGED <<keys, tokens, expired, claims>>

\* Mutant: the exception is answered but not logged.
PythonFails_Silently(h) ==
  /\ Fails(h) /\ hops[h].app \in Python
  /\ Becomes(h, [hops[h] EXCEPT !.ctx = Unknown, !.status = 500])

\* The exception passes through the request log, which unbinds the tag and
\* writes nothing; the handler that answers it is outside all filters.
PythonFails(h) ==
  /\ Fails(h) /\ hops[h].app \in Python
  /\ LET unbound == [hops[h] EXCEPT !.ctx = Unknown] IN
       Becomes(h, [Says(unbound, "unhandled_exception", "ERROR")
                     EXCEPT !.status = 500])

\* Express and Spring answer it inside their request log.
PortalFails(h) ==
  /\ Fails(h) /\ hops[h].app \in {"cp", "ap"}
  /\ Becomes(h, Answer(Says(hops[h], "unhandled_exception", "ERROR"), 500))

\* The Customer Portal's call ends with an error that is not one of axios, be
\* it before or after the call went out.  The client takes it for the Shared
\* Data API's, and the error handler answers it without a line.
CallFails(r) ==
  LET h == <<r, "edge">> IN
  /\ Fails(h) /\ hops[h].app = "cp" /\ ~Public(hops[h])
  /\ Becomes(h, Answer(Says(hops[h], "sda_upstream_unreachable", "WARN"), 500))

-----------------------------------------------------------------------------
Filters(h) ==
  BindSource(h) \/ CheckKey(h) \/ Chaos(h) \/ Wake(h) \/ CheckToken(h)

EdgeStep(r) ==
  \/ Filters(<<r, "edge">>) \/ Health(<<r, "edge">>)
  \/ Forward(r) \/ PassOn(r) \/ GiveUp(r)

DataStep(r) ==
  \/ Filters(<<r, "sda">>) \/ Health(<<r, "sda">>)
  \/ Login(r) \/ Read(r) \/ CreateClaim(r)

Next ==
  \/ \E r \in Requests :
       Send(r) \/ SendDirect(r) \/ EdgeStep(r) \/ DataStep(r) \/ CallFails(r)
  \/ \E h \in Hops : PythonFails(h) \/ PortalFails(h)
  \/ Expire

Spec == Init /\ [][Next]_vars

\* An edge application goes on with a request, and its client's time-out
\* runs.  Nothing is assumed of the Shared Data API.
FairSpec == Spec /\ \A r \in Requests : WF_vars(EdgeStep(r))

-----------------------------------------------------------------------------
(* Properties.                                                             *)

Sent(h) == hops[h] # NoHop
Answered(h) == Sent(h) /\ hops[h].status # 0
LinesOf(h) == {hops[h].lines[i] : i \in DOMAIN hops[h].lines}

\* The shape of the state; no request of a client that named no user has
\* one, and every token a hop bears was issued.
TypeOK ==
  /\ keys \in KeySchemes
  /\ \A h \in Hops : Sent(h) =>
       LET p == hops[h] IN
       /\ p.app \in (IF h[2] = "edge" THEN Edges ELSE {"sda"})
       /\ p.at \in 1..Len(StackOf(p.app))
       /\ p.stage \in {"filters", "asleep", "waiting"}
       /\ p.caller \in Edges \cup {"-"} /\ p.who \in Users \cup {Nobody}
       /\ p.bearer \in tokens \cup {NoToken}
       /\ p.status \in {0, 200, 201, 400, 401, 403, 404, 418, 500, 502}
  /\ expired \subseteq tokens
  /\ \A t \in tokens : t.user \in Users /\ t.app \in Edges /\ t.via \in Edges
  /\ faults \in 0..MaxFaults

\* The lines without a tag: the answer of a Python application to an
\* exception, which is written outside its request log, and what the Agent
\* Portal says at INFO, be it before its request log or inside.
Untagged(p, line) ==
  \/ line.event = "unhandled_exception" /\ p.app \in Python
  \/ line.level = "INFO" /\ line.event # "request" /\ p.app = "ap"

\* request_logger.py:28-34 (both Python applications), source-context.ts,
\* SourceContext.java:9-13: the request line and every other line about a
\* request carry the tag its own client named, on both sides of the call to
\* the Shared Data API and whatever other requests are under way, also when
\* the edge application has given the call up; those of Untagged are unknown.
\* So of what the dashboard ingests (warnings and errors) only an exception
\* of a Python application is unknown.
OriginIsKept ==
  \A r \in Requests, side \in {"edge", "sda"} : Sent(<<r, side>>) =>
    \A line \in LinesOf(<<r, side>>) :
      line.source = IF Untagged(hops[<<r, side>>], line) THEN Unknown
                    ELSE Normalize(Origin[r])

RequestLines(p) == {i \in DOMAIN p.lines : p.lines[i].event = "request"}

Raised(p) ==
  /\ p.app \in Python
  /\ \E i \in DOMAIN p.lines : p.lines[i].event = "unhandled_exception"

RefusedEarly(p) ==
  p.app = "ap" /\ p.status = 401 /\ ~Anonymous(p) /\ p.who = Nobody

\* main.py:53-59 and the stacks of the other three: a request that is
\* answered has one request line, its last, which tells the status that was
\* answered, a refused one too; one that is not has none.  Two answers leave
\* no such line: that of a Python application to an exception, and the Agent
\* Portal's refusal of a token.  (A third is not modelled: Express refuses a
\* body it cannot parse before the Customer Portal's request log.)
EveryAnswerIsLogged ==
  \A h \in Hops : Sent(h) =>
    LET p == hops[h] IN
    IF p.status = 0 \/ Raised(p) \/ RefusedEarly(p) THEN RequestLines(p) = {}
    ELSE /\ RequestLines(p) = {Len(p.lines)}
         /\ p.lines[Len(p.lines)].status = p.status

\* ADR-013, main.py:53-56, WebConfig.java:35-37: the Shared Data API and the
\* Agent Portal inject a fault only into a request whose caller they know, or
\* whose route they open to anyone: a public path (api_key.py:45-47), and in
\* the Agent Portal also login (JwtAuthenticationFilter.java:40-45).
ChaosBehindAuth ==
  \A h \in Hops : Sent(h) =>
    LET p == hops[h] IN
    (\/ p.stage = "asleep"
     \/ \E line \in LinesOf(h) : line.event = "chaos")
      => /\ p.app = "sda" => Public(p) \/ p.caller # "-"
         /\ p.app = "ap" => Anonymous(p) \/ p.who # Nobody

\* claims_service.py:70-77: whatever tokens clients carry from one
\* application to another and however the keys are configured, a claim is
\* filed for the customer who logged in through FNOL.
ClaimsComeThroughFnol ==
  \A c \in claims :
    c.under.via = "fnol" /\ c.under.user = c.for /\ c.for \in Customers

\* routers/claims.py:20-39, errors.ts:13-28, SdaClient.java:81-101: a client
\* is told of a success only if the Shared Data API had answered with it, and
\* of a refusal only if it or the edge application refused; what is told
\* stays told when the Shared Data API answers late.
VerdictIsPassedOn ==
  \A r \in Requests : Answered(<<r, "edge">>) =>
    LET edge == hops[<<r, "edge">>]  data == hops[<<r, "sda">>] IN
    edge.stage = "waiting" =>
      edge.status \in {data.status, 502, 500} \ {0}

\* The Customer Portal has answered for a call that failed by itself.
CallFailed(p) ==
  /\ p.app = "cp" /\ p.status = 500
  /\ \E i \in DOMAIN p.lines : p.lines[i].event = "sda_upstream_unreachable"

\* The dashboard sees warnings and errors only (config.py:120): an answer of
\* 500 or more leaves one in the log of the application that gives it.  One
\* that is not a time-out leaves an ERROR where it arose, but for a call of
\* the Customer Portal that failed by itself (errors.ts:27), which leaves the
\* warning that names the Shared Data API.
FailuresAreSeen ==
  \A h \in Hops : Answered(h) /\ hops[h].status >= 500 =>
    /\ \E line \in LinesOf(h) : line.level \in {"WARN", "ERROR"}
    /\ \/ hops[h].status = 502 \/ CallFailed(hops[h])
       \/ \E k \in Hops : /\ k[1] = h[1] /\ Sent(k)
                          /\ \E line \in LinesOf(k) : line.level = "ERROR"

\* clients/shared_data_api.py:47, sda-client.ts:81, SdaClientConfig.java:18:
\* a client of an edge application gets an answer, also from one whose
\* Shared Data API has stopped to answer.  (To be sent
\* and to be answered are for good, so this is Sent ~> Answered.)
AnswersArrive ==
  \A r \in Requests : []<>(Sent(<<r, "edge">>) => Answered(<<r, "edge">>))
=============================================================================
