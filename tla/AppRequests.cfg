\* Two requests, one unexpected exception, two configurations of the keys.
SPECIFICATION FairSpec
CONSTANTS
  r1 = r1
  r2 = r2
  carol = carol
  adam = adam
  Requests <- MCRequests
  Origin <- MCOrigin
  Customers <- MCCustomers
  Agents <- MCAgents
  Directives <- MCDirectives
  KeySchemes <- MCKeySchemes
  MaxFaults = 1
CHECK_DEADLOCK FALSE
INVARIANTS
  OriginIsKept
  EveryAnswerIsLogged
  ChaosBehindAuth
  ClaimsComeThroughFnol
  FailuresAreSeen
PROPERTIES
  AnswersArrive
