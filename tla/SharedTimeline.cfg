\* A seeded claim and a filed one, under a simulator that keeps drawing.
SPECIFICATION FairSpec
CONSTANTS
  Customer = {alice}
  Agent = {agent}
  Policy = {p1}
  Claim = {c1, c2}
  SeedClaim = {c1}
  Request = {q1}
  None = None
  System = System
  MaxFaults = 1
  MaxCrashes = 1
CHECK_DEADLOCK FALSE
INVARIANTS
  HistoryIsSound
PROPERTIES
  TimelineIsKept
  ClaimsFinish
