\* Two submissions, a simulator, a reader, a fault and a crash.
SPECIFICATION Spec
CONSTANTS
  Customer = {alice, bob}
  Agent = {agent}
  Policy = {p1}
  Claim = {c1, c2}
  SeedClaim = {}
  Request = {q1, q2}
  None = None
  System = System
  MaxFaults = 1
  MaxCrashes = 1
CHECK_DEADLOCK FALSE
SYMMETRY DataSymmetry
INVARIANTS
  ClaimsAreOwned
  AnswersAreTrue
  ReaderSeesItsStatus
