\* The seed is interrupted and the process started again.
SPECIFICATION Spec
CONSTANTS
  Customer = {alice}
  Agent = {agent}
  Policy = {p1}
  Claim = {c1}
  SeedClaim = {c1}
  Request = {}
  None = None
  System = System
  MaxFaults = 1
  MaxCrashes = 1
CHECK_DEADLOCK FALSE
INVARIANTS
  NoDatabaseIsLeftEmpty
