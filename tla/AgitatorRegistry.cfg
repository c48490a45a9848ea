\* Registry: three runs compete for two slots and a deque of two entries.
SPECIFICATION Spec
CONSTANTS
  Run = {r1, r2, r3}
  Scenario <- MCScenario
  LookupScenarios <- MCLookup
  ChaosScenarios <- MCChaos
  EnableChaos = TRUE
  MaxRecent = 2
  MaxConcurrent = 2
  Count = 1
  Concurrency = 1
CHECK_DEADLOCK FALSE
SYMMETRY RunSymmetry
INVARIANTS
  NoRunIsLost
  SlotsAreKept
PROPERTIES
  PromiseKept
