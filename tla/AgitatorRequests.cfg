\* Request tasks: runs in turn, three requests each, two in flight, on a fair
\* event loop.
SPECIFICATION LoopSpec
CONSTANTS
  Run = {r1, r2}
  Scenario <- MCScenario
  LookupScenarios <- MCLookup
  ChaosScenarios <- MCChaos
  EnableChaos = TRUE
  MaxRecent = 1
  MaxConcurrent = 2
  Count = 3
  Concurrency = 2
CHECK_DEADLOCK FALSE
INVARIANTS
  CountersAddUp
PROPERTIES
  FinishedIsFrozen
  CancelTakesEffect
  RunsTerminate
