\* A line is being written when the backfill hands over to the watcher.
SPECIFICATION Spec
CONSTANTS
  NumLines = 2
  Headers <- JsonHeaders
  Wanted <- JsonWanted
  Multiline = FALSE
  Gzip = FALSE
  CutParses = FALSE
  BatchSize = 1
  MaxRolls = 0
  MaxFaults = 0
  MaxStarts = 1
  MaxFlushes = 0
CHECK_DEADLOCK FALSE
INVARIANTS
  HandoverLosesNothing
