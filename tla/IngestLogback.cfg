\* A Logback log: two events, the first with a trace, rolled into an archive.
SPECIFICATION Spec
CONSTANTS
  NumLines = 4
  Headers <- TraceHeaders
  Wanted <- TraceWanted
  Multiline = TRUE
  Gzip = TRUE
  CutParses = TRUE
  BatchSize = 1
  MaxRolls = 1
  MaxFaults = 1
  MaxStarts = 2
  MaxFlushes = 1
CHECK_DEADLOCK FALSE
INVARIANTS
  TextIsVerbatim
  EveryLineIsEmbedded
