\* A JSON log: three lines, with a rolled file, a fault, a restart, a flush.
SPECIFICATION FairSpec
CONSTANTS
  NumLines = 3
  Headers <- JsonHeaders
  Wanted <- JsonWanted
  Multiline = FALSE
  Gzip = FALSE
  CutParses = FALSE
  BatchSize = 2
  MaxRolls = 1
  MaxFaults = 1
  MaxStarts = 2
  MaxFlushes = 1
CHECK_DEADLOCK FALSE
INVARIANTS
  TypeOK
  EveryLineIsEmbedded
PROPERTIES
  WatchedLineIsEmbedded
