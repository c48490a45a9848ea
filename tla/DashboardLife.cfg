\* Two starts of the process, two faults of the services, two documents.
SPECIFICATION FairSpec
CONSTANTS
  WatcherEnabled = TRUE
  ScanEnabled = TRUE
  MaxDocs = 2
  MaxStarts = 2
  MaxFaults = 2
CHECK_DEADLOCK FALSE
INVARIANTS
  ReadyMeansWired
  CompleteMeansBackfilled
  NothingOutlivesShutdown
PROPERTIES
  PromotionHappens
  ShutdownEnds
