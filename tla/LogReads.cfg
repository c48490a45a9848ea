\* Two apps, three entries, two requests under way.
SPECIFICATION Spec
CONSTANTS
  App = {1, 2}
  Level <- MCLevel
  Writes <- MCWrites
  LineBytes <- MCLineBytes
  Chunk = 4
  TailDefault = 2
  PageSize = 1
  TopK = 1
  GateLevels = {"ERROR"}
  Filters <- MCFilters
  Hour = 4
  Buckets = 2
  BucketSize = 2
  Day = 2
  DefaultDays = 1
  MaxDays = 2
  Times = {3, 4}
  MaxTime = 4
  MaxEntries = 3
  MaxRolls = 1
  MaxPending = 2
CHECK_DEADLOCK FALSE
INVARIANTS
  TypeOK
  TableAnswersTheFilter
  NothingIsSkipped
  TailIsTheEnd
  SeriesAddUp
