\* Two turns, requests or scans, on one shared session or on threads of their
\* own, an index of one thread and a buffer of one finding.
SPECIFICATION FairSpec
CONSTANTS
  e1 = e1
  ChatTurns = {t1, t2}
  ScanTurns = {t1, t2}
  Sessions = {s1}
  Entries <- MCEntries
  Level <- MCLevel
  TopK = 1
  MaxToolCalls = 2
  MaxSessions = 1
  MaxFindings = 1
  NoTurn = NoTurn
CHECK_DEADLOCK FALSE
INVARIANTS
  TypeOK
  CheckpointsAreTracked
  BudgetIsKept
  AnswersAreTheirOwn
  AnsweredTurnsAreKept
PROPERTIES
  EveryTurnEnds
