SPECIFICATION FairSpec
CONSTANTS
  b1 = b1
  b2 = b2
  daily = daily
  manual = manual
  Item = {b1, b2, daily, manual}
  None = None
  Adder = {a1, a2}
  PriorityOf <- MCPriorityOf
  Shadow <- MCShadow
  MaxHistory = 2
  Paused = 1000
  MaxTime = 1
  CanPause = TRUE
INVARIANTS
  TypeOK
  OneJobAtATime
  NothingLostOrDuplicated
  ArrivalOrderKept
  ReapedNotInProgress
  HistoryIsStarted
PROPERTIES
  ImplementsJobQueue
  EveryItemRuns
  CurrentItemIsCleared
