SPECIFICATION Spec
CONSTANTS
  b1 = b1
  b2 = b2
  daily = daily
  manual = manual
  Item = {b1, b2}
  None = None
  Adder = {a1, a2}
  PriorityOf <- MCPriorityOf
  Shadow <- MCShadow
  MaxHistory = 2
  Paused = 1000
  MaxTime = 1
  CanPause = FALSE
INVARIANTS
  NoShadowedItemQueued
