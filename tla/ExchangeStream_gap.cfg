SPECIFICATION Spec
CONSTANTS
  QueueMax = 2
  WireMax = 2
  BatchMax = 1
  PageLimit = 1
  MaxPages = 2
  EarlyLoss = TRUE
  MaxId = 4
  MaxFaults = 1
INVARIANT
  GapsKnown
CHECK_DEADLOCK FALSE
