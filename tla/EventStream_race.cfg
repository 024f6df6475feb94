SPECIFICATION Spec
CONSTANTS
  Clients = {c1}
  QueueMax = 1
  PageSize = 1
  TailSize = 2
  StampLag = 0
  PruneInPage = TRUE
  WireMax = 2
  MaxId = 3
  MaxFaults = 0
INVARIANT
  NoGap
CHECK_DEADLOCK FALSE
