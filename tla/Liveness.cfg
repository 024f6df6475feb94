SPECIFICATION LiveSpec
CONSTANTS
  c1 = c1
  p1 = p1
  t1 = t1
  t2 = t2
  t3 = t3
  v1 = v1
  p2 = p2
  k1 = k1
  None = None
  Nothing = Nothing
PROPERTIES
  ChangesArrive
  EveryPageCatchesUp
  LeaseStored
  PageCatchesUp
  WaiterServed
  StandbyBecomesReady
CHECK_DEADLOCK FALSE
