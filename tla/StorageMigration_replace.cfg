SPECIFICATION Spec
CONSTANTS
  None = None
  Keys = {k1, k2}
  MaxRow = 3
  BatchRows = 2
  Replaces = TRUE
  MaxWrites = 3
  MaxFaults = 1
INVARIANT
  VerdictTrue
CHECK_DEADLOCK FALSE
