SPECIFICATION Spec
CONSTANTS
  PageSize = 2
  Keep = 3
  Width = 2
  Weather = {"late fault"}
  MaxTrades = 4
  MaxNow = 5
  MaxFaults = 1
INVARIANT
  HistoryTrue
CHECK_DEADLOCK FALSE
