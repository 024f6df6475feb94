SPECIFICATION Spec
CONSTANTS
  MaxHeight = 3
  MaxForks = 1
  Quiet = {}
  QueueMax = 2
  RangeBlocks = 1
  MaxRanges = 2
  Depth = 1
  Confirmations = 1
  Weather = {{"loss", "live reorg"}}
  None = None
  MaxFaults = 1
INVARIANT
  CertifiedExact
CHECK_DEADLOCK FALSE
