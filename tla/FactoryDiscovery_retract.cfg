SPECIFICATION Spec
CONSTANTS
  MaxHeight = 4
  ForkAt = 2
  CreatedAt = 2
  MovedTo = 3
  BatchBlocks = 2
  MaxRanges = 2
  Confirmations = 1
  None = None
  MaxReorgs = 2
  MaxFaults = 1
INVARIANT
  OrphansRetracted
CHECK_DEADLOCK FALSE
