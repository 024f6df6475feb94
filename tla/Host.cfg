SPECIFICATION AllSpec
CONSTANTS
  k1 = k1
  k2 = k2
  q1 = q1
  q2 = q2
  None = None
  Keys = {"a", "b"}
  MaxRow = 3
  BatchRows = 1
  MaxWrites = 3
  MaxStray = 1
  MaxFaults = 1
INVARIANTS
  TypeOK
  NoChangeLost
  CertificatesTrue
  PromotedEqualsPostgres
  LoopsAndQuotesSound
  HistoriesTrue
  LimitsKept
CHECK_DEADLOCK FALSE
