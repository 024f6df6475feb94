SPECIFICATION AllSpec
CONSTANTS
  k1 = k1
  k2 = k2
  q1 = q1
  q2 = q2
  None = None
  NoEvent = NoEvent
  Keys = {k1, k2}
  MaxRow = 3
  BatchRows = 2
  Replaces = TRUE
  MaxWrites = 2
  MaxFaults = 1
  Pools = {q1, q2}
  QueueMax = 3
  BurstMax = 1
  MaxEvents = 2
  MaxQueueFaults = 1
  HotPools = {q1}
  Bases = {k1}
  Quiet = {}
  PageSize = 1
  MaxPages = 1
  EventBudget = 1
  Lookback = 0
  RangeBlocks = 2
  AnchorRace = FALSE
  Nil = Nil
  MaxTip = 3
  MaxForks = 1
  MaxSelections = 1
  MaxScans = 2
  MaxRecentFaults = 1
  Tasks = {k1, k2, "quote"}
  Lane <- writerLane
  Gate <- writerGate
  Attempts = 2
  MaxStoreFaults = 1
  Capacity = 2
  TakeMax = 2
  PartMax = 1
  Retained = 1
  MaxTrades = 2
  MaxClock = 2
  MaxOffers = 3
  MaxMarketFaults = 1
INVARIANTS
  TypesOK
  NothingMissing
  NoChangeLost
  CertifiedExact
  CandlesTrue
  QueueFair
  ProofExact
  GapsKnown
  RelationsProved
  WritesWhole
  WriterKeeps
  FeedSound
CHECK_DEADLOCK FALSE
