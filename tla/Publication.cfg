SPECIFICATION AllSpec
CONSTANTS
  c1 = c1
  c2 = c2
  p1 = p1
  p2 = p2
  v1 = v1
  t1 = t1
  k1 = k1
  k2 = k2
  q1 = q1
  q2 = q2
  None = None
  Nothing = Nothing
  NoRead = NoRead
  NoCopy = NoCopy
  Clients = {c1}
  QueueMax = 1
  PageSize = 1
  TailSize = 2
  StampLag = 0
  PruneInPage = FALSE
  WireMax = 2
  MaxId = 3
  MaxFaults = 1
  View = {v1}
  Tape = {t1}
  Publishers = {p1, p2}
  OutboxOverlap = 1
  MaxChanges = 2
  MaxExpiry = 1
  MaxTruncate = 1
  MaxTickFaults = 1
  Keys = {k1, k2}
  Lifetime = 1
  BatchSize = 1
  MaxPending = 2
  MaxClock = 3
  MaxFailures = 1
  Items = {k1, k2}
  MaxWrites = 2
  MaxReopens = 1
  MaxInvalidates = 2
  MaxVerifiedAge = 1
  Grace = 2
  SlowRead = 1
  MaxReplacements = 1
  MaxModelClock = 3
  MaxModelFaults = 1
  TokenPrices = {0, 3, 6}
  ReferencePrices = {3}
  Delays = {0, 1}
  Lags = {0}
  LiveAge = 1
  LiveSkew = 0
  MaxAge = 2
  MaxSkew = 1
  Threshold = 3
  Needed = 2
  Sustain = 1
  Retention = 1
  MaxInstant = 3
  MaxRefreshes = 3
  QueueLimit = 1
  ReplayLimit = 1
  ReadLimit = 2
  MaxEvents = 2
  MaxChartFaults = 1
INVARIANTS
  TypesOK
  NoGap
  PublicationSound
  PageConsistent
  FreshAfterEvent
  AnswersVerified
  ComparisonsSound
  ChartComplete
  AlertsAndMentionsKept
PROPERTIES
  ImplementsLatestValue
  CaptureExact
CHECK_DEADLOCK FALSE
