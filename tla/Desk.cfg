CONSTANTS
  Order = {c1, c2}
  Qty = 2
  Overtakes = {c2}
  Lossy = {c2}
  Instant = {c2}
  Trigger = {"order_rate", "drawdown_soft", "drawdown_hard"}
  Operator = {alice, bob}
  Horizon = 2
  Adapter = {"binance", "bybit", "shadow"}
  MaxCalls = 4
  Ticket = {t1}
  Quoted = {1, 2}
  Depth = 2
  Lots = 2
  MaxNews = 3
  OrderDelays = {0, 1}
  ModelQueue = TRUE
  Validity = 4
  Keepalive = 2
  StreamEnd = 6
  MaxTrades = 2
  Strategy = {carry, trend}
  Instrument = {btc}
  Price = {4, 8}
  Rate = {1}
  MaxHeld = 2
  MaxEntries = 3
  Unused = TRUE
  Trader <- Traders2
  Symbol = {x}
  SharedLegs = FALSE
  Estimates = TRUE
  Refusals = TRUE
  MaxEvents = 2
  Quote = {8, 11, 12, 16}
  LastTick = 3
  Approver = {ann, bea}
  Document <- Ladders
  Bounds <- LadderBounds
  Wait = 1
  LastDay = 1
  MaxSigned = 2
  Level = {1, 2}
  SnapshotLevels = 1
  MaxUpdates = 3
  MaxQueue = 2
  MaxDials = 2
  Stream = {depth, trade}
  Batch = 3
  MinPart = 2
  CheckEvery = 2
  MaxRecords = 3
  LastHour = 1
  BufferLimit = 3
  MaxAudited = 5
  Lives = 2
  Target = {"feed_uptime", "reconciliation_failures", "signal_to_order_latency_p99"}
  MaxReports = 3
  Studied = {"carry", "carry (costless)"}
  Costless = {"carry (costless)"}
  MaxTrials = 2
  Samples = {4, 5, 7}
SPECIFICATION DeskSpec
INVARIANTS
  TypeOK
  InFlightCovers
  AccountsConsistent
  CancelledIsClosed
  NeverWrittenOffAlive
  FillsAreEarned
  TokenOutlivesSilence
  EquityIsTrading
  AttributedWhole
  NeverAgainst
  MemoryIsAsked
  LoadedByApproval
  BookIsVenues
  EngineAgrees
  CatchesUp
  ArchiveIsTheStream
  NothingForgotten
  PagedWhileAtRisk
  EveryTrialCounts
  SplitsDoNotLeak
PROPERTIES
  RefinesExposure
  WrittenOffOnlyIfAbsent
  ReleasedByPeople
  FlattenOutlasts
CHECK_DEADLOCK FALSE
