SPECIFICATION ScreenSpec
CONSTANTS
  Session = {"s1", "s2"}
  Wallet = {"w1", "w2"}
  Kind <- KindDef
  ChartRange = {"1d", "7d"}
  Client = {"page", "other"}
  Overlap = 2
  MaxWrites = 3
  MaxFaults = 1
  Scope <- ScopeDef
  Caller = {c1, c2}
  Dex = {"d1"}
  Main = "main"
  MaxRows = 3
  FirstRows = 2
  MaxLoads = 4
  MaxSlides = 1
  Sizes = {1}
  Filter = {"all"}
  Matches <- MatchesDef
  Part = {"book", "flow", "chart"}
  Account = {"a1", "a2"}
  SymbolOf <- SymbolOfDef
  Leverage <- LeverageDef
  Price = {1, 2}
  Notional = 4
  Moment = {100, 101, 123, 124, 125, 192, 292, 293, 1348, 1444}
  MaxLog = 2
  Instant = {3, 4, 7}
  MaxSamples = 3
  Buckets = 4
  Cap = 1
  FeedLimit = 1
  SampleTime = {1, 2, 4}
  Volume = {0, 1}
  Period <- PeriodDef
  OpenedAt <- OpenedAtDef
  ClosedTrade <- ClosedTradeDef
INVARIANTS ScreenTypeOK WalletKept  OverviewAgrees ChartFaithful
PROPERTIES ScreenSettles ButtonComesBack ServesLastGood ShowsLatest
CHECK_DEADLOCK FALSE
