SPECIFICATION PlatformSpec
CONSTANTS
  ExpiryDays = {5}
  Writers = {"worker", "api"}
  DayLen = 9
  DetailDays = 9
  SpotDays = 9
  BatchSize = 1
  MaxBatches = 2
  SaveTime = 0
  StoreMaxTime = 4
  MaxSaves = 2
  MaxEmpty = 0
  MaxStoreCrashes = 0
  Readers = {"r1"}
  CacheTtl = 1
  StaleAfter = 2
  LoadTime = 1
  MaxLoads = 3
  Tabs = {"r1", "r2"}
  Limit <- Lim
  MaxLinks = 1
  MaxAccountMishaps = 1
  Symbols = {"A", "B"}
  Expiries = {1, 2}
  StreamStaleAfter = 2
  Heartbeat = 1
  MaxPageFaults = 3
  Structures <- Str
  Defined = {"spread"}
  Quotes <- Snaps
  Shifts <- Moves
  Opening = 9
  DayUnits = 2
  SampleEvery = 2
  RampDay = 1
  ShownClosed = 1
  MaxViewTime = 2
  MaxQuotes = 2
  MaxRuns = 2
  PanelContracts = {"k1"}
  Slots = {1, 2}
  MaxDeals = 4
  MaxPanelFaults = 2
  Chains = {"near", "next"}
  TicketStrikes = {"k1"}
  Rows = {"x", "y"}
  MaxPreviews = 2
  MaxRowActs = 3
  PaperAsks <- Asks
  ListedLegs = {"a", "b"}
  PaperCap = 2
  NotionalCap = 2
  LegSizes = {1}
  MaxResizes = 1
  MaxDay = 4
  MaxFetches = 2
  ReplayDays <- Days
  DayCaptures = 2
  MaxReplayActs = 4
INVARIANTS SessionProven ResponseIsSound ViewsAreTrue TicketsAreSound
           PageIsHonest ChangeIsOfOneDay
PROPERTIES NobodyIsLeft
CHECK_DEADLOCK FALSE
