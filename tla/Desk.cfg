SPECIFICATION MCDeskSpec
CONSTANTS
  Clients = {"c1"}
  Savers = {1, 2}
  Callers = {"api", "worker"}
  Consents = {"s1"}
  MaxStamp = 2
  Requests = {"r1", "r2"}
  Tickets <- TicketsAsked
  Account <- Margins
  TokenTtl = 1
  BaselineTtl = 1
  RateWindow = 6
  Tokens = {1}
  DeskMaxTime = 2
  MaxBook = 1
  Contracts = {"k1"}
  Sizes = {1, 2}
  Modifiers = {"tab", "tab2"}
  MaxSweeps = 3
  MaxControlCrashes = 1
  Baskets <- TradedBaskets
  MaxBaskets = 3
  Futures <- Crude
  Prices = {10, 11, 12}
  PartsOfDay = 4
  QuoteCache = 2
  CsvCache = 2
  TokenLife = 8
  TokenMaxTime = 9
  Panels = {"b1", "b2"}
  Marks = {7}
  Cost = 5
  FundsTtl = 1
  DeltaTtl = 1
  TickStale = 1
  TickTtl = 2
  ReplyTime = 1
  MaxScreenTime = 2
  MaxTrades = 1
  MaxPolls = 2
  Deals <- Built
  LegMarks = {1, 2, 4, 8}
  Horizon = 3
INVARIANTS LinkIsSound OncePerToken RepliesAreTrue OneGroupPerContract
           CachesAreRecent PnlIsBrokers
 
CHECK_DEADLOCK FALSE
