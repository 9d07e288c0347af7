SPECIFICATION SimFairSpec
CONSTANTS
  Accounts = {1, 2}
  Trades = {1, 2}
  Marks <- SimMarks
  SettleCosts = {3}
  Capital = 10
  Credit = 2
  MaxMoves = 1
  MaxSimCrashes = 1
INVARIANT EventsAreTrue
PROPERTIES KeepsAccounts ExpiredEnds LiquidatesInNeed
CHECK_DEADLOCK FALSE
