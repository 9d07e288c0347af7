SPECIFICATION FairSpec
CONSTANTS
  Orders = {1}
  Top = 3
  Requests = {1, 2}
  Signals = {"none"}
  Trail = 1
  Slip = 1
  StreakRequired = 2
  MaxEdits = 1
  MaxCrashes = 1
PROPERTIES KeepsLedger StopActs SettledEventually
CHECK_DEADLOCK FALSE
