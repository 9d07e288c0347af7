SPECIFICATION FairSpec
CONSTANTS
  NoLeg = NoLeg
  Orders = {h1, s1}
  Hedges = {h1}
  Qty = 1
  Acks = {"TRANSIT", "TRADED", "REJECTED"}
  MaxCancels = 1
  MaxCrashes = 1
PROPERTIES RowFollowsBroker
CHECK_DEADLOCK FALSE
