SPECIFICATION FairSpec
CONSTANTS
  None = none
  Shorts = {sc}
  Wings = {}
  Rules = {rule1}
  Orders = {1}
  Qty = 1
  Acks = {"TRANSIT"}
  Kinds = {"crash", "noClient", "unreachable", "abort", "external", "apiExit", "apiReconcile"}
  MaxKinds = 2
PROPERTY FlatIsSeen
CHECK_DEADLOCK FALSE
