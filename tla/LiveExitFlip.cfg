SPECIFICATION Spec
CONSTANTS
  None = none
  Shorts = {sc}
  Wings = {wc}
  Rules = {rule1}
  Orders = {1, 2}
  Qty = 1
  Acks = {"TRANSIT", "REJECTED"}
  Kinds = {"unreachable", "setStop", "crash", "noClient"}
  MaxKinds = 1
INVARIANTS NoFlip AutoClosedMeansSent
PROPERTIES StopsSeeBroker
CHECK_DEADLOCK FALSE
