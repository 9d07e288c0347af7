SPECIFICATION Spec
CONSTANTS
  None = none
  Shorts = {sc}
  Wings = {wc}
  Rules = {rule1}
  Orders = {1, 2}
  Qty = 1
  Acks = {"TRANSIT", "REJECTED"}
  Kinds = {}
  MaxKinds = 0
INVARIANTS WingGuarded
CHECK_DEADLOCK FALSE
