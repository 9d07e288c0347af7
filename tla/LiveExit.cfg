SPECIFICATION Spec
CONSTANTS
  None = none
  Shorts = {sc}
  Wings = {wc}
  Rules = {rule1}
  Orders = {1, 2}
  Qty = 1
  Acks = {"TRANSIT"}
  Kinds = {"crash", "noClient", "abort", "external"}
  MaxKinds = 1
INVARIANTS NoDoubleClose ExitIsSound
CHECK_DEADLOCK FALSE
