SPECIFICATION Spec
CONSTANTS
  NoLeg = NoLeg
  Orders = {h1, s1}
  Hedges = {h1}
  Qty = 2
  Acks = {"TRANSIT", "TRADED", "REJECTED"}
  MaxCancels = 1
  MaxCrashes = 1
INVARIANTS TypeOK NoOrphanOrder HedgeBeforeShort OneLegInDoubt
CHECK_DEADLOCK FALSE
