CONSTANTS
  Order <- Orders
  Overtakes <- QuickOrders
  Lossy = {}
  Instant = {}
  Leg = {perp, spot}
  Qty = 2
  Quick = {spot}
  Reduces = TRUE
  Skips = TRUE
  Gaps = TRUE
SPECIFICATION GroupFairSpec
INVARIANTS
  LegsAgree
  UnwindWithinFill
PROPERTIES
  WholeTradeKept
  GroupsClose
CHECK_DEADLOCK FALSE
