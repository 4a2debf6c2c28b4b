CONSTANTS
  Order <- Orders
  Overtakes <- QuickOrders
  Lossy = {}
  Instant = {}
  Leg = {perp, spot}
  Qty = 1
  Quick = {}
  Reduces = FALSE
  Skips = FALSE
  Gaps = FALSE
SPECIFICATION GroupSpec
INVARIANT AbandonedIsDead
CHECK_DEADLOCK FALSE
