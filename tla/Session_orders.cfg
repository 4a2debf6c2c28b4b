CONSTANTS
  Order = {c1, c2}
  Qty = 2
  Overtakes = {c1, c2}
  Lossy = {c1, c2}
  Instant = {}
  Reports = FALSE
  Attended = TRUE
  Crashes = TRUE
  Beat = 0
  Tolerance = 0
  Reserve = 0
SPECIFICATION SessionSpec
SYMMETRY Symmetry
PROPERTIES
  OpensKnowingOrders
CHECK_DEADLOCK FALSE
