CONSTANTS
  Order = {c1, c2}
  Qty = 1
  Overtakes = {}
  Lossy = {}
  Instant = {}
  Reports = TRUE
  Attended = TRUE
  Crashes = TRUE
  Beat = 2
  Tolerance = 0
  Reserve = 0
SPECIFICATION SessionSpec
SYMMETRY Symmetry
PROPERTIES
  TradesInformed
CHECK_DEADLOCK FALSE
