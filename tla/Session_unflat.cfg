CONSTANTS
  Order = {c1, c2}
  Qty = 1
  Overtakes = {}
  Lossy = {}
  Instant = {}
  Reports = TRUE
  Attended = FALSE
  Crashes = FALSE
  Beat = 1
  Tolerance = 0
  Reserve = 1
SPECIFICATION SessionFairSpec
PROPERTIES
  FlattenEnds
CHECK_DEADLOCK FALSE
