CONSTANTS
  Order = {c1}
  Qty = 2
  Overtakes = {c1}
  Lossy = {c1}
  Instant = {}
  Reports = FALSE
  Attended = FALSE
  Crashes = FALSE
  Beat = 1
  Tolerance = 0
  Reserve = 0
SPECIFICATION SessionFairSpec
PROPERTIES
  DesyncDetected
CHECK_DEADLOCK FALSE
