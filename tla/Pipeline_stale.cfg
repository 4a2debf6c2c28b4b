CONSTANTS
  Order = {1, 2}
  Qty = 2
  Overtakes = {1, 2}
  Lossy = {}
  Instant = {}
  Targets = {2}
  Steady = TRUE
  Maker = TRUE
SPECIFICATION PipelineSpec
INVARIANT TakerFits
CHECK_DEADLOCK FALSE
