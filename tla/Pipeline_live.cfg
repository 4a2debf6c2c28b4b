CONSTANTS
  Order = {1, 2, 3}
  Qty = 2
  Overtakes = {1, 2, 3}
  Lossy = {}
  Instant = {}
  Targets = {0, 2}
  Steady = FALSE
  Maker = TRUE
SPECIFICATION PipelineSpec
INVARIANT BooksMatchVenue
CHECK_DEADLOCK FALSE
