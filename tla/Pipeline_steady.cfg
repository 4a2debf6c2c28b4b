CONSTANTS
  Order = {1, 2, 3}
  Qty = 2
  Overtakes = {}
  Lossy = {}
  Instant = {}
  Targets = {2}
  Steady = TRUE
  Maker = TRUE
SPECIFICATION PipelineFairSpec
INVARIANTS
  NoOvershoot
  TakerFits
  
PROPERTY
  FallbackFires
