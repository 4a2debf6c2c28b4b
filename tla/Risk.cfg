CONSTANTS
  Strategy = {trend, flatten}
  Instrument = {a, b}
  Flattener = flatten
  RiskShare <- Shares
  SingleOrder = 10
  Usual = 2
  Concentration = 15
  Gross = 30
  DailyLoss = 15
  WeeklyLoss = 20
  SoftDrawdown = 20
  HardDrawdown = 40
  Rejects = 2
  Equities = {7, 10}
  Largest = 2
  Serial = {a}
  Working = 1
SPECIFICATION RiskSpec
INVARIANTS
  RiskTypeOK
  NeverEnlarged
  PositionWithinCap
  DisabledByCount
PROPERTIES
  OnlyReducesOnceEngaged
