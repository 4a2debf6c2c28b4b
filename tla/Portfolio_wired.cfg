CONSTANTS
  Trader <- CarryAlone
  Symbol = {perp}
  SharedLegs = TRUE
  Estimates = FALSE
  Refusals = FALSE
  MaxEvents = 2
SPECIFICATION PortfolioSpec
INVARIANT DesiresStand
CHECK_DEADLOCK FALSE
