SPECIFICATION Spec
CONSTANTS
  NSteps = 2
  Kind <- TwoMedia
  Prices = {2}
  InitialPrice <- PriceTwo
  InitialFunds = 20
  TokenBilled = {}
  MaxPriceMoves = 0
  Budget = 20
  Margin = 0
  Jobs = {j1}
  NoJob = NoJob
  Workers = {w1}
  Callers = {c1}
  Inline = {}
  Tolerance = 0
  Faults = {"request","account","kill"}
  MaxHalts = 1
  MaxRedeliveries = 0
PROPERTIES
  DoneStepsAreKept
CHECK_DEADLOCK FALSE
