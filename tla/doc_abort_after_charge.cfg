SPECIFICATION Spec
CONSTANTS
  NSteps = 1
  Kind <- OneMedia
  Prices = {2,3}
  InitialPrice <- PriceTwo
  InitialFunds = 20
  TokenBilled = {}
  MaxPriceMoves = 1
  Budget = 20
  Margin = 0
  Jobs = {j1}
  NoJob = NoJob
  Workers = {w1}
  Callers = {c1}
  Inline = {}
  Tolerance = 0
  Faults = {"kill"}
  MaxHalts = 1
  MaxRedeliveries = 0
INVARIANTS
  AbortedBeforeCharge
CHECK_DEADLOCK FALSE
