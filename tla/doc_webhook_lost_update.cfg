SPECIFICATION SettlementFairSpec
CONSTANTS
  NSteps = 1
  Kind <- OneMedia
  Prices = {2}
  InitialPrice <- PriceTwo
  InitialFunds = 20
  TokenBilled = {}
  MaxPriceMoves = 0
  Budget = 20
  Margin = 0
  Jobs = {j1}
  NoJob = NoJob
  Workers = {w1}
  Callers = {c1}
  Inline = {}
  Tolerance = 0
  Faults = {}
  MaxHalts = 0
  MaxRedeliveries = 0
  Hooks = {h1}
  MaxDeliveries = 1
  Reconciles = TRUE
PROPERTIES
  LaunchedGenerationsAreReported
CHECK_DEADLOCK FALSE
