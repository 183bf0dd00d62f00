SPECIFICATION SettlementSpec
CONSTANTS
  NSteps = 2
  Kind <- TwoMedia
  Prices = {2}
  InitialPrice <- PriceTwo
  InitialFunds = 20
  TokenBilled = {1}
  MaxPriceMoves = 0
  Budget = 20
  Margin = 0
  Jobs = {j1}
  NoJob = NoJob
  Workers = {w1}
  Callers = {c1}
  Inline = {}
  Tolerance = 0
  Faults = {"poll"}
  MaxHalts = 0
  MaxRedeliveries = 0
  Hooks = {h1}
  MaxDeliveries = 2
  Reconciles = TRUE
INVARIANTS
  SettlementTypeOK
  SucceededIsComplete
  
PROPERTIES
  LedgerKeepsSuccess
CHECK_DEADLOCK FALSE
