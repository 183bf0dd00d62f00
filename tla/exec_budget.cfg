SPECIFICATION Spec
CONSTANTS
  NSteps = 4
  Kind <- TextLocalMedia
  Prices = {1,2,5,9}
  InitialPrice <- PriceTwo
  InitialFunds = 12
  TokenBilled = {4}
  MaxPriceMoves = 2
  Budget = 7
  Margin = 1
  Jobs = {j1}
  NoJob = NoJob
  Workers = {w1}
  Callers = {c1}
  Inline = {}
  Tolerance = 0
  Faults = {"request","estimate","account"}
  MaxHalts = 0
  MaxRedeliveries = 0
INVARIANTS
  OverspendIsOneStep
  
CHECK_DEADLOCK FALSE
