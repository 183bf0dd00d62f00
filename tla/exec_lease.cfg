SPECIFICATION Spec
CONSTANTS
  NSteps = 1
  Kind <- OneMedia
  Prices = {2}
  InitialPrice <- PriceTwo
  InitialFunds = 20
  TokenBilled = {}
  MaxPriceMoves = 0
  Budget = 20
  Margin = 0
  Jobs = {j1,j2}
  NoJob = NoJob
  Workers = {w1,w2}
  Callers = {c1,c2}
  Inline = {c2}
  Tolerance = 0
  Faults = {"kill","stop"}
  MaxHalts = 1
  MaxRedeliveries = 1
SYMMETRY Symmetry
INVARIANTS
  OneRunnerPerJob
  LaunchedIsClaimed
PROPERTIES
  ImplementsLease
CHECK_DEADLOCK FALSE
