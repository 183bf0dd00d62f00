SPECIFICATION FairSpec
CONSTANTS
  NSteps = 2
  Kind <- MediaVoiceover
  Prices = {1,2,3}
  InitialPrice <- PriceTwo
  InitialFunds = 20
  TokenBilled = {}
  MaxPriceMoves = 1
  Budget = 5
  Margin = 0
  Jobs = {j1}
  NoJob = NoJob
  Workers = {w1}
  Callers = {c1}
  Inline = {}
  Tolerance = 0
  Faults = {"kill","stop","request","reply","poll","account"}
  MaxHalts = 1
  MaxRedeliveries = 0
INVARIANTS
  TypeOK
  GuardCoversReport
  SucceededIsComplete
  
  RunningIsWatched
PROPERTIES
  TerminalIsFinal
  LaunchedIsNotResent
  JobsConclude
CHECK_DEADLOCK FALSE
