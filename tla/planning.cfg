SPECIFICATION PlanningFairSpec
CONSTANTS
  Chunk = 10
  MaxSeconds = 9
  MaxModels = 4
  MaxUpgradeRounds = 20
  Requests <- AllRequests
  Budget = 20
  Margin = 2
  Urls = {u1, u2}
  Ttl = 2
  MaxClock = 3
  Prices = {1, 12}
  Threshold = 1
  MaxPriceMoves = 1
  MaxRefusals = 1
INVARIANTS
  PlanningTypeOK
  UpgradesFit
  DraftIsBest
  UpgradeSettles
  PlanFits
  PlanIsQuoted
  TextIsDelivered
  
  PriorityIsKept
  CatalogueIsEnough
  
  
PROPERTIES
  PlanningEnds
CHECK_DEADLOCK FALSE
