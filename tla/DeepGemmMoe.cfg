\* No expert map, invalid ids allowed, host-side counts.
CONSTANTS
  NumTokens = 2
  TopK = 2
  NumExperts = 2
  NumGlobal = 2
  HasMap = FALSE
  ExpertMap <- NoMap
  Ids <- LocalIds
  Align = 2
  CountsOnCpu = TRUE
  WithScale = TRUE
  Uninit = Uninit
  QuantInPlace = TRUE
  GatherGrid = 1
SPECIFICATION ApplySpec
PROPERTIES ComputesMoe
CHECK_DEADLOCK FALSE
