\* Expert parallelism: an expert map, no invalid ids.
CONSTANTS
  NumTokens = 2
  TopK = 2
  NumExperts = 2
  NumGlobal = 3
  HasMap = TRUE
  ExpertMap <- MapOfSecondRank
  Ids = {0, 1, 2}
  Align = 1
  CountsOnCpu = FALSE
  WithScale = TRUE
  Uninit = Uninit
SPECIFICATION FairSpec
INVARIANTS TypeOK RowsDistinct RowInRegion RowsHoldTheirToken
PROPERTIES LabelsAreFinal Terminates
CHECK_DEADLOCK FALSE
