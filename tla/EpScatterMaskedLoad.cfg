\* An expert map together with invalid ids: the masked load of scatter_2 has no
\* `other`, so the lane of an invalid id holds an undefined value.
CONSTANTS
  NumTokens = 2
  TopK = 2
  NumExperts = 2
  NumGlobal = 3
  HasMap = TRUE
  ExpertMap <- MapOfSecondRank
  Ids <- AnyId
  Align = 1
  CountsOnCpu = FALSE
  WithScale = FALSE
  Uninit = Uninit
SPECIFICATION Spec
INVARIANT InvalidIdsTakeNoRow
CHECK_DEADLOCK FALSE
