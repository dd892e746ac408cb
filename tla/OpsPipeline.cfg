SPECIFICATION FairSpec
CONSTANTS
  b1 = b1
  b2 = b2
  NoRev = NoRev
  Boards <- MCBoards
  Paths <- MCPaths
  Ids <- MCIds
  AutoId <- MCAutoId
  Config <- MCConfig
  Repo <- MCRepo
  Env <- MCEnv
  Made <- MCMade
  Image = "image"
  Tested = "tested"
  Selections <- MCSelections
  MaxAttempts = 2
INVARIANTS GreenIsEarned DeadPodsProveNothing
PROPERTIES EveryAttemptEnds
CHECK_DEADLOCK FALSE
