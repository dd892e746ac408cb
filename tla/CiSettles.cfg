\* Two failing calls, other than the writes of a status; or a lagging list and re-runs.
CONSTANTS
  MaxHead = 0
  MaxRuns = 3
  MaxAttempts = 2
  MaxFaults = 2
  MaxCommands = 2
  MaxRedeliveries = 1
  Environments <- FaultsOrReruns
  FaultyCalls = {"read", "dispatch", "cancel", "comment"}
SPECIFICATION FairSpec
INVARIANTS LastResultIsShown
PROPERTIES PendingSettles CommandsAreAnswered
CHECK_DEADLOCK FALSE
