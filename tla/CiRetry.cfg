\* A run is run again by hand; no call fails.
CONSTANTS
  MaxHead = 0
  MaxRuns = 2
  MaxAttempts = 2
  MaxFaults = 0
  MaxCommands = 2
  MaxRedeliveries = 0
  Environments <- RerunsOnly
  FaultyCalls = {}
SPECIFICATION Spec
INVARIANTS RetryForFailures
CHECK_DEADLOCK FALSE
