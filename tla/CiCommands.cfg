\* Two commands, a push, one failing call of any kind and one re-delivered job.
CONSTANTS
  MaxHead = 1
  MaxRuns = 3
  MaxAttempts = 2
  MaxFaults = 1
  MaxCommands = 2
  MaxRedeliveries = 1
  Environments <- OneFault
  FaultyCalls = {"read", "status", "dispatch", "cancel", "comment"}
SPECIFICATION Spec
INVARIANTS OneActiveRunPerHead NotGreenWhileTesting OneRunPerComment
CHECK_DEADLOCK FALSE
