\* One failure in a process, and an unlimited number of calls.
CONSTANTS
  forward = forward
  subforward = subforward
  key = key
  gate = gate
  gate_alias = gate_alias
  oracle = oracle
  oracle_alias = oracle_alias
  engine_step = engine_step
  execute_model = execute_model
  m1 = m1
  m2 = m2
  m3 = m3
  Slots <- AllSlots
  ClassSlots = {forward, subforward}
  DataSlots = {key}
  Base <- Inherits
  Source <- CopiedFrom
  Replacements <- NewFunctions
  Values = {v1}
  Foreign = Foreign
  NoSlot = NoSlot
  Nil = Nil
  Missing = Missing
  Unloaded = Unloaded
  Unset = Unset
  PatchUnits <- PatchModules
  RegistryUnits <- RegistryChildren
  ProfilingUnits <- ProfilingModules
  Steps <- StepsOf
  StrictUnits = {"oracles"}
  ForeignSlots = {oracle, gate}
  TheValue = v1
  Required <- RequiredModels
  Optional <- OptionalModels
  Contested = {m1}
  MaxFailures = 1
SPECIFICATION LFairSpec
INVARIANTS FlagsMeanInstalled RegistryRunsOnce FailedCallKeepsModels
PROPERTIES Recovers
