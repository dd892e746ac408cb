\* One behaviour, one component.
CONSTANTS
  Threads = {t1, t2, t3}
  NoThread = NoThread
  MaxFailures = 1
  Extensions <- MCExtensions
  PortableOps <- MCPortableOps
  TritonOps <- MCTritonOps
  ExcludedOps <- MCExcludedOps
  ForeignClaims <- MCForeignClaims
  MaxNativeFailures = 3
  NumLayers = 2
  MaxIterations = 2
  MaxRaises = 2
  MaxRows = 2
  HiddenSizes = {1, 2, 3, 5}
  Schemes = {"fp8_block", "fp8_channel", "int8", "w4a16", "w4fa16", "bf16", "mxfp4"}
  TokenPrograms = 2
  WarmModels <- MCWarmModels
  WarmMaxTokens = 7
  MaxWarmups = 2
  OracleEnvs <- MCOracleEnvs
  OracleLayers <- MCOracleLayers
  IndexerEnvs <- MCIndexerEnvs
  IndexerPrompts <- MCIndexerPrompts
  IndexerContext = 5
  IndexerSteps = 4
  PrefillRows = 5
  LogitsBytes = 16
  CompressorEnvs <- MCCompressorEnvs
  CompressorReqs = {0, 1}
  CompressorContext = 4
  CompressorSteps = 3
  CompressorPieces = {1, 3}
  StateBlock = 2
  KeyBlock = 2
  Exponents = {110, 117, 120, 121, 135}
  Mantissas <- MCMantissas
  Entries <- MCEntries
  LayerEnvs <- MCLayerEnvs
  LayerPrompts <- MCLayerPrompts
  LayerContext = 4
  LayerSteps = 3
SPECIFICATION WorkerSpec
INVARIANTS
  ResolvedOnce
  InstalledIsComplete StubsShadowNothing
  CombineMatchesDispatch TransfersAreAwaited QuantizedOnce
  RangesFollowCalls
  MaskedRowsAreExact
  LaunchFitsLayer
  ShardsCoverPlan
  ServedAsAsked
  TopKIsOfItsKeys KeysHoldTheirWindow
  StoredIsNearest LogitIsTheVectors
  StateIsOfItsTokens PlaOnlyWhereAsked
PROPERTIES KernelsAreNotLost EveryCallReturns
\* A worker may stop: a pass ends, a retry is not made.
CHECK_DEADLOCK FALSE
