SPECIFICATION FairSpec
CONSTANTS
  c1 = c1
  Clients = {c1}
  Method = "trimmed_mean"
  FractionNum = 1
  FractionDen = 2
  QuorumOverride = 1
  UsesSidecar = TRUE
  ReputationOn = TRUE
  PerClientScope = TRUE
  HaltOnExhausted = FALSE
  Budget = 3
  LogEnabled = FALSE
  DurableStore = FALSE
  SeededStore = FALSE
  DurableRegistry = FALSE
  OperatorStops = TRUE
  HistoryLen = 2
  Bodies = {"finite", "nonfinite", "malformed"}
  FaultPoints = {"sidecar"}
  MaxFaults = 1
  MaxCrashes = 0
  MaxAttempts = 3
  MaxDeltas = 3
  FailureCap = 1
INVARIANTS OnlyFiniteAggregated HistoryContiguous HistoryVerdictHonest GracefulExitIsClean
PROPERTIES SpentClientStaysOut ShutdownStops
CHECK_DEADLOCK FALSE
