SPECIFICATION Spec
CONSTANTS
  c1 = c1
  Clients = {c1}
  Method = "fedavg"
  FractionNum = 0
  FractionDen = 1
  QuorumOverride = 0
  UsesSidecar = FALSE
  ReputationOn = FALSE
  PerClientScope = FALSE
  HaltOnExhausted = TRUE
  Budget = 9
  LogEnabled = TRUE
  DurableStore = TRUE
  SeededStore = TRUE
  DurableRegistry = TRUE
  OperatorStops = FALSE
  HistoryLen = 1
  Bodies = {"finite"}
  FaultPoints = {}
  MaxFaults = 0
  MaxCrashes = 1
  MaxAttempts = 3
  MaxDeltas = 2
  FailureCap = 1
INVARIANTS LatestIsNewest
SYMMETRY ClientSymmetry
CHECK_DEADLOCK FALSE
