SPECIFICATION Spec
CONSTANTS
  c1 = c1
  Clients = {c1}
  Method = "fedavg"
  FractionNum = 0
  FractionDen = 1
  QuorumOverride = 1
  UsesSidecar = FALSE
  ReputationOn = FALSE
  PerClientScope = FALSE
  HaltOnExhausted = TRUE
  Budget = 2
  LogEnabled = TRUE
  DurableStore = TRUE
  SeededStore = TRUE
  DurableRegistry = TRUE
  OperatorStops = FALSE
  HistoryLen = 1
  Bodies = {"finite"}
  FaultPoints = {"load", "registry", "save", "saveLost", "log"}
  MaxFaults = 2
  MaxCrashes = 1
  MaxAttempts = 3
  MaxDeltas = 2
  FailureCap = 1
INVARIANTS LoopInv UnchargedOnlyByFailure BudgetNotOverrun LogNeverAhead AnchorIsDispatchedModel
SYMMETRY ClientSymmetry
CHECK_DEADLOCK FALSE
