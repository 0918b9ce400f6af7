SPECIFICATION Spec
CONSTANTS
  c1 = c1
  c2 = c2
  Clients = {c1, c2}
  Method = "fedavg"
  FractionNum = 0
  FractionDen = 1
  QuorumOverride = 0
  UsesSidecar = FALSE
  ReputationOn = FALSE
  PerClientScope = FALSE
  HaltOnExhausted = TRUE
  Budget = 9
  LogEnabled = FALSE
  DurableStore = FALSE
  SeededStore = FALSE
  DurableRegistry = FALSE
  OperatorStops = FALSE
  HistoryLen = 1
  Bodies = {"finite"}
  FaultPoints = {"aggregate"}
  MaxFaults = 1
  MaxCrashes = 0
  MaxAttempts = 2
  MaxDeltas = 2
  FailureCap = 1
INVARIANTS AcceptedForCurrentRound TrainedFromThisRoundsModel
PROPERTIES ImplementsRoundService
SYMMETRY ClientSymmetry
CHECK_DEADLOCK FALSE
