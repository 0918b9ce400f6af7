SPECIFICATION Spec
CONSTANTS
  MaxSamples = 4
  FMax = 12
  MaxSteps = 4
  Window = 2
  Population = 2
  Clients <- MCClients
  Methods <- MCMethods
  Fractions <- MCFractions
  Fairness = {0, 1}
  ClipRadius <- MCRadius
  ServerRate <- MCOne
  Momentum <- MCHalf
  Lipschitz <- MCOne
  Rho <- MCHalf
  Batches <- MCBatches
  Points <- MCPoints
  StepSizes <- MCStepSizes
  MaxRounds <- MCMaxRounds
INVARIANTS MinorityCannotSteer VariatesAllCarried
PROPERTY RejectedBatchLeavesNoTrace
CHECK_DEADLOCK FALSE
