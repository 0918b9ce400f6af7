SPECIFICATION Spec
CONSTANTS
  FractionDen = 80
  MaxQuorum = 64
  Givens <- MCGivens
  Deployments <- MCDeployments
INVARIANTS ProvenanceHonest ReportedProfileLoads ProductionKeepsPromises DoctorFailsOnlyProbes AdviceEndsAtLeast
PROPERTIES StartEnds AdviceConverges
CHECK_DEADLOCK FALSE
