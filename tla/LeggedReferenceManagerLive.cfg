CONSTANTS
  MayThrow = FALSE
  MaxVersion <- LivenessVersions
  RunTags = 3
SPECIFICATION FairSpec
PROPERTIES
  InputsReachSolver
  CommandReachesSolver
CHECK_DEADLOCK FALSE
