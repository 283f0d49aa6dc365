CONSTANTS
  EndEffectors = 3
  Cycle = 16
  MinRate = 0
  MinTime = 2
  Gaits <- HeldGaits
  InitGait <- Idle
  InitPhase = 8
  Horizon = 20
  GaitUpdateOffset = 6
  Steps = {4, 6}
  MaxTime = 32
SPECIFICATION Spec
INVARIANT ModesFollowPhases
CHECK_DEADLOCK FALSE
