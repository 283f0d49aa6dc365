CONSTANTS
  EndEffectors = 3
  Cycle = 16
  MinRate = 0
  MinTime = 2
  Gaits <- MixedGaits
  InitGait <- Idle
  InitPhase = 8
  Horizon = 20
  GaitUpdateOffset = 6
  Steps = {0, 4}
  MaxTime = 32
SPECIFICATION Spec
INVARIANT ChangesInOrder
