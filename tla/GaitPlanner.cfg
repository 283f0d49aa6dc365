CONSTANTS
  EndEffectors = 3
  Cycle = 16
  MinRate = 0
  MinTime = 2
  Gaits <- MixedGaits
  InitGait <- Idle
  InitPhase = 8
  Horizon = 20
  GaitUpdateOffset = 6
  Steps = {4, 6}
  MaxTime = 26
  TimeDeadzone = 9
  Extension = 1
  MidPhase = 6
  DeltaTime = 3
  SampleInterval = 2
  SixDofContacts = 0
SPECIFICATION ReferenceSpec
INVARIANTS
  WellFormedSchedule ModesFollowPhases ChangesInOrder
  LegsFollowSchedule ReferencesAgree
PROPERTY KeepsFootholds
CHECK_DEADLOCK FALSE
