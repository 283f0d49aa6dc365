CONSTANTS
  MaxSetups = 2
  Topics <- PoseAndJoints
  MaxTime = 2
SPECIFICATION ObservationSpec
INVARIANTS SetupAlone SilentUnlessActive
PROPERTIES ObservationInOrder DeactivationEnds FailureEndsActive FailedThreadEnds
CHECK_DEADLOCK FALSE
