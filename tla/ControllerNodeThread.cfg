CONSTANT
  MaxSetups = 3
SPECIFICATION Spec
INVARIANT ActiveRunsMpc
CHECK_DEADLOCK FALSE
