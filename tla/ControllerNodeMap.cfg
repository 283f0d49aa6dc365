CONSTANT
  MaxSetups = 3
SPECIFICATION Spec
INVARIANT MapIsUsed
CHECK_DEADLOCK FALSE
