CONSTANTS
  ContactIds = {0, 1, 2}
  LandmarkIds = {}
  MayReset = TRUE
SPECIFICATION Spec
INVARIANT IndexesOwnColumn
