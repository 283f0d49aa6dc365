CONSTANTS
  ContactIds = {0, 1, 2}
  LandmarkIds = {7, 8}
  MayReset = FALSE
SPECIFICATION Spec
INVARIANTS IndexesOwnColumn NoOrphanColumn CovarianceFollowsState
PROPERTIES StanceFootKeepsColumn ImplementsAnchorSet
