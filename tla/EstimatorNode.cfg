SPECIFICATION Spec
CONSTANTS
  hip = hip
  knee = knee
  foot = foot
  Joints = {hip, knee}
  Feet = {foot}
  DynamicContacts = TRUE
  JointMessages <- SomeJointMessages
  ContactMessages <- SomeContactMessages
INVARIANTS
  UsedOnce
  ReadyMeansReceived
  EstimatesWhileActive
  PublishesThisStart
PROPERTY EstimatesFlow
CHECK_DEADLOCK FALSE
