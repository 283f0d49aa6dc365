CONSTANTS
  MayThrow = TRUE
  MaxVersion <- SafetyVersions
  RunTags = 4
SPECIFICATION Spec
INVARIANTS
  TypeOK
  SnapshotConsistent
  SwapIsExclusive
  TerrainOfSnapshot
  PlannerTerrainAlive
PROPERTIES
  CommandUsedOnce
  SnapshotNeverGoesBack
  RefinesSnapshot
CHECK_DEADLOCK FALSE
