CONSTANTS
  ThreeDof = 2
  SixDof = 2
  Actuated = 3
  Names <- FrameNames
  ThreeDofNames <- Points
  SixDofNames <- Soles
  One = 2
  ShortestMode = 1
  SoleLengths = {1, 2, 5}
  Workers = {w1, w2}
  Nodes <- Times
  Horizons <- Gaits
  Files <- AllFiles
  Numbers <- AllNumbers
  SettingsSets <- SomeSettings
  Requests <- SolverRequests
  MostSpheres = 3
  SphereNumber <- Spheres
  Clearances <- Terrains
  MaxDisturbances = 2
SPECIFICATION FairSpec
INVARIANTS
  AcceptedSettingsServe
  ConeFitsSole
  FreshReads
  ReadsInRange
  DerivativesInPlace
  SwingForcesVanish
  NeverRecedes
PROPERTIES
  DisturbanceReachesSolver
CHECK_DEADLOCK FALSE
