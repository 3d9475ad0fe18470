SPECIFICATION Spec
CONSTANTS
  raw = raw
  web = web
  p1 = p1
  p2 = p2
  Slot = {raw, web}
  Path = {p1, p2}
  Moved = {p1}
  PathsOf <- OwnPaths
  Chunks = 1
  MaxFiles = 3
  MaxCrashes = 1
  MaxFaults = 2
  MaxModes = 1
INVARIANTS
  WholeFiles
  NewestKept
  TargetIntact
  AnsweredOnce
  NoForgottenTemp
PROPERTIES
  NeverOverwritten
CHECK_DEADLOCK FALSE
