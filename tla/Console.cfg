SPECIFICATION Spec
CONSTANTS
  Build = {"3ds", "dsi"}
  Addr = {1, 2}
  Net = {"home", "work"}
  Failing = {"3ds"}
  MaxNets = 1
  MaxPresses = 3
  MaxFaults = 2
  MaxNumbers = 1
INVARIANTS
  ListensWhereItSays
  SeenBeforeAnswer
PROPERTIES
  ComesBack
