SPECIFICATION Spec
CONSTANTS
  raw = raw
  web = web
  agent = agent
  config = config
  luma = luma
  plugins = plugins
  roms = roms
  ROMS = ROMS
  short = short
  Name <- Names
  Fold <- Lower
  BadName <- Bad
  Workspace <- Agent
  NeverRead <- Private
  NeverWrite <- System
  WriteExcept <- Writable
  PolicyMax = 3
  Slot = {raw, web}
  Path <- Paths
  Order <- Sorted
  Start <- Folders
  Loose <- Changing
  AccessMax = 2
  Page = 2
  MaxFaults = 1
INVARIANTS
  LevelIsReal
  
  SavedIsAccepted
PROPERTIES
  OnlyThatFolder
