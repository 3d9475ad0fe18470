SPECIFICATION FileSpec
CONSTANTS
  MaxSaves = 4
  MaxCrashes = 3
  MaxFailures = 3
  MaxDamages = 1
INVARIANTS
  NoRollback

  
CHECK_DEADLOCK FALSE
