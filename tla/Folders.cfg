SPECIFICATION Spec
CONSTANTS
  raw = raw
  web = web
  l1 = l1
  l2 = l2
  Slot = {raw, web}
  Nodes = 4
  Folder = {1, 2}
  Trash = 1
  Start <- SmallTree
  Ways = {0}
  Hidden = {1}
  Lister = {l1, l2}
  Purger = {web}
  Wanted <- WantedFolders
  SlotOf <- OneConnection
  Apart = TRUE
  PageMax = 1
  ScanMax = 1
  Budget = 1
  MaxMoves = 2
  MaxFaults = 1
INVARIANTS
  NoOrphans
PROPERTIES
  ListingExact
  OnlyTrashPurged
  PurgeComplete
  PurgeEnds
CHECK_DEADLOCK FALSE
