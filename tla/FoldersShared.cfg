SPECIFICATION Spec
CONSTANTS
  raw = raw
  web = web
  l1 = l1
  l2 = l2
  Slot = {raw, web}
  Nodes = 4
  Folder = {1, 2}
  Trash = 1
  Start <- SmallTree
  Ways = {}
  Hidden = {}
  Lister = {l1, l2}
  Wanted <- WantedFolders
  SlotOf <- TwoConnections
  Purger = {}
  Apart = FALSE
  PageMax = 1
  ScanMax = 1
  Budget = 1
  MaxMoves = 1
  MaxFaults = 0
PROPERTIES
  ListingExact
CHECK_DEADLOCK FALSE
