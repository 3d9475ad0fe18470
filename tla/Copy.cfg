SPECIFICATION Spec
CONSTANTS
  a = a
  b = b
  left = left
  right = right
  Client = {a, b}
  Source = {x, y}
  Dest = {left, right}
  Wants <- OneEach
  Sizes = {0, 2}
  Budget = 1
  MaxCopies = 2
  MaxEdits = 1
  MaxFaults = 1
INVARIANTS
  CopyExact
  NoForgottenTemp
PROPERTIES
  NeverReplaced
  CopyEnds
CHECK_DEADLOCK FALSE
