SPECIFICATION Spec
CONSTANTS
  a = a
  b = b
  left = left
  right = right
  Client = {a}
  Source = {x}
  Dest = {left}
  Wants <- OneEach
  Sizes = {0, 2}
  Budget = 2
  MaxCopies = 1
  MaxEdits = 0
  MaxFaults = 1
INVARIANTS
  NeverHalfWritten
CHECK_DEADLOCK FALSE
