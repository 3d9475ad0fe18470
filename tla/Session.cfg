SPECIFICATION Spec
CONSTANTS
  Chunks = 2
  MaxCalls = 5
INVARIANTS
  CountersAgree

  
CHECK_DEADLOCK FALSE
