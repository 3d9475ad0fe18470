SPECIFICATION DeviceSpec
CONSTANTS
  Tool = {stat, write}
  Safe = {stat}
  MaxLines = 4
INVARIANTS
  AtMostOnce
  OneUnlessShared

  
CHECK_DEADLOCK FALSE
