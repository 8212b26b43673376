SPECIFICATION Spec
CONSTANTS
  MaxCount = 4
  Values <- MCValues
INVARIANT
  SortsArray
CHECK_DEADLOCK FALSE
