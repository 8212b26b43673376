SPECIFICATION Spec
CONSTANTS
  PageSize = 2
  AddressSpace = 16
  XSDTs <- MCXSDTs
  Maps <- MCMaps
  MaxNumas = 4
INVARIANT
  EntriesWithin
CHECK_DEADLOCK FALSE
