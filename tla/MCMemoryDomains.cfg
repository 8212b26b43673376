SPECIFICATION Spec
CONSTANTS
  PageSize = 2
  AddressSpace = 16
  XSDTs <- MCXSDTs
  Maps <- MCMaps
  MaxNumas = 4
INVARIANTS
  TypeOK
  TableIsTheOneAskedFor
  EntriesFoundOnce
  ProcessorsPlaced
  OwnArenaNearest
PROPERTY
  IterationEnds
CHECK_DEADLOCK FALSE
