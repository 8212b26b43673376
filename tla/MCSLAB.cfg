SPECIFICATION Spec
CONSTANTS
  PageSize = 64
  MinAlloc = 2
  CachelineLength = 4
  SizeofSLAB = 4
  WordBits = 16
  ElementLengths <- MCElementLengths
  NULL = NULL
INVARIANTS
  TypeOK
  BlocksDisjoint
  FreeSlotsExact
  EmptyPageRecognised
PROPERTY
  FirstFindsFree
