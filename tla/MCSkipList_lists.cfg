SPECIFICATION Spec
CONSTANTS
  Nodes = {n1, n2}
  Sentinels = {s1, s2}
  NULL = NULL
  MaxLevels = 3
  Weights = {0, 2}
  Requests = {1}
  SizeMax = 2
INVARIANTS
  TypeOK
  LinksConsistent
  LevelsAreSublists
PROPERTIES
  ImplementsSortedLists
  EveryCallReturns
