SPECIFICATION Spec
CONSTANTS
  Nodes = {n1, n2}
  Sentinels = {s1}
  NULL = NULL
  MaxLevels = 2
  Weights = {1, 4}
  Requests = {2}
  SizeMax = 4
SYMMETRY MCNodeSymmetry
INVARIANT
  BestIsClosest
