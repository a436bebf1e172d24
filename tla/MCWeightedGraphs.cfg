SPECIFICATION GraphsSpec
CONSTANTS
  SizeMax = 511
  ListSizeMax = 39
  PtrSize = 8
  EdgeSize = 16
  MaxEdges = 2
  ListEdges = 3
  MaxNodes = 3
  Weight <- MCWeight
  Absent = Absent
  Untouched = Untouched
INVARIANTS GraphsWellFormed
PROPERTY ImplementsWeightedGraph
