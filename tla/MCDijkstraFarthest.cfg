SPECIFICATION Spec
CONSTANTS
  VertexCount = 3
  Joinable <- MCJoinable
  Weights = {0, 1, 3}
  Infinity = 4
  NoParent = NoParent
  NoEdge = NoEdge
INVARIANT InfinityMeansUnreachable
