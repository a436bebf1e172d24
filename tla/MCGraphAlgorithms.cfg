SPECIFICATION AlgorithmsSpec
CONSTANTS
  VertexCount = 4
  Joinable <- MCJoinable
  Searches = {"bfs", "dfs"}
  SizeMax = 300
  PtrSize = 8
  EdgeSize = 24
  Weights <- MCWeights
  WeightMax = 5
  OutCapacities = {2, 3}
  NoEdge = NoEdge
  Unset = Unset
INVARIANTS LoopsWellFormed VisitsReachable LayerByLayer SpanIsLeast
PROPERTIES FailsWhenTooHeavy EveryCallEnds
CHECK_DEADLOCK FALSE
