SPECIFICATION SearchesSpec
CONSTANTS
  VertexCount = 3
  Joinable <- MCJoinable
  Weights = {0, 1, 3}
  Infinity = 4
  StarVertexCount = 4
  StarJoinable <- MCStarJoinable
  StarWeights = {0, 1, 3}
  StarHeuristics <- MCStarHeuristics
  StarRequests <- MCStarRequests
  StarInfinity = 6
  NoParent = NoParent
  NoEdge = NoEdge
INVARIANTS WellFormed ParentsAreTight LoopInvariant ShortestWhenComplete
  StarInvariant RouteIsLightest
PROPERTIES SettledIsFinal SearchesEnd
