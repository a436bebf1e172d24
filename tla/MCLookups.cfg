SPECIFICATION LookupsSpec
CONSTANTS
  MaxElements = 4
  Untouched = Untouched
  SizeMax = 39
  PtrSize = 8
  k1 = k1
  twin = twin
  k2 = k2
  k3 = k3
  TableKey <- MCTableKey
  TableId <- MCTableId
  TableHash <- MCTableHash
  Value = {1, 2}
  Entry = {e1, e2, e3}
  Capacities = {0, 2, 5}
  NULL = NULL
INVARIANTS WellFormed RankIsLogarithmic TableWellFormed
PROPERTIES LoadStaysBounded EveryCallEnds ImplementsPartition ImplementsDictionary
