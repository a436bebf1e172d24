SPECIFICATION TreesSpec
CONSTANTS
  SizeMax = 63
  TrieSizeMax = 39
  PtrSize = 8
  NULL = NULL
  Garbage = Garbage
  Untouched = Untouched
  Char <- MCChar
  TrieKey <- MCKey
  NoKey = NoKey
  Item <- MCItem
  Rank <- MCRank
INVARIANTS WellFormed SiftInvariant ViewIsHeap TrieWellFormed
PROPERTIES ImplementsPriorityQueue RemovesStoredKey
