SPECIFICATION ContainersSpec
CONSTANTS
  SizeMax = 39
  QueueMax = 127
  PtrSize = 8
  Item <- MCItem
  Rank <- MCRank
  Pointer <- MCPointer
  pointer = pointer
  Address = {a1, a2, a3, a4, a5}
  NULL = NULL
  Garbage = Garbage
  Untouched = Untouched
SYMMETRY Addresses
INVARIANTS ContainersWellFormed StaleSlotsClear
PROPERTIES ImplementsFifo ImplementsItemList ImplementsOrderedSet
