SPECIFICATION ArraysSpec
CONSTANTS
  Keys = {0, 1, 2}
  MaxSearched = 7
  NoKey = NoKey
  MaxCount = 5
  SizeMax = 63
  IntMax = 7
  Values = {0, 1, 2, 5, 8, 15}
  KeyLimits = {6, 16}
  MaxKeys = 4
  Radix = 2
  NoResult = NoResult
  Durations = {0, 1, 3}
INVARIANT FailureLeavesInput
