SPECIFICATION FairSpec
CONSTANTS
  Stones = {n1, n2}
  Ids = {0, 1}
  NumPackets = 1
  Length <- EqualLengths
  TypeSizes = {1}
  Overhead = 0
  BufferSize = 10
  MaxFilters = 2
  Edits = 3
  Faults = 1
  Resets = 1
  VersionMax = 100
INVARIANTS
  OnlyCommittedSpreads
PROPERTIES
  Converges
CHECK_DEADLOCK FALSE
