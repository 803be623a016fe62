SPECIFICATION Spec
CONSTANTS
  NumItems = 3
  QueueSize = 2
  Calls = 2
  stoneA = stoneA
  stoneB = stoneB
  stoneOwn = stoneOwn
  Own = stoneOwn
  Others <- MCOthers
  Lists <- MCLists
  Priorities <- MCLow
  LateReplies = FALSE
INVARIANTS
  QueueIsSound
  VerdictIsTrue
PROPERTIES
  EveryItemEnds
