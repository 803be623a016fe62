SPECIFICATION Spec
CONSTANTS
  NumItems = 2
  QueueSize = 2
  Calls = 1
  stoneA = stoneA
  stoneB = stoneB
  stoneOwn = stoneOwn
  Own = stoneOwn
  Others <- MCOthers
  Lists <- MCPair
  Priorities <- MCLow
  LateReplies = FALSE
INVARIANTS
  OneVerdict
