SPECIFICATION Spec
CONSTANTS
  Stones = {"A", "B"}
  NumItems = 3
  QueueSize = 2
  NumStones = 2
  NumClocks = 4
  Reelection = 2
  VersionMax = 63
  Settings = {"id", "key"}
  Classes = {"microapp"}
  MaxCuts = 2
  MaxCommands = 4
  Places = {"hall", "room"}
  MaxRecords = 1
  PresenceTimeout = 2
  Throttles = {1}
  Uncertain = 1
  NoStone = "none"
  MaxUserCommands = 5
  MaxLosses = 2
  MaxCalls = 4
  Types = {"setup", "hub"}
  Sources = {"phone", "host"}
  NoType = "none"
  CommandTimeout = 2
  MaxJobs = 3
  LateReplies = FALSE
  Retries = FALSE
  CutInReset = FALSE
  Toggles = FALSE
  Several = FALSE
INVARIANTS
  AckMeansHeard
  ModesAreTrue
  EventsTellPresence
  ConnectionIsTrue
PROPERTIES
  
  ClocksAgree
CHECK_DEADLOCK FALSE
