SPECIFICATION Spec
CONSTANTS
  MaxBehaviours = 2
  StoredRules <- FewRules
  WishSlots = 2
  WishRules <- SmallRules
  Rooms = {"hall", "room"}
  CountedRooms = {"hall", "room"}
  Day = 4
  Week = 2
  Cap = 3
  NumChunks = 2
  Phones = {"A", "B"}
  Relays = {"C", "D"}
  NumCommands <- FewCommands
  FirstCount = 7
  CountMod = 8
  Transmissions = 1
  AdvClaim = 1
  OwnerClaim = 2
  Brightest = 4
  TicksPerValue = 2
  Low = 2
  Adjust = 1
  Periods = 2
  CountdownMod = 3
  Speeds = {1}
  Lag = 1
  Spots = 2
  Registrations <- FewRegistrations
  TtlMax = 2
  Heartbeat = 1
  SizeMax = 1
  Source <- FewSources
  Stamp <- FewStamps
  StateSlots = 2
  StateTimeout = 2
  NumStones = 3
  MaxNeighbours = 3
  TimeoutSeconds = 2
  FastInterval = 1
  Interval = 2
  FastTime = 1
  Messages <- FewMessages
  RxBufferSize = 3
  BusyCalls = {"set"}
  AutoEnable = FALSE
  Pipelined = FALSE
  FlashFails = FALSE
  Linger = 1
  Rewrites = FALSE
  BufferSize = 12
  FilterIds = {0, 1}
  NumPackets = 2
  Length <- FewLengths
  TypeSizes = {3, 5}
  Overhead = 1
  MaxFilters = 2
  MaxVersion = 2
  FilterCommands = 5
  FilterResets = 1
  NumBuffers = 9
  Needed = 4
  SeqRange = 18
  SchedulerRoom = 3
  Pause = 2
  During = 1
  Behind = 3
  Hurry = FALSE
  SchedulerFills = FALSE
  CutAfterEscape = FALSE
INVARIANTS
  BehavioursComeBack
  MostRelevantWins
  MicroappIsSound
  FiltersAreSound
  SamplingIsReal
  DevicesAreTrue
  LightIsTrue
  MessagesGetThrough
PROPERTIES
  NoFlicker
  NewestWins
CHECK_DEADLOCK FALSE
