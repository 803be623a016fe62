SPECIFICATION Spec
CONSTANTS
  None = None
  SmartOn = SmartOn
  Toggle = Toggle
  ToBehaviour = ToBehaviour
  Other = Other
  Levels = {0, 50, 100}
  \* one that can also try to dim at boot
  Boards = {{"canTryDimmingOnBoot", "dimmerOnWhenPinsFloat"}}
  Modes = {"normal", "setup", "factoryReset"}
  PowerUpTicks = 2
  CheckTicks = 1
  DoubleTapTicks = 1
  DimValue = 50
  Behaviours = {100}
  Twilights = {None, 50}
  Happens = {"dimmerOn", "overCurrent", "stateSet", "direct", "switchcraft", "resetErrors"}
INVARIANTS
  TypeOK
  DimmerErrorMeansRelayOn
  StateIsTrue
