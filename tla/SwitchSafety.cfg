SPECIFICATION Spec
CONSTANTS
  None = None
  SmartOn = SmartOn
  Toggle = Toggle
  ToBehaviour = ToBehaviour
  Other = Other
  Levels = {0, 50, 100}
  \* a first generation one, and one that has a pin which keeps the dimmer off
  Boards = {{"dimmerOnWhenPinsFloat"}, {"canTryDimmingOnBoot", "canDimOnWarmBoot"}}
  Modes = {"normal"}
  PowerUpTicks = 2
  CheckTicks = 1
  DoubleTapTicks = 1
  DimValue = 50
  Behaviours = {None, 100}
  Twilights = {None}
  Happens = {"chipTemp", "overCurrentDimmer", "dimmerTemp", "dfu", "lock"}
INVARIANTS
  OverloadMeansOff
  SuccessMeansSet
  PowerUpRestores
  DimmingAsAllowed
PROPERTIES
  LockedStays
