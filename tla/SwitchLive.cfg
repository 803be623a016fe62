SPECIFICATION SettlingSpec
CONSTANTS
  None = None
  SmartOn = SmartOn
  Toggle = Toggle
  ToBehaviour = ToBehaviour
  Other = Other
  Levels = {0, 50, 100}
  \* a board that can dim at once, after a check of the power
  Boards = {{"canTryDimmingOnBoot", "canDimOnWarmBoot"}}
  Modes = {"normal"}
  PowerUpTicks = 2
  CheckTicks = 1
  DoubleTapTicks = 1
  DimValue = 50
  Behaviours = {None, 50}
  Twilights = {None}
  Happens = {"overCurrent", "resetErrors", "direct", "switchcraft"}
PROPERTY Settles
