SPECIFICATION Spec
CONSTANTS
  None = None
  SmartOn = SmartOn
  Toggle = Toggle
  ToBehaviour = ToBehaviour
  Other = Other
  Levels = {0, 50, 100}
  \* a first generation plug or built-in
  Boards = {{"dimmerOnWhenPinsFloat"}}
  Modes = {"normal"}
  PowerUpTicks = 2
  CheckTicks = 1
  DoubleTapTicks = 1
  DimValue = 50
  Behaviours = {None}
  Twilights = {None}
  Happens = {"lock"}
PROPERTY ConfigKeepsOnOff
