----------------------------- MODULE SafeSwitch -----------------------------
(***************************************************************************)
(* SafeSwitch (switch/cs_SafeSwitch.cpp): the relay and the dimmer, and     *)
(* what may be done with them when something is wrong.                      *)
(*                                                                         *)
(* The three classes of the switch call each other synchronously, in both  *)
(* directions, within one event of the main loop.  So a method is an       *)
(* operator that takes the record s of all their members and returns the   *)
(* record after the call, with the return code in s.ret; the variable is   *)
(* declared in module SwitchAggregator, whose actions are the events.      *)
(*                                                                         *)
(* The relay latches: relayPos is its position, which a reset leaves as it  *)
(* is.  The boards modelled have a relay and a dimmer.                     *)
(***************************************************************************)
EXTENDS Naturals, Sequences

CONSTANTS
  Levels,        \* the intensities in use
  None,          \* an optional without a value
  SmartOn,       \* CS_SWITCH_CMD_VAL_SMART_ON
  Boards,        \* the flags of the boards
  Modes,         \* the operation modes
  PowerUpTicks,  \* PWM_BOOT_DELAY_MS / TICK_INTERVAL_MS
  CheckTicks     \* DIMMER_BOOT_CHECK_DELAY_MS / TICK_INTERVAL_MS

FullyOn == 100

Flags == {"canTryDimmingOnBoot", "canDimOnWarmBoot", "dimmerOnWhenPinsFloat"}

ASSUME SwitchAssumption ==
  /\ {0, FullyOn} \subseteq Levels /\ Levels \subseteq 0..FullyOn
  /\ None \notin 0..FullyOn \cup {SmartOn} /\ SmartOn \notin 0..FullyOn
  /\ Boards \subseteq SUBSET Flags
  /\ Modes \subseteq {"normal", "setup", "factoryReset"}
  /\ PowerUpTicks \in Nat \ {0} /\ CheckTicks \in Nat \ {0}

Errors == {"chipTemp", "overCurrent", "overCurrentDimmer", "dimmerTemp", "dimmerOn"}

RetCode == {"SUCCESS", "NO_CHANGE", "NO_ACCESS", "UNSAFE", "NOT_POWERED",
            "NOT_AVAILABLE", "NOT_STARTED", "WRONG_STATE"}

SwitchState == [relay : BOOLEAN, dimmer : Levels]

\* The members of SafeSwitch.
SafeSwitchMembers ==
  [relay |-> BOOLEAN, dimmer |-> Levels,     \* currentState
   relayPos |-> BOOLEAN,                     \* the relay itself
   accurate |-> BOOLEAN,                     \* relayHasBeenSetBefore
   powered |-> BOOLEAN,                      \* dimmerPowered
   powerUpCountDown |-> 0..PowerUpTicks,
   checkCountDown |-> 0..CheckTicks,
   checked |-> BOOLEAN,                      \* checkedDimmerPowerUsage
   allowStateChanges |-> BOOLEAN,
   mode |-> Modes,                           \* operationMode
   board |-> Boards,
   errors |-> SUBSET Errors]                 \* STATE_ERRORS, in State

Return(s, code) == [s EXCEPT !.ret = code]

-----------------------------------------------------------------------------
(* What the errors and the mode allow.                                     *)

IsSwitchOverLoaded(s) == s.errors \cap {"chipTemp", "overCurrent"} # {}
HasDimmerError(s) == s.errors \cap {"overCurrentDimmer", "dimmerTemp", "dimmerOn"} # {}

\* Mutants: the errors are not looked at.
SafeToTurnRelayOnAlways(s) == TRUE
SafeToTurnRelayOffAlways(s) == TRUE

IsSafeToTurnRelayOn(s) == HasDimmerError(s) \/ ~ IsSwitchOverLoaded(s)
IsSafeToTurnRelayOff(s) == ~ HasDimmerError(s)
IsSafeToDim(s) == ~ HasDimmerError(s) /\ ~ IsSwitchOverLoaded(s)

IsRelayStateChangeAllowed(s) == s.allowStateChanges /\ s.mode # "factoryReset"

IsDimmerStateChangeAllowed(s) == s.allowStateChanges /\ s.mode = "normal"

\* Whether start() has started the dimmer.
DimmerEnabled(s) == s.mode = "normal"

-----------------------------------------------------------------------------
(* Callbacks: sendUnexpectedStateUpdate() calls SmartSwitch, which stores   *)
(* the state and calls SwitchAggregator, which makes it the override.       *)

\* getIntensityFromSwitchState()
Intensity(s) == IF s.relay THEN FullyOn ELSE s.dimmer

\* SmartSwitch::store()
Store(s) == [s EXCEPT !.stored = [relay |-> s.relay, dimmer |-> s.dimmer]]

\* SwitchAggregator::handleSwitchStateChange()
HandleSwitchStateChange(s) == [s EXCEPT !.override = Intensity(s)]

\* Mutant: the change is passed on without being stored.
UnexpectedUpdateWithoutStore(s) == HandleSwitchStateChange(s)

SendUnexpectedStateUpdate(s) == HandleSwitchStateChange(Store(s))

-----------------------------------------------------------------------------
(* State setters.                                                          *)

SetRelayUnchecked(s, on) ==
  IF s.relay = on /\ s.accurate
    THEN Return(s, "SUCCESS")
    ELSE [s EXCEPT !.relay = on, !.relayPos = on, !.accurate = TRUE, !.ret = "SUCCESS"]

SafeSetRelay(s, on) ==
  LET safe == IF on THEN IsSafeToTurnRelayOn(s) ELSE IsSafeToTurnRelayOff(s) IN
  CASE ~ IsRelayStateChangeAllowed(s)           -> Return(s, "NO_ACCESS")
    [] IsRelayStateChangeAllowed(s) /\ ~ safe   -> Return(s, "UNSAFE")
    [] IsRelayStateChangeAllowed(s) /\ safe     -> SetRelayUnchecked(s, on)

SetDimmerUnchecked(s, v) ==
  IF s.dimmer = v \/ v = 0 \/ DimmerEnabled(s)
    THEN [s EXCEPT !.dimmer = v, !.ret = "SUCCESS"]
    ELSE Return(s, "NOT_STARTED")

StartDimmerPowerCheck(s, v) ==
  IF s.checked \/ s.powered \/ "canTryDimmingOnBoot" \notin s.board
    THEN Return(s, "NOT_AVAILABLE")
    ELSE LET t == SetDimmerUnchecked([s EXCEPT !.powered = TRUE], v) IN
         [t EXCEPT !.checkCountDown = IF @ = 0 THEN CheckTicks ELSE @,
                   !.ret = "SUCCESS"]

SafeSetDimmer(s, v) ==
  CASE ~ IsDimmerStateChangeAllowed(s) -> Return(s, "NO_ACCESS")
    [] IsDimmerStateChangeAllowed(s) /\ v > 0 /\ ~ IsSafeToDim(s) -> Return(s, "UNSAFE")
    [] IsDimmerStateChangeAllowed(s) /\ v > 0 /\ IsSafeToDim(s) /\ ~ s.powered ->
         LET t == StartDimmerPowerCheck(s, v) IN
         IF t.ret = "SUCCESS" THEN t ELSE Return(t, "NOT_POWERED")
    [] OTHER -> SetDimmerUnchecked(s, v)

-----------------------------------------------------------------------------
(* The power check, and the end of the power up.                           *)

\* lowPower: the power that is measured is below the threshold, because the
\* dimmer has no power yet or because the load is small.
CheckDimmerPower(s, lowPower) ==
  IF s.dimmer = 0 \/ s.relay
    THEN [s EXCEPT !.powered = FALSE]
    ELSE LET t == [s EXCEPT !.checked = TRUE] IN
         IF lowPower
           THEN SendUnexpectedStateUpdate(
                  SetDimmerUnchecked(
                    SetRelayUnchecked([t EXCEPT !.powered = FALSE], TRUE), 0))
           ELSE t

\* Mutant: the check is not cancelled.
PoweredUpWithoutCancel(s) == [s EXCEPT !.powered = TRUE]

\* dimmerPoweredUp(), with cancelDimmerPowerCheck()
DimmerPoweredUp(s) == [s EXCEPT !.checkCountDown = 0, !.powered = TRUE]

\* Mutant: the count goes on below 0.
CountDownUnchecked(n) == n - 1

CountDown(n) == IF n = 0 THEN 0 ELSE n - 1

\* The part of handleEvent() for EVT_TICK.
SafeSwitchTick(s, lowPower) ==
  LET t == [s EXCEPT !.powerUpCountDown = CountDown(@)]
      u == IF s.powerUpCountDown = 1 THEN DimmerPoweredUp(t) ELSE t
      v == [u EXCEPT !.checkCountDown = CountDown(@)]
  IN IF u.checkCountDown = 1 THEN CheckDimmerPower(v, lowPower) ELSE v

-----------------------------------------------------------------------------
(* Forceful changes.  They do not set relayHasBeenSetBefore.               *)

ForceSwitchOff(s) ==
  LET t == [s EXCEPT !.dimmer = 0] IN
  IF IsSafeToTurnRelayOff(t)
    THEN SendUnexpectedStateUpdate([t EXCEPT !.relay = FALSE, !.relayPos = FALSE])
    ELSE t

\* The first part of forceRelayOnAndDimmerOff(): what happens before the
\* state CONFIG_DIMMING_ALLOWED is set.
RelayOnAndDimmerOff(s) ==
  SendUnexpectedStateUpdate(
    [s EXCEPT !.relay = TRUE, !.relayPos = TRUE, !.dimmer = 0])

GoingToDfu(s) ==
  LET t == [s EXCEPT !.allowStateChanges = FALSE] IN
  IF s.dimmer # 0 \/ "dimmerOnWhenPinsFloat" \in s.board
    THEN SendUnexpectedStateUpdate(SetDimmerUnchecked(SetRelayUnchecked(t, TRUE), 0))
    ELSE t

\* factoryReset(): the new state is not stored.
SwitchFactoryReset(s) == SetRelayUnchecked(s, FALSE)

\* init() and start().  warm: the device was reset by its own software.
SafeSwitchBoot(s, warm) ==
  LET powered == warm /\ "canDimOnWarmBoot" \in s.board IN
  [s EXCEPT !.relay = s.stored.relay, !.dimmer = 0,
            !.accurate = FALSE,
            !.powered = powered,
            !.powerUpCountDown = PowerUpTicks, !.checkCountDown = 0,
            !.checked = FALSE,
            !.allowStateChanges = TRUE,
            !.errors = {}]
=============================================================================
