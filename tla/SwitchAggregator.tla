-------------------------- MODULE SwitchAggregator --------------------------
(***************************************************************************)
(* SwitchAggregator (switch/cs_SwitchAggregator.cpp): the override of the   *)
(* user, the behaviours and the twilights together determine the intensity *)
(* that SmartSwitch is to set, once a second and at every command.         *)
(*                                                                         *)
(* The actions are the events of the main loop that concern the switch,    *)
(* with those who send them: TemperatureGuard (processing/                  *)
(* cs_TemperatureGuard.cpp) and the soft fuses of PowerSampling, which      *)
(* watch the hardware; the commands; a reset of the device.  What the       *)
(* behaviours want is chosen by the environment.                           *)
(***************************************************************************)
EXTENDS SmartSwitch

CONSTANTS
  Toggle,          \* CS_SWITCH_CMD_VAL_TOGGLE
  ToBehaviour,     \* CS_SWITCH_CMD_VAL_BEHAVIOUR
  Other,           \* a value above 100 without a meaning
  DoubleTapTicks,  \* SWITCHCRAFT_DOUBLE_TAP_TIMEOUT_MS / TICK_INTERVAL_MS
  DimValue,        \* the dim value of a double tap
  Behaviours,      \* what the behaviours can want, possibly None
  Twilights,       \* what the twilights can want, possibly None
  Happens          \* the errors and events that occur: see Events

\* "resetErrors": CMD_RESET_ERRORS is sent while there are errors.
\* "direct": the commands that bypass SwitchAggregator are used.
\* "stateSet": CONFIG_DIMMING_ALLOWED is set as a state, not by its command.
\* "switchcraft": the wall switch is used.
Events == Errors \cup {"resetErrors", "direct", "stateSet", "switchcraft", "dfu", "lock"}

ASSUME AggregatorAssumption ==
  /\ DoubleTapTicks \in Nat \ {0}
  /\ DimValue \in Levels \ {0}
  /\ Behaviours \subseteq Levels \cup {None} /\ Behaviours # {}
  /\ Twilights \subseteq Levels \cup {None} /\ Twilights # {}
  /\ Happens \subseteq Events

VARIABLES
  sw,             \* the members of the three classes
  lastChipHot,    \* _lastChipTempEvent is EVT_CHIP_TEMP_ABOVE_THRESHOLD
  lastDimmerHot,  \* _lastPwmTempEvent is EVT_DIMMER_TEMP_ABOVE_THRESHOLD
  behaviourNow,   \* what BehaviourHandler::getValue() returns after update()
  twilightNow     \* what TwilightHandler::getValue() returns after update()

guardVars == <<lastChipHot, lastDimmerHot>>
wantedVars == <<behaviourNow, twilightNow>>
vars == <<sw, guardVars, wantedVars>>

OptLevel == Levels \cup {None}

\* The members of SwitchAggregator.  ret: what the last event made of
\* updateState(), or NO_CHANGE if it did not call it.
AggregatorMembers ==
  [override |-> OptLevel \cup {SmartOn}, behaviour |-> OptLevel, twilight |-> OptLevel,
   aggregated |-> OptLevel, doubleTapCountDown |-> 0..DoubleTapTicks,
   lastOnValue |-> Levels, ret |-> RetCode]

HasMembers(T) == \A f \in DOMAIN T : sw[f] \in T[f]

TypeOK ==
  /\ DOMAIN sw = DOMAIN SafeSwitchMembers \cup DOMAIN SmartSwitchMembers
                   \cup DOMAIN AggregatorMembers
  /\ HasMembers(SafeSwitchMembers) /\ HasMembers(SmartSwitchMembers)
  /\ HasMembers(AggregatorMembers)
  /\ lastChipHot \in BOOLEAN /\ lastDimmerHot \in BOOLEAN
  /\ behaviourNow \in Behaviours /\ twilightNow \in Twilights

-----------------------------------------------------------------------------
(* State updaters.                                                         *)

Least(a, b) == IF a <= b THEN a ELSE b

AggregatedBehaviourIntensity(s) ==
  IF s.twilight = None THEN s.behaviour ELSE Least(s.behaviour, s.twilight)

ResolveOverrideState(s) ==
  LET wants == {s.behaviour, s.twilight} \ {None, 0} IN
  IF s.override # SmartOn THEN s.override
  ELSE IF wants = {} THEN FullyOn
  ELSE CHOOSE v \in wants : \A w \in wants : v <= w

\* The override matches what the switch does, and the behaviours want something
\* else now.
ShouldResetOverrideState(s, allowOverrideReset) ==
  /\ s.override # None /\ s.behaviour # None /\ s.aggregated # None
  /\ (s.override # 0) <=> (s.aggregated # 0)
  /\ (s.behaviour # 0) <=> (s.aggregated = 0)
  /\ allowOverrideReset

UpdateState(s, allowOverrideReset) ==
  LET reset == ShouldResetOverrideState(s, allowOverrideReset)
      agg   == IF s.override # None /\ ~ reset THEN ResolveOverrideState(s)
               ELSE IF s.behaviour # None THEN AggregatedBehaviourIntensity(s)
               ELSE s.aggregated
      t     == SetIntensity([s EXCEPT !.aggregated = agg], agg)
  IN CASE agg = None              -> Return(s, "NO_CHANGE")
       [] agg # None /\ ~ reset   -> t
       [] agg # None /\ reset     ->
            [t EXCEPT !.override = IF t.ret = "SUCCESS" THEN None ELSE Intensity(t)]

UpdateBehaviourHandlers(s) ==
  [s EXCEPT !.behaviour = behaviourNow, !.twilight = twilightNow]

BehaviourValueChanged(s) ==
  s.behaviour # None /\ behaviourNow # None /\ s.behaviour # behaviourNow

\* Mutant: the switch is updated only when the behaviours change their mind.
UpdateWhenChanged(s) ==
  IF BehaviourValueChanged(s) THEN UpdateState(UpdateBehaviourHandlers(s), TRUE)
                              ELSE Return(UpdateBehaviourHandlers(s), "NO_CHANGE")

Update(s) == UpdateState(UpdateBehaviourHandlers(s), BehaviourValueChanged(s))

-----------------------------------------------------------------------------
(* Commands that set the override.                                         *)

\* What executeStateIntentionUpdate() does with the result of updateState().
CopyCurrentIntensity(s) ==
  IF s.ret \in {"SUCCESS", "NO_CHANGE", "NOT_POWERED"} THEN s
  ELSE [s EXCEPT !.override = Intensity(s)]

\* executeStateIntentionUpdate() of anything but a toggle.
Intend(s, value) ==
  LET t == CASE value = ToBehaviour -> [s EXCEPT !.override = None]
             [] value \in Levels \cup {SmartOn} -> [s EXCEPT !.override = value]
             [] OTHER -> s
  IN CopyCurrentIntensity(UpdateState(t, FALSE))

ExecuteStateIntentionUpdate(s, value) ==
  IF value = Toggle THEN Intend(s, IF s.intended = 0 THEN SmartOn ELSE 0)
                    ELSE Intend(s, value)

\* A toggle by the wall switch: registerSwitchcraftEvent() and
\* getStateIntentionSwitchcraft().
SwitchcraftToggle(s) ==
  LET lastOn    == IF s.intended > 0 THEN s.intended ELSE s.lastOnValue
      doubleTap == s.doubleTapCountDown # 0
      t         == [s EXCEPT !.lastOnValue = lastOn,
                             !.doubleTapCountDown = IF doubleTap THEN 0
                                                    ELSE DoubleTapTicks]
      smartOn   == ResolveOverrideState([s EXCEPT !.override = SmartOn])
      value     == IF ~ doubleTap \/ lastOn = 0
                     THEN IF s.intended # 0 THEN 0 ELSE SmartOn
                   ELSE IF lastOn # FullyOn THEN FullyOn
                   ELSE IF smartOn < FullyOn THEN SmartOn
                   ELSE DimValue
  IN Intend(t, value)

-----------------------------------------------------------------------------
(* Events.                                                                 *)

Do(s) == sw' = s /\ UNCHANGED <<guardVars, wantedVars>>

\* An event that does not end in updateState().
Quietly(s) == Return(s, "NO_CHANGE")

\* EVT_TICK, to SafeSwitch first; newSecond: the time is not _lastTimestamp.
Tick(lowPower, newSecond) ==
  LET s == [SafeSwitchTick(sw, lowPower) EXCEPT !.doubleTapCountDown = CountDown(@)] IN
  Do(IF newSecond THEN Update(s) ELSE Quietly(s))

\* CMD_SWITCH, if checkAndSetOwner() accepts it, and CMD_SWITCH_ON,
\* CMD_SWITCH_OFF and CMD_SWITCH_TOGGLE.
CmdSwitch(value) == Do(ExecuteStateIntentionUpdate(sw, value))

Switchcraft == "switchcraft" \in Happens /\ Do(SwitchcraftToggle(sw))

\* EVT_BEHAVIOURSTORE_MUTATION; valid: ADD or UPDATE of a behaviour that is
\* valid now, else REMOVE or CLEAR_ALL.
BehaviourMutation(valid) ==
  Do(Update(IF valid THEN [sw EXCEPT !.override = None] ELSE sw))

\* LastUserExitSphere, while a behaviour requires presence
LastUserExit ==
  /\ sw.override # None
  /\ Do(UpdateState(UpdateBehaviourHandlers([sw EXCEPT !.override = None]), TRUE))

CmdLockSwitch(lock) == "lock" \in Happens /\ Do(Quietly(SetSwitchLock(sw, lock)))

CmdDimmingAllowed(allowed) == Do(Quietly(SetAllowDimming(sw, allowed)))

\* A user sets the state CONFIG_DIMMING_ALLOWED.
SetDimmingAllowed(allowed) ==
  "stateSet" \in Happens /\ Do(Quietly(HandleAllowDimmingSet(sw, allowed)))

CmdSetRelay(on) == "direct" \in Happens /\ Do(Quietly(HandleCommandSetRelay(sw, on)))
CmdSetDimmer(v) == "direct" \in Happens /\ Do(Quietly(HandleCommandSetDimmer(sw, v)))

Command ==
  \/ \E value \in Levels \cup {SmartOn, Toggle, ToBehaviour, Other} : CmdSwitch(value)
  \/ Switchcraft
  \/ \E valid \in BOOLEAN : BehaviourMutation(valid)
  \/ LastUserExit
  \/ \E b \in BOOLEAN : \/ CmdLockSwitch(b) \/ CmdDimmingAllowed(b)
                        \/ SetDimmingAllowed(b) \/ CmdSetRelay(b)
  \/ \E v \in Levels : CmdSetDimmer(v)

\* What the environment wants: a behaviour or a twilight begins or ends.
BehavioursChange ==
  /\ behaviourNow' \in Behaviours /\ twilightNow' \in Twilights
  /\ wantedVars' # wantedVars
  /\ UNCHANGED <<sw, guardVars>>

-----------------------------------------------------------------------------
(* Those who watch the hardware.  Each sets its error before its event.    *)

SetError(s, e) == [s EXCEPT !.errors = @ \cup {e}]

\* TemperatureGuard::tick().  The error is set at every tick that is too hot,
\* the event is sent when that has changed.
GuardTick(chipHot, dimmerHot) ==
  LET s == IF chipHot THEN SetError(sw, "chipTemp") ELSE sw
      t == IF chipHot /\ ~ lastChipHot THEN ForceSwitchOff(s) ELSE s
      u == IF dimmerHot THEN SetError(t, "dimmerTemp") ELSE t
      v == IF dimmerHot /\ ~ lastDimmerHot THEN ForceRelayOnAndDimmerOff(u) ELSE u
  IN /\ chipHot => "chipTemp" \in Happens
     /\ dimmerHot => "dimmerTemp" \in Happens
     /\ sw' = Quietly(v)
     /\ lastChipHot' = chipHot /\ lastDimmerHot' = dimmerHot
     /\ UNCHANGED wantedVars

\* The soft fuses of PowerSampling::checkSoftfuse().
Fuse(e) == e \in Happens \ sw.errors

OverCurrent ==
  /\ Fuse("overCurrent")
  /\ Do(Quietly(ForceSwitchOff(SetError(sw, "overCurrent"))))

DimmerOverCurrent ==
  /\ Fuse("overCurrentDimmer") /\ sw.stored.dimmer # 0
  /\ Do(Quietly(ForceRelayOnAndDimmerOff(SetError(sw, "overCurrentDimmer"))))

\* There is current while the switch is off.
DimmerFailure ==
  /\ "dimmerOn" \in Happens /\ "overCurrentDimmer" \notin sw.errors
  /\ sw.stored.dimmer = 0 /\ ~ sw.stored.relay
  /\ Do(Quietly(ForceRelayOnAndDimmerOff(SetError(sw, "dimmerOn"))))

Hardware ==
  \/ \E chipHot, dimmerHot \in BOOLEAN : GuardTick(chipHot, dimmerHot)
  \/ OverCurrent \/ DimmerOverCurrent \/ DimmerFailure

\* CMD_RESET_ERRORS
ResetErrors(errors) ==
  /\ "resetErrors" \in Happens
  /\ errors # {}
  /\ Do(Quietly([sw EXCEPT !.errors = @ \ errors]))

\* CMD_GOTO_DFU; the device resets some time later.
CmdGotoDfu == "dfu" \in Happens /\ Do(Quietly(GoingToDfu(sw)))

\* CMD_FACTORY_RESET, which is sent in factory reset mode only.
CmdFactoryReset == sw.mode = "factoryReset" /\ Do(Quietly(SwitchFactoryReset(sw)))

\* State writes the state of the switch to flash.
Save == sw.saved # sw.stored /\ Do(Quietly([sw EXCEPT !.saved = sw.stored]))

Booted(s, warm) ==
  LET t == SmartSwitchBoot(s, warm) IN
  [t EXCEPT !.override = t.intended, !.behaviour = None, !.twilight = None,
            !.aggregated = None, !.doubleTapCountDown = 0, !.lastOnValue = 0,
            !.ret = "NO_CHANGE"]

\* The state of a device of which the flash was erased.
Erased(s) == [s EXCEPT !.saved = [relay |-> FALSE, dimmer |-> 0],
                       !.allowDimming = FALSE, !.locked = FALSE]

\* The device resets.  A device in factory reset mode stays in that mode until
\* its flash is erased, it is in setup mode then.
Reboot(warm, mode) ==
  LET s == IF sw.mode = "factoryReset" /\ mode = "setup" THEN Erased(sw) ELSE sw IN
  /\ <<sw.mode, mode>> \notin {<<"normal", "setup">>, <<"factoryReset", "normal">>}
  /\ sw' = Booted([s EXCEPT !.mode = mode], warm)
  /\ lastChipHot' = FALSE /\ lastDimmerHot' = FALSE
  /\ UNCHANGED wantedVars

Init ==
  /\ \E board \in Boards, mode \in Modes, on, relayPos \in BOOLEAN :
       LET off == [relay |-> FALSE, dimmer |-> 0] IN
       sw = Booted([relay |-> FALSE, dimmer |-> 0, relayPos |-> relayPos,
                    accurate |-> FALSE, powered |-> FALSE,
                    powerUpCountDown |-> PowerUpTicks, checkCountDown |-> 0,
                    checked |-> FALSE, allowStateChanges |-> TRUE, mode |-> mode,
                    board |-> board, errors |-> {},
                    intended |-> 0, stored |-> off,
                    saved |-> [relay |-> on, dimmer |-> 0],
                    allowDimming |-> FALSE, locked |-> FALSE, starting |-> FALSE,
                    override |-> None, behaviour |-> None, twilight |-> None,
                    aggregated |-> None, doubleTapCountDown |-> 0,
                    lastOnValue |-> 0, ret |-> "NO_CHANGE"], FALSE)
  /\ lastChipHot = FALSE /\ lastDimmerHot = FALSE
  /\ behaviourNow \in Behaviours /\ twilightNow \in Twilights

Ticking == \E lowPower, newSecond \in BOOLEAN : Tick(lowPower, newSecond)

Next ==
  \/ Ticking
  \/ Command
  \/ BehavioursChange
  \/ Hardware
  \/ \E errors \in SUBSET sw.errors : ResetErrors(errors)
  \/ CmdGotoDfu \/ CmdFactoryReset
  \/ Save
  \/ \E warm \in BOOLEAN, mode \in Modes : Reboot(warm, mode)

Spec == Init /\ [][Next]_vars
=============================================================================
