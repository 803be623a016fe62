---------------------------- MODULE SmartSwitch ----------------------------
(***************************************************************************)
(* SmartSwitch (switch/cs_SmartSwitch.cpp): decides with which of the relay *)
(* and the dimmer an intensity is made, keeps the switch lock and whether  *)
(* dimming is allowed, and stores the state of the switch.                 *)
(***************************************************************************)
EXTENDS SafeSwitch

\* The members of SmartSwitch.  saved is what flash holds of the state of the
\* switch: stored is written some time after it was set (module State).
SmartSwitchMembers ==
  [intended |-> Levels,          \* _intendedState
   stored |-> SwitchState,       \* _storedState
   saved |-> SwitchState,
   allowDimming |-> BOOLEAN,     \* _allowDimming
   locked |-> BOOLEAN,           \* _switchLocked
   starting |-> BOOLEAN]         \* _allowSwitchingOverride

\* Mutant: the lock does not count.
AllowSwitchingAlways(s) == TRUE

AllowSwitching(s) == ~ s.locked \/ s.starting

SetRelay(s, on) ==
  IF s.relay = on /\ s.accurate THEN Return(s, "SUCCESS")
  ELSE IF ~ AllowSwitching(s) THEN Return(s, "NO_ACCESS")
  ELSE Store(SafeSetRelay(s, on))

SetDimmer(s, v) ==
  IF ~ s.allowDimming /\ v > 0 THEN Return(s, "NO_ACCESS")
  ELSE IF s.dimmer = v THEN Return(s, "SUCCESS")
  ELSE IF ~ AllowSwitching(s) THEN Return(s, "NO_ACCESS")
  ELSE Store(SafeSetDimmer(s, v))

TurnOff(s) ==
  LET t == SetDimmer(s, 0)
      u == SetRelay(t, FALSE)
  IN IF u.ret = "SUCCESS" THEN Return(u, t.ret) ELSE u

\* Mutant: relay on counts as fully on, set or not.
TurnFullyOnUnlessOn(s) ==
  LET t == SetDimmer(s, FullyOn)
      u == SetRelay(t, TRUE)
  IN IF s.relay THEN Return(s, "SUCCESS")
     ELSE IF t.ret = "SUCCESS" THEN t
     ELSE Return(SetDimmer(u, 0), u.ret)

TurnFullyOn(s) ==
  LET t == SetDimmer(s, FullyOn)
      u == SetRelay(t, TRUE)
  IN IF s.relay /\ s.accurate THEN Return(s, "SUCCESS")
     ELSE IF t.ret = "SUCCESS" THEN t
     ELSE Return(SetDimmer(u, 0), u.ret)

DimTo(s, v) ==
  LET t == SetDimmer(s, v)
      u == SetRelay(t, FALSE)
  IN IF t.ret = "SUCCESS"
       THEN IF u.ret = "SUCCESS" THEN u ELSE Return(SetDimmer(u, 0), u.ret)
       ELSE Return(SetDimmer(SetRelay(t, TRUE), 0), t.ret)

ResolveIntendedState(s) ==
  CASE s.intended = 0                    -> TurnOff(s)
    [] s.intended = FullyOn              -> TurnFullyOn(s)
    [] s.intended \notin {0, FullyOn}    -> DimTo(s, s.intended)

SetIntensity(s, v) == ResolveIntendedState([s EXCEPT !.intended = v])

-----------------------------------------------------------------------------
(* Commands and events.                                                    *)

SendUnexpectedIntensityUpdate(s) ==
  IF Intensity(s) # s.intended THEN HandleSwitchStateChange(s) ELSE s

HandleCommandSetRelay(s, on) == SendUnexpectedIntensityUpdate(SetRelay(s, on))
HandleCommandSetDimmer(s, v) == SendUnexpectedIntensityUpdate(SetDimmer(s, v))

SetSwitchLock(s, lock) ==
  IF lock /\ s.allowDimming THEN Return(s, "WRONG_STATE")
                            ELSE [s EXCEPT !.locked = lock, !.ret = "SUCCESS"]

\* The event CONFIG_DIMMING_ALLOWED, which State sends when that is set.
HandleAllowDimmingSet(s, allowed) ==
  SendUnexpectedIntensityUpdate(ResolveIntendedState([s EXCEPT !.allowDimming = allowed]))

\* Mutant: the switch remains locked.
SetAllowDimmingWhenLocked(s, allowed) ==
  Return(HandleAllowDimmingSet(s, allowed), "SUCCESS")

SetAllowDimming(s, allowed) ==
  LET t == [s EXCEPT !.allowDimming = allowed, !.locked = @ /\ ~ allowed] IN
  Return(HandleAllowDimmingSet(t, allowed), "SUCCESS")

\* SafeSwitch::forceRelayOnAndDimmerOff()
ForceRelayOnAndDimmerOff(s) == HandleAllowDimmingSet(RelayOnAndDimmerOff(s), FALSE)

\* init() and start(): restore what was saved, locked or not.
SmartSwitchBoot(s, warm) ==
  LET t == [s EXCEPT !.stored = s.saved]
      u == [t EXCEPT !.intended = IF t.stored.relay THEN FullyOn ELSE t.stored.dimmer]
      v == [SafeSwitchBoot(u, warm) EXCEPT !.starting = TRUE]
  IN [ResolveIntendedState(v) EXCEPT !.starting = FALSE]
=============================================================================
