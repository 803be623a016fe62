----------------------------- MODULE SwitchProps -----------------------------
(***************************************************************************)
(* What the switch is meant to guarantee.                                  *)
(***************************************************************************)
EXTENDS SwitchAggregator

\* The intensity that comes out: the relay is parallel to the dimmer.
OutputOf(s) == IF s.relayPos THEN FullyOn ELSE s.dimmer
Output == OutputOf(sw)

-----------------------------------------------------------------------------
(* Invariants.                                                             *)

\* An overloaded switch is off, unless the relay protects a broken dimmer or the
\* device is about to be updated: no command, behaviour, power check or restored
\* state turns it on again while the error stands (docs/SOFTFUSES.md).
OverloadMeansOff ==
  IsSwitchOverLoaded(sw) /\ ~ HasDimmerError(sw) /\ sw.allowStateChanges => Output = 0

\* As long as the chip is too hot, the switch is off (docs/SOFTFUSES.md, Chip
\* temperature).
HotChipMeansOff ==
  lastChipHot /\ ~ HasDimmerError(sw) /\ sw.allowStateChanges => Output = 0

\* When the dimmer fails, the relay takes over the current, and keeps doing so
\* until the error is reset; in factory reset mode the relay is turned off.
DimmerErrorMeansRelayOn ==
  HasDimmerError(sw) /\ sw.mode # "factoryReset" => sw.relayPos /\ sw.dimmer = 0

\* The state to be restored after a reset is the state of the switch, and the
\* relay is where SafeSwitch has set it.
StateIsTrue ==
  /\ sw.mode # "factoryReset" => sw.stored = [relay |-> sw.relay, dimmer |-> sw.dimmer]
  /\ sw.accurate => sw.relayPos = sw.relay

\* When updateState() reports success, the intensity that comes out is the
\* aggregated one, whatever the state of the relay was before.
SuccessMeansSet == sw.ret = "SUCCESS" => Output = sw.aggregated

\* Once the dimmer had its time to power up it remains powered: no power check
\* that was started before can declare it unpowered afterwards.
PowerUpIsFinal == sw.powerUpCountDown = 0 => sw.powered

\* The bootloader has no dimmer: from the moment the device is going to be
\* updated, the dimmer is off and stays off.
NoDimmingInDfu == ~ sw.allowStateChanges => sw.dimmer = 0

\* The switch of a Crownstone that is not allowed to dim does not dim
\* (docs/TESTING.md, Dimming allowed).
NoDimmingUnlessAllowed == ~ sw.allowDimming => sw.dimmer = 0

\* A switch is not locked and allowed to dim at the same time (docs/CHOICES.md,
\* Switching, locking and dimming).
LockExcludesDimming == ~ (sw.locked /\ sw.allowDimming)

\* Whenever the device resets, the switch comes back on if and only if it was
\* saved as being on: locked or not, wherever the relay was left, and with a
\* dimmer that may not have power yet.
RestoresWhatWasSaved ==
  sw.mode # "factoryReset" =>
    \A warm \in BOOLEAN :
      OutputOf(Booted(sw, warm)) # 0 <=> sw.saved # [relay |-> FALSE, dimmer |-> 0]

\* The dimmer is on only where and when dimming is allowed (the guards of
\* SafeSwitch and the configuration of SmartSwitch together).
DimmingAsAllowed == NoDimmingInDfu /\ NoDimmingUnlessAllowed /\ LockExcludesDimming

\* A start brings back the saved state with a dimmer that has power, or gets it.
PowerUpRestores == PowerUpIsFinal /\ RestoresWhatWasSaved

-----------------------------------------------------------------------------
(* Steps.                                                                  *)

\* While the switch is locked, neither commands nor behaviours change what
\* comes out; only errors, updates and resets do.
LockedStays ==
  [][sw.locked /\ sw'.locked /\ (Command \/ Ticking) =>
       sw'.relayPos = sw.relayPos /\ sw'.dimmer = sw.dimmer]_vars


\* Whether dimming is allowed decides how the switch is on, not whether it is on:
\* "we want to copy the current intensity, so that the intensity doesn't change
\* when some configuration is changed" (SwitchAggregator.cpp).
ConfigKeepsOnOff ==
  [][(\E allowed \in BOOLEAN : CmdDimmingAllowed(allowed)) =>
       (Output' # 0 <=> Output # 0)]_vars
=============================================================================
