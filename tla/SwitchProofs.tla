---------------------------- MODULE SwitchProofs ----------------------------
(***************************************************************************)
(* The properties of module SwitchProps hold for all intensities, boards,  *)
(* modes, timeouts and behaviours.                                         *)
(*                                                                         *)
(* The methods of the three classes are operators from a record to a       *)
(* record, so the proof climbs the call graph: what SetRelay and SetDimmer *)
(* make of the record (RelayOutcome, DimmerOutcome), what every method     *)
(* built from them keeps (Keeps, KeepsAll), what each event keeps (Event),  *)
(* and from there the invariant:                                           *)
(*   IInv       types, and what the hardware and the mode impose (Sound);  *)
(*   Dimming    the dimmer is on only where it may be;                     *)
(*   Protected  a broken dimmer is bypassed, and the state is stored;      *)
(*   Overload   an overloaded switch is off.                               *)
(* The last three are inductive only relative to IInv, and each only if    *)
(* the events that break it do not occur: Bypassed, DimmerErrorsStand and  *)
(* ErrorsStand say which.                                                  *)
(***************************************************************************)
EXTENDS SwitchProps, TLAPS

\* What the three classes keep, with the type of every member.
SwitchRecord ==
  [relay : BOOLEAN, dimmer : Levels, relayPos : BOOLEAN, accurate : BOOLEAN,
   powered : BOOLEAN, powerUpCountDown : 0..PowerUpTicks,
   checkCountDown : 0..CheckTicks, checked : BOOLEAN, allowStateChanges : BOOLEAN,
   mode : Modes, board : Boards, errors : SUBSET Errors,
   intended : Levels, stored : SwitchState, saved : SwitchState,
   allowDimming : BOOLEAN, locked : BOOLEAN, starting : BOOLEAN,
   override : OptLevel \cup {SmartOn}, behaviour : OptLevel, twilight : OptLevel,
   aggregated : OptLevel, doubleTapCountDown : 0..DoubleTapTicks,
   lastOnValue : Levels, ret : RetCode]

\* What neither SetRelay nor SetDimmer changes.
Rest(s, t) ==
  /\ t.powerUpCountDown = s.powerUpCountDown
  /\ t.allowStateChanges = s.allowStateChanges /\ t.mode = s.mode /\ t.board = s.board
  /\ t.errors = s.errors /\ t.intended = s.intended /\ t.saved = s.saved
  /\ t.allowDimming = s.allowDimming /\ t.locked = s.locked /\ t.starting = s.starting
  /\ t.override = s.override /\ t.behaviour = s.behaviour /\ t.twilight = s.twilight
  /\ t.aggregated = s.aggregated /\ t.doubleTapCountDown = s.doubleTapCountDown
  /\ t.lastOnValue = s.lastOnValue

\* The relay is left alone, and so is the dimmer with its power check.
SameRelay(s, t) ==
  t.relay = s.relay /\ t.relayPos = s.relayPos /\ t.accurate = s.accurate

SameDimmer(s, t) ==
  /\ t.dimmer = s.dimmer /\ t.powered = s.powered
  /\ t.checkCountDown = s.checkCountDown /\ t.checked = s.checked

\* SmartSwitch::store() has seen the state of the switch.
Recorded(s) == s.stored = [relay |-> s.relay, dimmer |-> s.dimmer]

-----------------------------------------------------------------------------
(* The setters of SafeSwitch and SmartSwitch.                              *)

LEMMA LevelFact == \A v \in Levels : v \in Nat /\ (v > 0 <=> v # 0)
BY SwitchAssumption DEF FullyOn

LEMMA ReturnFact ==
  ASSUME NEW s \in SwitchRecord, NEW code \in RetCode
  PROVE  LET t == Return(s, code) IN
         /\ t \in SwitchRecord /\ t.ret = code /\ t.stored = s.stored
         /\ Rest(s, t) /\ SameRelay(s, t) /\ SameDimmer(s, t)
BY DEF SwitchRecord, Return, Rest, SameRelay, SameDimmer

LEMMA StoreFact ==
  ASSUME NEW s \in SwitchRecord
  PROVE  LET t == Store(s) IN
         /\ t \in SwitchRecord /\ t.ret = s.ret /\ Recorded(t)
         /\ Rest(s, t) /\ SameRelay(s, t) /\ SameDimmer(s, t)
BY DEF SwitchRecord, SwitchState, Store, Recorded, Rest, SameRelay, SameDimmer

LEMMA SetRelayUncheckedFact ==
  ASSUME NEW s \in SwitchRecord, NEW on \in BOOLEAN
  PROVE  LET t == SetRelayUnchecked(s, on) IN
         /\ t \in SwitchRecord /\ t.ret = "SUCCESS" /\ t.stored = s.stored
         /\ Rest(s, t) /\ SameDimmer(s, t)
         /\ t.relay = on /\ t.accurate
         /\ t.relayPos = on \/ (t.relayPos = s.relayPos /\ s.accurate /\ s.relay = on)
<1>1. CASE s.relay = on /\ s.accurate
  BY <1>1, ReturnFact DEF SetRelayUnchecked, RetCode, SameRelay
<1>2. CASE ~ (s.relay = on /\ s.accurate)
  BY <1>2 DEF SwitchRecord, SetRelayUnchecked, RetCode, Rest, SameDimmer
<1> QED
  BY <1>1, <1>2

\* The conditions of SafeSwitch::setRelay() and setDimmer().
RelayAllowed(s, on) ==
  /\ IsRelayStateChangeAllowed(s)
  /\ IF on THEN IsSafeToTurnRelayOn(s) ELSE IsSafeToTurnRelayOff(s)

DimmerAllowed(s, v) == IsDimmerStateChangeAllowed(s) /\ (v > 0 => IsSafeToDim(s))

LEMMA SafeSetRelayFact ==
  ASSUME NEW s \in SwitchRecord, NEW on \in BOOLEAN
  PROVE  LET t == SafeSetRelay(s, on) IN
         /\ t \in SwitchRecord /\ t.stored = s.stored
         /\ Rest(s, t) /\ SameDimmer(s, t)
         /\ t.ret = "SUCCESS" <=> RelayAllowed(s, on)
         /\ IF RelayAllowed(s, on) THEN t = SetRelayUnchecked(s, on)
                                   ELSE SameRelay(s, t)
BY SetRelayUncheckedFact, ReturnFact DEF SafeSetRelay, RelayAllowed, RetCode

\* What SmartSwitch::setRelay() makes of the relay.
RelayOutcome(s, on, t) ==
  /\ t \in SwitchRecord /\ Rest(s, t) /\ SameDimmer(s, t)
  /\ Recorded(s) => Recorded(t)
  /\ t.ret = "SUCCESS" <=> \/ s.relay = on /\ s.accurate
                           \/ AllowSwitching(s) /\ RelayAllowed(s, on)
  /\ IF t.ret = "SUCCESS"
       THEN /\ t.relay = on /\ t.accurate
            /\ t.relayPos = on \/ (t.relayPos = s.relayPos /\ s.accurate /\ s.relay = on)
       ELSE SameRelay(s, t)
  /\ AllowSwitching(s) /\ ~ s.accurate => Recorded(t)

LEMMA SetRelayFact ==
  ASSUME NEW s \in SwitchRecord, NEW on \in BOOLEAN
  PROVE  RelayOutcome(s, on, SetRelay(s, on))
<1> USE DEF RelayOutcome
<1> DEFINE r == SafeSetRelay(s, on)
<1>1. CASE s.relay = on /\ s.accurate
  <2>1. SetRelay(s, on) = Return(s, "SUCCESS") /\ "SUCCESS" \in RetCode
    BY <1>1 DEF SetRelay, RetCode
  <2> DEFINE t == Return(s, "SUCCESS")
  <2>2. t \in SwitchRecord /\ Rest(s, t) /\ SameDimmer(s, t)
    BY <2>1, ReturnFact
  <2>3. Recorded(s) => Recorded(t)
    BY <2>1, ReturnFact DEF Recorded, SameRelay, SameDimmer
  <2>4. t.ret = "SUCCESS"
    BY <2>1, ReturnFact
  <2>5. t.relay = on /\ t.accurate /\ t.relayPos = s.relayPos
    BY <2>1, ReturnFact, <1>1 DEF SameRelay
  <2> QED
    BY <1>1, <2>1, <2>2, <2>3, <2>4, <2>5
<1>2. CASE ~ (s.relay = on /\ s.accurate) /\ ~ AllowSwitching(s)
  BY <1>2, ReturnFact DEF SetRelay, RetCode, Recorded, SameRelay, SameDimmer
<1>3. CASE ~ (s.relay = on /\ s.accurate) /\ AllowSwitching(s)
  <2>1. SetRelay(s, on) = Store(r)
    BY <1>3 DEF SetRelay
  <2>2. r \in SwitchRecord
    BY SafeSetRelayFact
  <2>3. CASE RelayAllowed(s, on)
    <3>1. r = SetRelayUnchecked(s, on)
      BY <2>3, SafeSetRelayFact
    <3> HIDE DEF r
    <3> QED
      BY <1>3, <2>1, <2>2, <2>3, <3>1, StoreFact, SetRelayUncheckedFact
      DEF Rest, SameRelay, SameDimmer, Recorded
  <2>4. CASE ~ RelayAllowed(s, on)
    <3>1. /\ r.ret # "SUCCESS" /\ r.stored = s.stored
          /\ Rest(s, r) /\ SameRelay(s, r) /\ SameDimmer(s, r)
      BY <2>4, SafeSetRelayFact
    <3> HIDE DEF r
    <3> QED
      BY <1>3, <2>1, <2>2, <2>4, <3>1, StoreFact DEF Rest, SameRelay, SameDimmer, Recorded
  <2> QED
    BY <2>3, <2>4
<1> QED
  BY <1>1, <1>2, <1>3

\* Once the dimmer had the time to power up, it has power and is not checked.
PoweredUp(s) == s.powerUpCountDown = 0 => s.powered /\ s.checkCountDown = 0

LEMMA SetDimmerUncheckedFact ==
  ASSUME NEW s \in SwitchRecord, NEW v \in Levels
  PROVE  LET t == SetDimmerUnchecked(s, v) IN
         /\ t \in SwitchRecord /\ t.stored = s.stored
         /\ Rest(s, t) /\ SameRelay(s, t)
         /\ t.powered = s.powered /\ t.checkCountDown = s.checkCountDown
         /\ t.checked = s.checked
         /\ t.ret = "SUCCESS" <=> s.dimmer = v \/ v = 0 \/ DimmerEnabled(s)
         /\ t.dimmer = IF t.ret = "SUCCESS" THEN v ELSE s.dimmer
<1>1. CASE s.dimmer = v \/ v = 0 \/ DimmerEnabled(s)
  BY <1>1 DEF SwitchRecord, SetDimmerUnchecked, RetCode, Rest, SameRelay
<1>2. CASE ~ (s.dimmer = v \/ v = 0 \/ DimmerEnabled(s))
  BY <1>2, ReturnFact DEF SetDimmerUnchecked, RetCode, SameDimmer
<1> QED
  BY <1>1, <1>2

LEMMA StartDimmerPowerCheckFact ==
  ASSUME NEW s \in SwitchRecord, NEW v \in Levels, DimmerEnabled(s)
  PROVE  LET t == StartDimmerPowerCheck(s, v) IN
         /\ t \in SwitchRecord /\ t.stored = s.stored
         /\ Rest(s, t) /\ SameRelay(s, t)
         /\ IF t.ret = "SUCCESS" THEN t.dimmer = v /\ ~ s.powered ELSE SameDimmer(s, t)
<1> DEFINE on == [s EXCEPT !.powered = TRUE]
           u == SetDimmerUnchecked(on, v)
           n == IF u.checkCountDown = 0 THEN CheckTicks ELSE u.checkCountDown
           t == [u EXCEPT !.checkCountDown = n, !.ret = "SUCCESS"]
<1>1. CASE s.checked \/ s.powered \/ "canTryDimmingOnBoot" \notin s.board
  BY <1>1, ReturnFact DEF StartDimmerPowerCheck, RetCode
<1>2. CASE ~ (s.checked \/ s.powered \/ "canTryDimmingOnBoot" \notin s.board)
  <2>1. /\ on \in SwitchRecord /\ on.stored = s.stored /\ DimmerEnabled(on)
        /\ Rest(s, on) /\ SameRelay(s, on)
    BY DEF SwitchRecord, DimmerEnabled, Rest, SameRelay
  <2>2. /\ u \in SwitchRecord /\ u.stored = s.stored /\ u.dimmer = v
        /\ Rest(s, u) /\ SameRelay(s, u)
    <3> HIDE DEF on
    <3> QED
      BY <2>1, SetDimmerUncheckedFact DEF Rest, SameRelay
  <2>3. /\ t \in SwitchRecord /\ t.stored = s.stored /\ t.dimmer = v
        /\ Rest(s, t) /\ SameRelay(s, t) /\ t.ret = "SUCCESS"
    <3> HIDE DEF u
    <3>1. n \in 0..CheckTicks
      BY <2>2, SwitchAssumption DEF SwitchRecord
    <3> HIDE DEF n
    <3> QED
      BY <2>2, <3>1 DEF SwitchRecord, RetCode, Rest, SameRelay
  <2>4. StartDimmerPowerCheck(s, v) = t
    BY <1>2 DEF StartDimmerPowerCheck
  <2> HIDE DEF t
  <2> QED
    BY <1>2, <2>3, <2>4
<1> QED
  BY <1>1, <1>2

LEMMA SafeSetDimmerFact ==
  ASSUME NEW s \in SwitchRecord, NEW v \in Levels
  PROVE  LET t == SafeSetDimmer(s, v) IN
         /\ t \in SwitchRecord /\ t.stored = s.stored
         /\ Rest(s, t) /\ SameRelay(s, t)
         /\ PoweredUp(s) => PoweredUp(t)
         /\ t.dimmer = IF t.ret = "SUCCESS" THEN v ELSE s.dimmer
         /\ t.ret = "SUCCESS" => DimmerAllowed(s, v)
         /\ v = 0 /\ DimmerAllowed(s, v) => t.ret = "SUCCESS"
<1>1. CASE ~ DimmerAllowed(s, v)
  <2>1. PICK code \in RetCode : code # "SUCCESS" /\ SafeSetDimmer(s, v) = Return(s, code)
    BY <1>1 DEF DimmerAllowed, SafeSetDimmer, RetCode
  <2> QED
    BY <1>1, <2>1, ReturnFact DEF SameDimmer, PoweredUp, Rest
<1>2. CASE DimmerAllowed(s, v) /\ v > 0 /\ ~ s.powered
  <2> DEFINE t == StartDimmerPowerCheck(s, v)
  <2>1. DimmerEnabled(s)
    BY <1>2 DEF DimmerAllowed, IsDimmerStateChangeAllowed, DimmerEnabled
  <2>2. SafeSetDimmer(s, v) = IF t.ret = "SUCCESS" THEN t ELSE Return(t, "NOT_POWERED")
    BY <1>2 DEF DimmerAllowed, SafeSetDimmer
  <2>3. /\ t \in SwitchRecord /\ t.stored = s.stored
        /\ Rest(s, t) /\ SameRelay(s, t)
        /\ IF t.ret = "SUCCESS" THEN t.dimmer = v /\ ~ s.powered ELSE SameDimmer(s, t)
    BY <2>1, StartDimmerPowerCheckFact
  <2> HIDE DEF t
  <2>4. CASE t.ret = "SUCCESS"
    BY <1>2, <2>2, <2>3, <2>4 DEF PoweredUp, Rest
  <2>5. CASE t.ret # "SUCCESS"
    BY <1>2, <2>2, <2>3, <2>5, ReturnFact, LevelFact
    DEF PoweredUp, Rest, SameRelay, SameDimmer, RetCode
  <2> QED
    BY <2>4, <2>5
<1>3. CASE DimmerAllowed(s, v) /\ ~ (v > 0 /\ ~ s.powered)
  <2>1. SafeSetDimmer(s, v) = SetDimmerUnchecked(s, v)
    BY <1>3 DEF DimmerAllowed, SafeSetDimmer
  <2> QED
    BY <1>3, <2>1, SetDimmerUncheckedFact DEF PoweredUp, Rest
<1> QED
  BY <1>1, <1>2, <1>3

\* What SmartSwitch::setDimmer() makes of the dimmer.
DimmerOutcome(s, v, t) ==
  /\ t \in SwitchRecord /\ Rest(s, t) /\ SameRelay(s, t)
  /\ Recorded(s) => Recorded(t)
  /\ PoweredUp(s) => PoweredUp(t)
  /\ t.dimmer = IF t.ret = "SUCCESS" THEN v ELSE s.dimmer
  /\ t.ret = "SUCCESS" => s.dimmer = v \/ (AllowSwitching(s) /\ DimmerAllowed(s, v))
  /\ t.ret = "SUCCESS" /\ v # 0 => s.allowDimming
  /\ t.ret = "SUCCESS" /\ s.dimmer # v => Recorded(t)
  /\ v = 0 /\ (s.dimmer = 0 \/ (AllowSwitching(s) /\ DimmerAllowed(s, v))) =>
       t.ret = "SUCCESS"

LEMMA SetDimmerFact ==
  ASSUME NEW s \in SwitchRecord, NEW v \in Levels
  PROVE  DimmerOutcome(s, v, SetDimmer(s, v))
<1> USE DEF DimmerOutcome
<1> DEFINE r == SafeSetDimmer(s, v)
<1>1. CASE \/ ~ s.allowDimming /\ v > 0
           \/ s.dimmer # v /\ ~ AllowSwitching(s)
  <2>1. SetDimmer(s, v) = Return(s, "NO_ACCESS")
    BY <1>1 DEF SetDimmer
  <2> QED
    BY <1>1, <2>1, ReturnFact, LevelFact DEF RetCode, Recorded, PoweredUp, Rest, SameRelay, SameDimmer
<1>2. CASE ~ (~ s.allowDimming /\ v > 0) /\ s.dimmer = v
  <2>1. SetDimmer(s, v) = Return(s, "SUCCESS")
    BY <1>2 DEF SetDimmer
  <2> QED
    BY <1>2, <2>1, ReturnFact, LevelFact DEF RetCode, Recorded, PoweredUp, Rest, SameRelay, SameDimmer
<1>3. CASE ~ (~ s.allowDimming /\ v > 0) /\ s.dimmer # v /\ AllowSwitching(s)
  <2>1. SetDimmer(s, v) = Store(r)
    BY <1>3 DEF SetDimmer
  <2>2. r \in SwitchRecord
    BY SafeSetDimmerFact
  <2>3. /\ Store(r) \in SwitchRecord /\ Store(r).ret = r.ret /\ Recorded(Store(r))
        /\ Rest(r, Store(r)) /\ SameRelay(r, Store(r)) /\ SameDimmer(r, Store(r))
    BY <2>2, StoreFact
  <2> QED
    BY <1>3, <2>1, <2>3, SafeSetDimmerFact, LevelFact
    DEF Rest, SameRelay, SameDimmer, PoweredUp
<1> QED
  BY <1>1, <1>2, <1>3

-----------------------------------------------------------------------------
(* What every operation keeps.                                             *)

\* The relay is where it was set, a dimmer that was powered up stays so, and
\* there is no dimming during an update or outside normal mode.
Sound(s) ==
  /\ s.accurate => s.relayPos = s.relay
  /\ PoweredUp(s)
  /\ ~ s.allowStateChanges => s.dimmer = 0
  /\ s.mode # "normal" => s.dimmer = 0

\* The relay protects a dimmer that fails.
Protects(s) ==
  HasDimmerError(s) /\ s.mode # "factoryReset" => s.relayPos /\ s.dimmer = 0

\* An overloaded switch is off.
Off(s) ==
  IsSwitchOverLoaded(s) /\ ~ HasDimmerError(s) /\ s.allowStateChanges =>
    ~ s.relayPos /\ s.dimmer = 0

\* What decides what an operation may do is left alone.
SameConf(s, t) ==
  /\ t.powerUpCountDown = s.powerUpCountDown
  /\ t.allowStateChanges = s.allowStateChanges /\ t.mode = s.mode /\ t.board = s.board
  /\ t.errors = s.errors /\ t.saved = s.saved
  /\ t.allowDimming = s.allowDimming /\ t.locked = s.locked /\ t.starting = s.starting

\* t comes from s by setting relay and dimmer in the ways that are allowed.  A
\* switch that is locked lets the same through.
Keeps(s, t) ==
  /\ t \in SwitchRecord /\ SameConf(s, t)
  /\ Recorded(s) => Recorded(t)
  /\ Sound(s) => Sound(t)
  /\ Sound(s) /\ Protects(s) => Protects(t)
  /\ Sound(s) /\ Off(s) => Off(t)
  /\ Sound(s) /\ ~ AllowSwitching(s) => t.relayPos = s.relayPos /\ t.dimmer = s.dimmer

LEMMA KeepsTwice ==
  ASSUME NEW s, NEW t, NEW u, Keeps(s, t), Keeps(t, u)
  PROVE  Keeps(s, u)
BY DEF Keeps, SameConf, AllowSwitching

LEMMA AsideKeeps ==
  ASSUME NEW s \in SwitchRecord, NEW t \in SwitchRecord,
         SameConf(s, t), SameRelay(s, t), SameDimmer(s, t), t.stored = s.stored
  PROVE  Keeps(s, t)
BY DEF Keeps, SameConf, SameRelay, SameDimmer, Recorded, Sound, Protects, Off, PoweredUp,
       HasDimmerError, IsSwitchOverLoaded

LEMMA ReturnKeeps ==
  ASSUME NEW s \in SwitchRecord, NEW code \in RetCode
  PROVE  Keeps(s, Return(s, code))
BY ReturnFact, AsideKeeps DEF Rest, SameConf

LEMMA SetRelayKeeps ==
  ASSUME NEW s \in SwitchRecord, NEW on \in BOOLEAN
  PROVE  Keeps(s, SetRelay(s, on))
<1> DEFINE t == SetRelay(s, on)
<1>1. RelayOutcome(s, on, t)
  BY SetRelayFact
<1> HIDE DEF t
<1> USE DEF RelayOutcome
<1>2. SameConf(s, t)
  BY <1>1 DEF Rest, SameConf
<1>3. ASSUME Sound(s) PROVE Sound(t)
  BY <1>1, <1>2, <1>3
  DEF Sound, SameConf, SameDimmer, SameRelay, PoweredUp, HasDimmerError, RelayAllowed,
      IsSafeToTurnRelayOn, IsSafeToTurnRelayOff, SwitchRecord
<1>4. ASSUME Sound(s), Protects(s) PROVE Protects(t)
  BY <1>1, <1>2, <1>4, LevelFact
  DEF Sound, Protects, SameConf, SameDimmer, SameRelay, HasDimmerError, RelayAllowed,
      DimmerAllowed, IsSafeToTurnRelayOff, IsSafeToDim, SwitchRecord
<1>5. ASSUME Sound(s), Off(s) PROVE Off(t)
  BY <1>1, <1>2, <1>5
  DEF Sound, Off, SameConf, SameDimmer, SameRelay, HasDimmerError, RelayAllowed,
      IsSwitchOverLoaded, IsSafeToTurnRelayOn, IsSafeToTurnRelayOff, SwitchRecord
<1>6. ASSUME Sound(s), ~ AllowSwitching(s)
      PROVE  t.relayPos = s.relayPos /\ t.dimmer = s.dimmer
  BY <1>1, <1>6 DEF Sound, SameDimmer, SameRelay
<1> QED
  BY <1>1, <1>2, <1>3, <1>4, <1>5, <1>6 DEF Keeps, t

LEMMA SetDimmerKeeps ==
  ASSUME NEW s \in SwitchRecord, NEW v \in Levels
  PROVE  Keeps(s, SetDimmer(s, v))
<1> DEFINE t == SetDimmer(s, v)
<1>1. DimmerOutcome(s, v, t)
  BY SetDimmerFact
<1> HIDE DEF t
<1> USE DEF DimmerOutcome
<1>2. SameConf(s, t)
  BY <1>1 DEF Rest, SameConf
<1>3. ASSUME Sound(s) PROVE Sound(t)
  BY <1>1, <1>2, <1>3, LevelFact
  DEF Sound, SameConf, SameRelay, HasDimmerError, DimmerAllowed,
      IsSafeToDim, IsDimmerStateChangeAllowed
<1>4. ASSUME Sound(s), Protects(s) PROVE Protects(t)
  BY <1>1, <1>2, <1>4, LevelFact
  DEF Sound, Protects, SameConf, SameDimmer, SameRelay, HasDimmerError, RelayAllowed,
      DimmerAllowed, IsSafeToTurnRelayOff, IsSafeToDim, SwitchRecord
<1>5. ASSUME Sound(s), Off(s) PROVE Off(t)
  BY <1>1, <1>2, <1>5, LevelFact
  DEF Sound, Off, SameConf, SameRelay, HasDimmerError, DimmerAllowed,
      IsSwitchOverLoaded, IsSafeToDim
<1>6. ASSUME Sound(s), ~ AllowSwitching(s)
      PROVE  t.relayPos = s.relayPos /\ t.dimmer = s.dimmer
  BY <1>1, <1>6 DEF SameRelay
<1> QED
  BY <1>1, <1>2, <1>3, <1>4, <1>5, <1>6 DEF Keeps, t

-----------------------------------------------------------------------------
(* Resolving the intended state.                                           *)

\* The dimmer is not left on behind the relay.
NoDimmingBehindRelay(s) == s.relay /\ s.accurate => s.dimmer = 0

\* A device that just started, with the state it is to restore.
Starting(s) ==
  /\ s.starting /\ ~ s.accurate /\ s.dimmer = 0
  /\ s.allowStateChanges /\ s.errors = {}

\* What SmartSwitch::resolveIntendedState() promises of an intensity v.
Resolved(s, v, t) ==
  /\ Keeps(s, t) /\ Rest(s, t)
  /\ Sound(s) /\ t.ret = "SUCCESS" => OutputOf(t) = v
  /\ Sound(s) /\ NoDimmingBehindRelay(s) =>
       /\ NoDimmingBehindRelay(t)
       /\ ~ s.allowDimming /\ (s.dimmer = 0 \/ AllowSwitching(s)) => t.dimmer = 0
  /\ Starting(s) => Recorded(t)
  /\ Starting(s) /\ s.mode # "factoryReset" => (OutputOf(t) # 0 <=> v # 0)

LEMMA RestMeansConf == ASSUME NEW s, NEW t, Rest(s, t) PROVE SameConf(s, t)
BY DEF Rest, SameConf

LEMMA RestTwice ==
  ASSUME NEW s, NEW t, NEW u, Rest(s, t), Rest(t, u)
  PROVE  Rest(s, u)
BY DEF Rest

LEMMA StartingAllowed ==
  ASSUME NEW s \in SwitchRecord, Starting(s)
  PROVE  /\ AllowSwitching(s)
         /\ s.mode # "factoryReset" => \A on \in BOOLEAN : RelayAllowed(s, on)
BY DEF Starting, AllowSwitching, RelayAllowed, IsRelayStateChangeAllowed,
       IsSafeToTurnRelayOn, IsSafeToTurnRelayOff, HasDimmerError, IsSwitchOverLoaded

LEMMA SameConfAllows ==
  ASSUME NEW s, NEW t, SameConf(s, t)
  PROVE  /\ AllowSwitching(t) = AllowSwitching(s)
         /\ \A on \in BOOLEAN : RelayAllowed(t, on) <=> RelayAllowed(s, on)
         /\ \A v \in Levels : DimmerAllowed(t, v) <=> DimmerAllowed(s, v)
BY DEF SameConf, AllowSwitching, RelayAllowed, DimmerAllowed, IsRelayStateChangeAllowed,
       IsDimmerStateChangeAllowed, IsSafeToTurnRelayOn, IsSafeToTurnRelayOff, IsSafeToDim,
       HasDimmerError, IsSwitchOverLoaded

LEMMA TurnOffFact ==
  ASSUME NEW s \in SwitchRecord
  PROVE  Resolved(s, 0, TurnOff(s))
<1> DEFINE t == SetDimmer(s, 0)
           u == SetRelay(t, FALSE)
           w == IF u.ret = "SUCCESS" THEN Return(u, t.ret) ELSE u
<1>1. DimmerOutcome(s, 0, t) /\ Keeps(s, t)
  BY SetDimmerFact, SetDimmerKeeps, SwitchAssumption
<1>2. RelayOutcome(t, FALSE, u) /\ Keeps(t, u)
  BY <1>1, SetRelayFact, SetRelayKeeps DEF DimmerOutcome
<1>3. TurnOff(s) = w
  BY DEF TurnOff
<1> HIDE DEF t, u
<1>4. /\ u \in SwitchRecord /\ t.ret \in RetCode /\ t \in SwitchRecord
      /\ Rest(s, u) /\ Keeps(s, u)
  BY <1>1, <1>2, RestTwice, KeepsTwice DEF RelayOutcome, DimmerOutcome, SwitchRecord
<1>5. /\ w \in SwitchRecord /\ Rest(u, w) /\ SameRelay(u, w) /\ SameDimmer(u, w)
      /\ w.stored = u.stored /\ Keeps(u, w)
      /\ w.ret = "SUCCESS" => u.ret = "SUCCESS" /\ t.ret = "SUCCESS"
  <2>1. CASE u.ret = "SUCCESS"
    BY <1>4, <2>1, ReturnFact, ReturnKeeps
  <2>2. CASE u.ret # "SUCCESS"
    BY <1>4, <2>2, AsideKeeps DEF Rest, SameRelay, SameDimmer, SameConf
  <2> QED
    BY <2>1, <2>2
<1> HIDE DEF w
<1>6. Keeps(s, w) /\ Rest(s, w)
  BY <1>4, <1>5, RestTwice, KeepsTwice
<1>7. ASSUME Sound(s), w.ret = "SUCCESS" PROVE OutputOf(w) = 0
  BY <1>1, <1>2, <1>5, <1>7
  DEF Sound, OutputOf, RelayOutcome, DimmerOutcome, SameRelay, SameDimmer
<1>8. ASSUME Sound(s), NoDimmingBehindRelay(s)
      PROVE  /\ NoDimmingBehindRelay(w)
             /\ ~ s.allowDimming /\ (s.dimmer = 0 \/ AllowSwitching(s)) => w.dimmer = 0
  BY <1>1, <1>2, <1>5, <1>8
  DEF Sound, NoDimmingBehindRelay, RelayOutcome, DimmerOutcome, SameRelay, SameDimmer,
      DimmerAllowed, IsDimmerStateChangeAllowed
<1>9. ASSUME Starting(s) PROVE Recorded(w)
  BY <1>1, <1>2, <1>5, <1>9, StartingAllowed
  DEF Starting, Recorded, RelayOutcome, DimmerOutcome, SameRelay, SameDimmer, Rest, AllowSwitching
<1>10. ASSUME Starting(s), s.mode # "factoryReset" PROVE OutputOf(w) = 0
  <2>1. RelayAllowed(t, FALSE) /\ AllowSwitching(t)
    BY <1>1, <1>10, StartingAllowed, SameConfAllows DEF Keeps
  <2> QED
    BY <1>1, <1>2, <1>5, <1>10, <2>1, StartingAllowed
    DEF Starting, OutputOf, RelayOutcome, DimmerOutcome, SameRelay, SameDimmer, FullyOn
<1> QED
  BY <1>3, <1>6, <1>7, <1>8, <1>9, <1>10 DEF Resolved

LEMMA TurnFullyOnFact ==
  ASSUME NEW s \in SwitchRecord
  PROVE  Resolved(s, FullyOn, TurnFullyOn(s))
<1> DEFINE t == SetDimmer(s, FullyOn)
           u == SetRelay(t, TRUE)
           d == SetDimmer(u, 0)
           w == Return(d, u.ret)
<1>1. DimmerOutcome(s, FullyOn, t) /\ Keeps(s, t)
  BY SetDimmerFact, SetDimmerKeeps, SwitchAssumption
<1>2. RelayOutcome(t, TRUE, u) /\ Keeps(t, u)
  BY <1>1, SetRelayFact, SetRelayKeeps DEF DimmerOutcome
<1>3. DimmerOutcome(u, 0, d) /\ Keeps(u, d)
  BY <1>2, SetDimmerFact, SetDimmerKeeps, SwitchAssumption DEF RelayOutcome
<1>4. TurnFullyOn(s) = IF s.relay /\ s.accurate THEN Return(s, "SUCCESS")
                       ELSE IF t.ret = "SUCCESS" THEN t ELSE w
  BY DEF TurnFullyOn
<1> HIDE DEF t, u, d
<1>5. /\ w \in SwitchRecord /\ w.ret = u.ret /\ w.stored = d.stored
      /\ Rest(d, w) /\ SameRelay(d, w) /\ SameDimmer(d, w) /\ Keeps(d, w)
  BY <1>2, <1>3, ReturnFact, ReturnKeeps DEF RelayOutcome, DimmerOutcome, SwitchRecord
<1> HIDE DEF w
<1>6. SameConf(s, t) /\ SameConf(s, u)
  BY <1>1, <1>2 DEF Keeps, SameConf
<1>7. CASE s.relay /\ s.accurate
  <2> DEFINE r == Return(s, "SUCCESS")
  <2>1. r \in SwitchRecord /\ Rest(s, r) /\ SameRelay(s, r) /\ SameDimmer(s, r) /\ Keeps(s, r)
    BY ReturnFact, ReturnKeeps DEF RetCode
  <2> HIDE DEF r
  <2> QED
    BY <1>4, <1>7, <2>1
    DEF Resolved, r, Sound, OutputOf, NoDimmingBehindRelay, SameRelay, SameDimmer, Starting
<1>8. CASE ~ (s.relay /\ s.accurate) /\ t.ret = "SUCCESS"
  <2>1. Keeps(s, t) /\ Rest(s, t) /\ OutputOf(t) = FullyOn
    BY <1>1, <1>8 DEF DimmerOutcome, OutputOf
  <2>2. NoDimmingBehindRelay(t) /\ s.allowDimming
    BY <1>1, <1>8 DEF DimmerOutcome, SameRelay, NoDimmingBehindRelay, FullyOn
  <2>3. Starting(s) => Recorded(t)
    BY <1>1, <1>8 DEF DimmerOutcome, Starting, FullyOn
  <2> QED
    BY <1>4, <1>8, <2>1, <2>2, <2>3 DEF Resolved, FullyOn
<1>9. CASE ~ (s.relay /\ s.accurate) /\ t.ret # "SUCCESS"
  <2>1. Keeps(s, w) /\ Rest(s, w)
    BY <1>1, <1>2, <1>3, <1>5, RestTwice, KeepsTwice DEF RelayOutcome, DimmerOutcome
  <2>2. ASSUME Sound(s), w.ret = "SUCCESS" PROVE OutputOf(w) = FullyOn
    BY <1>1, <1>2, <1>3, <1>5, <2>2
    DEF Sound, OutputOf, RelayOutcome, DimmerOutcome, SameRelay
  <2>3. ASSUME Sound(s), NoDimmingBehindRelay(s)
        PROVE  /\ NoDimmingBehindRelay(w)
               /\ ~ s.allowDimming /\ (s.dimmer = 0 \/ AllowSwitching(s)) => w.dimmer = 0
    <3>1. s.dimmer = 0 \/ DimmerAllowed(u, 0)
      BY <1>6, <2>3 DEF Sound, DimmerAllowed, IsDimmerStateChangeAllowed, SameConf
    <3> QED
      BY <1>1, <1>2, <1>3, <1>5, <1>6, <1>9, <2>3, <3>1, SameConfAllows
      DEF NoDimmingBehindRelay, RelayOutcome, DimmerOutcome, SameRelay, SameDimmer
  <2>4. ASSUME Starting(s)
        PROVE  Recorded(w) /\ (s.mode # "factoryReset" => OutputOf(w) # 0)
    <3>1. /\ AllowSwitching(t) /\ (s.mode # "factoryReset" => RelayAllowed(t, TRUE))
          /\ ~ t.accurate
      BY <1>1, <1>6, <2>4, StartingAllowed, SameConfAllows
      DEF Starting, DimmerOutcome, SameRelay
    <3>2. Recorded(w)
      BY <1>2, <1>3, <1>5, <3>1
      DEF Recorded, RelayOutcome, DimmerOutcome, SameRelay, SameDimmer
    <3>3. s.mode # "factoryReset" => w.relayPos
      BY <1>2, <1>3, <1>5, <3>1 DEF RelayOutcome, DimmerOutcome, SameRelay
    <3> QED
      BY <3>2, <3>3 DEF OutputOf, FullyOn
  <2> QED
    BY <1>4, <1>9, <2>1, <2>2, <2>3, <2>4 DEF Resolved, FullyOn
<1> QED
  BY <1>7, <1>8, <1>9

LEMMA DimToFact ==
  ASSUME NEW s \in SwitchRecord, NEW v \in Levels \ {0}
  PROVE  Resolved(s, v, DimTo(s, v))
<1> DEFINE t == SetDimmer(s, v)
           off == SetRelay(t, FALSE)
           back == SetDimmer(off, 0)
           on == SetRelay(t, TRUE)
           none == SetDimmer(on, 0)
           x == Return(back, off.ret)
           w == Return(none, t.ret)
<1>1. DimmerOutcome(s, v, t) /\ Keeps(s, t)
  BY SetDimmerFact, SetDimmerKeeps
<1>2. /\ RelayOutcome(t, FALSE, off) /\ Keeps(t, off)
      /\ RelayOutcome(t, TRUE, on) /\ Keeps(t, on)
  BY <1>1, SetRelayFact, SetRelayKeeps DEF DimmerOutcome
<1>3. /\ DimmerOutcome(off, 0, back) /\ Keeps(off, back)
      /\ DimmerOutcome(on, 0, none) /\ Keeps(on, none)
  BY <1>2, SetDimmerFact, SetDimmerKeeps, SwitchAssumption DEF RelayOutcome
<1>4. DimTo(s, v) = IF t.ret = "SUCCESS" THEN IF off.ret = "SUCCESS" THEN off ELSE x ELSE w
  BY DEF DimTo
<1> HIDE DEF t, off, back, on, none
<1>5. /\ x \in SwitchRecord /\ x.ret = off.ret /\ x.stored = back.stored
      /\ Rest(back, x) /\ SameRelay(back, x) /\ SameDimmer(back, x) /\ Keeps(back, x)
  BY <1>2, <1>3, ReturnFact, ReturnKeeps DEF RelayOutcome, DimmerOutcome, SwitchRecord
<1>6. /\ w \in SwitchRecord /\ w.ret = t.ret /\ w.stored = none.stored
      /\ Rest(none, w) /\ SameRelay(none, w) /\ SameDimmer(none, w) /\ Keeps(none, w)
  BY <1>1, <1>3, ReturnFact, ReturnKeeps DEF DimmerOutcome, SwitchRecord
<1> HIDE DEF x, w
<1>7. SameConf(s, t) /\ SameConf(s, on) /\ SameConf(s, off)
  BY <1>1, <1>2 DEF Keeps, SameConf
<1>8. Starting(s) => /\ AllowSwitching(t) /\ ~ t.accurate
                     /\ s.mode # "factoryReset" => RelayAllowed(t, TRUE) /\ RelayAllowed(t, FALSE)
  BY <1>1, <1>7, StartingAllowed, SameConfAllows DEF Starting, DimmerOutcome, SameRelay
<1>9. CASE t.ret = "SUCCESS" /\ off.ret = "SUCCESS"
  <2>1. Keeps(s, off) /\ Rest(s, off)
    BY <1>1, <1>2, RestTwice, KeepsTwice DEF RelayOutcome, DimmerOutcome
  <2>2. off.dimmer = v /\ ~ off.relay /\ s.allowDimming
    BY <1>1, <1>2, <1>9 DEF RelayOutcome, DimmerOutcome, SameDimmer
  <2>3. Sound(s) => ~ off.relayPos
    BY <1>1, <1>2, <1>9 DEF Sound, RelayOutcome, DimmerOutcome, SameRelay
  <2>4. Starting(s) => Recorded(off) /\ OutputOf(off) # 0
    BY <1>2, <1>8, <2>2 DEF RelayOutcome, OutputOf, FullyOn
  <2> QED
    BY <1>4, <1>9, <2>1, <2>2, <2>3, <2>4 DEF Resolved, NoDimmingBehindRelay, OutputOf
<1>10. CASE t.ret = "SUCCESS" /\ off.ret # "SUCCESS"
  <2>1. Keeps(s, x) /\ Rest(s, x)
    BY <1>1, <1>2, <1>3, <1>5, RestTwice, KeepsTwice DEF RelayOutcome, DimmerOutcome
  <2>2. s.allowDimming /\ x.ret # "SUCCESS"
    BY <1>1, <1>5, <1>10 DEF DimmerOutcome
  <2>3. ASSUME NoDimmingBehindRelay(s) PROVE NoDimmingBehindRelay(x)
    <3>1. s.dimmer = v \/ (AllowSwitching(off) /\ DimmerAllowed(off, 0))
      BY <1>1, <1>7, <1>10, SameConfAllows, LevelFact, SwitchAssumption
      DEF DimmerOutcome, DimmerAllowed
    <3> QED
      BY <1>1, <1>2, <1>3, <1>5, <1>10, <2>3, <3>1
      DEF NoDimmingBehindRelay, RelayOutcome, DimmerOutcome, SameRelay, SameDimmer
  <2>4. Starting(s) => Recorded(x) /\ s.mode = "factoryReset"
    BY <1>2, <1>3, <1>5, <1>8, <1>10
    DEF Recorded, RelayOutcome, DimmerOutcome, SameRelay, SameDimmer
  <2> QED
    BY <1>4, <1>10, <2>1, <2>2, <2>3, <2>4 DEF Resolved
<1>11. CASE t.ret # "SUCCESS"
  <2>1. Keeps(s, w) /\ Rest(s, w)
    BY <1>1, <1>2, <1>3, <1>6, RestTwice, KeepsTwice DEF RelayOutcome, DimmerOutcome
  <2>2. ASSUME Sound(s), NoDimmingBehindRelay(s)
        PROVE  /\ NoDimmingBehindRelay(w)
               /\ ~ s.allowDimming /\ (s.dimmer = 0 \/ AllowSwitching(s)) => w.dimmer = 0
    <3>1. s.dimmer = 0 \/ DimmerAllowed(on, 0)
      BY <1>7, <2>2 DEF Sound, DimmerAllowed, IsDimmerStateChangeAllowed, SameConf
    <3> QED
      BY <1>1, <1>2, <1>3, <1>6, <1>7, <1>11, <2>2, <3>1, SameConfAllows
      DEF NoDimmingBehindRelay, RelayOutcome, DimmerOutcome, SameRelay, SameDimmer
  <2>3. ASSUME Starting(s)
        PROVE  Recorded(w) /\ (s.mode # "factoryReset" => OutputOf(w) # 0)
    <3>1. /\ AllowSwitching(t) /\ (s.mode # "factoryReset" => RelayAllowed(t, TRUE))
          /\ ~ t.accurate
      BY <1>8, <2>3
    <3>2. Recorded(w)
      BY <1>2, <1>3, <1>6, <3>1
      DEF Recorded, RelayOutcome, DimmerOutcome, SameRelay, SameDimmer
    <3>3. s.mode # "factoryReset" => w.relayPos
      BY <1>2, <1>3, <1>6, <3>1 DEF RelayOutcome, DimmerOutcome, SameRelay
    <3> QED
      BY <3>2, <3>3 DEF OutputOf, FullyOn
  <2> QED
    BY <1>4, <1>6, <1>11, <2>1, <2>2, <2>3 DEF Resolved
<1> QED
  BY <1>9, <1>10, <1>11

LEMMA ResolveFact ==
  ASSUME NEW s \in SwitchRecord
  PROVE  Resolved(s, s.intended, ResolveIntendedState(s))
<1>1. s.intended \in Levels
  BY DEF SwitchRecord
<1> QED
  BY <1>1, TurnOffFact, TurnFullyOnFact, DimToFact DEF ResolveIntendedState, FullyOn

-----------------------------------------------------------------------------
(* What SwitchAggregator makes of the switch.                              *)

\* The dimmer is on only where dimming is allowed.
Dimming(s) ==
  /\ NoDimmingBehindRelay(s)
  /\ ~ s.allowDimming => s.dimmer = 0
  /\ ~ (s.locked /\ s.allowDimming)

\* What every operation keeps that does not bypass SwitchAggregator.
KeepsAll(s, t) ==
  /\ Keeps(s, t)
  /\ Sound(s) /\ Dimming(s) => Dimming(t)

\* The return code tells the truth.
Truthful(s) == s.ret = "SUCCESS" => OutputOf(s) = s.aggregated

LEMMA KeepsAllTwice ==
  ASSUME NEW s, NEW t, NEW u, KeepsAll(s, t), KeepsAll(t, u)
  PROVE  KeepsAll(s, u)
BY KeepsTwice DEF KeepsAll, Keeps

LEMMA AsideKeepsAll ==
  ASSUME NEW s \in SwitchRecord, NEW t \in SwitchRecord,
         SameConf(s, t), SameRelay(s, t), SameDimmer(s, t), t.stored = s.stored
  PROVE  KeepsAll(s, t) /\ OutputOf(t) = OutputOf(s)
BY AsideKeeps
DEF KeepsAll, Dimming, NoDimmingBehindRelay, SameConf, SameRelay, SameDimmer, OutputOf

LEMMA ReturnKeepsAll ==
  ASSUME NEW s \in SwitchRecord, NEW code \in RetCode
  PROVE  KeepsAll(s, Return(s, code))
BY ReturnFact, AsideKeepsAll, RestMeansConf

LEMMA ResolveKeepsAll ==
  ASSUME NEW s \in SwitchRecord
  PROVE  KeepsAll(s, ResolveIntendedState(s))
<1> DEFINE t == ResolveIntendedState(s)
<1>1. Resolved(s, s.intended, t)
  BY ResolveFact
<1> HIDE DEF t
<1> QED
  BY <1>1 DEF Resolved, KeepsAll, Dimming, Rest, t

\* The override is used by SwitchAggregator only.
LEMMA OverrideFact ==
  ASSUME NEW s \in SwitchRecord, NEW o \in OptLevel \cup {SmartOn}
  PROVE  LET t == [s EXCEPT !.override = o] IN
         KeepsAll(s, t) /\ OutputOf(t) = OutputOf(s) /\ t.ret = s.ret
           /\ t.aggregated = s.aggregated /\ t.override = o
<1> DEFINE t == [s EXCEPT !.override = o]
<1>1. /\ t \in SwitchRecord /\ SameConf(s, t) /\ SameRelay(s, t) /\ SameDimmer(s, t)
      /\ t.stored = s.stored /\ t.ret = s.ret /\ t.aggregated = s.aggregated /\ t.override = o
  BY DEF SwitchRecord, SameConf, SameRelay, SameDimmer
<1> HIDE DEF t
<1> QED
  BY <1>1, AsideKeepsAll DEF t

LEMMA IntensityFact ==
  ASSUME NEW s \in SwitchRecord PROVE Intensity(s) \in Levels
BY SwitchAssumption DEF Intensity, SwitchRecord

LEMMA ResolveOverrideFact ==
  ASSUME NEW s \in SwitchRecord, s.override # None
  PROVE  ResolveOverrideState(s) \in Levels
<1> DEFINE wants == {s.behaviour, s.twilight} \ {None, 0}
<1>1. wants \subseteq Levels
  BY DEF SwitchRecord, OptLevel
<1>2. ASSUME wants # {} PROVE \E v \in wants : \A w \in wants : v <= w
  BY <1>1, <1>2, LevelFact
<1>3. s.override # SmartOn => s.override \in Levels
  BY DEF SwitchRecord, OptLevel
<1> HIDE DEF wants
<1> QED
  BY <1>1, <1>2, <1>3, SwitchAssumption DEF ResolveOverrideState, wants

LEMMA SetIntensityFact ==
  ASSUME NEW s \in SwitchRecord, NEW v \in Levels
  PROVE  LET t == SetIntensity(s, v) IN
         /\ KeepsAll(s, t) /\ t.aggregated = s.aggregated
         /\ Sound(s) /\ t.ret = "SUCCESS" => OutputOf(t) = v
<1> DEFINE p == [s EXCEPT !.intended = v]
           t == ResolveIntendedState(p)
<1>1. /\ p \in SwitchRecord /\ SameConf(s, p) /\ SameRelay(s, p) /\ SameDimmer(s, p)
      /\ p.stored = s.stored /\ p.intended = v /\ p.aggregated = s.aggregated
  BY DEF SwitchRecord, SameConf, SameRelay, SameDimmer
<1> HIDE DEF p
<1>2. KeepsAll(s, p)
  BY <1>1, AsideKeepsAll
<1>3. KeepsAll(p, t) /\ Resolved(p, v, t)
  BY <1>1, ResolveFact, ResolveKeepsAll
<1>4. SetIntensity(s, v) = t
  BY DEF SetIntensity, p
<1> HIDE DEF t
<1> QED
  BY <1>1, <1>2, <1>3, <1>4, KeepsAllTwice DEF KeepsAll, Keeps, Resolved, Rest

LEMMA UpdateStateFact ==
  ASSUME NEW s \in SwitchRecord, NEW allow \in BOOLEAN
  PROVE  LET t == UpdateState(s, allow) IN
         KeepsAll(s, t) /\ (Sound(s) => Truthful(t))
<1> DEFINE reset == ShouldResetOverrideState(s, allow)
           agg   == IF s.override # None /\ ~ reset THEN ResolveOverrideState(s)
                    ELSE IF s.behaviour # None THEN AggregatedBehaviourIntensity(s)
                    ELSE s.aggregated
           p     == [s EXCEPT !.aggregated = agg]
           t     == SetIntensity(p, agg)
           o     == IF t.ret = "SUCCESS" THEN None ELSE Intensity(t)
<1>1. UpdateState(s, allow) =
        CASE agg = None            -> Return(s, "NO_CHANGE")
          [] agg # None /\ ~ reset -> t
          [] agg # None /\ reset   -> [t EXCEPT !.override = o]
  BY DEF UpdateState
<1>2. agg \in OptLevel
  <2>1. s.override # None => ResolveOverrideState(s) \in Levels
    BY ResolveOverrideFact
  <2>2. s.behaviour # None => AggregatedBehaviourIntensity(s) \in Levels
    BY DEF AggregatedBehaviourIntensity, Least, SwitchRecord, OptLevel
  <2>3. s.aggregated \in OptLevel
    BY DEF SwitchRecord
  <2> QED
    BY <2>1, <2>2, <2>3 DEF OptLevel
<1> HIDE DEF reset, agg
<1>3. CASE agg = None
  <2>1. UpdateState(s, allow) = Return(s, "NO_CHANGE")
    BY <1>1, <1>3
  <2> QED
    BY <2>1, ReturnFact, ReturnKeepsAll DEF RetCode, Truthful
<1>4. CASE agg # None
  <2>1. /\ p \in SwitchRecord /\ SameConf(s, p) /\ SameRelay(s, p) /\ SameDimmer(s, p)
        /\ p.stored = s.stored /\ p.aggregated = agg
    BY <1>2 DEF SwitchRecord, SameConf, SameRelay, SameDimmer
  <2>2. KeepsAll(s, p)
    BY <2>1, AsideKeepsAll
  <2> HIDE DEF p
  <2>3. /\ KeepsAll(p, t) /\ t.aggregated = agg
        /\ Sound(p) /\ t.ret = "SUCCESS" => OutputOf(t) = agg
    BY <1>2, <1>4, <2>1, SetIntensityFact DEF OptLevel
  <2> HIDE DEF t
  <2>4. KeepsAll(s, t) /\ (Sound(s) => Truthful(t))
    BY <2>2, <2>3, KeepsAllTwice DEF KeepsAll, Keeps, Truthful
  <2>5. CASE ~ reset
    BY <1>1, <1>4, <2>4, <2>5
  <2>6. CASE reset
    <3>1. t \in SwitchRecord /\ o \in OptLevel \cup {SmartOn}
      BY <2>4, IntensityFact DEF KeepsAll, Keeps, OptLevel
    <3> HIDE DEF o
    <3> DEFINE u == [t EXCEPT !.override = o]
    <3>2. KeepsAll(t, u) /\ OutputOf(u) = OutputOf(t) /\ u.ret = t.ret /\ u.aggregated = t.aggregated
      BY <3>1, OverrideFact
    <3>3. UpdateState(s, allow) = u
      BY <1>1, <1>4, <2>6
    <3> HIDE DEF u
    <3> QED
      BY <2>4, <3>2, <3>3, KeepsAllTwice DEF Truthful
  <2> QED
    BY <2>5, <2>6
<1> QED
  BY <1>3, <1>4

\* What the behaviours want, as TypeOK has it.
WantedTyped == behaviourNow \in Behaviours /\ twilightNow \in Twilights

LEMMA UpdateBehaviourHandlersFact ==
  ASSUME NEW s \in SwitchRecord, WantedTyped
  PROVE  KeepsAll(s, UpdateBehaviourHandlers(s))
<1> DEFINE t == UpdateBehaviourHandlers(s)
<1>1. /\ t \in SwitchRecord /\ SameConf(s, t) /\ SameRelay(s, t) /\ SameDimmer(s, t)
      /\ t.stored = s.stored
  BY AggregatorAssumption
  DEF UpdateBehaviourHandlers, WantedTyped, OptLevel, SwitchRecord, SameConf, SameRelay, SameDimmer
<1> HIDE DEF t
<1> QED
  BY <1>1, AsideKeepsAll DEF t

LEMMA UpdateFact ==
  ASSUME NEW s \in SwitchRecord, NEW allow \in BOOLEAN, WantedTyped
  PROVE  LET t == UpdateState(UpdateBehaviourHandlers(s), allow) IN
         KeepsAll(s, t) /\ (Sound(s) => Truthful(t))
<1> DEFINE u == UpdateBehaviourHandlers(s)
<1>1. KeepsAll(s, u) /\ u \in SwitchRecord
  BY UpdateBehaviourHandlersFact DEF KeepsAll, Keeps
<1> HIDE DEF u
<1>2. LET t == UpdateState(u, allow) IN KeepsAll(u, t) /\ (Sound(u) => Truthful(t))
  BY <1>1, UpdateStateFact
<1> QED
  BY <1>1, <1>2, KeepsAllTwice DEF KeepsAll, Keeps, u

LEMMA IntendFact ==
  ASSUME NEW s \in SwitchRecord, NEW value
  PROVE  LET t == Intend(s, value) IN
         KeepsAll(s, t) /\ (Sound(s) => Truthful(t))
<1> DEFINE p == CASE value = ToBehaviour -> [s EXCEPT !.override = None]
                  [] value \in Levels \cup {SmartOn} -> [s EXCEPT !.override = value]
                  [] OTHER -> s
           t == UpdateState(p, FALSE)
           u == [t EXCEPT !.override = Intensity(t)]
<1>1. KeepsAll(s, p) /\ p \in SwitchRecord
  <2>1. KeepsAll(s, s)
    BY DEF KeepsAll, Keeps, SameConf
  <2>2. KeepsAll(s, [s EXCEPT !.override = None])
    BY OverrideFact DEF OptLevel
  <2>3. value \in Levels \cup {SmartOn} => KeepsAll(s, [s EXCEPT !.override = value])
    BY OverrideFact DEF OptLevel
  <2> QED
    BY <2>1, <2>2, <2>3 DEF KeepsAll, Keeps
<1> HIDE DEF p
<1>2. KeepsAll(p, t) /\ (Sound(p) => Truthful(t))
  BY <1>1, UpdateStateFact
<1>3. Intend(s, value) = t \/ Intend(s, value) = u
  BY DEF Intend, CopyCurrentIntensity, p
<1> HIDE DEF t
<1>4. KeepsAll(t, u) /\ OutputOf(u) = OutputOf(t) /\ u.ret = t.ret /\ u.aggregated = t.aggregated
  BY <1>2, OverrideFact, IntensityFact DEF KeepsAll, Keeps, OptLevel
<1> HIDE DEF u
<1> QED
  BY <1>1, <1>2, <1>3, <1>4, KeepsAllTwice DEF KeepsAll, Keeps, Truthful

LEMMA SwitchcraftFact ==
  ASSUME NEW s \in SwitchRecord
  PROVE  LET t == SwitchcraftToggle(s) IN
         KeepsAll(s, t) /\ (Sound(s) => Truthful(t))
<1> DEFINE lastOn == IF s.intended > 0 THEN s.intended ELSE s.lastOnValue
           doubleTap == s.doubleTapCountDown # 0
           count == IF doubleTap THEN 0 ELSE DoubleTapTicks
           t == [s EXCEPT !.lastOnValue = lastOn, !.doubleTapCountDown = count]
<1>1. lastOn \in Levels /\ count \in 0..DoubleTapTicks
  BY AggregatorAssumption DEF SwitchRecord
<1>2. PICK value : SwitchcraftToggle(s) = Intend(t, value)
  BY DEF SwitchcraftToggle
<1> HIDE DEF lastOn, count
<1>3. /\ t \in SwitchRecord /\ SameConf(s, t) /\ SameRelay(s, t) /\ SameDimmer(s, t)
      /\ t.stored = s.stored
  BY <1>1 DEF SwitchRecord, SameConf, SameRelay, SameDimmer
<1> HIDE DEF t
<1>4. KeepsAll(s, t)
  BY <1>3, AsideKeepsAll
<1> QED
  BY <1>2, <1>3, <1>4, IntendFact, KeepsAllTwice DEF KeepsAll, Keeps

-----------------------------------------------------------------------------
(* Lock, permission to dim, and direct commands.                           *)

LEMMA UnexpectedIntensityFact ==
  ASSUME NEW s \in SwitchRecord
  PROVE  KeepsAll(s, SendUnexpectedIntensityUpdate(s))
<1>1. KeepsAll(s, s)
  BY DEF KeepsAll, Keeps, SameConf
<1>2. KeepsAll(s, [s EXCEPT !.override = Intensity(s)])
  BY OverrideFact, IntensityFact DEF OptLevel
<1> QED
  BY <1>1, <1>2 DEF SendUnexpectedIntensityUpdate, HandleSwitchStateChange

\* What may change the permission to dim or the lock keeps the rest.
Guards(s, t) ==
  /\ t \in SwitchRecord /\ t.mode = s.mode /\ t.errors = s.errors
  /\ t.starting = s.starting
  /\ Recorded(s) => Recorded(t)
  /\ Sound(s) => Sound(t)
  /\ Sound(s) /\ Protects(s) => Protects(t)
  /\ Sound(s) /\ Off(s) => Off(t)

LEMMA KeepsGuards ==
  ASSUME NEW s, NEW t, NEW u, Guards(s, t), Keeps(t, u)
  PROVE  Guards(s, u)
BY DEF Guards, Keeps, SameConf

LEMMA AllowDimmingSetFact ==
  ASSUME NEW s \in SwitchRecord, NEW allowed \in BOOLEAN
  PROVE  LET t == HandleAllowDimmingSet(s, allowed) IN
         /\ Guards(s, t) /\ t.allowDimming = allowed /\ t.locked = s.locked
         /\ /\ Sound(s) /\ NoDimmingBehindRelay(s)
            /\ s.dimmer = 0 \/ s.starting \/ ~ s.locked
            /\ s.locked => ~ allowed
            => Dimming(t)
         /\ Sound(s) /\ ~ AllowSwitching(s) => t.relayPos = s.relayPos /\ t.dimmer = s.dimmer
<1> DEFINE p == [s EXCEPT !.allowDimming = allowed]
           t == ResolveIntendedState(p)
           u == SendUnexpectedIntensityUpdate(t)
<1>1. /\ p \in SwitchRecord /\ SameRelay(s, p) /\ SameDimmer(s, p) /\ p.stored = s.stored
      /\ p.allowDimming = allowed /\ p.locked = s.locked /\ p.mode = s.mode
      /\ p.errors = s.errors /\ p.starting = s.starting
      /\ p.allowStateChanges = s.allowStateChanges /\ p.powerUpCountDown = s.powerUpCountDown
  BY DEF SwitchRecord, SameRelay, SameDimmer
<1>2. HandleAllowDimmingSet(s, allowed) = u
  BY DEF HandleAllowDimmingSet
<1> HIDE DEF p
<1>3. Guards(s, p)
  BY <1>1
  DEF Guards, Sound, Protects, Off, Recorded, PoweredUp, SameRelay, SameDimmer, HasDimmerError, IsSwitchOverLoaded
<1>4. Resolved(p, p.intended, t) /\ KeepsAll(p, t)
  BY <1>1, ResolveFact, ResolveKeepsAll
<1>5. KeepsAll(t, u)
  BY <1>4, UnexpectedIntensityFact DEF KeepsAll, Keeps
<1> HIDE DEF t, u
<1>6. Keeps(p, u) /\ Guards(s, u)
  BY <1>3, <1>4, <1>5, KeepsTwice, KeepsGuards DEF KeepsAll
<1>7. u.allowDimming = allowed /\ u.locked = s.locked
  BY <1>1, <1>6 DEF Keeps, SameConf
<1>8. ASSUME Sound(s), NoDimmingBehindRelay(s), s.dimmer = 0 \/ s.starting \/ ~ s.locked,
             s.locked => ~ allowed
      PROVE  Dimming(u)
  <2>1. Sound(p) /\ NoDimmingBehindRelay(p) /\ (p.dimmer = 0 \/ AllowSwitching(p))
    BY <1>1, <1>3, <1>8 DEF Guards, NoDimmingBehindRelay, SameRelay, SameDimmer, AllowSwitching
  <2>2. Dimming(t) /\ Sound(t)
    BY <1>1, <1>4, <1>8, <2>1 DEF Resolved, Dimming, KeepsAll, Keeps, SameConf
  <2> QED
    BY <1>5, <2>2 DEF KeepsAll
<1>9. ASSUME Sound(s), ~ AllowSwitching(s) PROVE u.relayPos = s.relayPos /\ u.dimmer = s.dimmer
  BY <1>1, <1>3, <1>6, <1>9 DEF Guards, Keeps, AllowSwitching, SameRelay, SameDimmer
<1> QED
  BY <1>2, <1>6, <1>7, <1>8, <1>9

LEMMA SetAllowDimmingFact ==
  ASSUME NEW s \in SwitchRecord, NEW allowed \in BOOLEAN
  PROVE  LET t == SetAllowDimming(s, allowed) IN
         /\ Guards(s, t)
         /\ Sound(s) /\ Dimming(s) => Dimming(t)
         /\ Sound(s) /\ ~ AllowSwitching(s) /\ t.locked =>
              t.relayPos = s.relayPos /\ t.dimmer = s.dimmer
<1> DEFINE p == [s EXCEPT !.allowDimming = allowed, !.locked = s.locked /\ ~ allowed]
           t == HandleAllowDimmingSet(p, allowed)
           u == Return(t, "SUCCESS")
<1>1. /\ p \in SwitchRecord /\ SameRelay(s, p) /\ SameDimmer(s, p) /\ p.stored = s.stored
      /\ p.allowDimming = allowed /\ p.locked = (s.locked /\ ~ allowed) /\ p.mode = s.mode
      /\ p.errors = s.errors /\ p.starting = s.starting
      /\ p.allowStateChanges = s.allowStateChanges /\ p.powerUpCountDown = s.powerUpCountDown
  BY DEF SwitchRecord, SameRelay, SameDimmer
<1>2. SetAllowDimming(s, allowed) = u
  BY DEF SetAllowDimming
<1> HIDE DEF p
<1>3. Guards(s, p)
  BY <1>1
  DEF Guards, Sound, Protects, Off, Recorded, PoweredUp, SameRelay, SameDimmer, HasDimmerError, IsSwitchOverLoaded
<1>4. /\ Guards(p, t) /\ t.allowDimming = allowed /\ t.locked = p.locked
      /\ /\ Sound(p) /\ NoDimmingBehindRelay(p)
         /\ p.dimmer = 0 \/ p.starting \/ ~ p.locked
         /\ p.locked => ~ allowed
         => Dimming(t)
      /\ Sound(p) /\ ~ AllowSwitching(p) => t.relayPos = p.relayPos /\ t.dimmer = p.dimmer
  BY <1>1, AllowDimmingSetFact
<1> HIDE DEF t
<1>5. KeepsAll(t, u) /\ u.locked = t.locked /\ u.dimmer = t.dimmer /\ u.relayPos = t.relayPos
  BY <1>4, ReturnKeepsAll, ReturnFact DEF Guards, RetCode, Rest, SameDimmer, SameRelay
<1> HIDE DEF u
<1>6. Guards(s, u)
  BY <1>3, <1>4, <1>5 DEF Guards, KeepsAll, Keeps, SameConf
<1>7. ASSUME Sound(s), Dimming(s) PROVE Dimming(u)
  <2>1. Sound(p) /\ NoDimmingBehindRelay(p) /\ (p.locked => ~ allowed)
    BY <1>1, <1>3, <1>7 DEF Guards, Dimming, NoDimmingBehindRelay, SameRelay, SameDimmer
  <2>2. p.dimmer = 0 \/ ~ p.locked
    BY <1>1, <1>7 DEF Dimming, SameDimmer
  <2> QED
    BY <1>4, <1>5, <2>1, <2>2 DEF KeepsAll, Guards
<1>8. ASSUME Sound(s), ~ AllowSwitching(s), u.locked
      PROVE  u.relayPos = s.relayPos /\ u.dimmer = s.dimmer
  BY <1>1, <1>3, <1>4, <1>5, <1>8 DEF Guards, AllowSwitching, SameRelay, SameDimmer
<1> QED
  BY <1>2, <1>6, <1>7, <1>8

LEMMA SetSwitchLockFact ==
  ASSUME NEW s \in SwitchRecord, NEW lock \in BOOLEAN
  PROVE  LET t == SetSwitchLock(s, lock) IN
         /\ Guards(s, t) /\ (Dimming(s) => Dimming(t))
         /\ t.relayPos = s.relayPos /\ t.dimmer = s.dimmer
<1> DEFINE p == [s EXCEPT !.locked = lock, !.ret = "SUCCESS"]
<1>1. CASE lock /\ s.allowDimming
  BY <1>1, ReturnKeepsAll, ReturnFact
  DEF SetSwitchLock, RetCode, KeepsAll, Keeps, Guards, SameConf, Dimming, Rest, SameRelay,
      SameDimmer, NoDimmingBehindRelay
<1>2. CASE ~ (lock /\ s.allowDimming)
  <2>1. /\ p \in SwitchRecord /\ SameRelay(s, p) /\ SameDimmer(s, p) /\ p.stored = s.stored
        /\ p.allowDimming = s.allowDimming /\ p.locked = lock /\ p.mode = s.mode
        /\ p.errors = s.errors /\ p.starting = s.starting
        /\ p.allowStateChanges = s.allowStateChanges /\ p.powerUpCountDown = s.powerUpCountDown
    BY DEF SwitchRecord, RetCode, SameRelay, SameDimmer
  <2>2. SetSwitchLock(s, lock) = p
    BY <1>2 DEF SetSwitchLock
  <2> HIDE DEF p
  <2> QED
    BY <1>2, <2>1, <2>2
    DEF Guards, Sound, Protects, Off, Recorded, PoweredUp, SameRelay, SameDimmer, Dimming,
        NoDimmingBehindRelay, HasDimmerError, IsSwitchOverLoaded
<1> QED
  BY <1>1, <1>2

-----------------------------------------------------------------------------
(* The timers and the power check.                                         *)

LEMMA UnexpectedStateFact ==
  ASSUME NEW s \in SwitchRecord
  PROVE  LET t == SendUnexpectedStateUpdate(s) IN
         /\ t \in SwitchRecord /\ Recorded(t) /\ t.ret = s.ret
         /\ SameConf(s, t) /\ SameRelay(s, t) /\ SameDimmer(s, t)
<1> DEFINE p == Store(s)
           t == [p EXCEPT !.override = Intensity(p)]
<1>1. /\ p \in SwitchRecord /\ Recorded(p) /\ p.ret = s.ret
      /\ SameConf(s, p) /\ SameRelay(s, p) /\ SameDimmer(s, p)
  BY StoreFact, RestMeansConf
<1>2. SendUnexpectedStateUpdate(s) = t
  BY DEF SendUnexpectedStateUpdate, HandleSwitchStateChange
<1> HIDE DEF p
<1>3. Intensity(p) \in OptLevel
  BY <1>1, IntensityFact DEF OptLevel
<1> QED
  BY <1>1, <1>2, <1>3 DEF SwitchRecord, Recorded, SameConf, SameRelay, SameDimmer

\* What the timers keep: all but the counters.
Ticks(s, t) ==
  /\ Guards(s, t)
  /\ Sound(s) /\ Dimming(s) => Dimming(t)
  /\ t.locked = s.locked /\ t.allowDimming = s.allowDimming
  /\ s.dimmer = 0 => t.relayPos = s.relayPos /\ t.dimmer = s.dimmer

LEMMA CheckDimmerPowerFact ==
  ASSUME NEW s \in SwitchRecord, NEW lowPower \in BOOLEAN, s.powerUpCountDown # 0
  PROVE  Ticks(s, CheckDimmerPower(s, lowPower))
<1> DEFINE p == [s EXCEPT !.powered = FALSE]
           c == [s EXCEPT !.checked = TRUE]
           d == [s EXCEPT !.checked = TRUE, !.powered = FALSE]
           r == SetRelayUnchecked(d, TRUE)
           o == SetDimmerUnchecked(r, 0)
           t == SendUnexpectedStateUpdate(o)
<1>1. \A q \in {p, c, d} :
        /\ q \in SwitchRecord /\ SameRelay(s, q) /\ SameConf(s, q)
        /\ q.dimmer = s.dimmer /\ q.stored = s.stored
  <2>1. /\ p \in SwitchRecord /\ SameRelay(s, p) /\ SameConf(s, p)
        /\ p.dimmer = s.dimmer /\ p.stored = s.stored
    BY DEF SwitchRecord, SameRelay, SameConf
  <2>2. /\ c \in SwitchRecord /\ SameRelay(s, c) /\ SameConf(s, c)
        /\ c.dimmer = s.dimmer /\ c.stored = s.stored
    BY DEF SwitchRecord, SameRelay, SameConf
  <2>3. /\ d \in SwitchRecord /\ SameRelay(s, d) /\ SameConf(s, d)
        /\ d.dimmer = s.dimmer /\ d.stored = s.stored
    BY DEF SwitchRecord, SameRelay, SameConf
  <2> HIDE DEF p, c, d
  <2> QED
    BY <2>1, <2>2, <2>3
<1>2. CheckDimmerPower(s, lowPower) = IF s.dimmer = 0 \/ s.relay THEN p
                                      ELSE IF lowPower THEN t ELSE c
  BY DEF CheckDimmerPower
<1> HIDE DEF p, c, d
<1>3. \A q \in {p, c} : Ticks(s, q)
  BY <1>1
  DEF Ticks, Guards, Sound, Protects, Off, Recorded, PoweredUp, SameRelay, SameConf, Dimming,
      NoDimmingBehindRelay, HasDimmerError, IsSwitchOverLoaded
<1>4. CASE s.dimmer # 0 /\ ~ s.relay /\ lowPower
  <2>1. /\ r \in SwitchRecord /\ Rest(d, r) /\ r.relay /\ r.relayPos /\ r.accurate
    BY <1>1, <1>4, SetRelayUncheckedFact DEF SameRelay
  <2> HIDE DEF r
  <2>2. /\ o \in SwitchRecord /\ Rest(r, o) /\ SameRelay(r, o) /\ o.dimmer = 0
    BY <2>1, SetDimmerUncheckedFact, SwitchAssumption
  <2> HIDE DEF o
  <2>3. /\ t \in SwitchRecord /\ Recorded(t)
        /\ SameConf(o, t) /\ SameRelay(o, t) /\ SameDimmer(o, t)
    BY <2>2, UnexpectedStateFact
  <2> HIDE DEF t
  <2>4. SameConf(s, t) /\ t.relay /\ t.relayPos /\ t.accurate /\ t.dimmer = 0
    BY <1>1, <2>1, <2>2, <2>3 DEF SameConf, SameRelay, SameDimmer, Rest
  <2>5. Ticks(s, t)
    BY <1>4, <2>3, <2>4
    DEF Ticks, Guards, Sound, Protects, Off, PoweredUp, SameConf, Dimming,
        NoDimmingBehindRelay, HasDimmerError, IsSwitchOverLoaded
  <2> QED
    BY <1>2, <1>4, <2>5
<1> QED
  BY <1>2, <1>3, <1>4

LEMMA CountDownFact ==
  ASSUME NEW max \in Nat, NEW n \in 0..max
  PROVE  CountDown(n) \in 0..max /\ (CountDown(n) = 0 <=> n \in {0, 1})
BY DEF CountDown

LEMMA TickFact ==
  ASSUME NEW s \in SwitchRecord, NEW lowPower \in BOOLEAN, Sound(s)
  PROVE  Ticks(s, SafeSwitchTick(s, lowPower))
<1> DEFINE n == CountDown(s.powerUpCountDown)
           t == [s EXCEPT !.powerUpCountDown = n]
           p == [t EXCEPT !.checkCountDown = 0, !.powered = TRUE]
           u == IF s.powerUpCountDown = 1 THEN p ELSE t
           m == CountDown(u.checkCountDown)
           v == [u EXCEPT !.checkCountDown = m]
<1>3. SafeSwitchTick(s, lowPower) = IF u.checkCountDown = 1 THEN CheckDimmerPower(v, lowPower) ELSE v
  BY DEF SafeSwitchTick, DimmerPoweredUp
<1>1. n \in 0..PowerUpTicks /\ (n = 0 <=> s.powerUpCountDown \in {0, 1})
  <2>1. s.powerUpCountDown \in 0..PowerUpTicks
    BY DEF SwitchRecord
  <2> QED
    BY <2>1, CountDownFact, SwitchAssumption
<1> HIDE DEF n
<1>2. /\ u \in SwitchRecord /\ SameRelay(s, u)
      /\ u.powerUpCountDown = n /\ u.allowStateChanges = s.allowStateChanges
      /\ u.mode = s.mode /\ u.errors = s.errors /\ u.allowDimming = s.allowDimming
      /\ u.locked = s.locked /\ u.starting = s.starting
      /\ u.dimmer = s.dimmer /\ u.stored = s.stored
      /\ PoweredUp(u)
  <2>1. /\ t \in SwitchRecord /\ SameRelay(s, t) /\ SameDimmer(s, t)
        /\ t.powerUpCountDown = n /\ t.allowStateChanges = s.allowStateChanges
        /\ t.mode = s.mode /\ t.errors = s.errors /\ t.allowDimming = s.allowDimming
        /\ t.locked = s.locked /\ t.starting = s.starting /\ t.stored = s.stored
    BY <1>1 DEF SwitchRecord, SameRelay, SameDimmer
  <2> HIDE DEF t
  <2>2. CASE s.powerUpCountDown = 1
    <3>1. 0 \in 0..CheckTicks
      BY SwitchAssumption
    <3>2. /\ p \in SwitchRecord /\ SameConf(t, p) /\ SameRelay(t, p)
          /\ p.dimmer = t.dimmer /\ p.stored = t.stored
      BY <2>1, <3>1 DEF SwitchRecord, SameConf, SameRelay
    <3>3. PoweredUp(p)
      BY <2>1 DEF SwitchRecord, PoweredUp
    <3>4. u = p
      BY <2>2
    <3> HIDE DEF p, u
    <3> QED
      BY <2>1, <3>2, <3>3, <3>4 DEF SameConf, SameRelay, SameDimmer
  <2>3. CASE s.powerUpCountDown # 1
    BY <1>1, <2>1, <2>3 DEF SameRelay, SameDimmer, PoweredUp, Sound
  <2> QED
    BY <2>2, <2>3
<1> HIDE DEF u
<1>4. m \in 0..CheckTicks /\ (u.checkCountDown = 0 => m = 0)
  <2>1. u.checkCountDown \in 0..CheckTicks
    BY <1>2 DEF SwitchRecord
  <2> QED
    BY <2>1, CountDownFact, SwitchAssumption
<1> HIDE DEF m
<1>5. /\ v \in SwitchRecord /\ SameConf(u, v) /\ SameRelay(u, v) /\ PoweredUp(v)
      /\ v.dimmer = u.dimmer /\ v.stored = u.stored
  BY <1>2, <1>4 DEF SwitchRecord, SameConf, SameRelay, PoweredUp
<1> HIDE DEF v
<1>6. Ticks(s, v)
  BY <1>2, <1>5
  DEF Ticks, Guards, Sound, Protects, Off, Recorded, SameRelay, SameConf, Dimming,
      NoDimmingBehindRelay, HasDimmerError, IsSwitchOverLoaded
<1>7. CASE u.checkCountDown = 1
  <2> DEFINE w == CheckDimmerPower(v, lowPower)
  <2>1. v.powerUpCountDown # 0
    BY <1>2, <1>5, <1>7 DEF PoweredUp, SameConf
  <2>2. Ticks(v, w)
    BY <1>5, <2>1, CheckDimmerPowerFact
  <2> HIDE DEF w
  <2>3. Ticks(s, w)
    BY <1>6, <2>2 DEF Ticks, Guards
  <2> QED
    BY <1>3, <1>7, <2>3 DEF w
<1> QED
  BY <1>3, <1>6, <1>7

-----------------------------------------------------------------------------
(* Forceful changes.                                                       *)

LEMMA ForceSwitchOffFact ==
  ASSUME NEW s \in SwitchRecord
  PROVE  LET t == ForceSwitchOff(s) IN
         /\ t \in SwitchRecord /\ SameConf(s, t) /\ Off(t)
         /\ Sound(s) => Sound(t)
         /\ Protects(s) => Protects(t)
         /\ Protects(s) /\ s.mode # "factoryReset" /\ Recorded(s) => Recorded(t)
         /\ Dimming(s) => Dimming(t)
<1> DEFINE d == [s EXCEPT !.dimmer = 0]
           r == [s EXCEPT !.dimmer = 0, !.relay = FALSE, !.relayPos = FALSE]
           t == SendUnexpectedStateUpdate(r)
<1>1. /\ d \in SwitchRecord /\ SameConf(s, d) /\ SameRelay(s, d) /\ d.dimmer = 0
      /\ d.powered = s.powered /\ d.checkCountDown = s.checkCountDown /\ d.stored = s.stored
  BY SwitchAssumption DEF SwitchRecord, SameConf, SameRelay
<1>2. /\ r \in SwitchRecord /\ SameConf(s, r) /\ r.dimmer = 0 /\ ~ r.relay /\ ~ r.relayPos
      /\ r.powered = s.powered /\ r.checkCountDown = s.checkCountDown
  BY SwitchAssumption DEF SwitchRecord, SameConf
<1>3. ForceSwitchOff(s) = IF HasDimmerError(s) THEN d ELSE t
  BY DEF ForceSwitchOff, IsSafeToTurnRelayOff, HasDimmerError
<1> HIDE DEF d, r
<1>4. CASE HasDimmerError(s)
  BY <1>1, <1>3, <1>4
  DEF Off, Sound, Protects, PoweredUp, Recorded, Dimming, NoDimmingBehindRelay, SameConf,
      SameRelay, HasDimmerError
<1>5. CASE ~ HasDimmerError(s)
  <2>1. /\ t \in SwitchRecord /\ Recorded(t)
        /\ SameConf(r, t) /\ SameRelay(r, t) /\ SameDimmer(r, t)
    BY <1>2, UnexpectedStateFact
  <2> HIDE DEF t
  <2>2. /\ SameConf(s, t) /\ t.dimmer = 0 /\ ~ t.relay /\ ~ t.relayPos
        /\ t.powered = s.powered /\ t.checkCountDown = s.checkCountDown
    BY <1>2, <2>1 DEF SameConf, SameRelay, SameDimmer
  <2>3. Off(t) /\ (Sound(s) => Sound(t)) /\ Protects(t) /\ (Dimming(s) => Dimming(t))
    BY <1>5, <2>1, <2>2
    DEF Off, Sound, Protects, PoweredUp, Dimming, NoDimmingBehindRelay, SameConf,
        HasDimmerError, SwitchRecord
  <2> QED
    BY <1>3, <1>5, <2>1, <2>2, <2>3
<1> QED
  BY <1>4, <1>5

LEMMA ForceRelayOnFact ==
  ASSUME NEW s \in SwitchRecord, PoweredUp(s)
  PROVE  LET t == ForceRelayOnAndDimmerOff(s) IN
         /\ t \in SwitchRecord /\ t.mode = s.mode /\ t.errors = s.errors
         /\ t.starting = s.starting
         /\ Recorded(t) /\ Sound(t) /\ Protects(t) /\ Dimming(t)
         /\ HasDimmerError(s) => Off(t)
<1> DEFINE r == [s EXCEPT !.relay = TRUE, !.relayPos = TRUE, !.dimmer = 0]
           p == SendUnexpectedStateUpdate(r)
           t == HandleAllowDimmingSet(p, FALSE)
<1>1. /\ r \in SwitchRecord /\ SameConf(s, r) /\ r.dimmer = 0 /\ r.relay /\ r.relayPos
      /\ r.powered = s.powered /\ r.checkCountDown = s.checkCountDown
  BY SwitchAssumption DEF SwitchRecord, SameConf
<1>2. ForceRelayOnAndDimmerOff(s) = t
  BY DEF ForceRelayOnAndDimmerOff, RelayOnAndDimmerOff
<1> HIDE DEF r
<1>3. /\ p \in SwitchRecord /\ Recorded(p)
      /\ SameConf(r, p) /\ SameRelay(r, p) /\ SameDimmer(r, p)
  BY <1>1, UnexpectedStateFact
<1> HIDE DEF p
<1>4. /\ SameConf(s, p) /\ p.dimmer = 0 /\ p.relay /\ p.relayPos
      /\ p.powered = s.powered /\ p.checkCountDown = s.checkCountDown
  BY <1>1, <1>3 DEF SameConf, SameRelay, SameDimmer
<1>5. Sound(p) /\ Protects(p) /\ NoDimmingBehindRelay(p) /\ (HasDimmerError(s) => Off(p))
  BY <1>3, <1>4
  DEF Sound, Protects, Off, PoweredUp, NoDimmingBehindRelay, SameConf, HasDimmerError, SwitchRecord
<1>6. /\ Guards(p, t) /\ t.allowDimming = FALSE /\ t.locked = p.locked
      /\ /\ Sound(p) /\ NoDimmingBehindRelay(p)
         /\ p.dimmer = 0 \/ p.starting \/ ~ p.locked
         => Dimming(t)
  BY <1>3, AllowDimmingSetFact
<1> HIDE DEF t
<1> QED
  BY <1>2, <1>3, <1>4, <1>5, <1>6 DEF Guards, SameConf

LEMMA GoingToDfuFact ==
  ASSUME NEW s \in SwitchRecord
  PROVE  LET t == GoingToDfu(s) IN
         /\ t \in SwitchRecord /\ t.mode = s.mode /\ t.errors = s.errors
         /\ t.starting = s.starting /\ Off(t)
         /\ Recorded(s) => Recorded(t)
         /\ Sound(s) => Sound(t)
         /\ Sound(s) /\ Protects(s) => Protects(t)
         /\ Dimming(s) => Dimming(t)
<1> DEFINE p == [s EXCEPT !.allowStateChanges = FALSE]
           r == SetRelayUnchecked(p, TRUE)
           o == SetDimmerUnchecked(r, 0)
           t == SendUnexpectedStateUpdate(o)
<1>1. /\ p \in SwitchRecord /\ SameRelay(s, p) /\ SameDimmer(s, p) /\ p.stored = s.stored
      /\ p.allowDimming = s.allowDimming /\ p.locked = s.locked /\ p.mode = s.mode
      /\ p.errors = s.errors /\ p.starting = s.starting
      /\ ~ p.allowStateChanges /\ p.powerUpCountDown = s.powerUpCountDown
  BY DEF SwitchRecord, SameRelay, SameDimmer
<1>2. \/ GoingToDfu(s) = t
      \/ GoingToDfu(s) = p /\ s.dimmer = 0
  BY DEF GoingToDfu
<1> HIDE DEF p
<1>3. ASSUME s.dimmer = 0
      PROVE  /\ Off(p) /\ (Recorded(s) => Recorded(p)) /\ (Sound(s) => Sound(p))
             /\ (Protects(s) => Protects(p)) /\ (Dimming(s) => Dimming(p))
  BY <1>1, <1>3
  DEF Off, Sound, Protects, PoweredUp, Recorded, Dimming, NoDimmingBehindRelay, SameRelay,
      SameDimmer, HasDimmerError
<1>4. /\ r \in SwitchRecord /\ Rest(p, r) /\ r.relay /\ r.accurate /\ SameDimmer(p, r)
      /\ r.relayPos \/ (p.accurate /\ p.relay /\ r.relayPos = p.relayPos)
  BY <1>1, SetRelayUncheckedFact
<1> HIDE DEF r
<1>5. /\ o \in SwitchRecord /\ Rest(r, o) /\ SameRelay(r, o) /\ o.dimmer = 0
      /\ o.powered = r.powered /\ o.checkCountDown = r.checkCountDown
  BY <1>4, SetDimmerUncheckedFact, SwitchAssumption
<1> HIDE DEF o
<1>6. /\ t \in SwitchRecord /\ Recorded(t)
      /\ SameConf(o, t) /\ SameRelay(o, t) /\ SameDimmer(o, t)
  BY <1>5, UnexpectedStateFact
<1> HIDE DEF t
<1>7. /\ SameConf(p, t) /\ t.relay /\ t.accurate /\ t.dimmer = 0
      /\ t.powered = s.powered /\ t.checkCountDown = s.checkCountDown
      /\ t.relayPos \/ (s.accurate /\ s.relay /\ t.relayPos = s.relayPos)
  BY <1>1, <1>4, <1>5, <1>6 DEF SameConf, Rest, SameRelay, SameDimmer
<1>8. Off(t) /\ (Sound(s) => Sound(t)) /\ (Sound(s) /\ Protects(s) => Protects(t))
      /\ (Dimming(s) => Dimming(t))
  BY <1>1, <1>6, <1>7
  DEF Off, Sound, Protects, PoweredUp, Dimming, NoDimmingBehindRelay, SameConf,
      HasDimmerError, SwitchRecord
<1> QED
  BY <1>1, <1>2, <1>3, <1>6, <1>7, <1>8 DEF SameConf

\* A start, of whatever was saved, gives a switch that is sound.
LEMMA BootFact ==
  ASSUME NEW s \in SwitchRecord, NEW warm \in BOOLEAN
  PROVE  LET t == Booted(s, warm) IN
         /\ t \in SwitchRecord /\ ~ t.starting /\ t.ret = "NO_CHANGE" /\ t.mode = s.mode
         /\ Sound(t) /\ Protects(t) /\ Off(t) /\ Recorded(t)
         /\ ~ (s.locked /\ s.allowDimming) => Dimming(t)
         /\ s.mode # "factoryReset" =>
              (OutputOf(t) # 0 <=> s.saved # [relay |-> FALSE, dimmer |-> 0])
<1> DEFINE want == IF s.saved.relay THEN FullyOn ELSE s.saved.dimmer
           powered == warm /\ "canDimOnWarmBoot" \in s.board
           v == [s EXCEPT !.stored = s.saved, !.intended = want,
                          !.relay = s.saved.relay, !.dimmer = 0, !.accurate = FALSE,
                          !.powered = powered, !.powerUpCountDown = PowerUpTicks,
                          !.checkCountDown = 0, !.checked = FALSE,
                          !.allowStateChanges = TRUE, !.errors = {}, !.starting = TRUE]
           r == ResolveIntendedState(v)
           t == [r EXCEPT !.starting = FALSE, !.override = r.intended, !.behaviour = None,
                          !.twilight = None, !.aggregated = None,
                          !.doubleTapCountDown = 0, !.lastOnValue = 0, !.ret = "NO_CHANGE"]
<1>1. want \in Levels /\ (want # 0 <=> s.saved # [relay |-> FALSE, dimmer |-> 0])
  BY SwitchAssumption DEF SwitchRecord, SwitchState, FullyOn
<1>2. powered \in BOOLEAN /\ s.saved \in SwitchState /\ s.saved.relay \in BOOLEAN
  BY DEF SwitchRecord, SwitchState
<1>3. Booted(s, warm) = t
  BY DEF Booted, SmartSwitchBoot, SafeSwitchBoot
<1> HIDE DEF want, powered
<1>4. /\ v \in SwitchRecord /\ v.mode = s.mode /\ v.locked = s.locked
      /\ v.allowDimming = s.allowDimming /\ v.intended = want
  <2>1. {0, FullyOn} \subseteq Levels /\ PowerUpTicks \in 0..PowerUpTicks /\ 0 \in 0..CheckTicks
    BY SwitchAssumption
  <2>2. v \in SwitchRecord
    BY <1>1, <1>2, <2>1 DEF SwitchRecord
  <2> QED
    BY <2>2 DEF SwitchRecord
<1>5. /\ v.powerUpCountDown = PowerUpTicks /\ v.dimmer = 0 /\ ~ v.accurate
      /\ v.starting /\ v.allowStateChanges /\ v.errors = {}
  BY DEF SwitchRecord
<1> HIDE DEF v
<1>6. /\ Starting(v) /\ Sound(v) /\ Protects(v) /\ Off(v)
      /\ ~ (s.locked /\ s.allowDimming) => Dimming(v)
  BY <1>4, <1>5, SwitchAssumption
  DEF Starting, Sound, Protects, Off, PoweredUp, Dimming, NoDimmingBehindRelay,
      HasDimmerError, IsSwitchOverLoaded
<1>7. Resolved(v, want, r) /\ KeepsAll(v, r)
  BY <1>4, ResolveFact, ResolveKeepsAll
<1> HIDE DEF r
<1>8. /\ r \in SwitchRecord /\ Sound(r) /\ Protects(r) /\ Off(r) /\ Recorded(r)
      /\ ~ (s.locked /\ s.allowDimming) => Dimming(r)
      /\ r.mode = s.mode
      /\ s.mode # "factoryReset" => (OutputOf(r) # 0 <=> want # 0)
  BY <1>4, <1>6, <1>7 DEF Resolved, KeepsAll, Keeps, SameConf
<1>9. /\ t \in SwitchRecord /\ SameRelay(r, t) /\ SameDimmer(r, t) /\ t.stored = r.stored
      /\ t.powerUpCountDown = r.powerUpCountDown /\ t.allowStateChanges = r.allowStateChanges
      /\ t.mode = r.mode /\ t.errors = r.errors /\ t.allowDimming = r.allowDimming
      /\ t.locked = r.locked /\ ~ t.starting /\ t.ret = "NO_CHANGE"
  <2>1. 0 \in Levels /\ None \in OptLevel /\ 0 \in 0..DoubleTapTicks
    BY SwitchAssumption, AggregatorAssumption DEF OptLevel
  <2>2. r.intended \in OptLevel \cup {SmartOn}
    BY <1>8 DEF SwitchRecord, OptLevel
  <2>3. t \in SwitchRecord
    BY <1>8, <2>1, <2>2 DEF SwitchRecord, RetCode
  <2> QED
    BY <1>8, <2>3 DEF SwitchRecord, SameRelay, SameDimmer
<1> HIDE DEF t
<1>10. /\ Sound(t) /\ Protects(t) /\ Off(t) /\ Recorded(t) /\ OutputOf(t) = OutputOf(r)
       /\ Dimming(r) => Dimming(t)
  BY <1>8, <1>9
  DEF Sound, Protects, Off, PoweredUp, Recorded, Dimming, NoDimmingBehindRelay, SameRelay,
      SameDimmer, OutputOf, HasDimmerError, IsSwitchOverLoaded
<1> QED
  BY <1>1, <1>3, <1>8, <1>9, <1>10

-----------------------------------------------------------------------------
(* The actions.                                                            *)

\* The part of the invariant that holds whatever happens.
Good(s) == s \in SwitchRecord /\ ~ s.starting /\ Sound(s) /\ Truthful(s)

IInv ==
  /\ Good(sw)
  /\ lastChipHot \in BOOLEAN /\ lastDimmerHot \in BOOLEAN
  /\ lastDimmerHot => "dimmerTemp" \in Happens
  /\ WantedTyped

\* What an event keeps that is not a new error, a reset of errors or a reset
\* of the device.
Event(s, t) ==
  /\ Good(t) /\ t.mode = s.mode /\ t.errors = s.errors
  /\ s.mode # "factoryReset" /\ Recorded(s) => Recorded(t)
  /\ Protects(s) => Protects(t)
  /\ Off(s) => Off(t)

SameOutput(s, t) == t.relayPos = s.relayPos /\ t.dimmer = s.dimmer

LEMMA GuardsEvent ==
  ASSUME NEW s, NEW t, Good(s), Guards(s, t), Truthful(t)
  PROVE  Event(s, t)
BY DEF Good, Guards, Event

LEMMA QuietlyFact ==
  ASSUME NEW s \in SwitchRecord
  PROVE  LET t == Quietly(s) IN
         KeepsAll(s, t) /\ Truthful(t) /\ SameOutput(s, t) /\ t.locked = s.locked
BY ReturnFact, ReturnKeepsAll
DEF Quietly, RetCode, Truthful, SameOutput, SameRelay, SameDimmer, Rest

LEMMA KeepsMeansGuards ==
  ASSUME NEW s, NEW t, Keeps(s, t)
  PROVE  Guards(s, t)
BY DEF Keeps, Guards, SameConf

\* An event of which the handler keeps everything.
LEMMA KeepsEvent ==
  ASSUME NEW s, NEW t, Good(s), KeepsAll(s, t), Truthful(t)
  PROVE  /\ Event(s, t)
         /\ Dimming(s) => Dimming(t)
         /\ s.locked => SameOutput(s, t)
BY KeepsMeansGuards, GuardsEvent DEF Good, KeepsAll, Keeps, AllowSwitching, SameOutput

LEMMA QuietEvent ==
  ASSUME NEW s, NEW t, Good(s), Guards(s, t)
  PROVE  /\ Event(s, Quietly(t))
         /\ Dimming(t) => Dimming(Quietly(t))
         /\ SameOutput(t, Quietly(t)) /\ Quietly(t).locked = t.locked
<1> DEFINE u == Quietly(t)
<1>1. KeepsAll(t, u) /\ Truthful(u) /\ SameOutput(t, u) /\ u.locked = t.locked
  BY QuietlyFact DEF Guards
<1> HIDE DEF u
<1>2. Event(s, u)
  BY <1>1, KeepsGuards, GuardsEvent DEF KeepsAll
<1>3. Sound(t)
  BY DEF Good, Guards
<1> QED
  BY <1>1, <1>2, <1>3 DEF KeepsAll, u

\* What a command or a second that passes leaves alone.
Commanded ==
  /\ Event(sw, sw') /\ UNCHANGED guardVars
  /\ sw.locked /\ sw'.locked => SameOutput(sw, sw')

\* The ways to switch that may leave the dimmer on without permission.
Bypassed == "direct" \in Happens \/ "stateSet" \in Happens

LEMMA CommandFact ==
  ASSUME IInv, Command
  PROVE  /\ Commanded /\ UNCHANGED wantedVars
         /\ ~ Bypassed /\ Dimming(sw) => Dimming(sw')
<1> USE DEF Commanded, IInv
<1>1. sw \in SwitchRecord /\ Good(sw) /\ Sound(sw) /\ (sw.locked => ~ AllowSwitching(sw))
  BY DEF Good, AllowSwitching
<1>2. ASSUME NEW t, KeepsAll(sw, t), Truthful(t), Do(t)
      PROVE  /\ Commanded /\ UNCHANGED wantedVars
             /\ Dimming(sw) => Dimming(sw')
  BY <1>1, <1>2, KeepsEvent DEF Do
<1>3. ASSUME NEW value, CmdSwitch(value) PROVE Commanded /\ UNCHANGED wantedVars /\ (Dimming(sw) => Dimming(sw'))
  <2>1. PICK v : ExecuteStateIntentionUpdate(sw, value) = Intend(sw, v)
    BY DEF ExecuteStateIntentionUpdate
  <2>2. KeepsAll(sw, Intend(sw, v)) /\ Truthful(Intend(sw, v))
    BY <1>1, IntendFact
  <2> QED
    BY <1>2, <1>3, <2>1, <2>2 DEF CmdSwitch
<1>4. CASE Switchcraft
  BY <1>1, <1>2, <1>4, SwitchcraftFact DEF Switchcraft
<1>5. ASSUME NEW valid \in BOOLEAN, BehaviourMutation(valid)
      PROVE  Commanded /\ UNCHANGED wantedVars /\ (Dimming(sw) => Dimming(sw'))
  <2> DEFINE p == IF valid THEN [sw EXCEPT !.override = None] ELSE sw
  <2>1. KeepsAll(sw, p) /\ p \in SwitchRecord /\ Sound(p)
    <3>1. KeepsAll(sw, sw)
      BY <1>1 DEF KeepsAll, Keeps, SameConf
    <3>2. KeepsAll(sw, [sw EXCEPT !.override = None])
      BY <1>1, OverrideFact DEF OptLevel
    <3> QED
      BY <1>1, <3>1, <3>2 DEF KeepsAll, Keeps
  <2>2. Do(Update(p))
    BY <1>5 DEF BehaviourMutation
  <2> HIDE DEF p
  <2>3. KeepsAll(p, Update(p)) /\ Truthful(Update(p))
    BY <2>1, UpdateFact DEF Update, BehaviourValueChanged
  <2> QED
    BY <1>2, <2>1, <2>2, <2>3, KeepsAllTwice
<1>6. CASE LastUserExit
  <2> DEFINE p == [sw EXCEPT !.override = None]
             t == UpdateState(UpdateBehaviourHandlers(p), TRUE)
  <2>1. KeepsAll(sw, p) /\ p \in SwitchRecord /\ Sound(p)
    BY <1>1, OverrideFact DEF OptLevel, KeepsAll, Keeps
  <2>2. Do(t)
    BY <1>6 DEF LastUserExit
  <2> HIDE DEF p
  <2>3. KeepsAll(p, t) /\ Truthful(t)
    BY <2>1, UpdateFact
  <2> HIDE DEF t
  <2> QED
    BY <1>2, <2>1, <2>2, <2>3, KeepsAllTwice
<1>7. ASSUME NEW t, Guards(sw, t), sw.locked /\ t.locked => SameOutput(sw, t), Do(Quietly(t))
      PROVE  Commanded /\ UNCHANGED wantedVars /\ (Dimming(t) => Dimming(sw'))
  BY <1>1, <1>7, QuietEvent DEF Do, SameOutput
<1>8. ASSUME NEW b \in BOOLEAN, CmdLockSwitch(b)
      PROVE  Commanded /\ UNCHANGED wantedVars /\ (Dimming(sw) => Dimming(sw'))
  BY <1>1, <1>7, <1>8, SetSwitchLockFact DEF CmdLockSwitch, SameOutput
<1>9. ASSUME NEW b \in BOOLEAN, CmdDimmingAllowed(b)
      PROVE  Commanded /\ UNCHANGED wantedVars /\ (Dimming(sw) => Dimming(sw'))
  BY <1>1, <1>7, <1>9, SetAllowDimmingFact DEF CmdDimmingAllowed, SameOutput
<1>10. ASSUME NEW b \in BOOLEAN, SetDimmingAllowed(b)
       PROVE  Commanded /\ UNCHANGED wantedVars /\ Bypassed
  BY <1>1, <1>7, <1>10, AllowDimmingSetFact DEF SetDimmingAllowed, SameOutput, Bypassed
<1>11. ASSUME NEW t, Keeps(sw, t), Do(Quietly(SendUnexpectedIntensityUpdate(t)))
       PROVE  Commanded /\ UNCHANGED wantedVars
  <2> DEFINE u == SendUnexpectedIntensityUpdate(t)
  <2>1. Keeps(t, u)
    BY <1>11, UnexpectedIntensityFact DEF KeepsAll, Keeps
  <2> HIDE DEF u
  <2>2. Keeps(sw, u)
    BY <1>11, <2>1, KeepsTwice
  <2>3. Guards(sw, u) /\ (sw.locked => SameOutput(sw, u))
    BY <1>1, <2>2, KeepsMeansGuards DEF Keeps, SameOutput
  <2> QED
    BY <1>7, <1>11, <2>3 DEF u
<1>12. ASSUME NEW b \in BOOLEAN, CmdSetRelay(b)
       PROVE  Commanded /\ UNCHANGED wantedVars /\ Bypassed
  BY <1>1, <1>11, <1>12, SetRelayKeeps DEF CmdSetRelay, HandleCommandSetRelay, Bypassed
<1>13. ASSUME NEW v \in Levels, CmdSetDimmer(v)
       PROVE  Commanded /\ UNCHANGED wantedVars /\ Bypassed
  BY <1>1, <1>11, <1>13, SetDimmerKeeps DEF CmdSetDimmer, HandleCommandSetDimmer, Bypassed
<1> HIDE DEF Commanded, IInv
<1> QED
  BY <1>3, <1>4, <1>5, <1>6, <1>8, <1>9, <1>10, <1>12, <1>13 DEF Command

LEMMA TickingFact ==
  ASSUME IInv, Ticking
  PROVE  /\ Event(sw, sw') /\ UNCHANGED <<guardVars, wantedVars>>
         /\ Dimming(sw) => Dimming(sw')
         /\ Dimming(sw) /\ sw.locked => SameOutput(sw, sw')
<1> USE DEF IInv
<1>1. PICK lowPower \in BOOLEAN, newSecond \in BOOLEAN : Tick(lowPower, newSecond)
  BY DEF Ticking
<1> DEFINE t == SafeSwitchTick(sw, lowPower)
           n == CountDown(t.doubleTapCountDown)
           p == [t EXCEPT !.doubleTapCountDown = n]
<1>2. Do(IF newSecond THEN Update(p) ELSE Quietly(p))
  BY <1>1 DEF Tick
<1>3. Ticks(sw, t) /\ sw \in SwitchRecord /\ Sound(sw) /\ t \in SwitchRecord /\ Good(sw)
  BY TickFact DEF Good, Ticks, Guards
<1> HIDE DEF t
<1>4. n \in 0..DoubleTapTicks
  <2>1. t.doubleTapCountDown \in 0..DoubleTapTicks
    BY <1>3 DEF SwitchRecord
  <2> QED
    BY <2>1, CountDownFact, AggregatorAssumption
<1> HIDE DEF n
<1>5. /\ p \in SwitchRecord /\ SameConf(t, p) /\ SameRelay(t, p) /\ SameDimmer(t, p)
      /\ p.stored = t.stored
  BY <1>3, <1>4 DEF SwitchRecord, SameConf, SameRelay, SameDimmer
<1> HIDE DEF p
<1>6. KeepsAll(t, p)
  BY <1>3, <1>5, AsideKeepsAll
<1>7. Guards(sw, p) /\ Sound(p) /\ p.locked = sw.locked /\ ~ p.starting
  BY <1>3, <1>6, KeepsGuards DEF KeepsAll, Keeps, SameConf, Ticks, Guards, Good
<1>8. ASSUME Dimming(sw)
      PROVE  /\ Dimming(p)
             /\ sw.locked => SameOutput(sw, p) /\ ~ AllowSwitching(p)
  <2>1. Dimming(t) /\ Sound(t)
    BY <1>3, <1>8 DEF Ticks, Guards
  <2>2. Dimming(p)
    BY <1>6, <2>1 DEF KeepsAll
  <2>3. sw.locked => sw.dimmer = 0
    BY <1>3, <1>8 DEF Dimming, SwitchRecord
  <2> QED
    BY <1>3, <1>5, <1>7, <2>2, <2>3 DEF Ticks, SameOutput, SameRelay, SameDimmer, AllowSwitching
<1>9. CASE newSecond
  <2> DEFINE u == Update(p)
  <2>1. KeepsAll(p, u) /\ Truthful(u)
    BY <1>5, <1>7, UpdateFact DEF Update, BehaviourValueChanged
  <2> HIDE DEF u
  <2>2. Event(sw, u)
    BY <1>3, <1>7, <2>1, KeepsGuards, GuardsEvent DEF KeepsAll
  <2> QED
    BY <1>2, <1>7, <1>8, <1>9, <2>1, <2>2 DEF Do, KeepsAll, Keeps, SameOutput, u
<1>10. CASE ~ newSecond
  BY <1>2, <1>3, <1>7, <1>8, <1>10, QuietEvent DEF Do, SameOutput
<1> QED
  BY <1>9, <1>10

\* A dimmer that fails is protected, and what is stored is the state.
Protected ==
  /\ Protects(sw)
  /\ sw.mode # "factoryReset" => Recorded(sw)
  /\ lastDimmerHot => "dimmerTemp" \in sw.errors

\* An overloaded switch is off, and the guard knows that the chip is hot.
Overload == Off(sw) /\ (lastChipHot => "chipTemp" \in sw.errors)

\* s and t have different errors only.
SameButErrors(s, t) ==
  /\ SameRelay(s, t) /\ SameDimmer(s, t) /\ t.stored = s.stored
  /\ t.allowStateChanges = s.allowStateChanges /\ t.mode = s.mode
  /\ t.powerUpCountDown = s.powerUpCountDown /\ t.starting = s.starting
  /\ t.allowDimming = s.allowDimming /\ t.locked = s.locked

LEMMA ErrorsFact ==
  ASSUME NEW s \in SwitchRecord, NEW errors \in SUBSET Errors
  PROVE  LET t == [s EXCEPT !.errors = errors] IN
         t \in SwitchRecord /\ SameButErrors(s, t) /\ t.errors = errors
BY DEF SwitchRecord, SameButErrors, SameRelay, SameDimmer

LEMMA SameButErrorsKeeps ==
  ASSUME NEW s, NEW t, SameButErrors(s, t)
  PROVE  /\ Sound(s) => Sound(t)
         /\ Dimming(s) => Dimming(t)
         /\ Recorded(s) => Recorded(t)
         /\ Protects(s) /\ (HasDimmerError(t) => HasDimmerError(s)) => Protects(t)
BY DEF SameButErrors, SameRelay, SameDimmer, Sound, PoweredUp, Dimming, NoDimmingBehindRelay,
       Recorded, Protects

LEMMA SetErrorFact ==
  ASSUME NEW s \in SwitchRecord, NEW e \in Errors
  PROVE  LET t == SetError(s, e) IN
         /\ t \in SwitchRecord /\ SameButErrors(s, t) /\ t.errors = s.errors \cup {e}
         /\ HasDimmerError(t) <=> HasDimmerError(s) \/ e \notin {"chipTemp", "overCurrent"}
<1> DEFINE errors == s.errors \cup {e}
<1>1. errors \in SUBSET Errors /\ SetError(s, e) = [s EXCEPT !.errors = errors]
  BY DEF SwitchRecord, SetError
<1> HIDE DEF errors
<1> DEFINE t == [s EXCEPT !.errors = errors]
<1>2. t \in SwitchRecord /\ SameButErrors(s, t) /\ t.errors = errors
  BY <1>1, ErrorsFact
<1> HIDE DEF t
<1>3. HasDimmerError(t) <=> HasDimmerError(s) \/ e \notin {"chipTemp", "overCurrent"}
  BY <1>2 DEF HasDimmerError, Errors, errors
<1> QED
  BY <1>1, <1>2, <1>3 DEF t, errors

LEMMA GuardTickFact ==
  ASSUME IInv, NEW chipHot \in BOOLEAN, NEW dimmerHot \in BOOLEAN, GuardTick(chipHot, dimmerHot)
  PROVE  /\ IInv'
         /\ Dimming(sw) => Dimming(sw')
         /\ Protected => Protected'
         /\ Overload => Overload'
<1> DEFINE s == IF chipHot THEN SetError(sw, "chipTemp") ELSE sw
           t == IF chipHot /\ ~ lastChipHot THEN ForceSwitchOff(s) ELSE s
           u == IF dimmerHot THEN SetError(t, "dimmerTemp") ELSE t
           v == IF dimmerHot /\ ~ lastDimmerHot THEN ForceRelayOnAndDimmerOff(u) ELSE u
<1>1. sw \in SwitchRecord /\ Good(sw) /\ Sound(sw) /\ ~ sw.starting
  BY DEF IInv, Good
<1>2. sw' = Quietly(v)
  BY DEF GuardTick
<1>3. /\ s \in SwitchRecord /\ s.starting = sw.starting /\ s.mode = sw.mode /\ Sound(s)
      /\ s.errors = IF chipHot THEN sw.errors \cup {"chipTemp"} ELSE sw.errors
      /\ Dimming(sw) => Dimming(s)
      /\ Recorded(sw) => Recorded(s)
      /\ Protects(sw) => Protects(s)
      /\ chipHot => "chipTemp" \in s.errors
      /\ Off(sw) /\ (chipHot => "chipTemp" \in sw.errors) => Off(s)
  <2>1. CASE chipHot
    <3> DEFINE p == SetError(sw, "chipTemp")
    <3>1. /\ p \in SwitchRecord /\ SameButErrors(sw, p) /\ p.errors = sw.errors \cup {"chipTemp"}
          /\ HasDimmerError(p) <=> HasDimmerError(sw)
      BY <1>1, SetErrorFact DEF Errors
    <3>2. s = p
      BY <2>1
    <3> HIDE DEF p, s
    <3> QED
      BY <1>1, <2>1, <3>1, <3>2, SameButErrorsKeeps
      DEF SameButErrors, SameRelay, SameDimmer, Off, IsSwitchOverLoaded
  <2>2. CASE ~ chipHot
    BY <1>1, <2>2
  <2> QED
    BY <2>1, <2>2
<1> HIDE DEF s
<1>4. /\ t \in SwitchRecord /\ t.starting = sw.starting /\ t.mode = sw.mode /\ Sound(t)
      /\ t.errors = s.errors
      /\ Dimming(sw) => Dimming(t)
      /\ Protects(sw) => Protects(t)
      /\ Protects(sw) /\ sw.mode # "factoryReset" /\ Recorded(sw) => Recorded(t)
      /\ Overload => Off(t)
  <2>1. CASE chipHot /\ ~ lastChipHot
    <3>1. t = ForceSwitchOff(s)
      BY <2>1
    <3> HIDE DEF t
    <3> QED
      BY <1>3, <3>1, ForceSwitchOffFact DEF SameConf
  <2>2. CASE ~ (chipHot /\ ~ lastChipHot)
    BY <1>3, <2>2 DEF Overload
  <2> QED
    BY <2>1, <2>2
<1> HIDE DEF t
<1>5. /\ u \in SwitchRecord /\ u.starting = sw.starting /\ u.mode = sw.mode /\ Sound(u)
      /\ s.errors \subseteq u.errors
      /\ dimmerHot => "dimmerTemp" \in u.errors /\ HasDimmerError(u)
      /\ Dimming(sw) => Dimming(u)
      /\ Protects(sw) /\ (dimmerHot => "dimmerTemp" \in sw.errors) => Protects(u)
      /\ Protects(sw) /\ sw.mode # "factoryReset" /\ Recorded(sw) => Recorded(u)
      /\ Overload => Off(u)
  <2>1. CASE dimmerHot
    <3> DEFINE p == SetError(t, "dimmerTemp")
    <3>1. /\ p \in SwitchRecord /\ SameButErrors(t, p) /\ p.errors = t.errors \cup {"dimmerTemp"}
          /\ HasDimmerError(p)
      BY <1>4, SetErrorFact DEF Errors
    <3>2. u = p
      BY <2>1
    <3> HIDE DEF p, u
    <3>3. "dimmerTemp" \in sw.errors => HasDimmerError(t)
      BY <1>3, <1>4 DEF HasDimmerError
    <3> QED
      BY <1>4, <2>1, <3>1, <3>2, <3>3, SameButErrorsKeeps DEF SameButErrors, Off
  <2>2. CASE ~ dimmerHot
    BY <1>3, <1>4, <2>2
  <2> QED
    BY <2>1, <2>2
<1> HIDE DEF u
<1>6. /\ v \in SwitchRecord /\ v.starting = sw.starting /\ v.mode = sw.mode /\ Sound(v)
      /\ v.errors = u.errors
      /\ Dimming(sw) => Dimming(v)
      /\ Protected => Protects(v)
      /\ Protected /\ sw.mode # "factoryReset" => Recorded(v)
      /\ Overload => Off(v)
  <2>1. CASE dimmerHot /\ ~ lastDimmerHot
    <3>1. v = ForceRelayOnAndDimmerOff(u) /\ PoweredUp(u)
      BY <1>5, <2>1 DEF Sound
    <3> HIDE DEF v
    <3> QED
      BY <1>5, <2>1, <3>1, ForceRelayOnFact
  <2>2. CASE ~ (dimmerHot /\ ~ lastDimmerHot)
    BY <1>5, <2>2 DEF Protected
  <2> QED
    BY <2>1, <2>2
<1> HIDE DEF v
<1>7. /\ sw' \in SwitchRecord /\ sw'.starting = sw.starting /\ sw'.mode = sw.mode
      /\ Sound(sw') /\ Truthful(sw') /\ sw'.errors = u.errors
      /\ Dimming(sw) => Dimming(sw')
      /\ Protected => Protects(sw')
      /\ Protected /\ sw.mode # "factoryReset" => Recorded(sw')
      /\ Overload => Off(sw')
  BY <1>2, <1>6, QuietlyFact DEF KeepsAll, Keeps, SameConf
<1>8. IInv'
  BY <1>1, <1>7 DEF IInv, Good, GuardTick, WantedTyped, wantedVars
<1>9. Protected => Protected'
  BY <1>5, <1>7 DEF Protected, GuardTick
<1>10. Overload => Overload'
  BY <1>3, <1>5, <1>7 DEF Overload, GuardTick
<1> QED
  BY <1>7, <1>8, <1>9, <1>10

LEMMA FuseFact ==
  ASSUME IInv, OverCurrent \/ DimmerOverCurrent \/ DimmerFailure
  PROVE  /\ Good(sw') /\ sw'.mode = sw.mode /\ sw.errors \subseteq sw'.errors
         /\ UNCHANGED <<guardVars, wantedVars>>
         /\ Dimming(sw) => Dimming(sw')
         /\ Protects(sw) => Protects(sw')
         /\ Protects(sw) /\ sw.mode # "factoryReset" /\ Recorded(sw) => Recorded(sw')
         /\ Off(sw')
<1>1. sw \in SwitchRecord /\ Good(sw) /\ Sound(sw) /\ ~ sw.starting
  BY DEF IInv, Good
<1>2. ASSUME NEW t, sw' = Quietly(t), t \in SwitchRecord
      PROVE  KeepsAll(t, sw') /\ Truthful(sw')
  BY <1>2, QuietlyFact
<1>3. CASE OverCurrent
  <2> DEFINE p == SetError(sw, "overCurrent")
             t == ForceSwitchOff(p)
  <2>1. /\ p \in SwitchRecord /\ SameButErrors(sw, p) /\ p.errors = sw.errors \cup {"overCurrent"}
        /\ HasDimmerError(p) <=> HasDimmerError(sw)
    BY <1>1, SetErrorFact DEF Errors
  <2>2. sw' = Quietly(t) /\ UNCHANGED <<guardVars, wantedVars>>
    BY <1>3 DEF OverCurrent, Do
  <2> HIDE DEF p
  <2>3. /\ Sound(p) /\ (Dimming(sw) => Dimming(p)) /\ (Recorded(sw) => Recorded(p))
        /\ (Protects(sw) => Protects(p))
    BY <1>1, <2>1, SameButErrorsKeeps
  <2>4. /\ t \in SwitchRecord /\ SameConf(p, t) /\ Off(t)
        /\ Sound(p) => Sound(t)
        /\ Protects(p) => Protects(t)
        /\ Protects(p) /\ p.mode # "factoryReset" /\ Recorded(p) => Recorded(t)
        /\ Dimming(p) => Dimming(t)
    BY <2>1, ForceSwitchOffFact
  <2> HIDE DEF t
  <2> QED
    BY <1>1, <1>2, <2>1, <2>2, <2>3, <2>4 DEF KeepsAll, Keeps, SameConf, SameButErrors, Good
<1>4. ASSUME NEW e \in {"overCurrentDimmer", "dimmerOn"},
             Do(Quietly(ForceRelayOnAndDimmerOff(SetError(sw, e))))
      PROVE  /\ Good(sw') /\ sw'.mode = sw.mode /\ sw.errors \subseteq sw'.errors
             /\ UNCHANGED <<guardVars, wantedVars>>
             /\ Dimming(sw') /\ Protects(sw') /\ Recorded(sw') /\ Off(sw')
  <2> DEFINE p == SetError(sw, e)
             t == ForceRelayOnAndDimmerOff(p)
  <2>1. /\ p \in SwitchRecord /\ SameButErrors(sw, p) /\ p.errors = sw.errors \cup {e}
        /\ HasDimmerError(p)
    BY <1>1, SetErrorFact DEF Errors
  <2>2. sw' = Quietly(t) /\ UNCHANGED <<guardVars, wantedVars>>
    BY <1>4 DEF Do
  <2> HIDE DEF p
  <2>3. Sound(p) /\ PoweredUp(p)
    BY <1>1, <2>1, SameButErrorsKeeps DEF Sound
  <2>4. /\ t \in SwitchRecord /\ t.mode = p.mode /\ t.errors = p.errors
        /\ t.starting = p.starting
        /\ Recorded(t) /\ Sound(t) /\ Protects(t) /\ Dimming(t)
        /\ HasDimmerError(p) => Off(t)
    BY <2>1, <2>3, ForceRelayOnFact
  <2> HIDE DEF t
  <2> QED
    BY <1>1, <1>2, <2>1, <2>2, <2>4 DEF KeepsAll, Keeps, SameConf, SameButErrors, Good
<1> QED
  BY <1>3, <1>4 DEF DimmerOverCurrent, DimmerFailure

\* The update of the firmware and the factory reset, and the write to flash.
LEMMA OtherEventFact ==
  ASSUME IInv, CmdGotoDfu \/ CmdFactoryReset \/ Save
  PROVE  /\ Event(sw, sw') /\ UNCHANGED <<guardVars, wantedVars>>
         /\ Dimming(sw) => Dimming(sw')
<1>1. sw \in SwitchRecord /\ Good(sw) /\ Sound(sw) /\ ~ sw.starting
  BY DEF IInv, Good
<1>2. CASE CmdGotoDfu
  <2> DEFINE t == GoingToDfu(sw)
  <2>1. /\ t \in SwitchRecord /\ t.mode = sw.mode /\ t.errors = sw.errors
        /\ t.starting = sw.starting /\ Off(t)
        /\ Recorded(sw) => Recorded(t)
        /\ Sound(sw) => Sound(t)
        /\ Sound(sw) /\ Protects(sw) => Protects(t)
        /\ Dimming(sw) => Dimming(t)
    BY <1>1, GoingToDfuFact
  <2>2. sw' = Quietly(t) /\ UNCHANGED <<guardVars, wantedVars>>
    BY <1>2 DEF CmdGotoDfu, Do
  <2> HIDE DEF t
  <2>3. Guards(sw, t)
    BY <1>1, <2>1 DEF Guards
  <2> QED
    BY <1>1, <2>1, <2>2, <2>3, QuietEvent
<1>3. CASE CmdFactoryReset
  <2> DEFINE t == SetRelayUnchecked(sw, FALSE)
  <2>1. /\ t \in SwitchRecord /\ Rest(sw, t) /\ SameDimmer(sw, t) /\ ~ t.relay /\ t.accurate
        /\ ~ t.relayPos \/ (t.relayPos = sw.relayPos /\ sw.accurate /\ ~ sw.relay)
    BY <1>1, SetRelayUncheckedFact DEF SwitchRecord
  <2>2. sw' = Quietly(t) /\ UNCHANGED <<guardVars, wantedVars>> /\ sw.mode = "factoryReset"
    BY <1>3 DEF CmdFactoryReset, SwitchFactoryReset, Do
  <2> HIDE DEF t
  <2>3. Sound(t) /\ ~ t.relayPos
    BY <1>1, <2>1 DEF Sound, PoweredUp, Rest, SameDimmer, SwitchRecord
  <2>4. /\ Protects(t) /\ (Off(sw) => Off(t))
        /\ Dimming(sw) => Dimming(t)
    BY <2>1, <2>2, <2>3
    DEF Protects, Off, Dimming, NoDimmingBehindRelay, Rest, SameDimmer, IsSwitchOverLoaded,
        HasDimmerError
  <2>5. KeepsAll(t, sw') /\ Truthful(sw')
    BY <2>1, <2>2, QuietlyFact
  <2> QED
    BY <1>1, <2>1, <2>2, <2>3, <2>4, <2>5 DEF Event, Good, KeepsAll, Keeps, SameConf, Rest
<1>4. CASE Save
  <2> DEFINE t == [sw EXCEPT !.saved = sw.stored]
  <2>1. /\ t \in SwitchRecord /\ SameButErrors(sw, t) /\ t.errors = sw.errors
    BY <1>1 DEF SwitchRecord, SameButErrors, SameRelay, SameDimmer
  <2>2. sw' = Quietly(t) /\ UNCHANGED <<guardVars, wantedVars>>
    BY <1>4 DEF Save, Do
  <2> HIDE DEF t
  <2>3. Guards(sw, t)
    BY <1>1, <2>1, SameButErrorsKeeps
    DEF Guards, SameButErrors, SameRelay, SameDimmer, Off, HasDimmerError, IsSwitchOverLoaded
  <2> QED
    BY <1>1, <2>1, <2>2, <2>3, QuietEvent, SameButErrorsKeeps
<1> QED
  BY <1>2, <1>3, <1>4

LEMMA ResetErrorsFact ==
  ASSUME IInv, NEW errors \in SUBSET sw.errors, ResetErrors(errors)
  PROVE  /\ Good(sw') /\ sw'.mode = sw.mode /\ UNCHANGED <<guardVars, wantedVars>>
         /\ "resetErrors" \in Happens
         /\ Dimming(sw) => Dimming(sw')
         /\ Protects(sw) => Protects(sw')
         /\ Recorded(sw) => Recorded(sw')
<1> DEFINE left == sw.errors \ errors
           t == [sw EXCEPT !.errors = left]
<1>1. sw \in SwitchRecord /\ Good(sw) /\ Sound(sw) /\ ~ sw.starting /\ left \in SUBSET Errors
  BY DEF IInv, Good, SwitchRecord
<1>2. /\ sw' = Quietly(t) /\ UNCHANGED <<guardVars, wantedVars>>
      /\ "resetErrors" \in Happens
  BY DEF ResetErrors, Do
<1>3. left \subseteq sw.errors
  OBVIOUS
<1> HIDE DEF left
<1>4. t \in SwitchRecord /\ SameButErrors(sw, t) /\ t.errors = left
  BY <1>1, ErrorsFact
<1> HIDE DEF t
<1>5. HasDimmerError(t) => HasDimmerError(sw)
  BY <1>3, <1>4 DEF HasDimmerError
<1>6. KeepsAll(t, sw') /\ Truthful(sw')
  BY <1>2, <1>4, QuietlyFact
<1> QED
  BY <1>1, <1>2, <1>4, <1>5, <1>6, SameButErrorsKeeps
  DEF Good, KeepsAll, Keeps, SameConf, SameButErrors

LEMMA RebootFact ==
  ASSUME IInv, NEW warm \in BOOLEAN, NEW mode \in Modes, Reboot(warm, mode)
  PROVE  /\ IInv'
         /\ Dimming(sw) => Dimming(sw')
         /\ Protected' /\ Overload'
<1> DEFINE s == IF sw.mode = "factoryReset" /\ mode = "setup" THEN Erased(sw) ELSE sw
           p == [s EXCEPT !.mode = mode]
<1>1. sw' = Booted(p, warm) /\ ~ lastChipHot' /\ ~ lastDimmerHot' /\ UNCHANGED wantedVars
      /\ lastChipHot' \in BOOLEAN /\ lastDimmerHot' \in BOOLEAN
  BY DEF Reboot
<1>2. s \in SwitchRecord /\ (Dimming(sw) => ~ (s.locked /\ s.allowDimming))
  <2>1. sw \in SwitchRecord
    BY DEF IInv, Good
  <2>2. Erased(sw) \in SwitchRecord /\ ~ Erased(sw).locked
    BY <2>1, SwitchAssumption DEF Erased, SwitchRecord, SwitchState
  <2> QED
    BY <2>1, <2>2 DEF Dimming
<1> HIDE DEF s
<1>3. p \in SwitchRecord /\ (Dimming(sw) => ~ (p.locked /\ p.allowDimming))
  BY <1>2 DEF SwitchRecord
<1> HIDE DEF p
<1>4. /\ sw' \in SwitchRecord /\ ~ sw'.starting /\ sw'.ret = "NO_CHANGE"
      /\ Sound(sw') /\ Protects(sw') /\ Off(sw') /\ Recorded(sw')
      /\ Dimming(sw) => Dimming(sw')
  BY <1>1, <1>3, BootFact
<1> QED
  BY <1>1, <1>4 DEF IInv, Good, Truthful, Protected, Overload, WantedTyped, wantedVars

-----------------------------------------------------------------------------
(* The invariant.                                                          *)

LEMMA InitFact == Init => IInv /\ Protected /\ Overload /\ Dimming(sw)
<1> SUFFICES ASSUME Init PROVE IInv /\ Protected /\ Overload /\ Dimming(sw)
  OBVIOUS
<1>1. PICK board \in Boards, mode \in Modes, on \in BOOLEAN, relayPos \in BOOLEAN :
        sw = Booted([relay |-> FALSE, dimmer |-> 0, relayPos |-> relayPos,
                     accurate |-> FALSE, powered |-> FALSE,
                     powerUpCountDown |-> PowerUpTicks, checkCountDown |-> 0,
                     checked |-> FALSE, allowStateChanges |-> TRUE, mode |-> mode,
                     board |-> board, errors |-> {},
                     intended |-> 0, stored |-> [relay |-> FALSE, dimmer |-> 0],
                     saved |-> [relay |-> on, dimmer |-> 0],
                     allowDimming |-> FALSE, locked |-> FALSE, starting |-> FALSE,
                     override |-> None, behaviour |-> None, twilight |-> None,
                     aggregated |-> None, doubleTapCountDown |-> 0,
                     lastOnValue |-> 0, ret |-> "NO_CHANGE"], FALSE)
  BY DEF Init
<1> DEFINE p == [relay |-> FALSE, dimmer |-> 0, relayPos |-> relayPos,
                 accurate |-> FALSE, powered |-> FALSE,
                 powerUpCountDown |-> PowerUpTicks, checkCountDown |-> 0,
                 checked |-> FALSE, allowStateChanges |-> TRUE, mode |-> mode,
                 board |-> board, errors |-> {},
                 intended |-> 0, stored |-> [relay |-> FALSE, dimmer |-> 0],
                 saved |-> [relay |-> on, dimmer |-> 0],
                 allowDimming |-> FALSE, locked |-> FALSE, starting |-> FALSE,
                 override |-> None, behaviour |-> None, twilight |-> None,
                 aggregated |-> None, doubleTapCountDown |-> 0,
                 lastOnValue |-> 0, ret |-> "NO_CHANGE"]
<1>2. p \in SwitchRecord /\ ~ p.locked
  <2>1. 0 \in Levels /\ 0 \in 0..CheckTicks /\ 0 \in 0..DoubleTapTicks
        /\ PowerUpTicks \in 0..PowerUpTicks
    BY SwitchAssumption, AggregatorAssumption
  <2> QED
    BY <2>1 DEF SwitchRecord, SwitchState, RetCode, OptLevel
<1>3. sw = Booted(p, FALSE)
  BY <1>1
<1> HIDE DEF p
<1>4. /\ sw \in SwitchRecord /\ ~ sw.starting /\ sw.ret = "NO_CHANGE"
      /\ Sound(sw) /\ Protects(sw) /\ Off(sw) /\ Recorded(sw) /\ Dimming(sw)
  BY <1>2, <1>3, BootFact
<1> QED
  BY <1>4 DEF Init, IInv, Good, Truthful, Protected, Overload, WantedTyped

\* CMD_RESET_ERRORS takes an error away that still exists; the guard, which acts
\* when its event changes, does not act on it again.
ErrorsStand == "resetErrors" \notin Happens
DimmerErrorsStand == "resetErrors" \notin Happens \/ "dimmerTemp" \notin Happens

LEMMA NextFact ==
  ASSUME IInv, [Next]_vars
  PROVE  /\ IInv'
         /\ ~ Bypassed /\ Dimming(sw) => Dimming(sw')
         /\ DimmerErrorsStand /\ Protected => Protected'
         /\ ErrorsStand /\ Overload => Overload'
<1> DEFINE Inductive == /\ IInv'
                        /\ ~ Bypassed /\ Dimming(sw) => Dimming(sw')
                        /\ DimmerErrorsStand /\ Protected => Protected'
                        /\ ErrorsStand /\ Overload => Overload'
<1>1. ASSUME Event(sw, sw'), UNCHANGED <<guardVars, wantedVars>>
      PROVE  IInv' /\ (Protected => Protected') /\ (Overload => Overload')
  BY <1>1 DEF Event, IInv, Protected, Overload, WantedTyped, guardVars, wantedVars
<1>2. CASE Ticking
  BY <1>1, <1>2, TickingFact
<1>3. CASE Command
  BY <1>1, <1>3, CommandFact DEF Commanded
<1>4. CASE BehavioursChange
  BY <1>4 DEF BehavioursChange, IInv, Protected, Overload, WantedTyped, guardVars, wantedVars
<1>5. CASE \E chipHot, dimmerHot \in BOOLEAN : GuardTick(chipHot, dimmerHot)
  BY <1>5, GuardTickFact
<1>6. CASE OverCurrent \/ DimmerOverCurrent \/ DimmerFailure
  BY <1>6, FuseFact DEF IInv, Protected, Overload, WantedTyped, guardVars, wantedVars
<1>7. ASSUME NEW errors \in SUBSET sw.errors, ResetErrors(errors)
      PROVE  Inductive
  BY <1>7, ResetErrorsFact
  DEF IInv, Protected, ErrorsStand, DimmerErrorsStand, WantedTyped, guardVars, wantedVars
<1>8. CASE CmdGotoDfu \/ CmdFactoryReset \/ Save
  BY <1>1, <1>8, OtherEventFact
<1>9. ASSUME NEW warm \in BOOLEAN, NEW mode \in Modes, Reboot(warm, mode)
      PROVE  Inductive
  BY <1>9, RebootFact
<1>10. CASE UNCHANGED vars
  BY <1>10 DEF vars, IInv, Protected, Overload, WantedTyped, guardVars, wantedVars
<1> QED
  BY <1>2, <1>3, <1>4, <1>5, <1>6, <1>7, <1>8, <1>9, <1>10 DEF Next, Hardware

LEMMA Invariance == Spec => []IInv
<1>1. Init => IInv
  BY InitFact
<1>2. IInv /\ [Next]_vars => IInv'
  BY NextFact
<1> QED
  BY <1>1, <1>2, PTL DEF Spec

-----------------------------------------------------------------------------
(* The properties.                                                         *)

LEMMA RecordMembers ==
  ASSUME sw \in SwitchRecord
  PROVE  /\ HasMembers(SafeSwitchMembers) /\ HasMembers(SmartSwitchMembers)
         /\ HasMembers(AggregatorMembers)
<1>1. ASSUME NEW f \in DOMAIN SafeSwitchMembers PROVE sw[f] \in SafeSwitchMembers[f]
  BY SwitchAssumption DEF SwitchRecord, SafeSwitchMembers
<1>2. ASSUME NEW f \in DOMAIN SmartSwitchMembers PROVE sw[f] \in SmartSwitchMembers[f]
  BY DEF SwitchRecord, SmartSwitchMembers
<1>3. ASSUME NEW f \in DOMAIN AggregatorMembers PROVE sw[f] \in AggregatorMembers[f]
  BY AggregatorAssumption DEF SwitchRecord, AggregatorMembers
<1> QED
  BY <1>1, <1>2, <1>3 DEF HasMembers

LEMMA RecordDomain ==
  sw \in SwitchRecord =>
    DOMAIN sw = DOMAIN SafeSwitchMembers \cup DOMAIN SmartSwitchMembers
                  \cup DOMAIN AggregatorMembers
BY DEF SwitchRecord, SafeSwitchMembers, SmartSwitchMembers, AggregatorMembers

\* Every member has its type in every state, whatever happens.
THEOREM TypeCorrect == Spec => []TypeOK
<1>1. IInv => TypeOK
  BY RecordMembers, RecordDomain DEF IInv, Good, TypeOK, WantedTyped
<1> QED
  BY <1>1, Invariance, PTL

\* When updateState() reports success, the aggregated intensity comes out.
THEOREM SuccessIsReal == Spec => []SuccessMeansSet
<1>1. IInv => SuccessMeansSet
  BY DEF IInv, Good, Truthful, SuccessMeansSet, Output
<1> QED
  BY <1>1, Invariance, PTL

\* A start brings back what was saved, with a dimmer that keeps its power.
THEOREM StartRestores == Spec => []PowerUpRestores
<1>1. IInv => PowerUpIsFinal
  BY DEF IInv, Good, Sound, PoweredUp, PowerUpIsFinal
<1>2. IInv => RestoresWhatWasSaved
  BY BootFact DEF IInv, Good, RestoresWhatWasSaved
<1>3. IInv => PowerUpRestores
  BY <1>1, <1>2 DEF PowerUpRestores
<1> QED
  BY <1>3, Invariance, PTL

\* The dimmer is on only where and when that is allowed, when every command goes
\* through SwitchAggregator.
THEOREM DimmerObeys ==
  ASSUME "direct" \notin Happens, "stateSet" \notin Happens
  PROVE  Spec => []DimmingAsAllowed
<1>1. Init => IInv /\ Dimming(sw)
  BY InitFact
<1>2. (IInv /\ Dimming(sw)) /\ [Next]_vars => (IInv /\ Dimming(sw))'
  BY NextFact DEF Bypassed
<1>3. IInv /\ Dimming(sw) => DimmingAsAllowed
  BY DEF IInv, Good, Sound, Dimming, DimmingAsAllowed, NoDimmingInDfu, NoDimmingUnlessAllowed,
         LockExcludesDimming
<1> QED
  BY <1>1, <1>2, <1>3, PTL DEF Spec

\* What a locked switch lets out is changed by no command and no behaviour.
THEOREM LockHolds ==
  ASSUME "direct" \notin Happens, "stateSet" \notin Happens
  PROVE  Spec => LockedStays
<1>1. Init => IInv /\ Dimming(sw)
  BY InitFact
<1>2. (IInv /\ Dimming(sw)) /\ [Next]_vars => (IInv /\ Dimming(sw))'
  BY NextFact DEF Bypassed
<1>3. (IInv /\ Dimming(sw)) /\ [Next]_vars =>
        [sw.locked /\ sw'.locked /\ (Command \/ Ticking) =>
           sw'.relayPos = sw.relayPos /\ sw'.dimmer = sw.dimmer]_vars
  BY CommandFact, TickingFact DEF Commanded, SameOutput
<1> QED
  BY <1>1, <1>2, <1>3, PTL DEF Spec, LockedStays

LEMMA ProtectedAlways ==
  ASSUME DimmerErrorsStand
  PROVE  Spec => [](IInv /\ Protected)
<1>1. Init => IInv /\ Protected
  BY InitFact
<1>2. (IInv /\ Protected) /\ [Next]_vars => (IInv /\ Protected)'
  BY NextFact
<1> QED
  BY <1>1, <1>2, PTL DEF Spec

\* A dimmer that fails is off, with the relay taking over the current, unless the
\* error of a dimmer that is too hot can be reset while it still is too hot.
THEOREM RelayProtects ==
  ASSUME "resetErrors" \notin Happens \/ "dimmerTemp" \notin Happens
  PROVE  Spec => []DimmerErrorMeansRelayOn
<1>1. IInv /\ Protected => DimmerErrorMeansRelayOn
  BY DEF Protected, Protects, DimmerErrorMeansRelayOn
<1>2. DimmerErrorsStand
  BY DEF DimmerErrorsStand
<1> QED
  BY <1>1, <1>2, ProtectedAlways, PTL

\* What is stored to be restored is the state of the switch, under the same
\* condition: a forced off stores nothing when the dimmer has an error.
THEOREM StoredIsTrue ==
  ASSUME "resetErrors" \notin Happens \/ "dimmerTemp" \notin Happens
  PROVE  Spec => []StateIsTrue
<1>1. IInv /\ Protected => StateIsTrue
  BY DEF IInv, Good, Sound, Protected, Recorded, StateIsTrue
<1>2. DimmerErrorsStand
  BY DEF DimmerErrorsStand
<1> QED
  BY <1>1, <1>2, ProtectedAlways, PTL

\* Nothing turns an overloaded switch on as long as its errors stand.
THEOREM OverloadIsOff ==
  ASSUME "resetErrors" \notin Happens
  PROVE  Spec => []OverloadMeansOff
<1>1. Init => IInv /\ Overload
  BY InitFact
<1>2. (IInv /\ Overload) /\ [Next]_vars => (IInv /\ Overload)'
  BY NextFact DEF ErrorsStand
<1>3. IInv /\ Overload => OverloadMeansOff
  BY DEF IInv, Good, Overload, Off, OverloadMeansOff, Output, OutputOf, SwitchRecord
<1> QED
  BY <1>1, <1>2, <1>3, PTL DEF Spec

=============================================================================
