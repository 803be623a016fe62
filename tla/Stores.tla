------------------------------- MODULE Stores --------------------------------
(***************************************************************************)
(* The components that keep something or drive something, and what they    *)
(* decide, side by side as in Parts: a behaviour is one of one of them,    *)
(* `part`.  These have safety properties only, so no fairness is assumed.  *)
(***************************************************************************)
EXTENDS Integers, Sequences, FiniteSets

CONSTANTS BusyCalls, AutoEnable, Pipelined, FlashFails, Linger, Rewrites, BufferSize,
          Hurry, SchedulerFills, CutAfterEscape,
          MaxBehaviours, StoredRules,                         \* BehaviourStore
          WishSlots, WishRules, Rooms, CountedRooms, Day, Week, Cap,  \* BehaviourHandler
          NumChunks,                                          \* Microapp
          FilterIds, NumPackets, Length, TypeSizes, Overhead, MaxFilters, MaxVersion,       \* FilterHost
          FilterCommands, FilterResets,                                                     \* FilterHost
          NumBuffers, Needed, SeqRange, SchedulerRoom, Pause, During, Behind,               \* Sampling
          Phones, Relays, NumCommands, FirstCount, CountMod, Transmissions, AdvClaim, OwnerClaim, \* MultiSwitch
          Brightest, TicksPerValue, Low, Adjust, Periods, CountdownMod, Speeds, Lag,        \* Pwm
          Spots, Registrations, TtlMax, Heartbeat, SizeMax,                                 \* TrackedDevices
          Source, Stamp, StateSlots, StateTimeout,                                          \* ServiceData
          NumStones, MaxNeighbours, TimeoutSeconds, FastInterval, Interval, FastTime,       \* MeshTopology
          Messages, RxBufferSize                                                            \* Uart

ASSUME StoresAssumption ==
  /\ MaxBehaviours \in Nat
  /\ \A r \in StoredRules : r.type \in {"Switch", "Twilight", "Extended"}
  /\ NumChunks \in Nat \ {0}
  /\ "none" \notin Phones /\ NumCommands \in [Phones -> Nat] /\ FirstCount \in Nat
  /\ {CountMod, Transmissions, AdvClaim, OwnerClaim} \subseteq Nat \ {0} /\ Linger \in Nat
  /\ Brightest \in Nat \ {0, 1} /\ TicksPerValue \in Nat \ {0} /\ Low \in 0 .. Brightest
  /\ Adjust \in 0 .. TicksPerValue      \* "else dimming at 99% won't work", cs_PWM.cpp
  /\ Speeds \subseteq Nat

Conditions ==
  [condition : {"always", "anyoneInRooms", "nooneInRooms", "anyoneInSphere", "nooneInSphere"},
   rooms : SUBSET Rooms, timeout : 0 .. Cap - 1]

ASSUME WishesAssumption ==
  /\ WishSlots \in Nat /\ Day \in Nat \ {0} /\ Week \in Nat \ {0} /\ Cap \in Nat
  /\ IsFiniteSet(Rooms)
  /\ WishRules \subseteq
       [kind : {"switch", "extended", "twilight"}, value : 0 .. 100, from : 0 .. Day - 1,
        until : 0 .. Day - 1, days : SUBSET (0 .. Week - 1), presence : Conditions, extension : Conditions]

ASSUME FiltersAssumption ==
  /\ FilterIds \subseteq Nat /\ IsFiniteSet(FilterIds)
  /\ {NumPackets, Overhead, BufferSize, MaxFilters, MaxVersion} \subseteq Nat
  /\ Length \in [0 .. NumPackets -> Nat]
  /\ IsFiniteSet(TypeSizes) /\ TypeSizes \subseteq Nat
  /\ \A c \in 0 .. NumPackets : \E t \in TypeSizes : Length[c] <= t

ASSUME SamplesAssumption ==
  /\ {NumBuffers, SeqRange} \subseteq Nat \ {0, 1}    \* "should be at least 2", cs_ADC.h
  /\ {Needed, SchedulerRoom} \subseteq Nat \ {0}
  /\ {Pause, During, Behind} \subseteq Nat

ASSUME ListsAssumption ==
  /\ Spots \in Nat \ {0} /\ TtlMax \in Nat /\ Heartbeat \in Nat
  /\ DOMAIN Stamp = DOMAIN Source /\ 0 \notin DOMAIN Source
  /\ \A k \in DOMAIN Source : Source[k] # 0 /\ Stamp[k] \in Nat
  /\ StateSlots \in Nat \ {0} /\ StateTimeout \in Nat \ {0}
  /\ NumStones \in Nat /\ MaxNeighbours \in Nat /\ TimeoutSeconds \in Nat \ {0}

ASSUME LinesAssumption ==
  Messages \subseteq Seq(Nat) /\ RxBufferSize \in Nat

VARIABLES
  part,
  active, behaviours, queued,                                 \* BehaviourStore
  rules, clock, people, memory, enabled, intended, valid, lasted,  \* BehaviourHandler
  binary, app, kept, started, call, storage, host, guilty,    \* Microapp
  given, stale, claims, queue, commandAir, owner, last,       \* MultiSwitch
  store, commandsLeft, resetsLeft, committed,                 \* FilterHost
  adc, buf, scheduler, sampling, handler, spoiled, late,      \* Sampling
  devices, synced, expected,                                  \* TrackedDevices
  neighbours, count, nextSend, sendCountdown, fastCountdown, skipped, outOfTurn,  \* MeshTopology
  received, states, broadcast, update, tells, waited,         \* ServiceData
  pwm, timer, ends, seen,                                     \* Pwm
  reader, scheduled, task, line, due                          \* Uart

-----------------------------------------------------------------------------
(* Behaviours for the model checker. *)

Condition(condition, rooms, timeout) == [condition |-> condition, rooms |-> rooms, timeout |-> timeout]
Always == Condition("always", {}, 0)
Rule(kind, value, from, until, days, presence, extension) ==
  [kind |-> kind, value |-> value, from |-> from, until |-> until, days |-> days,
   presence |-> presence, extension |-> extension]

SmallRules ==
  {Rule("switch", 50, 1, 3, {0}, Always, Always),
   Rule("switch", 80, 3, 1, {0}, Always, Always),
   Rule("switch", 70, 0, 0, {0, 1}, Condition("anyoneInRooms", {"hall"}, 2), Always),
   Rule("switch", 60, 3, 2, {0, 1}, Condition("anyoneInRooms", {"hall", "room"}, 1), Always),
   Rule("switch", 0, 1, 3, {0, 1}, Condition("nooneInSphere", {}, 1), Always),
   Rule("extended", 90, 1, 2, {0}, Always, Condition("anyoneInSphere", {}, 1)),
   Rule("extended", 30, 0, 2, {0, 1}, Condition("anyoneInRooms", {"hall"}, 1), Condition("anyoneInSphere", {}, 1)),
   Rule("twilight", 40, 1, 3, {0, 1}, Always, Always),
   Rule("twilight", 20, 3, 2, {0}, Always, Always)}

\* What the store has of a behaviour.
FewRules ==
  {[type |-> "Switch", rule |-> 1], [type |-> "Switch", rule |-> 2],
   [type |-> "Twilight", rule |-> 1], [type |-> "Extended", rule |-> 1]}

\* One phone gives two commands, the other one.
FewCommands == [A |-> 2, B |-> 1]

\* Each device has tokens of its own, the first one two in turn.
FewRegistrations ==
  {[id |-> 1, token |-> 1], [id |-> 1, token |-> 2], [id |-> 2, token |-> 3], [id |-> 3, token |-> 4]}

\* One stone was in two states, the last in the same second as the others were.
FewSources == <<1, 1, 2, 3>>
FewStamps == <<0, 1, 1, 1>>

\* A blank chunk is taken for a filter of 1; packet 1 announces a filter of 2,
\* packet 2 one of 4.
FewLengths == [c \in 0 .. 2 |-> CASE c = 0 -> 1 [] c = 1 -> 2 [] c = 2 -> 4]

\* Two have a special byte in them, one is too large for the buffer.
FewMessages == {<<10, 3>>, <<2, 11, 3>>, <<1, 2, 3, 4>>}

\* One of the rules.
AnyRule == CHOOSE r \in WishRules : TRUE

\* A smart timer whose extension has no timeout.
SmartTimers == {Rule("extended", 90, 1, 2, {0}, Always, Condition("anyoneInSphere", {}, 0))}
-----------------------------------------------------------------------------
Behaviour == INSTANCE BehaviourStore WITH records <- behaviours, Rules <- StoredRules

Wishes == INSTANCE BehaviourHandler WITH Slots <- WishSlots, Rules <- WishRules

Code == INSTANCE Microapp

Switching == INSTANCE MultiSwitch WITH air <- commandAir

Filters == INSTANCE FilterHost WITH
  Stones <- {"stone"}, Ids <- FilterIds, Commands <- FilterCommands, Resets <- FilterResets

Samples == INSTANCE Sampling

Tracked == INSTANCE TrackedDevices

Topology == INSTANCE MeshTopology

Told == INSTANCE ServiceData WITH Slots <- StateSlots, Timeout <- StateTimeout, app <- tells

Light == INSTANCE Pwm WITH Max <- Brightest

Lines == INSTANCE Uart

behaviourVars == <<active, behaviours, queued>>
wishVars      == <<rules, clock, people, memory, enabled, intended, valid, lasted>>
codeVars      == <<binary, app, kept, started, call, storage, host, guilty>>
commandVars   == <<given, stale, claims, queue, commandAir, owner, last>>
filterVars    == <<store, commandsLeft, resetsLeft, committed>>
sampleVars    == <<adc, buf, scheduler, sampling, handler, spoiled, late>>
deviceVars    == <<devices, synced, expected>>
topologyVars  == <<neighbours, count, nextSend, sendCountdown, fastCountdown, skipped, outOfTurn>>
stateVars     == <<received, states, broadcast, update, tells, waited>>
lightVars     == <<pwm, timer, ends, seen>>
uartVars      == <<reader, scheduled, task, line, due>>

vars == <<part, behaviourVars, wishVars, codeVars, commandVars, filterVars,
          sampleVars, deviceVars, topologyVars, stateVars, lightVars, uartVars>>

\* The rules of the handler vary only when it is the part that runs.
Init ==
  /\ part \in {"behaviour", "wishes", "code", "commands", "filters", "samples", "devices",
              "topology", "states", "light", "uart"}
  /\ Behaviour!Init /\ Wishes!Init /\ Code!Init /\ Switching!Init /\ Filters!Init
  /\ Samples!Init /\ Tracked!Init /\ Topology!Init /\ Told!Init /\ Light!Init /\ Lines!Init
  /\ part # "wishes" => rules = [i \in 1 .. WishSlots |-> AnyRule]

Next ==
  /\ UNCHANGED part
  /\ \/ /\ part = "behaviour" /\ Behaviour!Next
        /\ UNCHANGED <<wishVars, codeVars, commandVars, filterVars,
                       sampleVars, deviceVars, topologyVars, stateVars, lightVars, uartVars>>
     \/ /\ part = "wishes" /\ Wishes!Next
        /\ UNCHANGED <<behaviourVars, codeVars, commandVars, filterVars,
                       sampleVars, deviceVars, topologyVars, stateVars, lightVars, uartVars>>
     \/ /\ part = "code" /\ Code!Next
        /\ UNCHANGED <<behaviourVars, wishVars, commandVars, filterVars,
                       sampleVars, deviceVars, topologyVars, stateVars, lightVars, uartVars>>
     \/ /\ part = "commands" /\ Switching!Next
        /\ UNCHANGED <<behaviourVars, wishVars, codeVars, filterVars,
                       sampleVars, deviceVars, topologyVars, stateVars, lightVars, uartVars>>
     \/ /\ part = "filters" /\ Filters!Next
        /\ UNCHANGED <<behaviourVars, wishVars, codeVars, commandVars,
                       sampleVars, deviceVars, topologyVars, stateVars, lightVars, uartVars>>
     \/ /\ part = "samples" /\ Samples!Next
        /\ UNCHANGED <<behaviourVars, wishVars, codeVars, commandVars,
                       filterVars, deviceVars, topologyVars, stateVars, lightVars, uartVars>>
     \/ /\ part = "devices" /\ Tracked!Next
        /\ UNCHANGED <<behaviourVars, wishVars, codeVars, commandVars,
                       filterVars, sampleVars, topologyVars, stateVars, lightVars, uartVars>>
     \/ /\ part = "topology" /\ Topology!Next
        /\ UNCHANGED <<behaviourVars, wishVars, codeVars, commandVars,
                       filterVars, sampleVars, deviceVars, stateVars, lightVars, uartVars>>
     \/ /\ part = "states" /\ Told!Next
        /\ UNCHANGED <<behaviourVars, wishVars, codeVars, commandVars,
                       filterVars, sampleVars, deviceVars, topologyVars, lightVars, uartVars>>
     \/ /\ part = "light" /\ Light!Next
        /\ UNCHANGED <<behaviourVars, wishVars, codeVars, commandVars,
                       filterVars, sampleVars, deviceVars, topologyVars, stateVars, uartVars>>
     \/ /\ part = "uart" /\ Lines!Next
        /\ UNCHANGED <<behaviourVars, wishVars, codeVars, commandVars,
                       filterVars, sampleVars, deviceVars, topologyVars, stateVars, lightVars>>

Spec == Init /\ [][Next]_vars
-----------------------------------------------------------------------------
(* The properties of the parts, each explained in its module, with the     *)
(* types of its state.                                                     *)

\* Behaviours: a reset brings back what is active (cs_BehaviourStore.cpp).
BehavioursComeBack == part = "behaviour" => Behaviour!TypeOK /\ Behaviour!BehavioursComeBack

\* Behaviours: the intended state is that of the most relevant one
\* (resolveSwitchBehaviour(), computeIntendedState() of both handlers).
MostRelevantWins == part = "wishes" => Wishes!TypeOK /\ Wishes!MostRelevantWins

\* Behaviours: presence that comes and goes makes none flicker (isValid() of
\* SwitchBehaviour and ExtendedSwitchBehaviour).
NoFlicker == Wishes!NoFlicker

\* Microapp: only a complete one runs, not one that hung, and an upload that
\* succeeded is in flash (cs_Microapp.cpp, cs_MicroappStorage.cpp,
\* cs_MicroappController.cpp).
MicroappIsSound ==
  part = "code" =>
    Code!TypeOK /\ Code!RunsOnlyValid /\ Code!HangingAppStops /\ Code!UploadAnswerIsTrue

\* Switch commands: none after a newer one (checkAndSetOwner()).
NewestWins == []Switching!TypeOK /\ [][\A p \in Phones : last'[p] >= last[p]]_vars

\* Filters: a version stands for what was committed, a modification that is over
\* leaves no filter that was not, and a reset at any moment gives filters that
\* were committed, or none (commit(), endInProgress(), loadFromFlash()).
FiltersAreSound ==
  part = "filters" =>
    /\ Filters!TypeOK
    /\ Filters!VersionMeansFilters /\ Filters!NoStrayFilters
    /\ Filters!ResetKeepsFilters /\ Filters!ResetIsAtomic

\* Sampling: what is calculated and recognized comes from the recordings it
\* seems to come from, and there is always a next one (cs_ADC.cpp,
\* powerSampleAdcDone(), detect()).
SamplingIsReal ==
  part = "samples" =>
    Samples!DriverKnowsBuffers /\ Samples!PowerIsReal /\ Samples!DetectionIsReal /\ Samples!SamplingGoesOn

\* Tracked devices: one record and its own token for each (findOrAdd(), add(),
\* isTokenOkToSet()).  Neighbours: what is told of one was measured of it, and
\* they are told of in turn (cs_MeshTopology.cpp).  States of other stones: one of
\* each, put together of halves of one second, and told in turn
\* (cs_MeshMsgHandler.cpp, cs_ExternalStates.cpp, cs_ServiceData.cpp).
DevicesAreTrue ==
  /\ part = "devices" => Tracked!DevicesAreUnique /\ Tracked!DevicesAreTrue
  /\ part = "topology" => Topology!NeighboursAreTrue /\ Topology!InTurn
  /\ part = "states" => Told!StatesAreWhole /\ Told!StonesAreUnique /\ Told!StatesInTurn

\* Dimmer: no flash when a value changes, and soon after it the light is what the
\* value says (setValue() of PWM).
LightIsTrue == part = "light" => Light!NoFlash /\ Light!LightFollows

\* UART: a message that arrives whole is handled, and reading is never blocked for
\* ever (onRead(), handleMsg()).
MessagesGetThrough == part = "uart" => Lines!MessageGetsThrough /\ Lines!NeverDeaf
==============================================================================
