-------------------------- MODULE BehaviourHandler --------------------------
(***************************************************************************)
(* What the behaviours of a stone want of its switch: the BehaviourHandler *)
(* and the TwilightHandler, with the conditions of SwitchBehaviour,        *)
(* ExtendedSwitchBehaviour and TwilightBehaviour and the resolution of     *)
(* conflicts between them.                                                 *)
(*                                                                         *)
(* A rule applies at some time of some days, if users are in some rooms,   *)
(* or are not.  Presence is remembered for a while.  A rule of kind        *)
(* "extended" that applies when its time is over remains valid as long as  *)
(* its second condition holds.                                             *)
(***************************************************************************)
EXTENDS Integers, FiniteSets

CONSTANTS Slots,         \* number of behaviours
          Rules,         \* the behaviours that may be stored
          Rooms,
          CountedRooms,  \* the rooms whose bit numberOfRooms() counts
          Day,           \* bound: length of a day
          Week,          \* bound: days in a week
          Cap            \* bound: age of a timestamp, above all timeouts

Indices  == 1 .. Slots
Never    == -1           \* a timestamp that is not set
NoValue  == -1           \* std::nullopt
FullyOn  == 100
Ages     == Never .. Cap

\* Who is where is not known after a boot (PRESENCE_UNCERTAIN_SECONDS_AFTER_BOOT).
Uncertain == {"unknown"}

VARIABLES
  rules,     \* activeBehaviours of the store
  clock,     \* posix time, in a week; time is not valid before it is set
  people,    \* rooms with users
  memory,    \* of each behaviour: the timestamps and extensionIsActive
  enabled,   \* _isActive
  intended,  \* currentIntendedState, of the behaviours and of the twilights
  valid,     \* history: the behaviours that were valid when last looked at
  lasted     \* history: how long they have been

handlerVars == <<rules, clock, people, memory, enabled, intended, valid, lasted>>

Fresh == [seen |-> Never, extended |-> FALSE, extensionSeen |-> Never]

Init ==
  /\ rules \in [Indices -> Rules]
  /\ clock = [set |-> FALSE, now |-> 0]
  /\ people = Uncertain
  /\ memory = [i \in Indices |-> Fresh]
  /\ enabled = TRUE
  /\ intended = [switch |-> NoValue, twilight |-> NoValue]
  /\ valid = {} /\ lasted = [i \in Indices |-> 0]
-----------------------------------------------------------------------------
(* When a behaviour is valid.                                              *)

\* PresencePredicate::isTrue().
IsTrue(c, where) ==
  CASE c.condition = "always"        -> TRUE
    [] c.condition = "anyoneInRooms"  -> where \cap c.rooms # {}
    [] c.condition = "nooneInRooms"   -> where \cap c.rooms = {}
    [] c.condition = "anyoneInSphere" -> where # {}
    [] c.condition = "nooneInSphere"  -> where = {}

RequiresPresence(c) == c.condition \in {"anyoneInRooms", "anyoneInSphere"}
RequiresAbsence(c)  == c.condition \in {"nooneInRooms", "nooneInSphere"}

\* Interval::ClosureContains() and contains() of [up - timeout, up]: an interval
\* without length contains everything.
IntervalClosureContains(age, timeout) == timeout = 0 \/ age <= timeout
IntervalContains(age, timeout)        == timeout = 0 \/ age \in 1 .. timeout

\* Behaviour::isValid() of a time: after midnight the day is that of the start.
InTime(r, now) ==
  LET today     == now \div Day
      yesterday == (today + Week - 1) % Week
      time      == now % Day
  IN IF r.from >= r.until
     THEN \/ time < r.until /\ yesterday \in r.days
          \/ time >= r.until /\ time >= r.from /\ today \in r.days
     ELSE time \in r.from .. r.until - 1 /\ today \in r.days

\* requiresPresence() and requiresAbsence() look at this condition: of an
\* extended behaviour at that of the extension as long as it is not active.
RequiredCondition(r, m) ==
  IF r.kind = "extended" /\ ~ m.extended THEN r.extension ELSE r.presence

\* Mutant: presence is not remembered.
SeenNow(r, m, where) ==
  IF RequiresAbsence(RequiredCondition(r, m)) # IsTrue(r.presence, where) THEN 0 ELSE Never

\* The timestamp of SwitchBehaviour::isValid(presence): when users were last
\* seen, if that is within the timeout.
Seen(r, m, where) ==
  LET required == RequiredCondition(r, m)
      present  == RequiresAbsence(required) # IsTrue(r.presence, where)
      last     == IF present THEN 0 ELSE m.seen
  IN IF last # Never /\ IntervalClosureContains(last, r.presence.timeout) THEN last ELSE Never

\* SwitchBehaviour::isValid(presence).
PresenceIsValid(r, m, seen) ==
  LET required == RequiredCondition(r, m)
  IN /\ RequiresPresence(required) => seen # Never
     /\ RequiresAbsence(required) => seen = Never

\* A condition that is always true leaves the timestamp alone.
AfterPresence(r, m, seen) ==
  IF RequiredCondition(r, m).condition = "always" THEN m ELSE [m EXCEPT !.seen = seen]

\* An extension that was active goes on: its condition holds, or did so recently.
StaysExtended(r, m, where) ==
  /\ m.extended
  /\ \/ IsTrue(r.extension, where)
     \/ m.extensionSeen # Never /\ IntervalContains(m.extensionSeen, r.extension.timeout)

\* isValid() of ExtendedSwitchBehaviour after its time: it deactivates, once.
AfterTime(r, m, where) ==
  IF ~ StaysExtended(r, m, where)
  THEN IF m.extended THEN [m EXCEPT !.extended = FALSE, !.extensionSeen = Never] ELSE m
  ELSE [m EXCEPT !.extended = TRUE, !.extensionSeen = IF IsTrue(r.extension, where) THEN 0 ELSE @]

\* isValid(time, presence) of SwitchBehaviour and ExtendedSwitchBehaviour: the
\* memory after it and the answer.
Validate(r, m, now, where) ==
  LET seen == Seen(r, m, where)
      ok   == PresenceIsValid(r, m, seen)
      kept == AfterPresence(r, m, seen)
      late == AfterTime(r, m, where)
  IN CASE r.kind = "switch" /\ InTime(r, now)   -> [memory |-> kept, valid |-> ok]
       [] r.kind = "extended" /\ InTime(r, now) -> [memory |-> [kept EXCEPT !.extended = ok], valid |-> ok]
       [] r.kind = "extended" /\ ~ InTime(r, now) -> [memory |-> late, valid |-> late.extended]
       [] OTHER -> [memory |-> m, valid |-> FALSE]
-----------------------------------------------------------------------------
(* Which one wins.                                                         *)

\* getRelevance() of a condition.
Relevance == [always |-> 0, anyoneInSphere |-> 1, nooneInSphere |-> 2, anyoneInRooms |-> 3,
              nooneInRooms |-> 4]
IsRoomBased(c)   == c.condition \in {"anyoneInRooms", "nooneInRooms"}
NumberOfRooms(c) == Cardinality(c.rooms \cap CountedRooms)

PresenceIsMoreRelevant(c, d) ==
  \/ Relevance[c.condition] > Relevance[d.condition]
  \/ c.condition = d.condition /\ IsRoomBased(c) /\ NumberOfRooms(c) > NumberOfRooms(d)

\* A moment of the day, seen from now.
Normalized(moment, now) == (moment - now) % Day

FromUntilIntervalIsMoreRelevantOrEqual(r, s, now) ==
  \/ Normalized(r.from, now) > Normalized(s.from, now)
  \/ /\ Normalized(r.from, now) = Normalized(s.from, now)
     /\ Normalized(r.until, now) <= Normalized(s.until, now)

SameInterval(r, s) == r.from = s.from /\ r.until = s.until

\* currentPresencePredicate(), of a behaviour that is valid.
CurrentPredicate(r) == r.presence

\* A candidate replaces the best behaviour so far, of the twilights.
WinsByTime(r, s, now) ==
  IF SameInterval(r, s) THEN r.value < s.value
  ELSE FromUntilIntervalIsMoreRelevantOrEqual(r, s, now)

\* The same of the others, where presence decides before the interval does.
Wins(r, s, now) ==
  \/ PresenceIsMoreRelevant(CurrentPredicate(r), CurrentPredicate(s))
  \/ ~ PresenceIsMoreRelevant(CurrentPredicate(s), CurrentPredicate(r)) /\ WinsByTime(r, s, now)

\* The loop over the behaviours: the best of the candidates among the first n.
Winner(candidates, beats) ==
  LET best[n \in 0 .. Slots] ==
        IF n = 0 THEN 0
        ELSE IF n \in candidates /\ (best[n - 1] = 0 \/ <<n, best[n - 1]>> \in beats) THEN n
        ELSE best[n - 1]
  IN best[Slots]

\* resolveSwitchBehaviour() and computeIntendedState(): off without any.
ComputeIntendedState(candidates, now) ==
  LET best == Winner(candidates, {p \in Indices \X Indices : Wins(rules[p[1]], rules[p[2]], now)})
  IN IF best = 0 THEN 0 ELSE rules[best].value

\* TwilightHandler::computeIntendedState(): fully on without any.
Twilights(now) == {i \in Indices : rules[i].kind = "twilight" /\ InTime(rules[i], now)}
ComputeTwilight(now) ==
  LET best == Winner(Twilights(now), {p \in Indices \X Indices : WinsByTime(rules[p[1]], rules[p[2]], now)})
  IN IF best = 0 THEN FullyOn ELSE rules[best].value
-----------------------------------------------------------------------------
(* update() of both handlers, at a time, with users and timestamps as given. *)
Update(active, at, where, mem) ==
  LET checks == [i \in Indices |-> Validate(rules[i], mem[i], at.now, where)]
      looks  == active /\ at.set /\ where # Uncertain
      found  == IF looks THEN {i \in Indices : checks[i].valid} ELSE valid
  IN /\ memory' = IF looks THEN [i \in Indices |-> checks[i].memory] ELSE mem
     /\ valid' = found
     /\ intended' =
          [switch |-> IF ~ active THEN NoValue
                      ELSE IF where = Uncertain THEN intended.switch
                      ELSE IF ~ at.set THEN NoValue
                      ELSE ComputeIntendedState(found, at.now),
           twilight |-> IF active /\ at.set THEN ComputeTwilight(at.now) ELSE NoValue]
     /\ clock' = at /\ people' = where /\ enabled' = active
     /\ UNCHANGED rules

Older(age) == IF age \in {Never, Cap} THEN age ELSE age + 1

\* A second passes: SwitchAggregator updates the handlers.  Users who are not
\* seen any more are forgotten without a mutation.
Tick ==
  \E where \in (SUBSET Rooms) \cup {Uncertain} :
    /\ where = Uncertain => people = Uncertain
    /\ Update(enabled, [clock EXCEPT !.now = IF clock.set THEN (@ + 1) % (Day * Week) ELSE @], where,
              [i \in Indices |-> [memory[i] EXCEPT !.seen = Older(@), !.extensionSeen = Older(@)]])
    /\ lasted' = [i \in Indices |->
                    IF i \notin valid' THEN 0 ELSE IF lasted[i] = Cap THEN Cap ELSE lasted[i] + 1]

\* EVT_PRESENCE_MUTATION: within the second.
PresenceMutation ==
  \E where \in (SUBSET Rooms) \ {people} :
    /\ people # Uncertain
    /\ Update(enabled, clock, where, memory)
    /\ lasted' = [i \in Indices |-> IF i \in valid' THEN lasted[i] ELSE 0]

\* STATE_BEHAVIOUR_SETTINGS.
SettingsChange ==
  /\ Update(~ enabled, clock, people, memory)
  /\ lasted' = [i \in Indices |-> IF i \in valid' THEN lasted[i] ELSE 0]

\* The time is set, once.
SetTime ==
  /\ ~ clock.set
  /\ \E now \in 0 .. Day * Week - 1 : clock' = [set |-> TRUE, now |-> now]
  /\ UNCHANGED <<rules, people, memory, enabled, intended, valid, lasted>>

\* init(): the behaviours are loaded, what they remembered is gone.
Boot ==
  /\ clock' = [set |-> FALSE, now |-> 0] /\ people' = Uncertain
  /\ memory' = [i \in Indices |-> Fresh]
  /\ intended' = [switch |-> NoValue, twilight |-> NoValue]
  /\ valid' = {} /\ lasted' = [i \in Indices |-> 0]
  /\ UNCHANGED <<rules, enabled>>

Next == Tick \/ PresenceMutation \/ SettingsChange \/ SetTime \/ Boot

Spec == Init /\ [][Next]_handlerVars
-----------------------------------------------------------------------------
\* The timestamps have ages, and the intended states are values or none.
TypeOK ==
  /\ memory \in [Indices -> [seen : Ages, extended : BOOLEAN, extensionSeen : Ages]]
  /\ clock \in [set : BOOLEAN, now : 0 .. Day * Week - 1]
  /\ people \in (SUBSET Rooms) \cup {Uncertain} /\ enabled \in BOOLEAN
  /\ intended.switch \in NoValue .. FullyOn /\ intended.twilight \in NoValue .. FullyOn
  /\ valid \subseteq Indices /\ lasted \in [Indices -> 0 .. Cap]

\* What the comments of the conflict resolution tell: rooms before sphere,
\* absence before presence, more rooms, then the one that started last, then the
\* one that ends first; then the lowest value.
SinceStart(r) == (clock.now - r.from) % Day
Rank(r) == <<Relevance[r.presence.condition], IF IsRoomBased(r.presence) THEN Cardinality(r.presence.rooms) ELSE 0,
             - SinceStart(r), - Normalized(r.until, clock.now), - r.value>>
TwilightRank(r) == <<- SinceStart(r), - Normalized(r.until, clock.now), - r.value>>

\* Of two ranks, the first difference counts.
Above(a, b) == \E k \in DOMAIN a : a[k] > b[k] /\ \A j \in 1 .. k - 1 : a[j] = b[j]

\* The intended state is that of the most relevant behaviour, whatever their
\* order in the store, and off without any; but not in the second in which one
\* of them starts (resolveSwitchBehaviour(), computeIntendedState()).
MostRelevantWins ==
  LET twilights == Twilights(clock.now)
      Starts(i) == SinceStart(rules[i]) = 0
  IN /\ intended.switch # NoValue /\ clock.set /\ people # Uncertain /\ (\A i \in valid : ~ Starts(i)) =>
          \/ valid = {} /\ intended.switch = 0
          \/ \E i \in valid : /\ intended.switch = rules[i].value
                              /\ \A j \in valid : ~ Above(Rank(rules[j]), Rank(rules[i]))
     /\ intended.twilight # NoValue /\ (\A i \in twilights : ~ Starts(i)) =>
          \/ twilights = {} /\ intended.twilight = FullyOn
          \/ \E i \in twilights : /\ intended.twilight = rules[i].value
                                  /\ \A j \in twilights : ~ Above(TwilightRank(rules[j]), TwilightRank(rules[i]))

\* Users at the border of two rooms make no behaviour flicker: as long as its
\* time lasts, a behaviour that waits for users is valid for its timeout at least
\* (SwitchBehaviour::isValid()); and one of kind "extended" does not become valid
\* when its time is over (ExtendedSwitchBehaviour::isValid()).
NoFlicker ==
  [][\A i \in Indices : LET r == rules[i] IN
       /\ /\ i \in valid /\ i \notin valid' /\ clock'.set
          /\ RequiresPresence(r.presence)
          /\ InTime(r, clock'.now) /\ enabled /\ enabled'
          => lasted[i] >= r.presence.timeout
       /\ i \notin valid /\ i \in valid' => InTime(r, clock'.now)]_handlerVars

\* An extension without a timeout ends as soon as its condition is not met
\* (docs/protocol/BEHAVIOUR.md, Smart timer).
ExtensionEndsAtOnce ==
  \A i \in valid : LET r == rules[i] IN
    r.kind = "extended" /\ r.extension.timeout = 0 /\ clock.set /\ ~ InTime(r, clock.now) =>
      IsTrue(r.extension, people)
=============================================================================
