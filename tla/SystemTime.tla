----------------------------- MODULE SystemTime -----------------------------
(***************************************************************************)
(* The clocks of the stones of one mesh (cs_SystemTime).  A clock is the   *)
(* moment it was started from: at a boot, or with a set time command.      *)
(* Clocks of one moment show the same time, so drift is left out.          *)
(*                                                                         *)
(* Each stone regularly broadcasts its clock.  A stone adopts a clock with *)
(* a newer version, or the clock of a stone with an id that is not above   *)
(* that of its root.  A set time command makes the root 0: until nothing   *)
(* was adopted for the re-election time, only such clocks are accepted.    *)
(*                                                                         *)
(* The mesh loses broadcasts for some of the stones, delays them, and      *)
(* repeats those of a set time command, with the time they started with.   *)
(***************************************************************************)
EXTENDS Naturals, Lollipop

CONSTANTS NumStones,    \* stones, with ids from 1
          NumClocks,    \* bound: clocks that are started in a behaviour
          Reelection,   \* periods without a sync message before a re-election
          VersionMax    \* timestamp_version_lollipop_max()

StoneIds == 1 .. NumStones
AnyId  == 255                                               \* stone_id_init()
Silence == [src |-> AnyId, version |-> 0, clock |-> 0, to |-> {}]

VARIABLES
  time,      \* of each stone: clock, version, root, periods since a sync, in sync
  air,       \* of each stone: its last broadcast, and who may still receive it
  started    \* number of clocks that were started

timeVars == <<time, air, started>>

Boot(clock) == [clock |-> clock, version |-> 0, root |-> AnyId, since |-> 0, synced |-> FALSE]

Init ==
  /\ time = [s \in StoneIds |-> Boot(s)]
  /\ air = [s \in StoneIds |-> Silence]
  /\ started = NumStones
-----------------------------------------------------------------------------
\* isRootClock()
IsRootClock(t, id) == id <= t.root

Adopts(t, msg) ==
  \/ IsNewer(t.version, msg.version, VersionMax)
  \/ t.version = msg.version /\ IsRootClock(t, msg.src)

\* onTimeSyncMessageReceive(): adopt clock and root; with an own id that is not
\* above the root's, this stone is the root from now on.
OnTimeSyncMessage(s, t, msg) ==
  IF ~Adopts(t, msg) THEN t
  ELSE [clock |-> msg.clock, version |-> msg.version, since |-> 0, synced |-> TRUE,
        root |-> IF s <= msg.src THEN s ELSE msg.src]

\* sendTimeSyncMessage(): reaches the stones `to` in a while.
Send(s, src, t, to) ==
  air' = [air EXCEPT ![s] = [src |-> src, version |-> t.version, clock |-> t.clock, to |-> to]]

\* Mutant: the root that is silent stays the root.
KeepRoot(s, t) == t

\* What syncTimeCoroutineAction() does when the re-election period timed out.
Claim(s, t) == IF t.since >= Reelection THEN [t EXCEPT !.root = s] ELSE t

\* syncTimeCoroutineAction(), at boot and then each 20 minutes.
Period(s, to) ==
  LET t == Claim(s, time[s])
  IN /\ time' = [time EXCEPT ![s] = [t EXCEPT !.since = IF @ < Reelection THEN @ + 1 ELSE @]]
     /\ Send(s, s, t, to)
     /\ UNCHANGED started

\* A stone without a valid time asks for it: a stone that considers itself in
\* sync answers, or leaves it to others.
AnswerSyncRequest(s, to) ==
  /\ \E r \in StoneIds \ {s} : time[r].version = 0
  /\ time[s].synced
  /\ Send(s, s, time[s], to)
  /\ UNCHANGED <<time, started>>

\* The boot timeout: in sync, without having heard from another stone.
RebootTimedOut(s) ==
  /\ ~time[s].synced
  /\ time' = [time EXCEPT ![s].synced = TRUE]
  /\ UNCHANGED <<air, started>>

\* setTime(): a new version and root 0; what came by UART or from a connected
\* phone goes to the mesh as well.
SetTime(s, toMesh, to) ==
  LET t == [time[s] EXCEPT !.clock = started + 1, !.root = 0,
                           !.version = NextVersion(@, VersionMax)]
  IN /\ started < NumClocks
     /\ started' = started + 1
     /\ time' = [time EXCEPT ![s] = t]
     /\ IF toMesh THEN Send(s, 0, t, to) ELSE air' = air

\* A broadcast arrives; a copy of a set time broadcast may follow.
Receive(s, r, again) ==
  /\ r \in air[s].to
  /\ again => air[s].src = 0
  /\ time' = [time EXCEPT ![r] = OnTimeSyncMessage(r, time[r], air[s])]
  /\ air' = IF again THEN air ELSE [air EXCEPT ![s].to = @ \ {r}]
  /\ UNCHANGED started

\* A reset: what was sent is still on its way.
Reboot(s) ==
  /\ started < NumClocks
  /\ started' = started + 1
  /\ time' = [time EXCEPT ![s] = Boot(started + 1)]
  /\ UNCHANGED air

Next ==
  \E s \in StoneIds :
    \/ \E to \in SUBSET (StoneIds \ {s}) :
         \/ Period(s, to)
         \/ AnswerSyncRequest(s, to)
         \/ \E toMesh \in BOOLEAN : SetTime(s, toMesh, to)
    \/ RebootTimedOut(s) \/ Reboot(s)
    \/ \E r \in StoneIds, again \in BOOLEAN : Receive(s, r, again)

\* The coroutines run, and what is broadcast to a stone again and again arrives
\* again and again: the last copy of it, at least.
Fairness ==
  \A s \in StoneIds :
    /\ WF_timeVars(Period(s, StoneIds \ {s}))
    /\ \A r \in StoneIds \ {s} : SF_timeVars(Receive(s, r, FALSE))

Spec == Init /\ [][Next]_timeVars /\ Fairness
-----------------------------------------------------------------------------
\* The clocks and broadcasts have their types.
TypeOK ==
  /\ started \in NumStones .. NumClocks
  /\ \A s \in StoneIds :
       /\ time[s].clock \in 1 .. started /\ time[s].version \in 0 .. VersionMax - 1
       /\ time[s].root \in StoneIds \cup {0, AnyId} /\ time[s].since \in 0 .. Reelection
       /\ air[s].to \subseteq StoneIds \ {s} /\ air[s].src \in {0, s, AnyId}

\* When no clock is started any more, all stones get the same clock and keep
\* it, however the set time commands and resets before crossed each other: two
\* stones whose time was set at once may swap their clocks, and the re-election
\* settles it.
ClocksAgree ==
  <>[](\A s, r \in StoneIds : time[s].clock = time[r].clock /\ time[s].version = time[r].version)
=============================================================================
