------------------------------ MODULE Presence ------------------------------
(***************************************************************************)
(* Where users are, by the stones of a mesh (cs_PresenceHandler).  A stone *)
(* that scans the phone of a user keeps a record of it for a while, and    *)
(* sends it over the mesh, not too often.  Stones that receive it keep a   *)
(* record as well, but do not send it on.  Listeners get events when users *)
(* enter and leave, and none about the sphere just after a boot.           *)
(*                                                                         *)
(* A place is a profile and a location: the phone of one user in one room. *)
(* A record that is not valid has timeout 0.  The messages in the mesh of  *)
(* one stone about one place are one message that may arrive again.        *)
(***************************************************************************)
EXTENDS Naturals, FiniteSets

CONSTANTS Stones, Places,
          MaxRecords,   \* MAX_RECORDS
          Timeout,      \* PRESENCE_TIMEOUT_SECONDS
          Throttles,    \* what the mesh countdown may start with
          Uncertain     \* PRESENCE_UNCERTAIN_SECONDS_AFTER_BOOT

NoRecord == [timeout |-> 0, mesh |-> 0]

VARIABLES
  near,      \* places that have a user now
  records,   \* of each stone and place: the two countdowns
  uptime,    \* of each stone: seconds since boot, as far as they matter
  air,       \* mesh messages: receiver and place
  told       \* what the listeners of each stone were told: places, sphere

presenceVars == <<near, records, uptime, air, told>>

Init ==
  /\ near = {}
  /\ records = [s \in Stones |-> [p \in Places |-> NoRecord]]
  /\ uptime = [s \in Stones |-> 0]
  /\ air = {}
  /\ told = [s \in Stones |-> [places |-> {}, sphere |-> "unknown"]]
-----------------------------------------------------------------------------
Present(recs) == {p \in Places : recs[p].timeout # 0}

\* getMutationType(), as far as it leads to events about the sphere: both
\* descriptions have a value.
Sphere(s, before, after) ==
  IF uptime[s] < Uncertain THEN told[s].sphere
  ELSE IF Present(before) = {} /\ Present(after) # {} THEN "present"
  ELSE IF Present(before) # {} /\ Present(after) = {} THEN "absent"
  ELSE told[s].sphere

\* Mutant: there is room for one more.
KeepAll(recs, p) == recs

\* The records without the one that clearOldestRecord() overwrites for p.
MakeRoom(recs, p) ==
  LET old == CHOOSE q \in Present(recs) : \A r \in Present(recs) : recs[q].timeout <= recs[r].timeout
  IN IF p \notin Present(recs) /\ Cardinality(Present(recs)) = MaxRecords
     THEN [recs EXCEPT ![old] = NoRecord] ELSE recs

\* sendMeshMessage(), when the mesh countdown is 0.
Forward(s, p, fromMesh, countdown) ==
  IF countdown = 0 /\ ~fromMesh THEN (Stones \ {s}) \X {p} ELSE {}

\* handlePresenceEvent() and handleProfileLocation(): the sum of the air that is
\* left and what is sent.
HandlePresence(s, p, fromMesh, throttle, left) ==
  LET recs == MakeRoom(records[s], p)
      countdown == recs[p].mesh
      after == [recs EXCEPT ![p] = [timeout |-> Timeout,
                                    mesh |-> IF countdown = 0 THEN throttle ELSE countdown]]
  IN /\ records' = [records EXCEPT ![s] = after]
     /\ air' = left \cup Forward(s, p, fromMesh, countdown)
     /\ told' = [told EXCEPT ![s] =
          [places |-> IF p \in Present(records[s]) THEN @.places ELSE @.places \cup {p},
           sphere |-> Sphere(s, records[s], after)]]

\* A stone scans the phone of a user.
Scan(s, p, throttle) ==
  /\ p \in near
  /\ HandlePresence(s, p, FALSE, throttle, air)
  /\ UNCHANGED <<near, uptime>>

\* A mesh message arrives, and perhaps again later.
Receive(s, p, throttle, again) ==
  /\ <<s, p>> \in air
  /\ HandlePresence(s, p, TRUE, throttle, IF again THEN air ELSE air \ {<<s, p>>})
  /\ UNCHANGED <<near, uptime>>

Lose(s, p) ==
  /\ <<s, p>> \in air
  /\ air' = air \ {<<s, p>>}
  /\ UNCHANGED <<near, records, uptime, told>>

Decrease(n) == IF n = 0 THEN 0 ELSE n - 1

\* Mutant: the events about the sphere compare with what is left.
QuietTick(s, before, after) == Sphere(s, after, after)

\* The event about the sphere of tickSecond().
TickedSphere(s, before, after) == Sphere(s, before, after)

\* tickSecond(): a record that times out keeps its mesh countdown, but is not
\* used again as it is.
TickSecond(s) ==
  LET recs == records[s]
      after == [p \in Places |->
                  IF recs[p].timeout <= 1 THEN NoRecord
                  ELSE [timeout |-> recs[p].timeout - 1, mesh |-> Decrease(recs[p].mesh)]]
  IN /\ records' = [records EXCEPT ![s] = after]
     /\ told' = [told EXCEPT ![s] =
          [places |-> @.places \ (Present(recs) \ Present(after)),
           sphere |-> TickedSphere(s, recs, after)]]
     /\ uptime' = [uptime EXCEPT ![s] = IF @ < Uncertain THEN @ + 1 ELSE @]
     /\ UNCHANGED <<near, air>>

Reset(s) ==
  /\ records' = [records EXCEPT ![s] = [p \in Places |-> NoRecord]]
  /\ uptime' = [uptime EXCEPT ![s] = 0]
  /\ told' = [told EXCEPT ![s] = [places |-> {}, sphere |-> "unknown"]]
  /\ UNCHANGED <<near, air>>

\* A user comes or goes.
Walk(p) ==
  /\ near' = IF p \in near THEN near \ {p} ELSE near \cup {p}
  /\ UNCHANGED <<records, uptime, air, told>>

Next ==
  \/ \E p \in Places : Walk(p)
  \/ \E s \in Stones :
       \/ TickSecond(s) \/ Reset(s)
       \/ \E p \in Places :
            \/ Lose(s, p)
            \/ \E throttle \in Throttles :
                 Scan(s, p, throttle) \/ \E again \in BOOLEAN : Receive(s, p, throttle, again)

\* Seconds go by, and a message does not stay in the mesh.
Fairness ==
  \A s \in Stones :
    /\ WF_presenceVars(TickSecond(s))
    /\ \A p \in Places : WF_presenceVars(Lose(s, p))

Spec == Init /\ [][Next]_presenceVars /\ Fairness
-----------------------------------------------------------------------------
\* Records, messages and what was told have their types.
TypeOK ==
  /\ near \subseteq Places
  /\ records \in [Stones -> [Places -> [timeout : 0 .. Timeout, mesh : Nat]]]
  /\ \A s \in Stones : Cardinality(Present(records[s])) <= MaxRecords
  /\ uptime \in [Stones -> 0 .. Uncertain]
  /\ air \subseteq Stones \X Places
  /\ told \in [Stones -> [places : SUBSET Places, sphere : {"unknown", "present", "absent"}]]

\* Who follows the events knows who is present: a user without an enter event is
\* not present, and once an event about the sphere came, it is right.  That
\* holds with users who come just after a boot and with records that are
\* overwritten; but a user whose record was overwritten gets no exit event.
EventsTellPresence ==
  \A s \in Stones :
    /\ Present(records[s]) \subseteq told[s].places
    /\ told[s].sphere # "unknown" => (told[s].sphere = "present" <=> Present(records[s]) # {})

\* When no user is near any more, all stones forget them: stones do not keep a
\* user alive by telling each other.
PresenceEnds ==
  (<>[](near = {})) => <>[](\A s \in Stones : Present(records[s]) = {})
=============================================================================
