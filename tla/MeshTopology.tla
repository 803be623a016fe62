---------------------------- MODULE MeshTopology ----------------------------
(***************************************************************************)
(* The list of neighbours of a stone (cs_MeshTopology.cpp): every message  *)
(* of the mesh that was not relayed tells how loud its sender is, on the   *)
(* channel it came in.  What is known of one neighbour at a time is told   *)
(* over the mesh, in turn.  Items of the array shift when one is removed,  *)
(* and what is beyond the count stays as it was.                           *)
(*                                                                         *)
(* A signal strength is the stone that it was measured of, and 0 is        *)
(* RSSI_INIT; that of one of the three channels is kept, as the other two  *)
(* are treated alike.  Left out: the noop that lets others hear this       *)
(* stone, and the requests of addresses (they are in CrownstoneCentral).   *)
(***************************************************************************)
EXTENDS Naturals

CONSTANTS NumStones,       \* stones that can be heard
          MaxNeighbours,   \* MAX_NEIGHBOURS
          TimeoutSeconds,  \* TIMEOUT_SECONDS
          FastInterval, Interval,  \* SEND_INTERVAL_SECONDS_PER_NEIGHBOUR(_FAST)
          FastTime         \* FAST_INTERVAL_TIMEOUT_SECONDS

VARIABLES neighbours,     \* the array _neighbours, index 0 first
          count,          \* _neighbourCount
          nextSend,       \* _nextSendIndex
          sendCountdown, fastCountdown,
          skipped,        \* history: per neighbour, those sent since it was sent
          outOfTurn       \* history: one was sent twice before another one

topologyVars == <<neighbours, count, nextSend, sendCountdown, fastCountdown, skipped, outOfTurn>>

Stones == 1 .. NumStones
NoRssi == 0

Init ==
  /\ neighbours = [i \in 0 .. MaxNeighbours - 1 |-> [id |-> 0, rssi |-> NoRssi, ago |-> 0]]
  /\ count = 0
  /\ nextSend = 0
  /\ sendCountdown = 2
  /\ fastCountdown = FastTime
  /\ skipped = [s \in Stones |-> {}]
  /\ outOfTurn = FALSE
-----------------------------------------------------------------------------
Known == {neighbours[i].id : i \in 0 .. count - 1}

\* updateNeighbour(); `here` is whether the message came in on the channel of rssi.
Updated(node, id, here) ==
  [node EXCEPT !.id = id, !.rssi = IF here THEN id ELSE @, !.ago = 0]

\* add(), for a message that was not relayed.
Add(id, here) ==
  IF id \in Known
  THEN /\ \E i \in 0 .. count - 1 :
            /\ neighbours[i].id = id
            /\ neighbours' = [neighbours EXCEPT ![i] = Updated(@, id, here)]
       /\ UNCHANGED count
  ELSE IF count < MaxNeighbours
  THEN /\ neighbours' = [neighbours EXCEPT
            ![count] = Updated([@ EXCEPT !.rssi = NoRssi], id, here)]
       /\ count' = count + 1
  ELSE UNCHANGED <<neighbours, count>>

OnMeshMsg(id, here) ==
  /\ Add(id, here)
  /\ UNCHANGED <<nextSend, sendCountdown, fastCountdown, skipped, outOfTurn>>

\* One turn of the loop of onTickSecond(): the item at l.at grows older, and is
\* removed when it was not seen for too long, by shifting those after it.
AgeNext(l) ==
  LET older == [l EXCEPT !.items[l.at].ago = @ + 1]
  IN  IF older.items[l.at].ago # TimeoutSeconds THEN [older EXCEPT !.at = @ + 1]
      ELSE [older EXCEPT
              !.count = @ - 1,
              !.items = [j \in DOMAIN @ |->
                IF l.at <= j /\ j < l.count - 1 THEN @[j + 1] ELSE @[j]],
              !.next = IF @ > l.at THEN @ - 1 ELSE @]

\* The list after so many turns, and after the loop.
Turned[turn \in 0 .. MaxNeighbours] ==
  IF turn = 0 THEN [items |-> neighbours, count |-> count, next |-> nextSend, at |-> 0]
  ELSE AgeNext(Turned[turn - 1])
Aged == Turned[count]

\* The index that sendNext() takes.
SendIndex(l) == IF l.next >= l.count THEN 0 ELSE l.next

IntervalOf(n) == (IF fastCountdown > 0 THEN FastInterval ELSE Interval) \div (IF n = 0 THEN 1 ELSE n)

OnTickSecond ==
  LET l     == Aged
      known == {l.items[i].id : i \in 0 .. l.count - 1}
      sends == sendCountdown <= 1 /\ l.count > 0
      sent  == l.items[SendIndex(l)].id
  IN  /\ neighbours' = l.items
      /\ count' = l.count
      /\ nextSend' = IF sends THEN SendIndex(l) + 1 ELSE l.next
      /\ sendCountdown' = IF sendCountdown <= 1 THEN IntervalOf(l.count) ELSE sendCountdown - 1
      /\ fastCountdown' = IF fastCountdown = 0 THEN 0 ELSE fastCountdown - 1
      /\ skipped' = [s \in Stones |->
           IF s \notin known \/ (sends /\ s = sent) THEN {}
           ELSE (skipped[s] \cap known) \cup (IF sends THEN {sent} ELSE {})]
      /\ outOfTurn' = (sends /\ \E s \in known \ {sent} : sent \in skipped[s])

\* CMD_MESH_TOPO_RESET; _nextSendIndex stays.
Reset ==
  /\ count' = 0
  /\ sendCountdown' = 2
  /\ fastCountdown' = FastTime
  /\ skipped' = [s \in Stones |-> {}]
  /\ UNCHANGED <<neighbours, nextSend, outOfTurn>>

Next ==
  \/ \E id \in Stones, here \in BOOLEAN : OnMeshMsg(id, here)
  \/ OnTickSecond
  \/ Reset
-----------------------------------------------------------------------------
(* Properties.                                                             *)

\* Each neighbour is in the list once, and what is told of it was measured of it:
\* not of the stone that had its slot before (add(), and the shift in
\* onTickSecond()).
NeighboursAreTrue ==
  \A i \in 0 .. count - 1 :
    /\ \A j \in 0 .. count - 1 : i # j => neighbours[i].id # neighbours[j].id
    /\ neighbours[i].rssi \in {NoRssi, neighbours[i].id}
    /\ neighbours[i].ago < TimeoutSeconds

\* They are told of in turn: none a second time before each that was there then,
\* and still is, was told of once, however the list changes meanwhile (sendNext()).
InTurn == ~ outOfTurn
=============================================================================
