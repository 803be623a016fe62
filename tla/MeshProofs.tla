----------------------------- MODULE MeshProofs -----------------------------
(***************************************************************************)
(* Proofs about the acked multicast queue, for every number of slots,      *)
(* items, stones and calls.                                                *)
(*                                                                         *)
(* The queue works on the record m in three steps: an item is put in a     *)
(* slot, what is done is freed, and what is next is sent.  Each step has   *)
(* its lemmas, on any record q, and each action is one or two of them.     *)
(***************************************************************************)
EXTENDS MeshProps, SequenceFacts, TLAPS

Cells == [id : Items, ids : Lists, priority : Priorities] \cup {NoItem}

Models == [slot : [Slots -> Cells], inProgress : Slots \cup {None}, next : Slots,
           callsLeft : 0 .. Calls, mask : [bits : Nat, set : SUBSET Nat]]

\* The record is of its type, and what is in progress is in a slot that is in
\* use, with a bit for each stone id.
GoodQueue(q) ==
  /\ q \in Models
  /\ q.inProgress # None =>
       /\ q.slot[q.inProgress] # NoItem
       /\ q.mask.bits = Len(q.slot[q.inProgress].ids)
       /\ q.mask.set \subseteq 1 .. q.mask.bits

\* Each slot in use holds an accepted item.
Held(q, acc) ==
  \A x \in Slots : q.slot[x] # NoItem =>
    q.slot[x].id \in DOMAIN acc /\ acc[q.slot[x].id] = q.slot[x].ids
-----------------------------------------------------------------------------
\* The ring of slots: d slots on, counted from slot n.
LEMMA Wrap ==
  ASSUME NEW n \in Slots, NEW d \in Slots
  PROVE  /\ (n + d) % QueueSize \in Slots
         /\ (n + d) % QueueSize = IF n + d < QueueSize THEN n + d ELSE n + d - QueueSize
<1>1. QueueSize \in Nat \ {0}
  BY MeshAssumption
<1> QED
  BY <1>1 DEF Slots

\* Each slot is some number of slots on.
LEMMA Around ==
  ASSUME NEW n \in Slots, NEW x \in Slots
  PROVE  \E d \in Slots : (n + d) % QueueSize = x
<1>1. QueueSize \in Nat \ {0}
  BY MeshAssumption
<1>2. CASE x >= n
  <2>1. x - n \in Slots /\ n + (x - n) < QueueSize
    BY <1>1, <1>2 DEF Slots
  <2>2. (n + (x - n)) % QueueSize = n + (x - n)
    BY <2>1, Wrap
  <2> QED
    BY <2>1, <2>2 DEF Slots
<1>3. CASE x < n
  <2>1. x - n + QueueSize \in Slots /\ ~ (n + (x - n + QueueSize) < QueueSize)
    BY <1>1, <1>3 DEF Slots
  <2>2. (n + (x - n + QueueSize)) % QueueSize = n + (x - n + QueueSize) - QueueSize
    BY <2>1, Wrap
  <2>3. n + (x - n + QueueSize) - QueueSize = x
    BY <1>1 DEF Slots
  <2> QED
    BY <2>1, <2>2, <2>3
<1> QED
  BY <1>2, <1>3 DEF Slots

\* First() finds the member of a set that is the fewest slots on.
LEMMA FirstIs ==
  ASSUME NEW q, q.next \in Slots, NEW S,
         NEW d \in Slots, (q.next + d) % QueueSize \in S,
         \A e \in 0 .. d - 1 : (q.next + e) % QueueSize \notin S
  PROVE  First(q, S) = (q.next + d) % QueueSize
<1> DEFINE P(f) == /\ (q.next + f) % QueueSize \in S
                   /\ \A e \in 0 .. f - 1 : (q.next + e) % QueueSize \notin S
<1> DEFINE c == CHOOSE f \in Slots : P(f)
<1>1. c \in Slots /\ P(c)
  BY Zenon
<1>2. First(q, S) = (q.next + c) % QueueSize
  BY DEF First
<1> HIDE DEF c
<1>3. d \in Nat /\ c \in Nat
  BY <1>1, MeshAssumption DEF Slots
<1>4. ~ (c < d) /\ ~ (d < c)
  BY <1>1, <1>3
<1>5. c = d
  BY <1>3, <1>4
<1> QED
  BY <1>2, <1>5

LEMMA FirstInSet ==
  ASSUME NEW q, q.next \in Slots, NEW S \in SUBSET Slots, S # {}
  PROVE  First(q, S) \in S
<1> DEFINE T == {d \in Slots : (q.next + d) % QueueSize \in S}
<1>1. T \in SUBSET Nat /\ T # {}
  <2>1. PICK x \in Slots : x \in S
    OBVIOUS
  <2>2. PICK d \in Slots : (q.next + d) % QueueSize = x
    BY Around
  <2>3. T # {}
    BY <2>1, <2>2
  <2> QED
    BY <2>3, MeshAssumption DEF Slots
<1>2. PICK d \in T : \A e \in T : d <= e
  BY <1>1, Smallest
<1>3. ASSUME NEW e \in 0 .. d - 1 PROVE (q.next + e) % QueueSize \notin S
  <2>1. e \in Slots /\ ~ (d <= e)
    BY MeshAssumption DEF Slots
  <2> QED
    BY <1>2, <2>1
<1>4. First(q, S) = (q.next + d) % QueueSize
  BY <1>3, FirstIs
<1> QED
  BY <1>4
-----------------------------------------------------------------------------
\* No item is a free slot, and no slot is NONE.
LEMMA Apart ==
  /\ None \notin Slots /\ NoItem.id = 0 /\ QueueSize \in Nat \ {0} /\ Calls \in Nat \ {0}
  /\ NumItems \in Nat \ {0}
  /\ \A c \in Cells : c # NoItem <=> c \in [id : Items, ids : Lists, priority : Priorities]
<1>1. \A c \in [id : Items, ids : Lists, priority : Priorities] : c.id # 0
  BY MeshAssumption DEF Items
<1>2. NoItem.id = 0
  BY DEF NoItem
<1> QED
  BY <1>1, <1>2, MeshAssumption DEF Cells, None, Slots

LEMMA Record ==
  ASSUME NEW q \in Models
  PROVE  /\ q = [slot |-> q.slot, inProgress |-> q.inProgress, next |-> q.next,
                 callsLeft |-> q.callsLeft, mask |-> q.mask]
         /\ q.slot \in [Slots -> Cells] /\ q.inProgress \in Slots \cup {None}
         /\ q.next \in Slots /\ q.callsLeft \in 0 .. Calls
         /\ q.mask \in [bits : Nat, set : SUBSET Nat]
BY DEF Models

\* addToQueue() puts the item in a free slot.
LEMMA Put ==
  ASSUME NEW q, GoodQueue(q), NEW acc \in Seq(Lists), Held(q, acc),
         Len(acc) < NumItems, FreeSlots(q) # {},
         NEW ids \in Lists, NEW priority \in Priorities
  PROVE  LET x == First(q, FreeSlots(q))
             r == [q EXCEPT !.slot[x] = [id |-> Len(acc) + 1, ids |-> ids, priority |-> priority]]
         IN /\ x \in FreeSlots(q)
            /\ GoodQueue(r) /\ Held(r, Append(acc, ids))
            /\ r.inProgress = q.inProgress /\ r.next = q.next /\ r.mask = q.mask
            /\ r.slot = [q.slot EXCEPT ![x] = [id |-> Len(acc) + 1, ids |-> ids, priority |-> priority]]
            /\ q.inProgress # x
<1> DEFINE x == First(q, FreeSlots(q))
           it == [id |-> Len(acc) + 1, ids |-> ids, priority |-> priority]
           r == [q EXCEPT !.slot[x] = it]
<1>1. x \in FreeSlots(q) /\ x \in Slots /\ q.slot[x] = NoItem
  <2>1. q.next \in Slots
    BY Record DEF GoodQueue
  <2> QED
    BY <2>1, FirstInSet DEF FreeSlots
<1>2. it \in Cells /\ it # NoItem /\ it.id = Len(acc) + 1 /\ it.ids = ids
  <2>1. it \in [id : Items, ids : Lists, priority : Priorities]
    BY Apart DEF Items
  <2> QED
    BY <2>1, Apart DEF Cells
<1>3. q.inProgress # x
  BY <1>1 DEF GoodQueue, None, Slots
<1> HIDE DEF x, it
<1>4. /\ r.slot = [q.slot EXCEPT ![x] = it]
      /\ r.inProgress = q.inProgress /\ r.next = q.next /\ r.mask = q.mask /\ r.callsLeft = q.callsLeft
      /\ r \in Models
  BY <1>1, <1>2, Record DEF GoodQueue, Models
<1> HIDE DEF r
<1>5. \A y \in Slots : r.slot[y] = IF y = x THEN it ELSE q.slot[y]
  BY <1>4, Record DEF GoodQueue
<1>6. GoodQueue(r)
  BY <1>3, <1>4, <1>5, Record DEF GoodQueue
<1>7. Held(r, Append(acc, ids))
  <2>1. DOMAIN Append(acc, ids) = 1 .. Len(acc) + 1 /\ DOMAIN acc = 1 .. Len(acc)
        /\ Append(acc, ids)[Len(acc) + 1] = ids
        /\ \A k \in 1 .. Len(acc) : Append(acc, ids)[k] = acc[k]
    OBVIOUS
  <2> SUFFICES ASSUME NEW y \in Slots, r.slot[y] # NoItem
               PROVE  /\ r.slot[y].id \in DOMAIN Append(acc, ids)
                      /\ Append(acc, ids)[r.slot[y].id] = r.slot[y].ids
    BY DEF Held
  <2>2. CASE y = x
    BY <1>2, <1>5, <2>1, <2>2
  <2>3. CASE y # x
    <3>1. r.slot[y] = q.slot[y]
      BY <1>5, <2>3
    <3>2. q.slot[y].id \in DOMAIN acc /\ acc[q.slot[y].id] = q.slot[y].ids
      BY <3>1 DEF Held
    <3> QED
      BY <2>1, <3>1, <3>2
  <2> QED
    BY <2>2, <2>3
<1> QED
  BY <1>1, <1>3, <1>4, <1>6, <1>7 DEF r, x, it

\* The bit of the own stone is one of the bits.
OwnBits(ids) == {k \in DOMAIN ids : ids[k] = Own /\ \A j \in 1 .. k - 1 : ids[j] # Own}

\* sendMsgFromQueue() sends nothing when something is in progress, and else what
\* is next, if the mesh takes it.
LEMMA Send ==
  ASSUME NEW q, GoodQueue(q), NEW ok \in BOOLEAN
  PROVE  LET r == SendMsgFromQueue(q, ok)
             x == GetNextItemInQueue(q)
         IN /\ GoodQueue(r) /\ r.slot = q.slot
            /\ q.inProgress # None => r = q
            /\ q.inProgress = None /\ r.inProgress = None => r.next = q.next
            /\ q.inProgress = None /\ r.inProgress # None =>
                 /\ ok /\ x \in Slots /\ q.slot[x] # NoItem
                 /\ r.inProgress = x /\ r.next = (x + 1) % QueueSize
                 /\ r.mask.set = OwnBits(q.slot[x].ids)
<1> DEFINE r == SendMsgFromQueue(q, ok)
           x == GetNextItemInQueue(q)
<1>1. CASE q.inProgress # None \/ FreeSlots(q) = Slots
  <2>1. r = q
    BY <1>1 DEF SendMsgFromQueue
  <2> QED
    BY <1>1, <2>1
<1>2. CASE q.inProgress = None /\ FreeSlots(q) # Slots
  <2>1. x \in Slots /\ q.slot[x] # NoItem
    <3>1. q.next \in Slots
      BY Record DEF GoodQueue
    <3> DEFINE used == Slots \ FreeSlots(q)
               high == {y \in used : q.slot[y].priority}
    <3>2. used # {} /\ used \in SUBSET Slots /\ high \in SUBSET Slots
      BY <1>2 DEF FreeSlots
    <3>3. First(q, IF high # {} THEN high ELSE used) \in used
      BY <3>1, <3>2, FirstInSet
    <3> QED
      BY <3>3 DEF GetNextItemInQueue, FreeSlots
  <2>2. q.slot[x] \in [id : Items, ids : Lists, priority : Priorities]
    BY <2>1, Record, Apart DEF GoodQueue
  <2> DEFINE ids == q.slot[x].ids
             p == PrepareForMsg(q, ids)
  <2>3. ids \in Lists /\ ids \in Seq(Others \cup {Own}) /\ Len(ids) \in Nat /\ DOMAIN ids = 1 .. Len(ids)
    BY <2>2, MeshAssumption
  <2>4. OwnBits(ids) \in SUBSET Nat /\ OwnBits(ids) \subseteq 1 .. Len(ids)
    BY <2>3 DEF OwnBits
  <2>5. p = [slot |-> q.slot, inProgress |-> q.inProgress, next |-> q.next,
             callsLeft |-> Calls, mask |-> [bits |-> Len(ids), set |-> OwnBits(ids)]]
    <3>1. p = [q EXCEPT !.callsLeft = Calls, !.mask = [bits |-> Len(ids), set |-> OwnBits(ids)]]
      BY Zenon DEF PrepareForMsg, OwnBits
    <3> QED
      BY <3>1, Record DEF GoodQueue
  <2>6. r = IF ok THEN [p EXCEPT !.inProgress = x, !.next = (x + 1) % QueueSize] ELSE p
    BY <1>2 DEF SendMsgFromQueue
  <2> HIDE DEF p, ids, x, r
  <2>7. r = [slot |-> q.slot, inProgress |-> IF ok THEN x ELSE q.inProgress,
             next |-> IF ok THEN (x + 1) % QueueSize ELSE q.next,
             callsLeft |-> Calls, mask |-> [bits |-> Len(ids), set |-> OwnBits(ids)]]
    BY <2>5, <2>6
  <2>8. (x + 1) % QueueSize \in Slots
    BY <2>1, Apart DEF Slots
  <2>9. r \in Models
    BY <2>1, <2>3, <2>4, <2>7, <2>8, Record, Apart DEF Models, GoodQueue
  <2>10. r.inProgress # None => r.inProgress = x /\ ok
    BY <1>2, <2>7
  <2>11. GoodQueue(r)
    BY <2>1, <2>4, <2>7, <2>9, <2>10 DEF GoodQueue, ids
  <2>12. r.inProgress = None => r.next = q.next
    BY <2>1, <2>7, Apart
  <2> QED
    BY <1>2, <2>1, <2>7, <2>10, <2>11, <2>12 DEF r, x, ids
<1> QED
  BY <1>1, <1>2

\* remQueueItem() frees a slot and empties the mask.
LEMMA Removed ==
  ASSUME NEW slot, NEW inProgress, NEW next, NEW callsLeft, NEW mask, NEW x
  PROVE  LET q == [slot |-> slot, inProgress |-> inProgress, next |-> next,
                   callsLeft |-> callsLeft, mask |-> mask]
         IN [RemQueueItem(q, x) EXCEPT !.inProgress = None] =
              [slot |-> [y \in Slots |-> IF y = x THEN NoItem ELSE slot[y]], inProgress |-> None,
               next |-> next, callsLeft |-> callsLeft, mask |-> Mask(0)]
<1> DEFINE q == [slot |-> slot, inProgress |-> inProgress, next |-> next,
                 callsLeft |-> callsLeft, mask |-> mask]
           E == [y \in Slots |-> IF y = x THEN NoItem ELSE q.slot[y]]
           none == Mask(0)
<1>1. RemQueueItem(q, x) = [q EXCEPT !.slot = E, !.mask = none]
  BY Zenon DEF RemQueueItem
<1>2. q.slot = slot
  OBVIOUS
<1>3. E = [y \in Slots |-> IF y = x THEN NoItem ELSE slot[y]]
  BY <1>2, Zenon
<1> HIDE DEF E, none
<1>4. [[q EXCEPT !.slot = E, !.mask = none] EXCEPT !.inProgress = None] =
        [slot |-> E, inProgress |-> None, next |-> next, callsLeft |-> callsLeft, mask |-> none]
  <2>1. [q EXCEPT !.slot = E, !.mask = none] =
          [slot |-> E, inProgress |-> inProgress, next |-> next, callsLeft |-> callsLeft, mask |-> none]
    <3> DEFINE o == [slot |-> E, inProgress |-> inProgress, next |-> next,
                     callsLeft |-> callsLeft, mask |-> mask]
    <3>1. [q EXCEPT !.slot = E] = o
      OBVIOUS
    <3>2. [o EXCEPT !.mask = none] =
            [slot |-> E, inProgress |-> inProgress, next |-> next, callsLeft |-> callsLeft, mask |-> none]
      OBVIOUS
    <3> HIDE DEF q, o
    <3> QED
      BY <3>1, <3>2, Zenon
  <2> DEFINE p == [slot |-> E, inProgress |-> inProgress, next |-> next,
                   callsLeft |-> callsLeft, mask |-> none]
  <2>2. [p EXCEPT !.inProgress = None] =
          [slot |-> E, inProgress |-> None, next |-> next, callsLeft |-> callsLeft, mask |-> none]
    OBVIOUS
  <2> HIDE DEF q
  <2> QED
    BY <2>1, <2>2, Zenon
<1> HIDE DEF q
<1>5. [RemQueueItem(q, x) EXCEPT !.inProgress = None] =
        [slot |-> [y \in Slots |-> IF y = x THEN NoItem ELSE slot[y]],
         inProgress |-> None, next |-> next, callsLeft |-> callsLeft, mask |-> Mask(0)]
  BY <1>1, <1>3, <1>4, Zenon DEF none
<1> QED
  BY <1>5, Zenon DEF q

\* checkDone() frees what has all acks or no time left, and counts down else.
LEMMA Check ==
  ASSUME NEW q, GoodQueue(q)
  PROVE  LET r == CheckDone(q)
         IN /\ GoodQueue(r) /\ r.next = q.next
            /\ q.inProgress = None => r = q
            /\ q.inProgress # None /\ (Acked(q) \/ TimedOut(q)) =>
                 r.inProgress = None /\ r.slot = [q.slot EXCEPT ![q.inProgress] = NoItem]
            /\ q.inProgress # None /\ ~ Acked(q) /\ ~ TimedOut(q) =>
                 r.inProgress = q.inProgress /\ r.slot = q.slot /\ r.mask = q.mask
<1> DEFINE r == CheckDone(q)
           x == q.inProgress
           freed == [q.slot EXCEPT ![x] = NoItem]
<1>1. CASE x = None
  BY <1>1 DEF CheckDone, AfterAcked, Acked, TimedOut
<1>2. CASE x # None /\ ~ Acked(q) /\ ~ TimedOut(q)
  <2>1. r = [slot |-> q.slot, inProgress |-> x, next |-> q.next,
             callsLeft |-> q.callsLeft - 1, mask |-> q.mask]
    BY <1>2, Record DEF CheckDone, AfterAcked, GoodQueue
  <2>2. q.callsLeft - 1 \in 0 .. Calls
    BY <1>2, Record, Apart DEF TimedOut, GoodQueue
  <2>3. r \in Models
    BY <2>1, <2>2, Record DEF Models, GoodQueue
  <2> QED
    BY <1>2, <2>1, <2>3 DEF GoodQueue
<1>3. CASE x # None /\ (Acked(q) \/ TimedOut(q))
  <2> DEFINE empty == [y \in Slots |-> IF y = x THEN NoItem ELSE q.slot[y]]
             again == [y \in Slots |-> IF y = None THEN NoItem ELSE empty[y]]
  <2>1. x \in Slots /\ empty = freed /\ again = freed /\ freed \in [Slots -> Cells]
    BY <1>3, Record, Apart DEF GoodQueue, Cells
  <2>5. [RemQueueItem(q, x) EXCEPT !.inProgress = None] =
          [slot |-> empty, inProgress |-> None, next |-> q.next,
           callsLeft |-> q.callsLeft, mask |-> Mask(0)]
    <3>1. q = [slot |-> q.slot, inProgress |-> q.inProgress, next |-> q.next,
               callsLeft |-> q.callsLeft, mask |-> q.mask]
      BY Record DEF GoodQueue
    <3> QED
      BY <3>1, Removed
  <2>2. PICK c \in 0 .. Calls :
          r = [slot |-> freed, inProgress |-> None, next |-> q.next, callsLeft |-> c, mask |-> Mask(0)]
    <3>1. CASE Acked(q)
      <4>1. AfterAcked(q) = [slot |-> empty, inProgress |-> None, next |-> q.next,
                             callsLeft |-> q.callsLeft, mask |-> Mask(0)]
        <5>1. AfterAcked(q) = [RemQueueItem(q, x) EXCEPT !.inProgress = None]
          BY <3>1 DEF AfterAcked
        <5> QED
          BY <2>5, <5>1
      <4>2. CASE TimedOut(q)
        <5>1. r = [slot |-> again, inProgress |-> None, next |-> q.next,
                   callsLeft |-> q.callsLeft, mask |-> Mask(0)]
          <6>1. r = [RemQueueItem(AfterAcked(q), AfterAcked(q).inProgress) EXCEPT !.inProgress = None]
            BY <4>2 DEF CheckDone
          <6>2. AfterAcked(q).inProgress = None
            BY <4>1
          <6> HIDE DEF r, empty
          <6>3. r = [RemQueueItem([slot |-> empty, inProgress |-> None, next |-> q.next,
                                   callsLeft |-> q.callsLeft, mask |-> Mask(0)], None)
                       EXCEPT !.inProgress = None]
            BY <4>1, <6>1, <6>2
          <6> QED
            BY <6>3, Removed
        <5> QED
          BY <5>1, <2>1, Record DEF GoodQueue
      <4>3. CASE ~ TimedOut(q)
        <5>1. r = [slot |-> empty, inProgress |-> None, next |-> q.next,
                   callsLeft |-> q.callsLeft - 1, mask |-> Mask(0)]
          BY <1>3, <4>1, <4>3 DEF CheckDone
        <5>2. q.callsLeft - 1 \in 0 .. Calls
          BY <1>3, <4>3, Record, Apart DEF TimedOut, GoodQueue
        <5> QED
          BY <5>1, <5>2, <2>1
      <4> QED
        BY <4>2, <4>3
    <3>2. CASE ~ Acked(q)
      <4>1. r = [slot |-> empty, inProgress |-> None, next |-> q.next,
                 callsLeft |-> q.callsLeft, mask |-> Mask(0)]
        <5>1. r = [RemQueueItem(q, x) EXCEPT !.inProgress = None]
          BY <1>3, <3>2 DEF CheckDone, AfterAcked
        <5> QED
          BY <2>5, <5>1
      <4> QED
        BY <4>1, <2>1, Record DEF GoodQueue
    <3> QED
      BY <3>1, <3>2
  <2>3. Mask(0) \in [bits : Nat, set : SUBSET Nat]
    BY DEF Mask
  <2>4. r \in Models
    BY <2>1, <2>2, <2>3, Record DEF Models, GoodQueue
  <2> QED
    BY <1>3, <2>1, <2>2, <2>4 DEF GoodQueue
<1> QED
  BY <1>1, <1>2, <1>3
-----------------------------------------------------------------------------
\* The state that is not in m has its type, and no verdict is on an item that
\* is still to be accepted.
WorldOK ==
  /\ accepted \in Seq(Lists) /\ Len(accepted) <= NumItems
  /\ uart \in [Items -> [verdicts : Seq({"SUCCESS", "TIMEOUT"}),
                         results : SUBSET ((Others \cup {Own}) \X {"reply", "TIMEOUT"})]]
  /\ started \in Seq(Items) /\ air \subseteq Items /\ received \in [Items -> SUBSET Others]

NoVerdictBefore == \A i \in Items : i > Len(accepted) => uart[i].verdicts = <<>>

TypeInv == WorldOK /\ GoodQueue(m) /\ Held(m, accepted)

\* The item in progress is one that was accepted.
LEMMA InProgress ==
  ASSUME TypeInv, m.inProgress # None
  PROVE  LET it == m.slot[m.inProgress]
         IN /\ m.inProgress \in Slots /\ it # NoItem
            /\ it.id \in Items /\ it.id \in DOMAIN accepted /\ accepted[it.id] = it.ids
            /\ it.ids \in Lists /\ it.ids \in Seq(Others \cup {Own})
            /\ m.mask.bits = Len(it.ids) /\ DOMAIN it.ids = 1 .. m.mask.bits
            /\ m.mask.set \subseteq 1 .. m.mask.bits
<1> DEFINE it == m.slot[m.inProgress]
<1>1. m.inProgress \in Slots /\ it # NoItem /\ it \in Cells
  BY Record DEF TypeInv, GoodQueue
<1>2. it \in [id : Items, ids : Lists, priority : Priorities]
  BY <1>1, Apart
<1>3. it.ids \in Seq(Others \cup {Own})
  BY <1>2, MeshAssumption
<1> QED
  BY <1>1, <1>2, <1>3 DEF TypeInv, GoodQueue, Held

\* A verdict is added when the item is acked, and one when its time is over.
LEMMA Verdict ==
  ASSUME NEW v \in Seq({"SUCCESS", "TIMEOUT"}), NEW acked \in BOOLEAN, NEW timedOut \in BOOLEAN
  PROVE  LET w == v \o (IF acked THEN <<"SUCCESS">> ELSE <<>>)
                   \o (IF timedOut THEN <<"TIMEOUT">> ELSE <<>>)
         IN /\ w \in Seq({"SUCCESS", "TIMEOUT"})
            /\ (\E k \in DOMAIN w : w[k] = "SUCCESS") => acked \/ \E k \in DOMAIN v : v[k] = "SUCCESS"
            /\ w # <<>> => v # <<>> \/ acked \/ timedOut
<1> DEFINE V == {"SUCCESS", "TIMEOUT"}
<1>1. <<"SUCCESS">> \in Seq(V) /\ <<"TIMEOUT">> \in Seq(V) /\ <<>> \in Seq(V)
  OBVIOUS
<1>2. ASSUME NEW u \in Seq(V) PROVE u \o <<>> = u
  OBVIOUS
<1>3. CASE ~ acked /\ ~ timedOut
  BY <1>2, <1>3
<1>4. CASE ~ acked /\ timedOut
  <2> DEFINE w == v \o <<"TIMEOUT">>
  <2>1. w \in Seq(V) /\ \A k \in DOMAIN w : (k \in DOMAIN v /\ w[k] = v[k]) \/ w[k] = "TIMEOUT"
    BY <1>1
  <2>2. v \o <<>> = v
    BY <1>2
  <2> HIDE DEF w
  <2>3. (\E k \in DOMAIN w : w[k] = "SUCCESS") => \E k \in DOMAIN v : v[k] = "SUCCESS"
    BY <2>1
  <2> QED
    BY <1>4, <2>1, <2>2, <2>3 DEF w
<1>5. CASE acked
  <2>1. v \o <<"SUCCESS">> \in Seq(V)
    BY <1>1
  <2> DEFINE u == v \o <<"SUCCESS">>
  <2> HIDE DEF u
  <2>2. u \o (IF timedOut THEN <<"TIMEOUT">> ELSE <<>>) \in Seq(V)
    <3>1. u \in Seq(V)
      BY <2>1 DEF u
    <3>2. CASE timedOut
      BY <1>1, <3>1, <3>2
    <3>3. CASE ~ timedOut
      <4>1. u \o <<>> = u
        BY <1>2, <3>1
      <4> QED
        BY <3>1, <3>3, <4>1
    <3> QED
      BY <3>2, <3>3
  <2> QED
    BY <1>5, <2>2 DEF u
<1> QED
  BY <1>3, <1>4, <1>5

\* What checkDone() reports: a verdict on the item in progress, when it is over,
\* and when its time is over a result for each stone whose bit is not set.
LEMMA Reported ==
  ASSUME TypeInv, Report(m)
  PROVE  LET it == m.slot[m.inProgress]
         IN /\ uart' \in [Items -> [verdicts : Seq({"SUCCESS", "TIMEOUT"}),
                         results : SUBSET ((Others \cup {Own}) \X {"reply", "TIMEOUT"})]]
            /\ \A i \in Items : uart[i].results \subseteq uart'[i].results
            /\ \A i \in Items : "SUCCESS" \in Verdicts(i)' =>
                 \/ "SUCCESS" \in Verdicts(i)
                 \/ m.inProgress # None /\ i = it.id /\ Acked(m)
            /\ \A i \in Items : uart'[i].verdicts # <<>> =>
                 \/ uart[i].verdicts # <<>>
                 \/ m.inProgress # None /\ i = it.id /\ (Acked(m) \/ TimedOut(m))
            /\ m.inProgress # None /\ TimedOut(m) =>
                 \A k \in DOMAIN it.ids :
                   (k \in m.mask.set /\ ~ Acked(m)) \/ <<it.ids[k], "TIMEOUT">> \in uart'[it.id].results
<1>1. CASE m.inProgress = None
  <2>1. uart' = uart
    BY <1>1 DEF Report
  <2> QED
    BY <1>1, <2>1 DEF TypeInv, WorldOK, Verdicts
<1>2. CASE m.inProgress # None
  <2> DEFINE it == m.slot[m.inProgress]
             left == (DOMAIN it.ids) \ AfterAcked(m).mask.set
             v == uart[it.id].verdicts
             w == v \o (IF Acked(m) THEN <<"SUCCESS">> ELSE <<>>)
                    \o (IF TimedOut(m) THEN <<"TIMEOUT">> ELSE <<>>)
             new == IF TimedOut(m) THEN {<<it.ids[k], "TIMEOUT">> : k \in left} ELSE {}
             U == [verdicts : Seq({"SUCCESS", "TIMEOUT"}),
                   results : SUBSET ((Others \cup {Own}) \X {"reply", "TIMEOUT"})]
  <2>1. it.id \in Items /\ it.ids \in Seq(Others \cup {Own})
    BY <1>2, InProgress
  <2>2. uart' = [uart EXCEPT ![it.id] = [verdicts |-> w, results |-> @.results \cup new]]
    BY <1>2, Zenon DEF Report
  <2>3. uart \in [Items -> U] /\ uart[it.id] \in U /\ v \in Seq({"SUCCESS", "TIMEOUT"})
    BY <2>1 DEF TypeInv, WorldOK
  <2>4. /\ w \in Seq({"SUCCESS", "TIMEOUT"})
        /\ (\E k \in DOMAIN w : w[k] = "SUCCESS") => Acked(m) \/ \E k \in DOMAIN v : v[k] = "SUCCESS"
        /\ w # <<>> => v # <<>> \/ Acked(m) \/ TimedOut(m)
    <3>1. Acked(m) \in BOOLEAN /\ TimedOut(m) \in BOOLEAN
      BY DEF Acked, TimedOut, IsAllBitsSet
    <3> HIDE DEF v
    <3> QED
      BY <2>3, <3>1, Verdict
  <2>5. new \in SUBSET ((Others \cup {Own}) \X {"reply", "TIMEOUT"})
    <3>1. \A k \in left : it.ids[k] \in Others \cup {Own}
      BY <2>1
    <3> HIDE DEF left, it
    <3> QED
      BY <3>1
  <2>6. TimedOut(m) => \A k \in DOMAIN it.ids :
                         (k \in m.mask.set /\ ~ Acked(m)) \/ <<it.ids[k], "TIMEOUT">> \in new
    <3> SUFFICES ASSUME TimedOut(m), NEW k \in DOMAIN it.ids, ~ (k \in m.mask.set /\ ~ Acked(m))
                 PROVE  <<it.ids[k], "TIMEOUT">> \in new
      OBVIOUS
    <3>1. k \notin AfterAcked(m).mask.set
      <4>1. CASE Acked(m)
        <5>1. AfterAcked(m).mask = Mask(0)
          <6>1. m = [slot |-> m.slot, inProgress |-> m.inProgress, next |-> m.next,
                     callsLeft |-> m.callsLeft, mask |-> m.mask]
            BY Record DEF TypeInv, GoodQueue
          <6> DEFINE empty == [y \in Slots |-> IF y = m.inProgress THEN NoItem ELSE m.slot[y]]
          <6>2. AfterAcked(m) = [slot |-> empty, inProgress |-> None, next |-> m.next,
                                 callsLeft |-> m.callsLeft, mask |-> Mask(0)]
            BY <4>1, <6>1, Removed DEF AfterAcked
          <6> QED
            BY <6>2
        <5> QED
          BY <5>1 DEF Mask
      <4>2. CASE ~ Acked(m)
        BY <4>2 DEF AfterAcked
      <4> QED
        BY <4>1, <4>2
    <3>2. k \in left
      BY <3>1
    <3> HIDE DEF left, it
    <3> QED
      BY <3>2
  <2> HIDE DEF w, new, left, U
  <2>7. uart'[it.id] = [verdicts |-> w, results |-> uart[it.id].results \cup new]
        /\ \A i \in Items : i # it.id => uart'[i] = uart[i]
    BY <2>1, <2>2, <2>3
  <2>8. [verdicts |-> w, results |-> uart[it.id].results \cup new] \in U
    BY <2>3, <2>4, <2>5 DEF U
  <2>9. uart' \in [Items -> U]
    BY <2>1, <2>2, <2>3, <2>8
  <2>10. uart'[it.id].verdicts = w /\ uart'[it.id].results = uart[it.id].results \cup new
    BY <2>7
  <2> HIDE DEF it
  <2>11. ASSUME NEW i \in Items
         PROVE  /\ uart[i].results \subseteq uart'[i].results
                /\ "SUCCESS" \in Verdicts(i)' => "SUCCESS" \in Verdicts(i) \/ (i = it.id /\ Acked(m))
                /\ uart'[i].verdicts # <<>> =>
                     uart[i].verdicts # <<>> \/ (i = it.id /\ (Acked(m) \/ TimedOut(m)))
    <3> DEFINE Has(f) == \E k \in DOMAIN f : f[k] = "SUCCESS"
    <3>0. /\ "SUCCESS" \in Verdicts(i) <=> Has(uart[i].verdicts)
          /\ "SUCCESS" \in Verdicts(i)' <=> Has(uart'[i].verdicts)
      BY Zenon DEF Verdicts
    <3>4. Has(w) => Acked(m) \/ Has(uart[it.id].verdicts)
      BY <2>4
    <3> HIDE DEF Has
    <3>1. CASE i = it.id
      BY <2>4, <2>10, <3>0, <3>1, <3>4
    <3>2. CASE i # it.id
      <4>1. uart'[i] = uart[i]
        BY <2>7, <3>2
      <4> QED
        BY <3>0, <4>1
    <3> QED
      BY <3>1, <3>2
  <2> QED
    BY <1>2, <2>6, <2>9, <2>10, <2>11 DEF U, it
<1> QED
  BY <1>1, <1>2
-----------------------------------------------------------------------------
(***************************************************************************)
(* Every step keeps the types, and what they say of the queue.             *)
(***************************************************************************)

\* The item that AddToQueue() puts in a free slot.
PutInQueue(ids, priority) ==
  [m EXCEPT !.slot[First(m, FreeSlots(m))] =
     [id |-> Len(accepted) + 1, ids |-> ids, priority |-> priority]]

LEMMA Published ==
  ASSUME WorldOK, NEW q, GoodQueue(q), NEW ok \in BOOLEAN, Publish(q, ok)
  PROVE  air' \subseteq Items /\ started' \in Seq(Items)
<1>1. CASE ok /\ q.inProgress # None
  <2> DEFINE i == q.slot[q.inProgress].id
  <2>1. i \in Items
    BY <1>1, Record, Apart DEF GoodQueue
  <2>2. air' = air \cup {i} /\ (started' = started \/ started' = Append(started, i))
    BY <1>1, Zenon DEF Publish
  <2>3. air \subseteq Items /\ started \in Seq(Items)
    BY DEF WorldOK
  <2> HIDE DEF i
  <2> QED
    BY <2>1, <2>2, <2>3
<1>2. CASE ~ (ok /\ q.inProgress # None)
  <2>1. air' = air /\ started' = started
    BY <1>2 DEF Publish
  <2> QED
    BY <2>1 DEF WorldOK
<1> QED
  BY <1>1, <1>2

LEMMA Adding ==
  ASSUME TypeInv, NEW ids \in Lists, NEW priority \in Priorities, NEW ok \in BOOLEAN,
         AddToQueue(ids, priority, ok)
  PROVE  LET q == PutInQueue(ids, priority)
             x == First(m, FreeSlots(m))
         IN /\ x \in FreeSlots(m) /\ m.inProgress # x
            /\ GoodQueue(q) /\ Held(q, accepted')
            /\ q.inProgress = m.inProgress /\ q.next = m.next /\ q.mask = m.mask
            /\ q.slot = [m.slot EXCEPT ![x] = [id |-> Len(accepted) + 1, ids |-> ids, priority |-> priority]]
            /\ m' = SendMsgFromQueue(q, ok) /\ accepted' = Append(accepted, ids)
            /\ TypeInv' /\ uart' = uart /\ received' = received
<1> DEFINE q == PutInQueue(ids, priority)
           x == First(m, FreeSlots(m))
<1>1. /\ Len(accepted) < NumItems /\ FreeSlots(m) # {} /\ accepted' = Append(accepted, ids)
      /\ m' = SendMsgFromQueue(q, ok)
      /\ (Publish(m', ok) \/ UNCHANGED <<air, started>>)
      /\ uart' = uart /\ received' = received
  BY Zenon DEF AddToQueue, PutInQueue
<1>2. accepted \in Seq(Lists) /\ GoodQueue(m) /\ Held(m, accepted)
  BY DEF TypeInv, WorldOK
<1>3. /\ x \in FreeSlots(m) /\ m.inProgress # x
      /\ GoodQueue(q) /\ Held(q, accepted')
      /\ q.inProgress = m.inProgress /\ q.next = m.next /\ q.mask = m.mask
      /\ q.slot = [m.slot EXCEPT ![x] = [id |-> Len(accepted) + 1, ids |-> ids, priority |-> priority]]
  BY <1>1, <1>2, Put DEF PutInQueue
<1> HIDE DEF q, x
<1>4. GoodQueue(m') /\ m'.slot = q.slot
  BY <1>1, <1>3, Send
<1>5. Held(m', accepted')
  BY <1>3, <1>4 DEF Held
<1>6. air' \subseteq Items /\ started' \in Seq(Items)
  BY <1>1, <1>4, Published DEF TypeInv, WorldOK
<1>7. accepted' \in Seq(Lists) /\ Len(accepted') <= NumItems
  BY <1>1, <1>2, Apart
<1>8. TypeInv'
  BY <1>1, <1>4, <1>5, <1>6, <1>7 DEF TypeInv, WorldOK
<1> QED
  BY <1>1, <1>3, <1>8 DEF q, x

LEMMA Processing ==
  ASSUME TypeInv, NEW ok \in BOOLEAN, ProcessQueue(ok)
  PROVE  LET q == CheckDone(m)
         IN /\ GoodQueue(q) /\ Held(q, accepted)
            /\ m' = SendMsgFromQueue(q, ok)
            /\ Report(m) /\ Publish(m', ok) /\ accepted' = accepted /\ received' = received
            /\ TypeInv'
<1> DEFINE q == CheckDone(m)
<1>1. /\ m' = SendMsgFromQueue(q, ok) /\ Report(m) /\ Publish(m', ok)
      /\ accepted' = accepted /\ received' = received
  BY Zenon DEF ProcessQueue
<1>2. GoodQueue(m) /\ Held(m, accepted)
  BY DEF TypeInv
<1>3. /\ GoodQueue(q) /\ q.next = m.next
      /\ \/ q.slot = m.slot
         \/ m.inProgress # None /\ q.slot = [m.slot EXCEPT ![m.inProgress] = NoItem]
  BY <1>2, Check
<1>4. Held(q, accepted)
  <2>1. CASE q.slot = m.slot
    BY <1>2, <2>1 DEF Held
  <2>2. CASE m.inProgress # None /\ q.slot = [m.slot EXCEPT ![m.inProgress] = NoItem]
    <3>1. \A y \in Slots : q.slot[y] = m.slot[y] \/ q.slot[y] = NoItem
      BY <1>2, <2>2, Record DEF GoodQueue
    <3> QED
      BY <1>2, <3>1 DEF Held
  <2> QED
    BY <1>3, <2>1, <2>2
<1> HIDE DEF q
<1>5. GoodQueue(m') /\ m'.slot = q.slot
  BY <1>1, <1>3, Send
<1>6. Held(m', accepted')
  BY <1>1, <1>4, <1>5 DEF Held
<1>7. air' \subseteq Items /\ started' \in Seq(Items)
  BY <1>1, <1>5, Published DEF TypeInv
<1>8. uart' \in [Items -> [verdicts : Seq({"SUCCESS", "TIMEOUT"}),
                          results : SUBSET ((Others \cup {Own}) \X {"reply", "TIMEOUT"})]]
  BY <1>1, Reported
<1>9. TypeInv'
  BY <1>1, <1>5, <1>6, <1>7, <1>8 DEF TypeInv, WorldOK
<1> QED
  BY <1>1, <1>3, <1>4, <1>9 DEF q

\* The bits that a reply of a stone sets.
BitsOf(s) ==
  LET ids == m.slot[m.inProgress].ids
  IN {k \in DOMAIN ids : ids[k] = s /\ \A j \in 1 .. k - 1 : ids[j] # s}

LEMMA Replying ==
  ASSUME TypeInv, NEW i \in Items, NEW s \in Others, HandleReply(i, s)
  PROVE  LET it == m.slot[m.inProgress]
         IN /\ m.inProgress # None /\ s \in received[i] /\ (LateReplies \/ it.id = i)
            /\ m'.slot = m.slot /\ m'.inProgress = m.inProgress /\ m'.next = m.next
            /\ m'.mask.set = m.mask.set \cup BitsOf(s)
            /\ uart'[it.id].verdicts = uart[it.id].verdicts
            /\ uart'[it.id].results = uart[it.id].results \cup {<<s, "reply">>}
            /\ \A j \in Items : j # it.id => uart'[j] = uart[j]
            /\ UNCHANGED <<accepted, started, air, received>>
            /\ TypeInv'
<1> DEFINE it == m.slot[m.inProgress]
<1>1. /\ s \in received[i] /\ m.inProgress # None /\ (LateReplies \/ it.id = i)
      /\ m' = [m EXCEPT !.mask.set = @ \cup BitsOf(s)]
      /\ uart' = [uart EXCEPT ![it.id].results = @ \cup {<<s, "reply">>}]
      /\ UNCHANGED <<accepted, started, air, received>>
  BY Zenon DEF HandleReply, BitsOf
<1>2. it.id \in Items /\ DOMAIN it.ids = 1 .. m.mask.bits /\ m.mask.set \subseteq 1 .. m.mask.bits
  BY <1>1, InProgress
<1>3. BitsOf(s) \subseteq 1 .. m.mask.bits
  BY <1>2 DEF BitsOf
<1>4. m \in Models /\ m.mask \in [bits : Nat, set : SUBSET Nat]
  BY Record DEF TypeInv, GoodQueue
<1> DEFINE b == BitsOf(s)
<1> HIDE DEF it, b
<1>5. m' = [slot |-> m.slot, inProgress |-> m.inProgress, next |-> m.next, callsLeft |-> m.callsLeft,
            mask |-> [bits |-> m.mask.bits, set |-> m.mask.set \cup b]]
  <2>1. m' = [m EXCEPT !.mask = [m.mask EXCEPT !.set = m.mask.set \cup b]]
    BY <1>1 DEF b
  <2>2. [m.mask EXCEPT !.set = m.mask.set \cup b] = [bits |-> m.mask.bits, set |-> m.mask.set \cup b]
    BY <1>4
  <2>3. m = [slot |-> m.slot, inProgress |-> m.inProgress, next |-> m.next,
             callsLeft |-> m.callsLeft, mask |-> m.mask]
    BY <1>4, Record
  <2> DEFINE k == [bits |-> m.mask.bits, set |-> m.mask.set \cup b]
  <2>4. m' = [m EXCEPT !.mask = k]
    BY <2>1, <2>2
  <2> HIDE DEF k
  <2>5. m' = [slot |-> m.slot, inProgress |-> m.inProgress, next |-> m.next,
              callsLeft |-> m.callsLeft, mask |-> k]
    BY <2>3, <2>4
  <2> QED
    BY <2>5 DEF k
<1>6. GoodQueue(m')
  <2>1. m.mask.set \cup b \in SUBSET Nat /\ m.mask.set \cup b \subseteq 1 .. m.mask.bits
    BY <1>2, <1>3, <1>4 DEF b
  <2>2. m' \in Models
    BY <1>4, <1>5, <2>1, Record DEF Models
  <2> QED
    BY <1>5, <2>1, <2>2 DEF GoodQueue, TypeInv
<1>7. Held(m', accepted')
  BY <1>1, <1>5 DEF TypeInv, Held
<1>8. /\ uart'[it.id].verdicts = uart[it.id].verdicts
      /\ uart'[it.id].results = uart[it.id].results \cup {<<s, "reply">>}
      /\ \A j \in Items : j # it.id => uart'[j] = uart[j]
      /\ uart' \in [Items -> [verdicts : Seq({"SUCCESS", "TIMEOUT"}),
                          results : SUBSET ((Others \cup {Own}) \X {"reply", "TIMEOUT"})]]
  <2> DEFINE U == [verdicts : Seq({"SUCCESS", "TIMEOUT"}),
                   results : SUBSET ((Others \cup {Own}) \X {"reply", "TIMEOUT"})]
             new == uart[it.id].results \cup {<<s, "reply">>}
  <2>1. uart \in [Items -> U] /\ uart[it.id] \in U
    BY <1>2 DEF TypeInv, WorldOK
  <2>2. uart' = [uart EXCEPT ![it.id] = [uart[it.id] EXCEPT !.results = new]]
    BY <1>1
  <2>3. new \in SUBSET ((Others \cup {Own}) \X {"reply", "TIMEOUT"})
    BY <2>1
  <2> HIDE DEF new
  <2>4. [uart[it.id] EXCEPT !.results = new] = [verdicts |-> uart[it.id].verdicts, results |-> new]
    BY <2>1
  <2>5. uart'[it.id] = [verdicts |-> uart[it.id].verdicts, results |-> new] /\ uart'[it.id] \in U
    BY <1>2, <2>1, <2>2, <2>3, <2>4
  <2> HIDE DEF U
  <2>6. uart' \in [Items -> U] /\ \A j \in Items : j # it.id => uart'[j] = uart[j]
    BY <1>2, <2>1, <2>2, <2>5
  <2> QED
    BY <2>5, <2>6 DEF U, new
<1>9. TypeInv'
  BY <1>1, <1>6, <1>7, <1>8 DEF TypeInv, WorldOK
<1> QED
  BY <1>1, <1>5, <1>8, <1>9 DEF it, b

LEMMA InTheAir ==
  ASSUME TypeInv, NEW i \in Items, NEW s \in Others, Receive(i, s) \/ Lose(i)
  PROVE  /\ UNCHANGED <<accepted, m, uart, started>>
         /\ \A j \in Items : received[j] \subseteq received'[j]
         /\ TypeInv'
<1>1. /\ UNCHANGED <<accepted, m, uart, started>>
      /\ \/ received' = received /\ air' \subseteq air
         \/ received' = [received EXCEPT ![i] = @ \cup {s}] /\ air' = air
  BY DEF Receive, Lose
<1>2. received' \in [Items -> SUBSET Others] /\ \A j \in Items : received[j] \subseteq received'[j]
  BY <1>1 DEF TypeInv, WorldOK
<1> QED
  BY <1>1, <1>2 DEF TypeInv, WorldOK

LEMMA TypeInit ==
  Init => TypeInv /\ NoVerdictBefore
<1> SUFFICES ASSUME Init PROVE TypeInv /\ NoVerdictBefore
  OBVIOUS
<1>1. m \in Models /\ m.inProgress = None /\ m.slot = [x \in Slots |-> NoItem]
  BY Apart DEF Init, Models, Mask, Slots, Cells
<1>2. WorldOK /\ NoVerdictBefore
  BY Apart DEF Init, WorldOK, NoVerdictBefore
<1> QED
  BY <1>1, <1>2 DEF TypeInv, GoodQueue, Held
-----------------------------------------------------------------------------
(***************************************************************************)
(* The verdict on a command.  A bit of the mask stands for the own stone,  *)
(* or for a stone of which h says so: that a reply was written, and, when  *)
(* no reply is later than its item, that it received the command.          *)
(***************************************************************************)
AcksIn(q, h) ==
  q.inProgress # None =>
    LET it == q.slot[q.inProgress]
    IN \A k \in q.mask.set : it.ids[k] = Own \/ it.ids[k] \in h[it.id]

Replied == [i \in Items |-> {s \in Others : <<s, "reply">> \in uart[i].results}]

LEMMA AcksGrow ==
  ASSUME NEW q, GoodQueue(q), NEW h, NEW g, \A i \in Items : h[i] \subseteq g[i], AcksIn(q, h)
  PROVE  AcksIn(q, g)
<1> SUFFICES ASSUME q.inProgress # None
             PROVE  \A k \in q.mask.set : q.slot[q.inProgress].ids[k] = Own
                                         \/ q.slot[q.inProgress].ids[k] \in g[q.slot[q.inProgress].id]
  BY DEF AcksIn
<1>1. q.slot[q.inProgress].id \in Items
  BY Record, Apart DEF GoodQueue
<1> QED
  BY <1>1 DEF AcksIn

LEMMA SendAcks ==
  ASSUME NEW q, GoodQueue(q), NEW ok \in BOOLEAN, NEW h, AcksIn(q, h)
  PROVE  AcksIn(SendMsgFromQueue(q, ok), h)
<1> DEFINE r == SendMsgFromQueue(q, ok)
<1>1. /\ r.slot = q.slot
      /\ q.inProgress # None => r = q
      /\ q.inProgress = None /\ r.inProgress # None =>
           \E x \in Slots : r.inProgress = x /\ r.mask.set = OwnBits(q.slot[x].ids)
  BY Send
<1> SUFFICES AcksIn(r, h)
  OBVIOUS
<1> HIDE DEF r
<1>2. CASE q.inProgress # None
  BY <1>1, <1>2
<1>3. CASE q.inProgress = None /\ r.inProgress # None
  BY <1>1, <1>3 DEF AcksIn, OwnBits
<1>4. CASE r.inProgress = None
  BY <1>4 DEF AcksIn
<1> QED
  BY <1>2, <1>3, <1>4

\* Neither a new item nor the tick sets a bit for another stone.
LEMMA AddAcks ==
  ASSUME TypeInv, NEW h, AcksIn(m, h),
         NEW ids \in Lists, NEW priority \in Priorities, NEW ok \in BOOLEAN,
         AddToQueue(ids, priority, ok)
  PROVE  AcksIn(m', h)
<1> DEFINE q == PutInQueue(ids, priority)
           x == First(m, FreeSlots(m))
<1>1. /\ GoodQueue(q) /\ m' = SendMsgFromQueue(q, ok)
      /\ q.inProgress = m.inProgress /\ q.mask = m.mask /\ m.inProgress # x
      /\ q.slot = [m.slot EXCEPT ![x] = [id |-> Len(accepted) + 1, ids |-> ids, priority |-> priority]]
  BY Adding
<1> HIDE DEF q, x
<1>2. m.inProgress # None => q.slot[m.inProgress] = m.slot[m.inProgress]
  BY <1>1, Record DEF TypeInv, GoodQueue
<1>3. AcksIn(q, h)
  BY <1>1, <1>2 DEF AcksIn
<1> QED
  BY <1>1, <1>3, SendAcks

LEMMA TickAcks ==
  ASSUME TypeInv, NEW h, AcksIn(m, h), NEW ok \in BOOLEAN, ProcessQueue(ok)
  PROVE  AcksIn(m', h)
<1> DEFINE q == CheckDone(m)
<1>1. GoodQueue(q) /\ m' = SendMsgFromQueue(q, ok)
  BY Processing
<1>2. \/ q = m
      \/ q.inProgress = None
      \/ q.inProgress = m.inProgress /\ q.slot = m.slot /\ q.mask = m.mask
  BY Check DEF TypeInv
<1> HIDE DEF q
<1>3. AcksIn(q, h)
  BY <1>2 DEF AcksIn
<1> QED
  BY <1>1, <1>3, SendAcks

\* What was accepted stays so, and what is added has no verdict.
LEMMA AcceptedGrows ==
  ASSUME TypeInv, NoVerdictBefore, NEW ids \in Lists, accepted' = Append(accepted, ids), TypeInv',
         uart' = uart
  PROVE  /\ NoVerdictBefore'
         /\ \A i \in DOMAIN accepted : i \in DOMAIN accepted' /\ Targets(i)' = Targets(i)
         /\ \A i \in DOMAIN accepted' : i \in Items
         /\ \A i \in DOMAIN accepted' : i \in DOMAIN accepted \/ uart[i].verdicts = <<>>
<1>1. /\ accepted \in Seq(Lists) /\ Len(accepted) \in Nat
      /\ accepted' \in Seq(Lists) /\ Len(accepted') <= NumItems
  BY DEF TypeInv, WorldOK
<1>2. /\ DOMAIN accepted = 1 .. Len(accepted) /\ DOMAIN accepted' = 1 .. Len(accepted')
      /\ Len(accepted') = Len(accepted) + 1
      /\ \A i \in DOMAIN accepted : accepted'[i] = accepted[i]
  BY <1>1
<1>3. \A i \in DOMAIN accepted' : i \in Items
  BY <1>1, <1>2, Apart DEF Items
<1>4. \A i \in DOMAIN accepted : i \in DOMAIN accepted' /\ Targets(i)' = Targets(i)
  BY <1>1, <1>2 DEF Targets
<1>5. \A i \in DOMAIN accepted' : i \in DOMAIN accepted \/ uart[i].verdicts = <<>>
  BY <1>1, <1>2, <1>3 DEF NoVerdictBefore
<1>6. NoVerdictBefore'
  BY <1>1, <1>2, Apart DEF NoVerdictBefore, Items
<1> QED
  BY <1>3, <1>4, <1>5, <1>6

\* A target of the item in progress is one of its ids.
LEMMA TargetBit ==
  ASSUME TypeInv, m.inProgress # None, NEW s \in Targets(m.slot[m.inProgress].id)
  PROVE  \E k \in DOMAIN m.slot[m.inProgress].ids :
           m.slot[m.inProgress].ids[k] = s /\ s # Own
BY InProgress DEF Targets

LEMMA NoVerdictStep ==
  ASSUME TypeInv, NoVerdictBefore, [Next]_vars
  PROVE  TypeInv' /\ NoVerdictBefore'
<1>1. CASE \E ids \in Lists, priority \in Priorities, ok \in BOOLEAN : AddToQueue(ids, priority, ok)
  BY <1>1, Adding, AcceptedGrows
<1>2. CASE \E ok \in BOOLEAN : ProcessQueue(ok)
  <2>1. PICK ok \in BOOLEAN : ProcessQueue(ok)
    BY <1>2
  <2>2. TypeInv' /\ accepted' = accepted /\ Report(m)
    BY <2>1, Processing
  <2>3. ASSUME NEW i \in Items, i > Len(accepted), uart'[i].verdicts # <<>> PROVE FALSE
    <3>1. m.inProgress # None /\ i = m.slot[m.inProgress].id
      BY <2>2, <2>3, Reported DEF NoVerdictBefore
    <3>2. i \in DOMAIN accepted
      BY <3>1, InProgress
    <3> QED
      BY <2>3, <3>2 DEF TypeInv, WorldOK
  <2> QED
    BY <2>2, <2>3 DEF NoVerdictBefore
<1>3. CASE \E i \in Items, s \in Others : Receive(i, s) \/ Lose(i)
  BY <1>3, InTheAir DEF NoVerdictBefore
<1>4. CASE \E i \in Items, s \in Others : HandleReply(i, s)
  <2>1. PICK i \in Items, s \in Others : HandleReply(i, s)
    BY <1>4
  <2>2. TypeInv' /\ accepted' = accepted /\ \A j \in Items : uart'[j].verdicts = uart[j].verdicts
    BY <2>1, Replying
  <2> QED
    BY <2>2 DEF NoVerdictBefore
<1>5. CASE UNCHANGED vars
  BY <1>5 DEF vars, TypeInv, WorldOK, NoVerdictBefore
<1>6. CASE \E i \in Items : Lose(i)
  BY <1>6 DEF Lose, TypeInv, WorldOK, NoVerdictBefore
<1> QED
  BY <1>1, <1>2, <1>3, <1>4, <1>5, <1>6 DEF Next

ResultInv == TypeInv /\ NoVerdictBefore /\ AcksIn(m, Replied) /\ ResultPerStone

LEMMA ResultStep ==
  ASSUME ResultInv, [Next]_vars
  PROVE  ResultInv'
<1>0. TypeInv /\ NoVerdictBefore /\ TypeInv' /\ NoVerdictBefore'
  BY NoVerdictStep DEF ResultInv
<1> SUFFICES AcksIn(m', Replied') /\ ResultPerStone'
  BY <1>0 DEF ResultInv
<1>1. GoodQueue(m') /\ AcksIn(m, Replied) /\ ResultPerStone
  BY <1>0 DEF ResultInv, TypeInv
\* A result that was written stays.
<1>2. ASSUME \A i \in Items : uart[i].results \subseteq uart'[i].results
      PROVE  \A i \in Items : Replied[i] \subseteq Replied'[i]
  BY <1>2 DEF Replied
<1>3. ASSUME NEW ids \in Lists, NEW priority \in Priorities, NEW ok \in BOOLEAN,
             AddToQueue(ids, priority, ok)
      PROVE  AcksIn(m', Replied') /\ ResultPerStone'
  <2>1. accepted' = Append(accepted, ids) /\ uart' = uart
    BY <1>0, <1>3, Adding
  <2>2. AcksIn(m', Replied')
    <3>1. AcksIn(m', Replied)
      BY <1>0, <1>1, <1>3, AddAcks
    <3>2. Replied' = Replied
      BY <2>1 DEF Replied
    <3> QED
      BY <3>1, <3>2
  <2>3. ASSUME NEW i \in DOMAIN accepted', uart'[i].verdicts # <<>>, NEW s \in Targets(i)'
        PROVE  \E r \in uart'[i].results : r[1] = s
    <3>1. i \in DOMAIN accepted /\ s \in Targets(i)
      BY <1>0, <2>1, <2>3, AcceptedGrows
    <3> QED
      BY <1>1, <2>1, <2>3, <3>1 DEF ResultPerStone
  <2> QED
    BY <2>2, <2>3 DEF ResultPerStone
<1>4. ASSUME NEW ok \in BOOLEAN, ProcessQueue(ok)
      PROVE  AcksIn(m', Replied') /\ ResultPerStone'
  <2> DEFINE it == m.slot[m.inProgress]
  <2>1. accepted' = accepted /\ Report(m)
    BY <1>0, <1>4, Processing
  <2>2. /\ \A i \in Items : uart[i].results \subseteq uart'[i].results
        /\ \A i \in Items : uart'[i].verdicts # <<>> =>
             \/ uart[i].verdicts # <<>>
             \/ m.inProgress # None /\ i = it.id /\ (Acked(m) \/ TimedOut(m))
        /\ m.inProgress # None /\ TimedOut(m) =>
             \A k \in DOMAIN it.ids :
               (k \in m.mask.set /\ ~ Acked(m)) \/ <<it.ids[k], "TIMEOUT">> \in uart'[it.id].results
    BY <1>0, <2>1, Reported
  <2>3. AcksIn(m', Replied')
    <3>1. AcksIn(m', Replied)
      BY <1>0, <1>1, <1>4, TickAcks
    <3> QED
      BY <1>1, <1>2, <2>2, <3>1, AcksGrow
  <2>4. ASSUME NEW i \in DOMAIN accepted, uart'[i].verdicts # <<>>, NEW s \in Targets(i)
        PROVE  \E r \in uart'[i].results : r[1] = s
    <3>1. i \in Items
      BY <1>0, Apart DEF TypeInv, WorldOK, Items
    <3>2. CASE uart[i].verdicts # <<>>
      BY <1>1, <2>2, <3>1, <3>2 DEF ResultPerStone
    <3>3. CASE m.inProgress # None /\ i = it.id /\ (Acked(m) \/ TimedOut(m))
      <4>1. PICK k \in DOMAIN it.ids : it.ids[k] = s /\ s # Own
        BY <1>0, <2>4, <3>3, TargetBit
      <4>2. CASE k \in m.mask.set
        <5>1. it.ids[k] \in Replied[it.id]
          BY <1>1, <3>3, <4>1, <4>2 DEF AcksIn
        <5>2. <<s, "reply">> \in uart[i].results
          BY <3>1, <3>3, <4>1, <5>1 DEF Replied
        <5>3. <<s, "reply">> \in uart'[i].results
          BY <2>2, <3>1, <5>2
        <5> QED
          BY <5>3
      <4>3. CASE k \notin m.mask.set
        <5>1. ~ Acked(m)
          <6>1. DOMAIN it.ids = 1 .. m.mask.bits
            BY <1>0, <3>3, InProgress
          <6> QED
            BY <4>1, <4>3, <6>1 DEF Acked, IsAllBitsSet
        <5>2. <<s, "TIMEOUT">> \in uart'[i].results
          BY <2>2, <3>3, <4>1, <4>3, <5>1
        <5> QED
          BY <5>2
      <4> QED
        BY <4>2, <4>3
    <3> QED
      BY <2>2, <2>4, <3>1, <3>2, <3>3
  <2> QED
    BY <2>1, <2>3, <2>4 DEF ResultPerStone, Targets
<1>5. ASSUME NEW i \in Items, NEW s \in Others, HandleReply(i, s)
      PROVE  AcksIn(m', Replied') /\ ResultPerStone'
  <2> DEFINE it == m.slot[m.inProgress]
  <2>1. /\ m.inProgress # None
        /\ m'.slot = m.slot /\ m'.inProgress = m.inProgress
        /\ m'.mask.set = m.mask.set \cup BitsOf(s)
        /\ uart'[it.id].verdicts = uart[it.id].verdicts
        /\ uart'[it.id].results = uart[it.id].results \cup {<<s, "reply">>}
        /\ \A j \in Items : j # it.id => uart'[j] = uart[j]
        /\ accepted' = accepted
    BY <1>0, <1>5, Replying
  <2>2. it.id \in Items
    BY <1>0, <2>1, InProgress
  <2>3. \A j \in Items : uart[j].results \subseteq uart'[j].results /\ uart'[j].verdicts = uart[j].verdicts
    BY <2>1, <2>2
  <2>4. AcksIn(m, Replied')
    BY <1>0, <1>1, <1>2, <2>3, AcksGrow DEF TypeInv
  <2>5. s \in Replied'[it.id]
    BY <2>1, <2>2 DEF Replied
  <2> DEFINE all == Replied'
  <2>6. AcksIn(m', all)
    <3> HIDE DEF all
    <3> SUFFICES ASSUME NEW k \in m'.mask.set PROVE it.ids[k] = Own \/ it.ids[k] \in all[it.id]
      BY <2>1 DEF AcksIn
    <3>1. CASE k \in m.mask.set
      BY <2>1, <2>4, <3>1 DEF AcksIn, all
    <3>2. CASE k \in BitsOf(s)
      BY <2>5, <3>2 DEF BitsOf, all
    <3> QED
      BY <2>1, <3>1, <3>2
  <2>7. ResultPerStone'
    <3> SUFFICES ASSUME NEW j \in DOMAIN accepted, uart'[j].verdicts # <<>>, NEW t \in Targets(j)
                 PROVE  \E r \in uart'[j].results : r[1] = t
      BY <2>1 DEF ResultPerStone, Targets
    <3>1. j \in Items
      BY <1>0, Apart DEF TypeInv, WorldOK, Items
    <3> QED
      BY <1>1, <2>3, <3>1 DEF ResultPerStone
  <2> QED
    BY <2>6, <2>7
<1>6. ASSUME UNCHANGED <<accepted, m, uart>>
      PROVE  AcksIn(m', Replied') /\ ResultPerStone'
  <2>1. Replied' = Replied
    BY <1>6 DEF Replied
  <2> QED
    BY <1>1, <1>6, <2>1 DEF ResultPerStone, Targets
<1>7. ASSUME NEW i \in Items, NEW s \in Others, Receive(i, s) PROVE UNCHANGED <<accepted, m, uart>>
  BY <1>7 DEF Receive
<1>8. ASSUME NEW i \in Items, Lose(i) PROVE UNCHANGED <<accepted, m, uart>>
  BY <1>8 DEF Lose
<1> QED
  BY <1>3, <1>4, <1>5, <1>6, <1>7, <1>8 DEF Next, vars

LEMMA ResultInit ==
  Init => ResultInv /\ AcksIn(m, received) /\ AckedMeansReceived
<1> SUFFICES ASSUME Init PROVE ResultInv /\ AcksIn(m, received) /\ AckedMeansReceived
  OBVIOUS
<1>1. DOMAIN accepted = {} /\ m.inProgress = None
  BY DEF Init
<1> QED
  BY <1>1, TypeInit DEF ResultInv, AcksIn, ResultPerStone, AckedMeansReceived

VerdictInv == ResultInv /\ AcksIn(m, received) /\ AckedMeansReceived

LEMMA VerdictStep ==
  ASSUME ~ LateReplies, VerdictInv, [Next]_vars
  PROVE  VerdictInv'
<1>0. ResultInv' /\ TypeInv /\ NoVerdictBefore /\ TypeInv' /\ GoodQueue(m) /\ GoodQueue(m')
  BY ResultStep DEF VerdictInv, ResultInv, TypeInv
<1> SUFFICES AcksIn(m', received') /\ AckedMeansReceived'
  BY <1>0 DEF VerdictInv
<1>1. AcksIn(m, received) /\ AckedMeansReceived
  BY DEF VerdictInv
<1>2. DOMAIN accepted \subseteq Items
  BY <1>0, Apart DEF TypeInv, WorldOK, Items
<1>3. ASSUME NEW ids \in Lists, NEW priority \in Priorities, NEW ok \in BOOLEAN,
             AddToQueue(ids, priority, ok)
      PROVE  AcksIn(m', received') /\ AckedMeansReceived'
  <2>1. accepted' = Append(accepted, ids) /\ uart' = uart /\ received' = received
    BY <1>0, <1>3, Adding
  <2>2. AcksIn(m', received')
    BY <1>0, <1>1, <1>3, <2>1, AddAcks
  <2>3. ASSUME NEW i \in DOMAIN accepted', "SUCCESS" \in Verdicts(i)'
        PROVE  Targets(i)' \subseteq received'[i]
    <3>1. "SUCCESS" \in Verdicts(i)
      BY <2>1, <2>3 DEF Verdicts
    <3>2. uart[i].verdicts # <<>>
      BY <3>1 DEF Verdicts
    <3>3. i \in DOMAIN accepted /\ Targets(i)' = Targets(i)
      BY <1>0, <2>1, <3>2, AcceptedGrows
    <3> QED
      BY <1>1, <2>1, <3>1, <3>3 DEF AckedMeansReceived
  <2> QED
    BY <2>2, <2>3 DEF AckedMeansReceived
<1>4. ASSUME NEW ok \in BOOLEAN, ProcessQueue(ok)
      PROVE  AcksIn(m', received') /\ AckedMeansReceived'
  <2> DEFINE it == m.slot[m.inProgress]
  <2>1. accepted' = accepted /\ received' = received /\ Report(m)
    BY <1>0, <1>4, Processing
  <2>2. AcksIn(m', received')
    BY <1>0, <1>1, <1>4, <2>1, TickAcks
  <2>3. ASSUME NEW i \in DOMAIN accepted, "SUCCESS" \in Verdicts(i)', NEW s \in Targets(i)
        PROVE  s \in received[i]
    <3>1. "SUCCESS" \in Verdicts(i) \/ (m.inProgress # None /\ i = it.id /\ Acked(m))
      BY <1>0, <1>2, <2>1, <2>3, Reported
    <3>2. CASE "SUCCESS" \in Verdicts(i)
      BY <1>1, <3>2 DEF AckedMeansReceived
    <3>3. CASE m.inProgress # None /\ i = it.id /\ Acked(m)
      <4>1. PICK k \in DOMAIN it.ids : it.ids[k] = s /\ s # Own
        BY <1>0, <2>3, <3>3, TargetBit
      <4>2. k \in m.mask.set
        <5>1. DOMAIN it.ids = 1 .. m.mask.bits
          BY <1>0, <3>3, InProgress
        <5> QED
          BY <3>3, <4>1, <5>1 DEF Acked, IsAllBitsSet
      <4> QED
        BY <1>1, <3>3, <4>1, <4>2 DEF AcksIn
    <3> QED
      BY <3>1, <3>2, <3>3
  <2> QED
    BY <2>1, <2>2, <2>3 DEF AckedMeansReceived, Targets
<1>5. ASSUME NEW i \in Items, NEW s \in Others, HandleReply(i, s)
      PROVE  AcksIn(m', received') /\ AckedMeansReceived'
  <2> DEFINE it == m.slot[m.inProgress]
  <2>1. /\ m.inProgress # None /\ s \in received[it.id]
        /\ m'.slot = m.slot /\ m'.inProgress = m.inProgress
        /\ m'.mask.set = m.mask.set \cup BitsOf(s)
        /\ uart'[it.id].verdicts = uart[it.id].verdicts
        /\ \A j \in Items : j # it.id => uart'[j] = uart[j]
        /\ accepted' = accepted /\ received' = received
    BY <1>0, <1>5, Replying
  <2>2. \A j \in Items : uart'[j].verdicts = uart[j].verdicts
    BY <2>1
  <2>3. AcksIn(m', received')
    <3> SUFFICES ASSUME NEW k \in m'.mask.set PROVE it.ids[k] = Own \/ it.ids[k] \in received[it.id]
      BY <2>1 DEF AcksIn
    <3>1. CASE k \in m.mask.set
      BY <1>1, <2>1, <3>1 DEF AcksIn
    <3>2. CASE k \in BitsOf(s)
      BY <2>1, <3>2 DEF BitsOf
    <3> QED
      BY <2>1, <3>1, <3>2
  <2>4. \A j \in DOMAIN accepted : Verdicts(j)' = Verdicts(j)
    BY <1>2, <2>2 DEF Verdicts
  <2> QED
    BY <1>1, <2>1, <2>3, <2>4 DEF AckedMeansReceived, Targets
<1>6. ASSUME UNCHANGED <<accepted, m, uart>>, \A i \in Items : received[i] \subseteq received'[i]
      PROVE  AcksIn(m', received') /\ AckedMeansReceived'
  <2>1. AcksIn(m', received')
    BY <1>0, <1>1, <1>6, AcksGrow
  <2>2. \A j \in DOMAIN accepted : Verdicts(j)' = Verdicts(j) /\ Targets(j)' = Targets(j)
    BY <1>6 DEF Verdicts, Targets
  <2>3. accepted' = accepted
    BY <1>6
  <2> QED
    BY <1>1, <1>2, <1>6, <2>1, <2>2, <2>3 DEF AckedMeansReceived
<1>7. ASSUME NEW i \in Items, NEW s \in Others, Receive(i, s)
      PROVE  UNCHANGED <<accepted, m, uart>> /\ \A j \in Items : received[j] \subseteq received'[j]
  BY <1>0, <1>7, InTheAir
<1>8. ASSUME NEW i \in Items, Lose(i)
      PROVE  UNCHANGED <<accepted, m, uart>> /\ \A j \in Items : received[j] \subseteq received'[j]
  BY <1>8 DEF Lose
<1> QED
  BY <1>3, <1>4, <1>5, <1>6, <1>7, <1>8 DEF Next, vars

\* By the time that a verdict is written, each stone has its result, also with
\* replies that are late, stones that are listed twice and priorities
\* (checkDone(), handleReply() of cs_MeshModelMulticastAcked.cpp).
THEOREM EachStoneHasResult == Spec => []ResultPerStone
<1>1. Init => ResultInv
  BY ResultInit
<1>2. ResultInv /\ [Next]_vars => ResultInv'
  BY ResultStep
<1>3. ResultInv => ResultPerStone
  BY DEF ResultInv
<1> QED
  BY <1>1, <1>2, <1>3, PTL DEF Spec

\* A verdict says what happened, when no reply is later than its item: a SUCCESS
\* was received by all, and each stone has its result.
THEOREM VerdictsAreTrue ==
  ASSUME ~ LateReplies
  PROVE  Spec => []VerdictIsTrue
<1>1. Init => VerdictInv
  BY ResultInit DEF VerdictInv
<1>2. VerdictInv /\ [Next]_vars => VerdictInv'
  BY VerdictStep
<1>3. VerdictInv => VerdictIsTrue
  BY DEF VerdictInv, ResultInv, VerdictIsTrue
<1> QED
  BY <1>1, <1>2, <1>3, PTL DEF Spec
-----------------------------------------------------------------------------
(***************************************************************************)
(* The order.  Without priorities the items that wait are in the slots     *)
(* from `next` on, in the order of their numbers and without gaps, and     *)
(* what is in progress is in the slot before `next`: with n items accepted *)
(* and the first s of them published.                                      *)
(***************************************************************************)
At(q, d) == (q.next + d) % QueueSize

Ring(q, n, s) ==
  /\ s <= n /\ n - s <= QueueSize
  /\ q.inProgress # None =>
       /\ n - s < QueueSize /\ q.inProgress = At(q, QueueSize - 1)
       /\ q.slot[q.inProgress].id = s
  /\ \A d \in Slots :
       IF d < n - s THEN q.slot[At(q, d)].id = s + 1 + d
       ELSE q.slot[At(q, d)] = NoItem \/ (q.inProgress # None /\ d = QueueSize - 1)

LEMMA AtIs ==
  ASSUME NEW q, GoodQueue(q)
  PROVE  /\ \A d \in Slots : At(q, d) \in Slots
         /\ \A x \in Slots : \E d \in Slots : x = At(q, d)
         /\ \A d, e \in Slots : At(q, d) = At(q, e) => d = e
         /\ 0 \in Slots /\ QueueSize - 1 \in Slots /\ At(q, 0) = q.next
<1>1. q.next \in Slots
  BY Record DEF GoodQueue
<1>2. \A d \in Slots : At(q, d) \in Slots
  BY <1>1, Wrap DEF At
<1>3. \A x \in Slots : \E d \in Slots : x = At(q, d)
  BY <1>1, Around DEF At
<1>4. ASSUME NEW d \in Slots, NEW e \in Slots, At(q, d) = At(q, e) PROVE d = e
  <2> DEFINE n == q.next
  <2>1. /\ At(q, d) = IF n + d < QueueSize THEN n + d ELSE n + d - QueueSize
        /\ At(q, e) = IF n + e < QueueSize THEN n + e ELSE n + e - QueueSize
    BY <1>1, Wrap DEF At
  <2>2. QueueSize \in Nat /\ n \in Nat /\ d \in Nat /\ e \in Nat /\ d < QueueSize /\ e < QueueSize
    BY <1>1, MeshAssumption DEF Slots
  <2>3. (IF n + d < QueueSize THEN n + d ELSE n + d - QueueSize)
          = (IF n + e < QueueSize THEN n + e ELSE n + e - QueueSize)
    BY <1>4, <2>1
  <2> HIDE DEF n
  <2> QED
    BY <2>2, <2>3
<1>5. 0 \in Slots /\ QueueSize - 1 \in Slots
  BY Apart DEF Slots
<1>6. At(q, 0) = q.next
  <2>1. QueueSize \in Nat /\ q.next \in Nat /\ q.next < QueueSize
    BY <1>1, MeshAssumption DEF Slots
  <2>2. At(q, 0) = IF q.next + 0 < QueueSize THEN q.next + 0 ELSE q.next + 0 - QueueSize
    BY <1>1, <1>5, Wrap DEF At
  <2> QED
    BY <2>1, <2>2
<1> QED
  BY <1>2, <1>3, <1>4, <1>5, <1>6

\* A slot is free when its item has number 0.
LEMMA Numbered ==
  ASSUME NEW q, GoodQueue(q), NEW x \in Slots, q.slot[x].id # 0
  PROVE  q.slot[x] # NoItem
BY Apart

LEMMA PutRing ==
  ASSUME NEW q, GoodQueue(q), NEW n \in Nat, NEW s \in Nat, Ring(q, n, s), FreeSlots(q) # {},
         NEW r, NEW it, it.id = n + 1,
         r.slot = [q.slot EXCEPT ![First(q, FreeSlots(q))] = it],
         r.inProgress = q.inProgress, r.next = q.next
  PROVE  Ring(r, n + 1, s)
<1> DEFINE w == n - s
           last == QueueSize - 1
<1>1. w \in Nat /\ QueueSize \in Nat \ {0} /\ Slots = 0 .. last
  BY Apart DEF Ring, Slots
<1>2. w < QueueSize /\ (q.inProgress # None => w < last)
  <2>1. PICK x \in Slots : q.slot[x] = NoItem
    BY DEF FreeSlots
  <2>2. PICK d \in Slots : x = At(q, d)
    BY AtIs
  <2>3. ~ (d < w)
    <3>1. d < w => q.slot[At(q, d)].id = s + 1 + d
      BY DEF Ring
    <3> QED
      BY <1>1, <2>1, <2>2, <3>1, Apart
  <2>4. q.inProgress # None => d # last
    BY <2>1, <2>2, Apart DEF Ring, GoodQueue
  <2> HIDE DEF w
  <2> QED
    BY <1>1, <2>3, <2>4
<1>3. w \in Slots /\ q.slot[At(q, w)] = NoItem /\ At(q, w) \in Slots
  <2>1. w \in Slots /\ ~ (w < n - s)
    BY <1>1, <1>2
  <2>2. q.slot[At(q, w)] = NoItem \/ (q.inProgress # None /\ w = last)
    BY <2>1 DEF Ring
  <2> HIDE DEF w
  <2> QED
    BY <1>1, <1>2, <2>1, <2>2, AtIs
<1>4. First(q, FreeSlots(q)) = At(q, w)
  <2>1. ASSUME NEW e \in 0 .. w - 1 PROVE At(q, e) \notin FreeSlots(q)
    <3>1. e \in Slots /\ e < n - s /\ e \in Nat
      BY <1>1, <1>2
    <3>2. q.slot[At(q, e)].id = s + 1 + e
      BY <3>1 DEF Ring
    <3>3. q.slot[At(q, e)].id # 0
      BY <3>1, <3>2
    <3> QED
      BY <3>3, Apart DEF FreeSlots
  <2>2. q.next \in Slots /\ At(q, w) \in FreeSlots(q)
    BY <1>3, Record DEF FreeSlots, GoodQueue
  <2> HIDE DEF w
  <2> QED
    BY <1>3, <2>1, <2>2, FirstIs DEF At
<1>5. \A d \in Slots : At(r, d) = At(q, d)
  BY DEF At
<1>6. \A x \in Slots : r.slot[x] = IF x = At(q, w) THEN it ELSE q.slot[x]
  BY <1>4, Record DEF GoodQueue
<1>7. ASSUME NEW d \in Slots
      PROVE  IF d < n + 1 - s THEN r.slot[At(r, d)].id = s + 1 + d
             ELSE r.slot[At(r, d)] = NoItem \/ (r.inProgress # None /\ d = last)
  <2>1. IF d < n - s THEN q.slot[At(q, d)].id = s + 1 + d
        ELSE q.slot[At(q, d)] = NoItem \/ (q.inProgress # None /\ d = last)
    BY DEF Ring
  <2>2. At(q, d) \in Slots /\ (At(q, d) = At(q, w) <=> d = w)
    BY <1>3, AtIs
  <2>3. r.slot[At(r, d)] = IF d = w THEN it ELSE q.slot[At(q, d)]
    BY <1>5, <1>6, <2>2
  <2>4. CASE d = w
    <3>1. d < n + 1 - s /\ n + 1 = s + 1 + d
      BY <1>1, <2>4
    <3> QED
      BY <2>3, <2>4, <3>1
  <2>5. CASE d # w
    <3>1. d < n + 1 - s <=> d < n - s
      BY <1>1, <2>5
    <3>2. r.slot[At(r, d)] = q.slot[At(q, d)]
      BY <2>3, <2>5
    <3> QED
      BY <2>1, <3>1, <3>2
  <2> QED
    BY <2>4, <2>5
<1>8. s <= n + 1 /\ n + 1 - s <= QueueSize
  BY <1>1, <1>2
<1>9. ASSUME r.inProgress # None
      PROVE  n + 1 - s < QueueSize /\ r.inProgress = At(r, last) /\ r.slot[r.inProgress].id = s
  <2>1. n + 1 - s < QueueSize
    BY <1>1, <1>2, <1>9
  <2>2. q.inProgress = At(q, last) /\ q.slot[q.inProgress].id = s
    BY <1>9 DEF Ring
  <2>3. q.inProgress \in Slots /\ q.inProgress # At(q, w)
    BY <1>3, <1>9, <2>2, AtIs DEF GoodQueue
  <2> QED
    BY <1>5, <1>6, <2>1, <2>2, <2>3, AtIs
<1> QED
  BY <1>7, <1>8, <1>9 DEF Ring

LEMMA DoneRing ==
  ASSUME NEW q, GoodQueue(q), NEW n \in Nat, NEW s \in Nat, Ring(q, n, s), q.inProgress # None,
         NEW r, r.slot = [q.slot EXCEPT ![q.inProgress] = NoItem], r.inProgress = None, r.next = q.next
  PROVE  Ring(r, n, s)
<1> DEFINE last == QueueSize - 1
<1>1. n - s < QueueSize /\ s <= n /\ q.inProgress = At(q, last) /\ q.inProgress \in Slots /\ last \in Slots
  BY AtIs DEF Ring
<1>2. \A d \in Slots : At(r, d) = At(q, d)
  BY DEF At
<1>3. \A x \in Slots : r.slot[x] = IF x = At(q, last) THEN NoItem ELSE q.slot[x]
  BY <1>1, Record DEF GoodQueue
<1>4. ASSUME NEW d \in Slots
      PROVE  IF d < n - s THEN r.slot[At(r, d)].id = s + 1 + d ELSE r.slot[At(r, d)] = NoItem
  <2>1. IF d < n - s THEN q.slot[At(q, d)].id = s + 1 + d
        ELSE q.slot[At(q, d)] = NoItem \/ (q.inProgress # None /\ d = last)
    BY DEF Ring
  <2>2. At(q, d) \in Slots /\ (At(q, d) = At(q, last) <=> d = last)
    BY <1>1, AtIs
  <2>3. r.slot[At(r, d)] = IF d = last THEN NoItem ELSE q.slot[At(q, d)]
    BY <1>2, <1>3, <2>2
  <2>4. d = last => ~ (d < n - s)
    BY <1>1, Apart
  <2> HIDE DEF last
  <2> QED
    BY <2>1, <2>3, <2>4
<1>5. n - s <= QueueSize
  BY DEF Ring
<1> QED
  BY <1>1, <1>4, <1>5 DEF Ring

LEMMA SendRing ==
  ASSUME Priorities \subseteq {FALSE},
         NEW q, GoodQueue(q), NEW n \in Nat, NEW s \in Nat, Ring(q, n, s), NEW ok \in BOOLEAN,
         q.inProgress = None
  PROVE  LET r == SendMsgFromQueue(q, ok)
         IN IF r.inProgress = None THEN Ring(r, n, s)
            ELSE ok /\ r.slot[r.inProgress].id = s + 1 /\ Ring(r, n, s + 1)
<1> DEFINE r == SendMsgFromQueue(q, ok)
           x == GetNextItemInQueue(q)
           w == n - s
           last == QueueSize - 1
<1>1. /\ GoodQueue(r) /\ r.slot = q.slot
      /\ r.inProgress = None => r.next = q.next
      /\ r.inProgress # None =>
           /\ ok /\ x \in Slots /\ q.slot[x] # NoItem
           /\ r.inProgress = x /\ r.next = (x + 1) % QueueSize
  BY Send
<1>2. w \in Nat /\ w <= QueueSize /\ QueueSize \in Nat \ {0} /\ Slots = 0 .. last
  BY Apart DEF Ring, Slots
<1>3. \A d \in Slots : IF d < n - s THEN q.slot[At(q, d)].id = s + 1 + d ELSE q.slot[At(q, d)] = NoItem
  BY DEF Ring
<1> SUFFICES IF r.inProgress = None THEN Ring(r, n, s)
             ELSE ok /\ r.slot[r.inProgress].id = s + 1 /\ Ring(r, n, s + 1)
  OBVIOUS
<1>4. CASE r.inProgress = None
  <2>1. \A d \in Slots : At(r, d) = At(q, d)
    BY <1>1, <1>4 DEF At
  <2> HIDE DEF r
  <2>2. Ring(r, n, s)
    BY <1>1, <1>4, <2>1 DEF Ring
  <2> QED
    BY <1>4, <2>2
<1>5. CASE r.inProgress # None
  <2>1. w >= 1 /\ w - 1 < QueueSize
    <3>1. PICK d \in Slots : x = At(q, d)
      BY <1>1, <1>5, AtIs
    <3>2. d < n - s
      BY <1>1, <1>3, <1>5, <3>1
    <3> QED
      BY <1>2, <3>2
  <2>2. 0 \in Slots /\ q.slot[q.next].id = s + 1
    <3>1. 0 \in Slots /\ 0 < n - s /\ At(q, 0) = q.next
      BY <2>1, AtIs
    <3>2. q.slot[At(q, 0)].id = s + 1 + 0
      BY <1>3, <3>1
    <3> QED
      BY <3>1, <3>2
  <2>3. x = q.next
    <3> DEFINE used == Slots \ FreeSlots(q)
               high == {y \in used : q.slot[y].priority}
    <3>1. high = {}
      <4> SUFFICES ASSUME NEW y \in used PROVE ~ q.slot[y].priority
        OBVIOUS
      <4>1. q.slot[y] \in [id : Items, ids : Lists, priority : Priorities]
        BY Record, Apart DEF FreeSlots, GoodQueue
      <4> QED
        BY <4>1
    <3>2. x = First(q, used)
      BY <3>1 DEF GetNextItemInQueue
    <3>3. q.next \in Slots /\ q.next \in used /\ (q.next + 0) % QueueSize = q.next
      <4>1. q.next \in Slots /\ At(q, 0) = q.next
        BY Record, AtIs DEF GoodQueue
      <4>2. q.slot[q.next] # NoItem
        BY <2>2, Apart
      <4> QED
        BY <4>1, <4>2 DEF At, FreeSlots
    <3> HIDE DEF used
    <3>4. \A e \in 0 .. 0 - 1 : (q.next + e) % QueueSize \notin used
      OBVIOUS
    <3>5. First(q, used) = (q.next + 0) % QueueSize
      BY <2>2, <3>3, <3>4, FirstIs
    <3> QED
      BY <3>2, <3>3, <3>5
  <2>4. ASSUME NEW d \in Slots
        PROVE  At(r, d) = IF d = last THEN At(q, 0) ELSE At(q, d + 1)
    <3> DEFINE k == q.next
    <3>1. k \in Slots /\ r.next \in Slots /\ r.next = (k + 1) % QueueSize
      BY <1>1, <1>5, <2>3, Record DEF GoodQueue
    <3>2. r.next = IF k + 1 < QueueSize THEN k + 1 ELSE 0
      BY <1>2, <3>1
    <3>3. At(r, d) = IF r.next + d < QueueSize THEN r.next + d ELSE r.next + d - QueueSize
      BY <3>1, Wrap DEF At
    <3>4. d # last => d + 1 \in Slots
      BY <1>2
    <3>5. d # last => At(q, d + 1) = IF k + (d + 1) < QueueSize THEN k + (d + 1) ELSE k + (d + 1) - QueueSize
      BY <3>1, <3>4, Wrap DEF At
    <3>6. At(q, 0) = k
      BY AtIs
    <3> HIDE DEF k, r
    <3>7. CASE k + 1 < QueueSize
      BY <1>2, <3>1, <3>2, <3>3, <3>5, <3>6, <3>7
    <3>8. CASE ~ (k + 1 < QueueSize)
      BY <1>2, <3>1, <3>2, <3>3, <3>5, <3>6, <3>8
    <3> QED
      BY <3>7, <3>8
  <2>5. r.inProgress = At(r, last)
    <3>1. last \in Slots /\ At(q, 0) = q.next
      BY AtIs
    <3> QED
      BY <1>1, <1>5, <2>3, <2>4, <3>1
  <2>6. r.slot[r.inProgress].id = s + 1
    BY <1>1, <1>5, <2>2, <2>3
  <2>7. ASSUME NEW d \in Slots
        PROVE  IF d < n - (s + 1) THEN r.slot[At(r, d)].id = (s + 1) + 1 + d
               ELSE r.slot[At(r, d)] = NoItem \/ (r.inProgress # None /\ d = last)
    <3>1. CASE d = last
      BY <1>2, <1>5, <3>1
    <3>2. CASE d # last
      <4>1. d + 1 \in Slots /\ r.slot[At(r, d)] = q.slot[At(q, d + 1)]
        BY <1>1, <1>2, <2>4, <3>2
      <4>2. IF d + 1 < n - s THEN q.slot[At(q, d + 1)].id = s + 1 + (d + 1) ELSE q.slot[At(q, d + 1)] = NoItem
        BY <1>3, <4>1
      <4>3. (d + 1 < n - s <=> d < n - (s + 1)) /\ s + 1 + (d + 1) = (s + 1) + 1 + d
        BY <1>2
      <4> HIDE DEF r
      <4> QED
        BY <4>1, <4>2, <4>3
    <3> QED
      BY <3>1, <3>2
  <2>8. s + 1 <= n /\ n - (s + 1) <= QueueSize /\ n - (s + 1) < QueueSize
    BY <1>2, <2>1
  <2> HIDE DEF r
  <2>9. Ring(r, n, s + 1)
    BY <2>5, <2>6, <2>7, <2>8 DEF Ring
  <2> QED
    BY <1>1, <1>5, <2>6, <2>9
<1> QED
  BY <1>4, <1>5

\* Publish() of an item that is the next one, or of the one published last.
LEMMA PublishOrder ==
  ASSUME NEW q, NEW ok \in BOOLEAN, Publish(q, ok), SentInOrder, started \in Seq(Items),
         NEW s \in Nat, s = Len(started),
         q.inProgress # None => q.slot[q.inProgress].id \in Items
  PROVE  /\ q.inProgress = None \/ ~ ok \/ q.slot[q.inProgress].id = s =>
              SentInOrder' /\ Len(started') = s
         /\ q.inProgress # None /\ ok /\ q.slot[q.inProgress].id = s + 1 =>
              SentInOrder' /\ Len(started') = s + 1
<1> DEFINE i == q.slot[q.inProgress].id
<1>1. \A k \in DOMAIN started : started[k] = k
  BY DEF SentInOrder
<1>2. DOMAIN started = 1 .. s
  OBVIOUS
<1>3. CASE q.inProgress = None \/ ~ ok
  <2>1. started' = started
    BY <1>3 DEF Publish
  <2> QED
    BY <1>3, <2>1 DEF SentInOrder
<1>4. CASE q.inProgress # None /\ ok
  <2>1. /\ i \in Items
        /\ started' = IF \E k \in DOMAIN started : started[k] = i THEN started ELSE Append(started, i)
    BY <1>4, Zenon DEF Publish
  <2>2. i \in Nat \ {0}
    BY <2>1, MeshAssumption DEF Items
  <2> HIDE DEF i
  <2>3. CASE i = s
    <3>1. s \in DOMAIN started /\ started[s] = s
      BY <1>1, <1>2, <2>2, <2>3
    <3>2. started' = started
      BY <2>1, <2>3, <3>1
    <3> QED
      BY <1>4, <2>3, <3>2 DEF SentInOrder, i
  <2>4. CASE i = s + 1
    <3>1. ~ \E k \in DOMAIN started : started[k] = i
      BY <1>1, <1>2, <2>4
    <3>2. started' = Append(started, i)
      BY <2>1, <3>1
    <3>3. Len(started') = s + 1 /\ DOMAIN started' = 1 .. s + 1
          /\ started'[s + 1] = s + 1 /\ \A k \in 1 .. s : started'[k] = started[k]
      BY <2>1, <2>4, <3>2
    <3>4. \A k \in DOMAIN started' : started'[k] = k
      <4> SUFFICES ASSUME NEW k \in 1 .. s + 1 PROVE started'[k] = k
        BY <3>3
      <4>1. k = s + 1 \/ k \in 1 .. s
        OBVIOUS
      <4> QED
        BY <1>1, <1>2, <3>3, <4>1
    <3> QED
      BY <1>4, <2>4, <3>3, <3>4 DEF SentInOrder, i
  <2> QED
    BY <1>4, <2>3, <2>4 DEF i
<1> QED
  BY <1>3, <1>4

OrderInv == TypeInv /\ SentInOrder /\ Ring(m, Len(accepted), Len(started))

\* Sending what is next, from a queue in which nothing is in progress.
LEMMA OrderSend ==
  ASSUME Priorities \subseteq {FALSE}, SentInOrder, started \in Seq(Items),
         NEW q, GoodQueue(q), q.inProgress = None, NEW n \in Nat, Ring(q, n, Len(started)),
         NEW ok \in BOOLEAN, m' = SendMsgFromQueue(q, ok), Publish(m', ok)
  PROVE  SentInOrder' /\ Ring(m', n, Len(started'))
<1> DEFINE s == Len(started)
<1>1. s \in Nat
  OBVIOUS
<1>2. GoodQueue(m')
  BY Send
<1>3. IF m'.inProgress = None THEN Ring(m', n, s)
      ELSE ok /\ m'.slot[m'.inProgress].id = s + 1 /\ Ring(m', n, s + 1)
  BY <1>1, SendRing
<1>4. m'.inProgress # None => m'.slot[m'.inProgress].id \in Items
  BY <1>2, Record, Apart DEF GoodQueue
<1> HIDE DEF s
<1>5. /\ m'.inProgress = None => SentInOrder' /\ Len(started') = s
      /\ m'.inProgress # None => SentInOrder' /\ Len(started') = s + 1
  BY <1>1, <1>3, <1>4, PublishOrder DEF s
<1> QED
  BY <1>3, <1>5

LEMMA OrderStep ==
  ASSUME Priorities \subseteq {FALSE}, OrderInv, [Next]_vars
  PROVE  OrderInv'
<1> DEFINE n == Len(accepted)
           s == Len(started)
<1>0. /\ TypeInv /\ SentInOrder /\ Ring(m, n, s) /\ n \in Nat /\ s \in Nat
      /\ started \in Seq(Items) /\ GoodQueue(m) /\ accepted \in Seq(Lists)
  BY DEF OrderInv, TypeInv, WorldOK
<1>1. ASSUME NEW ids \in Lists, NEW priority \in Priorities, NEW ok \in BOOLEAN,
             AddToQueue(ids, priority, ok)
      PROVE  OrderInv'
  <2> DEFINE q == PutInQueue(ids, priority)
             it == [id |-> n + 1, ids |-> ids, priority |-> priority]
  <2>1. /\ FreeSlots(m) # {} /\ accepted' = Append(accepted, ids)
        /\ IF m.inProgress = None THEN Publish(m', ok) ELSE UNCHANGED <<air, started>>
    BY <1>1, Zenon DEF AddToQueue
  <2>2. /\ GoodQueue(q) /\ q.inProgress = m.inProgress /\ q.next = m.next
        /\ q.slot = [m.slot EXCEPT ![First(m, FreeSlots(m))] = it]
        /\ m' = SendMsgFromQueue(q, ok) /\ TypeInv'
    BY <1>0, <1>1, Adding
  <2>3. Len(accepted') = n + 1 /\ n + 1 \in Nat /\ it.id = n + 1
    BY <1>0, <2>1
  <2> HIDE DEF q, it, n, s
  <2>4. Ring(q, n + 1, s)
    BY <1>0, <2>1, <2>2, <2>3, PutRing
  <2>5. SentInOrder' /\ Ring(m', n + 1, Len(started'))
    <3>1. CASE m.inProgress = None
      BY <1>0, <2>1, <2>2, <2>3, <2>4, <3>1, OrderSend DEF s
    <3>2. CASE m.inProgress # None
      <4>1. m' = q /\ started' = started
        BY <2>1, <2>2, <3>2, Send
      <4> QED
        BY <1>0, <2>4, <4>1 DEF SentInOrder, s
    <3> QED
      BY <3>1, <3>2
  <2> QED
    BY <2>2, <2>3, <2>5 DEF OrderInv
<1>2. ASSUME NEW ok \in BOOLEAN, ProcessQueue(ok)
      PROVE  OrderInv'
  <2> DEFINE q == CheckDone(m)
  <2>1. /\ GoodQueue(q) /\ m' = SendMsgFromQueue(q, ok) /\ Publish(m', ok)
        /\ accepted' = accepted /\ TypeInv'
    BY <1>0, <1>2, Processing
  <2>2. /\ q.next = m.next
        /\ \/ m.inProgress = None /\ q = m
           \/ m.inProgress # None /\ q.inProgress = None /\ q.slot = [m.slot EXCEPT ![m.inProgress] = NoItem]
           \/ m.inProgress # None /\ q.inProgress = m.inProgress /\ q.slot = m.slot
    BY <1>0, Check
  <2> HIDE DEF q, n, s
  <2>3. CASE m.inProgress = None /\ q = m
    <3>1. SentInOrder' /\ Ring(m', n, Len(started'))
      BY <1>0, <2>1, <2>3, OrderSend DEF s
    <3> QED
      BY <2>1, <3>1 DEF OrderInv, n
  <2>4. CASE m.inProgress # None /\ q.inProgress = None /\ q.slot = [m.slot EXCEPT ![m.inProgress] = NoItem]
    <3>1. Ring(q, n, s)
      BY <1>0, <2>2, <2>4, DoneRing
    <3>2. SentInOrder' /\ Ring(m', n, Len(started'))
      BY <1>0, <2>1, <2>4, <3>1, OrderSend DEF s
    <3> QED
      BY <2>1, <3>2 DEF OrderInv, n
  <2>5. CASE m.inProgress # None /\ q.inProgress = m.inProgress /\ q.slot = m.slot
    <3>1. m' = q
      BY <2>1, <2>5, Send
    <3>2. \A d \in Slots : At(q, d) = At(m, d)
      BY <2>2 DEF At
    <3>3. Ring(m', n, s)
      <4>1. At(q, QueueSize - 1) = At(m, QueueSize - 1)
        BY <2>2 DEF At
      <4> QED
        BY <1>0, <2>5, <3>1, <3>2, <4>1 DEF Ring
    <3>4. m'.inProgress # None /\ m'.slot[m'.inProgress].id = s /\ s \in Items
      <4>1. m.slot[m.inProgress].id = s
        BY <1>0, <2>5 DEF Ring
      <4>2. m.slot[m.inProgress].id \in Items
        BY <1>0, <2>5, InProgress
      <4> QED
        BY <2>5, <3>1, <4>1, <4>2
    <3>5. SentInOrder' /\ Len(started') = s
      BY <1>0, <2>1, <3>4, PublishOrder DEF s
    <3> QED
      BY <2>1, <3>3, <3>5 DEF OrderInv, n
  <2> QED
    BY <2>2, <2>3, <2>4, <2>5
<1>3. ASSUME TypeInv', UNCHANGED <<accepted, started>>, m'.slot = m.slot,
             m'.inProgress = m.inProgress, m'.next = m.next
      PROVE  OrderInv'
  <2>1. \A d : At(m', d) = At(m, d)
    BY <1>3 DEF At
  <2> HIDE DEF n, s
  <2>2. Ring(m', n, s)
    BY <1>0, <1>3, <2>1 DEF Ring
  <2> QED
    BY <1>0, <1>3, <2>2 DEF OrderInv, SentInOrder, n, s
<1>4. ASSUME NEW i \in Items, NEW x \in Others, Receive(i, x) \/ HandleReply(i, x)
      PROVE  OrderInv'
  BY <1>0, <1>3, <1>4, Replying, InTheAir
<1>5. TypeInv'
  <2>1. ASSUME NEW i \in Items, Lose(i) PROVE TypeInv'
    BY <1>0, <2>1 DEF Lose, TypeInv, WorldOK
  <2>2. ASSUME UNCHANGED vars PROVE TypeInv'
    BY <1>0, <2>2 DEF vars, TypeInv, WorldOK
  <2> QED
    BY <1>1, <1>2, <1>4, <2>1, <2>2 DEF Next, OrderInv
<1>6. ASSUME NEW i \in Items, Lose(i) PROVE OrderInv'
  BY <1>3, <1>5, <1>6 DEF Lose
<1>7. ASSUME UNCHANGED vars PROVE OrderInv'
  BY <1>3, <1>5, <1>7 DEF vars
<1> QED
  BY <1>1, <1>2, <1>4, <1>6, <1>7 DEF Next

LEMMA OrderInit ==
  Init => OrderInv
<1> SUFFICES ASSUME Init PROVE OrderInv
  OBVIOUS
<1>1. /\ accepted = <<>> /\ started = <<>> /\ m.inProgress = None
      /\ m.slot = [x \in Slots |-> NoItem] /\ TypeInv
  BY TypeInit DEF Init
<1>2. Len(accepted) = 0 /\ Len(started) = 0 /\ SentInOrder
  BY <1>1 DEF SentInOrder
<1>3. \A d \in Slots : m.slot[At(m, d)] = NoItem /\ d >= 0
  <2>1. \A d \in Slots : At(m, d) \in Slots
    BY <1>1, AtIs DEF TypeInv
  <2> QED
    BY <1>1, <2>1, Apart DEF Slots
<1>4. Ring(m, 0, 0)
  <2>1. \A d \in Slots : ~ (d < 0 - 0)
    BY MeshAssumption DEF Slots
  <2>2. 0 - 0 <= QueueSize
    BY MeshAssumption
  <2> QED
    BY <1>1, <1>3, <2>1, <2>2 DEF Ring
<1> QED
  BY <1>1, <1>2, <1>4 DEF OrderInv

\* The queue keeps the order in which it accepted the items, however often its
\* ring wraps around, items are acked, time out or are not published
\* (addToQueue(), getNextItemInQueue() of cs_MeshModelMulticastAcked.cpp).
THEOREM QueueKeepsOrder ==
  ASSUME Priorities \subseteq {FALSE}
  PROVE  Spec => []QueueIsSound
<1>1. Init => OrderInv
  BY OrderInit
<1>2. OrderInv /\ [Next]_vars => OrderInv'
  BY OrderStep
<1>3. OrderInv => QueueIsSound
  <2> SUFFICES ASSUME OrderInv PROVE TypeOK
    BY DEF OrderInv, QueueIsSound
  <2>1. WorldOK /\ GoodQueue(m)
    BY DEF OrderInv, TypeInv
  <2>2. /\ m.slot \in [Slots -> Cells] /\ m.inProgress \in Slots \cup {None}
        /\ m.next \in Slots /\ m.callsLeft \in 0 .. Calls
    BY <2>1, Record DEF GoodQueue
  <2> QED
    BY <2>1, <2>2 DEF TypeOK, WorldOK, GoodQueue, Cells
<1> QED
  BY <1>1, <1>2, <1>3, PTL DEF Spec
=============================================================================
