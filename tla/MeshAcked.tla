----------------------------- MODULE MeshAcked -----------------------------
(***************************************************************************)
(* The acked multicast model of the mesh (cs_MeshModelMulticastAcked):     *)
(* a ring of slots with mesh commands, one of which is in progress.  It is *)
(* published again every 200 ms until each stone in its list has replied,  *)
(* or its time is over.  The results are written to the UART.              *)
(*                                                                         *)
(* The other stones reply to each message they receive.  A message or a    *)
(* reply may be lost, doubled, or late: later than the end of its item.    *)
(* Items are numbered in the order in which addToQueue() accepts them.     *)
(* Each comes from handleSendMeshCommand(), the only caller that adds an   *)
(* acked broadcast, so it has a control command to report about, and no    *)
(* one takes it out again with remFromQueue().                             *)
(***************************************************************************)
EXTENDS Integers, Sequences

CONSTANTS NumItems,     \* bound: mesh commands in a behaviour
          QueueSize,    \* slots of the queue
          Calls,        \* processQueue() calls until an item times out
          Own,          \* the stone that sends
          Others,       \* the other stones of the mesh
          Lists,        \* lists of stone ids of the mesh commands
          Priorities,   \* priorities of the mesh commands
          LateReplies   \* whether a reply may come after the end of its item

ASSUME MeshAssumption ==
  /\ NumItems \in Nat \ {0} /\ QueueSize \in Nat \ {0} /\ Calls \in Nat \ {0}
  /\ Own \notin Others
  /\ Lists \subseteq Seq(Others \cup {Own})
  /\ Priorities \subseteq BOOLEAN
  /\ LateReplies \in BOOLEAN

Items  == 1 .. NumItems
Slots  == 0 .. QueueSize - 1
None   == QueueSize             \* QUEUE_INDEX_NONE
NoItem == [id |-> 0, ids |-> <<>>, priority |-> FALSE]   \* a free slot

VARIABLES
  accepted,   \* the lists of stone ids of the accepted items
  m,          \* the model: slots, in progress, next, calls left, mask of acks
  uart,       \* of each item: the verdicts and the results written to the UART
  started,    \* the items in the order in which they were first published
  air,        \* the items of which a publication may still arrive
  received    \* of each item: the stones that received it

vars == <<accepted, m, uart, started, air, received>>

\* BitmaskVarSize: so many bits, and those that are set.
Mask(n) == [bits |-> n, set |-> {}]
IsAllBitsSet(mask) == mask.set = 1 .. mask.bits

Init ==
  /\ accepted = <<>>
  /\ m = [slot |-> [x \in Slots |-> NoItem], inProgress |-> None, next |-> 0,
          callsLeft |-> 0, mask |-> Mask(0)]
  /\ uart = [i \in Items |-> [verdicts |-> <<>>, results |-> {}]]
  /\ started = <<>> /\ air = {}
  /\ received = [i \in Items |-> {}]
-----------------------------------------------------------------------------
(***************************************************************************)
(* The queue: what the functions make of the model q.                      *)
(***************************************************************************)

\* The first slot of a set, from `next` onward.
First(q, S) ==
  LET slot(d) == (q.next + d) % QueueSize
  IN slot(CHOOSE d \in Slots : slot(d) \in S /\ \A e \in 0 .. d - 1 : slot(e) \notin S)

FreeSlots(q) == {x \in Slots : q.slot[x] = NoItem}

\* The slot to send from: one with priority if there is any.
GetNextItemInQueue(q) ==
  LET used == Slots \ FreeSlots(q)
      high == {x \in used : q.slot[x].priority}
  IN First(q, IF high # {} THEN high ELSE used)

\* Frees a slot, and empties the mask.  The code also does so with the index
\* NONE, which is outside of the queue: then no slot changes.
RemQueueItem(q, x) ==
  [q EXCEPT !.slot = [y \in Slots |-> IF y = x THEN NoItem ELSE q.slot[y]],
            !.mask = Mask(0)]

\* Mutant: the mask is not set up for the new item.
PrepareForMsgSameMask(q, ids) == [q EXCEPT !.callsLeft = Calls]

\* A new mask for the stone ids, in which the own stone counts as acked.
PrepareForMsg(q, ids) ==
  LET own == {k \in DOMAIN ids : ids[k] = Own /\ \A j \in 1 .. k - 1 : ids[j] # Own}
  IN [q EXCEPT !.callsLeft = Calls, !.mask = [bits |-> Len(ids), set |-> own]]

\* Mutant: `next` is not moved on.
SendMsgFromQueueSameNext(q, ok) ==
  IF q.inProgress # None \/ FreeSlots(q) = Slots THEN q
  ELSE LET x == GetNextItemInQueue(q)
           p == PrepareForMsg(q, q.slot[x].ids)
       IN IF ok THEN [p EXCEPT !.inProgress = x] ELSE p

\* When nothing is in progress, publish the next item.  If that fails, the
\* item stays in the queue and its turn remains.
SendMsgFromQueue(q, ok) ==
  IF q.inProgress # None \/ FreeSlots(q) = Slots THEN q
  ELSE LET x == GetNextItemInQueue(q)
           p == PrepareForMsg(q, q.slot[x].ids)
       IN IF ok THEN [p EXCEPT !.inProgress = x, !.next = (x + 1) % QueueSize] ELSE p

\* Whether this call finds all acks, and whether it finds the time over: the
\* second is looked at also after the first.
Acked(q)    == q.inProgress # None /\ IsAllBitsSet(q.mask)
TimedOut(q) == q.inProgress # None /\ q.callsLeft = 0

AfterAcked(q) ==
  IF Acked(q) THEN [RemQueueItem(q, q.inProgress) EXCEPT !.inProgress = None] ELSE q

\* Mutant: the calls left are not counted down.
CheckDoneUncounted(q) ==
  LET a == AfterAcked(q)
  IN IF TimedOut(q) THEN [RemQueueItem(a, a.inProgress) EXCEPT !.inProgress = None] ELSE a

\* checkDone(): finish what is acked, then what has no time left.
CheckDone(q) ==
  LET a == AfterAcked(q)
  IN IF TimedOut(q) THEN [RemQueueItem(a, a.inProgress) EXCEPT !.inProgress = None]
     ELSE IF q.inProgress # None THEN [a EXCEPT !.callsLeft = @ - 1]
     ELSE q

\* What checkDone() writes to the UART about the item in progress: a TIMEOUT
\* for each stone whose bit is not set, and a verdict over all.
Report(q) ==
  LET it == q.slot[q.inProgress]
      left == (DOMAIN it.ids) \ AfterAcked(q).mask.set
  IN IF q.inProgress = None THEN UNCHANGED uart
     ELSE uart' = [uart EXCEPT ![it.id] =
            [verdicts |-> @.verdicts \o (IF Acked(q) THEN <<"SUCCESS">> ELSE <<>>)
                                     \o (IF TimedOut(q) THEN <<"TIMEOUT">> ELSE <<>>),
             results  |-> @.results \cup
               IF TimedOut(q) THEN {<<it.ids[k], "TIMEOUT">> : k \in left} ELSE {}]]

\* What is in progress has been published, for the first time or again.
Publish(q, ok) ==
  IF ok /\ q.inProgress # None
  THEN LET i == q.slot[q.inProgress].id
       IN /\ air' = air \cup {i}
          /\ started' = IF \E k \in DOMAIN started : started[k] = i
                        THEN started ELSE Append(started, i)
  ELSE UNCHANGED <<air, started>>
-----------------------------------------------------------------------------
\* addToQueue(): the item is put in the first free slot, counting from `next`,
\* and sent at once when nothing is in progress.  A full queue refuses it.
AddToQueue(ids, priority, ok) ==
  /\ Len(accepted) < NumItems
  /\ FreeSlots(m) # {}
  /\ accepted' = Append(accepted, ids)
  /\ LET it == [id |-> Len(accepted) + 1, ids |-> ids, priority |-> priority]
         q == [m EXCEPT !.slot[First(m, FreeSlots(m))] = it]
     IN /\ m' = SendMsgFromQueue(q, ok)
        /\ IF m.inProgress = None THEN Publish(m', ok) ELSE UNCHANGED <<air, started>>
  /\ UNCHANGED <<uart, received>>

\* processQueue(), each retry interval: finish what is done, retry what is
\* not, send what is next.
ProcessQueue(ok) ==
  /\ m' = SendMsgFromQueue(CheckDone(m), ok)
  /\ Report(m)
  /\ Publish(m', ok)
  /\ UNCHANGED <<accepted, received>>

\* handleReply(): a reply of a stone sets its bit in the mask of what is in
\* progress, the first bit if its id is listed twice.
HandleReply(i, s) ==
  LET it == m.slot[m.inProgress]
      bits == {k \in DOMAIN it.ids : it.ids[k] = s /\ \A j \in 1 .. k - 1 : it.ids[j] # s}
  IN /\ s \in received[i]
     /\ m.inProgress # None
     /\ LateReplies \/ it.id = i
     /\ bits # {} /\ bits \cap m.mask.set = {}
     /\ m' = [m EXCEPT !.mask.set = @ \cup bits]
     /\ uart' = [uart EXCEPT ![it.id].results = @ \cup {<<s, "reply">>}]
     /\ UNCHANGED <<accepted, started, air, received>>

\* Another stone receives a publication: handleMsg() there handles the command
\* and replies, whether or not the stone is in the list.
Receive(i, s) ==
  /\ i \in air
  /\ received' = [received EXCEPT ![i] = @ \cup {s}]
  /\ UNCHANGED <<accepted, m, uart, started, air>>

\* No publication of the item arrives any more, unless it is published again.
Lose(i) ==
  /\ i \in air
  /\ air' = air \ {i}
  /\ UNCHANGED <<accepted, m, uart, started, received>>

Next ==
  \/ \E ids \in Lists, priority \in Priorities, ok \in BOOLEAN : AddToQueue(ids, priority, ok)
  \/ \E ok \in BOOLEAN : ProcessQueue(ok)
  \/ \E i \in Items, s \in Others : Receive(i, s) \/ HandleReply(i, s)
  \/ \E i \in Items : Lose(i)

\* The tick goes on, and not every publication fails.
Fairness == WF_vars(ProcessQueue(TRUE))

Spec == Init /\ [][Next]_vars /\ Fairness
=============================================================================
