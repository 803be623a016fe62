---------------------------- MODULE MeshUnicast ----------------------------
(***************************************************************************)
(* The unicast model of the mesh (cs_MeshModelUnicast): a ring of slots    *)
(* with messages to one stone each, one of which the access layer of the   *)
(* mesh stack is transferring.  An item is done when the transfer reports  *)
(* a timeout, or a success and the reply message was handled.              *)
(*                                                                         *)
(* Commands come from handleSendMeshCommand() and wait in the queue; other *)
(* messages come from sendMsg(), which first removes from the queue what   *)
(* has their type, also when it is in progress.  The transfer of such an   *)
(* item goes on: it cannot be stopped, and keeps the next one waiting.     *)
(*                                                                         *)
(* Of the access layer the model has what this class sees: one transfer at *)
(* a time, that ends when the stone it is for sends a reply, or by itself. *)
(***************************************************************************)
EXTENDS Naturals, FiniteSets

CONSTANTS NumItems,     \* bound: items in a behaviour
          QueueSize,    \* slots of the queue
          Stones,       \* the other stones
          LateReplies   \* whether a reply may come after the end of its item

Items      == 1 .. NumItems
Slots      == 0 .. QueueSize - 1
None       == QueueSize                                    \* QUEUE_INDEX_NONE
Kinds      == {"command", "message"}
NoItem     == [id |-> 0, kind |-> "command", priority |-> FALSE]
NoTransfer == 0

VARIABLES
  target,     \* of each item that was accepted: the stone it is for
  uni,        \* the model: slots, in progress, next, status, reply received
  transfer,   \* the item that the access layer is transferring
  heard,      \* the items that their stone has received
  outcome     \* how each item ended

uniVars == <<target, uni, transfer, heard, outcome>>

Init ==
  /\ target = <<>>
  /\ uni = [slot |-> [x \in Slots |-> NoItem], inProgress |-> None, next |-> 0,
            status |-> "none", replied |-> FALSE]
  /\ transfer = NoTransfer
  /\ heard = {}
  /\ outcome = [i \in Items |-> "none"]
-----------------------------------------------------------------------------
Accepted == DOMAIN target
FreeSlots(q) == {x \in Slots : q.slot[x] = NoItem}

\* The first slot of a set, from `next` onward.
First(q, S) ==
  CHOOSE x \in S : \A y \in S : (x + QueueSize - q.next) % QueueSize <= (y + QueueSize - q.next) % QueueSize

GetNextItemInQueue(q) ==
  LET used == Slots \ FreeSlots(q)
      high == {x \in used : q.slot[x].priority}
  IN First(q, IF high # {} THEN high ELSE used)

\* sendMsgFromQueue() has something to send.
HasNext(q) == q.inProgress = None /\ FreeSlots(q) # Slots

\* Clear status and reply, and hand the next item to the access layer, unless
\* that still transfers another item, or fails.
SendMsgFromQueue(q, ok) ==
  LET x == GetNextItemInQueue(q)
      c == [q EXCEPT !.status = "none", !.replied = FALSE]
  IN IF ~HasNext(q) THEN q
     ELSE IF ok /\ transfer = NoTransfer
     THEN [c EXCEPT !.inProgress = x, !.next = (x + 1) % QueueSize]
     ELSE c

Transferring(q) ==
  IF q.inProgress # None /\ uni.inProgress = None THEN q.slot[q.inProgress].id ELSE transfer

\* Mutant: a removed item stays in progress.
RemQueueItemsInProgress(q, S) ==
  [q EXCEPT !.slot = [x \in Slots |-> IF x \in S THEN NoItem ELSE q.slot[x]]]

\* Frees slots: what was in progress no longer is.
RemQueueItems(q, S) ==
  [q EXCEPT !.slot = [x \in Slots |-> IF x \in S THEN NoItem ELSE q.slot[x]],
            !.inProgress = IF @ \in S THEN None ELSE @]

\* What checkDone() finds of the item in progress.
Verdict(q) ==
  IF q.inProgress = None THEN "none"
  ELSE IF q.status = "timeout" THEN "TIMEOUT"
  ELSE IF q.status = "success" /\ q.replied THEN "SUCCESS"
  ELSE "none"

CheckDone(q) == IF Verdict(q) = "none" THEN q ELSE RemQueueItems(q, {q.inProgress})
Report(q)    == IF Verdict(q) # "none" THEN [outcome EXCEPT ![q.slot[q.inProgress].id] = Verdict(q)]
                ELSE outcome

\* handleReliableStatus() and the reply in handleMsg(): nothing, when no item
\* is in progress.  Neither looks at which item or stone it is about.
WithStatus(q, s) == IF q.inProgress = None THEN q ELSE [q EXCEPT !.status = s]
WithReply(q)     == IF q.inProgress = None THEN q ELSE [q EXCEPT !.replied = TRUE]
-----------------------------------------------------------------------------
\* remFromQueue(): what has the type of the message, for whichever stone.
Removed(kind) == IF kind = "message" THEN {x \in Slots : uni.slot[x].id # 0 /\ uni.slot[x].kind = kind}
                 ELSE {}

\* sendMsg() or handleSendMeshCommand(): remove, add in the first free slot,
\* and send at once when nothing is in progress.  A full queue refuses.
AddToQueue(s, kind, priority, ok) ==
  LET id == Cardinality(Accepted) + 1
      r  == RemQueueItems(uni, Removed(kind))
      it == [id |-> id, kind |-> kind, priority |-> priority]
      q  == [r EXCEPT !.slot[First(r, FreeSlots(r))] = it]
  IN /\ id \in Items
     /\ FreeSlots(r) # {}
     /\ target' = [i \in 1 .. id |-> IF i = id THEN s ELSE target[i]]
     /\ uni' = SendMsgFromQueue(q, ok)
     /\ transfer' = IF uni'.inProgress # r.inProgress THEN uni'.slot[uni'.inProgress].id ELSE transfer
     /\ outcome' = [i \in Items |->
          IF \E x \in Removed(kind) : uni.slot[x].id = i THEN "removed" ELSE outcome[i]]
     /\ UNCHANGED heard

\* processQueue(), each 100 ms.
ProcessQueue(ok) ==
  /\ HasNext(uni)
  /\ uni' = SendMsgFromQueue(uni, ok)
  /\ transfer' = Transferring(uni')
  /\ UNCHANGED <<target, heard, outcome>>

\* The stone receives the message, handles it and replies.
Hear ==
  /\ transfer # NoTransfer
  /\ heard' = heard \cup {transfer}
  /\ UNCHANGED <<target, uni, transfer, outcome>>

\* A reply to item i arrives.  The access layer reports a success when it waits
\* for a reply of that stone; then handleMsg() gets the message.
HandleReply(i) ==
  LET ends == transfer # NoTransfer /\ target[transfer] = target[i]
      a == IF ends THEN WithStatus(uni, "success") ELSE uni
      b == WithReply(CheckDone(a))
  IN /\ i \in heard
     /\ LateReplies \/ transfer = i
     /\ transfer' = IF ends THEN NoTransfer ELSE transfer
     /\ uni' = CheckDone(b)
     /\ outcome' = IF Verdict(a) # "none" THEN Report(a) ELSE Report(b)
     /\ UNCHANGED <<target, heard>>

\* The access layer gives up.
TransferTimeout ==
  LET a == WithStatus(uni, "timeout")
  IN /\ transfer # NoTransfer
     /\ transfer' = NoTransfer
     /\ uni' = CheckDone(a)
     /\ outcome' = Report(a)
     /\ UNCHANGED <<target, heard>>

Next ==
  \/ \E s \in Stones, kind \in Kinds, priority, ok \in BOOLEAN : AddToQueue(s, kind, priority, ok)
  \/ \E ok \in BOOLEAN : ProcessQueue(ok)
  \/ Hear \/ TransferTimeout
  \/ \E i \in Items : HandleReply(i)

Spec == Init /\ [][Next]_uniVars /\ WF_uniVars(ProcessQueue(TRUE)) /\ WF_uniVars(TransferTimeout)
-----------------------------------------------------------------------------
\* The queue and the access layer have their types.
TypeOK ==
  /\ Accepted \subseteq Items /\ \A i \in Accepted : target[i] \in Stones
  /\ uni.slot \in [Slots -> [id : Items, kind : Kinds, priority : BOOLEAN] \cup {NoItem}]
  /\ uni.inProgress \in Slots \cup {None} /\ uni.next \in Slots
  /\ uni.status \in {"none", "success", "timeout"} /\ uni.replied \in BOOLEAN
  /\ transfer \in Items \cup {NoTransfer} /\ heard \subseteq Items
  /\ outcome \in [Items -> {"none", "SUCCESS", "TIMEOUT", "removed"}]

\* An item that is reported as a success was received by its stone: the status
\* of the transfer of a removed item is not taken for that of a later one.
AckMeansHeard == \A i \in Items : outcome[i] = "SUCCESS" => i \in heard

\* Every item that is accepted ends (after the last of the NumItems, all have):
\* acked, timed out, or removed for a newer message.  A removal, a failing
\* publication or a reply that is not expected does not keep the queue from
\* going on.
UnicastEnds == []<>(\A i \in Accepted : outcome[i] # "none")
=============================================================================
