----------------------------- MODULE MeshProps -----------------------------
(***************************************************************************)
(* What the acked multicast queue promises to the sender of a command.     *)
(***************************************************************************)
EXTENDS MeshAcked

\* The queue, the item in progress, the mask and the reports have their types,
\* and an item in progress is in a slot that is in use, with a bit per stone id.
TypeOK ==
  /\ accepted \in Seq(Lists) /\ Len(accepted) <= NumItems
  /\ m.slot \in [Slots -> [id : Items, ids : Lists, priority : Priorities] \cup {NoItem}]
  /\ m.inProgress \in Slots \cup {None} /\ m.next \in Slots /\ m.callsLeft \in 0 .. Calls
  /\ m.inProgress # None =>
       /\ m.slot[m.inProgress] # NoItem
       /\ m.mask.bits = Len(m.slot[m.inProgress].ids)
       /\ m.mask.set \subseteq 1 .. m.mask.bits
  /\ uart \in [Items -> [verdicts : Seq({"SUCCESS", "TIMEOUT"}),
                         results : SUBSET ((Others \cup {Own}) \X {"reply", "TIMEOUT"})]]
  /\ air \subseteq Items /\ received \in [Items -> SUBSET Others]

Verdicts(i) == {uart[i].verdicts[k] : k \in DOMAIN uart[i].verdicts}
Targets(i)  == {accepted[i][k] : k \in DOMAIN accepted[i]} \ {Own}

\* A command whose verdict on the UART is SUCCESS was received by each of the
\* other stones in its list: no ack of one command counts for another.
AckedMeansReceived ==
  \A i \in DOMAIN accepted : "SUCCESS" \in Verdicts(i) => Targets(i) \subseteq received[i]

\* By the time that a verdict on a command is written, a result has been
\* written for each of the other stones in its list: its reply, or a timeout.
ResultPerStone ==
  \A i \in DOMAIN accepted :
    uart[i].verdicts # <<>> => \A s \in Targets(i) : \E r \in uart[i].results : r[1] = s

\* Without priorities the commands are first published in the order in which
\* the queue accepted them, however the ring wraps around: none is overtaken.
SentInOrder == \A k \in DOMAIN started : started[k] = k

\* A verdict says what happened to each stone (checkDone(), handleReply()).
VerdictIsTrue == AckedMeansReceived /\ ResultPerStone

\* The ring of slots is as it should be, and keeps the order (addToQueue(),
\* getNextItemInQueue()).
QueueIsSound == TypeOK /\ SentInOrder

\* Each accepted command ends in a verdict: no reply, loss or failure to
\* publish keeps the queue from going on.
EveryItemEnds == \A i \in Items : i <= Len(accepted) ~> uart[i].verdicts # <<>>

\* A command gets one verdict: SUCCESS or TIMEOUT, not both.
OneVerdict == \A i \in Items : Len(uart[i].verdicts) <= 1
=============================================================================
