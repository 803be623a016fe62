----------------------------- MODULE StateProps -----------------------------
(***************************************************************************)
(* What State and Storage are meant to guarantee.                          *)
(***************************************************************************)
EXTENDS State, FiniteSets

\* The value a key would have after a reset.
FlashValue(k) == IF HasValue(k) THEN ReadValue(k) ELSE Default

\* An operation of the store queue that is still to be executed.
Waiting(operation, k) ==
  \E i \in ItemsOf(k) : storeQueue[i].operation = operation /\ storeQueue[i].execute

\* FDS will still store the value that is in RAM.
Writing(k) ==
  \E i \in DOMAIN fdsQueue :
    /\ fdsQueue[i].op = "write" /\ fdsQueue[i].key = k
    /\ ~ fdsQueue[i].written /\ ~ fdsQueue[i].freed
    /\ fdsQueue[i].crc = ram[k]

\* FDS will still delete every record of the key.
Deleting(k) ==
  \A pos \in 0..(Len(flash[k]) - 1) :
    \E i \in DOMAIN fdsQueue :
      fdsQueue[i].op = "delete" /\ fdsQueue[i].key = k /\ fdsQueue[i].pos = pos

\* A failure of the operation is about to be reported, and to be retried then.
Failed(op, k) ==
  \E i \in DOMAIN fdsEvents :
    fdsEvents[i].op = op /\ fdsEvents[i].key = k /\ ~ fdsEvents[i].ok

-----------------------------------------------------------------------------
(* Invariants.                                                             *)

OnItsWay(k) == Waiting("write", k) \/ Writing(k) \/ Failed("write", k)

\* A value in RAM that flash does not have yet is on its way: its write waits
\* in the queue of State, is outstanding at FDS, or failed and is about to be
\* queued again (set(), setDelayed(), delayedStoreTick() and
\* handleStorageError() together).
NoLostWrite ==
  \A k \in Keys :
    ram[k] \notin {Absent, FlashValue(k)} => OnItsWay(k)

\* A removed key that still has records in flash is on its way out: its removal
\* waits, every record has a delete outstanding, or a delete failed.
NoLostRemoval ==
  \A k \in removed :
    flash[k] # << >> =>
      Waiting("remove", k) \/ Deleting(k) \/ Failed("delete", k)

\* No request to write or remove is lost.
NothingLost == NoLostWrite /\ NoLostRemoval

Outstanding(t) ==
  {i \in DOMAIN fdsQueue : fdsQueue[i].op # "gc" /\ TypeOf[fdsQueue[i].key] = t}
OutstandingEvents(t) ==
  {i \in DOMAIN fdsEvents : fdsEvents[i].op # "gc" /\ TypeOf[fdsEvents[i].key] = t}

\* The busy flags of Storage tell exactly what FDS has in hand: each type is
\* busy once for every operation not reported yet, except the deletes of a
\* factory reset; no busy flag remains set when all is reported, and nothing is
\* outstanding when Storage takes itself for idle.
BusyMeansOutstanding ==
  /\ ~ storageResetting =>
       \A t \in Types : busyRecordKeys[t] =
         Cardinality(Outstanding(t)) + Cardinality(OutstandingEvents(t))
  /\ Blocked => fdsQueue # << >> \/ fdsEvents # << >>
  /\ Blocked => Len(fdsQueue) + Len(fdsEvents) = 1

\* The queue has one write or remove at most for a key, so that an older
\* request can never be executed after a newer one (addToQueue()).
OneItemPerKey == \A k \in Keys : Cardinality(ItemsOf(k)) <= 1

\* The item that waits for a key is the operation that was asked for last.
QueueFollowsRequest ==
  \A k \in Keys : \A i \in ItemsOf(k) :
    storeQueue[i].operation = IF k \in removed THEN "remove" ELSE "write"

\* A value stays as it is in RAM until FDS has written it (State.h).
ValueKeptWhileWriting ==
  \A k \in Keys : BeingWritten(k) => Writing(k)

-----------------------------------------------------------------------------
(* Steps.                                                                  *)

\* The first read of a key gives the value that is in flash, not the default
\* (get() in mode STRATEGY1).
FlashValueFirst ==
  [][\A k \in Keys :
       Get(k) /\ HasValue(k) => ram'[k] = ReadValue(k)]_vars

\* A write that was accepted is not dropped before flash has the value, unless
\* the key changes or the device resets (delayedStoreTick()).
AcceptedWritesStay ==
  [][\A k \in Keys :
       /\ OnItsWay(k) /\ ram[k] \notin {Absent, FlashValue(k)}
       /\ ram'[k] = ram[k] /\ crashes' = crashes /\ ~ stateResetting'
       => OnItsWay(k)' \/ FlashValue(k)' = ram[k]]_vars

\* When the factory reset is reported as done, no record that has to go is left.
ResetErases ==
  [][stateResetting /\ ~ stateResetting' /\ crashes' = crashes
       => \A k \in ResetKeys : flash[k] = << >>]_vars

\* Set values are never lost to a reset but by taking the key back to a value it
\* had before: State and Storage implement the store.
Store == INSTANCE PersistentStore WITH
  mem  <- [k \in Keys |-> IF ram[k] # Absent THEN ram[k]
                          ELSE IF k \in removed THEN Default ELSE FlashValue(k)],
  disk <- [k \in Keys |-> FlashValue(k)]

ImplementsStore == Store!Spec

-----------------------------------------------------------------------------
(* Liveness.  The main loop keeps ticking; the application scheduler is a   *)
(* FIFO queue, so the rest of the start-up and every FDS event get their    *)
(* turn however often ticks come; FDS executes what it has accepted.       *)

Fairness ==
  /\ SF_vars(StartWritesToFlash)
  /\ WF_vars(Tick)
  /\ SF_vars(HandleEvent)
  /\ WF_vars(Fds)

FairSpec == Spec /\ Fairness

\* When the requests stop, flash ends up with the values that are in RAM, unless
\* a factory reset came between.
WritesReachFlash ==
  \/ <>stateResetting \/ []<><<App>>_vars
  \/ <>[](\A k \in Keys : ram[k] # Absent => FlashValue(k) = ram[k])

\* When the requests stop, the keys that were removed end up without records.
RemovalsReachFlash ==
  \/ <>stateResetting \/ []<><<App>>_vars
  \/ <>[](\A k \in removed : flash[k] = << >>)

\* A factory reset comes to an end, however many of its operations fail.
FactoryResetEnds == stateResetting ~> ~ stateResetting

\* What was asked for last reaches flash, be it a value or a removal.
RequestsReachFlash == WritesReachFlash /\ RemovalsReachFlash

\* A factory reset ends, and then it has erased everything (finishFactoryReset()).
FactoryResetCompletes == ResetErases /\ FactoryResetEnds
=============================================================================
