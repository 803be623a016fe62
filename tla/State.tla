------------------------------- MODULE State -------------------------------
(***************************************************************************)
(* State (storage/cs_State.cpp): the values of the state variables that    *)
(* live in flash, a copy of each in RAM, and the queue of flash operations *)
(* that wait for a delay or for a retry.                                   *)
(*                                                                         *)
(* Everything here runs in the main loop, one handler at a time.  A tick   *)
(* walks over the whole queue; it is modelled one item per step, with      *)
(* cursor as the position, and no other handler runs while cursor # 0.     *)
(* FDS runs outside the main loop and interleaves with anything.           *)
(***************************************************************************)
EXTENDS Storage

CONSTANTS
  Default,        \* the firmware default (of every key)
  DelayedKeys,    \* keys stored with setDelayed()
  ThrottledKeys,  \* keys stored with setThrottled(); the others use set()
  RemovableKeys,  \* keys that are ever removed
  RetryTicks,     \* STATE_RETRY_STORE_DELAY_MS / TICK_INTERVAL_MS
  DelayTicks,     \* the delay of setDelayed(), in ticks
  ThrottleTicks,  \* the period of setThrottled(), in ticks
  MaxQueue        \* bound: queue length above which cleanUp() is not called

ASSUME StateAssumption ==
  /\ Default \in Value
  /\ DelayedKeys \subseteq Keys /\ ThrottledKeys \subseteq Keys
  /\ DelayedKeys \cap ThrottledKeys = {}
  /\ RemovableKeys \subseteq Keys
  /\ RetryTicks \in Nat /\ DelayTicks \in Nat /\ MaxQueue \in Nat
  /\ ThrottleTicks \in Nat \ {0}

VARIABLES
  storeQueue,             \* _store_queue
  startedWritingToFlash,  \* _startedWritingToFlash
  stateResetting,         \* _performingFactoryReset of State
  cursor,                 \* position of the tick in the queue, 0: no tick
  removed                 \* history: keys removed since the last boot and
                          \* neither set nor read since

stateVars == <<storeQueue, startedWritingToFlash, stateResetting, cursor, removed>>
vars == <<ram, storageVars, crashes, stateVars>>

\* The items of the factory reset and of the garbage collection have no key.
QueueItem == [operation : {"write", "remove"}, key : Keys, counter : Nat,
              initCounter : Nat, execute : BOOLEAN]
               \cup [operation : {"factoryReset", "gc"}, key : {Absent},
                     counter : Nat, initCounter : Nat, execute : BOOLEAN]

TypeOK ==
  /\ StorageTypeOK
  /\ storeQueue \in Seq(QueueItem)
  /\ startedWritingToFlash \in BOOLEAN
  /\ stateResetting \in BOOLEAN
  /\ cursor \in 0..Len(storeQueue)
  /\ removed \subseteq Keys

Init ==
  /\ StorageInit
  /\ storeQueue = << >>
  /\ startedWritingToFlash = FALSE
  /\ stateResetting = FALSE
  /\ cursor = 0
  /\ removed = {}

MainLoopIdle == cursor = 0

-----------------------------------------------------------------------------
(* The queue.                                                              *)

Item(operation, key, ticks, execute) ==
  [operation |-> operation, key |-> key, counter |-> ticks, initCounter |-> 0,
   execute |-> execute]

\* The positions of the write and remove items of a key (at most one).
ItemsOf(k) ==
  {i \in DOMAIN storeQueue : /\ storeQueue[i].key = k
                             /\ storeQueue[i].operation \in {"write", "remove"}}

\* The part of addToQueue() that updates the item of a key, in each mode.
\* The operation of an item that is found is left as it is.
DelayItem(i, ticks) ==
  [storeQueue EXCEPT ![i].counter = ticks, ![i].execute = TRUE]
ThrottleItem(i, ticks) ==
  [storeQueue EXCEPT ![i].initCounter = ticks, ![i].execute = TRUE]

\* Mutant: the queue is not searched.
AddToQueueAlways(operation, k, ticks) ==
  storeQueue' = Append(storeQueue, Item(operation, k, ticks, TRUE))

\* addToQueue() in mode DELAY
AddToQueue(operation, k, ticks) ==
  storeQueue' =
    IF operation \in {"write", "remove"} /\ ItemsOf(k) # {}
      THEN DelayItem(CHOOSE i \in ItemsOf(k) : TRUE, ticks)
      ELSE Append(storeQueue, Item(operation, k, ticks, TRUE))

\* Mutant: whatever was busy is queued as a write.
RetryAsWrite(operation, k, ret) ==
  IF ret = "BUSY" THEN AddToQueue("write", k, RetryTicks) ELSE UNCHANGED storeQueue

\* What set() and remove() do with the result of the flash operation.
RetryWhenBusy(operation, k, ret) ==
  IF ret = "BUSY" THEN AddToQueue(operation, k, RetryTicks)
                  ELSE UNCHANGED storeQueue

-----------------------------------------------------------------------------
(* Calls to Storage.                                                       *)

\* storeInFlash()
StoreInFlash(k, ret) ==
  \/ ~ startedWritingToFlash /\ ret = "BUSY" /\ UNCHANGED storageVars
  \/ /\ startedWritingToFlash /\ stateResetting
     /\ ret = "WRONG_STATE" /\ UNCHANGED storageVars
  \/ startedWritingToFlash /\ ~ stateResetting /\ StorageWrite(k, ret)

\* removeFromFlash()
RemoveFromFlash(k, ret) ==
  \/ ~ startedWritingToFlash /\ ret = "BUSY" /\ UNCHANGED storageVars
  \/ /\ startedWritingToFlash /\ stateResetting
     /\ ret = "WRONG_STATE" /\ UNCHANGED storageVars
  \/ startedWritingToFlash /\ ~ stateResetting /\ StorageRemove(k, ret)

Ret == {"SUCCESS", "BUSY", "WRONG_STATE", "UNSPECIFIED"}

-----------------------------------------------------------------------------
(* What the users of State may do.  The options of Env that are absent     *)
(* exclude a use; they say nothing about the code of State itself.         *)

BeingWritten(k) ==
  \E i \in DOMAIN fdsQueue : /\ fdsQueue[i].op = "write"
                             /\ fdsQueue[i].key = k /\ ~ fdsQueue[i].written

BeingRemoved(k) ==
  \E i \in DOMAIN fdsQueue : fdsQueue[i].op = "delete" /\ fdsQueue[i].key = k

\* "overwrite": a key is changed while FDS is writing or removing it.
MayChange(k) == "overwrite" \in Env \/ ~ (BeingWritten(k) \/ BeingRemoved(k))

\* "mixed": a set and a remove of the same key are waiting at the same time.
NoItem(operation, k) ==
  "mixed" \in Env \/ \A i \in ItemsOf(k) : storeQueue[i].operation # operation

MaySet(k) == MainLoopIdle /\ MayChange(k) /\ NoItem("remove", k)

\* "lateRead": the first read of a key comes after startWritesToFlash(), or
\* after the key was removed.
MayReadFirst(k) ==
  "lateRead" \in Env \/ (~ startedWritingToFlash /\ k \notin removed)

-----------------------------------------------------------------------------
(* Operations.  Setting the value the key has already is no step.          *)

StoreInRam(k, v) ==
  /\ ram[k] # v
  /\ ram' = [ram EXCEPT ![k] = v]
  /\ removed' = removed \ {k}

\* set() in mode STRATEGY1
Set(k, v) ==
  /\ MaySet(k)
  /\ StoreInRam(k, v)
  /\ \E ret \in Ret : StoreInFlash(k, ret) /\ RetryWhenBusy("write", k, ret)
  /\ UNCHANGED <<crashes, startedWritingToFlash, stateResetting, cursor>>

SetDelayed(k, v) ==
  /\ MaySet(k)
  /\ StoreInRam(k, v)
  /\ AddToQueue("write", k, DelayTicks)
  /\ UNCHANGED <<storageVars, crashes, startedWritingToFlash, stateResetting, cursor>>

\* setThrottled(): the first time, write now, and queue an item that does
\* nothing but keep later calls from writing before the period is over.  When
\* the write does not succeed, nothing is queued.
SetThrottled(k, v) ==
  /\ MaySet(k)
  /\ StoreInRam(k, v)
  /\ IF ItemsOf(k) # {}
       THEN /\ storeQueue' = ThrottleItem(CHOOSE i \in ItemsOf(k) : TRUE, ThrottleTicks)
            /\ UNCHANGED storageVars
       ELSE \E ret \in Ret :
              /\ StoreInFlash(k, ret)
              /\ storeQueue' = IF ret = "SUCCESS"
                                 THEN Append(storeQueue,
                                             Item("write", k, ThrottleTicks, FALSE))
                                 ELSE storeQueue
  /\ UNCHANGED <<crashes, startedWritingToFlash, stateResetting, cursor>>

\* FDS keeps using the buffer of a write it has not executed.
FreeBuffer(k) ==
  [i \in DOMAIN fdsQueue |->
     IF fdsQueue[i].op = "write" /\ fdsQueue[i].key = k
       THEN [fdsQueue[i] EXCEPT !.freed = TRUE]
       ELSE fdsQueue[i]]

\* remove() in mode STRATEGY1: free the buffer, then remove from flash.  A key
\* that is being written is busy.
RemoveValue(k) ==
  /\ MainLoopIdle /\ MayChange(k) /\ NoItem("write", k)
  /\ ram' = [ram EXCEPT ![k] = Absent]
  /\ removed' = removed \cup {k}
  /\ \E ret \in Ret :
       /\ IF BeingWritten(k)
            THEN /\ ret = IF stateResetting THEN "WRONG_STATE" ELSE "BUSY"
                 /\ fdsQueue' = FreeBuffer(k)
                 /\ UNCHANGED <<flash, flashFull, fdsEvents, failures, busyVars>>
            ELSE RemoveFromFlash(k, ret)
       /\ RetryWhenBusy("remove", k, ret)
  /\ UNCHANGED <<crashes, startedWritingToFlash, stateResetting, cursor>>

\* get() in mode STRATEGY1, of a key that is not in RAM yet: any code but
\* success puts the default in RAM.
Get(k) ==
  /\ MainLoopIdle /\ MayReadFirst(k)
  /\ ram[k] = Absent
  /\ ram' = [ram EXCEPT ![k] = IF ReadSucceeds(k) THEN ReadValue(k) ELSE Default]
  /\ removed' = removed \ {k}
  /\ UNCHANGED <<storageVars, crashes, storeQueue, startedWritingToFlash,
                 stateResetting, cursor>>

StartWritesToFlash ==
  /\ MainLoopIdle /\ ~ startedWritingToFlash
  /\ startedWritingToFlash' = TRUE
  /\ UNCHANGED <<ram, storageVars, crashes, storeQueue, stateResetting, cursor, removed>>

\* cleanUp(), on CMD_STORAGE_GARBAGE_COLLECT: commands are handled once the
\* start-up is complete.
CleanUp ==
  /\ "cleanup" \in Env /\ MainLoopIdle /\ startedWritingToFlash
  /\ Len(storeQueue) < MaxQueue
  /\ \E ret \in Ret :
       /\ GarbageCollect(ret)
       /\ IF ret = "BUSY" THEN AddToQueue("gc", Absent, RetryTicks)
                          ELSE UNCHANGED storeQueue
  /\ UNCHANGED <<ram, crashes, startedWritingToFlash, stateResetting, cursor, removed>>

\* factoryReset(), on CMD_FACTORY_RESET, which is sent once, by a device that
\* booted in factory reset mode.
FactoryReset ==
  /\ "reset" \in Env /\ MainLoopIdle /\ ~ stateResetting
  /\ stateResetting' = TRUE
  /\ \E ret \in Ret :
       /\ IF startedWritingToFlash THEN StorageFactoryReset(ret)
          ELSE ret = "BUSY" /\ UNCHANGED storageVars
       /\ storeQueue' = IF ret = "SUCCESS" THEN << >>
                        ELSE <<Item("factoryReset", Absent, RetryTicks, TRUE)>>
  /\ UNCHANGED <<ram, crashes, startedWritingToFlash, cursor, removed>>

-----------------------------------------------------------------------------
(* delayedStoreTick()                                                      *)

TickBegin ==
  /\ MainLoopIdle /\ storeQueue # << >>
  /\ cursor' = 1
  /\ UNCHANGED <<ram, storageVars, crashes, storeQueue, startedWritingToFlash,
                 stateResetting, removed>>

\* Perform the operation of an item; keep: the item has to be tried again.
Execute(item, keep) ==
  \E ret \in Ret \cup {"NOT_FOUND"} :
    /\ \/ /\ item.operation = "write" /\ ram[item.key] = Absent
          /\ ret = "NOT_FOUND" /\ UNCHANGED storageVars
       \/ /\ item.operation = "write" /\ ram[item.key] # Absent
          /\ StoreInFlash(item.key, ret)
       \/ item.operation = "remove" /\ RemoveFromFlash(item.key, ret)
       \/ item.operation = "factoryReset" /\ StorageFactoryReset(ret)
       \/ item.operation = "gc" /\ GarbageCollect(ret)
    /\ keep = (ret = "BUSY")

AdvanceTo(i) == cursor' = IF i > Len(storeQueue') THEN 0 ELSE i

\* Mutant: an item is executed once, busy or not.
RescheduleNever(item, keep) ==
  /\ storeQueue' = RemoveAt(storeQueue, cursor)
  /\ AdvanceTo(cursor)

\* What happens to an item whose counter was 0.  A throttled item that was
\* executed starts another period, whatever came of the operation.
Reschedule(item, keep) ==
  \/ /\ item.execute /\ item.initCounter # 0
     /\ storeQueue' = [storeQueue EXCEPT ![cursor].execute = FALSE,
                                         ![cursor].counter = item.initCounter]
     /\ AdvanceTo(cursor + 1)
  \/ /\ ~ (item.execute /\ item.initCounter # 0) /\ keep
     /\ storeQueue' = [storeQueue EXCEPT ![cursor].counter = RetryTicks]
     /\ AdvanceTo(cursor + 1)
  \/ /\ ~ (item.execute /\ item.initCounter # 0) /\ ~ keep
     /\ storeQueue' = RemoveAt(storeQueue, cursor)
     /\ AdvanceTo(cursor)

TickItem ==
  /\ ~ MainLoopIdle
  /\ LET item == storeQueue[cursor] IN
     \/ /\ item.counter # 0
        /\ storeQueue' = [storeQueue EXCEPT ![cursor].counter = @ - 1]
        /\ AdvanceTo(cursor + 1)
        /\ UNCHANGED storageVars
     \/ /\ item.counter = 0 /\ ~ item.execute
        /\ UNCHANGED storageVars
        /\ Reschedule(item, FALSE)
     \/ /\ item.counter = 0 /\ item.execute
        /\ UNCHANGED ram
        /\ \E keep \in BOOLEAN : Execute(item, keep) /\ Reschedule(item, keep)
  /\ UNCHANGED <<ram, crashes, startedWritingToFlash, stateResetting, removed>>

-----------------------------------------------------------------------------
(* handleFileStorageEvent() and the error callback of State.               *)

\* Mutant: only failed writes are tried again.
RetryWritesOnly(ev) ==
  IF ev.op = "write" /\ ~ stateResetting
    THEN AddToQueue("write", ev.key, RetryTicks)
    ELSE UNCHANGED storeQueue

\* Mutant: failures are not handled.
RetryNothing(ev) == UNCHANGED storeQueue

\* handleStorageError()
HandleStorageError(ev) ==
  IF stateResetting THEN AddToQueue("factoryReset", Absent, RetryTicks)
  ELSE CASE ev.op = "write"  -> AddToQueue("write", ev.key, RetryTicks)
         [] ev.op = "delete" -> AddToQueue("remove", ev.key, RetryTicks)
         [] ev.op = "gc"     -> UNCHANGED storeQueue

TakeEvent ==
  /\ MainLoopIdle
  /\ fdsEvents' = Tail(fdsEvents)
  /\ UNCHANGED <<ram, flash, flashFull, failures, crashes, startedWritingToFlash,
                 cursor, removed>>

\* Any failure ends the factory reset of Storage.
EventFailed(ev) ==
  /\ ~ ev.ok
  /\ storageResetting' = FALSE
  /\ HandleStorageError(ev)
  /\ UNCHANGED <<fdsQueue, stateResetting>>

HandleWriteEvent ==
  /\ fdsEvents # << >>
  /\ LET ev == Head(fdsEvents) IN
    /\ TakeEvent /\ ev.op = "write"
    /\ ClearBusy(TypeOf[ev.key])
    /\ \/ EventFailed(ev)
       \/ ev.ok /\ UNCHANGED <<fdsQueue, storageResetting, storeQueue, stateResetting>>
    /\ UNCHANGED collectingGarbage

\* The result of continueFactoryReset() is ignored.
HandleRemoveRecordEvent ==
  /\ fdsEvents # << >>
  /\ LET ev == Head(fdsEvents) IN
    /\ TakeEvent /\ ev.op = "delete"
    /\ ClearBusy(TypeOf[ev.key])
    /\ \/ EventFailed(ev) /\ UNCHANGED collectingGarbage
       \/ /\ ev.ok /\ storageResetting
          /\ \E ret \in Ret : ContinueFactoryReset(ret)
          /\ UNCHANGED <<storageResetting, storeQueue, stateResetting>>
       \/ /\ ev.ok /\ ~ storageResetting
          /\ UNCHANGED <<fdsQueue, collectingGarbage, storageResetting, storeQueue,
                         stateResetting>>

\* Mutant: any garbage collection ends the factory reset.
StateResettingAfterAnyGc == FALSE

StateResettingAfterGc == IF storageResetting THEN FALSE ELSE stateResetting

\* A garbage collection that ends a factory reset makes Storage dispatch
\* EVT_STORAGE_FACTORY_RESET_DONE, on which State ends its own.
HandleGarbageCollectionEvent ==
  /\ fdsEvents # << >>
  /\ LET ev == Head(fdsEvents) IN
    /\ TakeEvent /\ ev.op = "gc"
    /\ collectingGarbage' = FALSE
    /\ \/ EventFailed(ev)
       \/ /\ ev.ok
          /\ storageResetting' = FALSE
          /\ stateResetting' = StateResettingAfterGc
          /\ UNCHANGED <<fdsQueue, storeQueue>>
    /\ UNCHANGED busyRecordKeys

HandleEvent == \/ HandleWriteEvent \/ HandleRemoveRecordEvent
               \/ HandleGarbageCollectionEvent

-----------------------------------------------------------------------------
\* The device resets, at any time, and boots up to where Storage is initialized.
Reboot ==
  /\ crashes < MaxCrashes
  /\ crashes' = crashes + 1
  /\ ram' = [k \in Keys |-> Absent]
  /\ StorageBoot
  /\ storeQueue' = << >>
  /\ startedWritingToFlash' = FALSE
  /\ stateResetting' = FALSE
  /\ cursor' = 0
  /\ removed' = {}

Fds == FdsStep /\ UNCHANGED <<ram, crashes, stateVars>>

Tick == TickBegin \/ TickItem

AppSet ==
  \E v \in Value :
    \/ \E k \in Keys \ (DelayedKeys \cup ThrottledKeys) : Set(k, v)
    \/ \E k \in DelayedKeys : SetDelayed(k, v)
    \/ \E k \in ThrottledKeys : SetThrottled(k, v)

App == \/ AppSet
       \/ \E k \in RemovableKeys : RemoveValue(k)
       \/ \E k \in Keys : Get(k)
       \/ CleanUp
       \/ FactoryReset

Next == App \/ StartWritesToFlash \/ Tick \/ HandleEvent \/ Fds \/ Reboot

Spec == Init /\ [][Next]_vars
=============================================================================
