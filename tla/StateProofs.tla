---------------------------- MODULE StateProofs ----------------------------
(***************************************************************************)
(* Proofs about State and Storage, for any keys, values, delays and bounds *)
(* and for every use of State that Env can allow: types, the queue, what   *)
(* Storage takes itself to be busy with, and the factory reset.  Then what *)
(* becomes of requests: what waits in the queue is what was asked for last, *)
(* the first read of a key finds the value in flash, no request is lost on *)
(* its way to flash, and what a key has in RAM and in flash is what the    *)
(* abstract store PersistentStore promises; for the uses of State on which *)
(* that depends (Restrained, Retried, Orderly).                            *)
(***************************************************************************)
EXTENDS StateProps, SequenceFacts, FiniteSetTheorems

-----------------------------------------------------------------------------
(* Types: Storage.                                                         *)

\* The part of StorageTypeOK about the variables in storageVars.
FlashTypeOK ==
  /\ flash \in [Keys -> Seq(Record)]
  /\ flashFull \in BOOLEAN
  /\ fdsQueue \in Seq(FdsOp) /\ Len(fdsQueue) <= FdsQueueSize
  /\ fdsEvents \in Seq(FdsEvent)
  /\ failures \in 0..MaxFailures

BusyTypeOK ==
  /\ busyRecordKeys \in [Types -> Nat]
  /\ collectingGarbage \in BOOLEAN
  /\ storageResetting \in BOOLEAN

LEMMA StorageTypeParts ==
  /\ StorageTypeOK <=> /\ ram \in [Keys -> Value \cup {Absent}]
                       /\ crashes \in 0..MaxCrashes
                       /\ FlashTypeOK /\ BusyTypeOK
  /\ StorageTypeOK' <=> /\ ram' \in [Keys -> Value \cup {Absent}]
                        /\ crashes' \in 0..MaxCrashes
                        /\ FlashTypeOK' /\ BusyTypeOK'
BY DEF StorageTypeOK, FlashTypeOK, BusyTypeOK

LEMMA StorageUnchangedType ==
  ASSUME FlashTypeOK, BusyTypeOK, UNCHANGED storageVars
  PROVE  FlashTypeOK' /\ BusyTypeOK'
BY DEF FlashTypeOK, BusyTypeOK, storageVars, busyVars

LEMMA LengthOfFlash ==
  ASSUME FlashTypeOK, NEW k \in Keys
  PROVE  flash[k] \in Seq(Record) /\ Len(flash[k]) \in Nat
<1>1. flash[k] \in Seq(Record)
  BY DEF FlashTypeOK
<1> QED BY <1>1, LenProperties

LEMMA EnqueueType ==
  ASSUME FlashTypeOK, NEW op \in FdsOp, Enqueue(op), ~ FdsQueueFull
  PROVE  fdsQueue' \in Seq(FdsOp) /\ Len(fdsQueue') <= FdsQueueSize
<1>1. FdsQueueSize \in Nat /\ Len(fdsQueue) \in Nat
  BY LenProperties, StorageAssumption DEF FlashTypeOK
<1> QED BY <1>1, AppendProperties DEF FlashTypeOK, Enqueue, FdsQueueFull

LEMMA GarbageCollectType ==
  ASSUME FlashTypeOK, BusyTypeOK, NEW ret, GarbageCollect(ret)
  PROVE  FlashTypeOK' /\ BusyTypeOK'
<1>1. CASE UNCHANGED storageVars
  BY <1>1, StorageUnchangedType
<1>2. CASE /\ ~ FdsQueueFull
           /\ Enqueue([op |-> "gc"])
           /\ collectingGarbage' = TRUE
           /\ UNCHANGED <<flash, flashFull, fdsEvents, failures, busyRecordKeys,
                          storageResetting>>
  <2>1. [op |-> "gc"] \in FdsOp
    BY DEF FdsOp, FdsGc
  <2>2. fdsQueue' \in Seq(FdsOp) /\ Len(fdsQueue') <= FdsQueueSize
    BY <1>2, <2>1, EnqueueType
  <2> QED BY <1>2, <2>2 DEF FlashTypeOK, BusyTypeOK
<1> QED BY <1>1, <1>2 DEF GarbageCollect

LEMMA StorageWriteType ==
  ASSUME FlashTypeOK, BusyTypeOK, NEW k \in Keys, ram'[k] \in Value,
         NEW ret, StorageWrite(k, ret)
  PROVE  FlashTypeOK' /\ BusyTypeOK'
<1>1. CASE UNCHANGED storageVars
  BY <1>1, StorageUnchangedType
<1>2. CASE \E gcRet \in {"BUSY", "SUCCESS"} : GarbageCollect(gcRet)
  BY <1>2, GarbageCollectType
<1>3. CASE /\ ~ FdsQueueFull
           /\ Enqueue([op |-> "write", key |-> k, crc |-> ram'[k], freed |-> FALSE,
                       update |-> flash[k] # << >>, written |-> FALSE])
           /\ SetBusy(TypeOf[k])
           /\ flashFull' \in {FALSE, "full" \in Env}
           /\ UNCHANGED <<flash, fdsEvents, failures, collectingGarbage,
                          storageResetting>>
  <2> DEFINE op == [op |-> "write", key |-> k, crc |-> ram'[k], freed |-> FALSE,
                    update |-> flash[k] # << >>, written |-> FALSE]
  <2>1. op \in FdsOp
    <3>1. (flash[k] # << >>) \in BOOLEAN
      OBVIOUS
    <3> QED BY <3>1 DEF FdsOp, FdsWrite
  <2>2. fdsQueue' \in Seq(FdsOp) /\ Len(fdsQueue') <= FdsQueueSize
    <3> HIDE DEF op
    <3>1. Enqueue(op)
      BY <1>3 DEF op
    <3> QED BY <1>3, <2>1, <3>1, EnqueueType
  <2>3. busyRecordKeys' \in [Types -> Nat]
    <3>1. TypeOf[k] \in Types /\ busyRecordKeys \in [Types -> Nat]
      BY StorageAssumption DEF BusyTypeOK
    <3> QED BY <1>3, <3>1 DEF SetBusy
  <2>4. flashFull' \in BOOLEAN
    <3>1. ("full" \in Env) \in BOOLEAN
      OBVIOUS
    <3> QED BY <1>3, <3>1
  <2> HIDE DEF op
  <2> QED BY <1>3, <2>2, <2>3, <2>4 DEF FlashTypeOK, BusyTypeOK
<1> QED BY <1>1, <1>2, <1>3 DEF StorageWrite

LEMMA StorageRemoveType ==
  ASSUME FlashTypeOK, BusyTypeOK, NEW k \in Keys, NEW ret, StorageRemove(k, ret)
  PROVE  FlashTypeOK' /\ BusyTypeOK'
<1> DEFINE records == Len(flash[k])
           room == FdsQueueSize - Len(fdsQueue)
           n == IF records <= room THEN records ELSE room
<1>1. CASE UNCHANGED storageVars
  BY <1>1, StorageUnchangedType
<1>2. CASE /\ fdsQueue' = fdsQueue \o Deletes(k, n)
           /\ busyRecordKeys' = [busyRecordKeys EXCEPT ![TypeOf[k]] = @ + n]
           /\ UNCHANGED <<flash, flashFull, fdsEvents, failures, collectingGarbage,
                          storageResetting>>
  <2>1. records \in Nat /\ room \in Nat
    <3>1. Len(fdsQueue) \in Nat /\ Len(fdsQueue) <= FdsQueueSize
      BY LenProperties DEF FlashTypeOK
    <3> QED BY <3>1, StorageAssumption, LengthOfFlash
  <2>2. n \in Nat /\ n <= records /\ n <= room
    BY <2>1
  <2> HIDE DEF n, room
  <2>3. Deletes(k, n) \in Seq(FdsOp) /\ Len(Deletes(k, n)) = n
    <3>1. \A i \in 1..n : [op |-> "delete", key |-> k, pos |-> Len(flash[k]) - i] \in FdsOp
      BY <2>1, <2>2 DEF FdsOp, FdsDelete
    <3>2. Deletes(k, n) \in [1..n -> FdsOp]
      BY <3>1 DEF Deletes
    <3> QED BY <2>2, <3>2, SeqDef
  <2>4. fdsQueue' \in Seq(FdsOp) /\ Len(fdsQueue') <= FdsQueueSize
    <3>1. /\ fdsQueue' \in Seq(FdsOp)
          /\ Len(fdsQueue') = Len(fdsQueue) + n
      BY <1>2, <2>3, ConcatProperties DEF FlashTypeOK
    <3>2. Len(fdsQueue) \in Nat /\ FdsQueueSize \in Nat
      BY LenProperties, StorageAssumption DEF FlashTypeOK
    <3> QED BY <2>2, <3>1, <3>2 DEF room
  <2>5. busyRecordKeys' \in [Types -> Nat]
    <3>1. TypeOf[k] \in Types /\ busyRecordKeys \in [Types -> Nat]
      BY StorageAssumption DEF BusyTypeOK
    <3> QED BY <1>2, <2>2, <3>1
  <2> QED BY <1>2, <2>4, <2>5 DEF FlashTypeOK, BusyTypeOK
<1> QED BY <1>1, <1>2 DEF StorageRemove

LEMMA ContinueFactoryResetType ==
  ASSUME FlashTypeOK, BusyTypeOK, NEW ret, ContinueFactoryReset(ret)
  PROVE  /\ fdsQueue' \in Seq(FdsOp) /\ Len(fdsQueue') <= FdsQueueSize
         /\ collectingGarbage' \in BOOLEAN
<1>1. CASE UNCHANGED <<fdsQueue, collectingGarbage>>
  BY <1>1 DEF FlashTypeOK, BusyTypeOK
<1>2. ASSUME NEW k \in ResetKeys, ~ FdsQueueFull, flash[k] # << >>,
             Enqueue([op |-> "delete", key |-> k, pos |-> Len(flash[k]) - 1]),
             UNCHANGED collectingGarbage
      PROVE  /\ fdsQueue' \in Seq(FdsOp) /\ Len(fdsQueue') <= FdsQueueSize
             /\ collectingGarbage' \in BOOLEAN
  <2>1. k \in Keys
    BY StorageAssumption
  <2>2. flash[k] \in Seq(Record) /\ Len(flash[k]) \in Nat \ {0}
    BY <1>2, <2>1, LengthOfFlash, EmptySeq
  <2>3. [op |-> "delete", key |-> k, pos |-> Len(flash[k]) - 1] \in FdsOp
    BY <2>1, <2>2 DEF FdsOp, FdsDelete
  <2> QED BY <1>2, <2>3, EnqueueType DEF BusyTypeOK
<1>3. CASE ~ FdsQueueFull /\ Enqueue([op |-> "gc"]) /\ collectingGarbage' = TRUE
  <2>1. [op |-> "gc"] \in FdsOp
    BY DEF FdsOp, FdsGc
  <2> QED BY <1>3, <2>1, EnqueueType
<1> QED BY <1>1, <1>2, <1>3 DEF ContinueFactoryReset

LEMMA StorageFactoryResetType ==
  ASSUME FlashTypeOK, BusyTypeOK, NEW ret, StorageFactoryReset(ret)
  PROVE  FlashTypeOK' /\ BusyTypeOK'
<1>1. CASE UNCHANGED storageVars
  BY <1>1, StorageUnchangedType
<1>2. CASE /\ ContinueFactoryReset(ret)
           /\ storageResetting' = (ret = "SUCCESS")
           /\ UNCHANGED <<flash, flashFull, fdsEvents, failures, busyRecordKeys>>
  <2>1. storageResetting' \in BOOLEAN
    BY <1>2
  <2> QED BY <1>2, <2>1, ContinueFactoryResetType DEF FlashTypeOK, BusyTypeOK
<1> QED BY <1>1, <1>2 DEF StorageFactoryReset

-----------------------------------------------------------------------------
(* Types: FDS.                                                             *)

\* The operation at the head of the queue, and what is behind it.
LEMMA HeadOfFdsQueue ==
  ASSUME FlashTypeOK, fdsQueue # << >>
  PROVE  /\ Head(fdsQueue) \in FdsOp
         /\ Tail(fdsQueue) \in Seq(FdsOp) /\ Len(Tail(fdsQueue)) <= FdsQueueSize
<1>1. Len(fdsQueue) \in Nat /\ FdsQueueSize \in Nat
  BY LenProperties, StorageAssumption DEF FlashTypeOK
<1> QED BY <1>1, HeadTailProperties DEF FlashTypeOK

LEMMA PostType ==
  ASSUME FlashTypeOK, NEW ev \in FdsEvent, Post(ev)
  PROVE  fdsEvents' \in Seq(FdsEvent)
BY AppendProperties DEF FlashTypeOK, Post

LEMMA EventTypes ==
  ASSUME NEW ok \in BOOLEAN
  PROVE  /\ [op |-> "gc", ok |-> ok] \in FdsEvent
         /\ \A k \in Keys, op \in {"write", "delete"} :
              [op |-> op, key |-> k, ok |-> ok] \in FdsEvent
BY DEF FdsEvent

LEMMA OpKinds ==
  ASSUME NEW op \in FdsOp
  PROVE  /\ op.op = "write" => op \in FdsWrite
         /\ op.op = "delete" => op \in FdsDelete
         /\ op.op = "gc" => op \in FdsGc
         /\ op.op \in {"write", "delete", "gc"}
BY DEF FdsOp, FdsWrite, FdsDelete, FdsGc

LEMMA DeleteRecordType ==
  ASSUME NEW s \in Seq(Record), NEW pos \in Nat
  PROVE  DeleteRecord(s, pos) \in Seq(Record)
<1>1. Len(s) \in Nat
  BY LenProperties
<1>2. CASE pos < Len(s)
  <2>1. Len(s) - pos \in 1..Len(s)
    BY <1>1, <1>2
  <2> QED BY <1>2, <2>1, RemoveAtFact DEF DeleteRecord
<1> QED BY <1>2 DEF DeleteRecord

LEMMA FdsStepType ==
  ASSUME FlashTypeOK, BusyTypeOK, FdsStep
  PROVE  FlashTypeOK' /\ BusyTypeOK'
<1> DEFINE op == Head(fdsQueue)
<1>1. SUFFICES FlashTypeOK'
  BY DEF FdsStep, BusyTypeOK, busyVars
<1>2. CASE FdsStoreRecord
  <2>1. op \in FdsOp /\ op.op = "write"
    BY <1>2, HeadOfFdsQueue DEF FdsStoreRecord
  <2>2. op \in FdsWrite
    BY <2>1, OpKinds
  <2>3. op.key \in Keys /\ op.crc \in Value
    BY <2>2 DEF FdsWrite
  <2>4. flash' \in [Keys -> Seq(Record)]
    <3>1. PICK rec \in Written(op) : flash' = [flash EXCEPT ![op.key] = Append(@, rec)]
      BY <1>2 DEF FdsStoreRecord
    <3>2. rec \in Record
      BY <2>3 DEF Written, Record
    <3>3. Append(flash[op.key], rec) \in Seq(Record)
      BY <2>3, <3>2, LengthOfFlash, AppendProperties
    <3> QED BY <3>1, <3>3 DEF FlashTypeOK
  <2>5. CASE op.update
    <3>1. fdsQueue' = [fdsQueue EXCEPT ![1].written = TRUE]
      BY <1>2, <2>5 DEF FdsStoreRecord
    <3>2. fdsQueue' = [fdsQueue EXCEPT ![1] = [op EXCEPT !.written = TRUE]]
      <4>1. fdsQueue # << >> /\ fdsQueue \in Seq(FdsOp)
        BY <1>2 DEF FdsStoreRecord, FlashTypeOK
      <4>2. op = fdsQueue[1]
        BY <4>1, HeadTailProperties
      <4> QED BY <3>1, <4>2
    <3>3. [op EXCEPT !.written = TRUE] \in FdsOp
      BY <2>2 DEF FdsWrite, FdsOp
    <3>4. 1 \in 1..Len(fdsQueue)
      <4>1. fdsQueue # << >>
        BY <1>2 DEF FdsStoreRecord
      <4> QED BY <4>1, EmptySeq DEF FlashTypeOK
    <3>5. fdsQueue' \in Seq(FdsOp) /\ Len(fdsQueue') = Len(fdsQueue)
      <4> DEFINE e == [op EXCEPT !.written = TRUE]
      <4> HIDE DEF e, op
      <4> QED BY <3>2, <3>3, <3>4, ExceptSeq DEF FlashTypeOK, e
    <3> QED BY <1>2, <2>4, <2>5, <3>5 DEF FdsStoreRecord, FlashTypeOK
  <2>6. CASE ~ op.update
    <3>1. [op |-> "write", key |-> op.key, ok |-> TRUE] \in FdsEvent
      BY <2>3, EventTypes
    <3>2. /\ Post([op |-> "write", key |-> op.key, ok |-> TRUE])
          /\ fdsQueue' = Tail(fdsQueue)
          /\ fdsQueue # << >>
          /\ UNCHANGED <<flashFull, failures>>
      BY <1>2, <2>6 DEF FdsStoreRecord
    <3> QED BY <2>4, <3>1, <3>2, PostType, HeadOfFdsQueue DEF FlashTypeOK
  <2> QED BY <2>5, <2>6
<1>3. CASE FdsDeleteOld \/ FdsDeleteRecord
  <2>1. /\ op \in FdsOp /\ op.op \in {"write", "delete"}
        /\ fdsQueue # << >> /\ fdsQueue' = Tail(fdsQueue)
        /\ UNCHANGED <<flashFull, failures>>
    BY <1>3, HeadOfFdsQueue DEF FdsDeleteOld, FdsDeleteRecord
  <2>2. op.key \in Keys /\ (op.op = "delete" => op.pos \in Nat)
    BY <2>1, OpKinds DEF FdsWrite, FdsDelete
  <2>3. flash' \in [Keys -> Seq(Record)]
    <3>1. PICK pos \in Nat : flash' = [flash EXCEPT ![op.key] = DeleteRecord(@, pos)]
      BY <1>3, <2>2 DEF FdsDeleteOld, FdsDeleteRecord
    <3>2. DeleteRecord(flash[op.key], pos) \in Seq(Record)
      BY <2>2, LengthOfFlash, DeleteRecordType
    <3> QED BY <3>1, <3>2 DEF FlashTypeOK
  <2>4. fdsEvents' \in Seq(FdsEvent)
    <3>1. PICK kind \in {"write", "delete"} :
             Post([op |-> kind, key |-> op.key, ok |-> TRUE])
      BY <1>3 DEF FdsDeleteOld, FdsDeleteRecord
    <3>2. [op |-> kind, key |-> op.key, ok |-> TRUE] \in FdsEvent
      BY <2>2, EventTypes
    <3> QED BY <3>1, <3>2, PostType
  <2> QED BY <2>1, <2>3, <2>4, HeadOfFdsQueue DEF FlashTypeOK
<1>4. CASE FdsCollect
  <2>1. [op |-> "gc", ok |-> TRUE] \in FdsEvent
    BY EventTypes
  <2> QED BY <1>4, <2>1, PostType, HeadOfFdsQueue DEF FdsCollect, FlashTypeOK
<1>5. CASE FdsFail
  <2>1. op \in FdsOp
    BY <1>5, HeadOfFdsQueue DEF FdsFail
  <2>2. fdsEvents' \in Seq(FdsEvent)
    <3>1. CASE op.op = "gc"
      <4>1. Post([op |-> "gc", ok |-> FALSE])
        BY <1>5, <3>1 DEF FdsFail
      <4> QED BY <4>1, EventTypes, PostType
    <3>2. CASE op.op # "gc"
      <4>1. op.key \in Keys /\ op.op \in {"write", "delete"}
        BY <2>1, <3>2, OpKinds DEF FdsWrite, FdsDelete
      <4>2. Post([op |-> op.op, key |-> op.key, ok |-> FALSE])
        BY <1>5, <3>2 DEF FdsFail
      <4>3. [op |-> op.op, key |-> op.key, ok |-> FALSE] \in FdsEvent
        BY <4>1, EventTypes
      <4> QED BY <4>2, <4>3, PostType
    <3> QED BY <3>1, <3>2
  <2>3. failures' \in 0..MaxFailures
    BY <1>5, StorageAssumption DEF FdsFail, FlashTypeOK
  <2> QED BY <1>5, <2>2, <2>3, HeadOfFdsQueue DEF FdsFail, FlashTypeOK
<1> QED BY <1>2, <1>3, <1>4, <1>5 DEF FdsStep

-----------------------------------------------------------------------------
(* The queue of State: its items are well-typed and no key has two.        *)

KeyOps == {"write", "remove"}

NoTwins ==
  \A i, j \in DOMAIN storeQueue :
    /\ storeQueue[i].operation \in KeyOps
    /\ storeQueue[j].operation \in KeyOps
    /\ storeQueue[i].key = storeQueue[j].key
    => i = j

QueueOK == storeQueue \in Seq(QueueItem) /\ NoTwins

LEMMA QueueUnchanged ==
  ASSUME QueueOK, UNCHANGED storeQueue
  PROVE  QueueOK'
BY DEF QueueOK, NoTwins

LEMMA QueueEmpty ==
  ASSUME storeQueue' = << >>
  PROVE  QueueOK'
BY EmptySeq DEF QueueOK, NoTwins

LEMMA QueueSingle ==
  ASSUME NEW e \in QueueItem, storeQueue' = <<e>>
  PROVE  QueueOK'
<1>1. DOMAIN <<e>> = {1} /\ <<e>> \in Seq(QueueItem)
  OBVIOUS
<1> QED BY <1>1 DEF QueueOK, NoTwins

LEMMA QueueUpdate ==
  ASSUME QueueOK, NEW i \in DOMAIN storeQueue, NEW e \in QueueItem,
         e.key = storeQueue[i].key, e.operation = storeQueue[i].operation,
         storeQueue' = [storeQueue EXCEPT ![i] = e]
  PROVE  QueueOK' /\ Len(storeQueue') = Len(storeQueue)
<1>1. storeQueue \in Seq(QueueItem) /\ DOMAIN storeQueue = 1..Len(storeQueue)
  BY LenProperties DEF QueueOK
<1>2. storeQueue' \in Seq(QueueItem) /\ Len(storeQueue') = Len(storeQueue)
  BY <1>1, ExceptSeq
<1>3. NoTwins'
  BY DEF QueueOK, NoTwins
<1> QED BY <1>2, <1>3 DEF QueueOK

LEMMA QueueAppend ==
  ASSUME QueueOK, NEW e \in QueueItem,
         e.operation \in KeyOps => ItemsOf(e.key) = {},
         storeQueue' = Append(storeQueue, e)
  PROVE  QueueOK' /\ Len(storeQueue') = Len(storeQueue) + 1
<1> DEFINE n == Len(storeQueue)
<1>1. storeQueue \in Seq(QueueItem) /\ n \in Nat /\ DOMAIN storeQueue = 1..n
  BY LenProperties DEF QueueOK
<1>2. /\ storeQueue' \in Seq(QueueItem) /\ Len(storeQueue') = n + 1
      /\ \A i \in 1..n : storeQueue'[i] = storeQueue[i]
      /\ storeQueue'[n + 1] = e
  BY <1>1, AppendProperties
<1>3. DOMAIN storeQueue' = 1..(n + 1)
  BY <1>2, LenProperties
<1>4. \A i \in 1..n : e.operation \in KeyOps =>
        ~ (storeQueue[i].key = e.key /\ storeQueue[i].operation \in KeyOps)
  BY <1>1 DEF ItemsOf, KeyOps
<1> HIDE DEF n
<1>5. NoTwins'
  <2> SUFFICES ASSUME NEW i \in 1..(n + 1), NEW j \in 1..(n + 1),
                      storeQueue'[i].operation \in KeyOps,
                      storeQueue'[j].operation \in KeyOps,
                      storeQueue'[i].key = storeQueue'[j].key
               PROVE  i = j
    BY <1>3 DEF NoTwins
  <2>1. CASE i \in 1..n /\ j \in 1..n
    BY <1>1, <1>2, <2>1 DEF QueueOK, NoTwins
  <2>2. CASE i \in 1..n /\ j = n + 1
    BY <1>2, <1>4, <2>2
  <2>3. CASE i = n + 1 /\ j \in 1..n
    BY <1>2, <1>4, <2>3
  <2> QED BY <1>1, <2>1, <2>2, <2>3
<1> QED BY <1>2, <1>5 DEF QueueOK, n

LEMMA QueueRemove ==
  ASSUME QueueOK, NEW c \in 1..Len(storeQueue),
         storeQueue' = RemoveAt(storeQueue, c)
  PROVE  QueueOK' /\ Len(storeQueue') = Len(storeQueue) - 1
<1> DEFINE n == Len(storeQueue)
           old(i) == IF i < c THEN i ELSE i + 1
<1>1. storeQueue \in Seq(QueueItem) /\ n \in Nat /\ DOMAIN storeQueue = 1..n
  BY LenProperties DEF QueueOK
<1>2. /\ storeQueue' \in Seq(QueueItem) /\ Len(storeQueue') = n - 1
      /\ \A i \in 1..(n - 1) : storeQueue'[i] = storeQueue[old(i)]
  BY <1>1, RemoveAtFact
<1>3. DOMAIN storeQueue' = 1..(n - 1)
  BY <1>2, LenProperties
<1>4. NoTwins'
  <2> SUFFICES ASSUME NEW i \in 1..(n - 1), NEW j \in 1..(n - 1),
                      storeQueue'[i].operation \in KeyOps,
                      storeQueue'[j].operation \in KeyOps,
                      storeQueue'[i].key = storeQueue'[j].key
               PROVE  i = j
    BY <1>3 DEF NoTwins
  <2>1. old(i) \in 1..n /\ old(j) \in 1..n
    BY <1>1
  <2>2. old(i) = old(j)
    <3> HIDE DEF old, n
    <3> QED BY <1>1, <1>2, <2>1 DEF QueueOK, NoTwins
  <2> QED BY <1>1, <2>2
<1> QED BY <1>2, <1>4 DEF QueueOK

LEMMA ItemType ==
  ASSUME NEW operation, NEW k, NEW ticks \in Nat, NEW execute \in BOOLEAN,
         \/ operation \in KeyOps /\ k \in Keys
         \/ operation \in {"factoryReset", "gc"} /\ k = Absent
  PROVE  Item(operation, k, ticks, execute) \in QueueItem
BY DEF Item, QueueItem, KeyOps

\* The item that is found for a key.
LEMMA ItemOfKey ==
  ASSUME QueueOK, NEW k, ItemsOf(k) # {}
  PROVE  (CHOOSE i \in ItemsOf(k) : TRUE) \in DOMAIN storeQueue
BY DEF ItemsOf

LEMMA DelayItemOK ==
  ASSUME QueueOK, NEW i \in DOMAIN storeQueue, NEW ticks \in Nat,
         storeQueue' = DelayItem(i, ticks)
  PROVE  QueueOK' /\ Len(storeQueue') = Len(storeQueue)
<1> DEFINE e == [storeQueue[i] EXCEPT !.counter = ticks, !.execute = TRUE]
<1>1. storeQueue[i] \in QueueItem
  BY LenProperties, ElementOfSeq DEF QueueOK
<1>2. e \in QueueItem /\ e.key = storeQueue[i].key
                      /\ e.operation = storeQueue[i].operation
  BY <1>1 DEF QueueItem
<1>3. storeQueue' = [storeQueue EXCEPT ![i] = e]
  BY DEF DelayItem
<1> HIDE DEF e
<1> QED BY <1>2, <1>3, QueueUpdate

LEMMA ThrottleItemOK ==
  ASSUME QueueOK, NEW i \in DOMAIN storeQueue, NEW ticks \in Nat,
         storeQueue' = ThrottleItem(i, ticks)
  PROVE  QueueOK' /\ Len(storeQueue') = Len(storeQueue)
<1> DEFINE e == [storeQueue[i] EXCEPT !.initCounter = ticks, !.execute = TRUE]
<1>1. storeQueue[i] \in QueueItem
  BY LenProperties, ElementOfSeq DEF QueueOK
<1>2. e \in QueueItem /\ e.key = storeQueue[i].key
                      /\ e.operation = storeQueue[i].operation
  BY <1>1 DEF QueueItem
<1>3. storeQueue' = [storeQueue EXCEPT ![i] = e]
  BY DEF ThrottleItem
<1> HIDE DEF e
<1> QED BY <1>2, <1>3, QueueUpdate

LEMMA AddToQueueOK ==
  ASSUME QueueOK, NEW operation, NEW k, NEW ticks \in Nat,
         \/ operation \in KeyOps /\ k \in Keys
         \/ operation \in {"factoryReset", "gc"} /\ k = Absent,
         AddToQueue(operation, k, ticks)
  PROVE  QueueOK'
<1> DEFINE found == operation \in {"write", "remove"} /\ ItemsOf(k) # {}
<1>1. CASE found
  <2>1. storeQueue' = DelayItem(CHOOSE i \in ItemsOf(k) : TRUE, ticks)
    BY <1>1 DEF AddToQueue
  <2> QED BY <1>1, <2>1, ItemOfKey, DelayItemOK
<1>2. CASE ~ found
  <2> DEFINE e == Item(operation, k, ticks, TRUE)
  <2>1. storeQueue' = Append(storeQueue, e)
    BY <1>2 DEF AddToQueue
  <2>2. e \in QueueItem
    BY ItemType
  <2>3. e.operation \in KeyOps => ItemsOf(e.key) = {}
    BY <1>2 DEF Item, KeyOps
  <2> HIDE DEF e
  <2> QED BY <2>1, <2>2, <2>3, QueueAppend
<1> QED BY <1>1, <1>2

LEMMA RetryWhenBusyOK ==
  ASSUME QueueOK, NEW operation \in KeyOps, NEW k \in Keys, NEW ret,
         RetryWhenBusy(operation, k, ret)
  PROVE  QueueOK'
BY AddToQueueOK, QueueUnchanged, StateAssumption DEF RetryWhenBusy

-----------------------------------------------------------------------------
(* The inductive invariant.                                                *)

Inv == TypeOK /\ NoTwins

\* Everything a step of the main loop has to show.
LEMMA InvParts ==
  /\ Inv <=> /\ ram \in [Keys -> Value \cup {Absent}]
             /\ crashes \in 0..MaxCrashes
             /\ FlashTypeOK /\ BusyTypeOK /\ QueueOK
             /\ startedWritingToFlash \in BOOLEAN /\ stateResetting \in BOOLEAN
             /\ cursor \in 0..Len(storeQueue) /\ removed \subseteq Keys
  /\ Inv' <=> /\ ram' \in [Keys -> Value \cup {Absent}]
              /\ crashes' \in 0..MaxCrashes
              /\ FlashTypeOK' /\ BusyTypeOK' /\ QueueOK'
              /\ startedWritingToFlash' \in BOOLEAN /\ stateResetting' \in BOOLEAN
              /\ cursor' \in 0..Len(storeQueue') /\ removed' \subseteq Keys
BY StorageTypeParts DEF Inv, TypeOK, QueueOK

\* A handler that runs to its end leaves no tick in progress.
LEMMA IdleCursor ==
  ASSUME MainLoopIdle, UNCHANGED cursor, QueueOK'
  PROVE  cursor' \in 0..Len(storeQueue')
<1>1. Len(storeQueue') \in Nat
  BY LenProperties DEF QueueOK
<1> QED BY <1>1 DEF MainLoopIdle

LEMMA StoreInFlashType ==
  ASSUME FlashTypeOK, BusyTypeOK, NEW k \in Keys, ram'[k] \in Value,
         NEW ret, StoreInFlash(k, ret)
  PROVE  FlashTypeOK' /\ BusyTypeOK'
BY StorageUnchangedType, StorageWriteType DEF StoreInFlash

LEMMA RemoveFromFlashType ==
  ASSUME FlashTypeOK, BusyTypeOK, NEW k \in Keys, NEW ret, RemoveFromFlash(k, ret)
  PROVE  FlashTypeOK' /\ BusyTypeOK'
BY StorageUnchangedType, StorageRemoveType DEF RemoveFromFlash

LEMMA StoreInRamType ==
  ASSUME Inv, NEW k \in Keys, NEW v \in Value, StoreInRam(k, v)
  PROVE  /\ ram' \in [Keys -> Value \cup {Absent}] /\ ram'[k] \in Value
         /\ removed' \subseteq Keys
BY InvParts DEF StoreInRam

LEMMA SetInv ==
  ASSUME Inv, NEW k \in Keys, NEW v \in Value, Set(k, v)
  PROVE  Inv'
<1>1. PICK ret \in Ret : StoreInFlash(k, ret) /\ RetryWhenBusy("write", k, ret)
  BY DEF Set
<1>2. StoreInRam(k, v) /\ MainLoopIdle /\ UNCHANGED cursor
  BY DEF Set, MaySet
<1>3. FlashTypeOK' /\ BusyTypeOK'
  BY <1>1, <1>2, InvParts, StoreInRamType, StoreInFlashType
<1>4. QueueOK'
  BY <1>1, InvParts, RetryWhenBusyOK DEF KeyOps
<1>5. cursor' \in 0..Len(storeQueue')
  BY <1>2, <1>4, IdleCursor
<1> QED BY <1>2, <1>3, <1>4, <1>5, InvParts, StoreInRamType DEF Set

LEMMA SetDelayedInv ==
  ASSUME Inv, NEW k \in Keys, NEW v \in Value, SetDelayed(k, v)
  PROVE  Inv'
<1>1. StoreInRam(k, v) /\ MainLoopIdle /\ UNCHANGED <<cursor, storageVars>>
  BY DEF SetDelayed, MaySet
<1>2. FlashTypeOK' /\ BusyTypeOK'
  BY <1>1, InvParts, StorageUnchangedType
<1>3. QueueOK'
  BY InvParts, AddToQueueOK, StateAssumption DEF SetDelayed, KeyOps
<1>4. cursor' \in 0..Len(storeQueue')
  BY <1>1, <1>3, IdleCursor
<1> QED BY <1>1, <1>2, <1>3, <1>4, InvParts, StoreInRamType DEF SetDelayed

LEMMA SetThrottledInv ==
  ASSUME Inv, NEW k \in Keys, NEW v \in Value, SetThrottled(k, v)
  PROVE  Inv'
<1>1. StoreInRam(k, v) /\ MainLoopIdle /\ UNCHANGED cursor /\ QueueOK
  BY InvParts DEF SetThrottled, MaySet
<1>2. CASE ItemsOf(k) # {}
  <2>1. /\ storeQueue' = ThrottleItem(CHOOSE i \in ItemsOf(k) : TRUE, ThrottleTicks)
        /\ UNCHANGED storageVars
    BY <1>2 DEF SetThrottled
  <2>2. QueueOK'
    BY <1>1, <1>2, <2>1, ItemOfKey, ThrottleItemOK, StateAssumption
  <2>3. cursor' \in 0..Len(storeQueue')
    BY <1>1, <2>2, IdleCursor
  <2>4. FlashTypeOK' /\ BusyTypeOK'
    BY <2>1, InvParts, StorageUnchangedType
  <2> QED BY <1>1, <2>2, <2>3, <2>4, InvParts, StoreInRamType DEF SetThrottled
<1>3. CASE ItemsOf(k) = {}
  <2> DEFINE e == Item("write", k, ThrottleTicks, FALSE)
  <2>1. PICK ret \in Ret :
           /\ StoreInFlash(k, ret)
           /\ storeQueue' = IF ret = "SUCCESS" THEN Append(storeQueue, e) ELSE storeQueue
    BY <1>3 DEF SetThrottled
  <2>2. FlashTypeOK' /\ BusyTypeOK'
    BY <1>1, <2>1, InvParts, StoreInRamType, StoreInFlashType
  <2>3. QueueOK'
    <3>1. e \in QueueItem
      BY ItemType, StateAssumption DEF KeyOps
    <3>2. ItemsOf(e.key) = {}
      BY <1>3 DEF Item
    <3> HIDE DEF e
    <3> QED BY <1>1, <2>1, <3>1, <3>2, QueueAppend, QueueUnchanged
  <2>4. cursor' \in 0..Len(storeQueue')
    BY <1>1, <2>3, IdleCursor
  <2> QED BY <1>1, <2>2, <2>3, <2>4, InvParts, StoreInRamType DEF SetThrottled
<1> QED BY <1>2, <1>3

\* Marking the buffer of a write as freed changes nothing else.
LEMMA FreeBufferType ==
  ASSUME FlashTypeOK, NEW k \in Keys
  PROVE  FreeBuffer(k) \in Seq(FdsOp) /\ Len(FreeBuffer(k)) = Len(fdsQueue)
<1> DEFINE n == Len(fdsQueue)
<1>1. n \in Nat /\ DOMAIN fdsQueue = 1..n /\ \A i \in 1..n : fdsQueue[i] \in FdsOp
  BY LenProperties, ElementOfSeq DEF FlashTypeOK
<1>2. \A op \in FdsOp : op.op = "write" => [op EXCEPT !.freed = TRUE] \in FdsOp
  <2>1. SUFFICES ASSUME NEW op \in FdsWrite
                 PROVE  [op EXCEPT !.freed = TRUE] \in FdsWrite
    BY OpKinds DEF FdsOp
  <2> QED BY DEF FdsWrite
<1> HIDE DEF n
<1>3. FreeBuffer(k) \in [1..n -> FdsOp]
  BY <1>1, <1>2 DEF FreeBuffer
<1>4. FreeBuffer(k) \in Seq(FdsOp)
  BY <1>1, <1>3, SeqDef
<1> QED BY <1>1, <1>3, <1>4, LenProperties DEF n

LEMMA RemoveValueInv ==
  ASSUME Inv, NEW k \in Keys, RemoveValue(k)
  PROVE  Inv'
<1>1. PICK ret \in Ret :
         /\ IF BeingWritten(k)
              THEN /\ fdsQueue' = FreeBuffer(k)
                   /\ UNCHANGED <<flash, flashFull, fdsEvents, failures, busyVars>>
              ELSE RemoveFromFlash(k, ret)
         /\ RetryWhenBusy("remove", k, ret)
  BY DEF RemoveValue
<1>2. /\ MainLoopIdle /\ UNCHANGED <<crashes, startedWritingToFlash, stateResetting, cursor>>
      /\ ram' = [ram EXCEPT ![k] = Absent] /\ removed' = removed \cup {k}
  BY DEF RemoveValue
<1>3. FlashTypeOK' /\ BusyTypeOK'
  <2>1. CASE BeingWritten(k)
    <3>1. FlashTypeOK'
      BY <1>1, <2>1, InvParts, FreeBufferType DEF FlashTypeOK
    <3> QED BY <1>1, <2>1, <3>1, InvParts DEF BusyTypeOK, busyVars
  <2>2. CASE ~ BeingWritten(k)
    BY <1>1, <2>2, InvParts, RemoveFromFlashType
  <2> QED BY <2>1, <2>2
<1>4. QueueOK'
  BY <1>1, InvParts, RetryWhenBusyOK DEF KeyOps
<1>5. cursor' \in 0..Len(storeQueue')
  BY <1>2, <1>4, IdleCursor
<1>6. ram' \in [Keys -> Value \cup {Absent}] /\ removed' \subseteq Keys
  BY <1>2, InvParts
<1> QED BY <1>2, <1>3, <1>4, <1>5, <1>6, InvParts

\* What is read from flash is a value, never a corrupted record.
LEMMA ReadValueType ==
  ASSUME FlashTypeOK, NEW k \in Keys, HasValue(k)
  PROVE  ReadValue(k) \in Value
<1> DEFINE s == flash[k]
<1>1. s \in Seq(Record) /\ Len(s) \in Nat /\ \A i \in 1..Len(s) : s[i] \in Record
  BY LengthOfFlash, ElementOfSeq
<1>2. Readable(s) \subseteq 1..Len(s) /\ Readable(s) # {}
  BY DEF Readable, HasValue
<1> DEFINE last == CHOOSE i \in Readable(s) : \A j \in Readable(s) : j <= i
<1>3. last \in Readable(s)
  <2> HIDE DEF s
  <2>1. \E i \in Readable(s) : \A j \in Readable(s) : j <= i
    BY <1>1, <1>2, Greatest
  <2> QED BY <2>1
<1>4. s[last] \in Value
  BY <1>1, <1>3 DEF Readable, Record
<1> QED BY <1>4 DEF ReadValue, LastReadable

LEMMA GetInv ==
  ASSUME Inv, NEW k \in Keys, Get(k)
  PROVE  Inv'
<1>1. ram' \in [Keys -> Value \cup {Absent}]
  <2>1. (IF ReadSucceeds(k) THEN ReadValue(k) ELSE Default) \in Value
    BY InvParts, ReadValueType, StateAssumption DEF ReadSucceeds
  <2> QED BY <2>1, InvParts DEF Get
<1>2. FlashTypeOK' /\ BusyTypeOK' /\ QueueOK'
  BY InvParts, StorageUnchangedType, QueueUnchanged DEF Get
<1> QED BY <1>1, <1>2, InvParts DEF Get

LEMMA StartWritesToFlashInv ==
  ASSUME Inv, StartWritesToFlash
  PROVE  Inv'
<1>1. FlashTypeOK' /\ BusyTypeOK' /\ QueueOK'
  BY InvParts, StorageUnchangedType, QueueUnchanged DEF StartWritesToFlash
<1> QED BY <1>1, InvParts DEF StartWritesToFlash

LEMMA CleanUpInv ==
  ASSUME Inv, CleanUp
  PROVE  Inv'
<1>1. PICK ret \in Ret :
         /\ GarbageCollect(ret)
         /\ IF ret = "BUSY" THEN AddToQueue("gc", Absent, RetryTicks)
                            ELSE UNCHANGED storeQueue
  BY DEF CleanUp
<1>2. FlashTypeOK' /\ BusyTypeOK'
  BY <1>1, InvParts, GarbageCollectType
<1>3. QueueOK'
  BY <1>1, InvParts, AddToQueueOK, QueueUnchanged, StateAssumption
<1>4. cursor' \in 0..Len(storeQueue')
  BY <1>3, IdleCursor DEF CleanUp
<1> QED BY <1>2, <1>3, <1>4, InvParts DEF CleanUp

LEMMA FactoryResetInv ==
  ASSUME Inv, FactoryReset
  PROVE  Inv'
<1> DEFINE e == Item("factoryReset", Absent, RetryTicks, TRUE)
<1>1. PICK ret \in Ret :
         /\ IF startedWritingToFlash THEN StorageFactoryReset(ret)
            ELSE ret = "BUSY" /\ UNCHANGED storageVars
         /\ storeQueue' = IF ret = "SUCCESS" THEN << >> ELSE <<e>>
  BY DEF FactoryReset
<1>2. FlashTypeOK' /\ BusyTypeOK'
  BY <1>1, InvParts, StorageFactoryResetType, StorageUnchangedType
<1>3. e \in QueueItem
  BY ItemType, StateAssumption
<1>4. QueueOK'
  <2> HIDE DEF e
  <2> QED BY <1>1, <1>3, QueueEmpty, QueueSingle
<1>5. cursor' \in 0..Len(storeQueue')
  BY <1>4, IdleCursor DEF FactoryReset
<1> QED BY <1>2, <1>4, <1>5, InvParts DEF FactoryReset

LEMMA TickBeginInv ==
  ASSUME Inv, TickBegin
  PROVE  Inv'
<1>1. FlashTypeOK' /\ BusyTypeOK' /\ QueueOK'
  BY InvParts, StorageUnchangedType, QueueUnchanged DEF TickBegin
<1>2. 1 \in 0..Len(storeQueue)
  BY InvParts, EmptySeq DEF TickBegin, QueueOK
<1> QED BY <1>1, <1>2, InvParts DEF TickBegin

LEMMA AdvanceToType ==
  ASSUME QueueOK', NEW i \in Nat, AdvanceTo(i)
  PROVE  cursor' \in 0..Len(storeQueue')
<1>1. Len(storeQueue') \in Nat
  BY LenProperties DEF QueueOK
<1> QED BY <1>1 DEF AdvanceTo

LEMMA RescheduleOK ==
  ASSUME QueueOK, cursor \in 1..Len(storeQueue), NEW keep \in BOOLEAN,
         Reschedule(storeQueue[cursor], keep)
  PROVE  QueueOK' /\ cursor' \in 0..Len(storeQueue')
<1> DEFINE item == storeQueue[cursor]
<1>1. /\ item \in QueueItem /\ cursor \in DOMAIN storeQueue
      /\ cursor \in Nat /\ cursor + 1 \in Nat
  BY LenProperties, ElementOfSeq DEF QueueOK
<1>2. CASE /\ storeQueue' = [storeQueue EXCEPT ![cursor].execute = FALSE,
                                               ![cursor].counter = item.initCounter]
           /\ AdvanceTo(cursor + 1)
  <2> DEFINE e == [item EXCEPT !.execute = FALSE, !.counter = item.initCounter]
  <2>1. e \in QueueItem /\ e.key = item.key /\ e.operation = item.operation
    BY <1>1 DEF QueueItem
  <2>2. storeQueue' = [storeQueue EXCEPT ![cursor] = e]
    BY <1>2
  <2>3. QueueOK'
    <3> HIDE DEF e
    <3> QED BY <1>1, <2>1, <2>2, QueueUpdate
  <2> QED BY <1>1, <1>2, <2>3, AdvanceToType
<1>3. CASE /\ storeQueue' = [storeQueue EXCEPT ![cursor].counter = RetryTicks]
           /\ AdvanceTo(cursor + 1)
  <2> DEFINE e == [item EXCEPT !.counter = RetryTicks]
  <2>1. e \in QueueItem /\ e.key = item.key /\ e.operation = item.operation
    BY <1>1, StateAssumption DEF QueueItem
  <2>2. storeQueue' = [storeQueue EXCEPT ![cursor] = e]
    BY <1>3
  <2>3. QueueOK'
    <3> HIDE DEF e
    <3> QED BY <1>1, <2>1, <2>2, QueueUpdate
  <2> QED BY <1>1, <1>3, <2>3, AdvanceToType
<1>4. CASE storeQueue' = RemoveAt(storeQueue, cursor) /\ AdvanceTo(cursor)
  <2>1. QueueOK'
    BY <1>4, QueueRemove
  <2> QED BY <1>1, <1>4, <2>1, AdvanceToType
<1> QED BY <1>2, <1>3, <1>4 DEF Reschedule

LEMMA ExecuteType ==
  ASSUME Inv, NEW item \in QueueItem, NEW keep, UNCHANGED ram, Execute(item, keep)
  PROVE  FlashTypeOK' /\ BusyTypeOK'
<1>1. PICK ret : \/ UNCHANGED storageVars
                 \/ /\ item.operation = "write" /\ ram[item.key] # Absent
                    /\ StoreInFlash(item.key, ret)
                 \/ item.operation = "remove" /\ RemoveFromFlash(item.key, ret)
                 \/ StorageFactoryReset(ret)
                 \/ GarbageCollect(ret)
  BY DEF Execute
<1>2. item.operation \in KeyOps => item.key \in Keys
  BY DEF QueueItem, KeyOps
<1>3. CASE item.operation = "write" /\ ram[item.key] # Absent /\ StoreInFlash(item.key, ret)
  <2>1. item.key \in Keys
    BY <1>2, <1>3 DEF KeyOps
  <2>2. ram'[item.key] \in Value
    BY <1>3, <2>1, InvParts
  <2> QED BY <1>3, <2>1, <2>2, InvParts, StoreInFlashType
<1>4. CASE item.operation = "remove" /\ RemoveFromFlash(item.key, ret)
  BY <1>2, <1>4, InvParts, RemoveFromFlashType DEF KeyOps
<1> QED BY <1>1, <1>3, <1>4, InvParts, StorageUnchangedType, StorageFactoryResetType,
           GarbageCollectType

LEMMA TickItemInv ==
  ASSUME Inv, TickItem
  PROVE  Inv'
<1> DEFINE item == storeQueue[cursor]
<1>1. cursor \in 1..Len(storeQueue) /\ QueueOK /\ FlashTypeOK /\ BusyTypeOK
  BY InvParts, LenProperties DEF TickItem, MainLoopIdle, QueueOK
<1>2. item \in QueueItem /\ cursor \in DOMAIN storeQueue /\ cursor + 1 \in Nat
  BY <1>1, LenProperties, ElementOfSeq DEF QueueOK
<1>3. /\ FlashTypeOK' /\ BusyTypeOK' /\ QueueOK'
      /\ cursor' \in 0..Len(storeQueue')
  <2>1. CASE /\ item.counter # 0
             /\ storeQueue' = [storeQueue EXCEPT ![cursor].counter = @ - 1]
             /\ AdvanceTo(cursor + 1)
             /\ UNCHANGED storageVars
    <3> DEFINE e == [item EXCEPT !.counter = @ - 1]
    <3>1. e \in QueueItem /\ e.key = item.key /\ e.operation = item.operation
      BY <1>2, <2>1 DEF QueueItem
    <3>2. storeQueue' = [storeQueue EXCEPT ![cursor] = e]
      BY <2>1
    <3>3. QueueOK'
      <4> HIDE DEF e
      <4> QED BY <1>1, <1>2, <3>1, <3>2, QueueUpdate
    <3> QED BY <1>1, <1>2, <2>1, <3>3, AdvanceToType, StorageUnchangedType
  <2>2. CASE UNCHANGED storageVars /\ Reschedule(item, FALSE)
    BY <1>1, <2>2, RescheduleOK, StorageUnchangedType
  <2>3. CASE /\ UNCHANGED ram
             /\ \E keep \in BOOLEAN : Execute(item, keep) /\ Reschedule(item, keep)
    BY <1>1, <1>2, <2>3, RescheduleOK, ExecuteType
  <2> QED BY <2>1, <2>2, <2>3 DEF TickItem
<1> QED BY <1>3, InvParts DEF TickItem

LEMMA ClearBusyType ==
  ASSUME BusyTypeOK, NEW t \in Types, ClearBusy(t)
  PROVE  busyRecordKeys' \in [Types -> Nat]
BY DEF BusyTypeOK, ClearBusy

\* The event at the head, and the variables every handler treats alike.
LEMMA TakeEventType ==
  ASSUME Inv, fdsEvents # << >>, TakeEvent
  PROVE  /\ Head(fdsEvents) \in FdsEvent
         /\ fdsEvents' \in Seq(FdsEvent)
         /\ ram' \in [Keys -> Value \cup {Absent}] /\ crashes' \in 0..MaxCrashes
         /\ flash' \in [Keys -> Seq(Record)] /\ flashFull' \in BOOLEAN
         /\ failures' \in 0..MaxFailures
         /\ startedWritingToFlash' \in BOOLEAN /\ removed' \subseteq Keys
         /\ MainLoopIdle /\ UNCHANGED cursor
<1>1. fdsEvents \in Seq(FdsEvent)
  BY InvParts DEF FlashTypeOK
<1> QED BY <1>1, InvParts, HeadTailProperties DEF TakeEvent, FlashTypeOK

LEMMA EventKey ==
  ASSUME NEW ev \in FdsEvent
  PROVE  /\ ev.op \in {"write", "delete", "gc"}
         /\ ev.op \in {"write", "delete"} => ev.key \in Keys /\ TypeOf[ev.key] \in Types
BY StorageAssumption DEF FdsEvent

LEMMA HandleStorageErrorOK ==
  ASSUME QueueOK, NEW ev \in FdsEvent, HandleStorageError(ev)
  PROVE  QueueOK'
<1>1. RetryTicks \in Nat
  BY StateAssumption
<1>2. CASE stateResetting
  BY <1>1, <1>2, AddToQueueOK DEF HandleStorageError
<1>3. CASE ~ stateResetting /\ ev.op = "write"
  <2>1. AddToQueue("write", ev.key, RetryTicks)
    BY <1>3 DEF HandleStorageError
  <2> QED BY <1>1, <1>3, <2>1, EventKey, AddToQueueOK DEF KeyOps
<1>4. CASE ~ stateResetting /\ ev.op = "delete"
  <2>1. AddToQueue("remove", ev.key, RetryTicks)
    BY <1>4 DEF HandleStorageError
  <2> QED BY <1>1, <1>4, <2>1, EventKey, AddToQueueOK DEF KeyOps
<1>5. CASE ~ stateResetting /\ ev.op = "gc"
  BY <1>5, QueueUnchanged DEF HandleStorageError
<1> QED BY <1>2, <1>3, <1>4, <1>5, EventKey

LEMMA EventFailedType ==
  ASSUME Inv, NEW ev \in FdsEvent, EventFailed(ev)
  PROVE  /\ storageResetting' \in BOOLEAN /\ stateResetting' \in BOOLEAN
         /\ QueueOK' /\ UNCHANGED fdsQueue
BY InvParts, HandleStorageErrorOK DEF EventFailed

\* What is left to show of a handler once its event is taken.
LEMMA HandlerInv ==
  ASSUME Inv, fdsEvents # << >>, TakeEvent,
         fdsQueue' \in Seq(FdsOp), Len(fdsQueue') <= FdsQueueSize,
         busyRecordKeys' \in [Types -> Nat], collectingGarbage' \in BOOLEAN,
         storageResetting' \in BOOLEAN, stateResetting' \in BOOLEAN, QueueOK'
  PROVE  Inv'
<1>1. FlashTypeOK' /\ BusyTypeOK'
  BY TakeEventType DEF FlashTypeOK, BusyTypeOK
<1>2. cursor' \in 0..Len(storeQueue')
  BY TakeEventType, IdleCursor
<1> QED BY <1>1, <1>2, InvParts, TakeEventType

LEMMA HandleWriteEventInv ==
  ASSUME Inv, HandleWriteEvent
  PROVE  Inv'
<1> DEFINE ev == Head(fdsEvents)
<1>1. /\ fdsEvents # << >> /\ TakeEvent /\ ev.op = "write"
      /\ ClearBusy(TypeOf[ev.key]) /\ UNCHANGED collectingGarbage
      /\ \/ EventFailed(ev)
         \/ UNCHANGED <<fdsQueue, storageResetting, storeQueue, stateResetting>>
  BY DEF HandleWriteEvent
<1>2. ev \in FdsEvent /\ TypeOf[ev.key] \in Types
  BY <1>1, TakeEventType, EventKey
<1>3. busyRecordKeys' \in [Types -> Nat] /\ collectingGarbage' \in BOOLEAN
  BY <1>1, <1>2, InvParts, ClearBusyType DEF BusyTypeOK
<1>4. /\ fdsQueue' \in Seq(FdsOp) /\ Len(fdsQueue') <= FdsQueueSize
      /\ storageResetting' \in BOOLEAN /\ stateResetting' \in BOOLEAN /\ QueueOK'
  <2> HIDE DEF ev
  <2> QED BY <1>1, <1>2, InvParts, EventFailedType, QueueUnchanged
             DEF FlashTypeOK, BusyTypeOK
<1> QED BY <1>1, <1>3, <1>4, HandlerInv

LEMMA HandleRemoveRecordEventInv ==
  ASSUME Inv, HandleRemoveRecordEvent
  PROVE  Inv'
<1> DEFINE ev == Head(fdsEvents)
<1>1. /\ fdsEvents # << >> /\ TakeEvent /\ ev.op = "delete"
      /\ ClearBusy(TypeOf[ev.key])
      /\ \/ EventFailed(ev) /\ UNCHANGED collectingGarbage
         \/ /\ \E ret \in Ret : ContinueFactoryReset(ret)
            /\ UNCHANGED <<storageResetting, storeQueue, stateResetting>>
         \/ UNCHANGED <<fdsQueue, collectingGarbage, storageResetting, storeQueue,
                        stateResetting>>
  BY DEF HandleRemoveRecordEvent
<1>2. ev \in FdsEvent /\ TypeOf[ev.key] \in Types
  BY <1>1, TakeEventType, EventKey
<1>3. busyRecordKeys' \in [Types -> Nat]
  BY <1>1, <1>2, InvParts, ClearBusyType
<1>4. /\ fdsQueue' \in Seq(FdsOp) /\ Len(fdsQueue') <= FdsQueueSize
      /\ collectingGarbage' \in BOOLEAN
      /\ storageResetting' \in BOOLEAN /\ stateResetting' \in BOOLEAN /\ QueueOK'
  <2> HIDE DEF ev
  <2>1. FlashTypeOK /\ BusyTypeOK /\ QueueOK /\ stateResetting \in BOOLEAN
    BY InvParts
  <2>2. CASE EventFailed(ev) /\ UNCHANGED collectingGarbage
    BY <1>2, <2>1, <2>2, EventFailedType DEF FlashTypeOK, BusyTypeOK
  <2>3. CASE /\ \E ret \in Ret : ContinueFactoryReset(ret)
             /\ UNCHANGED <<storageResetting, storeQueue, stateResetting>>
    BY <2>1, <2>3, ContinueFactoryResetType, QueueUnchanged DEF BusyTypeOK
  <2>4. CASE UNCHANGED <<fdsQueue, collectingGarbage, storageResetting, storeQueue,
                         stateResetting>>
    BY <2>1, <2>4, QueueUnchanged DEF FlashTypeOK, BusyTypeOK
  <2> QED BY <1>1, <2>2, <2>3, <2>4
<1> QED BY <1>1, <1>3, <1>4, HandlerInv

LEMMA HandleGarbageCollectionEventInv ==
  ASSUME Inv, HandleGarbageCollectionEvent
  PROVE  Inv'
<1> DEFINE ev == Head(fdsEvents)
<1>1. /\ fdsEvents # << >> /\ TakeEvent /\ ev.op = "gc"
      /\ collectingGarbage' = FALSE /\ UNCHANGED busyRecordKeys
      /\ \/ EventFailed(ev)
         \/ /\ storageResetting' = FALSE
            /\ stateResetting' = StateResettingAfterGc
            /\ UNCHANGED <<fdsQueue, storeQueue>>
  BY DEF HandleGarbageCollectionEvent
<1>2. ev \in FdsEvent
  BY <1>1, TakeEventType
<1>3. busyRecordKeys' \in [Types -> Nat] /\ collectingGarbage' \in BOOLEAN
  BY <1>1, InvParts DEF BusyTypeOK
<1>4. StateResettingAfterGc \in BOOLEAN
  BY InvParts DEF StateResettingAfterGc
<1>5. /\ fdsQueue' \in Seq(FdsOp) /\ Len(fdsQueue') <= FdsQueueSize
      /\ storageResetting' \in BOOLEAN /\ stateResetting' \in BOOLEAN /\ QueueOK'
  <2> HIDE DEF ev
  <2> QED BY <1>1, <1>2, <1>4, InvParts, EventFailedType, QueueUnchanged
             DEF FlashTypeOK, BusyTypeOK
<1> QED BY <1>1, <1>3, <1>5, HandlerInv

LEMMA RebootInv ==
  ASSUME Inv, Reboot
  PROVE  Inv'
<1>1. FlashTypeOK' /\ BusyTypeOK'
  <2>1. /\ << >> \in Seq(FdsOp) /\ << >> \in Seq(FdsEvent)
        /\ Len(<< >>) <= FdsQueueSize
    BY EmptySeq, StorageAssumption
  <2>2. FlashTypeOK'
    BY <2>1, InvParts DEF Reboot, StorageBoot, FlashTypeOK
  <2>3. BusyTypeOK'
    BY DEF Reboot, StorageBoot, BusyTypeOK
  <2> QED BY <2>2, <2>3
<1>2. QueueOK'
  BY QueueEmpty DEF Reboot
<1>3. cursor' \in 0..Len(storeQueue')
  BY EmptySeq DEF Reboot
<1>4. crashes' \in 0..MaxCrashes
  BY InvParts, StorageAssumption DEF Reboot
<1> QED BY <1>1, <1>2, <1>3, <1>4, InvParts DEF Reboot

LEMMA InvInit ==
  ASSUME Init
  PROVE  Inv
<1>1. FlashTypeOK /\ BusyTypeOK
  <2>1. /\ << >> \in Seq(FdsOp) /\ << >> \in Seq(FdsEvent)
        /\ Len(<< >>) <= FdsQueueSize /\ 0 \in 0..MaxFailures
    BY EmptySeq, StorageAssumption
  <2>2. \A v \in Value : <<v>> \in Seq(Record)
    BY DEF Record
  <2>3. << >> \in Seq(Record)
    BY EmptySeq
  <2>4. {<< >>} \cup {<<v>> : v \in Value} \subseteq Seq(Record)
    BY <2>2, <2>3
  <2>5. flash \in [Keys -> Seq(Record)]
    BY <2>4 DEF Init, StorageInit
  <2>6. FlashTypeOK
    BY <2>1, <2>5 DEF Init, StorageInit, FlashTypeOK
  <2>7. BusyTypeOK
    BY DEF Init, StorageInit, BusyTypeOK
  <2> QED BY <2>6, <2>7
<1>2. QueueOK
  BY EmptySeq DEF Init, QueueOK, NoTwins
<1>3. cursor \in 0..Len(storeQueue) /\ crashes \in 0..MaxCrashes
  BY EmptySeq, StorageAssumption DEF Init, StorageInit
<1> QED BY <1>1, <1>2, <1>3, InvParts DEF Init, StorageInit

LEMMA InvNext ==
  ASSUME Inv, [Next]_vars
  PROVE  Inv'
<1>1. CASE AppSet
  BY <1>1, SetInv, SetDelayedInv, SetThrottledInv, StateAssumption DEF AppSet
<1>2. CASE App /\ ~ AppSet
  BY <1>2, RemoveValueInv, GetInv, CleanUpInv, FactoryResetInv, StateAssumption DEF App
<1>3. CASE StartWritesToFlash
  BY <1>3, StartWritesToFlashInv
<1>4. CASE Tick
  BY <1>4, TickBeginInv, TickItemInv DEF Tick
<1>5. CASE HandleEvent
  BY <1>5, HandleWriteEventInv, HandleRemoveRecordEventInv,
     HandleGarbageCollectionEventInv DEF HandleEvent
<1>6. CASE Fds
  <2>1. FlashTypeOK' /\ BusyTypeOK' /\ QueueOK'
    BY <1>6, InvParts, FdsStepType, QueueUnchanged DEF Fds, stateVars
  <2> QED BY <1>6, <2>1, InvParts DEF Fds, stateVars
<1>7. CASE Reboot
  BY <1>7, RebootInv
<1>8. CASE UNCHANGED vars
  <2>1. FlashTypeOK' /\ BusyTypeOK' /\ QueueOK'
    BY <1>8, InvParts, StorageUnchangedType, QueueUnchanged DEF vars, stateVars
  <2> QED BY <1>8, <2>1, InvParts DEF vars, stateVars
<1> QED BY <1>1, <1>2, <1>3, <1>4, <1>5, <1>6, <1>7, <1>8 DEF Next

\* The variables of State, Storage and FDS keep their types, the queue of FDS
\* stays within its size, and the tick within the queue it walks over.
THEOREM TypeCorrect == Spec => []TypeOK
<1>1. Init => Inv
  BY InvInit
<1>2. Inv /\ [Next]_vars => Inv'
  BY InvNext
<1>3. Inv => TypeOK
  BY DEF Inv
<1> QED BY <1>1, <1>2, <1>3, PTL DEF Spec

\* addToQueue(), and everything else that changes the queue, keep it to one
\* write or remove item for each key.
THEOREM QueueHasOneItemPerKey == Spec => []OneItemPerKey
<1>1. Init => Inv
  BY InvInit
<1>2. Inv /\ [Next]_vars => Inv'
  BY InvNext
<1>3. Inv => OneItemPerKey
  <2> SUFFICES ASSUME Inv, NEW k \in Keys PROVE Cardinality(ItemsOf(k)) <= 1
    BY DEF OneItemPerKey
  <2>1. \A i, j \in ItemsOf(k) : i = j
    BY DEF Inv, NoTwins, ItemsOf, KeyOps
  <2>2. CASE ItemsOf(k) = {}
    BY <2>2, FS_EmptySet
  <2>3. CASE ItemsOf(k) # {}
    <3>1. PICK i : ItemsOf(k) = {i}
      BY <2>1, <2>3
    <3> QED BY <3>1, FS_Singleton
  <2> QED BY <2>2, <2>3
<1> QED BY <1>1, <1>2, <1>3, PTL DEF Spec

-----------------------------------------------------------------------------
(* What Storage takes itself to be busy with, and the factory reset.       *)

Ops == ToSet(fdsQueue)
Evs == ToSet(fdsEvents)

\* What FDS has in hand of a type: accepted, or reported and not yet handled.
OpsOf(t) == {o \in FdsOp : o.op # "gc" /\ TypeOf[o.key] = t}
EvsOf(t) == {e \in FdsEvent : e.op # "gc" /\ TypeOf[e.key] = t}
InHand ==
  [t \in Types |-> Cardinality(Where(fdsQueue, OpsOf(t)))
                     + Cardinality(Where(fdsEvents, EvsOf(t)))]

Kinds == {o.op : o \in Ops \cup Evs}
NumInHand == Len(fdsQueue) + Len(fdsEvents)

-----------------------------------------------------------------------------
(* The inductive invariant.                                                *)

Counted == ~ storageResetting => \A t \in Types : busyRecordKeys[t] = InHand[t]

\* A garbage collection and a factory reset have one operation in hand and no
\* other, and it is of their kind.
Alone ==
  Blocked => /\ NumInHand = 1
             /\ \A t \in Types : busyRecordKeys[t] = 0
             /\ Kinds = IF collectingGarbage THEN {"gc"} ELSE {"delete"}

GcBlocks == "gc" \in Kinds => collectingGarbage

\* The garbage collection that ends a factory reset comes last.
Erased ==
  storageResetting /\ collectingGarbage => \A k \in ResetKeys : flash[k] = << >>

BusyInv == Counted /\ Alone /\ GcBlocks /\ Erased

-----------------------------------------------------------------------------
(* What is in hand.                                                        *)

LEMMA InHandType ==
  ASSUME FlashTypeOK
  PROVE  InHand \in [Types -> Nat] /\ NumInHand \in Nat
<1>1. fdsQueue \in Seq(FdsOp) /\ fdsEvents \in Seq(FdsEvent)
  BY DEF FlashTypeOK
<1>2. ASSUME NEW t \in Types PROVE InHand[t] \in Nat
  <2>1. /\ Cardinality(Where(fdsQueue, OpsOf(t))) \in Nat
        /\ Cardinality(Where(fdsEvents, EvsOf(t))) \in Nat
    BY <1>1, WhereFinite
  <2> QED BY <2>1 DEF InHand
<1>3. Len(fdsQueue) \in Nat /\ Len(fdsEvents) \in Nat
  BY <1>1, LenProperties
<1> QED BY <1>2, <1>3 DEF InHand, NumInHand

\* The operators of the property speak of the same positions.
LEMMA InHandOutstanding ==
  ASSUME FlashTypeOK, NEW t \in Types
  PROVE  InHand[t] = Cardinality(Outstanding(t)) + Cardinality(OutstandingEvents(t))
<1>1. /\ \A i \in DOMAIN fdsQueue : fdsQueue[i] \in FdsOp
      /\ \A i \in DOMAIN fdsEvents : fdsEvents[i] \in FdsEvent
  BY LenProperties, ElementOfSeq DEF FlashTypeOK
<1>2. Outstanding(t) = Where(fdsQueue, OpsOf(t))
  BY <1>1 DEF Outstanding, Where, OpsOf
<1>3. OutstandingEvents(t) = Where(fdsEvents, EvsOf(t))
  BY <1>1 DEF OutstandingEvents, Where, EvsOf
<1> QED BY <1>2, <1>3 DEF InHand

LEMMA NothingOfType ==
  ASSUME FlashTypeOK, NEW t \in Types, InHand[t] = 0
  PROVE  \A o \in Ops \cup Evs : o.op # "gc" => TypeOf[o.key] # t
<1>1. /\ fdsQueue \in Seq(FdsOp) /\ fdsEvents \in Seq(FdsEvent)
      /\ Ops \subseteq FdsOp /\ Evs \subseteq FdsEvent
  BY ElementsType DEF FlashTypeOK, Ops, Evs
<1>2. /\ Cardinality(Where(fdsQueue, OpsOf(t))) \in Nat
      /\ Cardinality(Where(fdsEvents, EvsOf(t))) \in Nat
  BY <1>1, WhereFinite
<1>3. /\ Cardinality(Where(fdsQueue, OpsOf(t))) = 0
      /\ Cardinality(Where(fdsEvents, EvsOf(t))) = 0
  BY <1>2 DEF InHand
<1>4. /\ \A i \in DOMAIN fdsQueue : fdsQueue[i] \notin OpsOf(t)
      /\ \A i \in DOMAIN fdsEvents : fdsEvents[i] \notin EvsOf(t)
  BY <1>1, <1>3, WhereFinite
<1> QED BY <1>1, <1>4 DEF Ops, Evs, ToSet, OpsOf, EvsOf

LEMMA KeyOfOp ==
  ASSUME NEW o \in FdsOp \cup FdsEvent
  PROVE  /\ o.op \in {"write", "delete", "gc"}
         /\ o.op # "gc" => o.key \in Keys /\ TypeOf[o.key] \in Types
BY StorageAssumption DEF FdsOp, FdsWrite, FdsDelete, FdsGc, FdsEvent

\* When nothing is busy, nothing is in hand.
LEMMA NothingInHand ==
  ASSUME FlashTypeOK, BusyInv, ~ IsBusy, BusyTypeOK
  PROVE  fdsQueue = << >> /\ fdsEvents = << >> /\ Kinds = {} /\ NumInHand = 0
<1>1. /\ fdsQueue \in Seq(FdsOp) /\ fdsEvents \in Seq(FdsEvent)
      /\ Ops \subseteq FdsOp /\ Evs \subseteq FdsEvent
      /\ (Ops = {} <=> fdsQueue = << >>) /\ (Evs = {} <=> fdsEvents = << >>)
  BY ElementsType DEF FlashTypeOK, Ops, Evs
<1>2. ~ Blocked /\ \A t \in Types : InHand[t] = 0
  BY DEF IsBusy, BusyInv, Counted, Blocked, BusyTypeOK
<1>3. ASSUME NEW o \in Ops \cup Evs PROVE FALSE
  <2>1. o.op # "gc"
    BY <1>2, <1>3 DEF BusyInv, GcBlocks, Kinds, Blocked
  <2>2. TypeOf[o.key] \in Types
    BY <1>1, <2>1, KeyOfOp
  <2> QED BY <1>2, <2>1, <2>2, NothingOfType
<1> QED BY <1>1, <1>3, EmptySeq DEF Kinds, NumInHand

\* One operation is added.
LEMMA EnqueueHand ==
  ASSUME FlashTypeOK, NEW op \in FdsOp, Enqueue(op), UNCHANGED fdsEvents
  PROVE  /\ InHand' = [t \in Types |-> InHand[t] + IF op \in OpsOf(t) THEN 1 ELSE 0]
         /\ Kinds' = Kinds \cup {op.op}
         /\ NumInHand' = NumInHand + 1
         /\ Ops' = Ops \cup {op} /\ Evs' = Evs
<1>1. fdsQueue \in Seq(FdsOp) /\ fdsQueue' = Append(fdsQueue, op)
  BY DEF FlashTypeOK, Enqueue
<1>2. ASSUME NEW t \in Types
      PROVE  InHand'[t] = InHand[t] + IF op \in OpsOf(t) THEN 1 ELSE 0
  <2>1. Cardinality(Where(fdsQueue', OpsOf(t))) =
          Cardinality(Where(fdsQueue, OpsOf(t))) + IF op \in OpsOf(t) THEN 1 ELSE 0
    BY <1>1, WhereAppend
  <2>2. /\ Cardinality(Where(fdsQueue, OpsOf(t))) \in Nat
        /\ Cardinality(Where(fdsEvents, EvsOf(t))) \in Nat
    BY WhereFinite DEF FlashTypeOK
  <2> QED BY <2>1, <2>2 DEF InHand
<1>3. Ops' = Ops \cup {op} /\ Evs' = Evs
  BY <1>1, ElementsAppend DEF Ops, Evs
<1>4. Len(fdsQueue') = Len(fdsQueue) + 1 /\ Len(fdsQueue) \in Nat /\ Len(fdsEvents) \in Nat
  BY <1>1, AppendProperties, LenProperties DEF FlashTypeOK
<1>5. InHand' = [t \in Types |-> InHand[t] + IF op \in OpsOf(t) THEN 1 ELSE 0]
  BY <1>2 DEF InHand
<1>6. Kinds' = Kinds \cup {op.op}
  BY <1>3 DEF Kinds
<1>7. NumInHand' = NumInHand + 1
  BY <1>4 DEF NumInHand
<1> QED BY <1>3, <1>5, <1>6, <1>7

\* FDS executes the operation at the head, and reports it.
LEMMA ReportHand ==
  ASSUME FlashTypeOK, fdsQueue # << >>, fdsQueue' = Tail(fdsQueue),
         NEW ev \in FdsEvent, Post(ev), ev.op = Head(fdsQueue).op,
         ev.op # "gc" => ev.key = Head(fdsQueue).key
  PROVE  /\ InHand' = InHand /\ Kinds' = Kinds /\ NumInHand' = NumInHand
         /\ Ops = Ops' \cup {Head(fdsQueue)} /\ Evs' = Evs \cup {ev}
<1> DEFINE op == Head(fdsQueue)
<1>1. /\ fdsQueue \in Seq(FdsOp) /\ fdsEvents \in Seq(FdsEvent)
      /\ fdsEvents' = Append(fdsEvents, ev) /\ fdsQueue' \in Seq(FdsOp) /\ op \in FdsOp
  BY HeadTailProperties DEF FlashTypeOK, Post
<1>2. ASSUME NEW t \in Types PROVE InHand'[t] = InHand[t]
  <2>1. Cardinality(Where(fdsQueue, OpsOf(t))) =
          Cardinality(Where(fdsQueue', OpsOf(t))) + IF op \in OpsOf(t) THEN 1 ELSE 0
    BY <1>1, WhereTail
  <2>2. Cardinality(Where(fdsEvents', EvsOf(t))) =
          Cardinality(Where(fdsEvents, EvsOf(t))) + IF ev \in EvsOf(t) THEN 1 ELSE 0
    BY <1>1, WhereAppend
  <2>3. op \in OpsOf(t) <=> ev \in EvsOf(t)
    BY <1>1 DEF OpsOf, EvsOf
  <2>4. /\ Cardinality(Where(fdsQueue', OpsOf(t))) \in Nat
        /\ Cardinality(Where(fdsEvents, EvsOf(t))) \in Nat
    BY <1>1, WhereFinite
  <2>5. /\ InHand[t] = Cardinality(Where(fdsQueue, OpsOf(t)))
                         + Cardinality(Where(fdsEvents, EvsOf(t)))
        /\ InHand'[t] = Cardinality(Where(fdsQueue', OpsOf(t)))
                          + Cardinality(Where(fdsEvents', EvsOf(t)))
    BY DEF InHand
  <2> HIDE DEF op
  <2> QED BY <2>1, <2>2, <2>3, <2>4, <2>5
<1>3. Ops = Ops' \cup {op} /\ Evs' = Evs \cup {ev}
  BY <1>1, ElementsTail, ElementsAppend DEF Ops, Evs
<1>4. InHand' = InHand
  BY <1>2 DEF InHand
<1>5. Kinds' = Kinds
  BY <1>3 DEF Kinds
<1>6. NumInHand' = NumInHand
  <2>1. /\ Len(fdsQueue') = Len(fdsQueue) - 1 /\ Len(fdsEvents') = Len(fdsEvents) + 1
        /\ Len(fdsQueue) \in Nat /\ Len(fdsEvents) \in Nat
    BY <1>1, HeadTailProperties, AppendProperties, LenProperties
  <2> QED BY <2>1 DEF NumInHand
<1> QED BY <1>3, <1>4, <1>5, <1>6

\* An operation that is marked remains of its kind and key.
LEMMA MarkHand ==
  ASSUME FlashTypeOK, UNCHANGED fdsEvents, fdsQueue' \in Seq(FdsOp),
         Len(fdsQueue') = Len(fdsQueue),
         \A i \in 1..Len(fdsQueue) :
           /\ fdsQueue'[i].op = fdsQueue[i].op
           /\ fdsQueue[i].op # "gc" => fdsQueue'[i].key = fdsQueue[i].key
  PROVE  InHand' = InHand /\ Kinds' = Kinds /\ NumInHand' = NumInHand /\ Evs' = Evs
<1>1. /\ fdsQueue \in Seq(FdsOp) /\ Len(fdsQueue) \in Nat
      /\ \A i \in 1..Len(fdsQueue) : fdsQueue[i] \in FdsOp /\ fdsQueue'[i] \in FdsOp
  BY LenProperties, ElementOfSeq DEF FlashTypeOK
<1>2. ASSUME NEW t \in Types
      PROVE  Where(fdsQueue', OpsOf(t)) = Where(fdsQueue, OpsOf(t))
  <2>1. \A i \in 1..Len(fdsQueue) : fdsQueue'[i] \in OpsOf(t) <=> fdsQueue[i] \in OpsOf(t)
    BY <1>1 DEF OpsOf
  <2> QED BY <1>1, <2>1, WhereExcept
<1>3. InHand' = InHand
  BY <1>2 DEF InHand
<1>4. DOMAIN fdsQueue' = 1..Len(fdsQueue) /\ DOMAIN fdsQueue = 1..Len(fdsQueue)
  BY <1>1, LenProperties
<1>5. {o.op : o \in Ops'} = {o.op : o \in Ops}
  BY <1>1, <1>4 DEF Ops, ToSet
<1>6. Evs' = Evs /\ Kinds = {o.op : o \in Ops} \cup {o.op : o \in Evs}
                 /\ Kinds' = {o.op : o \in Ops'} \cup {o.op : o \in Evs'}
  BY DEF Kinds, Evs
<1> QED BY <1>3, <1>5, <1>6 DEF NumInHand

-----------------------------------------------------------------------------
(* The calls.                                                              *)

StorageOK == FlashTypeOK /\ BusyTypeOK /\ BusyInv

LEMMA UnchangedBusy ==
  ASSUME StorageOK, UNCHANGED storageVars
  PROVE  BusyInv'
<1>1. /\ UNCHANGED <<fdsQueue, fdsEvents, flash, busyRecordKeys, collectingGarbage,
                     storageResetting>>
      /\ UNCHANGED <<InHand, Kinds, NumInHand>>
  BY DEF storageVars, busyVars, InHand, Kinds, NumInHand, Ops, Evs
<1> QED BY <1>1 DEF StorageOK, BusyInv, Counted, Alone, GcBlocks, Erased, Blocked

LEMMA GcOp ==
  /\ [op |-> "gc"] \in FdsOp
  /\ \A t : [op |-> "gc"] \notin OpsOf(t)
BY DEF FdsOp, FdsGc, OpsOf

LEMMA GarbageCollectBusy ==
  ASSUME StorageOK, NEW ret, GarbageCollect(ret)
  PROVE  BusyInv'
<1>1. CASE UNCHANGED storageVars
  BY <1>1, UnchangedBusy
<1>2. CASE /\ ~ IsBusy
           /\ Enqueue([op |-> "gc"])
           /\ collectingGarbage' = TRUE
           /\ UNCHANGED <<flash, flashFull, fdsEvents, failures, busyRecordKeys,
                          storageResetting>>
  <2>1. /\ InHand' = [t \in Types |-> InHand[t] + IF [op |-> "gc"] \in OpsOf(t) THEN 1 ELSE 0]
        /\ Kinds' = Kinds \cup {"gc"}
        /\ NumInHand' = NumInHand + 1
    <3> DEFINE op == [op |-> "gc"]
    <3>1. op \in FdsOp /\ op.op = "gc" /\ Enqueue(op)
      BY <1>2, GcOp
    <3> HIDE DEF op
    <3>2. /\ InHand' = [t \in Types |-> InHand[t] + IF op \in OpsOf(t) THEN 1 ELSE 0]
          /\ Kinds' = Kinds \cup {op.op}
          /\ NumInHand' = NumInHand + 1
      BY <1>2, <3>1, EnqueueHand DEF StorageOK
    <3> QED BY <3>1, <3>2 DEF op
  <2>2. InHand \in [Types -> Nat] /\ InHand' = InHand
    BY <2>1, InHandType, GcOp DEF StorageOK
  <2>3. Kinds' = {"gc"} /\ NumInHand' = 1
    BY <1>2, <2>1, NothingInHand DEF StorageOK
  <2>4. ~ Blocked /\ \A t \in Types : busyRecordKeys[t] = 0
    BY <1>2 DEF IsBusy, StorageOK, BusyTypeOK
  <2>5. ~ storageResetting
    BY <2>4 DEF Blocked
  <2> QED BY <1>2, <2>2, <2>3, <2>4, <2>5
          DEF StorageOK, BusyInv, Counted, Alone, GcBlocks, Erased
<1> QED BY <1>1, <1>2 DEF GarbageCollect

LEMMA StorageWriteBusy ==
  ASSUME StorageOK, NEW k \in Keys, ram'[k] \in Value, NEW ret, StorageWrite(k, ret)
  PROVE  BusyInv'
<1>1. CASE UNCHANGED storageVars
  BY <1>1, UnchangedBusy
<1>2. CASE \E gcRet \in {"BUSY", "SUCCESS"} : GarbageCollect(gcRet)
  BY <1>2, GarbageCollectBusy
<1>3. CASE /\ ~ IsBusyType(TypeOf[k])
           /\ Enqueue([op |-> "write", key |-> k, crc |-> ram'[k], freed |-> FALSE,
                       update |-> flash[k] # << >>, written |-> FALSE])
           /\ SetBusy(TypeOf[k])
           /\ UNCHANGED <<flash, fdsEvents, failures, collectingGarbage,
                          storageResetting>>
  <2> DEFINE op == [op |-> "write", key |-> k, crc |-> ram'[k], freed |-> FALSE,
                    update |-> flash[k] # << >>, written |-> FALSE]
  <2>1. op \in FdsOp /\ op.op = "write" /\ op.key = k /\ Enqueue(op)
    <3>1. (flash[k] # << >>) \in BOOLEAN
      OBVIOUS
    <3> QED BY <1>3, <3>1 DEF FdsOp, FdsWrite
  <2> HIDE DEF op
  <2>2. /\ InHand' = [t \in Types |-> InHand[t] + IF op \in OpsOf(t) THEN 1 ELSE 0]
        /\ Kinds' = Kinds \cup {op.op}
    BY <1>3, <2>1, EnqueueHand DEF StorageOK
  <2>3. \A t : op \in OpsOf(t) <=> TypeOf[k] = t
    BY <2>1 DEF OpsOf
  <2>4. ~ Blocked /\ ~ Blocked' /\ "gc" \notin Kinds'
    BY <1>3, <2>1, <2>2 DEF IsBusyType, Blocked, StorageOK, BusyInv, GcBlocks
  <2>5. ASSUME NEW t \in Types PROVE busyRecordKeys'[t] = InHand'[t]
    <3>1. busyRecordKeys[t] = InHand[t] /\ InHand[t] \in Nat
      BY <2>4, InHandType DEF Blocked, StorageOK, BusyInv, Counted
    <3>2. busyRecordKeys'[t] = busyRecordKeys[t] + IF t = TypeOf[k] THEN 1 ELSE 0
      BY <1>3, <3>1 DEF SetBusy, StorageOK, BusyTypeOK
    <3> QED BY <2>2, <2>3, <3>1, <3>2
  <2> QED BY <2>4, <2>5 DEF BusyInv, Counted, Alone, GcBlocks, Erased, Blocked
<1> QED BY <1>1, <1>2, <1>3 DEF StorageWrite

\* The deletes of the records of a key.
LEMMA DeletesFact ==
  ASSUME FlashTypeOK, NEW k \in Keys, NEW n \in Nat, n <= Len(flash[k])
  PROVE  /\ Deletes(k, n) \in Seq(FdsOp) /\ Len(Deletes(k, n)) = n
         /\ \A i \in 1..n : Deletes(k, n)[i] = [op |-> "delete", key |-> k,
                                                pos |-> Len(flash[k]) - i]
<1>1. Len(flash[k]) \in Nat
  BY LengthOfFlash
<1>2. \A i \in 1..n : [op |-> "delete", key |-> k, pos |-> Len(flash[k]) - i] \in FdsOp
  BY <1>1 DEF FdsOp, FdsDelete
<1>3. Deletes(k, n) \in [1..n -> FdsOp]
  BY <1>2 DEF Deletes
<1>4. Deletes(k, n) \in Seq(FdsOp) /\ Len(Deletes(k, n)) = n
  BY <1>3, SeqDef
<1> QED BY <1>4 DEF Deletes

LEMMA StorageRemoveBusy ==
  ASSUME StorageOK, NEW k \in Keys, NEW ret, StorageRemove(k, ret)
  PROVE  BusyInv'
<1> DEFINE records == Len(flash[k])
           room == FdsQueueSize - Len(fdsQueue)
           n == IF records <= room THEN records ELSE room
<1>1. CASE UNCHANGED storageVars
  BY <1>1, UnchangedBusy
<1>2. CASE /\ ~ IsBusyType(TypeOf[k])
           /\ fdsQueue' = fdsQueue \o Deletes(k, n)
           /\ busyRecordKeys' = [busyRecordKeys EXCEPT ![TypeOf[k]] = @ + n]
           /\ UNCHANGED <<flash, flashFull, fdsEvents, failures, collectingGarbage,
                          storageResetting>>
  <2>1. records \in Nat /\ room \in Nat /\ fdsQueue \in Seq(FdsOp)
    <3>1. Len(fdsQueue) \in Nat /\ Len(fdsQueue) <= FdsQueueSize
      BY LenProperties DEF StorageOK, FlashTypeOK
    <3> QED BY <3>1, StorageAssumption, LengthOfFlash DEF StorageOK, FlashTypeOK
  <2>2. n \in Nat /\ n <= records
    BY <2>1
  <2> DEFINE d == Deletes(k, n)
  <2> HIDE DEF n, room, records
  <2>3. /\ d \in Seq(FdsOp) /\ Len(d) = n
        /\ \A i \in 1..n : d[i].op = "delete" /\ d[i].key = k
    <3>1. /\ d \in Seq(FdsOp) /\ Len(d) = n
          /\ \A i \in 1..n : d[i] = [op |-> "delete", key |-> k, pos |-> Len(flash[k]) - i]
      BY <2>2, DeletesFact DEF StorageOK, records
    <3> HIDE DEF d
    <3> QED BY <3>1
  <2>4. \A i \in 1..n : d[i] \in FdsOp
    BY <2>3, ElementOfSeq
  <2> HIDE DEF d
  <2>5. ASSUME NEW t \in Types
        PROVE  InHand'[t] = InHand[t] + IF t = TypeOf[k] THEN n ELSE 0
    <3>1. CASE t = TypeOf[k]
      <4>1. \A i \in 1..Len(d) : d[i] \in OpsOf(t)
        BY <2>3, <2>4, <3>1 DEF OpsOf
      <4>2. Cardinality(Where(fdsQueue \o d, OpsOf(t))) =
              Cardinality(Where(fdsQueue, OpsOf(t))) + Len(d)
        BY <2>1, <2>3, <4>1, WhereConcat
      <4>3. /\ Cardinality(Where(fdsQueue, OpsOf(t))) \in Nat
            /\ Cardinality(Where(fdsEvents, EvsOf(t))) \in Nat
        BY WhereFinite DEF StorageOK, FlashTypeOK
      <4> QED BY <1>2, <2>2, <2>3, <3>1, <4>2, <4>3 DEF InHand, d
    <3>2. CASE t # TypeOf[k]
      <4>1. \A i \in 1..Len(d) : d[i] \notin OpsOf(t)
        BY <2>3, <2>4, <3>2 DEF OpsOf
      <4>2. Cardinality(Where(fdsQueue \o d, OpsOf(t))) = Cardinality(Where(fdsQueue, OpsOf(t)))
        <5>1. Cardinality(Where(fdsQueue \o d, OpsOf(t))) =
                Cardinality(Where(fdsQueue, OpsOf(t)))
                  + IF \A i \in 1..Len(d) : d[i] \in OpsOf(t) THEN Len(d) ELSE 0
          BY <2>1, <2>3, <4>1, WhereConcat
        <5>2. (IF \A i \in 1..Len(d) : d[i] \in OpsOf(t) THEN Len(d) ELSE 0) = 0
          <6>1. CASE n = 0
            BY <2>3, <6>1
          <6>2. CASE n # 0
            <7>1. 1 \in 1..Len(d)
              BY <2>2, <2>3, <6>2
            <7> QED BY <4>1, <7>1
          <6> QED BY <6>1, <6>2
        <5>3. Cardinality(Where(fdsQueue, OpsOf(t))) \in Nat
          BY <2>1, WhereFinite
        <5> QED BY <5>1, <5>2, <5>3
      <4>3. InHand'[t] = InHand[t] /\ InHand[t] \in Nat
        BY <1>2, <4>2, InHandType DEF InHand, d, StorageOK
      <4> QED BY <3>2, <4>3
    <3> QED BY <3>1, <3>2
  <2>6. Kinds' \subseteq Kinds \cup {"delete"}
    <3>1. Ops' = Ops \cup ToSet(d) /\ Evs' = Evs
      BY <1>2, <2>1, <2>3, ElementsConcat DEF Ops, Evs, d
    <3>2. \A o \in ToSet(d) : o.op = "delete"
      BY <2>3, LenProperties DEF ToSet
    <3> QED BY <3>1, <3>2 DEF Kinds
  <2>7. ~ Blocked /\ ~ Blocked' /\ "gc" \notin Kinds'
    BY <1>2, <2>6 DEF IsBusyType, Blocked, StorageOK, BusyInv, GcBlocks
  <2>8. ASSUME NEW t \in Types PROVE busyRecordKeys'[t] = InHand'[t]
    <3>1. busyRecordKeys[t] = InHand[t] /\ InHand[t] \in Nat
      BY <2>7, InHandType DEF Blocked, StorageOK, BusyInv, Counted
    <3>2. busyRecordKeys'[t] = busyRecordKeys[t] + IF t = TypeOf[k] THEN n ELSE 0
      BY <1>2, <2>2, <3>1 DEF StorageOK, BusyTypeOK
    <3> QED BY <2>5, <3>1, <3>2
  <2> QED BY <2>7, <2>8 DEF BusyInv, Counted, Alone, GcBlocks, Erased, Blocked
<1> QED BY <1>1, <1>2 DEF StorageRemove

LEMMA DeleteOpFact ==
  ASSUME FlashTypeOK, NEW k \in Keys, flash[k] # << >>
  PROVE  [op |-> "delete", key |-> k, pos |-> Len(flash[k]) - 1] \in FdsOp
<1>1. flash[k] \in Seq(Record) /\ Len(flash[k]) \in Nat \ {0}
  BY LengthOfFlash, EmptySeq
<1> QED BY <1>1 DEF FdsOp, FdsDelete

LEMMA OnlyHand ==
  ASSUME fdsQueue = << >>, fdsEvents' = << >>, NEW op \in FdsOp, Enqueue(op)
  PROVE  NumInHand' = 1 /\ Kinds' = {op.op}
<1>1. << >> \in Seq(FdsOp) /\ Len(<< >>) = 0 /\ fdsQueue' = Append(<< >>, op)
  BY EmptySeq DEF Enqueue
<1>2. Len(fdsQueue') = 1 /\ ToSet(fdsQueue') = ToSet(<< >>) \cup {op}
  <2> DEFINE s == << >>
  <2>1. s \in Seq(FdsOp)
    BY <1>1
  <2>6. Len(s) = 0 /\ fdsQueue' = Append(s, op)
    BY <1>1
  <2> HIDE DEF s
  <2>2. Len(Append(s, op)) = Len(s) + 1
    BY <2>1, AppendProperties
  <2>3. ToSet(Append(s, op)) = ToSet(s) \cup {op}
    BY <2>1, ElementsAppend
  <2>4. Len(fdsQueue') = 1
    BY <2>6, <2>2
  <2>5. ToSet(fdsQueue') = ToSet(s) \cup {op}
    BY <2>6, <2>3
  <2> QED BY <2>4, <2>5 DEF s
<1>3. ToSet(<< >>) = {}
  BY DEF ToSet
<1>4. Ops' = {op} /\ Evs' = {}
  BY <1>2, <1>3 DEF Ops, Evs
<1> QED BY <1>1, <1>2, <1>4 DEF NumInHand, Kinds

\* The next step of a factory reset, when nothing else is left in hand.
LEMMA ContinueFactoryResetHand ==
  ASSUME FlashTypeOK, fdsQueue = << >>, fdsEvents' = << >>, collectingGarbage = FALSE,
         NEW ret, ContinueFactoryReset(ret)
  PROVE  /\ ret = "SUCCESS" /\ NumInHand' = 1
         /\ Kinds' = IF collectingGarbage' THEN {"gc"} ELSE {"delete"}
         /\ collectingGarbage' => \A k \in ResetKeys : flash[k] = << >>
<1>1. ~ FdsQueueFull
  <2>1. Len(fdsQueue) = 0 /\ FdsQueueSize \in Nat \ {0}
    BY EmptySeq, StorageAssumption
  <2> QED BY <2>1 DEF FdsQueueFull
<1>2. ASSUME NEW k \in ResetKeys, flash[k] # << >>,
             Enqueue([op |-> "delete", key |-> k, pos |-> Len(flash[k]) - 1])
      PROVE  NumInHand' = 1 /\ Kinds' = {"delete"}
  <2> DEFINE op == [op |-> "delete", key |-> k, pos |-> Len(flash[k]) - 1]
  <2>1. op \in FdsOp /\ op.op = "delete" /\ Enqueue(op)
    BY <1>2, DeleteOpFact, StorageAssumption
  <2> HIDE DEF op
  <2> QED BY <2>1, OnlyHand
<1>3. ASSUME Enqueue([op |-> "gc"])
      PROVE  NumInHand' = 1 /\ Kinds' = {"gc"}
  <2> DEFINE op == [op |-> "gc"]
  <2>1. op \in FdsOp /\ op.op = "gc" /\ Enqueue(op)
    BY <1>3, GcOp
  <2> HIDE DEF op
  <2> QED BY <2>1, OnlyHand
<1>4. ret = "SUCCESS"
  BY <1>1 DEF ContinueFactoryReset
<1>5. CASE \E k \in ResetKeys :
             /\ flash[k] # << >>
             /\ Enqueue([op |-> "delete", key |-> k, pos |-> Len(flash[k]) - 1])
             /\ UNCHANGED collectingGarbage
  BY <1>2, <1>4, <1>5
<1>6. CASE /\ \A k \in ResetKeys : flash[k] = << >>
           /\ Enqueue([op |-> "gc"])
           /\ collectingGarbage' = TRUE
  BY <1>3, <1>4, <1>6
<1> QED BY <1>1, <1>5, <1>6 DEF ContinueFactoryReset

LEMMA StorageFactoryResetBusy ==
  ASSUME StorageOK, NEW ret, StorageFactoryReset(ret)
  PROVE  BusyInv'
<1>1. CASE UNCHANGED storageVars
  BY <1>1, UnchangedBusy
<1>2. CASE /\ ~ IsBusy
           /\ ContinueFactoryReset(ret)
           /\ storageResetting' = (ret = "SUCCESS")
           /\ UNCHANGED <<flash, flashFull, fdsEvents, failures, busyRecordKeys>>
  <2>1. fdsQueue = << >> /\ fdsEvents' = << >> /\ collectingGarbage = FALSE
    BY <1>2, NothingInHand DEF StorageOK, IsBusy, Blocked, BusyTypeOK
  <2>2. /\ ret = "SUCCESS" /\ NumInHand' = 1
        /\ Kinds' = IF collectingGarbage' THEN {"gc"} ELSE {"delete"}
        /\ collectingGarbage' => \A k \in ResetKeys : flash[k] = << >>
    BY <1>2, <2>1, ContinueFactoryResetHand DEF StorageOK
  <2>3. \A t \in Types : busyRecordKeys[t] = 0
    BY <1>2 DEF IsBusy, StorageOK, BusyTypeOK
  <2> QED BY <1>2, <2>2, <2>3 DEF BusyInv, Counted, Alone, GcBlocks, Erased, Blocked
<1> QED BY <1>1, <1>2 DEF StorageFactoryReset

-----------------------------------------------------------------------------
(* FDS.                                                                    *)

\* What FDS does to its queue, step by step: it marks the operation at the head as
\* half done, or takes it off and reports it.
MarksHead ==
  /\ UNCHANGED fdsEvents /\ Len(fdsQueue') = Len(fdsQueue)
  /\ \A i \in 1..Len(fdsQueue) :
       /\ fdsQueue'[i].op = fdsQueue[i].op
       /\ fdsQueue[i].op # "gc" => fdsQueue'[i].key = fdsQueue[i].key

ReportsHead(ev) ==
  /\ fdsQueue' = Tail(fdsQueue) /\ Post(ev) /\ ev.op = Head(fdsQueue).op
  /\ ev.op # "gc" => ev.key = Head(fdsQueue).key

LEMMA FdsStepShape ==
  ASSUME FlashTypeOK, BusyTypeOK, FdsStep
  PROVE  /\ fdsQueue # << >> /\ Head(fdsQueue) \in Ops /\ Head(fdsQueue) \in FdsOp
         /\ Head(fdsQueue) = fdsQueue[1] /\ 1 \in 1..Len(fdsQueue)
         /\ fdsQueue' \in Seq(FdsOp)
         /\ MarksHead \/ \E ev \in FdsEvent : ReportsHead(ev)
<1> DEFINE op == Head(fdsQueue)
<1>1. fdsQueue # << >>
  BY DEF FdsStep, FdsStoreRecord, FdsDeleteOld, FdsDeleteRecord, FdsCollect, FdsFail
<1>2. op \in FdsOp /\ op \in Ops /\ op = fdsQueue[1] /\ 1 \in 1..Len(fdsQueue)
  BY <1>1, ElementsTail, LenProperties DEF FlashTypeOK, Ops
<1>3. op.op # "gc" => op.key \in Keys /\ op.op \in {"write", "delete"}
  BY <1>2, KeyOfOp
<1>5. /\ FlashTypeOK'
      /\ fdsQueue \in Seq(FdsOp) /\ fdsQueue' \in Seq(FdsOp)
  BY FdsStepType DEF FlashTypeOK
<1>6. MarksHead \/ \E ev \in FdsEvent : ReportsHead(ev)
  <2>1. CASE FdsStoreRecord /\ op.update
    <3>1. fdsQueue' = [fdsQueue EXCEPT ![1].written = TRUE] /\ UNCHANGED fdsEvents
      BY <2>1 DEF FdsStoreRecord
    <3>2. fdsQueue' = [fdsQueue EXCEPT ![1] = [op EXCEPT !.written = TRUE]]
      BY <1>2, <3>1
    <3> DEFINE e == [op EXCEPT !.written = TRUE]
    <3>3. op \in FdsWrite
      BY <1>2, <2>1, OpKinds DEF FdsStoreRecord
    <3>4. e \in FdsOp /\ e.op = op.op /\ e.key = op.key
      BY <3>3 DEF FdsWrite, FdsOp
    <3> HIDE DEF e, op
    <3>5. /\ Len(fdsQueue') = Len(fdsQueue)
          /\ \A i \in 1..Len(fdsQueue) : fdsQueue'[i] = IF i = 1 THEN e ELSE fdsQueue[i]
      BY <1>2, <1>5, <3>2, <3>4, ExceptSeq DEF e
    <3>6. \A i \in 1..Len(fdsQueue) :
            /\ fdsQueue'[i].op = fdsQueue[i].op
            /\ fdsQueue[i].op # "gc" => fdsQueue'[i].key = fdsQueue[i].key
      BY <1>2, <3>4, <3>5
    <3> QED BY <3>1, <3>5, <3>6 DEF MarksHead
  <2>2. ASSUME NEW ok \in BOOLEAN, op.op # "gc", fdsQueue' = Tail(fdsQueue),
               Post([op |-> op.op, key |-> op.key, ok |-> ok])
        PROVE  \E ev \in FdsEvent : ReportsHead(ev)
    <3> DEFINE ev == [op |-> op.op, key |-> op.key, ok |-> ok]
    <3>1. ev \in FdsEvent /\ ev.op = op.op /\ ev.key = op.key /\ Post(ev)
      BY <1>3, <2>2, EventTypes
    <3> HIDE DEF ev
    <3> QED BY <2>2, <3>1 DEF ReportsHead
  <2>3. ASSUME NEW ok \in BOOLEAN, op.op = "gc", fdsQueue' = Tail(fdsQueue),
               Post([op |-> "gc", ok |-> ok])
        PROVE  \E ev \in FdsEvent : ReportsHead(ev)
    <3> DEFINE ev == [op |-> "gc", ok |-> ok]
    <3>1. ev \in FdsEvent /\ ev.op = "gc" /\ Post(ev)
      BY <2>3, EventTypes
    <3> HIDE DEF ev
    <3> QED BY <2>3, <3>1 DEF ReportsHead
  <2>4. CASE FdsStoreRecord /\ ~ op.update
    <3>1. /\ op.op # "gc" /\ fdsQueue' = Tail(fdsQueue)
          /\ Post([op |-> op.op, key |-> op.key, ok |-> TRUE])
      BY <2>4 DEF FdsStoreRecord
    <3> QED BY <2>2, <3>1
  <2>5. CASE FdsDeleteOld \/ FdsDeleteRecord
    <3>1. /\ op.op # "gc" /\ fdsQueue' = Tail(fdsQueue)
          /\ Post([op |-> op.op, key |-> op.key, ok |-> TRUE])
      BY <2>5 DEF FdsDeleteOld, FdsDeleteRecord
    <3> QED BY <2>2, <3>1
  <2>6. CASE FdsCollect
    BY <2>3, <2>6 DEF FdsCollect
  <2>7. CASE FdsFail
    <3>1. CASE op.op = "gc"
      BY <2>3, <2>7, <3>1 DEF FdsFail
    <3>2. CASE op.op # "gc"
      <4>1. fdsQueue' = Tail(fdsQueue) /\ Post([op |-> op.op, key |-> op.key, ok |-> FALSE])
        BY <2>7, <3>2 DEF FdsFail
      <4> QED BY <2>2, <3>2, <4>1
    <3> QED BY <3>1, <3>2
  <2> QED BY <2>1, <2>4, <2>5, <2>6, <2>7 DEF FdsStep
<1> QED BY <1>1, <1>2, <1>5, <1>6

LEMMA FdsStepHand ==
  ASSUME FlashTypeOK, BusyTypeOK, FdsStep
  PROVE  /\ InHand' = InHand /\ Kinds' = Kinds /\ NumInHand' = NumInHand
         /\ fdsQueue # << >> /\ Head(fdsQueue) \in Ops
         /\ Head(fdsQueue).op = "gc" => UNCHANGED flash
<1>1. /\ fdsQueue # << >> /\ Head(fdsQueue) \in Ops /\ fdsQueue' \in Seq(FdsOp)
      /\ MarksHead \/ \E ev \in FdsEvent : ReportsHead(ev)
  BY FdsStepShape
<1>2. Head(fdsQueue).op = "gc" => UNCHANGED flash
  BY DEF FdsStep, FdsStoreRecord, FdsDeleteOld, FdsDeleteRecord, FdsCollect, FdsFail
<1>3. CASE MarksHead
  BY <1>1, <1>2, <1>3, MarkHand DEF MarksHead
<1>4. CASE \E ev \in FdsEvent : ReportsHead(ev)
  BY <1>1, <1>2, <1>4, ReportHand DEF ReportsHead
<1> QED BY <1>1, <1>3, <1>4

LEMMA FdsStepBusy ==
  ASSUME StorageOK, FdsStep
  PROVE  BusyInv'
<1>1. /\ InHand' = InHand /\ Kinds' = Kinds /\ NumInHand' = NumInHand
      /\ Head(fdsQueue) \in Ops
      /\ Head(fdsQueue).op = "gc" => UNCHANGED flash
  BY FdsStepHand DEF StorageOK
<1>2. UNCHANGED <<busyRecordKeys, collectingGarbage, storageResetting>>
  BY DEF FdsStep, busyVars
<1>3. Head(fdsQueue).op \in Kinds
  BY <1>1 DEF Kinds
<1>4. storageResetting /\ collectingGarbage => UNCHANGED flash
  BY <1>1, <1>3 DEF StorageOK, BusyInv, Alone, Blocked
<1> QED BY <1>1, <1>2, <1>4 DEF StorageOK, BusyInv, Counted, Alone, GcBlocks, Erased, Blocked

-----------------------------------------------------------------------------
(* The events.                                                             *)

LEMMA TakeHand ==
  ASSUME FlashTypeOK, fdsEvents # << >>, fdsEvents' = Tail(fdsEvents), UNCHANGED fdsQueue
  PROVE  /\ Head(fdsEvents) \in FdsEvent
         /\ \A t \in Types :
              InHand[t] = InHand'[t] + IF Head(fdsEvents) \in EvsOf(t) THEN 1 ELSE 0
         /\ InHand' \in [Types -> Nat]
         /\ Kinds = Kinds' \cup {Head(fdsEvents).op}
         /\ NumInHand = NumInHand' + 1 /\ NumInHand' \in Nat
         /\ Ops' = Ops /\ Evs = Evs' \cup {Head(fdsEvents)}
<1> DEFINE ev == Head(fdsEvents)
<1>1. /\ fdsQueue \in Seq(FdsOp) /\ fdsEvents \in Seq(FdsEvent)
      /\ fdsEvents' \in Seq(FdsEvent) /\ ev \in FdsEvent
  BY HeadTailProperties DEF FlashTypeOK
<1>2. ASSUME NEW t \in Types
      PROVE  InHand'[t] \in Nat /\ InHand[t] = InHand'[t] + IF ev \in EvsOf(t) THEN 1 ELSE 0
  <2>1. Cardinality(Where(fdsEvents, EvsOf(t))) =
          Cardinality(Where(fdsEvents', EvsOf(t))) + IF ev \in EvsOf(t) THEN 1 ELSE 0
    BY <1>1, WhereTail
  <2>2. /\ Cardinality(Where(fdsQueue, OpsOf(t))) \in Nat
        /\ Cardinality(Where(fdsEvents', EvsOf(t))) \in Nat
    BY <1>1, WhereFinite
  <2>3. /\ InHand[t] = Cardinality(Where(fdsQueue, OpsOf(t)))
                         + Cardinality(Where(fdsEvents, EvsOf(t)))
        /\ InHand'[t] = Cardinality(Where(fdsQueue, OpsOf(t)))
                          + Cardinality(Where(fdsEvents', EvsOf(t)))
    BY DEF InHand
  <2> HIDE DEF ev
  <2> QED BY <2>1, <2>2, <2>3
<1>3. Ops' = Ops /\ Evs = Evs' \cup {ev}
  BY <1>1, ElementsTail DEF Ops, Evs
<1>4. /\ Len(fdsEvents') = Len(fdsEvents) - 1 /\ Len(fdsEvents') \in Nat
      /\ Len(fdsEvents) \in Nat /\ Len(fdsQueue) \in Nat
  BY <1>1, HeadTailProperties, LenProperties
<1>5. InHand' \in [Types -> Nat]
  BY <1>2 DEF InHand
<1>6. Kinds = Kinds' \cup {ev.op}
  BY <1>3 DEF Kinds
<1>7. NumInHand = NumInHand' + 1 /\ NumInHand' \in Nat
  BY <1>4 DEF NumInHand
<1> QED BY <1>1, <1>2, <1>3, <1>5, <1>6, <1>7

LEMMA NothingLeft ==
  ASSUME FlashTypeOK', NumInHand' = 0
  PROVE  Kinds' = {} /\ fdsQueue' = << >> /\ fdsEvents' = << >>
<1>1. /\ fdsQueue' \in Seq(FdsOp) /\ fdsEvents' \in Seq(FdsEvent)
      /\ Len(fdsQueue') \in Nat /\ Len(fdsEvents') \in Nat
  BY LenProperties DEF FlashTypeOK
<1>2. Len(fdsQueue') = 0 /\ Len(fdsEvents') = 0
  BY <1>1 DEF NumInHand
<1>3. fdsQueue' = << >> /\ fdsEvents' = << >>
  BY <1>1, <1>2, EmptySeq
<1>4. Ops' = {} /\ Evs' = {}
  BY <1>3 DEF Ops, Evs, ToSet
<1> QED BY <1>3, <1>4 DEF Kinds

LEMMA NothingLeftCount ==
  ASSUME fdsQueue' = << >>, fdsEvents' = << >>
  PROVE  \A t \in Types : InHand'[t] = 0
<1> SUFFICES ASSUME NEW t \in Types PROVE InHand'[t] = 0
  OBVIOUS
<1>1. Where(fdsQueue', OpsOf(t)) = {} /\ Where(fdsEvents', EvsOf(t)) = {}
  BY DEF Where
<1>2. /\ Cardinality(Where(fdsQueue', OpsOf(t))) = 0
      /\ Cardinality(Where(fdsEvents', EvsOf(t))) = 0
  BY <1>1, FS_EmptySet
<1> QED BY <1>2 DEF InHand

\* What clearBusy() makes of the counters is what is still in hand.
LEMMA ClearBusyCounts ==
  ASSUME StorageOK, ~ storageResetting, NEW ev \in FdsEvent, ev.op # "gc",
         ClearBusy(TypeOf[ev.key]), InHand' \in [Types -> Nat],
         \A t \in Types : InHand[t] = InHand'[t] + IF ev \in EvsOf(t) THEN 1 ELSE 0
  PROVE  \A t \in Types : busyRecordKeys'[t] = InHand'[t]
<1> SUFFICES ASSUME NEW t \in Types PROVE busyRecordKeys'[t] = InHand'[t]
  OBVIOUS
<1>1. busyRecordKeys[t] = InHand[t] /\ InHand'[t] \in Nat
  BY DEF StorageOK, BusyInv, Counted
<1>2. ev \in EvsOf(t) <=> t = TypeOf[ev.key]
  BY DEF EvsOf
<1>3. busyRecordKeys'[t] = IF t = TypeOf[ev.key]
                             THEN (IF busyRecordKeys[t] = 0 THEN 0 ELSE busyRecordKeys[t] - 1)
                             ELSE busyRecordKeys[t]
  BY DEF ClearBusy, StorageOK, BusyTypeOK
<1> QED BY <1>1, <1>2, <1>3

\* With a garbage collection or a factory reset at work, the counters stay at zero.
LEMMA ClearBusyZero ==
  ASSUME StorageOK, Blocked, NEW u, ClearBusy(u)
  PROVE  \A t \in Types : busyRecordKeys'[t] = 0
BY DEF ClearBusy, StorageOK, BusyTypeOK, BusyInv, Alone

\* The end of a write or of a delete, when no factory reset is at work.
LEMMA ReportedBusy ==
  ASSUME StorageOK, FlashTypeOK', fdsEvents # << >>, fdsEvents' = Tail(fdsEvents),
         UNCHANGED <<fdsQueue, collectingGarbage, storageResetting, flash>>,
         Head(fdsEvents).op # "gc", ~ storageResetting,
         ClearBusy(TypeOf[Head(fdsEvents).key])
  PROVE  BusyInv'
<1> DEFINE ev == Head(fdsEvents)
<1>1. /\ ev \in FdsEvent
      /\ \A t \in Types : InHand[t] = InHand'[t] + IF ev \in EvsOf(t) THEN 1 ELSE 0
      /\ InHand' \in [Types -> Nat]
      /\ Kinds = Kinds' \cup {ev.op}
  BY TakeHand DEF StorageOK
<1>2. \A t \in Types : busyRecordKeys'[t] = InHand'[t]
  BY <1>1, ClearBusyCounts
<1>3. ~ Blocked
  BY <1>1 DEF Blocked, StorageOK, BusyInv, Alone
<1> QED BY <1>1, <1>2, <1>3 DEF StorageOK, BusyInv, Counted, Alone, GcBlocks, Erased, Blocked

LEMMA OneLess ==
  ASSUME NEW n, NEW m \in Nat, n = m + 1, n = 1
  PROVE  m = 0
OBVIOUS

\* A failure ends the factory reset, and leaves nothing in hand then.
LEMMA FailedBusy ==
  ASSUME StorageOK, FlashTypeOK', fdsEvents # << >>, fdsEvents' = Tail(fdsEvents),
         UNCHANGED <<fdsQueue, collectingGarbage, flash>>, storageResetting' = FALSE,
         Head(fdsEvents).op # "gc",
         ClearBusy(TypeOf[Head(fdsEvents).key])
  PROVE  BusyInv'
<1> DEFINE ev == Head(fdsEvents)
<1>1. /\ ev \in FdsEvent
      /\ \A t \in Types : InHand[t] = InHand'[t] + IF ev \in EvsOf(t) THEN 1 ELSE 0
      /\ InHand' \in [Types -> Nat]
      /\ Kinds = Kinds' \cup {ev.op}
      /\ NumInHand = NumInHand' + 1 /\ NumInHand' \in Nat
  BY TakeHand DEF StorageOK
<1>2. CASE ~ storageResetting
  BY <1>2, ReportedBusy DEF StorageOK, BusyTypeOK
<1>3. CASE storageResetting
  <2>1. NumInHand' = 0 /\ ~ collectingGarbage
    <3>1. NumInHand = 1 /\ Kinds = IF collectingGarbage THEN {"gc"} ELSE {"delete"}
      BY <1>3 DEF StorageOK, BusyInv, Alone, Blocked
    <3>2. ev.op \in Kinds /\ ev.op # "gc"
      BY <1>1
    <3>3. NumInHand' = 0
      BY <1>1, <3>1, OneLess
    <3>4. ~ collectingGarbage
      BY <3>1, <3>2
    <3> QED BY <3>3, <3>4
  <2>2. Kinds' = {} /\ fdsQueue' = << >> /\ fdsEvents' = << >>
    BY <2>1, NothingLeft
  <2>3. \A t \in Types : busyRecordKeys'[t] = 0
    BY <1>3, ClearBusyZero DEF Blocked
  <2>4. \A t \in Types : InHand'[t] = 0
    BY <2>2, NothingLeftCount
  <2> QED BY <2>1, <2>2, <2>3, <2>4 DEF BusyInv, Counted, Alone, GcBlocks, Erased, Blocked
<1> QED BY <1>2, <1>3

\* The end of a garbage collection: nothing is left in hand.
LEMMA CollectedBusy ==
  ASSUME StorageOK, FlashTypeOK', fdsEvents # << >>, fdsEvents' = Tail(fdsEvents),
         UNCHANGED <<fdsQueue, busyRecordKeys, flash>>, storageResetting' = FALSE,
         collectingGarbage' = FALSE, Head(fdsEvents).op = "gc"
  PROVE  BusyInv'
<1> DEFINE ev == Head(fdsEvents)
<1>1. /\ Kinds = Kinds' \cup {"gc"} /\ NumInHand = NumInHand' + 1 /\ NumInHand' \in Nat
  BY TakeHand DEF StorageOK
<1>2. collectingGarbage
  BY <1>1 DEF StorageOK, BusyInv, GcBlocks
<1>3. NumInHand = 1 /\ \A t \in Types : busyRecordKeys[t] = 0
  BY <1>2 DEF StorageOK, BusyInv, Alone, Blocked
<1>4. NumInHand' = 0
  BY <1>1, <1>3, OneLess
<1>5. Kinds' = {} /\ fdsQueue' = << >> /\ fdsEvents' = << >>
  BY <1>4, NothingLeft
<1>6. \A t \in Types : InHand'[t] = 0
  BY <1>5, NothingLeftCount
<1> QED BY <1>3, <1>5, <1>6 DEF BusyInv, Counted, Alone, GcBlocks, Erased, Blocked

LEMMA HandleWriteEventBusy ==
  ASSUME Inv, Inv', BusyInv, HandleWriteEvent
  PROVE  BusyInv'
<1> DEFINE ev == Head(fdsEvents)
<1>1. /\ fdsEvents # << >> /\ fdsEvents' = Tail(fdsEvents) /\ ev.op = "write"
      /\ ClearBusy(TypeOf[ev.key]) /\ UNCHANGED <<flash, fdsQueue, collectingGarbage>>
      /\ \/ storageResetting' = FALSE
         \/ storageResetting' = storageResetting
  BY DEF HandleWriteEvent, TakeEvent, EventFailed
<1>2. StorageOK /\ FlashTypeOK'
  BY InvParts DEF StorageOK
<1>3. ~ storageResetting
  <2>1. "write" \in Kinds
    BY <1>1, <1>2, TakeHand DEF StorageOK
  <2> QED BY <2>1 DEF BusyInv, Alone, Blocked
<1> QED BY <1>1, <1>2, <1>3, ReportedBusy, FailedBusy

LEMMA HandleRemoveRecordEventBusy ==
  ASSUME Inv, Inv', BusyInv, HandleRemoveRecordEvent
  PROVE  BusyInv'
<1> DEFINE ev == Head(fdsEvents)
<1>1. /\ fdsEvents # << >> /\ fdsEvents' = Tail(fdsEvents) /\ ev.op = "delete"
      /\ ClearBusy(TypeOf[ev.key]) /\ UNCHANGED flash
  BY DEF HandleRemoveRecordEvent, TakeEvent
<1>2. StorageOK /\ FlashTypeOK'
  BY InvParts DEF StorageOK
<1>3. CASE UNCHANGED <<fdsQueue, collectingGarbage>> /\ storageResetting' = FALSE
  BY <1>1, <1>2, <1>3, FailedBusy
<1>4. CASE /\ ~ storageResetting
           /\ UNCHANGED <<fdsQueue, collectingGarbage, storageResetting>>
  BY <1>1, <1>2, <1>4, ReportedBusy
<1>5. CASE /\ storageResetting /\ UNCHANGED storageResetting
           /\ \E ret \in Ret : ContinueFactoryReset(ret)
  <2>1. ev.op \in Kinds /\ ev.op \in {o.op : o \in Evs}
    <3>1. ev \in Evs
      BY <1>1, <1>2, ElementsTail DEF Evs, StorageOK, FlashTypeOK
    <3> QED BY <3>1 DEF Kinds
  <2>2. NumInHand = 1 /\ collectingGarbage = FALSE
    BY <1>1, <1>2, <1>5, <2>1 DEF StorageOK, BusyInv, Alone, Blocked, BusyTypeOK
  <2>3. fdsQueue = << >> /\ fdsEvents' = << >>
    <3>1. /\ fdsQueue \in Seq(FdsOp) /\ fdsEvents \in Seq(FdsEvent)
          /\ Len(fdsQueue) \in Nat /\ Len(fdsEvents) \in Nat \ {0}
          /\ fdsEvents' \in Seq(FdsEvent) /\ Len(fdsEvents') = Len(fdsEvents) - 1
      BY <1>1, <1>2, LenProperties, EmptySeq, HeadTailProperties DEF StorageOK, FlashTypeOK
    <3>2. Len(fdsQueue) = 0 /\ Len(fdsEvents') = 0
      BY <2>2, <3>1 DEF NumInHand
    <3> QED BY <3>1, <3>2, EmptySeq
  <2>4. PICK ret \in Ret : ContinueFactoryReset(ret)
    BY <1>5
  <2>5. /\ NumInHand' = 1
        /\ Kinds' = IF collectingGarbage' THEN {"gc"} ELSE {"delete"}
        /\ collectingGarbage' => \A k \in ResetKeys : flash[k] = << >>
    BY <1>2, <2>2, <2>3, <2>4, ContinueFactoryResetHand DEF StorageOK
  <2>6. \A t \in Types : busyRecordKeys'[t] = 0
    BY <1>1, <1>2, <1>5, ClearBusyZero DEF Blocked
  <2> QED BY <1>1, <1>5, <2>5, <2>6 DEF BusyInv, Counted, Alone, GcBlocks, Erased, Blocked
<1> QED BY <1>3, <1>4, <1>5 DEF HandleRemoveRecordEvent, EventFailed

LEMMA HandleGarbageCollectionEventBusy ==
  ASSUME Inv, Inv', BusyInv, HandleGarbageCollectionEvent
  PROVE  BusyInv'
<1>1. /\ fdsEvents # << >> /\ fdsEvents' = Tail(fdsEvents) /\ Head(fdsEvents).op = "gc"
      /\ UNCHANGED <<flash, fdsQueue, busyRecordKeys>>
      /\ storageResetting' = FALSE /\ collectingGarbage' = FALSE
  BY DEF HandleGarbageCollectionEvent, TakeEvent, EventFailed
<1> QED BY <1>1, CollectedBusy, InvParts DEF StorageOK

-----------------------------------------------------------------------------
(* All steps.                                                              *)

\* Marking the buffers of a key as freed leaves the operations what they are.
LEMMA FreeBufferBusy ==
  ASSUME StorageOK, NEW k \in Keys, fdsQueue' = FreeBuffer(k),
         UNCHANGED <<flash, flashFull, fdsEvents, failures, busyVars>>
  PROVE  BusyInv'
<1>1. /\ fdsQueue' \in Seq(FdsOp) /\ Len(fdsQueue') = Len(fdsQueue)
      /\ DOMAIN fdsQueue = 1..Len(fdsQueue)
      /\ \A i \in 1..Len(fdsQueue) : fdsQueue[i] \in FdsOp
  BY FreeBufferType, LenProperties, ElementOfSeq DEF StorageOK, FlashTypeOK
<1>2. ASSUME NEW i \in 1..Len(fdsQueue)
      PROVE  /\ fdsQueue'[i].op = fdsQueue[i].op
             /\ fdsQueue[i].op # "gc" => fdsQueue'[i].key = fdsQueue[i].key
  <2>1. fdsQueue[i].op = "write" => fdsQueue[i] \in FdsWrite
    BY <1>1, OpKinds
  <2> QED BY <1>1, <2>1 DEF FreeBuffer, FdsWrite
<1>3. InHand' = InHand /\ Kinds' = Kinds /\ NumInHand' = NumInHand
  BY <1>1, <1>2, MarkHand DEF StorageOK
<1>4. UNCHANGED <<busyRecordKeys, collectingGarbage, storageResetting, flash>>
  BY DEF busyVars
<1> QED BY <1>3, <1>4 DEF StorageOK, BusyInv, Counted, Alone, GcBlocks, Erased, Blocked

LEMMA StoreInFlashBusy ==
  ASSUME StorageOK, NEW k \in Keys, ram'[k] \in Value, NEW ret, StoreInFlash(k, ret)
  PROVE  BusyInv'
BY UnchangedBusy, StorageWriteBusy DEF StoreInFlash

LEMMA RemoveFromFlashBusy ==
  ASSUME StorageOK, NEW k \in Keys, NEW ret, RemoveFromFlash(k, ret)
  PROVE  BusyInv'
BY UnchangedBusy, StorageRemoveBusy DEF RemoveFromFlash

LEMMA AppBusy ==
  ASSUME Inv, Inv', BusyInv, App
  PROVE  BusyInv'
<1>1. StorageOK
  BY InvParts DEF StorageOK
<1>2. ASSUME NEW k \in Keys, NEW v \in Value, Set(k, v) \/ SetDelayed(k, v) \/ SetThrottled(k, v)
      PROVE  BusyInv'
  <2>1. ram'[k] \in Value
    BY <1>2, StoreInRamType DEF Set, SetDelayed, SetThrottled
  <2>2. UNCHANGED storageVars \/ \E ret \in Ret : StoreInFlash(k, ret)
    BY <1>2 DEF Set, SetDelayed, SetThrottled
  <2> QED BY <1>1, <2>1, <2>2, UnchangedBusy, StoreInFlashBusy
<1>3. ASSUME NEW k \in Keys, RemoveValue(k)
      PROVE  BusyInv'
  BY <1>1, <1>3, FreeBufferBusy, RemoveFromFlashBusy DEF RemoveValue
<1>4. ASSUME NEW k \in Keys, Get(k)
      PROVE  BusyInv'
  BY <1>1, <1>4, UnchangedBusy DEF Get
<1>5. CASE CleanUp
  BY <1>1, <1>5, GarbageCollectBusy DEF CleanUp
<1>6. CASE FactoryReset
  BY <1>1, <1>6, UnchangedBusy, StorageFactoryResetBusy DEF FactoryReset
<1> QED BY <1>2, <1>3, <1>4, <1>5, <1>6, StateAssumption DEF App, AppSet

LEMMA TickBusy ==
  ASSUME Inv, Inv', BusyInv, Tick
  PROVE  BusyInv'
<1>1. StorageOK
  BY InvParts DEF StorageOK
<1>2. CASE UNCHANGED storageVars
  BY <1>1, <1>2, UnchangedBusy
<1>3. CASE TickItem /\ \E keep \in BOOLEAN : UNCHANGED ram /\ Execute(storeQueue[cursor], keep)
  <2> DEFINE item == storeQueue[cursor]
  <2>1. item \in QueueItem
    <3>1. cursor \in 1..Len(storeQueue) /\ storeQueue \in Seq(QueueItem)
      BY <1>3, LenProperties DEF Inv, TypeOK, TickItem, MainLoopIdle
    <3> QED BY <3>1, ElementOfSeq
  <2>2. item.operation \in KeyOps => item.key \in Keys
    BY <2>1 DEF QueueItem, KeyOps
  <2>3. PICK ret : \/ UNCHANGED storageVars
                   \/ /\ item.operation = "write" /\ ram[item.key] # Absent
                      /\ StoreInFlash(item.key, ret)
                   \/ item.operation = "remove" /\ RemoveFromFlash(item.key, ret)
                   \/ StorageFactoryReset(ret)
                   \/ GarbageCollect(ret)
    BY <1>3 DEF Execute
  <2>4. CASE /\ item.operation = "write" /\ ram[item.key] # Absent
             /\ StoreInFlash(item.key, ret)
    <3>1. item.key \in Keys
      BY <2>2, <2>4 DEF KeyOps
    <3>2. ram'[item.key] \in Value
      BY <1>3, <2>4, <3>1, InvParts
    <3> QED BY <1>1, <2>4, <3>1, <3>2, StoreInFlashBusy
  <2>5. CASE item.operation = "remove" /\ RemoveFromFlash(item.key, ret)
    BY <1>1, <2>2, <2>5, RemoveFromFlashBusy DEF KeyOps
  <2> QED BY <1>1, <2>3, <2>4, <2>5, UnchangedBusy, StorageFactoryResetBusy,
             GarbageCollectBusy
<1> QED BY <1>2, <1>3 DEF Tick, TickBegin, TickItem

LEMMA EmptyBusy ==
  ASSUME FlashTypeOK', fdsQueue' = << >>, fdsEvents' = << >>,
         busyRecordKeys' = [t \in Types |-> 0],
         collectingGarbage' = FALSE, storageResetting' = FALSE
  PROVE  BusyInv'
<1>1. Kinds' = {}
  BY DEF Kinds, Ops, Evs, ToSet
<1>2. \A t \in Types : InHand'[t] = 0
  BY NothingLeftCount
<1> QED BY <1>1, <1>2 DEF BusyInv, Counted, Alone, GcBlocks, Erased, Blocked

LEMMA BusyInit ==
  ASSUME Init
  PROVE  BusyInv
<1>1. /\ fdsQueue = << >> /\ fdsEvents = << >>
      /\ busyRecordKeys = [t \in Types |-> 0]
      /\ collectingGarbage = FALSE /\ storageResetting = FALSE
  BY DEF Init, StorageInit
<1>2. Kinds = {}
  BY <1>1 DEF Kinds, Ops, Evs, ToSet
<1>3. \A t \in Types : InHand[t] = 0
  <2> SUFFICES ASSUME NEW t \in Types PROVE InHand[t] = 0
    OBVIOUS
  <2>1. Where(fdsQueue, OpsOf(t)) = {} /\ Where(fdsEvents, EvsOf(t)) = {}
    BY <1>1 DEF Where
  <2>2. /\ Cardinality(Where(fdsQueue, OpsOf(t))) = 0
        /\ Cardinality(Where(fdsEvents, EvsOf(t))) = 0
    BY <2>1, FS_EmptySet
  <2> QED BY <2>2 DEF InHand
<1> QED BY <1>1, <1>2, <1>3 DEF BusyInv, Counted, Alone, GcBlocks, Erased, Blocked

LEMMA BusyNext ==
  ASSUME Inv, Inv', BusyInv, [Next]_vars
  PROVE  BusyInv'
<1>1. StorageOK
  BY InvParts DEF StorageOK
<1>2. CASE App
  BY <1>2, AppBusy
<1>3. CASE Tick
  BY <1>3, TickBusy
<1>4. CASE HandleEvent
  BY <1>4, HandleWriteEventBusy, HandleRemoveRecordEventBusy,
     HandleGarbageCollectionEventBusy DEF HandleEvent
<1>5. CASE Fds
  BY <1>1, <1>5, FdsStepBusy DEF Fds
<1>6. CASE Reboot
  BY <1>6, EmptyBusy, InvParts DEF Reboot, StorageBoot
<1>7. CASE StartWritesToFlash \/ UNCHANGED vars
  BY <1>1, <1>7, UnchangedBusy DEF StartWritesToFlash, vars
<1> QED BY <1>2, <1>3, <1>4, <1>5, <1>6, <1>7 DEF Next

LEMMA StorageInvariant == Spec => [](Inv /\ BusyInv)
<1>1. Init => Inv /\ BusyInv
  BY InvInit, BusyInit
<1>2. (Inv /\ BusyInv) /\ [Next]_vars => (Inv /\ BusyInv)'
  BY InvNext, BusyNext
<1> QED BY <1>1, <1>2, PTL DEF Spec

\* Storage is busy with a type as many times as FDS has an operation of it in hand,
\* however events, failures, garbage collections and factory resets interleave.
THEOREM BusyIsTrue == Spec => []BusyMeansOutstanding
<1>1. Inv /\ BusyInv => BusyMeansOutstanding
  <2> SUFFICES ASSUME Inv, BusyInv PROVE BusyMeansOutstanding
    OBVIOUS
  <2>1. FlashTypeOK
    BY InvParts
  <2>2. ~ storageResetting =>
          \A t \in Types : busyRecordKeys[t] =
            Cardinality(Outstanding(t)) + Cardinality(OutstandingEvents(t))
    BY <2>1, InHandOutstanding DEF BusyInv, Counted
  <2>3. Blocked => NumInHand = 1
    BY DEF BusyInv, Alone
  <2>4. NumInHand = 1 => fdsQueue # << >> \/ fdsEvents # << >>
    BY EmptySeq DEF NumInHand
  <2> QED BY <2>2, <2>3, <2>4 DEF BusyMeansOutstanding, NumInHand
<1> QED BY <1>1, StorageInvariant, PTL

\* A factory reset that is reported as done has erased every record that has to go
\* (finishFactoryReset()), whatever failed and was tried again meanwhile.
THEOREM ResetIsComplete == Spec => ResetErases
<1>1. (Inv /\ BusyInv) /\ [Next]_vars =>
        [stateResetting /\ ~ stateResetting' /\ crashes' = crashes
           => \A k \in ResetKeys : flash[k] = << >>]_vars
  <2> SUFFICES ASSUME Inv, BusyInv, [Next]_vars, stateResetting, ~ stateResetting',
                      crashes' = crashes
               PROVE  \A k \in ResetKeys : flash[k] = << >>
    OBVIOUS
  <2>1. HandleGarbageCollectionEvent
    <3>1. ~ Reboot
      BY InvParts DEF Reboot
    <3>2. ~ HandleWriteEvent /\ ~ HandleRemoveRecordEvent
      BY DEF HandleWriteEvent, HandleRemoveRecordEvent, EventFailed
    <3> QED BY <3>1, <3>2 DEF Next, App, AppSet, Set, SetDelayed, SetThrottled, RemoveValue, Get,
            CleanUp, FactoryReset, StartWritesToFlash, Tick, TickBegin, TickItem, HandleEvent,
            Fds, vars, stateVars
  <2>2. storageResetting
    BY <2>1 DEF HandleGarbageCollectionEvent, EventFailed, StateResettingAfterGc
  <2>3. "gc" \in Kinds
    <3>1. fdsEvents # << >> /\ Head(fdsEvents).op = "gc"
      BY <2>1 DEF HandleGarbageCollectionEvent
    <3>2. Head(fdsEvents) \in Evs
      BY <3>1, InvParts, ElementsTail DEF FlashTypeOK, Evs
    <3> QED BY <3>1, <3>2 DEF Kinds
  <2> QED BY <2>2, <2>3 DEF BusyInv, GcBlocks, Erased
<1> QED BY <1>1, StorageInvariant, PTL DEF Spec, ResetErases

-----------------------------------------------------------------------------
(* The queue, seen by key: which operation waits for a key.                *)

Waits(o, k) ==
  \E i \in DOMAIN storeQueue : storeQueue[i].operation = o /\ storeQueue[i].key = k
Queued == [k \in Keys |-> {o \in KeyOps : Waits(o, k)}]

\* The operations in the queue that have no key.
Special == {o \in {"factoryReset", "gc"} : \E i \in DOMAIN storeQueue :
              storeQueue[i].operation = o}

\* Only setThrottled() makes items that wait without being due.
PlainItem(e) ==
  e.operation \in KeyOps /\ e.key \notin ThrottledKeys => e.execute /\ e.initCounter = 0
Plain == \A i \in DOMAIN storeQueue : PlainItem(storeQueue[i])

LEMMA QueuedItems ==
  ASSUME QueueOK, NEW k \in Keys
  PROVE  /\ Queued[k] = {} <=> ItemsOf(k) = {}
         /\ \A i \in ItemsOf(k) : /\ i \in DOMAIN storeQueue
                                  /\ Queued[k] = {storeQueue[i].operation}
         /\ Queued[k] \subseteq KeyOps
<1>1. \A i, j \in ItemsOf(k) : i = j
  BY DEF QueueOK, NoTwins, ItemsOf, KeyOps
<1>2. \A o : o \in Queued[k] <=> \E i \in ItemsOf(k) : storeQueue[i].operation = o
  BY DEF Queued, Waits, ItemsOf, KeyOps
<1>3. ItemsOf(k) \subseteq DOMAIN storeQueue
  BY DEF ItemsOf
<1> QED BY <1>1, <1>2, <1>3 DEF Queued

LEMMA ViewUnchanged ==
  ASSUME UNCHANGED storeQueue
  PROVE  Queued' = Queued /\ Special' = Special /\ (Plain => Plain')
BY DEF Queued, Waits, Special, Plain, PlainItem

LEMMA ViewUpdate ==
  ASSUME QueueOK, NEW i \in DOMAIN storeQueue, NEW e \in QueueItem,
         e.key = storeQueue[i].key, e.operation = storeQueue[i].operation,
         storeQueue' = [storeQueue EXCEPT ![i] = e]
  PROVE  Queued' = Queued /\ Special' = Special /\ (Plain /\ PlainItem(e) => Plain')
<1>1. /\ DOMAIN storeQueue' = DOMAIN storeQueue
      /\ \A j \in DOMAIN storeQueue : storeQueue'[j] = IF j = i THEN e ELSE storeQueue[j]
  OBVIOUS
<1>2. \A j \in DOMAIN storeQueue : /\ storeQueue'[j].operation = storeQueue[j].operation
                                   /\ storeQueue'[j].key = storeQueue[j].key
  BY <1>1
<1>3. \A o, k : Waits(o, k)' <=> Waits(o, k)
  BY <1>1, <1>2 DEF Waits
<1>4. Queued' = Queued
  BY <1>3 DEF Queued
<1>5. Special' = Special
  BY <1>1, <1>2 DEF Special
<1> QED BY <1>1, <1>4, <1>5 DEF Plain, PlainItem

LEMMA ViewAppend ==
  ASSUME QueueOK, NEW e \in QueueItem, e.operation \in KeyOps => e.key \in Keys,
         storeQueue' = Append(storeQueue, e)
  PROVE  /\ e.operation \in KeyOps =>
              /\ Queued' = [Queued EXCEPT ![e.key] = @ \cup {e.operation}]
              /\ Special' = Special
         /\ e.operation \notin KeyOps =>
              Queued' = Queued /\ Special' = Special \cup {e.operation}
         /\ Plain /\ PlainItem(e) => Plain'
<1> DEFINE n == Len(storeQueue)
<1>1. storeQueue \in Seq(QueueItem) /\ n \in Nat /\ DOMAIN storeQueue = 1..n
  BY LenProperties DEF QueueOK
<1>2. /\ storeQueue' \in Seq(QueueItem) /\ Len(storeQueue') = n + 1
      /\ \A i \in 1..n : storeQueue'[i] = storeQueue[i]
      /\ storeQueue'[n + 1] = e
  BY <1>1, AppendProperties
<1>3. DOMAIN storeQueue' = 1..(n + 1)
  BY <1>2, LenProperties
<1> HIDE DEF n
<1>4. 1..(n + 1) = (1..n) \cup {n + 1}
  BY <1>1
<1>5. \A o, k : Waits(o, k)' <=> Waits(o, k) \/ (e.operation = o /\ e.key = k)
  BY <1>1, <1>2, <1>3, <1>4 DEF Waits
<1>6. \A o : (\E i \in DOMAIN storeQueue' : storeQueue'[i].operation = o)
           <=> \/ \E i \in DOMAIN storeQueue : storeQueue[i].operation = o
               \/ e.operation = o
  BY <1>1, <1>2, <1>3, <1>4
<1>7. e.operation \in KeyOps \/ e.operation \in {"factoryReset", "gc"}
  BY DEF QueueItem, KeyOps
<1>8. ASSUME e.operation \in KeyOps
      PROVE  Queued' = [Queued EXCEPT ![e.key] = @ \cup {e.operation}]
  BY <1>5, <1>8 DEF Queued
<1>9. ASSUME e.operation \notin KeyOps
      PROVE  Queued' = Queued
  BY <1>5, <1>9 DEF Queued
<1>10. Special' = IF e.operation \in KeyOps THEN Special ELSE Special \cup {e.operation}
  BY <1>6, <1>7 DEF Special, KeyOps
<1>11. Plain /\ PlainItem(e) => Plain'
  BY <1>1, <1>2, <1>3, <1>4 DEF Plain, PlainItem
<1> QED BY <1>8, <1>9, <1>10, <1>11

LEMMA ViewRemove ==
  ASSUME QueueOK, NEW c \in 1..Len(storeQueue),
         storeQueue' = RemoveAt(storeQueue, c)
  PROVE  /\ storeQueue[c].operation \in KeyOps =>
              /\ storeQueue[c].key \in Keys
              /\ Queued' = [Queued EXCEPT ![storeQueue[c].key] = {}]
         /\ storeQueue[c].operation \notin KeyOps => Queued' = Queued
         /\ Special' \subseteq Special
         /\ Plain => Plain'
<1> DEFINE n == Len(storeQueue)
           item == storeQueue[c]
<1>1. storeQueue \in Seq(QueueItem) /\ n \in Nat /\ DOMAIN storeQueue = 1..n
  BY LenProperties DEF QueueOK
<1>2. /\ storeQueue' \in Seq(QueueItem) /\ Len(storeQueue') = n - 1
      /\ \A i \in 1..(n - 1) : storeQueue'[i] = IF i < c THEN storeQueue[i] ELSE storeQueue[i + 1]
  BY <1>1, RemoveAtFact
<1>3. DOMAIN storeQueue' = 1..(n - 1)
  BY <1>2, LenProperties
<1>4. item \in QueueItem /\ c \in 1..n
  BY <1>1, ElementOfSeq
<1>5. \A i \in DOMAIN storeQueue' :
        \E j \in DOMAIN storeQueue : j # c /\ storeQueue'[i] = storeQueue[j]
  <2> SUFFICES ASSUME NEW i \in 1..(n - 1)
               PROVE  \E j \in 1..n : j # c /\ storeQueue'[i] = storeQueue[j]
    BY <1>1, <1>3
  <2> HIDE DEF n
  <2>1. CASE i < c
    BY <1>1, <1>2, <1>4, <2>1
  <2>2. CASE ~ (i < c)
    <3>1. i + 1 \in 1..n /\ i + 1 # c
      BY <1>1, <1>4, <2>2
    <3> QED BY <1>2, <2>2, <3>1
  <2> QED BY <2>1, <2>2
<1>6. \A j \in DOMAIN storeQueue : j # c =>
        \E i \in DOMAIN storeQueue' : storeQueue'[i] = storeQueue[j]
  <2> SUFFICES ASSUME NEW j \in 1..n, j # c
               PROVE  \E i \in 1..(n - 1) : storeQueue'[i] = storeQueue[j]
    BY <1>1, <1>3
  <2> HIDE DEF n
  <2>1. CASE j < c
    <3>1. j \in 1..(n - 1)
      BY <1>1, <1>4, <2>1
    <3> QED BY <1>2, <2>1, <3>1
  <2>2. CASE j > c
    <3>1. j - 1 \in 1..(n - 1) /\ ~ (j - 1 < c) /\ (j - 1) + 1 = j
      BY <1>1, <1>4, <2>2
    <3> QED BY <1>2, <3>1
  <2> QED BY <1>1, <1>4, <2>1, <2>2
<1> HIDE DEF n
<1>7. \A o, k : Waits(o, k)' <=> \E j \in DOMAIN storeQueue :
                j # c /\ storeQueue[j].operation = o /\ storeQueue[j].key = k
  BY <1>5, <1>6 DEF Waits
<1>8. Special' \subseteq Special
  BY <1>5 DEF Special
<1>9. Plain => Plain'
  BY <1>5 DEF Plain, PlainItem
<1>10. ASSUME item.operation \in KeyOps
       PROVE  item.key \in Keys /\ Queued' = [Queued EXCEPT ![item.key] = {}]
  <2>1. item.key \in Keys
    BY <1>4, <1>10 DEF QueueItem, KeyOps
  <2>2. \A j \in DOMAIN storeQueue :
          storeQueue[j].operation \in KeyOps /\ storeQueue[j].key = item.key => j = c
    BY <1>1, <1>4, <1>10 DEF QueueOK, NoTwins
  <2>3. \A k, o : o \in KeyOps => (Waits(o, k)' <=> Waits(o, k) /\ k # item.key)
    BY <1>7, <2>2 DEF Waits
  <2>5. \A k \in Keys : Queued'[k] = IF k = item.key THEN {} ELSE Queued[k]
    <3> HIDE DEF item
    <3> QED BY <2>3 DEF Queued
  <2>4. Queued \in [Keys -> SUBSET KeyOps] /\ Queued' \in [Keys -> SUBSET KeyOps]
    BY DEF Queued
  <2> HIDE DEF item
  <2> QED BY <2>1, <2>5, <2>4
<1>11. ASSUME item.operation \notin KeyOps
       PROVE  Queued' = Queued
  <2>1. \A k, o : o \in KeyOps => (Waits(o, k)' <=> Waits(o, k))
    <3>1. \A j \in DOMAIN storeQueue : storeQueue[j].operation \in KeyOps => j # c
      BY <1>11
    <3>2. \A k, o : o \in KeyOps => (Waits(o, k) <=> \E j \in DOMAIN storeQueue :
                j # c /\ storeQueue[j].operation = o /\ storeQueue[j].key = k)
      BY <3>1 DEF Waits
    <3> QED BY <1>7, <3>2
  <2> QED BY <2>1 DEF Queued
<1> QED BY <1>8, <1>9, <1>10, <1>11

\* addToQueue(): an item that waits for the key keeps its operation.
LEMMA AddToQueueView ==
  ASSUME QueueOK, NEW operation \in KeyOps, NEW k \in Keys, NEW ticks \in Nat,
         AddToQueue(operation, k, ticks)
  PROVE  /\ Queued' = [Queued EXCEPT ![k] = IF @ = {} THEN {operation} ELSE @]
         /\ Special' = Special
         /\ Plain => Plain'
<1>1. CASE ItemsOf(k) # {}
  <2> DEFINE i == CHOOSE i \in ItemsOf(k) : TRUE
             e == [storeQueue[i] EXCEPT !.counter = ticks, !.execute = TRUE]
  <2>1. i \in DOMAIN storeQueue
    BY <1>1, ItemOfKey
  <2>2. storeQueue[i] \in QueueItem
    BY <2>1, LenProperties, ElementOfSeq DEF QueueOK
  <2>3. e \in QueueItem /\ e.key = storeQueue[i].key
                        /\ e.operation = storeQueue[i].operation
                        /\ e.execute = TRUE /\ e.initCounter = storeQueue[i].initCounter
    BY <2>2 DEF QueueItem
  <2>4. storeQueue' = [storeQueue EXCEPT ![i] = e]
    BY <1>1 DEF AddToQueue, DelayItem, KeyOps
  <2>5. Plain => PlainItem(e)
    <3> HIDE DEF e, i
    <3> QED BY <2>1, <2>3 DEF Plain, PlainItem
  <2>6. Queued' = Queued /\ Special' = Special /\ (Plain => Plain')
    <3> HIDE DEF e, i
    <3> QED BY <2>1, <2>3, <2>4, <2>5, ViewUpdate
  <2>7. Queued[k] # {}
    BY <1>1, QueuedItems
  <2> QED BY <2>6, <2>7 DEF Queued
<1>2. CASE ItemsOf(k) = {}
  <2> DEFINE e == Item(operation, k, ticks, TRUE)
  <2>1. storeQueue' = Append(storeQueue, e)
    BY <1>2 DEF AddToQueue
  <2>2. e \in QueueItem
    BY ItemType
  <2>3. e.operation = operation /\ e.key = k /\ PlainItem(e)
    BY DEF Item, PlainItem
  <2> HIDE DEF e
  <2>4. /\ Queued' = [Queued EXCEPT ![k] = @ \cup {operation}]
        /\ Special' = Special /\ (Plain => Plain')
    BY <2>1, <2>2, <2>3, ViewAppend
  <2>5. Queued[k] = {}
    BY <1>2, QueuedItems
  <2> QED BY <2>4, <2>5
<1> QED BY <1>1, <1>2

LEMMA RetryView ==
  ASSUME QueueOK, NEW operation \in KeyOps, NEW k \in Keys, NEW ret,
         RetryWhenBusy(operation, k, ret)
  PROVE  /\ Queued' = IF ret = "BUSY"
                        THEN [Queued EXCEPT ![k] = IF @ = {} THEN {operation} ELSE @]
                        ELSE Queued
         /\ Special' = Special
         /\ Plain => Plain'
BY AddToQueueView, ViewUnchanged, StateAssumption DEF RetryWhenBusy

LEMMA AddGcView ==
  ASSUME QueueOK, AddToQueue("gc", Absent, RetryTicks)
  PROVE  Queued' = Queued /\ Special' = Special \cup {"gc"} /\ (Plain => Plain')
<1> DEFINE e == Item("gc", Absent, RetryTicks, TRUE)
<1>1. storeQueue' = Append(storeQueue, e)
  BY DEF AddToQueue
<1>2. e \in QueueItem
  BY ItemType, StateAssumption
<1>3. e.operation = "gc" /\ e.operation \notin KeyOps /\ PlainItem(e)
  BY DEF Item, PlainItem, KeyOps
<1> HIDE DEF e
<1> QED BY <1>1, <1>2, <1>3, ViewAppend

\* What a tick makes of the item at the cursor: when it is dropped, it was not to
\* be executed or it was executed and not busy.
LEMMA RescheduleView ==
  ASSUME QueueOK, cursor \in 1..Len(storeQueue), NEW keep \in BOOLEAN,
         Reschedule(storeQueue[cursor], keep), Plain
  PROVE  /\ Plain'
         /\ \/ Queued' = Queued /\ Special' = Special
            \/ /\ ~ keep /\ Special' \subseteq Special
               /\ LET item == storeQueue[cursor] IN
                  Queued' = IF item.operation \in KeyOps
                              THEN [Queued EXCEPT ![item.key] = {}] ELSE Queued
<1> DEFINE item == storeQueue[cursor]
<1>1. item \in QueueItem /\ cursor \in DOMAIN storeQueue
  BY LenProperties, ElementOfSeq DEF QueueOK
<1>2. PlainItem(item)
  BY <1>1 DEF Plain
<1>3. CASE /\ item.execute /\ item.initCounter # 0
           /\ storeQueue' = [storeQueue EXCEPT ![cursor].execute = FALSE,
                                               ![cursor].counter = item.initCounter]
  <2> DEFINE e == [item EXCEPT !.execute = FALSE, !.counter = item.initCounter]
  <2>1. e \in QueueItem /\ e.key = item.key /\ e.operation = item.operation
    BY <1>1 DEF QueueItem
  <2>2. storeQueue' = [storeQueue EXCEPT ![cursor] = e]
    BY <1>3
  <2>3. PlainItem(e)
    BY <1>2, <1>3, <2>1 DEF PlainItem
  <2> HIDE DEF e
  <2> QED BY <1>1, <2>1, <2>2, <2>3, ViewUpdate
<1>4. CASE storeQueue' = [storeQueue EXCEPT ![cursor].counter = RetryTicks]
  <2> DEFINE e == [item EXCEPT !.counter = RetryTicks]
  <2>1. /\ e \in QueueItem /\ e.key = item.key /\ e.operation = item.operation
        /\ e.execute = item.execute /\ e.initCounter = item.initCounter
    BY <1>1, StateAssumption DEF QueueItem
  <2>2. storeQueue' = [storeQueue EXCEPT ![cursor] = e]
    BY <1>4
  <2>3. PlainItem(e)
    <3> HIDE DEF e, item
    <3> QED BY <1>2, <2>1 DEF PlainItem
  <2> HIDE DEF e
  <2> QED BY <1>1, <2>1, <2>2, <2>3, ViewUpdate
<1>5. CASE ~ keep /\ storeQueue' = RemoveAt(storeQueue, cursor)
  BY <1>5, ViewRemove
<1> QED BY <1>3, <1>4, <1>5 DEF Reschedule

-----------------------------------------------------------------------------
(* What FDS has in hand, seen by key.                                      *)

HandKeys(op) == {k \in Keys : \E o \in Ops \cup Evs : o.op = op /\ o.key = k}

\* The key has something in hand, so its type is busy.
LEMMA HandIsBusy ==
  ASSUME StorageOK, ~ storageResetting, NEW op \in {"write", "delete"}, NEW k \in HandKeys(op)
  PROVE  IsBusyType(TypeOf[k])
<1>1. k \in Keys /\ TypeOf[k] \in Types
  BY StorageAssumption DEF HandKeys
<1>2. InHand[TypeOf[k]] # 0
  BY <1>1, NothingOfType DEF HandKeys, StorageOK
<1> QED BY <1>1, <1>2 DEF StorageOK, BusyTypeOK, BusyInv, Counted, IsBusyType

LEMMA NothingHand ==
  ASSUME fdsQueue = << >>, fdsEvents = << >>, NEW op
  PROVE  HandKeys(op) = {}
BY DEF HandKeys, Ops, Evs, ToSet

LEMMA HandUnchanged ==
  ASSUME UNCHANGED <<fdsQueue, fdsEvents>>, NEW op
  PROVE  HandKeys(op)' = HandKeys(op)
BY DEF HandKeys, Ops, Evs

LEMMA StorageUnchangedHand ==
  ASSUME UNCHANGED storageVars, NEW op
  PROVE  HandKeys(op)' = HandKeys(op) /\ UNCHANGED <<fdsQueue, fdsEvents>>
BY HandUnchanged DEF storageVars

\* An operation that is accepted.
LEMMA EnqueueKeys ==
  ASSUME FlashTypeOK, NEW o \in FdsOp, Enqueue(o), UNCHANGED fdsEvents, NEW op
  PROVE  /\ o.op # op => HandKeys(op)' = HandKeys(op)
         /\ o.op = op /\ op # "gc" => HandKeys(op)' = HandKeys(op) \cup {o.key}
<1>1. Ops' = Ops \cup {o} /\ Evs' = Evs
  BY EnqueueHand
<1>2. o.op # "gc" => o.key \in Keys
  BY KeyOfOp
<1> QED BY <1>1, <1>2 DEF HandKeys

LEMMA GarbageCollectKeys ==
  ASSUME FlashTypeOK, NEW ret, GarbageCollect(ret), NEW op \in {"write", "delete"}
  PROVE  HandKeys(op)' = HandKeys(op)
<1>1. CASE UNCHANGED storageVars
  BY <1>1, StorageUnchangedHand
<1>2. CASE Enqueue([op |-> "gc"]) /\ UNCHANGED fdsEvents
  <2> DEFINE o == [op |-> "gc"]
  <2>1. o \in FdsOp /\ o.op = "gc" /\ Enqueue(o)
    BY <1>2, GcOp
  <2> HIDE DEF o
  <2> QED BY <1>2, <2>1, EnqueueKeys
<1> QED BY <1>1, <1>2 DEF GarbageCollect

LEMMA StorageWriteKeys ==
  ASSUME FlashTypeOK, NEW k \in Keys, ram'[k] \in Value, NEW ret, StorageWrite(k, ret)
  PROVE  /\ HandKeys("delete")' = HandKeys("delete")
         /\ HandKeys("write")' \subseteq HandKeys("write") \cup {k}
         /\ IsBusyType(TypeOf[k]) => ret = "BUSY" /\ HandKeys("write")' = HandKeys("write")
<1>1. CASE UNCHANGED storageVars /\ ret = "BUSY"
  BY <1>1, StorageUnchangedHand
<1>2. CASE /\ ~ IsBusyType(TypeOf[k])
           /\ \E gcRet \in {"BUSY", "SUCCESS"} : GarbageCollect(gcRet)
  BY <1>2, GarbageCollectKeys
<1>3. CASE /\ ~ IsBusyType(TypeOf[k])
           /\ Enqueue([op |-> "write", key |-> k, crc |-> ram'[k], freed |-> FALSE,
                       update |-> flash[k] # << >>, written |-> FALSE])
           /\ UNCHANGED fdsEvents
  <2> DEFINE o == [op |-> "write", key |-> k, crc |-> ram'[k], freed |-> FALSE,
                   update |-> flash[k] # << >>, written |-> FALSE]
  <2>1. o \in FdsOp /\ o.op = "write" /\ o.key = k /\ Enqueue(o)
    <3>1. (flash[k] # << >>) \in BOOLEAN
      OBVIOUS
    <3> QED BY <1>3, <3>1 DEF FdsOp, FdsWrite
  <2> HIDE DEF o
  <2> QED BY <1>3, <2>1, EnqueueKeys
<1> QED BY <1>1, <1>2, <1>3 DEF StorageWrite

LEMMA StorageRemoveKeys ==
  ASSUME FlashTypeOK, NEW k \in Keys, NEW ret, StorageRemove(k, ret)
  PROVE  /\ HandKeys("write")' = HandKeys("write")
         /\ HandKeys("delete")' \subseteq HandKeys("delete") \cup {k}
         /\ IsBusyType(TypeOf[k]) => ret = "BUSY" /\ HandKeys("delete")' = HandKeys("delete")
<1> DEFINE records == Len(flash[k])
           room == FdsQueueSize - Len(fdsQueue)
           n == IF records <= room THEN records ELSE room
           d == Deletes(k, n)
<1>1. CASE UNCHANGED storageVars /\ ret = "BUSY"
  BY <1>1, StorageUnchangedHand
<1>2. CASE /\ ~ IsBusyType(TypeOf[k])
           /\ fdsQueue' = fdsQueue \o d
           /\ UNCHANGED fdsEvents
  <2>1. records \in Nat /\ room \in Nat /\ fdsQueue \in Seq(FdsOp)
    <3>1. Len(fdsQueue) \in Nat /\ Len(fdsQueue) <= FdsQueueSize
      BY LenProperties DEF FlashTypeOK
    <3> QED BY <3>1, StorageAssumption, LengthOfFlash DEF FlashTypeOK
  <2>2. n \in Nat /\ n <= records
    BY <2>1
  <2> HIDE DEF n, room, records
  <2>3. /\ d \in Seq(FdsOp) /\ Len(d) = n
        /\ \A i \in 1..n : d[i].op = "delete" /\ d[i].key = k
    <3>1. /\ d \in Seq(FdsOp) /\ Len(d) = n
          /\ \A i \in 1..n : d[i] = [op |-> "delete", key |-> k, pos |-> Len(flash[k]) - i]
      BY <2>2, DeletesFact DEF records
    <3> HIDE DEF d
    <3> QED BY <3>1
  <2>4. \A o \in ToSet(d) : o.op = "delete" /\ o.key = k
    <3> HIDE DEF d
    <3> QED BY <2>3, LenProperties DEF ToSet
  <2>5. Ops' = Ops \cup ToSet(d) /\ Evs' = Evs
    <3> HIDE DEF d
    <3> QED BY <1>2, <2>1, <2>3, ElementsConcat DEF Ops, Evs
  <2> HIDE DEF d
  <2> QED BY <1>2, <2>4, <2>5 DEF HandKeys
<1> QED BY <1>1, <1>2 DEF StorageRemove

LEMMA MarkKeys ==
  ASSUME FlashTypeOK, fdsQueue' \in Seq(FdsOp), MarksHead, NEW op \in {"write", "delete"}
  PROVE  HandKeys(op)' = HandKeys(op)
<1>1. /\ DOMAIN fdsQueue' = 1..Len(fdsQueue) /\ DOMAIN fdsQueue = 1..Len(fdsQueue)
      /\ Evs' = Evs
  BY LenProperties DEF FlashTypeOK, MarksHead, Evs
<1>2. \A k : (\E o \in Ops' : o.op = op /\ o.key = k) <=> (\E o \in Ops : o.op = op /\ o.key = k)
  BY <1>1 DEF MarksHead, Ops, ToSet
<1> QED BY <1>1, <1>2 DEF HandKeys

LEMMA ReportKeys ==
  ASSUME FlashTypeOK, fdsQueue # << >>, NEW ev \in FdsEvent, ReportsHead(ev),
         NEW op \in {"write", "delete"}
  PROVE  HandKeys(op)' = HandKeys(op)
<1>1. Ops = Ops' \cup {Head(fdsQueue)} /\ Evs' = Evs \cup {ev}
  BY ReportHand DEF ReportsHead
<1> QED BY <1>1 DEF HandKeys, ReportsHead

LEMMA FdsStepKeys ==
  ASSUME FlashTypeOK, BusyTypeOK, FdsStep, NEW op \in {"write", "delete"}
  PROVE  HandKeys(op)' = HandKeys(op)
BY FdsStepShape, MarkKeys, ReportKeys

\* A handler that takes its event, and leaves the queue of FDS alone.
LEMMA TakeKeys ==
  ASSUME FlashTypeOK, fdsEvents # << >>, fdsEvents' = Tail(fdsEvents), UNCHANGED fdsQueue,
         NEW op \in {"write", "delete"}
  PROVE  /\ HandKeys(op)' \subseteq HandKeys(op)
         /\ Head(fdsEvents).op = op => Head(fdsEvents).key \in HandKeys(op)
<1>1. Ops' = Ops /\ Evs = Evs' \cup {Head(fdsEvents)} /\ Head(fdsEvents) \in FdsEvent
  BY TakeHand
<1>2. Head(fdsEvents).op = op => Head(fdsEvents).key \in Keys
  BY <1>1, KeyOfOp
<1> QED BY <1>1, <1>2 DEF HandKeys

LEMMA FreeBufferKeys ==
  ASSUME FlashTypeOK, NEW k \in Keys, fdsQueue' = FreeBuffer(k), UNCHANGED fdsEvents,
         NEW op \in {"write", "delete"}
  PROVE  HandKeys(op)' = HandKeys(op)
<1>1. /\ fdsQueue' \in Seq(FdsOp) /\ Len(fdsQueue') = Len(fdsQueue)
      /\ DOMAIN fdsQueue = 1..Len(fdsQueue)
      /\ \A i \in 1..Len(fdsQueue) : fdsQueue[i] \in FdsOp
  BY FreeBufferType, LenProperties, ElementOfSeq DEF FlashTypeOK
<1>2. ASSUME NEW i \in 1..Len(fdsQueue)
      PROVE  /\ fdsQueue'[i].op = fdsQueue[i].op
             /\ fdsQueue[i].op # "gc" => fdsQueue'[i].key = fdsQueue[i].key
  <2>1. fdsQueue[i].op = "write" => fdsQueue[i] \in FdsWrite
    BY <1>1, OpKinds
  <2> QED BY <1>1, <2>1 DEF FreeBuffer, FdsWrite
<1>3. MarksHead
  BY <1>1, <1>2 DEF MarksHead
<1> QED BY <1>1, <1>3, MarkKeys

-----------------------------------------------------------------------------
(* The inductive invariant: what waits is what was asked for last.         *)

\* No factory reset, no set and remove of a key that wait at once, no first read
\* after the start; and no key that is throttled as well as removed.
Restrained ==
  /\ "reset" \notin Env /\ "mixed" \notin Env /\ "lateRead" \notin Env
  /\ ThrottledKeys \cap RemovableKeys = {}

NoReset == ~ stateResetting /\ ~ storageResetting /\ "factoryReset" \notin Special

\* Before startWritesToFlash() FDS has nothing to do.
Early ==
  ~ startedWritingToFlash => fdsQueue = << >> /\ fdsEvents = << >> /\ "gc" \notin Special

\* A removed key that FDS still writes has a removal waiting, and a key that was
\* set while FDS still deletes its records a write.
Settled(k) ==
  /\ Queued[k] \subseteq {IF k \in removed THEN "remove" ELSE "write"}
  /\ "write" \in Queued[k] => ram[k] # Absent
  /\ k \in removed => k \in RemovableKeys /\ ram[k] = Absent
  /\ k \in HandKeys("write") => IF k \in removed THEN Queued[k] # {} ELSE ram[k] # Absent
  /\ k \in HandKeys("delete") =>
       k \in RemovableKeys /\ (k \notin removed => Queued[k] # {} /\ ram[k] # Absent)

Follows == Plain /\ NoReset /\ Early /\ \A k \in Keys : Settled(k)

\* All a step of the main loop may rely on.
FollowsInv == Inv /\ BusyInv /\ Follows

LEMMA SettledOther ==
  ASSUME NEW j \in Keys, Settled(j), Queued'[j] = Queued[j], ram'[j] = ram[j],
         j \in removed' <=> j \in removed,
         \A op \in {"write", "delete"} : j \in HandKeys(op)' => j \in HandKeys(op)
  PROVE  Settled(j)'
BY DEF Settled

\* What nothing but a set or a remove touches.
LEMMA SameRequests ==
  ASSUME FollowsInv, UNCHANGED <<ram, removed>>, Queued' = Queued,
         \A op \in {"write", "delete"} : HandKeys(op)' \subseteq HandKeys(op)
  PROVE  \A k \in Keys : Settled(k)'
<1> SUFFICES ASSUME NEW k \in Keys PROVE Settled(k)'
  OBVIOUS
<1>1. Settled(k)
  BY DEF FollowsInv, Follows
<1> QED BY <1>1, SettledOther

LEMMA FollowsParts ==
  ASSUME FollowsInv
  PROVE  /\ FlashTypeOK /\ BusyTypeOK /\ BusyInv /\ StorageOK /\ QueueOK
         /\ ram \in [Keys -> Value \cup {Absent}] /\ removed \subseteq Keys
         /\ Queued \in [Keys -> SUBSET KeyOps]
BY InvParts DEF FollowsInv, StorageOK, Queued

LEMMA OnlyOperation ==
  ASSUME FollowsInv, Restrained, NEW k \in Keys, NEW operation \in KeyOps,
         NoItem(operation, k)
  PROVE  operation \notin Queued[k]
BY FollowsParts, QueuedItems DEF NoItem, Restrained

LEMMA StoreInFlashKeys ==
  ASSUME FlashTypeOK, ~ stateResetting, NEW k \in Keys, ram'[k] \in Value,
         NEW ret, StoreInFlash(k, ret)
  PROVE  /\ HandKeys("delete")' = HandKeys("delete")
         /\ HandKeys("write")' \subseteq HandKeys("write") \cup {k}
         /\ IsBusyType(TypeOf[k]) => ret = "BUSY" /\ HandKeys("write")' = HandKeys("write")
         /\ ~ startedWritingToFlash => ret = "BUSY" /\ UNCHANGED <<fdsQueue, fdsEvents>>
         /\ UNCHANGED storageResetting
<1>1. CASE ~ startedWritingToFlash /\ ret = "BUSY" /\ UNCHANGED storageVars
  BY <1>1, StorageUnchangedHand DEF storageVars, busyVars
<1>2. CASE startedWritingToFlash /\ StorageWrite(k, ret)
  <2>1. UNCHANGED storageResetting
    BY <1>2 DEF StorageWrite, GarbageCollect, storageVars, busyVars
  <2> QED BY <1>2, <2>1, StorageWriteKeys
<1> QED BY <1>1, <1>2 DEF StoreInFlash

LEMMA RemoveFromFlashKeys ==
  ASSUME FlashTypeOK, ~ stateResetting, NEW k \in Keys, NEW ret, RemoveFromFlash(k, ret)
  PROVE  /\ HandKeys("write")' = HandKeys("write")
         /\ HandKeys("delete")' \subseteq HandKeys("delete") \cup {k}
         /\ IsBusyType(TypeOf[k]) => ret = "BUSY" /\ HandKeys("delete")' = HandKeys("delete")
         /\ ~ startedWritingToFlash => ret = "BUSY" /\ UNCHANGED <<fdsQueue, fdsEvents>>
         /\ UNCHANGED storageResetting
<1>1. CASE ~ startedWritingToFlash /\ ret = "BUSY" /\ UNCHANGED storageVars
  BY <1>1, StorageUnchangedHand DEF storageVars, busyVars
<1>2. CASE startedWritingToFlash /\ StorageRemove(k, ret)
  <2>1. UNCHANGED storageResetting
    BY <1>2 DEF StorageRemove, storageVars, busyVars
  <2> QED BY <1>2, <2>1, StorageRemoveKeys
<1> QED BY <1>1, <1>2 DEF RemoveFromFlash

\* set(), in any mode.
LEMMA SetSettled ==
  ASSUME FollowsInv, Restrained, NEW k \in Keys, NEW v \in Value, MaySet(k), StoreInRam(k, v),
         HandKeys("delete")' = HandKeys("delete"),
         HandKeys("write")' \subseteq HandKeys("write") \cup {k},
         \/ Queued' = [Queued EXCEPT ![k] = IF @ = {} THEN {"write"} ELSE @]
         \/ Queued' = Queued /\ k \notin HandKeys("delete")
  PROVE  \A j \in Keys : Settled(j)'
<1>1. ASSUME NEW j \in Keys, j # k PROVE Settled(j)'
  <2>1. Settled(j)
    BY DEF FollowsInv, Follows
  <2>2. Queued'[j] = Queued[j]
    BY <1>1, FollowsParts
  <2>3. ram'[j] = ram[j] /\ (j \in removed' <=> j \in removed)
    BY <1>1, FollowsParts DEF StoreInRam
  <2>4. \A op \in {"write", "delete"} : j \in HandKeys(op)' => j \in HandKeys(op)
    BY <1>1
  <2> QED BY <2>1, <2>2, <2>3, <2>4, SettledOther
<1>2. Settled(k)'
  <2>1. Queued[k] \subseteq {"write"}
    <3>1. "remove" \notin Queued[k]
      BY OnlyOperation DEF MaySet, KeyOps
    <3> QED BY <3>1, FollowsParts DEF KeyOps
  <2>2. Queued'[k] \subseteq {"write"} /\ (k \in HandKeys("delete") => Queued'[k] # {})
    BY <2>1, FollowsParts
  <2>3. k \notin removed' /\ ram'[k] # Absent
    BY FollowsParts, StorageAssumption DEF StoreInRam
  <2>4. k \in HandKeys("delete") => k \in RemovableKeys
    BY DEF FollowsInv, Follows, Settled
  <2> QED BY <2>2, <2>3, <2>4 DEF Settled
<1> QED BY <1>1, <1>2

LEMMA SetFollows ==
  ASSUME FollowsInv, Restrained, NEW k \in Keys, NEW v \in Value, Set(k, v)
  PROVE  Follows'
<1>1. PICK ret \in Ret : StoreInFlash(k, ret) /\ RetryWhenBusy("write", k, ret)
  BY DEF Set
<1>2. /\ MaySet(k) /\ StoreInRam(k, v) /\ UNCHANGED <<startedWritingToFlash, stateResetting>>
      /\ ram'[k] \in Value /\ ~ stateResetting
  BY StoreInRamType DEF Set, FollowsInv, Follows, NoReset
<1>3. /\ HandKeys("delete")' = HandKeys("delete")
      /\ HandKeys("write")' \subseteq HandKeys("write") \cup {k}
      /\ IsBusyType(TypeOf[k]) => ret = "BUSY"
      /\ ~ startedWritingToFlash => UNCHANGED <<fdsQueue, fdsEvents>>
      /\ UNCHANGED storageResetting
  BY <1>1, <1>2, FollowsParts, StoreInFlashKeys
<1>4. /\ Queued' = IF ret = "BUSY"
                     THEN [Queued EXCEPT ![k] = IF @ = {} THEN {"write"} ELSE @]
                     ELSE Queued
      /\ Special' = Special /\ Plain'
  BY <1>1, FollowsParts, RetryView DEF KeyOps, FollowsInv, Follows
<1>5. ret # "BUSY" => k \notin HandKeys("delete")
  BY <1>3, FollowsParts, HandIsBusy DEF FollowsInv, Follows, NoReset
<1>6. \A j \in Keys : Settled(j)'
  BY <1>2, <1>3, <1>4, <1>5, SetSettled
<1> QED BY <1>2, <1>3, <1>4, <1>6 DEF FollowsInv, Follows, NoReset, Early

LEMMA SetDelayedFollows ==
  ASSUME FollowsInv, Restrained, NEW k \in Keys, NEW v \in Value, SetDelayed(k, v)
  PROVE  Follows'
<1>1. /\ MaySet(k) /\ StoreInRam(k, v) /\ UNCHANGED storageVars
      /\ UNCHANGED <<startedWritingToFlash, stateResetting>>
      /\ AddToQueue("write", k, DelayTicks)
  BY DEF SetDelayed
<1>2. /\ Queued' = [Queued EXCEPT ![k] = IF @ = {} THEN {"write"} ELSE @]
      /\ Special' = Special /\ Plain'
  BY <1>1, FollowsParts, AddToQueueView, StateAssumption DEF KeyOps, FollowsInv, Follows
<1>3. \A op : HandKeys(op)' = HandKeys(op)
  BY <1>1, StorageUnchangedHand
<1>4. \A j \in Keys : Settled(j)'
  BY <1>1, <1>2, <1>3, SetSettled
<1> QED BY <1>1, <1>2, <1>4 DEF FollowsInv, Follows, NoReset, Early, storageVars, busyVars

LEMMA SetThrottledFollows ==
  ASSUME FollowsInv, Restrained, NEW k \in ThrottledKeys, NEW v \in Value, SetThrottled(k, v)
  PROVE  Follows'
<1>1. /\ MaySet(k) /\ StoreInRam(k, v) /\ UNCHANGED <<startedWritingToFlash, stateResetting>>
      /\ ~ stateResetting /\ k \in Keys
  BY StateAssumption DEF SetThrottled, FollowsInv, Follows, NoReset
<1>2. ram'[k] \in Value
  BY <1>1, StoreInRamType DEF FollowsInv
<1>3. k \notin HandKeys("delete")
  BY <1>1 DEF Restrained, FollowsInv, Follows, Settled
<1>4. CASE ItemsOf(k) # {}
  <2> DEFINE i == CHOOSE i \in ItemsOf(k) : TRUE
             e == [storeQueue[i] EXCEPT !.initCounter = ThrottleTicks, !.execute = TRUE]
  <2>1. i \in DOMAIN storeQueue /\ i \in ItemsOf(k)
    BY <1>4, FollowsParts, ItemOfKey
  <2>2. storeQueue[i] \in QueueItem /\ storeQueue[i].key = k
    BY <2>1, FollowsParts, LenProperties, ElementOfSeq DEF QueueOK, ItemsOf
  <2>3. e \in QueueItem /\ e.key = storeQueue[i].key
                        /\ e.operation = storeQueue[i].operation
    BY <2>2, StateAssumption DEF QueueItem
  <2>4. storeQueue' = [storeQueue EXCEPT ![i] = e] /\ UNCHANGED storageVars
    BY <1>4 DEF SetThrottled, ThrottleItem
  <2>5. PlainItem(e)
    BY <2>2, <2>3 DEF PlainItem
  <2>6. Queued' = Queued /\ Special' = Special /\ Plain'
    <3> HIDE DEF e, i
    <3> QED BY <2>1, <2>3, <2>4, <2>5, FollowsParts, ViewUpdate DEF FollowsInv, Follows
  <2>7. \A op : HandKeys(op)' = HandKeys(op)
    BY <2>4, StorageUnchangedHand
  <2>8. \A j \in Keys : Settled(j)'
    BY <1>1, <1>3, <2>6, <2>7, SetSettled
  <2> QED BY <1>1, <2>4, <2>6, <2>8 DEF FollowsInv, Follows, NoReset, Early, storageVars, busyVars
<1>5. CASE ItemsOf(k) = {}
  <2> DEFINE e == Item("write", k, ThrottleTicks, FALSE)
  <2>1. PICK ret \in Ret :
           /\ StoreInFlash(k, ret)
           /\ storeQueue' = IF ret = "SUCCESS" THEN Append(storeQueue, e) ELSE storeQueue
    BY <1>5 DEF SetThrottled
  <2>2. /\ HandKeys("delete")' = HandKeys("delete")
        /\ HandKeys("write")' \subseteq HandKeys("write") \cup {k}
        /\ ~ startedWritingToFlash => UNCHANGED <<fdsQueue, fdsEvents>>
        /\ UNCHANGED storageResetting
    BY <1>1, <1>2, <2>1, FollowsParts, StoreInFlashKeys
  <2>3. e \in QueueItem /\ e.operation = "write" /\ e.key = k /\ PlainItem(e)
    BY <1>1, ItemType, StateAssumption DEF Item, PlainItem, KeyOps
  <2> HIDE DEF e
  <2>4. Queued[k] = {}
    BY <1>1, <1>5, FollowsParts, QueuedItems
  <2>5. /\ Queued' = Queued \/ Queued' = [Queued EXCEPT ![k] = @ \cup {"write"}]
        /\ Special' = Special /\ Plain'
    <3>1. CASE storeQueue' = storeQueue
      BY <3>1, ViewUnchanged DEF FollowsInv, Follows
    <3>2. CASE storeQueue' = Append(storeQueue, e)
      BY <1>1, <2>3, <3>2, FollowsParts, ViewAppend DEF KeyOps, FollowsInv, Follows
    <3> QED BY <2>1, <3>1, <3>2
  <2>6. \/ Queued' = Queued
        \/ Queued' = [Queued EXCEPT ![k] = IF @ = {} THEN {"write"} ELSE @]
    BY <2>4, <2>5
  <2>7. \A j \in Keys : Settled(j)'
    BY <1>1, <1>3, <2>2, <2>6, SetSettled
  <2> QED BY <1>1, <2>2, <2>5, <2>7 DEF FollowsInv, Follows, NoReset, Early
<1> QED BY <1>4, <1>5

LEMMA RemoveValueFollows ==
  ASSUME FollowsInv, Restrained, NEW k \in RemovableKeys, RemoveValue(k)
  PROVE  Follows'
<1>1. /\ k \in Keys /\ NoItem("write", k) /\ ~ stateResetting
      /\ ram' = [ram EXCEPT ![k] = Absent] /\ removed' = removed \cup {k}
      /\ UNCHANGED <<startedWritingToFlash, stateResetting>>
  BY StateAssumption DEF RemoveValue, FollowsInv, Follows, NoReset
<1>2. PICK ret \in Ret :
         /\ IF BeingWritten(k)
              THEN /\ ret = "BUSY" /\ fdsQueue' = FreeBuffer(k)
                   /\ UNCHANGED <<fdsEvents, busyVars>>
              ELSE RemoveFromFlash(k, ret)
         /\ RetryWhenBusy("remove", k, ret)
  BY <1>1 DEF RemoveValue
<1>3. /\ HandKeys("write")' = HandKeys("write")
      /\ HandKeys("delete")' \subseteq HandKeys("delete") \cup {k}
      /\ IsBusyType(TypeOf[k]) => ret = "BUSY"
      /\ ~ startedWritingToFlash => UNCHANGED <<fdsQueue, fdsEvents>>
      /\ UNCHANGED storageResetting
  <2>1. CASE BeingWritten(k)
    <3>1. startedWritingToFlash
      <4>1. fdsQueue # << >>
        BY <2>1 DEF BeingWritten
      <4> QED BY <4>1 DEF FollowsInv, Follows, Early
    <3>2. /\ HandKeys("write")' = HandKeys("write")
          /\ HandKeys("delete")' = HandKeys("delete")
      BY <1>1, <1>2, <2>1, FollowsParts, FreeBufferKeys
    <3> QED BY <1>2, <2>1, <3>1, <3>2 DEF busyVars
  <2>2. CASE ~ BeingWritten(k)
    BY <1>1, <1>2, <2>2, FollowsParts, RemoveFromFlashKeys
  <2> QED BY <2>1, <2>2
<1>4. /\ Queued' = IF ret = "BUSY"
                     THEN [Queued EXCEPT ![k] = IF @ = {} THEN {"remove"} ELSE @]
                     ELSE Queued
      /\ Special' = Special /\ Plain'
  BY <1>1, <1>2, FollowsParts, RetryView DEF KeyOps, FollowsInv, Follows
<1>5. ret # "BUSY" => k \notin HandKeys("write")
  BY <1>3, FollowsParts, HandIsBusy DEF FollowsInv, Follows, NoReset
<1>6. ASSUME NEW j \in Keys, j # k PROVE Settled(j)'
  <2>1. Settled(j)
    BY DEF FollowsInv, Follows
  <2>2. Queued'[j] = Queued[j]
    BY <1>4, <1>6, FollowsParts
  <2>3. ram'[j] = ram[j] /\ (j \in removed' <=> j \in removed)
    BY <1>1, <1>6, FollowsParts
  <2>4. \A op \in {"write", "delete"} : j \in HandKeys(op)' => j \in HandKeys(op)
    BY <1>3, <1>6
  <2> QED BY <2>1, <2>2, <2>3, <2>4, SettledOther
<1>7. Settled(k)'
  <2>1. "write" \notin Queued[k]
    BY <1>1, OnlyOperation DEF KeyOps
  <2>2. Queued'[k] \subseteq {"remove"} /\ (k \in HandKeys("write") => Queued'[k] # {})
    BY <1>1, <1>4, <1>5, <2>1, FollowsParts DEF KeyOps
  <2>3. k \in removed' /\ ram'[k] = Absent
    BY <1>1, FollowsParts
  <2> QED BY <1>3, <2>2, <2>3 DEF Settled
<1>8. \A j \in Keys : Settled(j)'
  BY <1>6, <1>7
<1> QED BY <1>1, <1>3, <1>4, <1>8 DEF FollowsInv, Follows, NoReset, Early

LEMMA GetFollows ==
  ASSUME FollowsInv, Restrained, NEW k \in Keys, Get(k)
  PROVE  Follows'
<1>1. /\ k \notin removed /\ removed' = removed
      /\ UNCHANGED <<storageVars, storeQueue, startedWritingToFlash, stateResetting>>
      /\ ram' = [ram EXCEPT ![k] = IF ReadSucceeds(k) THEN ReadValue(k) ELSE Default]
  BY DEF Get, MayReadFirst, Restrained
<1>2. ram'[k] # Absent
  <2>1. (IF ReadSucceeds(k) THEN ReadValue(k) ELSE Default) \in Value
    BY FollowsParts, ReadValueType, StateAssumption DEF ReadSucceeds
  <2> QED BY <1>1, <2>1, FollowsParts, StorageAssumption
<1>3. Queued' = Queued /\ Special' = Special /\ Plain'
  BY <1>1, ViewUnchanged DEF FollowsInv, Follows
<1>4. \A op : HandKeys(op)' = HandKeys(op)
  BY <1>1, StorageUnchangedHand
<1>5. ASSUME NEW j \in Keys PROVE Settled(j)'
  <2>1. Settled(j)
    BY DEF FollowsInv, Follows
  <2>2. j # k => ram'[j] = ram[j]
    BY <1>1, FollowsParts
  <2> QED BY <1>1, <1>2, <1>3, <1>4, <2>1, <2>2 DEF Settled
<1> QED BY <1>1, <1>3, <1>5 DEF FollowsInv, Follows, NoReset, Early, storageVars, busyVars

LEMMA CleanUpFollows ==
  ASSUME FollowsInv, CleanUp
  PROVE  Follows'
<1>1. PICK ret \in Ret : /\ GarbageCollect(ret)
                         /\ \/ AddToQueue("gc", Absent, RetryTicks)
                            \/ UNCHANGED storeQueue
  BY DEF CleanUp
<1>2. startedWritingToFlash' /\ UNCHANGED <<ram, removed, stateResetting>>
  BY DEF CleanUp
<1>3. UNCHANGED storageResetting
  BY <1>1 DEF GarbageCollect, storageVars, busyVars
<1>4. Queued' = Queued /\ Plain' /\ Special' \subseteq Special \cup {"gc"}
  BY <1>1, FollowsParts, AddGcView, ViewUnchanged DEF FollowsInv, Follows
<1>5. \A op \in {"write", "delete"} : HandKeys(op)' = HandKeys(op)
  BY <1>1, FollowsParts, GarbageCollectKeys
<1>6. \A j \in Keys : Settled(j)'
  BY <1>2, <1>4, <1>5, SameRequests
<1> QED BY <1>2, <1>3, <1>4, <1>6 DEF FollowsInv, Follows, NoReset, Early

\* What the operation of an item does to what is in hand.
LEMMA ExecuteKeys ==
  ASSUME FollowsInv, NEW item \in QueueItem, item.operation \in KeyOps => item.key \in Keys,
         item.operation # "factoryReset", item.operation = "gc" => startedWritingToFlash,
         UNCHANGED ram, NEW keep, Execute(item, keep)
  PROVE  /\ UNCHANGED storageResetting
         /\ ~ startedWritingToFlash => UNCHANGED <<fdsQueue, fdsEvents>>
         /\ item.operation = "gc" =>
              \A op \in {"write", "delete"} : HandKeys(op)' = HandKeys(op)
         /\ item.operation = "write" =>
              /\ HandKeys("delete")' = HandKeys("delete")
              /\ HandKeys("write")' \subseteq HandKeys("write") \cup {item.key}
              /\ ram[item.key] # Absent /\ IsBusyType(TypeOf[item.key]) => keep
         /\ item.operation = "remove" =>
              /\ HandKeys("write")' = HandKeys("write")
              /\ HandKeys("delete")' \subseteq HandKeys("delete") \cup {item.key}
              /\ IsBusyType(TypeOf[item.key]) => keep
<1>1. ~ stateResetting /\ FlashTypeOK
  BY FollowsParts DEF FollowsInv, Follows, NoReset
<1>2. PICK ret : /\ \/ /\ item.operation = "write" /\ ram[item.key] = Absent
                       /\ UNCHANGED storageVars
                    \/ /\ item.operation = "write" /\ ram[item.key] # Absent
                       /\ StoreInFlash(item.key, ret)
                    \/ item.operation = "remove" /\ RemoveFromFlash(item.key, ret)
                    \/ item.operation = "gc" /\ GarbageCollect(ret)
                 /\ keep = (ret = "BUSY")
  BY DEF Execute
<1>3. CASE item.operation = "write" /\ ram[item.key] = Absent /\ UNCHANGED storageVars
  BY <1>3, StorageUnchangedHand DEF storageVars, busyVars
<1>4. CASE item.operation = "write" /\ ram[item.key] # Absent /\ StoreInFlash(item.key, ret)
  <2>1. item.key \in Keys /\ ram'[item.key] \in Value
    BY <1>4, FollowsParts DEF KeyOps
  <2> QED BY <1>1, <1>2, <1>4, <2>1, StoreInFlashKeys
<1>5. CASE item.operation = "remove" /\ RemoveFromFlash(item.key, ret)
  <2>1. item.key \in Keys
    BY <1>5 DEF KeyOps
  <2> QED BY <1>1, <1>2, <1>5, <2>1, RemoveFromFlashKeys
<1>6. CASE item.operation = "gc" /\ GarbageCollect(ret)
  <2>1. UNCHANGED storageResetting
    BY <1>6 DEF GarbageCollect, storageVars, busyVars
  <2> QED BY <1>1, <1>6, <2>1, GarbageCollectKeys
<1> QED BY <1>2, <1>3, <1>4, <1>5, <1>6

\* An item is dropped from the queue only when its key has nothing left to wait for.
LEMMA TickItemFollows ==
  ASSUME FollowsInv, Restrained, TickItem
  PROVE  Follows'
<1> DEFINE item == storeQueue[cursor]
<1>1. cursor \in 1..Len(storeQueue) /\ cursor \in DOMAIN storeQueue /\ item \in QueueItem
  BY InvParts, LenProperties, ElementOfSeq
     DEF TickItem, MainLoopIdle, FollowsInv, QueueOK
<1>2. /\ item.operation \in KeyOps => item.key \in Keys /\ item.operation \in Queued[item.key]
      /\ item.operation \notin KeyOps => item.operation = "gc" /\ startedWritingToFlash
      /\ PlainItem(item)
  <2>1. /\ item.operation \in KeyOps => item.key \in Keys
        /\ item.operation \notin KeyOps => item.operation \in {"factoryReset", "gc"}
    BY <1>1 DEF QueueItem, KeyOps
  <2>2. item.operation \in {"factoryReset", "gc"} => item.operation \in Special
    BY <1>1 DEF Special
  <2>3. item.operation \in KeyOps => item.operation \in Queued[item.key]
    BY <1>1, <2>1 DEF Queued, Waits
  <2>4. PlainItem(item)
    BY <1>1 DEF FollowsInv, Follows, Plain
  <2> HIDE DEF item
  <2> QED BY <2>1, <2>2, <2>3, <2>4 DEF FollowsInv, Follows, NoReset, Early
<1>3. UNCHANGED <<ram, removed, startedWritingToFlash, stateResetting>> /\ QueueOK /\ Plain
  BY FollowsParts DEF TickItem, FollowsInv, Follows
<1>4. CASE /\ storeQueue' = [storeQueue EXCEPT ![cursor].counter = @ - 1]
           /\ item.counter # 0 /\ UNCHANGED storageVars
  <2> DEFINE e == [item EXCEPT !.counter = @ - 1]
  <2>1. /\ e \in QueueItem /\ e.key = item.key /\ e.operation = item.operation
        /\ e.execute = item.execute /\ e.initCounter = item.initCounter
    BY <1>1, <1>4 DEF QueueItem
  <2>2. storeQueue' = [storeQueue EXCEPT ![cursor] = e]
    BY <1>4
  <2>3. PlainItem(e)
    <3> HIDE DEF e, item
    <3> QED BY <1>2, <2>1 DEF PlainItem
  <2>4. Queued' = Queued /\ Special' = Special /\ Plain'
    <3> HIDE DEF e
    <3> QED BY <1>1, <1>3, <2>1, <2>2, <2>3, ViewUpdate
  <2>5. \A op : HandKeys(op)' = HandKeys(op)
    BY <1>4, StorageUnchangedHand
  <2>6. \A j \in Keys : Settled(j)'
    BY <1>3, <2>4, <2>5, SameRequests
  <2> QED BY <1>3, <1>4, <2>4, <2>6 DEF FollowsInv, Follows, NoReset, Early, storageVars, busyVars
<1>5. CASE UNCHANGED storageVars /\ ~ item.execute /\ Reschedule(item, FALSE)
  <2>1. /\ Plain' /\ Special' \subseteq Special
        /\ \/ Queued' = Queued
           \/ Queued' = IF item.operation \in KeyOps
                          THEN [Queued EXCEPT ![item.key] = {}] ELSE Queued
    BY <1>1, <1>3, <1>5, RescheduleView
  <2>2. \A op : HandKeys(op)' = HandKeys(op)
    BY <1>5, StorageUnchangedHand
  <2>3. CASE Queued' = Queued
    <3>1. \A j \in Keys : Settled(j)'
      BY <1>3, <2>2, <2>3, SameRequests
    <3> QED BY <1>3, <1>5, <2>1, <3>1
            DEF FollowsInv, Follows, NoReset, Early, storageVars, busyVars
  <2>4. CASE item.operation \in KeyOps /\ Queued' = [Queued EXCEPT ![item.key] = {}]
    <3>1. item.key \in ThrottledKeys /\ item.key \notin RemovableKeys /\ item.key \in Keys
      BY <1>2, <1>5, <2>4 DEF PlainItem, Restrained
    <3>2. ASSUME NEW j \in Keys PROVE Settled(j)'
      <4>1. Settled(j)
        BY DEF FollowsInv, Follows
      <4>2. CASE j = item.key
        <5>1. Queued'[j] = {} /\ j \notin RemovableKeys
          BY <2>4, <3>1, <4>2, FollowsParts
        <5> HIDE DEF item
        <5> QED BY <1>3, <2>2, <4>1, <5>1 DEF Settled
      <4>3. CASE j # item.key
        <5>1. Queued'[j] = Queued[j]
          BY <2>4, <3>1, <4>3, FollowsParts
        <5> QED BY <1>3, <2>2, <4>1, <5>1, SettledOther
      <4> QED BY <4>2, <4>3
    <3> QED BY <1>3, <1>5, <2>1, <3>2
            DEF FollowsInv, Follows, NoReset, Early, storageVars, busyVars
  <2> QED BY <2>1, <2>3, <2>4
<1>6. ASSUME NEW keep \in BOOLEAN, Execute(item, keep), Reschedule(item, keep)
      PROVE  Follows'
  <2>1. /\ Plain'
        /\ \/ Queued' = Queued /\ Special' = Special
           \/ /\ ~ keep /\ Special' \subseteq Special
              /\ Queued' = IF item.operation \in KeyOps
                             THEN [Queued EXCEPT ![item.key] = {}] ELSE Queued
    BY <1>1, <1>3, <1>6, RescheduleView
  <2>2. item.operation # "factoryReset" /\ (item.operation = "gc" => startedWritingToFlash)
    BY <1>2 DEF KeyOps
  <2>3. /\ UNCHANGED storageResetting
        /\ ~ startedWritingToFlash => UNCHANGED <<fdsQueue, fdsEvents>>
        /\ item.operation = "gc" =>
             \A op \in {"write", "delete"} : HandKeys(op)' = HandKeys(op)
        /\ item.operation = "write" =>
             /\ HandKeys("delete")' = HandKeys("delete")
             /\ HandKeys("write")' \subseteq HandKeys("write") \cup {item.key}
             /\ ram[item.key] # Absent /\ IsBusyType(TypeOf[item.key]) => keep
        /\ item.operation = "remove" =>
             /\ HandKeys("write")' = HandKeys("write")
             /\ HandKeys("delete")' \subseteq HandKeys("delete") \cup {item.key}
             /\ IsBusyType(TypeOf[item.key]) => keep
    <3> HIDE DEF item
    <3> QED BY <1>1, <1>2, <1>3, <1>6, <2>2, ExecuteKeys
  <2> HIDE DEF item
  <2>4. ASSUME NEW j \in Keys, item.operation \in KeyOps => j # item.key
        PROVE  Settled(j)'
    <3>1. Settled(j)
      BY DEF FollowsInv, Follows
    <3>2. Queued'[j] = Queued[j]
      BY <2>1, <2>4, FollowsParts
    <3>3. \A op \in {"write", "delete"} : j \in HandKeys(op)' => j \in HandKeys(op)
      BY <1>2, <2>3, <2>4 DEF KeyOps
    <3> QED BY <1>3, <3>1, <3>2, <3>3, SettledOther
  <2>5. ASSUME NEW k \in Keys, item.operation \in KeyOps, k = item.key
        PROVE  Settled(k)'
    <3>1. item.operation \in Queued[k] /\ Settled(k)
      BY <1>2, <2>5 DEF FollowsInv, Follows
    <3>2. Queued'[k] \subseteq Queued[k] /\ (keep => Queued'[k] = Queued[k])
      BY <2>1, <2>5, <3>1, FollowsParts
    <3>3. IsBusyType(TypeOf[k]) \/ (k \notin HandKeys("write") /\ k \notin HandKeys("delete"))
      BY FollowsParts, HandIsBusy DEF FollowsInv, Follows, NoReset
    <3>4. CASE item.operation = "write"
      <4>1. k \notin removed /\ ram[k] # Absent
        BY <3>1, <3>4 DEF Settled
      <4>2. k \in HandKeys("delete")' => Queued'[k] # {} /\ k \in HandKeys("delete")
        BY <2>3, <2>5, <3>1, <3>2, <3>3, <3>4, <4>1
      <4> QED BY <1>3, <3>1, <3>2, <4>1, <4>2 DEF Settled
    <3>5. CASE item.operation = "remove"
      <4>1. k \in removed /\ Queued[k] \subseteq {"remove"}
        BY <3>1, <3>5 DEF Settled
      <4>2. k \in HandKeys("write")' => Queued'[k] # {}
        BY <2>3, <2>5, <3>1, <3>2, <3>3, <3>5
      <4> QED BY <1>3, <3>1, <3>2, <4>1, <4>2 DEF Settled
    <3> QED BY <2>5, <3>4, <3>5 DEF KeyOps
  <2>6. \A j \in Keys : Settled(j)'
    BY <2>4, <2>5
  <2> QED BY <1>3, <2>1, <2>3, <2>6 DEF FollowsInv, Follows, NoReset, Early
<1> QED BY <1>4, <1>5, <1>6 DEF TickItem

\* handleStorageError(): what failed is queued again, unless something that was
\* asked for later waits already.
LEMMA HandleStorageErrorFollows ==
  ASSUME FollowsInv, NEW ev \in FdsEvent, HandleStorageError(ev),
         ev.op # "gc" => ev.key \in HandKeys(ev.op),
         UNCHANGED <<ram, removed>>,
         \A op \in {"write", "delete"} : HandKeys(op)' \subseteq HandKeys(op)
  PROVE  Plain' /\ Special' = Special /\ \A j \in Keys : Settled(j)'
<1>1. ~ stateResetting /\ Plain /\ RetryTicks \in Nat
  BY StateAssumption DEF FollowsInv, Follows, NoReset
<1>2. CASE ev.op = "gc"
  <2>1. UNCHANGED storeQueue
    BY <1>1, <1>2 DEF HandleStorageError
  <2> QED BY <1>1, <2>1, ViewUnchanged, SameRequests
<1>3. ASSUME NEW operation \in KeyOps, NEW k \in Keys, k = ev.key,
             ev.op = IF operation = "write" THEN "write" ELSE "delete",
             AddToQueue(operation, k, RetryTicks)
      PROVE  Plain' /\ Special' = Special /\ \A j \in Keys : Settled(j)'
  <2>1. /\ Queued' = [Queued EXCEPT ![k] = IF @ = {} THEN {operation} ELSE @]
        /\ Special' = Special /\ Plain'
    BY <1>1, <1>3, FollowsParts, AddToQueueView
  <2>2. k \in HandKeys(ev.op) /\ ev.op \in {"write", "delete"}
    BY <1>3
  <2>3. ASSUME NEW j \in Keys, j # k PROVE Settled(j)'
    <3>1. Settled(j)
      BY DEF FollowsInv, Follows
    <3>2. Queued'[j] = Queued[j]
      BY <2>1, <2>3, FollowsParts
    <3> QED BY <3>1, <3>2, SettledOther
  <2>4. Settled(k)'
    <3>1. Settled(k)
      BY DEF FollowsInv, Follows
    <3>2. Queued[k] # {} => Queued'[k] = Queued[k]
      BY <2>1, FollowsParts
    <3>3. Queued[k] = {} => Queued'[k] = {operation}
      BY <2>1, FollowsParts
    <3>4. CASE Queued[k] # {}
      BY <3>1, <3>2, <3>4, SettledOther
    <3>5. CASE Queued[k] = {}
      <4>1. IF operation = "write" THEN k \notin removed /\ ram[k] # Absent ELSE k \in removed
        BY <1>3, <2>2, <3>1, <3>5 DEF Settled
      <4>2. Queued'[k] = {operation}
        BY <3>3, <3>5
      <4>3. operation \in {"write", "remove"}
        BY DEF KeyOps
      <4> QED BY <3>1, <4>1, <4>2, <4>3 DEF Settled
    <3> QED BY <3>4, <3>5
  <2> QED BY <2>1, <2>3, <2>4
<1>4. CASE ev.op = "write"
  <2>1. AddToQueue("write", ev.key, RetryTicks) /\ ev.key \in Keys
    BY <1>1, <1>4, EventKey DEF HandleStorageError
  <2>2. "write" \in KeyOps
    BY DEF KeyOps
  <2> QED BY <1>3, <1>4, <2>1, <2>2
<1>5. CASE ev.op = "delete"
  <2>1. AddToQueue("remove", ev.key, RetryTicks) /\ ev.key \in Keys
    BY <1>1, <1>5, EventKey DEF HandleStorageError
  <2>2. "remove" \in KeyOps /\ "remove" # "write"
    BY DEF KeyOps
  <2> QED BY <1>3, <1>5, <2>1, <2>2
<1> QED BY <1>2, <1>4, <1>5, EventKey

LEMMA HandleEventFollows ==
  ASSUME FollowsInv, HandleEvent
  PROVE  Follows'
<1> DEFINE ev == Head(fdsEvents)
<1>1. /\ fdsEvents # << >> /\ fdsEvents' = Tail(fdsEvents)
      /\ UNCHANGED <<ram, removed, startedWritingToFlash>>
      /\ ~ storageResetting /\ ~ stateResetting /\ startedWritingToFlash
  BY DEF HandleEvent, HandleWriteEvent, HandleRemoveRecordEvent,
         HandleGarbageCollectionEvent, TakeEvent, FollowsInv, Follows, NoReset, Early
<1>2. UNCHANGED fdsQueue /\ ~ storageResetting' /\ ~ stateResetting'
  BY <1>1 DEF HandleEvent, HandleWriteEvent, HandleRemoveRecordEvent,
         HandleGarbageCollectionEvent, EventFailed, StateResettingAfterGc
<1>3. HandleStorageError(ev) \/ UNCHANGED storeQueue
  BY <1>1 DEF HandleEvent, HandleWriteEvent, HandleRemoveRecordEvent,
         HandleGarbageCollectionEvent, EventFailed
<1>4. ev \in FdsEvent
  BY <1>1, FollowsParts, HeadTailProperties DEF FlashTypeOK
<1>5. /\ \A op \in {"write", "delete"} : HandKeys(op)' \subseteq HandKeys(op)
      /\ ev.op # "gc" => ev.key \in HandKeys(ev.op)
  BY <1>1, <1>2, <1>4, EventKey, FollowsParts, TakeKeys
<1>6. Plain' /\ Special' = Special /\ \A j \in Keys : Settled(j)'
  <2> HIDE DEF ev
  <2>1. CASE HandleStorageError(ev)
    BY <1>1, <1>4, <1>5, <2>1, HandleStorageErrorFollows
  <2>2. CASE UNCHANGED storeQueue
    BY <1>1, <1>5, <2>2, ViewUnchanged, SameRequests DEF FollowsInv, Follows
  <2> QED BY <1>3, <2>1, <2>2
<1> QED BY <1>1, <1>2, <1>6 DEF FollowsInv, Follows, NoReset, Early

LEMMA FdsFollows ==
  ASSUME FollowsInv, Fds
  PROVE  Follows'
<1>1. /\ FdsStep /\ UNCHANGED <<ram, removed, storeQueue, startedWritingToFlash, stateResetting>>
      /\ UNCHANGED storageResetting
  BY DEF Fds, stateVars, FdsStep, busyVars
<1>2. startedWritingToFlash
  <2>1. fdsQueue # << >>
    BY <1>1, FollowsParts, FdsStepShape
  <2> QED BY <2>1 DEF FollowsInv, Follows, Early
<1>3. \A op \in {"write", "delete"} : HandKeys(op)' = HandKeys(op)
  BY <1>1, FollowsParts, FdsStepKeys
<1>4. Queued' = Queued /\ Special' = Special /\ Plain'
  BY <1>1, ViewUnchanged DEF FollowsInv, Follows
<1>5. \A j \in Keys : Settled(j)'
  BY <1>1, <1>3, <1>4, SameRequests
<1> QED BY <1>1, <1>2, <1>4, <1>5 DEF FollowsInv, Follows, NoReset, Early

LEMMA UnchangedFollows ==
  ASSUME FollowsInv, UNCHANGED <<ram, removed, storeQueue, stateResetting, storageVars>>,
         startedWritingToFlash' \/ UNCHANGED startedWritingToFlash
  PROVE  Follows'
<1>1. \A op : HandKeys(op)' = HandKeys(op)
  BY StorageUnchangedHand
<1>2. Queued' = Queued /\ Special' = Special /\ Plain'
  BY ViewUnchanged DEF FollowsInv, Follows
<1>3. \A j \in Keys : Settled(j)'
  BY <1>1, <1>2, SameRequests
<1> QED BY <1>2, <1>3 DEF FollowsInv, Follows, NoReset, Early, storageVars, busyVars

\* Nothing is left of the requests after a reset of the device.
LEMMA RebootFollows ==
  ASSUME Reboot
  PROVE  Follows'
<1>1. /\ fdsQueue' = << >> /\ fdsEvents' = << >> /\ storeQueue' = << >> /\ removed' = {}
      /\ stateResetting' = FALSE /\ storageResetting' = FALSE
  BY DEF Reboot, StorageBoot
<1>2. Queued' = [k \in Keys |-> {}] /\ Special' = {} /\ Plain'
  BY <1>1 DEF Queued, Waits, Special, Plain
<1>3. \A op : HandKeys(op)' = {}
  BY <1>1 DEF HandKeys, Ops, Evs, ToSet
<1>4. \A j \in Keys : Settled(j)'
  BY <1>1, <1>2, <1>3 DEF Settled
<1> QED BY <1>1, <1>2, <1>4 DEF Follows, NoReset, Early

LEMMA FollowsInit ==
  ASSUME Init
  PROVE  Follows
<1>1. /\ fdsQueue = << >> /\ fdsEvents = << >> /\ storeQueue = << >> /\ removed = {}
      /\ stateResetting = FALSE /\ storageResetting = FALSE
  BY DEF Init, StorageInit
<1>2. Queued = [k \in Keys |-> {}] /\ Special = {} /\ Plain
  BY <1>1 DEF Queued, Waits, Special, Plain
<1>3. \A op : HandKeys(op) = {}
  BY <1>1, NothingHand
<1>4. \A j \in Keys : Settled(j)
  BY <1>1, <1>2, <1>3 DEF Settled
<1> QED BY <1>1, <1>2, <1>4 DEF Follows, NoReset, Early

LEMMA FollowsNext ==
  ASSUME FollowsInv, Restrained, [Next]_vars
  PROVE  Follows'
<1>1. CASE AppSet
  BY <1>1, SetFollows, SetDelayedFollows, SetThrottledFollows, StateAssumption DEF AppSet
<1>2. CASE App /\ ~ AppSet
  <2>1. ~ FactoryReset
    BY DEF FactoryReset, Restrained
  <2> QED BY <1>2, <2>1, RemoveValueFollows, GetFollows, CleanUpFollows DEF App
<1>3. CASE StartWritesToFlash
  BY <1>3, UnchangedFollows DEF StartWritesToFlash
<1>4. CASE TickBegin
  BY <1>4, UnchangedFollows DEF TickBegin
<1>5. CASE TickItem
  BY <1>5, TickItemFollows
<1>6. CASE HandleEvent
  BY <1>6, HandleEventFollows
<1>7. CASE Fds
  BY <1>7, FdsFollows
<1>8. CASE Reboot
  BY <1>8, RebootFollows
<1>9. CASE UNCHANGED vars
  BY <1>9, UnchangedFollows DEF vars, stateVars
<1> QED BY <1>1, <1>2, <1>3, <1>4, <1>5, <1>6, <1>7, <1>8, <1>9 DEF Next, Tick

LEMMA FollowsInvariant ==
  ASSUME Restrained
  PROVE  Spec => []FollowsInv
<1>1. Init => FollowsInv
  BY InvInit, BusyInit, FollowsInit DEF FollowsInv
<1>2. FollowsInv /\ [Next]_vars => FollowsInv'
  BY InvNext, BusyNext, FollowsNext DEF FollowsInv
<1> QED BY <1>1, <1>2, PTL DEF Spec

\* What waits in the queue for a key is what was asked for last, whatever failed or
\* was busy meanwhile, as long as users set and remove a key one at a time.
THEOREM LastRequestWaits ==
  ASSUME Restrained
  PROVE  Spec => []QueueFollowsRequest
<1>1. FollowsInv => QueueFollowsRequest
  <2> SUFFICES ASSUME FollowsInv, NEW k \in Keys, NEW i \in ItemsOf(k)
               PROVE  storeQueue[i].operation = IF k \in removed THEN "remove" ELSE "write"
    BY DEF QueueFollowsRequest
  <2>1. Queued[k] = {storeQueue[i].operation}
    BY FollowsParts, QueuedItems
  <2> QED BY <2>1 DEF FollowsInv, Follows, Settled
<1> QED BY <1>1, FollowsInvariant, PTL

\* Before startWritesToFlash() nothing is busy.
LEMMA EarlyNotBusy ==
  ASSUME FollowsInv, ~ startedWritingToFlash, NEW k \in Keys
  PROVE  ~ IsBusyType(TypeOf[k])
<1>1. fdsQueue = << >> /\ fdsEvents = << >>
  BY DEF FollowsInv, Follows, Early
<1>2. ~ Blocked
  <2>1. NumInHand = 0
    BY <1>1, EmptySeq DEF NumInHand
  <2> QED BY <2>1, FollowsParts DEF BusyInv, Alone
<1>3. \A t \in Types : busyRecordKeys[t] = 0
  <2>1. ~ storageResetting
    BY <1>2 DEF Blocked
  <2> SUFFICES ASSUME NEW t \in Types PROVE InHand[t] = 0
    BY <2>1, FollowsParts DEF BusyInv, Counted
  <2>2. Where(fdsQueue, OpsOf(t)) = {} /\ Where(fdsEvents, EvsOf(t)) = {}
    BY <1>1 DEF Where
  <2>3. /\ Cardinality(Where(fdsQueue, OpsOf(t))) = 0
        /\ Cardinality(Where(fdsEvents, EvsOf(t))) = 0
    BY <2>2, FS_EmptySet
  <2> QED BY <2>3 DEF InHand
<1>4. TypeOf[k] \in Types
  BY StorageAssumption
<1> QED BY <1>2, <1>3, <1>4 DEF IsBusyType

\* Before startWritesToFlash() a read finds what is in flash: nothing is busy then.
THEOREM FirstReadFindsFlash ==
  ASSUME Restrained
  PROVE  Spec => FlashValueFirst
<1>1. FollowsInv /\ [Next]_vars =>
        [\A k \in Keys : Get(k) /\ HasValue(k) => ram'[k] = ReadValue(k)]_vars
  <2> SUFFICES ASSUME FollowsInv, NEW k \in Keys, Get(k), HasValue(k)
               PROVE  ram'[k] = ReadValue(k)
    OBVIOUS
  <2>1. ~ startedWritingToFlash
    BY DEF Get, MayReadFirst, Restrained
  <2>2. ReadSucceeds(k)
    BY <2>1, EarlyNotBusy DEF ReadSucceeds
  <2> QED BY <2>2, FollowsParts DEF Get
<1> QED BY <1>1, FollowsInvariant, PTL DEF Spec, FlashValueFirst

-----------------------------------------------------------------------------
(* The operations of a key, in the queue of FDS and failed.                *)
(* The lemmas below follow what the queues hold of one key: WritesOf and     *)
(* PositionsOf are what FDS still has to write and to delete of it, FailsOf *)
(* what failed and is about to be reported.                                *)

WritesOf(k) == {o \in Ops : o.op = "write" /\ o.key = k}
PositionsOf(k) == {p \in Nat : \E o \in Ops : o.op = "delete" /\ o.key = k /\ o.pos = p}
FailsOf(k) ==
  {op \in {"write", "delete"} : \E e \in Evs : e.op = op /\ e.key = k /\ ~ e.ok}

\* The deletes of a key go from the oldest record to the newest.
Ordered ==
  \A i, j \in DOMAIN fdsQueue :
    /\ i < j /\ fdsQueue[i].op = "delete" /\ fdsQueue[j].op = "delete"
    /\ fdsQueue[i].key = fdsQueue[j].key
    => fdsQueue[i].pos > fdsQueue[j].pos

LEMMA OpsSame ==
  ASSUME UNCHANGED fdsQueue
  PROVE  /\ \A k \in Keys : WritesOf(k)' = WritesOf(k) /\ PositionsOf(k)' = PositionsOf(k)
         /\ Ordered => Ordered'
BY DEF WritesOf, PositionsOf, Ordered, Ops

LEMMA EventsSame ==
  ASSUME UNCHANGED fdsEvents
  PROVE  \A k \in Keys : FailsOf(k)' = FailsOf(k)
BY DEF FailsOf, Evs

LEMMA OpsAppend ==
  ASSUME FlashTypeOK, NEW o \in FdsOp, Enqueue(o), o.op # "delete"
  PROVE  /\ \A k \in Keys : PositionsOf(k)' = PositionsOf(k)
         /\ \A k \in Keys : o.op # "write" \/ o.key # k => WritesOf(k)' = WritesOf(k)
         /\ \A k \in Keys : o.op = "write" /\ o.key = k => WritesOf(k)' = WritesOf(k) \cup {o}
         /\ Ordered => Ordered'
<1> DEFINE n == Len(fdsQueue)
<1>1. /\ fdsQueue \in Seq(FdsOp) /\ n \in Nat /\ DOMAIN fdsQueue = 1..n
      /\ fdsQueue' = Append(fdsQueue, o)
  BY LenProperties DEF FlashTypeOK, Enqueue
<1>2. Ops' = Ops \cup {o}
  BY <1>1, ElementsAppend DEF Ops
<1>3. /\ fdsQueue' \in Seq(FdsOp) /\ Len(fdsQueue') = n + 1
      /\ \A i \in 1..n : fdsQueue'[i] = fdsQueue[i]
      /\ fdsQueue'[n + 1] = o
  BY <1>1, AppendProperties
<1>4. DOMAIN fdsQueue' = 1..(n + 1)
  BY <1>3, LenProperties
<1> HIDE DEF n
<1>5. ASSUME Ordered, NEW i \in 1..(n + 1), NEW j \in 1..(n + 1), i < j,
             fdsQueue'[i].op = "delete", fdsQueue'[j].op = "delete",
             fdsQueue'[i].key = fdsQueue'[j].key
      PROVE  fdsQueue'[i].pos > fdsQueue'[j].pos
  <2>1. i # n + 1 /\ j # n + 1
    BY <1>3, <1>5
  <2>2. i \in 1..n /\ j \in 1..n
    BY <1>1, <2>1
  <2> QED BY <1>1, <1>3, <1>5, <2>2 DEF Ordered
<1>6. Ordered => Ordered'
  BY <1>4, <1>5 DEF Ordered
<1> QED BY <1>2, <1>6 DEF WritesOf, PositionsOf

LEMMA DeleteFields ==
  ASSUME NEW o, NEW k, NEW p, o = [op |-> "delete", key |-> k, pos |-> p]
  PROVE  o.op = "delete" /\ o.key = k /\ o.pos = p
OBVIOUS

LEMMA OpsDeletes ==
  ASSUME FlashTypeOK, NEW k \in Keys, NEW n \in Nat, n <= Len(flash[k]),
         PositionsOf(k) = {}, fdsQueue' = fdsQueue \o Deletes(k, n)
  PROVE  /\ \A j \in Keys : WritesOf(j)' = WritesOf(j)
         /\ \A j \in Keys : j # k => PositionsOf(j)' = PositionsOf(j)
         /\ PositionsOf(k)' = (Len(flash[k]) - n)..(Len(flash[k]) - 1)
         /\ Ordered => Ordered'
<1> DEFINE m == Len(fdsQueue)
           d == Deletes(k, n)
           q == fdsQueue \o d
<1>1. /\ fdsQueue \in Seq(FdsOp) /\ m \in Nat /\ DOMAIN fdsQueue = 1..m
      /\ Len(flash[k]) \in Nat
  BY LenProperties, LengthOfFlash DEF FlashTypeOK
<1>2. /\ d \in Seq(FdsOp) /\ Len(d) = n
      /\ \A i \in 1..n : d[i] = [op |-> "delete", key |-> k, pos |-> Len(flash[k]) - i]
  BY DeletesFact
<1> HIDE DEF d
<1>3. /\ q \in Seq(FdsOp) /\ Len(q) = m + n
      /\ \A i \in 1..(m + n) : q[i] = IF i <= m THEN fdsQueue[i] ELSE d[i - m]
  BY <1>1, <1>2, ConcatProperties
<1>4. fdsQueue' = q
  BY DEF d
<1> HIDE DEF q
<1>5. DOMAIN fdsQueue' = 1..(m + n)
  BY <1>3, <1>4, LenProperties
<1>6. Ops' = Ops \cup ToSet(d)
  BY <1>1, <1>2, <1>4, ElementsConcat DEF Ops, q
<1>7. ToSet(d) = {d[i] : i \in 1..n}
  BY <1>2, LenProperties DEF ToSet
<1>8. \A o \in ToSet(d) : o.op = "delete" /\ o.key = k
  BY <1>2, <1>7
<1>9. \A j \in Keys : WritesOf(j)' = WritesOf(j)
  BY <1>6, <1>8 DEF WritesOf
<1>10. \A j \in Keys : j # k => PositionsOf(j)' = PositionsOf(j)
  BY <1>6, <1>8 DEF PositionsOf
<1>11. PositionsOf(k)' = (Len(flash[k]) - n)..(Len(flash[k]) - 1)
  <2> DEFINE len == Len(flash[k])
  <2>1. \A p \in Nat : (\E o \in ToSet(d) : o.op = "delete" /\ o.key = k /\ o.pos = p)
                         <=> \E i \in 1..n : p = len - i
    <3>1. \A i \in 1..n : d[i].op = "delete" /\ d[i].key = k /\ d[i].pos = len - i
      <4> SUFFICES ASSUME NEW i \in 1..n
                   PROVE  d[i].op = "delete" /\ d[i].key = k /\ d[i].pos = len - i
        OBVIOUS
      <4>1. d[i] = [op |-> "delete", key |-> k, pos |-> len - i]
        BY <1>2
      <4> QED BY <4>1, DeleteFields
    <3>2. ASSUME NEW p \in Nat
          PROVE  (\E o \in ToSet(d) : o.op = "delete" /\ o.key = k /\ o.pos = p)
                   <=> \E i \in 1..n : p = len - i
      <4>1. ASSUME NEW o \in ToSet(d), o.pos = p PROVE \E i \in 1..n : p = len - i
        <5>1. PICK i \in 1..n : o = d[i]
          BY <1>7
        <5> QED BY <3>1, <4>1, <5>1
      <4>2. ASSUME NEW i \in 1..n, p = len - i
            PROVE  \E o \in ToSet(d) : o.op = "delete" /\ o.key = k /\ o.pos = p
        <5>1. d[i] \in ToSet(d)
          BY <1>7
        <5> QED BY <3>1, <4>2, <5>1
      <4> QED BY <4>1, <4>2
    <3> QED BY <3>2
  <2>2. len \in Nat /\ n <= len
    BY <1>1
  <2> HIDE DEF len
  <2>3. \A p \in Nat : (\E i \in 1..n : p = len - i) <=> p \in (len - n)..(len - 1)
    <3>1. ASSUME NEW p \in Nat, p \in (len - n)..(len - 1)
          PROVE  len - p \in 1..n /\ p = len - (len - p)
      BY <2>2, <3>1
    <3>2. \A p \in Nat, i \in 1..n : p = len - i => p \in (len - n)..(len - 1)
      BY <2>2
    <3> QED BY <3>1, <3>2
  <2>4. \A p \in Nat : ~ \E o \in Ops : o.op = "delete" /\ o.key = k /\ o.pos = p
    BY DEF PositionsOf
  <2>5. \A p \in Nat : p \in PositionsOf(k)' <=> p \in (len - n)..(len - 1)
    BY <1>6, <2>1, <2>3, <2>4 DEF PositionsOf
  <2>6. PositionsOf(k)' \subseteq Nat /\ (len - n)..(len - 1) \subseteq Nat
    BY <2>2 DEF PositionsOf
  <2> QED BY <2>5, <2>6 DEF len
<1>12. \A i \in 1..m : ~ (fdsQueue[i].op = "delete" /\ fdsQueue[i].key = k)
  <2> SUFFICES ASSUME NEW i \in 1..m, fdsQueue[i].op = "delete", fdsQueue[i].key = k
               PROVE  FALSE
    OBVIOUS
  <2>1. fdsQueue[i] \in Ops /\ fdsQueue[i] \in FdsOp
    BY <1>1, ElementOfSeq DEF Ops, ToSet
  <2>2. fdsQueue[i].pos \in Nat
    BY <2>1, OpKinds DEF FdsDelete
  <2> QED BY <2>1, <2>2 DEF PositionsOf
<1> HIDE DEF m
<1>13. ASSUME Ordered, NEW i \in 1..(m + n), NEW j \in 1..(m + n), i < j,
              fdsQueue'[i].op = "delete", fdsQueue'[j].op = "delete",
              fdsQueue'[i].key = fdsQueue'[j].key
       PROVE  fdsQueue'[i].pos > fdsQueue'[j].pos
  <2>1. CASE i <= m /\ j <= m
    <3>1. i \in 1..m /\ j \in 1..m /\ fdsQueue'[i] = fdsQueue[i] /\ fdsQueue'[j] = fdsQueue[j]
      BY <1>1, <1>3, <1>4, <2>1
    <3> QED BY <1>1, <1>13, <3>1 DEF Ordered
  <2>2. CASE i <= m /\ ~ (j <= m)
    <3>1. i \in 1..m /\ j - m \in 1..n
      BY <1>1, <2>2
    <3>2. fdsQueue'[i] = fdsQueue[i] /\ fdsQueue'[j] = d[j - m]
      BY <1>3, <1>4, <2>2
    <3> QED BY <1>2, <1>12, <1>13, <3>1, <3>2
  <2>3. CASE ~ (i <= m) /\ ~ (j <= m)
    <3>1. i - m \in 1..n /\ j - m \in 1..n /\ i - m < j - m
      BY <1>1, <1>13, <2>3
    <3>2. fdsQueue'[i] = d[i - m] /\ fdsQueue'[j] = d[j - m]
      BY <1>3, <1>4, <2>3
    <3>3. fdsQueue'[i].pos = Len(flash[k]) - (i - m) /\ fdsQueue'[j].pos = Len(flash[k]) - (j - m)
      BY <1>2, <3>1, <3>2
    <3> QED BY <1>1, <3>1, <3>3
  <2>4. i \in Nat /\ j \in Nat /\ (j <= m => i <= m)
    BY <1>1, <1>13
  <2> QED BY <2>1, <2>2, <2>3, <2>4
<1>14. Ordered => Ordered'
  BY <1>5, <1>13 DEF Ordered
<1> QED BY <1>9, <1>10, <1>11, <1>14

LEMMA OpsTail ==
  ASSUME FlashTypeOK, fdsQueue # << >>, fdsQueue' = Tail(fdsQueue)
  PROVE  LET op == Head(fdsQueue) IN
         /\ \A k \in Keys : /\ WritesOf(k)' \subseteq WritesOf(k)
                            /\ PositionsOf(k)' \subseteq PositionsOf(k)
                            /\ op.op # "write" \/ op.key # k => WritesOf(k)' = WritesOf(k)
                            /\ op.op # "delete" \/ op.key # k => PositionsOf(k)' = PositionsOf(k)
         /\ Ordered => Ordered'
         /\ \A k \in Keys : op.op = "delete" /\ op.key = k =>
              /\ PositionsOf(k) \subseteq PositionsOf(k)' \cup {op.pos}
              /\ Ordered => \A p \in PositionsOf(k)' : op.pos > p
<1> DEFINE op == Head(fdsQueue)
           n == Len(fdsQueue)
<1>1. /\ fdsQueue \in Seq(FdsOp) /\ n \in Nat \ {0} /\ DOMAIN fdsQueue = 1..n
      /\ Ops = Ops' \cup {op} /\ op = fdsQueue[1] /\ op \in FdsOp
  BY LenProperties, EmptySeq, ElementsTail DEF FlashTypeOK, Ops
<1>2. /\ fdsQueue' \in Seq(FdsOp) /\ Len(fdsQueue') = n - 1
      /\ \A i \in 1..(n - 1) : fdsQueue'[i] = fdsQueue[i + 1]
  BY <1>1, HeadTailProperties
<1>3. DOMAIN fdsQueue' = 1..(n - 1)
  BY <1>2, LenProperties
<1> HIDE DEF op, n
<1>4. \A k \in Keys : /\ WritesOf(k)' \subseteq WritesOf(k)
                      /\ PositionsOf(k)' \subseteq PositionsOf(k)
                      /\ op.op # "write" \/ op.key # k => WritesOf(k)' = WritesOf(k)
                      /\ op.op # "delete" \/ op.key # k => PositionsOf(k)' = PositionsOf(k)
  BY <1>1 DEF WritesOf, PositionsOf
<1>5. Ordered => Ordered'
  <2> SUFFICES ASSUME Ordered, NEW i \in 1..(n - 1), NEW j \in 1..(n - 1), i < j,
                      fdsQueue'[i].op = "delete", fdsQueue'[j].op = "delete",
                      fdsQueue'[i].key = fdsQueue'[j].key
               PROVE  fdsQueue'[i].pos > fdsQueue'[j].pos
    BY <1>3 DEF Ordered
  <2>1. i + 1 \in 1..n /\ j + 1 \in 1..n /\ i + 1 < j + 1
    BY <1>1
  <2> QED BY <1>1, <1>2, <2>1 DEF Ordered
<1>6. ASSUME NEW k \in Keys, op.op = "delete", op.key = k
      PROVE  PositionsOf(k) \subseteq PositionsOf(k)' \cup {op.pos}
  BY <1>1, <1>6 DEF PositionsOf
<1>7. ASSUME NEW k \in Keys, op.op = "delete", op.key = k, Ordered, NEW p \in PositionsOf(k)'
      PROVE  op.pos > p
  <2>1. PICK o \in Ops' : o.op = "delete" /\ o.key = k /\ o.pos = p
    BY <1>7 DEF PositionsOf
  <2>2. PICK i \in 1..(n - 1) : o = fdsQueue'[i]
    BY <1>3, <2>1 DEF Ops, ToSet
  <2>3. i + 1 \in 1..n /\ 1 \in 1..n /\ 1 < i + 1 /\ o = fdsQueue[i + 1]
    BY <1>1, <1>2, <2>2
  <2> QED BY <1>1, <1>7, <2>1, <2>3 DEF Ordered
<1> QED BY <1>4, <1>5, <1>6, <1>7 DEF op

\* Operations that keep their place, kind, key and position.
LEMMA OrderedSame ==
  ASSUME FlashTypeOK, fdsQueue' \in Seq(FdsOp), Len(fdsQueue') = Len(fdsQueue),
         \A i \in 1..Len(fdsQueue) :
           IF fdsQueue[i].op = "delete" THEN fdsQueue'[i] = fdsQueue[i]
           ELSE fdsQueue'[i].op = fdsQueue[i].op
  PROVE  /\ \A k \in Keys : PositionsOf(k)' = PositionsOf(k)
         /\ Ordered => Ordered'
<1>1. DOMAIN fdsQueue = 1..Len(fdsQueue) /\ DOMAIN fdsQueue' = 1..Len(fdsQueue)
  BY LenProperties DEF FlashTypeOK
<1>2. \A o : o.op = "delete" => (o \in Ops' <=> o \in Ops)
  BY <1>1 DEF Ops, ToSet
<1> QED BY <1>1, <1>2 DEF PositionsOf, Ordered

LEMMA OpsMark ==
  ASSUME FlashTypeOK, fdsQueue # << >>, Head(fdsQueue).op = "write",
         fdsQueue' = [fdsQueue EXCEPT ![1].written = TRUE]
  PROVE  LET op == Head(fdsQueue) IN
         /\ \A k \in Keys : PositionsOf(k)' = PositionsOf(k)
         /\ \A k \in Keys :
              IF k # op.key THEN WritesOf(k)' = WritesOf(k)
              ELSE \A o \in WritesOf(k)' :
                     o \in WritesOf(k) \/ (o.written /\ o.freed = op.freed)
         /\ Ordered => Ordered'
<1> DEFINE op == Head(fdsQueue)
           e == [op EXCEPT !.written = TRUE]
           n == Len(fdsQueue)
<1>1. /\ fdsQueue \in Seq(FdsOp) /\ n \in Nat \ {0} /\ DOMAIN fdsQueue = 1..n
      /\ op = fdsQueue[1] /\ op \in FdsWrite
  BY LenProperties, EmptySeq, ElementsTail, OpKinds DEF FlashTypeOK
<1>2. /\ e \in FdsOp /\ e.op = "write" /\ e.key = op.key /\ e.freed = op.freed
      /\ e.written = TRUE
  BY <1>1 DEF FdsWrite, FdsOp
<1>3. fdsQueue' = [fdsQueue EXCEPT ![1] = e]
  BY <1>1
<1> HIDE DEF e, n
<1>4. /\ fdsQueue' \in Seq(FdsOp) /\ Len(fdsQueue') = n
      /\ \A i \in 1..n : fdsQueue'[i] = IF i = 1 THEN e ELSE fdsQueue[i]
  <2>1. 1 \in 1..Len(fdsQueue)
    BY <1>1 DEF n
  <2>2. fdsQueue \in Seq(FdsOp) /\ e \in FdsOp
    BY <1>1, <1>2
  <2>3. LET q == [fdsQueue EXCEPT ![1] = e] IN
        /\ q \in Seq(FdsOp) /\ Len(q) = Len(fdsQueue)
        /\ \A i \in 1..Len(fdsQueue) : q[i] = IF i = 1 THEN e ELSE fdsQueue[i]
    BY <2>1, <2>2, ExceptSeq
  <2> QED BY <1>3, <2>3 DEF n
<1>5. DOMAIN fdsQueue' = 1..n
  BY <1>4, LenProperties
<1>6. /\ \A k \in Keys : PositionsOf(k)' = PositionsOf(k)
      /\ Ordered => Ordered'
  <2>1. \A i \in 1..n : IF fdsQueue[i].op = "delete" THEN fdsQueue'[i] = fdsQueue[i]
                        ELSE fdsQueue'[i].op = fdsQueue[i].op
    BY <1>1, <1>2, <1>4
  <2> QED BY <1>4, <2>1, OrderedSame DEF n
<1> HIDE DEF op
<1>7. /\ \A o \in Ops' : o \in Ops \/ o = e
      /\ \A o \in Ops : o \in Ops' \/ o = op
  BY <1>1, <1>4, <1>5 DEF Ops, ToSet
<1>8. \A k \in Keys : k # op.key => WritesOf(k)' = WritesOf(k)
  BY <1>2, <1>7 DEF WritesOf
<1>9. \A k \in Keys : k = op.key =>
        \A o \in WritesOf(k)' : o \in WritesOf(k) \/ (o.written /\ o.freed = op.freed)
  BY <1>2, <1>7 DEF WritesOf
<1> QED BY <1>6, <1>8, <1>9 DEF op

LEMMA OpsFree ==
  ASSUME FlashTypeOK, NEW k \in Keys, fdsQueue' = FreeBuffer(k)
  PROVE  /\ \A j \in Keys : PositionsOf(j)' = PositionsOf(j)
         /\ \A j \in Keys : j # k => WritesOf(j)' = WritesOf(j)
         /\ Ordered => Ordered'
<1> DEFINE n == Len(fdsQueue)
<1>1. /\ fdsQueue' \in Seq(FdsOp) /\ Len(fdsQueue') = n /\ DOMAIN fdsQueue = 1..n
      /\ \A i \in 1..n : fdsQueue[i] \in FdsOp
  BY FreeBufferType, LenProperties, ElementOfSeq DEF FlashTypeOK
<1>2. \A i \in 1..n :
        IF fdsQueue[i].op = "write" /\ fdsQueue[i].key = k
          THEN fdsQueue'[i].op = "write" /\ fdsQueue'[i].key = k
          ELSE fdsQueue'[i] = fdsQueue[i]
  <2> SUFFICES ASSUME NEW i \in 1..n, fdsQueue[i].op = "write", fdsQueue[i].key = k
               PROVE  fdsQueue'[i].op = "write" /\ fdsQueue'[i].key = k
    BY <1>1 DEF FreeBuffer
  <2>1. fdsQueue[i] \in FdsWrite
    BY <1>1, OpKinds
  <2> QED BY <1>1, <2>1 DEF FreeBuffer, FdsWrite
<1>3. DOMAIN fdsQueue' = 1..n
  BY <1>1, LenProperties
<1> HIDE DEF n
<1>4. \A o : ~ (o.op = "write" /\ o.key = k) => (o \in Ops' <=> o \in Ops)
  BY <1>1, <1>2, <1>3 DEF Ops, ToSet
<1>5. \A j \in Keys : j # k => WritesOf(j)' = WritesOf(j)
  BY <1>4 DEF WritesOf
<1>6. /\ \A j \in Keys : PositionsOf(j)' = PositionsOf(j)
      /\ Ordered => Ordered'
  <2>1. \A i \in 1..n : IF fdsQueue[i].op = "delete" THEN fdsQueue'[i] = fdsQueue[i]
                        ELSE fdsQueue'[i].op = fdsQueue[i].op
    BY <1>2
  <2> QED BY <1>1, <2>1, OrderedSame DEF n
<1> QED BY <1>5, <1>6

\* Failures that are posted, and handled.
LEMMA EventsPost ==
  ASSUME FlashTypeOK, NEW ev \in FdsEvent, Post(ev)
  PROVE  /\ \A k \in Keys : FailsOf(k) \subseteq FailsOf(k)'
         /\ ~ ev.ok /\ ev.op # "gc" => ev.op \in FailsOf(ev.key)'
<1>1. Evs' = Evs \cup {ev}
  BY ElementsAppend DEF FlashTypeOK, Post, Evs
<1> QED BY <1>1, EventKey DEF FailsOf

LEMMA EventsTake ==
  ASSUME FlashTypeOK, fdsEvents # << >>, fdsEvents' = Tail(fdsEvents)
  PROVE  LET ev == Head(fdsEvents) IN
         \A k \in Keys : FailsOf(k) \subseteq FailsOf(k)' \/ (~ ev.ok /\ ev.op # "gc" /\ ev.key = k)
<1>1. Evs = Evs' \cup {Head(fdsEvents)} /\ Head(fdsEvents) \in FdsEvent
  BY ElementsTail DEF FlashTypeOK, Evs
<1> QED BY <1>1 DEF FailsOf

-----------------------------------------------------------------------------
(* What is read is the last record, when that one passes its check.        *)

LastRecord(s) == s[Len(s)]

LEMMA LastIsRead ==
  ASSUME NEW s \in Seq(Record), s # << >>, LastRecord(s) \in Value
  PROVE  Readable(s) # {} /\ LastReadable(s) = LastRecord(s)
<1> DEFINE n == Len(s)
<1>1. n \in Nat \ {0}
  BY LenProperties, EmptySeq
<1>2. n \in Readable(s) /\ \A j \in Readable(s) : j \in Nat /\ j <= n
  BY <1>1, StorageAssumption DEF Readable, LastRecord
<1>3. \A i \in Readable(s) : (\A j \in Readable(s) : j <= i) => i = n
  BY <1>1, <1>2
<1> DEFINE last == CHOOSE i \in Readable(s) : \A j \in Readable(s) : j <= i
<1>4. last = n
  <2> HIDE DEF n
  <2> QED BY <1>2, <1>3
<1> QED BY <1>2, <1>4 DEF LastReadable, LastRecord

LEMMA LastAppended ==
  ASSUME NEW s \in Seq(Record), NEW e \in Value
  PROVE  /\ Append(s, e) \in Seq(Record) /\ Append(s, e) # << >>
         /\ LastRecord(Append(s, e)) = e
<1>1. e \in Record
  BY DEF Record
<1>2. Len(s) \in Nat
  BY LenProperties
<1>3. /\ Append(s, e) \in Seq(Record) /\ Len(Append(s, e)) = Len(s) + 1
      /\ Append(s, e)[Len(s) + 1] = e
  BY <1>1, AppendProperties
<1>4. Append(s, e) # << >>
  BY <1>2, <1>3, EmptySeq
<1> QED BY <1>3, <1>4 DEF LastRecord

\* Deleting the record before the last one keeps the last one.
LEMMA LastStays ==
  ASSUME NEW s \in Seq(Record), s # << >>
  PROVE  /\ DeleteRecord(s, 1) \in Seq(Record) /\ DeleteRecord(s, 1) # << >>
         /\ LastRecord(DeleteRecord(s, 1)) = LastRecord(s)
<1> DEFINE n == Len(s)
           t == DeleteRecord(s, 1)
<1>1. n \in Nat \ {0}
  BY LenProperties, EmptySeq
<1>2. CASE ~ (1 < n)
  BY <1>2 DEF DeleteRecord
<1>3. CASE 1 < n
  <2>1. t = RemoveAt(s, n - 1) /\ n - 1 \in 1..Len(s)
    BY <1>1, <1>3 DEF DeleteRecord
  <2>2. /\ t \in Seq(Record) /\ Len(t) = n - 1
        /\ \A j \in 1..(n - 1) : t[j] = IF j < n - 1 THEN s[j] ELSE s[j + 1]
    <3> HIDE DEF t
    <3> QED BY <2>1, RemoveAtFact
  <2> HIDE DEF t, n
  <2>3. t[n - 1] = s[n]
    BY <1>1, <1>3, <2>2
  <2>4. t # << >>
    BY <1>1, <1>3, <2>2, EmptySeq
  <2> QED BY <2>2, <2>3, <2>4 DEF LastRecord, t, n
<1> QED BY <1>2, <1>3

\* Deleting the first record, counted from the last, leaves the others.
LEMMA FirstDeleted ==
  ASSUME NEW s \in Seq(Record), NEW pos \in Nat
  PROVE  /\ DeleteRecord(s, pos) \in Seq(Record)
         /\ s = << >> => DeleteRecord(s, pos) = << >>
         /\ Len(DeleteRecord(s, pos)) = IF pos < Len(s) THEN Len(s) - 1 ELSE Len(s)
<1>1. Len(s) \in Nat
  BY LenProperties
<1>2. CASE pos < Len(s)
  <2>1. Len(s) - pos \in 1..Len(s) /\ s # << >>
    BY <1>1, <1>2
  <2> QED BY <1>2, <2>1, RemoveAtFact DEF DeleteRecord
<1>3. CASE ~ (pos < Len(s))
  BY <1>3 DEF DeleteRecord
<1> QED BY <1>2, <1>3

-----------------------------------------------------------------------------
(* The inductive invariant: nothing that was asked for is lost.            *)

\* A throttled write that finds Storage busy is not tried again, nor is a write
\* that finds the pages full while another type is busy.
Retried ==
  /\ ThrottledKeys = {}
  /\ "full" \in Env => \E t \in Types : Types = {t}

\* A value that flash does not have yet.
Kept(k) ==
  ram[k] \notin {Absent, FlashValue(k)} =>
    \/ "write" \in Queued[k]
    \/ \E o \in WritesOf(k) : ~ o.written /\ ~ o.freed /\ o.crc = ram[k]
    \/ "write" \in FailsOf(k)

\* A removed key of which flash still has records.
Leaves(k) ==
  k \in removed /\ flash[k] # << >> =>
    \/ "remove" \in Queued[k]
    \/ 0..(Len(flash[k]) - 1) \subseteq PositionsOf(k)
    \/ "delete" \in FailsOf(k)

\* What FDS writes is the value in RAM, unless a later request waits.
Carries(k) ==
  \A o \in WritesOf(k) :
    /\ o.freed => k \in removed
    /\ ram[k] # Absent /\ Queued[k] = {} =>
         IF o.written THEN flash[k] # << >> /\ LastRecord(flash[k]) = ram[k]
                      ELSE o.crc = ram[k]

Sound(k) == Kept(k) /\ Leaves(k) /\ Carries(k)

KeptInv ==
  /\ FollowsInv
  /\ Ordered
  /\ flashFull => "full" \in Env
  /\ \A k \in Keys : Sound(k)

LEMMA SoundOther ==
  ASSUME NEW k \in Keys, Sound(k), ram'[k] = ram[k], flash'[k] = flash[k],
         k \in removed' <=> k \in removed,
         WritesOf(k)' = WritesOf(k), PositionsOf(k) \subseteq PositionsOf(k)',
         Queued[k] \subseteq Queued'[k], FailsOf(k) \subseteq FailsOf(k)'
  PROVE  Sound(k)'
<1>1. FlashValue(k)' = FlashValue(k)
  BY DEF FlashValue, HasValue, ReadValue
<1>2. Kept(k)'
  BY <1>1 DEF Sound, Kept
<1>3. Leaves(k)'
  BY DEF Sound, Leaves
<1>4. Carries(k)'
  BY DEF Sound, Carries
<1> QED BY <1>2, <1>3, <1>4 DEF Sound

\* Whatever is to happen to the key waits in the queue.
LEMMA SoundWaiting ==
  ASSUME NEW k \in Keys, Settled(k)', Queued'[k] # {},
         \A o \in WritesOf(k)' : o.freed => k \in removed'
  PROVE  Sound(k)'
<1>1. IF k \in removed' THEN "remove" \in Queued'[k] /\ ram'[k] = Absent
                        ELSE "write" \in Queued'[k]
  BY DEF Settled
<1> QED BY <1>1 DEF Sound, Kept, Leaves, Carries

\* FDS has just accepted the write of the value in RAM.
LEMMA SoundWriting ==
  ASSUME NEW k \in Keys, k \notin removed', NEW o, WritesOf(k)' = {o},
         o.crc = ram'[k], ~ o.freed, ~ o.written
  PROVE  Sound(k)'
BY DEF Sound, Kept, Leaves, Carries

\* FDS has just accepted a delete for every record.
LEMMA SoundDeleting ==
  ASSUME NEW k \in Keys, k \in removed', ram'[k] = Absent,
         0..(Len(flash'[k]) - 1) \subseteq PositionsOf(k)'
  PROVE  Sound(k)'
BY DEF Sound, Kept, Leaves, Carries

\* A key that nothing is in hand of.
LEMMA NothingOfKey ==
  ASSUME FollowsInv, NEW k \in Keys, ~ IsBusyType(TypeOf[k])
  PROVE  WritesOf(k) = {} /\ PositionsOf(k) = {} /\ FailsOf(k) = {}
<1>1. k \notin HandKeys("write") /\ k \notin HandKeys("delete")
  BY FollowsParts, HandIsBusy DEF FollowsInv, Follows, NoReset
<1> QED BY <1>1 DEF HandKeys, WritesOf, PositionsOf, FailsOf

LEMMA HandOfKey ==
  ASSUME NEW k \in Keys
  PROVE  /\ WritesOf(k) # {} => k \in HandKeys("write")
         /\ PositionsOf(k) # {} => k \in HandKeys("delete")
BY DEF HandKeys, WritesOf, PositionsOf

\* The write of a key that is to be set was never freed.
LEMMA NotFreed ==
  ASSUME KeptInv, NEW k \in Keys, "remove" \notin Queued[k], NEW o \in WritesOf(k)
  PROVE  ~ o.freed
<1>1. Settled(k) /\ Sound(k)
  BY DEF KeptInv, FollowsInv, Follows
<1>2. k \in HandKeys("write")
  BY HandOfKey
<1> QED BY <1>1, <1>2 DEF Settled, Sound, Carries

-----------------------------------------------------------------------------
(* Calls to Storage.                                                       *)

\* A call that makes no change to what is in hand of a key.
SameHand(k) ==
  /\ WritesOf(k)' = WritesOf(k) /\ PositionsOf(k)' = PositionsOf(k)
  /\ FailsOf(k)' = FailsOf(k)

LEMMA StorageUnchangedOps ==
  ASSUME UNCHANGED storageVars
  PROVE  /\ \A k \in Keys : SameHand(k)
         /\ Ordered => Ordered'
         /\ UNCHANGED <<flash, flashFull>>
BY OpsSame, EventsSame DEF SameHand, storageVars

LEMMA GarbageCollectOps ==
  ASSUME FlashTypeOK, NEW ret, GarbageCollect(ret)
  PROVE  /\ \A k \in Keys : SameHand(k)
         /\ Ordered => Ordered'
         /\ UNCHANGED <<flash, flashFull>>
<1>1. CASE UNCHANGED storageVars
  BY <1>1, StorageUnchangedOps
<1>2. CASE Enqueue([op |-> "gc"]) /\ UNCHANGED <<flash, flashFull, fdsEvents>>
  <2> DEFINE o == [op |-> "gc"]
  <2>1. o \in FdsOp /\ o.op = "gc" /\ Enqueue(o)
    BY <1>2, GcOp
  <2> HIDE DEF o
  <2> QED BY <1>2, <2>1, OpsAppend, EventsSame DEF SameHand
<1> QED BY <1>1, <1>2 DEF GarbageCollect

\* With one type, a write that finds the pages full is not refused for something
\* else that is busy.
LEMMA CollectionStarts ==
  ASSUME FollowsInv, Retried, "full" \in Env, NEW k \in Keys, ~ IsBusyType(TypeOf[k]),
         NEW ret, GarbageCollect(ret)
  PROVE  ret = "SUCCESS"
<1>1. \A t \in Types : t = TypeOf[k]
  BY StorageAssumption DEF Retried
<1>2. ~ IsBusy
  BY <1>1 DEF IsBusy, IsBusyType
<1>3. fdsQueue = << >>
  BY <1>2, FollowsParts, NothingInHand
<1>4. ~ FdsQueueFull
  BY <1>3, EmptySeq, StorageAssumption DEF FdsQueueFull
<1> QED BY <1>2, <1>4 DEF GarbageCollect

\* A write that is accepted is alone of its key in the queue of FDS.
WriteOf(k) ==
  /\ WritesOf(k) = {} /\ PositionsOf(k) = {} /\ PositionsOf(k)' = {}
  /\ \E o \in FdsOp : WritesOf(k)' = {o} /\ o.crc = ram'[k] /\ ~ o.freed /\ ~ o.written

LEMMA StoreInFlashHand ==
  ASSUME FollowsInv, Ordered, NEW k \in Keys, ram'[k] \in Value, NEW ret, StoreInFlash(k, ret)
  PROVE  /\ \A j \in Keys : j # k => SameHand(j)
         /\ Ordered' /\ UNCHANGED flash
         /\ \/ SameHand(k) /\ ret \in {"BUSY", "UNSPECIFIED"}
            \/ ret = "SUCCESS" /\ WriteOf(k)
         /\ (flashFull => "full" \in Env) =>
              (flashFull' => "full" \in Env) /\ (Retried => ret # "UNSPECIFIED")
<1>1. FlashTypeOK /\ ~ stateResetting
  BY FollowsParts DEF FollowsInv, Follows, NoReset
<1>2. CASE ret = "BUSY" /\ UNCHANGED storageVars
  BY <1>1, <1>2, StorageUnchangedOps
<1>3. CASE /\ ~ IsBusyType(TypeOf[k]) /\ flashFull
           /\ \E gcRet \in {"BUSY", "SUCCESS"} :
                GarbageCollect(gcRet) /\ ret = WriteResultWhenFull(gcRet)
  <2>1. PICK gcRet : GarbageCollect(gcRet) /\ ret = WriteResultWhenFull(gcRet)
    BY <1>3
  <2>2. ret = IF gcRet = "SUCCESS" THEN "BUSY" ELSE "UNSPECIFIED"
    BY <2>1 DEF WriteResultWhenFull
  <2>3. ASSUME "full" \in Env, Retried PROVE gcRet = "SUCCESS"
    <3>1. ~ IsBusyType(TypeOf[k]) /\ GarbageCollect(gcRet)
      BY <1>3, <2>1
    <3> QED BY <2>3, <3>1, CollectionStarts
  <2>4. /\ \A j \in Keys : SameHand(j)
        /\ Ordered' /\ UNCHANGED <<flash, flashFull>>
    BY <1>1, <2>1, GarbageCollectOps
  <2> QED BY <1>3, <2>2, <2>3, <2>4
<1>4. CASE /\ ~ IsBusyType(TypeOf[k]) /\ ret = "SUCCESS"
           /\ Enqueue([op |-> "write", key |-> k, crc |-> ram'[k], freed |-> FALSE,
                       update |-> flash[k] # << >>, written |-> FALSE])
           /\ flashFull' \in {FALSE, "full" \in Env}
           /\ UNCHANGED <<flash, fdsEvents>>
  <2> DEFINE o == [op |-> "write", key |-> k, crc |-> ram'[k], freed |-> FALSE,
                   update |-> flash[k] # << >>, written |-> FALSE]
  <2>1. /\ o \in FdsOp /\ o.op = "write" /\ o.key = k /\ o.crc = ram'[k]
        /\ ~ o.freed /\ ~ o.written /\ Enqueue(o)
    <3>1. (flash[k] # << >>) \in BOOLEAN
      OBVIOUS
    <3> QED BY <1>4, <3>1 DEF FdsOp, FdsWrite
  <2> HIDE DEF o
  <2>2. WritesOf(k) = {} /\ PositionsOf(k) = {}
    BY <1>4, NothingOfKey
  <2>3. \A j \in Keys : FailsOf(j)' = FailsOf(j)
    BY <1>4, EventsSame
  <2>4. /\ \A j \in Keys : PositionsOf(j)' = PositionsOf(j)
        /\ \A j \in Keys : j # k => WritesOf(j)' = WritesOf(j)
        /\ WritesOf(k)' = WritesOf(k) \cup {o} /\ Ordered'
    BY <1>1, <2>1, OpsAppend
  <2>5. \A j \in Keys : j # k => SameHand(j)
    BY <2>3, <2>4 DEF SameHand
  <2>6. WriteOf(k)
    BY <2>1, <2>2, <2>4 DEF WriteOf
  <2> QED BY <1>4, <2>4, <2>5, <2>6
<1>5. CASE startedWritingToFlash /\ StorageWrite(k, ret)
  BY <1>2, <1>3, <1>4, <1>5 DEF StorageWrite
<1> QED BY <1>1, <1>2, <1>5 DEF StoreInFlash

LEMMA StoreInFlashOps ==
  ASSUME KeptInv, Retried, NEW k \in Keys, ram'[k] \in Value, NEW ret, StoreInFlash(k, ret)
  PROVE  /\ \A j \in Keys : j # k => SameHand(j)
         /\ Ordered' /\ UNCHANGED flash /\ (flashFull' => "full" \in Env)
         /\ \/ ret = "BUSY" /\ SameHand(k)
            \/ /\ ret = "SUCCESS"
               /\ \E o \in FdsOp : /\ WritesOf(k)' = {o} /\ o.crc = ram'[k]
                                   /\ ~ o.freed /\ ~ o.written
BY StoreInFlashHand DEF KeptInv, WriteOf

\* A removal starts with nothing of its key at FDS, and asks for the oldest
\* records to be deleted, all of them when it succeeds.
DeletesOf(k) ==
  /\ WritesOf(k) = {} /\ PositionsOf(k) = {}
  /\ \E n \in 0..Len(flash[k]) :
       PositionsOf(k)' = (Len(flash[k]) - n)..(Len(flash[k]) - 1)

LEMMA RemoveFromFlashHand ==
  ASSUME FollowsInv, Ordered, NEW k \in Keys, NEW ret, RemoveFromFlash(k, ret)
  PROVE  /\ \A j \in Keys : j # k => SameHand(j)
         /\ WritesOf(k)' = WritesOf(k)
         /\ Ordered' /\ UNCHANGED <<flash, flashFull>>
         /\ \/ ret = "BUSY"
            \/ ret = "SUCCESS" /\ PositionsOf(k)' = 0..(Len(flash[k]) - 1)
         /\ SameHand(k) \/ DeletesOf(k)
<1> DEFINE records == Len(flash[k])
           room == FdsQueueSize - Len(fdsQueue)
           n == IF records <= room THEN records ELSE room
<1>1. FlashTypeOK /\ ~ stateResetting
  BY FollowsParts DEF FollowsInv, Follows, NoReset
<1>2. CASE ret = "BUSY" /\ UNCHANGED storageVars
  BY <1>1, <1>2, StorageUnchangedOps DEF SameHand
<1>3. CASE /\ ~ IsBusyType(TypeOf[k])
           /\ ret = IF n = records THEN "SUCCESS" ELSE "BUSY"
           /\ fdsQueue' = fdsQueue \o Deletes(k, n)
           /\ UNCHANGED <<flash, flashFull, fdsEvents>>
  <2>1. records \in Nat /\ room \in Nat
    <3>1. Len(fdsQueue) \in Nat /\ Len(fdsQueue) <= FdsQueueSize
      BY <1>1, LenProperties DEF FlashTypeOK
    <3> QED BY <1>1, <3>1, StorageAssumption, LengthOfFlash
  <2>2. n \in Nat /\ n <= records
    BY <2>1
  <2> HIDE DEF n, room
  <2>3. WritesOf(k) = {} /\ PositionsOf(k) = {}
    BY <1>3, NothingOfKey
  <2>4. /\ \A j \in Keys : WritesOf(j)' = WritesOf(j)
        /\ \A j \in Keys : j # k => PositionsOf(j)' = PositionsOf(j)
        /\ PositionsOf(k)' = (records - n)..(records - 1)
        /\ Ordered'
    BY <1>1, <1>3, <2>2, <2>3, OpsDeletes
  <2>5. \A j \in Keys : FailsOf(j)' = FailsOf(j)
    BY <1>3, EventsSame
  <2> HIDE DEF records
  <2>6. ret = "BUSY" \/ (ret = "SUCCESS" /\ PositionsOf(k)' = 0..(records - 1))
    <3>1. n = records => records - n = 0
      BY <2>1
    <3> QED BY <1>3, <2>4, <3>1
  <2>7. DeletesOf(k)
    <3>1. n \in 0..records
      BY <2>1, <2>2
    <3> QED BY <2>3, <2>4, <3>1 DEF DeletesOf, records
  <2>8. \A j \in Keys : j # k => SameHand(j)
    BY <2>4, <2>5 DEF SameHand
  <2> QED BY <1>3, <2>4, <2>6, <2>7, <2>8 DEF records
<1>4. CASE startedWritingToFlash /\ StorageRemove(k, ret)
  BY <1>2, <1>3, <1>4 DEF StorageRemove
<1> QED BY <1>1, <1>2, <1>4 DEF RemoveFromFlash

LEMMA RemoveFromFlashOps ==
  ASSUME KeptInv, NEW k \in Keys, NEW ret, RemoveFromFlash(k, ret)
  PROVE  /\ \A j \in Keys : j # k => SameHand(j)
         /\ WritesOf(k)' = WritesOf(k)
         /\ Ordered' /\ UNCHANGED <<flash, flashFull>>
         /\ \/ ret = "BUSY"
            \/ ret = "SUCCESS" /\ PositionsOf(k)' = 0..(Len(flash[k]) - 1)
BY RemoveFromFlashHand DEF KeptInv

-----------------------------------------------------------------------------
(* The steps.                                                              *)

\* What every step relies on, and what the invariant of the queue gives after it.
LEMMA KeptParts ==
  ASSUME KeptInv
  PROVE  /\ FollowsInv /\ Ordered /\ (flashFull => "full" \in Env)
         /\ \A k \in Keys : Sound(k) /\ Settled(k)
BY DEF KeptInv, FollowsInv, Follows

\* A step that changes neither the requests nor what is in hand.
LEMMA SameSound ==
  ASSUME KeptInv, UNCHANGED <<ram, removed, flash>>,
         \A k \in Keys : Queued'[k] = Queued[k] /\ SameHand(k)
  PROVE  \A k \in Keys : Sound(k)'
<1> SUFFICES ASSUME NEW k \in Keys PROVE Sound(k)'
  OBVIOUS
<1>1. Sound(k)
  BY KeptParts
<1> QED BY <1>1, SoundOther DEF SameHand

\* What a step adds to what is shown of the queue already.
KeptStep == Ordered' /\ (flashFull' => "full" \in Env) /\ \A k \in Keys : Sound(k)'

LEMMA SameKept ==
  ASSUME KeptInv, UNCHANGED <<ram, removed, storageVars>>,
         \A k \in Keys : Queued'[k] = Queued[k]
  PROVE  KeptStep
<1>1. /\ \A k \in Keys : SameHand(k)
      /\ Ordered' /\ UNCHANGED <<flash, flashFull>>
  BY StorageUnchangedOps, KeptParts
<1>2. \A k \in Keys : Sound(k)'
  BY <1>1, SameSound
<1> QED BY <1>1, <1>2, KeptParts DEF KeptStep

LEMMA SetKept ==
  ASSUME KeptInv, Restrained, Retried, FollowsInv', NEW k \in Keys, NEW v \in Value,
         Set(k, v) \/ SetDelayed(k, v)
  PROVE  KeptStep
<1>1. /\ MaySet(k) /\ StoreInRam(k, v) /\ ram'[k] \in Value /\ FollowsInv
      /\ QueueOK
  BY StoreInRamType, KeptParts, FollowsParts DEF Set, SetDelayed, FollowsInv
<1>2. ASSUME NEW j \in Keys, j # k
      PROVE  ram'[j] = ram[j] /\ (j \in removed' <=> j \in removed)
  BY <1>1, <1>2, FollowsParts DEF StoreInRam
<1>3. k \notin removed' /\ "remove" \notin Queued[k]
  BY <1>1, OnlyOperation DEF StoreInRam, MaySet, KeyOps
<1>4. \E ret \in Ret :
        /\ Queued' = IF ret = "BUSY"
                       THEN [Queued EXCEPT ![k] = IF @ = {} THEN {"write"} ELSE @]
                       ELSE Queued
        /\ \A j \in Keys : j # k => SameHand(j)
        /\ Ordered' /\ UNCHANGED flash /\ (flashFull' => "full" \in Env)
        /\ \/ ret = "BUSY" /\ SameHand(k)
           \/ \E o \in FdsOp : /\ WritesOf(k)' = {o} /\ o.crc = ram'[k]
                               /\ ~ o.freed /\ ~ o.written
  <2>1. CASE Set(k, v)
    <3>1. PICK ret \in Ret : StoreInFlash(k, ret) /\ RetryWhenBusy("write", k, ret)
      BY <2>1 DEF Set
    <3>2. Queued' = IF ret = "BUSY"
                      THEN [Queued EXCEPT ![k] = IF @ = {} THEN {"write"} ELSE @]
                      ELSE Queued
      BY <1>1, <3>1, RetryView DEF KeyOps
    <3> QED BY <1>1, <3>1, <3>2, StoreInFlashOps
  <2>2. CASE SetDelayed(k, v)
    <3>1. AddToQueue("write", k, DelayTicks) /\ UNCHANGED storageVars
      BY <2>2 DEF SetDelayed
    <3>2. Queued' = [Queued EXCEPT ![k] = IF @ = {} THEN {"write"} ELSE @]
      BY <1>1, <3>1, AddToQueueView, StateAssumption DEF KeyOps
    <3>3. /\ \A j \in Keys : SameHand(j)
          /\ Ordered' /\ UNCHANGED <<flash, flashFull>>
      BY <3>1, StorageUnchangedOps, KeptParts
    <3> QED BY <3>2, <3>3, KeptParts DEF Ret
  <2> QED BY <2>1, <2>2
<1>5. PICK ret \in Ret :
        /\ Queued' = IF ret = "BUSY"
                       THEN [Queued EXCEPT ![k] = IF @ = {} THEN {"write"} ELSE @]
                       ELSE Queued
        /\ \A j \in Keys : j # k => SameHand(j)
        /\ Ordered' /\ UNCHANGED flash /\ (flashFull' => "full" \in Env)
        /\ \/ ret = "BUSY" /\ SameHand(k)
           \/ \E o \in FdsOp : /\ WritesOf(k)' = {o} /\ o.crc = ram'[k]
                               /\ ~ o.freed /\ ~ o.written
  BY <1>4
<1>6. ASSUME NEW j \in Keys, j # k PROVE Sound(j)'
  <2>1. Queued'[j] = Queued[j]
    BY <1>1, <1>5, <1>6, FollowsParts
  <2> QED BY <1>2, <1>5, <1>6, <2>1, KeptParts, SoundOther DEF SameHand
<1>7. Sound(k)'
  <2>1. CASE ret = "BUSY" /\ SameHand(k)
    <3>1. Queued'[k] # {}
      BY <1>1, <1>5, <2>1, FollowsParts
    <3>2. Settled(k)'
      BY DEF FollowsInv, Follows
    <3>3. \A o \in WritesOf(k)' : ~ o.freed
      BY <1>3, <2>1, NotFreed DEF SameHand
    <3> QED BY <3>1, <3>2, <3>3, SoundWaiting
  <2>2. CASE \E o \in FdsOp : /\ WritesOf(k)' = {o} /\ o.crc = ram'[k]
                              /\ ~ o.freed /\ ~ o.written
    BY <1>3, <2>2, SoundWriting
  <2> QED BY <1>5, <2>1, <2>2
<1> QED BY <1>5, <1>6, <1>7 DEF KeptStep

LEMMA RemoveValueKept ==
  ASSUME KeptInv, Restrained, FollowsInv', NEW k \in RemovableKeys, RemoveValue(k)
  PROVE  KeptStep
<1>1. /\ k \in Keys /\ NoItem("write", k) /\ ~ stateResetting /\ FollowsInv /\ QueueOK
      /\ ram' = [ram EXCEPT ![k] = Absent] /\ removed' = removed \cup {k}
  BY KeptParts, FollowsParts, StateAssumption
     DEF RemoveValue, FollowsInv, Follows, NoReset
<1>2. PICK ret \in Ret :
         /\ IF BeingWritten(k)
              THEN /\ ret = "BUSY" /\ fdsQueue' = FreeBuffer(k)
                   /\ UNCHANGED <<flash, flashFull, fdsEvents>>
              ELSE RemoveFromFlash(k, ret)
         /\ RetryWhenBusy("remove", k, ret)
  BY <1>1 DEF RemoveValue
<1>3. Queued' = IF ret = "BUSY"
                  THEN [Queued EXCEPT ![k] = IF @ = {} THEN {"remove"} ELSE @]
                  ELSE Queued
  BY <1>1, <1>2, RetryView DEF KeyOps
<1>4. /\ \A j \in Keys : j # k => SameHand(j)
      /\ Ordered' /\ UNCHANGED <<flash, flashFull>>
      /\ \/ ret = "BUSY"
         \/ ret = "SUCCESS" /\ PositionsOf(k)' = 0..(Len(flash[k]) - 1)
  <2>1. CASE BeingWritten(k)
    BY <1>1, <1>2, <2>1, OpsFree, EventsSame, KeptParts, FollowsParts DEF SameHand
  <2>2. CASE ~ BeingWritten(k)
    BY <1>1, <1>2, <2>2, RemoveFromFlashOps
  <2> QED BY <2>1, <2>2
<1>5. ASSUME NEW j \in Keys, j # k PROVE Sound(j)'
  <2>1. Queued'[j] = Queued[j] /\ ram'[j] = ram[j] /\ (j \in removed' <=> j \in removed)
    BY <1>1, <1>3, <1>5, FollowsParts
  <2> QED BY <1>4, <1>5, <2>1, KeptParts, SoundOther DEF SameHand
<1>6. Sound(k)'
  <2>1. k \in removed' /\ ram'[k] = Absent
    BY <1>1, FollowsParts
  <2>2. CASE ret = "BUSY"
    <3>1. Queued'[k] # {}
      BY <1>1, <1>3, <2>2, FollowsParts
    <3>2. Settled(k)'
      BY <1>1 DEF FollowsInv, Follows
    <3> QED BY <1>1, <2>1, <3>1, <3>2, SoundWaiting
  <2>3. CASE PositionsOf(k)' = 0..(Len(flash[k]) - 1)
    BY <1>1, <1>4, <2>1, <2>3, SoundDeleting
  <2> QED BY <1>4, <2>2, <2>3
<1> QED BY <1>4, <1>5, <1>6, KeptParts DEF KeptStep

\* The first read of a key puts in RAM what flash has.
LEMMA GetKept ==
  ASSUME KeptInv, Restrained, NEW k \in Keys, Get(k)
  PROVE  KeptStep
<1>1. /\ k \notin removed /\ removed' = removed /\ ~ startedWritingToFlash
      /\ UNCHANGED <<storageVars, storeQueue>> /\ FollowsInv
      /\ ram' = [ram EXCEPT ![k] = IF ReadSucceeds(k) THEN ReadValue(k) ELSE Default]
  BY KeptParts DEF Get, MayReadFirst, Restrained
<1>2. ~ IsBusyType(TypeOf[k])
  BY <1>1, EarlyNotBusy
<1>3. /\ \A j \in Keys : SameHand(j)
      /\ Ordered' /\ UNCHANGED <<flash, flashFull>> /\ Queued' = Queued
  BY <1>1, StorageUnchangedOps, ViewUnchanged, KeptParts
<1>4. ram'[k] = FlashValue(k)'
  <2>1. ram'[k] = IF ReadSucceeds(k) THEN ReadValue(k) ELSE Default
    BY <1>1, FollowsParts
  <2>2. FlashValue(k)' = FlashValue(k)
    BY <1>3 DEF FlashValue, HasValue, ReadValue
  <2> QED BY <1>2, <2>1, <2>2 DEF ReadSucceeds, FlashValue
<1>5. Sound(k)'
  <2>1. WritesOf(k)' = {}
    BY <1>1, <1>2, <1>3, NothingOfKey DEF SameHand
  <2> QED BY <1>1, <1>4, <2>1 DEF Sound, Kept, Leaves, Carries
<1>6. ASSUME NEW j \in Keys, j # k PROVE Sound(j)'
  <2>1. ram'[j] = ram[j]
    BY <1>1, <1>6, FollowsParts
  <2> QED BY <1>1, <1>3, <2>1, KeptParts, SoundOther DEF SameHand
<1> QED BY <1>3, <1>5, <1>6, KeptParts DEF KeptStep

LEMMA CleanUpKept ==
  ASSUME KeptInv, CleanUp
  PROVE  KeptStep
<1>1. PICK ret \in Ret : /\ GarbageCollect(ret)
                         /\ \/ AddToQueue("gc", Absent, RetryTicks)
                            \/ UNCHANGED storeQueue
  BY DEF CleanUp
<1>2. UNCHANGED <<ram, removed>> /\ FlashTypeOK /\ QueueOK
  BY KeptParts, FollowsParts DEF CleanUp
<1>3. Queued' = Queued
  BY <1>1, <1>2, AddGcView, ViewUnchanged
<1>4. /\ \A k \in Keys : SameHand(k)
      /\ Ordered' /\ UNCHANGED <<flash, flashFull>>
  BY <1>1, <1>2, GarbageCollectOps, KeptParts
<1>5. \A k \in Keys : Sound(k)'
  BY <1>2, <1>3, <1>4, SameSound
<1> QED BY <1>4, <1>5, KeptParts DEF KeptStep

\* A write or a removal is dropped from the queue only when FDS has accepted it.
LEMMA TickItemKept ==
  ASSUME KeptInv, Restrained, Retried, FollowsInv', TickItem
  PROVE  KeptStep
<1> DEFINE item == storeQueue[cursor]
<1>1. cursor \in 1..Len(storeQueue) /\ cursor \in DOMAIN storeQueue /\ item \in QueueItem
  BY InvParts, KeptParts, LenProperties, ElementOfSeq
     DEF TickItem, MainLoopIdle, FollowsInv, QueueOK
<1>2. /\ item.operation \in KeyOps => item.key \in Keys /\ item.operation \in Queued[item.key]
      /\ item.operation \notin KeyOps => item.operation = "gc"
      /\ item.operation \in KeyOps => item.execute
  <2>1. /\ item.operation \in KeyOps => item.key \in Keys
        /\ item.operation \notin KeyOps => item.operation \in {"factoryReset", "gc"}
    BY <1>1 DEF QueueItem, KeyOps
  <2>2. item.operation \in {"factoryReset", "gc"} => item.operation \in Special
    BY <1>1 DEF Special
  <2>3. item.operation \in KeyOps => item.operation \in Queued[item.key]
    BY <1>1, <2>1 DEF Queued, Waits
  <2>4. PlainItem(item)
    BY <1>1, KeptParts DEF FollowsInv, Follows, Plain
  <2> HIDE DEF item
  <2> QED BY <2>1, <2>2, <2>3, <2>4, KeptParts DEF FollowsInv, Follows, NoReset, PlainItem, Retried
<1>3. UNCHANGED <<ram, removed>> /\ QueueOK /\ Plain /\ FollowsInv /\ ~ stateResetting
  BY KeptParts, FollowsParts DEF TickItem, FollowsInv, Follows, NoReset
<1>4. CASE /\ storeQueue' = [storeQueue EXCEPT ![cursor].counter = @ - 1]
           /\ item.counter # 0 /\ UNCHANGED storageVars
  <2> DEFINE e == [item EXCEPT !.counter = @ - 1]
  <2>1. e \in QueueItem /\ e.key = item.key /\ e.operation = item.operation
    BY <1>1, <1>4 DEF QueueItem
  <2>2. storeQueue' = [storeQueue EXCEPT ![cursor] = e]
    BY <1>4
  <2>3. Queued' = Queued
    <3> HIDE DEF e
    <3> QED BY <1>1, <1>3, <2>1, <2>2, ViewUpdate
  <2> QED BY <1>3, <1>4, <2>3, SameKept
<1>5. CASE UNCHANGED storageVars /\ ~ item.execute /\ Reschedule(item, FALSE)
  <2>1. item.operation \notin KeyOps
    BY <1>2, <1>5
  <2>2. Queued' = Queued
    BY <1>1, <1>3, <1>5, <2>1, RescheduleView
  <2> QED BY <1>3, <1>5, <2>2, SameKept
<1>6. ASSUME NEW keep \in BOOLEAN, Execute(item, keep), Reschedule(item, keep)
      PROVE  KeptStep
  <2>1. \/ Queued' = Queued
        \/ /\ ~ keep
           /\ Queued' = IF item.operation \in KeyOps
                          THEN [Queued EXCEPT ![item.key] = {}] ELSE Queued
    BY <1>1, <1>3, <1>6, RescheduleView
  <2>2. CASE item.operation = "gc"
    <3>1. PICK ret : GarbageCollect(ret)
      BY <1>6, <2>2 DEF Execute
    <3>2. /\ \A k \in Keys : SameHand(k)
          /\ Ordered' /\ UNCHANGED <<flash, flashFull>>
      BY <3>1, GarbageCollectOps, KeptParts, FollowsParts
    <3>3. Queued' = Queued
      BY <2>1, <2>2 DEF KeyOps
    <3>4. \A k \in Keys : Sound(k)'
      BY <1>3, <3>2, <3>3, SameSound
    <3> QED BY <3>2, <3>4, KeptParts DEF KeptStep
  <2>3. ASSUME NEW k \in Keys, k = item.key, item.operation \in KeyOps
        PROVE  KeptStep
    <3>1. /\ item.operation \in Queued[k] /\ Settled(k) /\ Sound(k)
          /\ keep => Queued'[k] = Queued[k]
      BY <1>2, <2>1, <2>3, KeptParts
    <3>2. Settled(k)'
      BY DEF FollowsInv, Follows
    <3>3. ASSUME NEW j \in Keys, j # k, SameHand(j), UNCHANGED flash
          PROVE  Sound(j)'
      <4>1. Queued'[j] = Queued[j]
        BY <1>3, <2>1, <2>3, <3>3, FollowsParts
      <4> QED BY <1>3, <3>3, <4>1, KeptParts, SoundOther DEF SameHand
    <3>4. CASE item.operation = "write"
      <4>1. k \notin removed /\ ram[k] # Absent /\ ram'[k] \in Value
        BY <1>3, <3>1, <3>4, FollowsParts DEF Settled
      <4>2. PICK ret : StoreInFlash(k, ret) /\ keep = (ret = "BUSY")
        BY <1>6, <2>3, <3>4, <4>1 DEF Execute
      <4>3. /\ \A j \in Keys : j # k => SameHand(j)
            /\ Ordered' /\ UNCHANGED flash /\ (flashFull' => "full" \in Env)
            /\ \/ ret = "BUSY" /\ SameHand(k)
               \/ /\ ret = "SUCCESS"
                  /\ \E o \in FdsOp : /\ WritesOf(k)' = {o} /\ o.crc = ram'[k]
                                      /\ ~ o.freed /\ ~ o.written
        BY <4>1, <4>2, StoreInFlashOps
      <4>4. CASE ret = "BUSY" /\ SameHand(k)
        <5>1. Queued'[k] = Queued[k]
          BY <3>1, <4>2, <4>4
        <5>2. Sound(k)'
          BY <1>3, <3>1, <4>3, <4>4, <5>1, SoundOther DEF SameHand
        <5> QED BY <3>3, <4>3, <5>2 DEF KeptStep
      <4>5. CASE \E o \in FdsOp : /\ WritesOf(k)' = {o} /\ o.crc = ram'[k]
                                  /\ ~ o.freed /\ ~ o.written
        <5>1. Sound(k)'
          BY <1>3, <4>1, <4>5, SoundWriting
        <5> QED BY <3>3, <4>3, <5>1 DEF KeptStep
      <4> QED BY <4>3, <4>4, <4>5
    <3>5. CASE item.operation = "remove"
      <4>1. k \in removed /\ ram[k] = Absent
        BY <3>1, <3>5 DEF Settled
      <4>2. PICK ret : RemoveFromFlash(k, ret) /\ keep = (ret = "BUSY")
        BY <1>6, <2>3, <3>5 DEF Execute
      <4>3. /\ \A j \in Keys : j # k => SameHand(j)
            /\ Ordered' /\ UNCHANGED <<flash, flashFull>>
            /\ \/ ret = "BUSY"
               \/ ret = "SUCCESS" /\ PositionsOf(k)' = 0..(Len(flash[k]) - 1)
        BY <4>2, RemoveFromFlashOps
      <4>4. Sound(k)'
        <5>1. CASE ret = "BUSY"
          BY <1>3, <3>1, <3>2, <4>1, <4>2, <5>1, SoundWaiting
        <5>2. CASE PositionsOf(k)' = 0..(Len(flash[k]) - 1)
          BY <1>3, <4>1, <4>3, <5>2, SoundDeleting
        <5> QED BY <4>3, <5>1, <5>2
      <4> QED BY <3>3, <4>3, <4>4, KeptParts DEF KeptStep
    <3> QED BY <2>3, <3>4, <3>5 DEF KeyOps
  <2> QED BY <1>2, <2>2, <2>3
<1> QED BY <1>4, <1>5, <1>6 DEF TickItem

\* A failure that is handled leaves something for its key in the queue.
LEMMA HandleStorageErrorWaits ==
  ASSUME FollowsInv, NEW ev \in FdsEvent, HandleStorageError(ev)
  PROVE  /\ \A k \in Keys : Queued[k] \subseteq Queued'[k]
         /\ ev.op # "gc" => Queued'[ev.key] # {}
<1>1. ~ stateResetting /\ QueueOK /\ RetryTicks \in Nat
  BY FollowsParts, StateAssumption DEF FollowsInv, Follows, NoReset
<1>2. CASE ev.op = "gc"
  <2>1. UNCHANGED storeQueue
    BY <1>1, <1>2 DEF HandleStorageError
  <2> QED BY <1>2, <2>1, ViewUnchanged
<1>3. ASSUME NEW operation \in KeyOps, NEW k \in Keys, k = ev.key,
             AddToQueue(operation, k, RetryTicks)
      PROVE  /\ \A j \in Keys : Queued[j] \subseteq Queued'[j]
             /\ Queued'[ev.key] # {}
  <2>1. Queued' = [Queued EXCEPT ![k] = IF @ = {} THEN {operation} ELSE @]
    BY <1>1, <1>3, AddToQueueView
  <2> QED BY <1>3, <2>1, FollowsParts
<1>4. CASE ev.op = "write"
  <2>1. AddToQueue("write", ev.key, RetryTicks) /\ ev.key \in Keys
    BY <1>1, <1>4, EventKey DEF HandleStorageError
  <2>2. "write" \in KeyOps
    BY DEF KeyOps
  <2> QED BY <1>3, <2>1, <2>2
<1>5. CASE ev.op = "delete"
  <2>1. AddToQueue("remove", ev.key, RetryTicks) /\ ev.key \in Keys
    BY <1>1, <1>5, EventKey DEF HandleStorageError
  <2>2. "remove" \in KeyOps
    BY DEF KeyOps
  <2> QED BY <1>3, <2>1, <2>2
<1> QED BY <1>2, <1>4, <1>5, EventKey

LEMMA HandleEventKept ==
  ASSUME KeptInv, FollowsInv', HandleEvent
  PROVE  KeptStep
<1> DEFINE ev == Head(fdsEvents)
<1>1. /\ fdsEvents # << >> /\ fdsEvents' = Tail(fdsEvents)
      /\ UNCHANGED <<ram, removed, flash, flashFull>>
      /\ ~ storageResetting /\ FollowsInv /\ FlashTypeOK
  BY KeptParts, FollowsParts
     DEF HandleEvent, HandleWriteEvent, HandleRemoveRecordEvent,
         HandleGarbageCollectionEvent, TakeEvent, FollowsInv, Follows, NoReset
<1>2. UNCHANGED fdsQueue
  BY <1>1 DEF HandleEvent, HandleWriteEvent, HandleRemoveRecordEvent,
         HandleGarbageCollectionEvent, EventFailed
<1>3. (~ ev.ok /\ HandleStorageError(ev)) \/ (ev.ok /\ UNCHANGED storeQueue)
  BY <1>1 DEF HandleEvent, HandleWriteEvent, HandleRemoveRecordEvent,
         HandleGarbageCollectionEvent, EventFailed
<1>4. ev \in FdsEvent
  BY <1>1, HeadTailProperties DEF FlashTypeOK
<1>5. /\ \A k \in Keys : WritesOf(k)' = WritesOf(k) /\ PositionsOf(k)' = PositionsOf(k)
      /\ Ordered'
  BY <1>2, OpsSame, KeptParts
<1>6. \A k \in Keys :
        FailsOf(k) \subseteq FailsOf(k)' \/ (~ ev.ok /\ ev.op # "gc" /\ ev.key = k)
  BY <1>1, EventsTake
<1> HIDE DEF ev
<1>7. /\ \A k \in Keys : Queued[k] \subseteq Queued'[k]
      /\ ~ ev.ok /\ ev.op # "gc" => Queued'[ev.key] # {}
  BY <1>1, <1>3, <1>4, HandleStorageErrorWaits, ViewUnchanged
<1>8. ASSUME NEW k \in Keys PROVE Sound(k)'
  <2>1. Sound(k)
    BY KeptParts
  <2>2. CASE FailsOf(k) \subseteq FailsOf(k)'
    BY <1>1, <1>5, <1>7, <2>1, <2>2, SoundOther
  <2>3. CASE ~ ev.ok /\ ev.op # "gc" /\ ev.key = k
    <3>1. Settled(k)' /\ Queued'[k] # {}
      BY <1>7, <2>3 DEF FollowsInv, Follows
    <3>2. \A o \in WritesOf(k)' : o.freed => k \in removed'
      BY <1>1, <1>5, <2>1 DEF Sound, Carries
    <3> QED BY <3>1, <3>2, SoundWaiting
  <2> QED BY <1>6, <2>2, <2>3
<1> QED BY <1>1, <1>5, <1>8, KeptParts DEF KeptStep

\* FDS never changes the requests.
FdsFrame ==
  /\ UNCHANGED <<ram, removed>> /\ Queued' = Queued
  /\ fdsQueue # << >> /\ Head(fdsQueue) \in Ops /\ Head(fdsQueue) \in FdsOp

LEMMA FdsStoreRecordKept ==
  ASSUME KeptInv, FollowsInv', FdsFrame, FdsStoreRecord
  PROVE  KeptStep
<1> DEFINE op == Head(fdsQueue)
<1>1. /\ op.op = "write" /\ ~ op.written /\ UNCHANGED flashFull /\ FlashTypeOK /\ op \in FdsWrite
  BY KeptParts, FollowsParts, OpKinds DEF FdsStoreRecord, FdsFrame
<1>2. PICK rec \in Written(op) : flash' = [flash EXCEPT ![op.key] = Append(@, rec)]
  BY DEF FdsStoreRecord
<1>3. \/ fdsQueue' = [fdsQueue EXCEPT ![1].written = TRUE] /\ UNCHANGED fdsEvents
      \/ fdsQueue' = Tail(fdsQueue) /\ Post([op |-> "write", key |-> op.key, ok |-> TRUE])
  BY DEF FdsStoreRecord
<1>4. op.key \in Keys /\ op \in WritesOf(op.key) /\ op.crc \in Value
  BY <1>1 DEF FdsWrite, WritesOf, FdsFrame
<1>5. /\ Ordered'
      /\ \A k \in Keys : PositionsOf(k)' = PositionsOf(k) /\ FailsOf(k) \subseteq FailsOf(k)'
      /\ \A k \in Keys : IF k # op.key THEN WritesOf(k)' = WritesOf(k)
                         ELSE \A o \in WritesOf(k)' :
                                o \in WritesOf(k) \/ (o.written /\ o.freed = op.freed)
  <2>1. CASE fdsQueue' = [fdsQueue EXCEPT ![1].written = TRUE] /\ UNCHANGED fdsEvents
    <3>1. \A k \in Keys : FailsOf(k)' = FailsOf(k)
      BY <2>1, EventsSame
    <3> QED BY <1>1, <2>1, <3>1, OpsMark, KeptParts DEF FdsFrame
  <2>2. CASE fdsQueue' = Tail(fdsQueue) /\ Post([op |-> "write", key |-> op.key, ok |-> TRUE])
    <3>1. [op |-> "write", key |-> op.key, ok |-> TRUE] \in FdsEvent
      BY <1>4, EventTypes
    <3>2. \A k \in Keys : FailsOf(k) \subseteq FailsOf(k)'
      <4> DEFINE ev == [op |-> "write", key |-> op.key, ok |-> TRUE]
      <4>1. ev \in FdsEvent /\ Post(ev)
        BY <2>2, <3>1
      <4> HIDE DEF ev
      <4> QED BY <1>1, <4>1, EventsPost
    <3>3. LET hd == Head(fdsQueue) IN
          /\ \A k \in Keys : /\ WritesOf(k)' \subseteq WritesOf(k)
                             /\ hd.op # "write" \/ hd.key # k => WritesOf(k)' = WritesOf(k)
                             /\ hd.op # "delete" \/ hd.key # k =>
                                  PositionsOf(k)' = PositionsOf(k)
          /\ Ordered'
      BY <1>1, <2>2, OpsTail, KeptParts DEF FdsFrame
    <3> QED BY <1>1, <3>2, <3>3
  <2> QED BY <1>3, <2>1, <2>2
<1>6. op.freed => op.key \in removed
  BY <1>4, KeptParts DEF Sound, Carries
<1> HIDE DEF op
<1>7. ASSUME NEW k \in Keys, k # op.key PROVE Sound(k)'
  <2>1. flash'[k] = flash[k]
    BY <1>1, <1>2, <1>4, <1>7 DEF FlashTypeOK
  <2> QED BY <1>5, <1>7, <2>1, KeptParts, SoundOther DEF FdsFrame
<1>8. ASSUME NEW k \in Keys, k = op.key PROVE Sound(k)'
  <2>1. Sound(k) /\ Settled(k) /\ Settled(k)'
    BY KeptParts DEF FollowsInv, Follows
  <2>2. \A o \in WritesOf(k)' : o.freed => k \in removed'
    BY <1>5, <1>6, <1>8, <2>1 DEF Sound, Carries, FdsFrame
  <2>3. CASE Queued[k] # {}
    BY <2>1, <2>2, <2>3, SoundWaiting DEF FdsFrame
  <2>4. CASE Queued[k] = {}
    <3>1. k \notin removed /\ ram[k] # Absent /\ ~ op.freed /\ op.crc = ram[k]
      <4>1. k \in HandKeys("write")
        BY <1>4, <1>8, HandOfKey
      <4>2. k \notin removed /\ ram[k] # Absent
        BY <2>1, <2>4, <4>1 DEF Settled
      <4> QED BY <1>1, <1>4, <1>6, <1>8, <2>1, <2>4, <4>2 DEF Sound, Carries
    <3>2. rec = ram[k] /\ ram[k] \in Value
      BY <1>2, <1>4, <1>8, <3>1 DEF Written
    <3>3. flash'[k] = Append(flash[k], ram[k]) /\ flash[k] \in Seq(Record)
      BY <1>1, <1>2, <1>8, <3>2 DEF FlashTypeOK
    <3>4. flash'[k] # << >> /\ LastRecord(flash'[k]) = ram[k] /\ flash'[k] \in Seq(Record)
      BY <3>2, <3>3, LastAppended
    <3>5. FlashValue(k)' = ram'[k]
      BY <3>2, <3>4, LastIsRead DEF FlashValue, HasValue, ReadValue, FdsFrame
    <3>6. Kept(k)' /\ Leaves(k)'
      BY <3>1, <3>5 DEF Kept, Leaves, FdsFrame
    <3>7. Carries(k)'
      <4>1. ASSUME NEW o \in WritesOf(k)', ~ o.written PROVE o.crc = ram[k]
        BY <1>5, <1>8, <2>1, <2>4, <3>1, <4>1 DEF Sound, Carries
      <4> QED BY <2>2, <3>4, <4>1 DEF Carries, FdsFrame
    <3> QED BY <3>6, <3>7 DEF Sound
  <2> QED BY <2>3, <2>4
<1> QED BY <1>1, <1>5, <1>7, <1>8, KeptParts DEF KeptStep

\* The operation at the head is over, and reported.
LEMMA HeadReported ==
  ASSUME KeptInv, FdsFrame, fdsQueue' = Tail(fdsQueue), NEW ev \in FdsEvent, Post(ev)
  PROVE  LET op == Head(fdsQueue) IN
         /\ Ordered'
         /\ \A k \in Keys : /\ WritesOf(k)' \subseteq WritesOf(k)
                            /\ FailsOf(k) \subseteq FailsOf(k)'
                            /\ op.op # "write" \/ op.key # k => WritesOf(k)' = WritesOf(k)
                            /\ op.op # "delete" \/ op.key # k => PositionsOf(k)' = PositionsOf(k)
         /\ \A k \in Keys : ~ ev.ok /\ ev.op # "gc" /\ ev.key = k => ev.op \in FailsOf(k)'
BY OpsTail, EventsPost, KeptParts, FollowsParts DEF FdsFrame

LEMMA FdsDeleteOldKept ==
  ASSUME KeptInv, FollowsInv', FdsFrame, FdsDeleteOld
  PROVE  KeptStep
<1> DEFINE op == Head(fdsQueue)
           ev == [op |-> "write", key |-> op.key, ok |-> TRUE]
<1>1. /\ op.op = "write" /\ op.written /\ UNCHANGED flashFull /\ FlashTypeOK /\ op \in FdsWrite
      /\ flash' = [flash EXCEPT ![op.key] = DeleteRecord(@, 1)]
      /\ fdsQueue' = Tail(fdsQueue) /\ Post(ev)
  BY KeptParts, FollowsParts, OpKinds DEF FdsDeleteOld, FdsFrame
<1>2. op.key \in Keys /\ op \in WritesOf(op.key)
  BY <1>1 DEF FdsWrite, WritesOf, FdsFrame
<1>3. ev \in FdsEvent
  BY <1>2, EventTypes
<1> HIDE DEF ev
<1>4. /\ Ordered'
      /\ \A k \in Keys : /\ WritesOf(k)' \subseteq WritesOf(k)
                         /\ FailsOf(k) \subseteq FailsOf(k)'
                         /\ op.key # k => WritesOf(k)' = WritesOf(k)
                         /\ PositionsOf(k)' = PositionsOf(k)
  BY <1>1, <1>3, HeadReported
<1> HIDE DEF op
<1>5. ASSUME NEW k \in Keys, k # op.key PROVE Sound(k)'
  <2>1. flash'[k] = flash[k]
    BY <1>1, <1>2, <1>5 DEF FlashTypeOK
  <2> QED BY <1>4, <1>5, <2>1, KeptParts, SoundOther DEF FdsFrame
<1>6. ASSUME NEW k \in Keys, k = op.key PROVE Sound(k)'
  <2>1. Sound(k) /\ Settled(k) /\ Settled(k)'
    BY KeptParts DEF FollowsInv, Follows
  <2>2. \A o \in WritesOf(k)' : o.freed => k \in removed'
    BY <1>4, <2>1 DEF Sound, Carries, FdsFrame
  <2>3. CASE Queued[k] # {}
    BY <2>1, <2>2, <2>3, SoundWaiting DEF FdsFrame
  <2>4. CASE Queued[k] = {}
    <3>1. /\ k \notin removed /\ ram[k] # Absent
          /\ flash[k] # << >> /\ LastRecord(flash[k]) = ram[k]
      <4>1. k \in HandKeys("write")
        BY <1>2, <1>6, HandOfKey
      <4>2. k \notin removed /\ ram[k] # Absent
        BY <2>1, <2>4, <4>1 DEF Settled
      <4> QED BY <1>1, <1>2, <1>6, <2>1, <2>4, <4>2 DEF Sound, Carries
    <3>2. ram[k] \in Value
      BY <3>1, KeptParts, FollowsParts
    <3>3. flash'[k] = DeleteRecord(flash[k], 1) /\ flash[k] \in Seq(Record)
      BY <1>1, <1>6 DEF FlashTypeOK
    <3>4. flash'[k] # << >> /\ LastRecord(flash'[k]) = ram[k] /\ flash'[k] \in Seq(Record)
      BY <3>1, <3>3, LastStays
    <3>5. FlashValue(k)' = ram'[k]
      BY <3>2, <3>4, LastIsRead DEF FlashValue, HasValue, ReadValue, FdsFrame
    <3>6. Kept(k)' /\ Leaves(k)'
      BY <3>1, <3>5 DEF Kept, Leaves, FdsFrame
    <3>7. Carries(k)'
      <4>1. ASSUME NEW o \in WritesOf(k)', ~ o.written PROVE o.crc = ram[k]
        BY <1>4, <2>1, <2>4, <3>1, <4>1 DEF Sound, Carries
      <4> QED BY <2>2, <3>4, <4>1 DEF Carries, FdsFrame
    <3> QED BY <3>6, <3>7 DEF Sound
  <2> QED BY <2>3, <2>4
<1> QED BY <1>1, <1>4, <1>5, <1>6, KeptParts DEF KeptStep

\* The deletes of a key go from the oldest record on, so that the ones still to
\* come keep their positions.
LEMMA FdsDeleteRecordKept ==
  ASSUME KeptInv, FollowsInv', FdsFrame, FdsDeleteRecord
  PROVE  KeptStep
<1> DEFINE op == Head(fdsQueue)
           ev == [op |-> "delete", key |-> op.key, ok |-> TRUE]
<1>1. /\ op.op = "delete" /\ UNCHANGED flashFull /\ FlashTypeOK /\ op \in FdsDelete
      /\ flash' = [flash EXCEPT ![op.key] = DeleteRecord(@, op.pos)]
      /\ fdsQueue' = Tail(fdsQueue) /\ Post(ev)
  BY KeptParts, FollowsParts, OpKinds DEF FdsDeleteRecord, FdsFrame
<1>2. op.key \in Keys /\ op.pos \in Nat /\ op.pos \in PositionsOf(op.key)
  BY <1>1 DEF FdsDelete, PositionsOf, FdsFrame
<1>3. ev \in FdsEvent
  BY <1>2, EventTypes
<1> HIDE DEF ev
<1>4. /\ Ordered'
      /\ \A k \in Keys : /\ WritesOf(k)' = WritesOf(k)
                         /\ FailsOf(k) \subseteq FailsOf(k)'
                         /\ op.key # k => PositionsOf(k)' = PositionsOf(k)
  BY <1>1, <1>3, HeadReported
<1>5. \A k \in Keys : op.key = k =>
        /\ PositionsOf(k) \subseteq PositionsOf(k)' \cup {op.pos}
        /\ \A p \in PositionsOf(k)' : op.pos > p
  BY <1>1, OpsTail, KeptParts DEF FdsFrame
<1> HIDE DEF op
<1>6. ASSUME NEW k \in Keys, k # op.key PROVE Sound(k)'
  <2>1. flash'[k] = flash[k]
    BY <1>1, <1>2, <1>6 DEF FlashTypeOK
  <2> QED BY <1>4, <1>6, <2>1, KeptParts, SoundOther DEF FdsFrame
<1>7. ASSUME NEW k \in Keys, k = op.key PROVE Sound(k)'
  <2>1. Sound(k) /\ Settled(k) /\ Settled(k)'
    BY KeptParts DEF FollowsInv, Follows
  <2>2. \A o \in WritesOf(k)' : o.freed => k \in removed'
    BY <1>4, <2>1 DEF Sound, Carries, FdsFrame
  <2>3. CASE Queued[k] # {}
    BY <2>1, <2>2, <2>3, SoundWaiting DEF FdsFrame
  <2>4. CASE Queued[k] = {}
    <3>1. k \in removed /\ ram[k] = Absent
      <4>1. k \in HandKeys("delete")
        BY <1>2, <1>7, HandOfKey
      <4> QED BY <2>1, <2>4, <4>1 DEF Settled
    <3>2. Kept(k)' /\ Carries(k)'
      BY <2>2, <3>1 DEF Kept, Carries, FdsFrame
    <3>3. /\ flash[k] = << >> => flash'[k] = << >>
          /\ Len(flash[k]) \in Nat
          /\ Len(flash'[k]) = IF op.pos < Len(flash[k]) THEN Len(flash[k]) - 1 ELSE Len(flash[k])
      <4>1. flash'[k] = DeleteRecord(flash[k], op.pos) /\ flash[k] \in Seq(Record)
        BY <1>1, <1>7 DEF FlashTypeOK
      <4> QED BY <1>1, <1>2, <4>1, FirstDeleted, LengthOfFlash
    <3>4. ASSUME 0..(Len(flash[k]) - 1) \subseteq PositionsOf(k)
          PROVE  0..(Len(flash'[k]) - 1) \subseteq PositionsOf(k)'
      <4>1. /\ PositionsOf(k) \subseteq PositionsOf(k)' \cup {op.pos}
            /\ \A p \in PositionsOf(k)' : op.pos > p
        BY <1>5, <1>7
      <4>2. ASSUME NEW q \in 0..(Len(flash'[k]) - 1) PROVE q \in PositionsOf(k)'
        <5>1. q \in 0..(Len(flash[k]) - 1) /\ q \in Nat
          BY <1>2, <3>3, <4>2
        <5>2. q # op.pos
          <6>1. CASE op.pos < Len(flash[k])
            <7>1. Len(flash[k]) - 1 \in PositionsOf(k)
              BY <1>2, <3>3, <3>4, <6>1
            <7>2. Len(flash[k]) - 1 <= op.pos
              BY <1>2, <3>3, <4>1, <7>1
            <7> QED BY <1>2, <3>3, <4>2, <6>1, <7>2
          <6>2. CASE ~ (op.pos < Len(flash[k]))
            BY <1>2, <3>3, <5>1, <6>2
          <6> QED BY <6>1, <6>2
        <5> QED BY <3>4, <4>1, <5>1, <5>2
      <4> QED BY <4>2
    <3>5. Leaves(k)'
      BY <1>4, <2>1, <2>4, <3>1, <3>3, <3>4 DEF Sound, Leaves, FdsFrame
    <3> QED BY <3>2, <3>5 DEF Sound
  <2> QED BY <2>3, <2>4
<1> QED BY <1>1, <1>4, <1>6, <1>7, KeptParts DEF KeptStep

LEMMA FdsCollectKept ==
  ASSUME KeptInv, FdsFrame, FdsCollect
  PROVE  KeptStep
<1> DEFINE op == Head(fdsQueue)
           ev == [op |-> "gc", ok |-> TRUE]
<1>1. /\ op.op = "gc" /\ flashFull' = FALSE /\ UNCHANGED flash
      /\ fdsQueue' = Tail(fdsQueue) /\ Post(ev)
  BY DEF FdsCollect
<1>2. ev \in FdsEvent
  BY EventTypes
<1> HIDE DEF ev
<1>3. /\ Ordered'
      /\ \A k \in Keys : /\ FailsOf(k) \subseteq FailsOf(k)'
                         /\ WritesOf(k)' = WritesOf(k)
                         /\ PositionsOf(k)' = PositionsOf(k)
  BY <1>1, <1>2, HeadReported
<1>4. \A k \in Keys : Sound(k)'
  BY <1>1, <1>3, KeptParts, SoundOther DEF FdsFrame
<1> QED BY <1>1, <1>3, <1>4 DEF KeptStep

\* The failure is reported, and the report is what remains of the operation.
LEMMA FdsFailKept ==
  ASSUME KeptInv, FdsFrame, FdsFail
  PROVE  KeptStep
<1> DEFINE op == Head(fdsQueue)
           ev == IF op.op = "gc" THEN [op |-> "gc", ok |-> FALSE]
                 ELSE [op |-> op.op, key |-> op.key, ok |-> FALSE]
<1>1. /\ UNCHANGED <<flash, flashFull>> /\ fdsQueue' = Tail(fdsQueue) /\ Post(ev)
      /\ op \in FdsOp
  BY DEF FdsFail, FdsFrame
<1>2. op.op \in {"write", "delete", "gc"} /\ (op.op # "gc" => op.key \in Keys)
  BY <1>1, KeyOfOp
<1>3. /\ ev \in FdsEvent /\ ~ ev.ok /\ ev.op = op.op
      /\ op.op # "gc" => ev.key = op.key
  <2>1. CASE op.op = "gc"
    BY <2>1, EventTypes
  <2>2. CASE op.op # "gc"
    BY <1>2, <2>2, EventTypes
  <2> QED BY <2>1, <2>2
<1> HIDE DEF ev
<1>4. /\ Ordered'
      /\ \A k \in Keys : /\ WritesOf(k)' \subseteq WritesOf(k)
                         /\ FailsOf(k) \subseteq FailsOf(k)'
                         /\ op.op # "write" \/ op.key # k => WritesOf(k)' = WritesOf(k)
                         /\ op.op # "delete" \/ op.key # k => PositionsOf(k)' = PositionsOf(k)
      /\ \A k \in Keys : op.op # "gc" /\ op.key = k => op.op \in FailsOf(k)'
  BY <1>1, <1>3, HeadReported
<1> HIDE DEF op
<1>5. ASSUME NEW k \in Keys PROVE Sound(k)'
  <2>1. Sound(k) /\ FlashValue(k)' = FlashValue(k)
    BY <1>1, KeptParts DEF FlashValue, HasValue, ReadValue
  <2>2. op.op = "write" /\ op.key = k => "write" \in FailsOf(k)'
    BY <1>4
  <2>3. op.op = "delete" /\ op.key = k => "delete" \in FailsOf(k)'
    BY <1>4
  <2>4. Kept(k)'
    BY <1>1, <1>4, <2>1, <2>2 DEF Sound, Kept, FdsFrame
  <2>5. Leaves(k)'
    BY <1>1, <1>4, <2>1, <2>3 DEF Sound, Leaves, FdsFrame
  <2>6. Carries(k)'
    BY <1>1, <1>4, <2>1 DEF Sound, Carries, FdsFrame
  <2> QED BY <2>4, <2>5, <2>6 DEF Sound
<1> QED BY <1>1, <1>4, <1>5, KeptParts DEF KeptStep

LEMMA FdsKept ==
  ASSUME KeptInv, FollowsInv', Fds
  PROVE  KeptStep
<1>1. FdsStep /\ UNCHANGED <<ram, removed, storeQueue>>
  BY DEF Fds, stateVars
<1>2. FdsFrame
  BY <1>1, KeptParts, FollowsParts, FdsStepShape, ViewUnchanged DEF FdsFrame
<1> QED BY <1>1, <1>2, FdsStoreRecordKept, FdsDeleteOldKept, FdsDeleteRecordKept,
           FdsCollectKept, FdsFailKept DEF FdsStep

\* With an empty queue and nothing in RAM, nothing was asked for.
LEMMA RebootKept ==
  ASSUME KeptInv, Reboot
  PROVE  KeptStep
<1>1. /\ fdsQueue' = << >> /\ fdsEvents' = << >> /\ removed' = {} /\ UNCHANGED flashFull
      /\ ram' = [k \in Keys |-> Absent]
  BY DEF Reboot, StorageBoot
<1>2. Ordered'
  BY <1>1 DEF Ordered
<1>3. \A k \in Keys : WritesOf(k)' = {}
  BY <1>1 DEF WritesOf, Ops, ToSet
<1>4. \A k \in Keys : Sound(k)'
  BY <1>1, <1>3 DEF Sound, Kept, Leaves, Carries
<1> QED BY <1>1, <1>2, <1>4, KeptParts DEF KeptStep

LEMMA KeptInit ==
  ASSUME Init
  PROVE  KeptInv
<1>1. /\ fdsQueue = << >> /\ fdsEvents = << >> /\ removed = {} /\ flashFull = FALSE
      /\ ram = [k \in Keys |-> Absent]
  BY DEF Init, StorageInit
<1>2. FollowsInv
  BY InvInit, BusyInit, FollowsInit DEF FollowsInv
<1>3. Ordered
  BY <1>1 DEF Ordered
<1>4. \A k \in Keys : WritesOf(k) = {}
  BY <1>1 DEF WritesOf, Ops, ToSet
<1>5. \A k \in Keys : Sound(k)
  BY <1>1, <1>4 DEF Sound, Kept, Leaves, Carries
<1> QED BY <1>1, <1>2, <1>3, <1>5 DEF KeptInv

LEMMA KeptNext ==
  ASSUME KeptInv, FollowsInv', Restrained, Retried, [Next]_vars
  PROVE  KeptInv'
<1>1. CASE AppSet
  <2>1. PICK k \in Keys, v \in Value : Set(k, v) \/ SetDelayed(k, v)
    BY <1>1, StateAssumption DEF AppSet, Retried
  <2> QED BY <2>1, SetKept DEF KeptInv, KeptStep
<1>2. CASE App /\ ~ AppSet
  <2>1. ~ FactoryReset
    BY DEF FactoryReset, Restrained
  <2> QED BY <1>2, <2>1, RemoveValueKept, GetKept, CleanUpKept DEF App, KeptInv, KeptStep
<1>3. CASE UNCHANGED <<ram, removed, storageVars, storeQueue>>
  BY <1>3, ViewUnchanged, SameKept DEF KeptInv, KeptStep
<1>4. CASE StartWritesToFlash \/ TickBegin \/ UNCHANGED vars
  BY <1>3, <1>4 DEF StartWritesToFlash, TickBegin, vars, stateVars
<1>5. CASE TickItem
  BY <1>5, TickItemKept DEF KeptInv, KeptStep
<1>6. CASE HandleEvent
  BY <1>6, HandleEventKept DEF KeptInv, KeptStep
<1>7. CASE Fds
  BY <1>7, FdsKept DEF KeptInv, KeptStep
<1>8. CASE Reboot
  BY <1>8, RebootKept DEF KeptInv, KeptStep
<1> QED BY <1>1, <1>2, <1>4, <1>5, <1>6, <1>7, <1>8 DEF Next, Tick

LEMMA KeptInvariant ==
  ASSUME Restrained, Retried
  PROVE  Spec => []KeptInv
<1>1. Init => KeptInv
  BY KeptInit
<1>2. KeptInv /\ [Next]_vars => KeptInv'
  <2> SUFFICES ASSUME KeptInv, [Next]_vars PROVE KeptInv'
    OBVIOUS
  <2>1. FollowsInv'
    BY KeptParts, InvNext, BusyNext, FollowsNext DEF FollowsInv
  <2> QED BY <2>1, KeptNext
<1> QED BY <1>1, <1>2, PTL DEF Spec

LEMMA KeptIsNothingLost ==
  ASSUME KeptInv, Retried
  PROVE  NothingLost
<1>1. ASSUME NEW operation \in KeyOps, NEW k \in Keys, operation \in Queued[k]
      PROVE  Waiting(operation, k)
  <2>1. PICK i \in DOMAIN storeQueue :
               storeQueue[i].operation = operation /\ storeQueue[i].key = k
    BY <1>1 DEF Queued, Waits
  <2>2. storeQueue[i].execute
    BY <2>1, KeptParts DEF FollowsInv, Follows, Plain, PlainItem, Retried
  <2> QED BY <2>1, <2>2 DEF Waiting, ItemsOf, KeyOps
<1>2. ASSUME NEW k \in Keys, ram[k] \notin {Absent, FlashValue(k)}
      PROVE  OnItsWay(k)
  <2>1. Kept(k)
    BY KeptParts DEF Sound
  <2>2. "write" \in Queued[k] => Waiting("write", k)
    BY <1>1 DEF KeyOps
  <2>3. (\E o \in WritesOf(k) : ~ o.written /\ ~ o.freed /\ o.crc = ram[k]) => Writing(k)
    BY DEF WritesOf, Ops, ToSet, Writing
  <2>4. "write" \in FailsOf(k) => Failed("write", k)
    BY DEF FailsOf, Evs, ToSet, Failed
  <2> QED BY <1>2, <2>1, <2>2, <2>3, <2>4 DEF Kept, OnItsWay
<1>3. ASSUME NEW k \in removed, flash[k] # << >>
      PROVE  Waiting("remove", k) \/ Deleting(k) \/ Failed("delete", k)
  <2>1. k \in Keys /\ Leaves(k)
    BY KeptParts, FollowsParts DEF Sound
  <2>2. "remove" \in Queued[k] => Waiting("remove", k)
    BY <1>1, <2>1 DEF KeyOps
  <2>3. 0..(Len(flash[k]) - 1) \subseteq PositionsOf(k) => Deleting(k)
    BY DEF PositionsOf, Ops, ToSet, Deleting
  <2>4. "delete" \in FailsOf(k) => Failed("delete", k)
    BY DEF FailsOf, Evs, ToSet, Failed
  <2> QED BY <1>3, <2>1, <2>2, <2>3, <2>4 DEF Leaves
<1> QED BY <1>2, <1>3 DEF NothingLost, NoLostWrite, NoLostRemoval

\* No request to write or to remove a key is lost, whatever is busy, fails, or is
\* cut short by a reset of the device.
THEOREM RequestsAreKept ==
  ASSUME Restrained, Retried
  PROVE  Spec => []NothingLost
BY KeptIsNothingLost, KeptInvariant, PTL

\* A write that was accepted stays on its way until flash has the value.
THEOREM AcceptedWritesAreKept ==
  ASSUME Restrained, Retried
  PROVE  Spec => AcceptedWritesStay
<1>1. NothingLost' =>
        [\A k \in Keys :
           /\ OnItsWay(k) /\ ram[k] \notin {Absent, FlashValue(k)}
           /\ ram'[k] = ram[k] /\ crashes' = crashes /\ ~ stateResetting'
           => OnItsWay(k)' \/ FlashValue(k)' = ram[k]]_vars
  BY DEF NothingLost, NoLostWrite
<1> QED BY <1>1, RequestsAreKept, PTL DEF AcceptedWritesStay

-----------------------------------------------------------------------------
(* Records that are all intact: the value of a key is its last record.     *)

ValueOf(s) == IF s = << >> THEN Default ELSE LastRecord(s)

LEMMA ValueRead ==
  ASSUME NEW s \in Seq(Value)
  PROVE  /\ s \in Seq(Record) /\ ValueOf(s) \in Value
         /\ (IF Readable(s) # {} THEN LastReadable(s) ELSE Default) = ValueOf(s)
<1>1. s \in Seq(Record)
  BY ElementOfSeq, LenProperties, SeqDef DEF Record
<1>2. CASE s = << >>
  <2>1. Readable(s) = {}
    BY <1>2 DEF Readable
  <2> QED BY <1>1, <1>2, <2>1, StateAssumption DEF ValueOf
<1>3. CASE s # << >>
  <2>1. LastRecord(s) \in Value
    BY <1>3, LenProperties, EmptySeq, ElementOfSeq DEF LastRecord
  <2> QED BY <1>1, <1>3, <2>1, LastIsRead DEF ValueOf
<1> QED BY <1>2, <1>3

LEMMA FlashValueIsLast ==
  ASSUME NEW k \in Keys
  PROVE  /\ flash[k] \in Seq(Value) => FlashValue(k) = ValueOf(flash[k]) /\ FlashValue(k) \in Value
         /\ flash'[k] \in Seq(Value) => FlashValue(k)' = ValueOf(flash'[k])
BY ValueRead DEF FlashValue, HasValue, ReadValue

\* A record is added.
LEMMA ValueAppended ==
  ASSUME NEW s \in Seq(Value), NEW v \in Value
  PROVE  Append(s, v) \in Seq(Value) /\ ValueOf(Append(s, v)) = v
<1>1. Append(s, v) \in Seq(Value)
  BY AppendProperties
<1>2. Append(s, v) # << >> /\ LastRecord(Append(s, v)) = v
  BY ValueRead, LastAppended
<1> QED BY <1>1, <1>2 DEF ValueOf

\* A record is deleted that is not the only one, nor the last.
LEMMA RecordDeleted ==
  ASSUME NEW s \in Seq(Value), NEW pos \in Nat
  PROVE  /\ DeleteRecord(s, pos) \in Seq(Value)
         /\ Len(DeleteRecord(s, pos)) = IF pos < Len(s) THEN Len(s) - 1 ELSE Len(s)
         /\ pos # 0 => ValueOf(DeleteRecord(s, pos)) = ValueOf(s)
         /\ s = << >> => DeleteRecord(s, pos) = << >>
         /\ pos = 0 /\ Len(s) = 1 => DeleteRecord(s, pos) = << >>
<1> DEFINE n == Len(s)
           t == DeleteRecord(s, pos)
<1>1. n \in Nat
  BY LenProperties
<1>2. CASE ~ (pos < n)
  BY <1>1, <1>2, EmptySeq DEF DeleteRecord
<1>3. CASE pos < n
  <2>1. t = RemoveAt(s, n - pos) /\ n - pos \in 1..n
    BY <1>1, <1>3 DEF DeleteRecord
  <2>2. /\ t \in Seq(Value) /\ Len(t) = n - 1
        /\ \A j \in 1..(n - 1) : t[j] = IF j < n - pos THEN s[j] ELSE s[j + 1]
    <3> HIDE DEF t
    <3> QED BY <2>1, RemoveAtFact
  <2> HIDE DEF t, n
  <2>3. s # << >> /\ (n = 1 => t = << >>)
    BY <1>1, <1>3, <2>2, EmptySeq DEF n
  <2>4. ASSUME pos # 0 PROVE ValueOf(t) = ValueOf(s)
    <3>1. n - 1 \in 1..(n - 1) /\ ~ (n - 1 < n - pos) /\ (n - 1) + 1 = n
      BY <1>1, <1>3, <2>4
    <3>2. t[n - 1] = s[n]
      BY <2>2, <3>1
    <3>3. t # << >>
      BY <2>2, <3>1, EmptySeq
    <3> QED BY <2>2, <2>3, <3>2, <3>3 DEF ValueOf, LastRecord, n
  <2> QED BY <1>3, <2>2, <2>3, <2>4 DEF t, n
<1> QED BY <1>2, <1>3

-----------------------------------------------------------------------------
(* The steps of the store.                                                 *)

MemOf(k) == IF ram[k] # Absent THEN ram[k]
            ELSE IF k \in removed THEN Default ELSE FlashValue(k)

LEMMA StoreStutters ==
  ASSUME \A j \in Keys : MemOf(j)' = MemOf(j) /\ FlashValue(j)' = FlashValue(j)
  PROVE  UNCHANGED Store!storeVars
BY DEF Store!storeVars, MemOf

LEMMA StoreChanges ==
  ASSUME NEW k \in Keys, NEW v \in Value, MemOf(k)' = v,
         \A j \in Keys : j # k => MemOf(j)' = MemOf(j),
         \A j \in Keys : FlashValue(j)' = FlashValue(j)
  PROVE  Store!Next
<1>1. Store!Change(k, v)
  BY DEF Store!Change, MemOf
<1> QED BY <1>1 DEF Store!Next

LEMMA StoreFlushes ==
  ASSUME NEW k \in Keys, FlashValue(k)' = MemOf(k),
         \A j \in Keys : j # k => FlashValue(j)' = FlashValue(j),
         \A j \in Keys : MemOf(j)' = MemOf(j)
  PROVE  Store!Next
<1>1. Store!Flush(k)
  BY DEF Store!Flush, MemOf
<1> QED BY <1>1 DEF Store!Next

LEMMA StoreRestarts ==
  ASSUME \A j \in Keys : MemOf(j)' = FlashValue(j) /\ FlashValue(j)' = FlashValue(j)
  PROVE  Store!Next
<1>1. Store!Restart
  BY DEF Store!Restart, MemOf
<1> QED BY <1>1 DEF Store!Next

-----------------------------------------------------------------------------
(* The inductive invariant: what FDS still has to do is what State wants.  *)

\* On top of Restrained: a key that FDS is writing or removing is not changed,
\* and FDS does not fail to delete a record.
Orderly ==
  /\ Restrained
  /\ "overwrite" \notin Env
  /\ MaxFailures = 0 \/ RemovableKeys = {}

\* The newest of the records that will be deleted has an older one with it: they
\* go from the oldest on.
FromOldest(k) ==
  \A p \in PositionsOf(k) : \A q \in (p + 1)..(Len(flash[k]) - 1) : q \in PositionsOf(k)

Intact(k) ==
  /\ flash[k] \in Seq(Value)
  /\ \A o \in WritesOf(k) : ~ o.written => ~ o.freed /\ o.crc = ram[k]
  /\ PositionsOf(k) # {} => k \in removed /\ WritesOf(k) = {}
  /\ FromOldest(k)

StoreInv == FollowsInv /\ Ordered /\ \A k \in Keys : Intact(k)

StoreStep ==
  /\ Ordered' /\ \A k \in Keys : Intact(k)'
  /\ Store!Next \/ UNCHANGED Store!storeVars

LEMMA SameKey ==
  ASSUME NEW k \in Keys, Intact(k), SameHand(k), flash'[k] = flash[k], ram'[k] = ram[k],
         k \in removed' <=> k \in removed
  PROVE  Intact(k)' /\ MemOf(k)' = MemOf(k) /\ FlashValue(k)' = FlashValue(k)
<1>1. Intact(k)'
  BY DEF Intact, FromOldest, SameHand
<1>2. FlashValue(k)' = FlashValue(k)
  BY DEF FlashValue, HasValue, ReadValue
<1> QED BY <1>1, <1>2 DEF MemOf

LEMMA SameStore ==
  ASSUME StoreInv, UNCHANGED <<ram, removed, flash>>, Ordered',
         \A k \in Keys : SameHand(k)
  PROVE  StoreStep
<1>1. \A k \in Keys : Intact(k)' /\ MemOf(k)' = MemOf(k) /\ FlashValue(k)' = FlashValue(k)
  BY SameKey DEF StoreInv
<1> QED BY <1>1, StoreStutters DEF StoreStep

LEMMA NotInHand ==
  ASSUME "overwrite" \notin Env, NEW k \in Keys, MayChange(k)
  PROVE  /\ \A o \in WritesOf(k) : o.written
         /\ PositionsOf(k) = {} /\ ~ BeingWritten(k)
BY DEF MayChange, BeingWritten, BeingRemoved, WritesOf, PositionsOf, Ops, ToSet

\* A new value.
LEMMA ValueSet ==
  ASSUME StoreInv, Orderly, NEW k \in Keys, NEW v \in Value, MaySet(k), StoreInRam(k, v),
         Ordered', UNCHANGED flash, \A j \in Keys : j # k => SameHand(j),
         SameHand(k) \/ WriteOf(k)
  PROVE  StoreStep
<1>1. /\ ram' = [ram EXCEPT ![k] = v] /\ removed' = removed \ {k}
      /\ ram \in [Keys -> Value \cup {Absent}] /\ Intact(k)
      /\ MayChange(k) /\ "overwrite" \notin Env
  BY FollowsParts DEF StoreInv, StoreInRam, MaySet, Orderly
<1>2. \A j \in Keys :
        j # k => Intact(j)' /\ MemOf(j)' = MemOf(j) /\ FlashValue(j)' = FlashValue(j)
  BY <1>1, SameKey DEF StoreInv
<1>3. FlashValue(k)' = FlashValue(k)
  BY DEF FlashValue, HasValue, ReadValue
<1>4. ram'[k] = v /\ MemOf(k)' = v
  BY <1>1, StorageAssumption DEF MemOf
<1>5. PositionsOf(k)' = {} /\ \A o \in WritesOf(k)' : ~ o.written => ~ o.freed /\ o.crc = ram'[k]
  <2>1. CASE SameHand(k)
    BY <1>1, <2>1, NotInHand DEF SameHand
  <2>2. CASE WriteOf(k)
    BY <2>2 DEF WriteOf
  <2> QED BY <2>1, <2>2
<1>6. Intact(k)'
  BY <1>1, <1>5 DEF Intact, FromOldest
<1> QED BY <1>2, <1>3, <1>4, <1>6, StoreChanges DEF StoreStep

LEMMA AppSetStore ==
  ASSUME StoreInv, Orderly, NEW k \in Keys, NEW v \in Value,
         Set(k, v) \/ SetDelayed(k, v) \/ SetThrottled(k, v)
  PROVE  StoreStep
<1>1. MaySet(k) /\ StoreInRam(k, v) /\ ram'[k] \in Value /\ FollowsInv /\ Ordered
  <2>1. MaySet(k) /\ StoreInRam(k, v)
    BY DEF Set, SetDelayed, SetThrottled
  <2> QED BY <2>1, FollowsParts DEF StoreInRam, StoreInv
<1>2. \/ UNCHANGED storageVars
      \/ \E ret \in Ret : StoreInFlash(k, ret)
  BY DEF Set, SetDelayed, SetThrottled
<1>3. CASE UNCHANGED storageVars
  BY <1>1, <1>3, StorageUnchangedOps, ValueSet
<1>4. CASE \E ret \in Ret : StoreInFlash(k, ret)
  <2>1. PICK ret : StoreInFlash(k, ret)
    BY <1>4
  <2> QED BY <1>1, <2>1, StoreInFlashHand, ValueSet
<1> QED BY <1>2, <1>3, <1>4

\* A removal, or the retry of one.
LEMMA KeyRemoved ==
  ASSUME StoreInv, NEW k \in Keys, k \in removed', ram'[k] \in {Absent, ram[k]},
         \A o \in WritesOf(k) : o.written,
         UNCHANGED flash, WritesOf(k)' = WritesOf(k),
         PositionsOf(k) # {} => k \in removed, SameHand(k) \/ DeletesOf(k)
  PROVE  Intact(k)'
<1>1. Intact(k) /\ Len(flash[k]) \in Nat
  BY FollowsParts, LengthOfFlash DEF StoreInv
<1>2. CASE SameHand(k)
  BY <1>1, <1>2 DEF SameHand, Intact, FromOldest
<1>3. CASE DeletesOf(k)
  <2>1. PICK n \in 0..Len(flash[k]) :
          PositionsOf(k)' = (Len(flash[k]) - n)..(Len(flash[k]) - 1)
    BY <1>3 DEF DeletesOf
  <2>2. FromOldest(k)'
    BY <1>1, <2>1 DEF FromOldest
  <2> QED BY <1>1, <1>3, <2>2 DEF Intact, DeletesOf
<1> QED BY <1>2, <1>3

LEMMA RemoveValueStore ==
  ASSUME StoreInv, Orderly, NEW k \in RemovableKeys, RemoveValue(k)
  PROVE  StoreStep
<1>1. /\ k \in Keys /\ MayChange(k) /\ "overwrite" \notin Env /\ Intact(k)
      /\ ram' = [ram EXCEPT ![k] = Absent] /\ removed' = removed \cup {k}
      /\ FollowsInv /\ Ordered /\ ram \in [Keys -> Value \cup {Absent}]
  BY FollowsParts, StateAssumption DEF RemoveValue, StoreInv, Orderly
<1>2. /\ \A o \in WritesOf(k) : o.written
      /\ PositionsOf(k) = {} /\ ~ BeingWritten(k)
  BY <1>1, NotInHand
<1>3. PICK ret : RemoveFromFlash(k, ret)
  BY <1>2 DEF RemoveValue
<1>4. /\ \A j \in Keys : j # k => SameHand(j)
      /\ WritesOf(k)' = WritesOf(k) /\ Ordered' /\ UNCHANGED flash
      /\ SameHand(k) \/ DeletesOf(k)
  BY <1>1, <1>3, RemoveFromFlashHand
<1>5. \A j \in Keys :
        j # k => Intact(j)' /\ MemOf(j)' = MemOf(j) /\ FlashValue(j)' = FlashValue(j)
  BY <1>1, <1>4, SameKey DEF StoreInv
<1>6. FlashValue(k)' = FlashValue(k)
  BY <1>4 DEF FlashValue, HasValue, ReadValue
<1>7. ram'[k] = Absent /\ k \in removed' /\ MemOf(k)' = Default /\ Default \in Value
  BY <1>1, StateAssumption DEF MemOf
<1>8. Intact(k)'
  BY <1>1, <1>2, <1>4, <1>7, KeyRemoved
<1> QED BY <1>1, <1>4, <1>5, <1>6, <1>7, <1>8, StoreChanges DEF StoreStep

\* The first read finds the value the key already has for the store.
LEMMA GetStore ==
  ASSUME StoreInv, Orderly, NEW k \in Keys, Get(k)
  PROVE  StoreStep
<1>1. /\ k \notin removed /\ removed' = removed /\ ~ startedWritingToFlash /\ ram[k] = Absent
      /\ UNCHANGED storageVars /\ FollowsInv /\ Ordered
      /\ ram' = [ram EXCEPT ![k] = IF ReadSucceeds(k) THEN ReadValue(k) ELSE Default]
      /\ ram \in [Keys -> Value \cup {Absent}] /\ Intact(k)
  BY FollowsParts DEF Get, MayReadFirst, Restrained, Orderly, StoreInv
<1>2. ~ IsBusyType(TypeOf[k])
  BY <1>1, EarlyNotBusy
<1>3. /\ \A j \in Keys : SameHand(j)
      /\ Ordered' /\ UNCHANGED flash
  BY <1>1, StorageUnchangedOps
<1>4. FlashValue(k)' = FlashValue(k) /\ FlashValue(k) \in Value
  <2>1. FlashValue(k)' = FlashValue(k)
    BY <1>3 DEF FlashValue, HasValue, ReadValue
  <2> QED BY <1>1, <2>1, FlashValueIsLast DEF Intact
<1>5. ram'[k] = FlashValue(k)
  <2>1. ram'[k] = IF ReadSucceeds(k) THEN ReadValue(k) ELSE Default
    BY <1>1
  <2> QED BY <1>2, <2>1 DEF ReadSucceeds, FlashValue
<1>6. MemOf(k)' = MemOf(k)
  BY <1>1, <1>4, <1>5, StorageAssumption DEF MemOf
<1>7. Intact(k)'
  <2>1. WritesOf(k)' = {}
    BY <1>1, <1>2, <1>3, NothingOfKey DEF SameHand
  <2> QED BY <1>1, <1>3, <2>1 DEF Intact, FromOldest, SameHand
<1>8. \A j \in Keys :
        j # k => Intact(j)' /\ MemOf(j)' = MemOf(j) /\ FlashValue(j)' = FlashValue(j)
  BY <1>1, <1>3, SameKey DEF StoreInv
<1> QED BY <1>3, <1>4, <1>6, <1>7, <1>8, StoreStutters DEF StoreStep

LEMMA CleanUpStore ==
  ASSUME StoreInv, CleanUp
  PROVE  StoreStep
<1>1. UNCHANGED <<ram, removed>> /\ FlashTypeOK /\ Ordered
  BY FollowsParts DEF CleanUp, StoreInv
<1>2. PICK ret : GarbageCollect(ret)
  BY DEF CleanUp
<1>3. Ordered' /\ UNCHANGED flash /\ \A k \in Keys : SameHand(k)
  BY <1>1, <1>2, GarbageCollectOps
<1> QED BY <1>1, <1>3, SameStore

\* A tick hands FDS the value that is in RAM, or deletes of a key that was removed.
LEMMA TickItemStore ==
  ASSUME StoreInv, Orderly, TickItem
  PROVE  StoreStep
<1> DEFINE item == storeQueue[cursor]
<1>1. cursor \in DOMAIN storeQueue /\ item \in QueueItem
  BY InvParts, FollowsParts, LenProperties, ElementOfSeq
     DEF TickItem, MainLoopIdle, StoreInv, FollowsInv, QueueOK
<1>2. /\ item.operation \in KeyOps => item.key \in Keys /\ item.operation \in Queued[item.key]
      /\ item.operation \notin KeyOps => item.operation = "gc"
  <2>1. /\ item.operation \in KeyOps => item.key \in Keys
        /\ item.operation \notin KeyOps => item.operation \in {"factoryReset", "gc"}
    BY <1>1 DEF QueueItem, KeyOps
  <2>2. item.operation \in {"factoryReset", "gc"} => item.operation \in Special
    BY <1>1 DEF Special
  <2>3. item.operation \in KeyOps => item.operation \in Queued[item.key]
    BY <1>1, <2>1 DEF Queued, Waits
  <2> HIDE DEF item
  <2> QED BY <2>1, <2>2, <2>3 DEF StoreInv, FollowsInv, Follows, NoReset
<1>3. UNCHANGED <<ram, removed>> /\ FollowsInv /\ Ordered /\ FlashTypeOK
  BY FollowsParts DEF TickItem, StoreInv
<1>4. CASE UNCHANGED storageVars
  BY <1>3, <1>4, StorageUnchangedOps, SameStore
<1>5. ASSUME NEW keep \in BOOLEAN, Execute(item, keep)
      PROVE  StoreStep
  <2>1. CASE UNCHANGED storageVars
    BY <1>4, <2>1
  <2>2. CASE item.operation = "gc" /\ \E ret \in Ret \cup {"NOT_FOUND"} : GarbageCollect(ret)
    <3>1. PICK ret : GarbageCollect(ret)
      BY <2>2
    <3> QED BY <1>3, <3>1, GarbageCollectOps, SameStore
  <2>3. ASSUME NEW k \in Keys, Ordered', UNCHANGED flash, Intact(k)',
               \A j \in Keys : j # k => SameHand(j)
        PROVE  StoreStep
    <3>1. \A j \in Keys : MemOf(j)' = MemOf(j) /\ FlashValue(j)' = FlashValue(j)
      BY <1>3, <2>3 DEF MemOf, FlashValue, HasValue, ReadValue
    <3>2. \A j \in Keys : Intact(j)'
      BY <1>3, <2>3, SameKey DEF StoreInv
    <3> QED BY <2>3, <3>1, <3>2, StoreStutters DEF StoreStep
  <2>4. ASSUME NEW k \in Keys, k = item.key, item.operation = "write", ram[k] # Absent,
               NEW ret, StoreInFlash(k, ret)
        PROVE  StoreStep
    <3>1. ram'[k] \in Value /\ Intact(k)
      BY <1>3, <2>4, FollowsParts DEF StoreInv
    <3>2. /\ \A j \in Keys : j # k => SameHand(j)
          /\ Ordered' /\ UNCHANGED flash
          /\ SameHand(k) \/ WriteOf(k)
      BY <1>3, <2>4, <3>1, StoreInFlashHand
    <3>3. Intact(k)'
      BY <1>3, <3>1, <3>2 DEF Intact, FromOldest, SameHand, WriteOf
    <3> QED BY <2>3, <3>2, <3>3
  <2>5. ASSUME NEW k \in Keys, k = item.key, item.operation = "remove",
               NEW ret, RemoveFromFlash(k, ret)
        PROVE  StoreStep
    <3>1. /\ \A j \in Keys : j # k => SameHand(j)
          /\ WritesOf(k)' = WritesOf(k) /\ Ordered' /\ UNCHANGED flash
          /\ SameHand(k) \/ DeletesOf(k)
      BY <1>3, <2>5, RemoveFromFlashHand
    <3>2. k \in removed
      BY <1>2, <2>5 DEF StoreInv, FollowsInv, Follows, Settled, KeyOps
    <3>3. Intact(k)'
      <4>1. CASE SameHand(k)
        BY <1>3, <3>1, <4>1, SameKey DEF StoreInv
      <4>2. CASE DeletesOf(k)
        <5>1. \A o \in WritesOf(k) : o.written
          BY <4>2 DEF DeletesOf
        <5> QED BY <1>3, <3>1, <3>2, <5>1, KeyRemoved
      <4> QED BY <3>1, <4>1, <4>2
    <3> QED BY <2>3, <3>1, <3>3
  <2>6. \/ UNCHANGED storageVars
        \/ item.operation = "gc" /\ \E ret \in Ret \cup {"NOT_FOUND"} : GarbageCollect(ret)
        \/ /\ item.operation = "write" /\ ram[item.key] # Absent
           /\ \E ret \in Ret \cup {"NOT_FOUND"} : StoreInFlash(item.key, ret)
        \/ /\ item.operation = "remove"
           /\ \E ret \in Ret \cup {"NOT_FOUND"} : RemoveFromFlash(item.key, ret)
    <3>1. item.operation # "factoryReset"
      BY <1>2 DEF KeyOps
    <3> HIDE DEF item
    <3> QED BY <1>5, <3>1 DEF Execute
  <2>7. item.operation \in {"write", "remove"} => item.key \in Keys
    BY <1>2 DEF KeyOps
  <2> QED BY <2>1, <2>2, <2>4, <2>5, <2>6, <2>7
<1>6. UNCHANGED storageVars \/ \E keep \in BOOLEAN : Execute(item, keep)
  BY DEF TickItem
<1> QED BY <1>4, <1>5, <1>6

LEMMA HandleEventStore ==
  ASSUME StoreInv, HandleEvent
  PROVE  StoreStep
<1>1. UNCHANGED <<ram, removed, flash>> /\ ~ storageResetting /\ Ordered
  BY DEF HandleEvent, HandleWriteEvent, HandleRemoveRecordEvent,
         HandleGarbageCollectionEvent, TakeEvent, StoreInv, FollowsInv, Follows, NoReset
<1>2. UNCHANGED fdsQueue
  BY <1>1 DEF HandleEvent, HandleWriteEvent, HandleRemoveRecordEvent,
         HandleGarbageCollectionEvent, EventFailed
<1>3. Ordered' /\ \A k \in Keys : WritesOf(k)' = WritesOf(k) /\ PositionsOf(k)' = PositionsOf(k)
  BY <1>1, <1>2, OpsSame
<1>4. \A k \in Keys : MemOf(k)' = MemOf(k) /\ FlashValue(k)' = FlashValue(k)
  BY <1>1 DEF MemOf, FlashValue, HasValue, ReadValue
<1>5. \A k \in Keys : Intact(k)'
  BY <1>1, <1>3 DEF StoreInv, Intact, FromOldest
<1> QED BY <1>3, <1>4, <1>5, StoreStutters DEF StoreStep

-----------------------------------------------------------------------------
(* FDS at work.                                                            *)

LEMMA FdsHead ==
  ASSUME StoreInv, fdsQueue # << >>, NEW op, op = Head(fdsQueue)
  PROVE  /\ op \in FdsOp /\ op \in Ops /\ FlashTypeOK
         /\ op.op = "write" =>
              /\ op \in FdsWrite /\ op.key \in Keys /\ op \in WritesOf(op.key)
              /\ PositionsOf(op.key) = {}
         /\ op.op = "delete" =>
              /\ op \in FdsDelete /\ op.key \in Keys /\ op.pos \in Nat
              /\ op.pos \in PositionsOf(op.key)
<1>1. FlashTypeOK /\ op \in FdsOp /\ op \in Ops
  BY FollowsParts, ElementsTail DEF StoreInv, FlashTypeOK, Ops
<1>2. op.op = "write" => op \in FdsWrite /\ op.key \in Keys /\ op \in WritesOf(op.key)
  BY <1>1, OpKinds DEF FdsWrite, WritesOf
<1>3. op.op = "write" => PositionsOf(op.key) = {}
  BY <1>2 DEF StoreInv, Intact
<1>4. op.op = "delete" => op \in FdsDelete /\ op.key \in Keys /\ op.pos \in Nat
  BY <1>1, OpKinds DEF FdsDelete
<1>5. op.op = "delete" => op.pos \in PositionsOf(op.key)
  BY <1>1, <1>4 DEF PositionsOf
<1> QED BY <1>1, <1>2, <1>3, <1>4, <1>5

\* Keys other than that of the operation keep what they have.
LEMMA OtherKey ==
  ASSUME StoreInv, UNCHANGED <<ram, removed>>, NEW j \in Keys, flash'[j] = flash[j],
         WritesOf(j)' = WritesOf(j), PositionsOf(j)' = PositionsOf(j)
  PROVE  Intact(j)' /\ MemOf(j)' = MemOf(j) /\ FlashValue(j)' = FlashValue(j)
<1>1. Intact(j)'
  BY DEF StoreInv, Intact, FromOldest
<1>2. FlashValue(j)' = FlashValue(j)
  BY DEF FlashValue, HasValue, ReadValue
<1> QED BY <1>1, <1>2 DEF MemOf

\* A write puts the value of RAM in flash.
LEMMA FdsStoreRecordStore ==
  ASSUME StoreInv, UNCHANGED <<ram, removed>>, FdsStoreRecord
  PROVE  StoreStep
<1> DEFINE op == Head(fdsQueue)
<1>1. /\ fdsQueue # << >> /\ op.op = "write" /\ ~ op.written
      /\ \/ fdsQueue' = [fdsQueue EXCEPT ![1].written = TRUE]
         \/ fdsQueue' = Tail(fdsQueue)
  BY DEF FdsStoreRecord
<1>2. PICK rec \in Written(op) : flash' = [flash EXCEPT ![op.key] = Append(@, rec)]
  BY DEF FdsStoreRecord
<1>3. /\ op \in FdsWrite /\ op.key \in Keys /\ op \in WritesOf(op.key)
      /\ PositionsOf(op.key) = {} /\ FlashTypeOK /\ op.crc \in Value
  <2>1. /\ op \in FdsWrite /\ op.key \in Keys /\ op \in WritesOf(op.key)
        /\ PositionsOf(op.key) = {} /\ FlashTypeOK
    BY <1>1, FdsHead
  <2> QED BY <2>1 DEF FdsWrite
<1>4. /\ Ordered'
      /\ \A j \in Keys : PositionsOf(j)' = PositionsOf(j)
      /\ \A j \in Keys : IF j # op.key THEN WritesOf(j)' = WritesOf(j)
                         ELSE \A o \in WritesOf(j)' : o \in WritesOf(j) \/ o.written
  <2>1. CASE fdsQueue' = [fdsQueue EXCEPT ![1].written = TRUE]
    BY <1>1, <1>3, <2>1, OpsMark DEF StoreInv
  <2>2. CASE fdsQueue' = Tail(fdsQueue)
    BY <1>1, <1>3, <2>2, OpsTail DEF StoreInv
  <2> QED BY <1>1, <2>1, <2>2
<1> HIDE DEF op
<1>5. ASSUME NEW k \in Keys, k = op.key PROVE StoreStep
  <2>1. Intact(k) /\ ~ op.freed /\ op.crc = ram[k]
    BY <1>1, <1>3, <1>5 DEF StoreInv, Intact
  <2>2. rec = ram[k] /\ ram[k] \in Value /\ flash[k] \in Seq(Value)
    BY <1>2, <1>3, <1>5, <2>1 DEF Written, Intact
  <2>3. flash'[k] = Append(flash[k], ram[k])
    BY <1>2, <1>3, <1>5, <2>2 DEF FlashTypeOK
  <2>4. flash'[k] \in Seq(Value) /\ FlashValue(k)' = ram[k]
    BY <2>2, <2>3, ValueAppended, FlashValueIsLast
  <2>5. MemOf(k) = ram[k] /\ MemOf(k)' = ram[k]
    BY <2>2, StorageAssumption DEF MemOf
  <2>6. Intact(k)'
    BY <1>3, <1>4, <1>5, <2>1, <2>4 DEF Intact, FromOldest
  <2>7. \A j \in Keys : j # k => flash'[j] = flash[j]
    BY <1>2, <1>3, <1>5 DEF FlashTypeOK
  <2>8. \A j \in Keys :
          j # k => Intact(j)' /\ MemOf(j)' = MemOf(j) /\ FlashValue(j)' = FlashValue(j)
    BY <1>4, <1>5, <2>7, OtherKey
  <2> QED BY <1>4, <2>4, <2>5, <2>6, <2>8, StoreFlushes DEF StoreStep
<1> QED BY <1>3, <1>5

\* The record that is deleted after an update is the one before the last.
LEMMA FdsDeleteOldStore ==
  ASSUME StoreInv, UNCHANGED <<ram, removed>>, FdsDeleteOld
  PROVE  StoreStep
<1> DEFINE op == Head(fdsQueue)
<1>1. /\ fdsQueue # << >> /\ op.op = "write" /\ fdsQueue' = Tail(fdsQueue)
      /\ flash' = [flash EXCEPT ![op.key] = DeleteRecord(@, 1)]
  BY DEF FdsDeleteOld
<1>2. op.key \in Keys /\ PositionsOf(op.key) = {} /\ FlashTypeOK
  BY <1>1, FdsHead
<1>3. /\ Ordered'
      /\ \A j \in Keys : PositionsOf(j)' = PositionsOf(j) /\ WritesOf(j)' \subseteq WritesOf(j)
      /\ \A j \in Keys : j # op.key => WritesOf(j)' = WritesOf(j)
  BY <1>1, <1>2, OpsTail DEF StoreInv
<1> HIDE DEF op
<1>4. ASSUME NEW k \in Keys, k = op.key PROVE StoreStep
  <2>1. Intact(k) /\ flash[k] \in Seq(Value) /\ flash'[k] = DeleteRecord(flash[k], 1)
    BY <1>1, <1>2, <1>4 DEF StoreInv, Intact, FlashTypeOK
  <2>2. flash'[k] \in Seq(Value) /\ ValueOf(flash'[k]) = ValueOf(flash[k])
    BY <2>1, RecordDeleted
  <2>3. FlashValue(k)' = FlashValue(k)
    BY <2>1, <2>2, FlashValueIsLast
  <2>4. MemOf(k)' = MemOf(k)
    BY <2>3 DEF MemOf
  <2>5. Intact(k)'
    BY <1>2, <1>3, <1>4, <2>1, <2>2 DEF Intact, FromOldest
  <2>6. \A j \in Keys : j # k => flash'[j] = flash[j]
    BY <1>1, <1>2, <1>4 DEF FlashTypeOK
  <2>7. \A j \in Keys :
          j # k => Intact(j)' /\ MemOf(j)' = MemOf(j) /\ FlashValue(j)' = FlashValue(j)
    BY <1>3, <1>4, <2>6, OtherKey
  <2> QED BY <1>3, <2>3, <2>4, <2>5, <2>7, StoreStutters DEF StoreStep
<1> QED BY <1>2, <1>4

\* A delete takes the oldest record, so that the value in flash stays until the
\* last one goes, and the key is back to its default then.
LEMMA FdsDeleteRecordStore ==
  ASSUME StoreInv, UNCHANGED <<ram, removed>>, FdsDeleteRecord
  PROVE  StoreStep
<1> DEFINE op == Head(fdsQueue)
<1>1. /\ fdsQueue # << >> /\ op.op = "delete" /\ fdsQueue' = Tail(fdsQueue)
      /\ flash' = [flash EXCEPT ![op.key] = DeleteRecord(@, op.pos)]
  BY DEF FdsDeleteRecord
<1>2. op.key \in Keys /\ op.pos \in Nat /\ op.pos \in PositionsOf(op.key) /\ FlashTypeOK
  BY <1>1, FdsHead
<1>3. /\ Ordered'
      /\ \A j \in Keys : WritesOf(j)' = WritesOf(j) /\ PositionsOf(j)' \subseteq PositionsOf(j)
      /\ \A j \in Keys : j # op.key => PositionsOf(j)' = PositionsOf(j)
      /\ \A j \in Keys : j = op.key =>
           /\ PositionsOf(j) \subseteq PositionsOf(j)' \cup {op.pos}
           /\ \A p \in PositionsOf(j)' : op.pos > p
  BY <1>1, <1>2, OpsTail DEF StoreInv
<1> HIDE DEF op
<1>4. ASSUME NEW k \in Keys, k = op.key PROVE StoreStep
  <2> DEFINE s == flash[k]
             t == flash'[k]
             n == Len(s)
  <2>1. Intact(k) /\ s \in Seq(Value) /\ t = DeleteRecord(s, op.pos) /\ n \in Nat
    BY <1>1, <1>2, <1>4, LengthOfFlash DEF StoreInv, Intact, FlashTypeOK
  <2>2. k \in removed /\ WritesOf(k) = {} /\ ram[k] = Absent
    BY <1>2, <1>4, <2>1 DEF Intact, StoreInv, FollowsInv, Follows, Settled
  <2>3. /\ t \in Seq(Value) /\ Len(t) = (IF op.pos < n THEN n - 1 ELSE n)
        /\ op.pos # 0 => ValueOf(t) = ValueOf(s)
        /\ s = << >> => t = << >>
        /\ op.pos = 0 /\ n = 1 => t = << >>
    BY <1>2, <2>1, RecordDeleted
  <2> HIDE DEF s, t, n
  <2>4. op.pos < n => op.pos = n - 1
    <3>1. ASSUME op.pos + 1 \in (op.pos + 1)..(n - 1) PROVE FALSE
      <4>1. op.pos + 1 \in PositionsOf(k)
        BY <1>2, <1>4, <2>1, <3>1 DEF Intact, FromOldest, n, s
      <4>2. op.pos + 1 \in PositionsOf(k)'
        BY <1>2, <1>3, <1>4, <4>1
      <4> QED BY <1>2, <1>3, <1>4, <4>2
    <3> QED BY <1>2, <2>1, <3>1
  <2>5. FromOldest(k)'
    <3>1. ASSUME NEW p \in PositionsOf(k)', NEW q \in (p + 1)..(Len(t) - 1)
          PROVE  q \in PositionsOf(k)'
      <4>1. p \in Nat /\ p \in PositionsOf(k)
        BY <1>3, <3>1 DEF PositionsOf
      <4>2. q \in (p + 1)..(n - 1) /\ q # op.pos
        BY <1>2, <2>1, <2>3, <2>4, <3>1, <4>1
      <4>3. q \in PositionsOf(k)
        BY <2>1, <4>1, <4>2 DEF Intact, FromOldest, n, s
      <4> QED BY <1>3, <1>4, <4>2, <4>3
    <3> QED BY <3>1 DEF FromOldest, t
  <2>6. Intact(k)'
    BY <1>3, <2>2, <2>3, <2>5 DEF Intact, t
  <2>7. MemOf(k)' = Default /\ MemOf(k) = Default
    BY <2>2 DEF MemOf
  <2>8. FlashValue(k) = ValueOf(s) /\ FlashValue(k)' = ValueOf(t)
    BY <2>1, <2>3, FlashValueIsLast DEF s, t
  <2>9. FlashValue(k)' = FlashValue(k) \/ FlashValue(k)' = Default
    <3>1. CASE op.pos # 0
      BY <2>3, <2>8, <3>1
    <3>2. CASE op.pos = 0
      <4>1. n = 0 \/ n = 1
        BY <2>1, <2>4, <3>2
      <4>2. n = 0 => s = << >>
        BY <2>1, EmptySeq DEF n, s
      <4> QED BY <2>3, <2>8, <3>2, <4>1, <4>2 DEF ValueOf
    <3> QED BY <3>1, <3>2
  <2>10. \A j \in Keys : j # k => flash'[j] = flash[j]
    BY <1>1, <1>2, <1>4 DEF FlashTypeOK
  <2>11. \A j \in Keys :
          j # k => Intact(j)' /\ MemOf(j)' = MemOf(j) /\ FlashValue(j)' = FlashValue(j)
    BY <1>3, <1>4, <2>10, OtherKey
  <2>12. Store!Next \/ UNCHANGED Store!storeVars
    <3>1. CASE FlashValue(k)' = FlashValue(k)
      BY <2>7, <2>11, <3>1, StoreStutters
    <3>2. CASE FlashValue(k)' = Default
      BY <2>7, <2>11, <3>2, StoreFlushes
    <3> QED BY <2>9, <3>1, <3>2
  <2> QED BY <1>3, <2>6, <2>11, <2>12 DEF StoreStep
<1> QED BY <1>2, <1>4

\* Only a write can fail when keys are removed nowhere, and it leaves the flash
\* as it is.
LEMMA FdsOtherStore ==
  ASSUME StoreInv, Orderly, UNCHANGED <<ram, removed>>, FdsCollect \/ FdsFail
  PROVE  StoreStep
<1> DEFINE op == Head(fdsQueue)
<1>1. /\ fdsQueue # << >> /\ fdsQueue' = Tail(fdsQueue) /\ UNCHANGED flash
      /\ op.op = "gc" \/ failures < MaxFailures
  BY DEF FdsCollect, FdsFail
<1>2. op.op # "delete"
  <2>1. ASSUME op.op = "delete" PROVE FALSE
    <3>1. MaxFailures # 0
      BY <1>1, <2>1, FollowsParts, StorageAssumption DEF StoreInv, FlashTypeOK
    <3>2. op.key \in Keys /\ op.key \in HandKeys("delete")
      BY <1>1, <2>1, FdsHead, HandOfKey
    <3>3. op.key \in RemovableKeys
      BY <3>2 DEF StoreInv, FollowsInv, Follows, Settled
    <3> QED BY <3>1, <3>3 DEF Orderly
  <2> QED BY <2>1
<1>3. /\ Ordered'
      /\ \A j \in Keys : WritesOf(j)' \subseteq WritesOf(j) /\ PositionsOf(j)' = PositionsOf(j)
  BY <1>1, <1>2, OpsTail, FollowsParts DEF StoreInv
<1>4. \A j \in Keys : MemOf(j)' = MemOf(j) /\ FlashValue(j)' = FlashValue(j)
  BY <1>1 DEF MemOf, FlashValue, HasValue, ReadValue
<1>5. \A j \in Keys : Intact(j)'
  BY <1>1, <1>3 DEF StoreInv, Intact, FromOldest
<1> QED BY <1>3, <1>4, <1>5, StoreStutters DEF StoreStep

LEMMA FdsStore ==
  ASSUME StoreInv, Orderly, Fds
  PROVE  StoreStep
<1>1. UNCHANGED <<ram, removed>> /\ FdsStep
  BY DEF Fds, stateVars
<1> QED BY <1>1, FdsStoreRecordStore, FdsDeleteOldStore, FdsDeleteRecordStore,
           FdsOtherStore DEF FdsStep

\* A reset takes every key back to what flash has.
LEMMA RebootStore ==
  ASSUME StoreInv, Reboot
  PROVE  StoreStep
<1>1. /\ fdsQueue' = << >> /\ removed' = {} /\ UNCHANGED flash
      /\ ram' = [k \in Keys |-> Absent]
  BY DEF Reboot, StorageBoot
<1>2. Ordered' /\ \A k \in Keys : WritesOf(k)' = {} /\ PositionsOf(k)' = {}
  BY <1>1 DEF Ordered, WritesOf, PositionsOf, Ops, ToSet
<1>3. \A k \in Keys : FlashValue(k)' = FlashValue(k)
  BY <1>1 DEF FlashValue, HasValue, ReadValue
<1>4. \A k \in Keys : MemOf(k)' = FlashValue(k)
  BY <1>1, <1>3 DEF MemOf
<1>5. \A k \in Keys : Intact(k)'
  BY <1>1, <1>2 DEF StoreInv, Intact, FromOldest
<1> QED BY <1>2, <1>3, <1>4, <1>5, StoreRestarts DEF StoreStep

-----------------------------------------------------------------------------
(* The refinement.                                                         *)

LEMMA StoreInvInit ==
  ASSUME Init, FollowsInv
  PROVE  StoreInv /\ Store!Init
<1>1. /\ ram = [k \in Keys |-> Absent] /\ removed = {} /\ fdsQueue = << >>
      /\ flash \in [Keys -> {<< >>} \cup {<<v>> : v \in Value}]
  BY DEF Init, StorageInit
<1>2. Ordered /\ \A k \in Keys : WritesOf(k) = {} /\ PositionsOf(k) = {}
  BY <1>1 DEF Ordered, WritesOf, PositionsOf, Ops, ToSet
<1>3. \A k \in Keys : flash[k] \in Seq(Value)
  <2>1. << >> \in Seq(Value) /\ \A v \in Value : <<v>> \in Seq(Value)
    OBVIOUS
  <2> QED BY <1>1, <2>1
<1>4. \A k \in Keys : Intact(k)
  BY <1>2, <1>3 DEF Intact, FromOldest
<1>5. \A k \in Keys : FlashValue(k) \in Value /\ MemOf(k) = FlashValue(k)
  BY <1>1, <1>3, FlashValueIsLast DEF MemOf
<1>6. Store!Init
  BY <1>5 DEF Store!Init, MemOf
<1> QED BY <1>2, <1>4, <1>6 DEF StoreInv

LEMMA StoreNext ==
  ASSUME StoreInv, FollowsInv', Orderly, [Next]_vars
  PROVE  StoreInv' /\ [Store!Next]_Store!storeVars
<1>1. CASE App
  <2>1. CASE AppSet
    <3>1. PICK v \in Value : \/ \E k \in Keys \ (DelayedKeys \cup ThrottledKeys) : Set(k, v)
                             \/ \E k \in DelayedKeys : SetDelayed(k, v)
                             \/ \E k \in ThrottledKeys : SetThrottled(k, v)
      BY <2>1 DEF AppSet
    <3>2. PICK k \in Keys : Set(k, v) \/ SetDelayed(k, v) \/ SetThrottled(k, v)
      BY <3>1, StateAssumption
    <3> QED BY <3>2, AppSetStore DEF StoreStep, StoreInv
  <2>2. CASE \E k \in RemovableKeys : RemoveValue(k)
    BY <2>2, RemoveValueStore DEF StoreStep, StoreInv
  <2>3. CASE \E k \in Keys : Get(k)
    BY <2>3, GetStore DEF StoreStep, StoreInv
  <2>4. CASE CleanUp
    BY <2>4, CleanUpStore DEF StoreStep, StoreInv
  <2>5. CASE FactoryReset
    BY <2>5 DEF FactoryReset, Orderly, Restrained
  <2> QED BY <1>1, <2>1, <2>2, <2>3, <2>4, <2>5 DEF App
<1>2. CASE StartWritesToFlash \/ TickBegin \/ UNCHANGED vars
  <2>1. UNCHANGED <<ram, removed, storageVars>> /\ Ordered
    BY <1>2 DEF StartWritesToFlash, TickBegin, vars, stateVars, StoreInv
  <2> QED BY <2>1, StorageUnchangedOps, SameStore DEF StoreStep, StoreInv
<1>3. CASE TickItem
  BY <1>3, TickItemStore DEF StoreStep, StoreInv
<1>4. CASE HandleEvent
  BY <1>4, HandleEventStore DEF StoreStep, StoreInv
<1>5. CASE Fds
  BY <1>5, FdsStore DEF StoreStep, StoreInv
<1>6. CASE Reboot
  BY <1>6, RebootStore DEF StoreStep, StoreInv
<1> QED BY <1>1, <1>2, <1>3, <1>4, <1>5, <1>6 DEF Next, Tick

\* State and Storage implement the store: whatever the order of sets, removals,
\* reads, ticks, writes of FDS and resets, a key always has its default or a value
\* that was set, flash takes over only what is in RAM, and a reset takes a key back
\* to what flash has and nowhere else (set(), remove(), get(), delayedStoreTick(),
\* Storage::write() and remove(), with the records FDS keeps).
THEOREM StoreImplemented ==
  ASSUME Orderly
  PROVE  Spec => ImplementsStore
<1>1. Restrained
  BY DEF Orderly
<1>2. Spec => []FollowsInv
  BY <1>1, FollowsInvariant
<1>3. Init /\ FollowsInv => StoreInv /\ Store!Init
  BY StoreInvInit
<1>4. StoreInv /\ FollowsInv' /\ [Next]_vars => StoreInv' /\ [Store!Next]_Store!storeVars
  BY StoreNext
<1> QED BY <1>2, <1>3, <1>4, PTL DEF Spec, ImplementsStore, Store!Spec
=============================================================================
