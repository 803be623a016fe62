------------------------------ MODULE Storage ------------------------------
(***************************************************************************)
(* The Storage driver (drivers/cs_Storage.cpp) on top of Nordic's Flash    *)
(* Data Storage.  Storage has one flag per blocking operation and a        *)
(* multiset of record keys that are busy; FDS is external: it queues at    *)
(* most FdsQueueSize operations, executes them one after the other outside *)
(* the main loop, and posts an event for each on the application           *)
(* scheduler.  So an operation is over for the flash some time before it   *)
(* is over for Storage.                                                    *)
(*                                                                         *)
(* A record key is the type of a state variable, a file is its id: Keys    *)
(* are (type, id) pairs, but busyness is kept per type.                    *)
(*                                                                         *)
(* write() does not copy the value: FDS checksums the buffer it is handed  *)
(* when the write is queued and copies it when the write is executed, so   *)
(* the buffers (ram, owned by State) are a variable of this module.        *)
(***************************************************************************)
EXTENDS Naturals, Sequences, SequencesExt

CONSTANTS
  Types,          \* the state types, used as record keys
  Keys,           \* the (type, id) pairs in use
  TypeOf,         \* the type of each key
  Value,          \* the values a state variable can have
  ResetKeys,      \* the keys removeOnFactoryReset() selects
  Absent,         \* no buffer in RAM for this key
  Corrupt,        \* a record that fails its CRC check
  FdsQueueSize,   \* FDS_OP_QUEUE_SIZE
  MaxFailures,    \* bound: FDS operations that fail
  MaxCrashes,     \* bound: resets of the device
  Env             \* what the surroundings may do: see EnvOptions

\* "full": a write can find the FDS pages full.
\* The other options restrict the users of State: see module State.
EnvOptions == {"full", "overwrite", "lateRead", "mixed", "reset", "cleanup"}

ASSUME StorageAssumption ==
  /\ TypeOf \in [Keys -> Types]
  /\ ResetKeys \subseteq Keys
  /\ Absent \notin Value /\ Corrupt \notin Value
  /\ FdsQueueSize \in Nat \ {0}
  /\ MaxFailures \in Nat /\ MaxCrashes \in Nat
  /\ Env \subseteq EnvOptions

VARIABLES
  ram,                \* the value buffers, by key (_ram_data_register)
  flash,              \* the valid records of each key, in the order FDS finds them
  flashFull,          \* no page has room for another record
  fdsQueue,           \* operations FDS has accepted and not executed
  fdsEvents,          \* FDS events on the application scheduler
  busyRecordKeys,     \* how many times each type is busy
  collectingGarbage,  \* _collectingGarbage
  storageResetting,   \* _performingFactoryReset of Storage
  failures,           \* failed FDS operations so far
  crashes             \* resets so far

fdsVars == <<flash, flashFull, fdsQueue, fdsEvents, failures>>
busyVars == <<busyRecordKeys, collectingGarbage, storageResetting>>
storageVars == <<flash, flashFull, fdsQueue, fdsEvents, failures, busyVars>>

Record == Value \cup {Corrupt}

\* An operation in the queue of FDS.  For a write, crc stands for the value
\* the checksum was computed over and freed says that the buffer was freed
\* since; update: a record exists and is to be deleted after the write;
\* written: the new record is there, the old one still has to be deleted.
\* For a delete, pos is the position of the record, counted from the last.
FdsWrite == [op : {"write"}, key : Keys, crc : Value, freed : BOOLEAN,
             update : BOOLEAN, written : BOOLEAN]
FdsDelete == [op : {"delete"}, key : Keys, pos : Nat]
FdsGc == [op : {"gc"}]
FdsOp == FdsWrite \cup FdsDelete \cup FdsGc

FdsEvent == [op : {"write", "delete"}, key : Keys, ok : BOOLEAN]
              \cup [op : {"gc"}, ok : BOOLEAN]

StorageTypeOK ==
  /\ ram \in [Keys -> Value \cup {Absent}]
  /\ flash \in [Keys -> Seq(Record)]
  /\ flashFull \in BOOLEAN
  /\ fdsQueue \in Seq(FdsOp) /\ Len(fdsQueue) <= FdsQueueSize
  /\ fdsEvents \in Seq(FdsEvent)
  /\ busyRecordKeys \in [Types -> Nat]
  /\ collectingGarbage \in BOOLEAN
  /\ storageResetting \in BOOLEAN
  /\ failures \in 0..MaxFailures
  /\ crashes \in 0..MaxCrashes

StorageBoot ==
  /\ fdsQueue' = << >> /\ fdsEvents' = << >>
  /\ busyRecordKeys' = [t \in Types |-> 0]
  /\ collectingGarbage' = FALSE /\ storageResetting' = FALSE
  /\ UNCHANGED <<flash, flashFull, failures>>

StorageInit ==
  /\ ram = [k \in Keys |-> Absent]
  /\ flash \in [Keys -> {<< >>} \cup {<<v>> : v \in Value}]
  /\ flashFull = FALSE
  /\ fdsQueue = << >> /\ fdsEvents = << >>
  /\ busyRecordKeys = [t \in Types |-> 0]
  /\ collectingGarbage = FALSE /\ storageResetting = FALSE
  /\ failures = 0 /\ crashes = 0

-----------------------------------------------------------------------------
(* Busyness.                                                               *)

Blocked == collectingGarbage \/ storageResetting

\* isBusy(recordKey)
IsBusyType(t) == Blocked \/ busyRecordKeys[t] > 0

\* isBusy()
IsBusy == Blocked \/ \E t \in Types : busyRecordKeys[t] > 0

SetBusy(t) == busyRecordKeys' = [busyRecordKeys EXCEPT ![t] = @ + 1]

\* Mutant: all occurrences of the key are erased.
ClearBusyAll(t) == busyRecordKeys' = [busyRecordKeys EXCEPT ![t] = 0]

\* Mutant: erase without having found the key.
ClearBusyUnchecked(t) == busyRecordKeys' = [busyRecordKeys EXCEPT ![t] = @ - 1]

\* clearBusy() of a key that is not busy does nothing: it happens for the
\* deletes of a factory reset, which never set their key busy.
ClearBusy(t) ==
  busyRecordKeys' = [busyRecordKeys EXCEPT ![t] = IF @ = 0 THEN 0 ELSE @ - 1]

-----------------------------------------------------------------------------
(* Reading.  The last record that passes its CRC check counts.             *)

Readable(s) == {i \in 1..Len(s) : s[i] # Corrupt}
HasValue(k) == Readable(flash[k]) # {}
LastReadable(s) == s[CHOOSE i \in Readable(s) : \A j \in Readable(s) : j <= i]

\* Mutant: a record that has a duplicate is taken for corrupted.
ReadSucceedsWithoutDuplicates(k) == ~ IsBusyType(TypeOf[k]) /\ Len(flash[k]) = 1

\* Whether read() succeeds, and the value it then finds.
ReadSucceeds(k) == ~ IsBusyType(TypeOf[k]) /\ HasValue(k)
ReadValue(k) == LastReadable(flash[k])

-----------------------------------------------------------------------------
(* Calls.  Each returns with the code ret.                                 *)

Enqueue(op) == fdsQueue' = Append(fdsQueue, op)
FdsQueueFull == Len(fdsQueue) >= FdsQueueSize

\* garbageCollect()
GarbageCollect(ret) ==
  \/ /\ IsBusy \/ FdsQueueFull
     /\ ret = "BUSY"
     /\ UNCHANGED storageVars
  \/ /\ ~ IsBusy /\ ~ FdsQueueFull
     /\ ret = "SUCCESS"
     /\ Enqueue([op |-> "gc"])
     /\ collectingGarbage' = TRUE
     /\ UNCHANGED <<flash, flashFull, fdsEvents, failures, busyRecordKeys,
                    storageResetting>>

\* What write() makes of the result of garbageCollect() when the pages are
\* full: the cs code of a garbage collection that cannot be started is taken
\* for a code of FDS by getErrorCode(), which makes ERR_UNSPECIFIED of it.
WriteResultWhenFull(gcRet) == IF gcRet = "SUCCESS" THEN "BUSY" ELSE "UNSPECIFIED"

\* write().  When the pages are full, writeInternal() starts a garbage collection.
StorageWrite(k, ret) ==
  \/ /\ IsBusyType(TypeOf[k])
     /\ ret = "BUSY"
     /\ UNCHANGED storageVars
  \/ /\ ~ IsBusyType(TypeOf[k]) /\ flashFull
     /\ \E gcRet \in {"BUSY", "SUCCESS"} :
          /\ GarbageCollect(gcRet)
          /\ ret = WriteResultWhenFull(gcRet)
  \/ /\ ~ IsBusyType(TypeOf[k]) /\ ~ flashFull /\ FdsQueueFull
     /\ ret = "BUSY"
     /\ UNCHANGED storageVars
  \/ /\ ~ IsBusyType(TypeOf[k]) /\ ~ flashFull /\ ~ FdsQueueFull
     /\ ret = "SUCCESS"
     /\ Enqueue([op |-> "write", key |-> k, crc |-> ram'[k], freed |-> FALSE,
                 update |-> flash[k] # << >>, written |-> FALSE])
     /\ SetBusy(TypeOf[k])
     /\ flashFull' \in {FALSE, "full" \in Env}
     /\ UNCHANGED <<flash, fdsEvents, failures, collectingGarbage,
                    storageResetting>>

\* Mutant: the newest record goes first.
DeletesNewestFirst(k, n) ==
  [i \in 1..n |-> [op |-> "delete", key |-> k, pos |-> i - 1]]

\* The deletes of n records of a key, oldest first.
Deletes(k, n) ==
  [i \in 1..n |-> [op |-> "delete", key |-> k, pos |-> Len(flash[k]) - i]]

\* remove(type, id): a delete for every record found, oldest first, until
\* the queue of FDS is full.  State takes ERR_NOT_FOUND for a success.
StorageRemove(k, ret) ==
  LET room    == FdsQueueSize - Len(fdsQueue)
      records == Len(flash[k])
      n       == IF records <= room THEN records ELSE room
  IN
  \/ /\ IsBusyType(TypeOf[k])
     /\ ret = "BUSY"
     /\ UNCHANGED storageVars
  \/ /\ ~ IsBusyType(TypeOf[k])
     /\ ret = IF n = records THEN "SUCCESS" ELSE "BUSY"
     /\ fdsQueue' = fdsQueue \o Deletes(k, n)
     /\ busyRecordKeys' = [busyRecordKeys EXCEPT ![TypeOf[k]] = @ + n]
     /\ UNCHANGED <<flash, flashFull, fdsEvents, failures, collectingGarbage,
                    storageResetting>>

\* continueFactoryReset(): delete one more record, or collect the garbage when
\* none is left.  Its delete does not set the record key busy.
ContinueFactoryReset(ret) ==
  \/ /\ FdsQueueFull
     /\ ret = "BUSY"
     /\ UNCHANGED <<fdsQueue, collectingGarbage>>
  \/ /\ ~ FdsQueueFull
     /\ ret = "SUCCESS"
     /\ \/ \E k \in ResetKeys :
             /\ flash[k] # << >>
             /\ Enqueue([op |-> "delete", key |-> k, pos |-> Len(flash[k]) - 1])
             /\ UNCHANGED collectingGarbage
        \/ /\ \A k \in ResetKeys : flash[k] = << >>
           /\ Enqueue([op |-> "gc"])
           /\ collectingGarbage' = TRUE

\* factoryReset()
StorageFactoryReset(ret) ==
  \/ /\ IsBusy
     /\ ret = "BUSY"
     /\ UNCHANGED storageVars
  \/ /\ ~ IsBusy
     /\ ContinueFactoryReset(ret)
     /\ storageResetting' = (ret = "SUCCESS")
     /\ UNCHANGED <<flash, flashFull, fdsEvents, failures, busyRecordKeys>>

-----------------------------------------------------------------------------
(* FDS at work, concurrently with the main loop.                           *)

\* Delete the record at pos, counted from the last, if it is still there.
DeleteRecord(s, pos) == IF pos < Len(s) THEN RemoveAt(s, Len(s) - pos) ELSE s

Post(ev) == fdsEvents' = Append(fdsEvents, ev)

\* What the flash gets: the content of the buffer at the time of the write.
\* It fails the CRC check when the buffer was changed since it was queued; a
\* freed buffer may hold anything.
Written(op) ==
  IF op.freed THEN {op.crc, Corrupt}
  ELSE IF ram[op.key] = op.crc THEN {op.crc} ELSE {Corrupt}

FdsStoreRecord ==
  /\ fdsQueue # << >>
  /\ LET op == Head(fdsQueue) IN
     /\ op.op = "write" /\ ~ op.written
     /\ \E rec \in Written(op) :
          flash' = [flash EXCEPT ![op.key] = Append(@, rec)]
     /\ IF op.update
          THEN /\ fdsQueue' = [fdsQueue EXCEPT ![1].written = TRUE]
               /\ UNCHANGED fdsEvents
          ELSE /\ fdsQueue' = Tail(fdsQueue)
               /\ Post([op |-> "write", key |-> op.key, ok |-> TRUE])
  /\ UNCHANGED <<flashFull, failures>>

FdsDeleteOld ==
  /\ fdsQueue # << >>
  /\ LET op == Head(fdsQueue) IN
     /\ op.op = "write" /\ op.written
     /\ flash' = [flash EXCEPT ![op.key] = DeleteRecord(@, 1)]
     /\ fdsQueue' = Tail(fdsQueue)
     /\ Post([op |-> "write", key |-> op.key, ok |-> TRUE])
  /\ UNCHANGED <<flashFull, failures>>

FdsDeleteRecord ==
  /\ fdsQueue # << >>
  /\ LET op == Head(fdsQueue) IN
     /\ op.op = "delete"
     /\ flash' = [flash EXCEPT ![op.key] = DeleteRecord(@, op.pos)]
     /\ fdsQueue' = Tail(fdsQueue)
     /\ Post([op |-> "delete", key |-> op.key, ok |-> TRUE])
  /\ UNCHANGED <<flashFull, failures>>

FdsCollect ==
  /\ fdsQueue # << >>
  /\ Head(fdsQueue).op = "gc"
  /\ flashFull' = FALSE
  /\ fdsQueue' = Tail(fdsQueue)
  /\ Post([op |-> "gc", ok |-> TRUE])
  /\ UNCHANGED <<flash, failures>>

\* An operation times out; an update may have stored the new record by then.
FdsFail ==
  /\ fdsQueue # << >>
  /\ failures < MaxFailures
  /\ failures' = failures + 1
  /\ fdsQueue' = Tail(fdsQueue)
  /\ LET op == Head(fdsQueue) IN
     Post(IF op.op = "gc" THEN [op |-> "gc", ok |-> FALSE]
          ELSE [op |-> op.op, key |-> op.key, ok |-> FALSE])
  /\ UNCHANGED <<flash, flashFull>>

FdsStep ==
  /\ FdsStoreRecord \/ FdsDeleteOld \/ FdsDeleteRecord \/ FdsCollect \/ FdsFail
  /\ UNCHANGED busyVars
=============================================================================
