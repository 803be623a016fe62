-------------------------- MODULE AssetFilterStore --------------------------
(***************************************************************************)
(* The store of asset filters of every stone (cs_AssetFilterStore.cpp):    *)
(* upload in chunks, remove, commit with a version and a CRC, the timeout  *)
(* of a modification, and loading after a reset.  A handler is an operator *)
(* from the record of a stone to the new record and a return code, so that *)
(* commands of a host and of the syncer of another stone share it.         *)
(*                                                                         *)
(* The data of a filter is two chunks, each blank (0) or a packet; the     *)
(* first chunk holds the metadata that decide the length.  A CRC stands    *)
(* for the data it was calculated over (no collisions).                    *)
(***************************************************************************)
EXTENDS Integers, FiniteSets, Functions

CONSTANTS
  Stones,       \* the stones
  Ids,          \* filter ids
  NumPackets,   \* the chunks of data there are, 1..NumPackets
  Length,       \* metadata chunk |-> length of the filter it announces
  TypeSizes,    \* the sizes of the state types filters are stored in
  Overhead,     \* size of the run time data of a filter
  BufferSize,   \* FILTER_BUFFER_SIZE
  MaxFilters    \* MAX_FILTER_IDS

VARIABLE store  \* the store of every stone and what it has in flash

Chunks == 0..NumPackets
Totals == {Length[c] : c \in 1..NumPackets}

ASSUME FilterAssumption ==
  /\ Ids \subseteq Nat /\ IsFiniteSet(Ids)
  /\ NumPackets \in Nat /\ Overhead \in Nat /\ BufferSize \in Nat /\ MaxFilters \in Nat
  /\ Length \in [Chunks -> Nat]
  /\ IsFiniteSet(TypeSizes) /\ TypeSizes \subseteq Nat
  /\ \A c \in Chunks : \E t \in TypeSizes : Length[c] <= t

\* getStateType(): the smallest state type the data fit in.
StateType(length) ==
  CHOOSE t \in TypeSizes : length <= t /\ \A u \in TypeSizes : length <= u => t <= u

-----------------------------------------------------------------------------
(* CRCs.  0 is the CRC of a filter that has not been calculated.           *)

Crc(content) == 1 + content[1] * (NumPackets + 1) + content[2]

\* The CRC over ids and CRCs of all filters; 0 for an id there is no filter of.
MasterCrc(filters) ==
  [i \in Ids |-> IF i \in DOMAIN filters THEN filters[i].crc ELSE 0]

NoCrc == [i \in Ids |-> 0]

\* CRCs are numbers; this order of them stands for theirs.
Above(a, b) ==
  \E i \in Ids : a[i] > b[i] /\ \A j \in Ids : j > i => a[j] = b[j]

-----------------------------------------------------------------------------
(* The record of a stone.                                                  *)

NoVersion == [version |-> 0, crc |-> NoCrc]

Fresh ==
  [filters |-> << >>,            \* _filters: id |-> filter
   version |-> 0,                \* _masterVersion
   crc |-> NoCrc,                \* _masterCrc
   inProgress |-> FALSE,         \* _modificationInProgressCountdown # 0
   stored |-> << >>,             \* filters as State will store them
   storedVersion |-> NoVersion,  \* STATE_ASSET_FILTERS_VERSION, likewise
   flash |-> << >>, flashVersion |-> NoVersion]

FilterInit == store = [n \in Stones |-> Fresh]

Without(f, keys) == Restrict(f, DOMAIN f \ keys)
With(f, key, value) == [k \in DOMAIN f \cup {key} |-> IF k = key THEN value ELSE f[k]]

\* The key a filter is stored by: the type follows from its metadata.
StateKey(id, content) == <<StateType(Length[content[1]]), id>>

\* deallocateFilterByIndex(), of several filters.
Deallocate(s, ids) ==
  [s EXCEPT
    !.filters = Without(@, ids),
    !.stored = Without(@, {StateKey(i, s.filters[i].content) : i \in ids})]

\* allocateFilter(): what is in use counts by length, what is new by type.
InUse(filters) == FoldFunction(+, 0, [i \in DOMAIN filters |->
                                        Overhead + Length[filters[i].content[1]]])
CanAllocate(filters, total) ==
  /\ Cardinality(DOMAIN filters) < MaxFilters
  /\ InUse(filters) + Overhead + StateType(total) <= BufferSize

\* A modification that keeps the version.
StartKeepingVersion(s) == [s EXCEPT !.inProgress = TRUE]
StartInProgress(s) == [s EXCEPT !.inProgress = TRUE, !.version = 0]

EndInProgress(s, version, crc) ==
  [s EXCEPT !.inProgress = FALSE, !.version = version, !.crc = crc,
            !.storedVersion = [version |-> version, crc |-> crc]]

-----------------------------------------------------------------------------
(* Commands.                                                               *)

Uncommitted(s) == {i \in DOMAIN s.filters : ~ s.filters[i].committed}

\* The store a chunk is written to: without the committed filter it replaces.
ForUpload(s, id) ==
  LET started == StartInProgress(s)
  IN IF id \in DOMAIN s.filters \ Uncommitted(s)
     THEN Deallocate(started, {id}) ELSE started

NewFilter(total) ==
  [content |-> <<0, 0>>, total |-> total, committed |-> FALSE, crc |-> 0]

\* The chunk is written; a CRC that was calculated before stays.
WriteChunk(s, id, total, chunk, packet) ==
  LET filter == IF id \in DOMAIN s.filters THEN s.filters[id] ELSE NewFilter(total)
  IN [s EXCEPT !.filters = With(@, id, [filter EXCEPT !.content[chunk] = packet])]

HandleUpload(s, id, total, chunk, packet) ==
  LET ready == ForUpload(s, id)
      known == id \in DOMAIN ready.filters
  IN IF known /\ ready.filters[id].total # total
     THEN [s |-> Deallocate(ready, {id}), ret |-> "WRONG_STATE"]
     ELSE IF ~ known /\ ~ CanAllocate(ready.filters, total)
          THEN [s |-> ready, ret |-> "NO_SPACE"]
          ELSE [s |-> WriteChunk(ready, id, total, chunk, packet), ret |-> "SUCCESS"]

HandleRemove(s, id) ==
  IF id \in DOMAIN s.filters
  THEN [s |-> StartInProgress(Deallocate(s, {id})), ret |-> "SUCCESS"]
  ELSE [s |-> s, ret |-> "NO_CHANGE"]

\* validateFilters()
InvalidFilters(s) ==
  {i \in Uncommitted(s) : \/ s.filters[i].content[1] = 0
                          \/ s.filters[i].total # Length[s.filters[i].content[1]]}

\* computeFilterCrcs()
ComputeCrcs(s) ==
  [s EXCEPT !.filters =
    [i \in DOMAIN @ |-> IF @[i].crc = 0 THEN [@[i] EXCEPT !.crc = Crc(s.filters[i].content)]
                        ELSE @[i]]]

\* storeFilters(): what is not committed yet is stored.
StoreFilters(s) ==
  LET keys == {StateKey(i, s.filters[i].content) : i \in Uncommitted(s)}
  IN [s EXCEPT !.stored =
       [k \in DOMAIN @ \cup keys |-> IF k \in keys THEN s.filters[k[2]].content ELSE @[k]]]

MarkCommitted(s) ==
  [s EXCEPT !.filters = [i \in DOMAIN @ |-> [@[i] EXCEPT !.committed = TRUE]]]

\* As if any CRC were taken.
CommitAnyCrc(s, version, crc, save) ==
  LET summed == ComputeCrcs(s)
  IN IF InvalidFilters(s) # {}
     THEN [s |-> Deallocate(s, InvalidFilters(s)), ret |-> "WRONG_STATE"]
     ELSE [s |-> EndInProgress(MarkCommitted(IF save THEN StoreFilters(summed) ELSE summed),
                               version, crc),
           ret |-> "SUCCESS"]

\* commit()
Commit(s, version, crc, save) ==
  LET summed == ComputeCrcs(s)
      saved  == IF save THEN StoreFilters(summed) ELSE summed
  IN IF InvalidFilters(s) # {}
     THEN [s |-> Deallocate(s, InvalidFilters(s)), ret |-> "WRONG_STATE"]
     ELSE IF MasterCrc(summed.filters) # crc
          THEN [s |-> summed, ret |-> "MISMATCH"]
          ELSE [s |-> EndInProgress(MarkCommitted(saved), version, crc), ret |-> "SUCCESS"]

HandleCommit(s, version, crc) == Commit(s, version, crc, TRUE)

\* What handleGetFilterSummariesCommand() answers.
Summaries(s) ==
  [version |-> s.version, crc |-> s.crc,
   filters |-> [i \in DOMAIN s.filters |-> s.filters[i].crc]]

\* inProgressTimeout()
DropUncommitted(s) == [Deallocate(s, Uncommitted(s)) EXCEPT !.inProgress = FALSE]

-----------------------------------------------------------------------------
(* A reset: RAM is gone, flash is loaded.                                  *)

\* What the filters are that were loaded: id |-> the key it came from.
FromFlash(flash, keys) ==
  [i \in DOMAIN keys |->
     [NewFilter(Length[flash[keys[i]][1]]) EXCEPT !.content = flash[keys[i]]]]

\* One key: the filter of a smaller type with this id goes, from flash as well.
LoadFilter(r, key) ==
  LET id    == key[2]
      freed == IF id \notin DOMAIN r.keys THEN r
               ELSE [r EXCEPT !.keys = Without(@, {id}),
                              !.stored = Without(@, {StateKey(id, r.flash[r.keys[id]])})]
  IN IF CanAllocate(FromFlash(r.flash, freed.keys), key[1])
     THEN [freed EXCEPT !.keys = With(@, id, key)]
     ELSE freed

\* Types from small to large, ids in the order State has them.
KeyOrder(k, l) == k[1] < l[1] \/ (k[1] = l[1] /\ k[2] < l[2])

\* Each key after those before it (a function of the set of keys that are loaded).
LoadFilters(flash) ==
  LET after[keys \in SUBSET DOMAIN flash] ==
        IF keys = {} THEN [keys |-> << >>, flash |-> flash, stored |-> flash]
        ELSE LET last == CHOOSE k \in keys : \A l \in keys \ {k} : KeyOrder(l, k)
             IN LoadFilter(after[keys \ {last}], last)
  IN after[DOMAIN flash]

LoadFromFlash(s) ==
  LET read   == LoadFilters(s.flash)
      loaded == [Fresh EXCEPT !.filters = FromFlash(s.flash, read.keys),
                              !.stored = read.stored, !.flash = s.flash,
                              !.storedVersion = s.flashVersion,
                              !.flashVersion = s.flashVersion]
      result == IF s.flashVersion.version = 0 THEN [s |-> loaded, ret |-> "UNSPECIFIED"]
                ELSE Commit(loaded, s.flashVersion.version, s.flashVersion.crc, FALSE)
  IN IF result.ret = "SUCCESS" THEN result.s
     ELSE EndInProgress(Deallocate(result.s, DOMAIN result.s.filters), 0, NoCrc)

-----------------------------------------------------------------------------
(* Actions.                                                                *)

Set(n, result) == store' = [store EXCEPT ![n] = result.s]

\* onTick(), when the countdown of a modification ends.
InProgressTimeout(n) ==
  /\ store[n].inProgress
  /\ store' = [store EXCEPT ![n] = DropUncommitted(@)]

\* State writes or removes one key, in any order.
FlushFilter(n, key) ==
  LET s == store[n]
  IN /\ key \in DOMAIN s.stored \cup DOMAIN s.flash
     /\ IF key \in DOMAIN s.stored
        THEN /\ key \in DOMAIN s.flash => s.flash[key] # s.stored[key]
             /\ store' = [store EXCEPT ![n].flash = With(@, key, s.stored[key])]
        ELSE store' = [store EXCEPT ![n].flash = Without(@, {key})]

FlushVersion(n) ==
  /\ store[n].flashVersion # store[n].storedVersion
  /\ store' = [store EXCEPT ![n].flashVersion = store[n].storedVersion]

Flush(n) == FlushVersion(n) \/ \E key \in TypeSizes \X Ids : FlushFilter(n, key)

Reset(n) == store' = [store EXCEPT ![n] = LoadFromFlash(@)]
=============================================================================
