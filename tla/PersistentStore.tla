-------------------------- MODULE PersistentStore --------------------------
(***************************************************************************)
(* What State promises its users: a store of values (mem) backed by a copy *)
(* that survives a reset (disk).  A key always has a value, a firmware     *)
(* default if nothing else.  A new value reaches the copy some time after  *)
(* it was set, and only values that were set do: a reset may take a key    *)
(* back to an older value, but never to a value nobody set.                *)
(***************************************************************************)
CONSTANTS Keys, Value, Default

VARIABLES mem, disk

storeVars == <<mem, disk>>

Init ==
  /\ disk \in [Keys -> Value]
  /\ mem = disk

Change(k, v) ==
  /\ mem' = [mem EXCEPT ![k] = v]
  /\ UNCHANGED disk

Flush(k) ==
  /\ disk' = [disk EXCEPT ![k] = mem[k]]
  /\ UNCHANGED mem

Restart ==
  /\ mem' = disk
  /\ UNCHANGED disk

Next == \/ \E k \in Keys : (\E v \in Value : Change(k, v)) \/ Flush(k)
        \/ Restart

Spec == Init /\ [][Next]_storeVars
=============================================================================
