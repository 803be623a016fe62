--------------------------- MODULE BehaviourStore ---------------------------
(***************************************************************************)
(* The behaviours of a stone (cs_BehaviourStore): an array in RAM, and in  *)
(* flash a record for each index and type of behaviour.                    *)
(*                                                                         *)
(* Of State the model has what this class meets: a set or a removal is     *)
(* executed at once or, when storage is busy, queued for its key.  What is *)
(* queued is lost by a reset.  An item that is queued for a key already    *)
(* keeps its operation, and a queued write stores what is in RAM by then.  *)
(***************************************************************************)
EXTENDS Naturals

CONSTANTS MaxBehaviours,  \* slots of the array
          Rules,          \* the behaviours: records with a field type
          BusyCalls       \* of "set", "remove": the calls that may find storage busy

Indices   == 0 .. MaxBehaviours - 1
LoadOrder == <<"Switch", "Twilight", "Extended">>
Types     == {"Switch", "Twilight", "Extended"}
Keys      == Types \X Indices
NoRule    == [type |-> "none"]

VARIABLES
  active,    \* activeBehaviours
  records,   \* what is in flash of each key
  queued     \* the operation that State has queued for each key

behaviourVars == <<active, records, queued>>

Init ==
  /\ active = [i \in Indices |-> NoRule]
  /\ records = [k \in Keys |-> NoRule]
  /\ queued = [k \in Keys |-> "none"]
-----------------------------------------------------------------------------
(* Array, flash and queue as a record, for the steps of a handler.         *)

Now == [active |-> active, records |-> records, queued |-> queued]
Become(b) == active' = b.active /\ records' = b.records /\ queued' = b.queued

Enqueue(b, k, operation) == [b EXCEPT !.queued[k] = IF @ = "none" THEN operation ELSE @]

MayBeBusy(call, busy) == busy => call \in BusyCalls

\* removeBehaviour(): out of the array, then out of flash.
Remove(b, i, busy) ==
  LET k == <<b.active[i].type, i>>
      c == [b EXCEPT !.active[i] = NoRule]
  IN IF b.active[i] = NoRule THEN b
     ELSE IF busy THEN Enqueue(c, k, "remove") ELSE [c EXCEPT !.records[k] = NoRule]

\* assignBehaviour() and storeUpdate()
Assign(b, i, rule, busy) ==
  LET k == <<rule.type, i>>
      c == [b EXCEPT !.active[i] = rule]
  IN IF busy THEN Enqueue(c, k, "write") ELSE [c EXCEPT !.records[k] = rule]

EmptyIndices == {i \in Indices : active[i] = NoRule}

\* handleSaveBehaviour(): nothing when the same behaviour is there already.
AddBehaviour(rule, busy) ==
  /\ MayBeBusy("set", busy)
  /\ \A i \in Indices : active[i] # rule
  /\ EmptyIndices # {}
  /\ LET i == CHOOSE x \in EmptyIndices : \A y \in EmptyIndices : x <= y
     IN Become(Assign(Now, i, rule, busy))

\* Mutant: a behaviour is replaced in its record, whatever type it had.
ReplaceInPlace(i, rule, busyRemove, busySet) ==
  /\ MayBeBusy("remove", busyRemove) /\ MayBeBusy("set", busySet)
  /\ Become(Assign(Now, i, rule, busySet))

\* handleReplaceBehaviour()
ReplaceBehaviour(i, rule, busyRemove, busySet) ==
  /\ MayBeBusy("remove", busyRemove) /\ MayBeBusy("set", busySet)
  /\ Become(Assign(Remove(Now, i, busyRemove), i, rule, busySet))

\* handleRemoveBehaviour()
RemoveBehaviour(i, busy) ==
  /\ MayBeBusy("remove", busy)
  /\ active[i] # NoRule
  /\ Become(Remove(Now, i, busy))

\* clearActiveBehavioursArray(): removes each, some when storage is busy.
ClearAll(busy) ==
  LET removed == {<<active[i].type, i>> : i \in {j \in Indices : active[j] # NoRule}}
  IN /\ busy # {} => "remove" \in BusyCalls
     /\ active' = [i \in Indices |-> NoRule]
     /\ records' = [k \in Keys |-> IF k \in removed /\ k[2] \notin busy THEN NoRule ELSE records[k]]
     /\ queued' = [k \in Keys |->
          IF k \in removed /\ k[2] \in busy /\ queued[k] = "none" THEN "remove" ELSE queued[k]]

\* State executes what is queued.  A write of a key that is no longer in RAM is
\* dropped.
ExecuteQueued(k) ==
  LET inRam == active[k[2]].type = k[1]
  IN /\ queued[k] # "none"
     /\ queued' = [queued EXCEPT ![k] = "none"]
     /\ records' = [records EXCEPT ![k] =
          IF queued[k] = "remove" THEN NoRule ELSE IF inRam THEN active[k[2]] ELSE @]
     /\ UNCHANGED active

\* What LoadBehavioursFromMemory() leaves at an index: the types are loaded one
\* after the other, a later one overwrites.
Loaded(i) ==
  LET found == {n \in DOMAIN LoadOrder : records[<<LoadOrder[n], i>>] # NoRule}
  IN IF found = {} THEN NoRule
     ELSE records[<<LoadOrder[CHOOSE n \in found : \A m \in found : m <= n], i>>]

\* A reset, and init().
Reset ==
  /\ active' = [i \in Indices |-> Loaded(i)]
  /\ queued' = [k \in Keys |-> "none"]
  /\ UNCHANGED records

Next ==
  \/ \E rule \in Rules, busySet \in BOOLEAN :
       \/ AddBehaviour(rule, busySet)
       \/ \E i \in Indices, busy \in BOOLEAN : ReplaceBehaviour(i, rule, busy, busySet)
  \/ \E i \in Indices, busy \in BOOLEAN : RemoveBehaviour(i, busy)
  \/ \E busy \in SUBSET Indices : ClearAll(busy)
  \/ \E k \in Keys : ExecuteQueued(k)
  \/ Reset

Spec == Init /\ [][Next]_behaviourVars
-----------------------------------------------------------------------------
\* Array, records and queue have their types.
TypeOK ==
  /\ active \in [Indices -> Rules \cup {NoRule}]
  /\ \A k \in Keys : records[k] \in {r \in Rules : r.type = k[1]} \cup {NoRule}
  /\ queued \in [Keys -> {"none", "write", "remove"}]

\* When nothing is queued, a reset brings back the behaviours there are, each at
\* its index, and none that was removed or replaced: the record that its index
\* had under another type is gone.
BehavioursComeBack ==
  (\A k \in Keys : queued[k] = "none") => \A i \in Indices : Loaded(i) = active[i]
=============================================================================
