---------------------------- MODULE StoresProofs ----------------------------
(***************************************************************************)
(* Proofs about the components of Stores.                                  *)
(***************************************************************************)
EXTENDS Stores, SequenceFacts, TLAPS

-----------------------------------------------------------------------------
(* Behaviours (BehaviourStore), when no removal finds storage busy.        *)

Kinds == {"Switch", "Twilight", "Extended"}
Places == 0 .. MaxBehaviours - 1
Slots == Kinds \X Places
Held == StoredRules \cup {Behaviour!NoRule}

\* What flash should have of a key: its behaviour, if that has the type of the key.
Due(a, k) == IF a[k[2]].type = k[1] THEN a[k[2]] ELSE Behaviour!NoRule

\* A write that is queued is of a record that was removed before, or never was.
Restorable(a, recs, q) ==
  /\ a \in [Places -> Held]
  /\ recs \in [Slots -> Held]
  /\ q \in [Slots -> {"none", "write"}]
  /\ \A k \in Slots : \/ recs[k] = Due(a, k)
                      \/ q[k] = "write" /\ recs[k] = Behaviour!NoRule

BehaviourInv == Restorable(active, behaviours, queued)

LEMMA BehaviourInit == Behaviour!Init => BehaviourInv
BY DEF Behaviour!Init, BehaviourInv, Restorable, Due, Held, Slots, Kinds, Places, Behaviour!NoRule,
       Behaviour!Keys, Behaviour!Types, Behaviour!Indices

Stores3(b) == b = [active |-> b.active, records |-> b.records, queued |-> b.queued]
Fine(b) == Stores3(b) /\ Restorable(b.active, b.records, b.queued)

\* An index is cleared in the array and in flash.
LEMMA RemoveKeeps ==
  ASSUME NEW b, Fine(b), NEW i \in Places
  PROVE  LET r == Behaviour!Remove(b, i, FALSE)
         IN Fine(r) /\ r.active = [b.active EXCEPT ![i] = Behaviour!NoRule]
<1> DEFINE r == Behaviour!Remove(b, i, FALSE)
           a == b.active
           none == Behaviour!NoRule
           k == <<a[i].type, i>>
<1>1. a \in [Places -> Held] /\ b.records \in [Slots -> Held] /\ b.queued \in [Slots -> {"none", "write"}]
  BY DEF Fine, Restorable
<1>2. none.type = "none"
  BY DEF Behaviour!NoRule
<1>3. CASE a[i] = none
  <2>1. r = b /\ a = [a EXCEPT ![i] = none]
    BY <1>1, <1>3 DEF Behaviour!Remove
  <2> QED
    BY <2>1
<1>4. CASE a[i] # none
  <2>1. k \in Slots
    BY <1>1, <1>4, StoresAssumption DEF Held, Slots, Kinds
  <2>2. r = [[b EXCEPT !.active[i] = none] EXCEPT !.records[k] = none]
    BY <1>4 DEF Behaviour!Remove
  <2>3. /\ r = [active |-> r.active, records |-> r.records, queued |-> r.queued]
        /\ r.active = [a EXCEPT ![i] = none] /\ r.records = [b.records EXCEPT ![k] = none]
        /\ r.queued = b.queued
    BY <2>2 DEF Fine, Stores3
  <2> HIDE DEF r
  <2>4. r.active \in [Places -> Held] /\ r.records \in [Slots -> Held]
    BY <1>1, <2>1, <2>3 DEF Held
  <2>5. ASSUME NEW x \in Slots
        PROVE  \/ r.records[x] = Due(r.active, x)
               \/ r.queued[x] = "write" /\ r.records[x] = none
    <3>1. x[2] \in Places /\ x[1] \in Kinds /\ x = <<x[1], x[2]>>
      BY DEF Slots
    <3>2. b.records[x] = Due(a, x) \/ (b.queued[x] = "write" /\ b.records[x] = none)
      BY DEF Fine, Restorable
    <3>3. CASE x[2] # i
      <4>1. x # k /\ r.active[x[2]] = a[x[2]]
        BY <1>1, <2>3, <3>1, <3>3
      <4> QED
        BY <1>1, <2>3, <3>2, <4>1 DEF Due
    <3>4. CASE x[2] = i
      <4>1. Due(r.active, x) = none
        BY <1>1, <1>2, <2>3, <3>1, <3>4 DEF Due, Kinds
      <4>2. CASE x = k
        BY <1>1, <2>1, <2>3, <4>1, <4>2
      <4>3. CASE x # k
        <5>1. Due(a, x) = none
          BY <3>1, <3>4, <4>3 DEF Due
        <5> QED
          BY <1>1, <2>3, <3>2, <4>1, <4>3, <5>1
      <4> QED
        BY <4>2, <4>3
    <3> QED
      BY <3>3, <3>4
  <2> QED
    BY <1>1, <2>3, <2>4, <2>5 DEF Fine, Stores3, Restorable, r
<1> QED
  BY <1>3, <1>4

\* A behaviour comes at an index that is clear; its write may have to wait.
LEMMA AssignKeeps ==
  ASSUME NEW b, Fine(b), NEW i \in Places, b.active[i] = Behaviour!NoRule, NEW rule \in StoredRules,
         NEW busy \in BOOLEAN
  PROVE  Fine(Behaviour!Assign(b, i, rule, busy))
<1> DEFINE r == Behaviour!Assign(b, i, rule, busy)
           a == b.active
           none == Behaviour!NoRule
           k == <<rule.type, i>>
           c == [b EXCEPT !.active[i] = rule]
<1>1. a \in [Places -> Held] /\ b.records \in [Slots -> Held] /\ b.queued \in [Slots -> {"none", "write"}]
  BY DEF Fine, Restorable
<1>2. none.type = "none" /\ rule \in Held /\ rule.type \in Kinds /\ k \in Slots
  BY StoresAssumption DEF Behaviour!NoRule, Held, Kinds, Slots
<1>3. c.active = [a EXCEPT ![i] = rule] /\ c.records = b.records /\ c.queued = b.queued /\ Stores3(c)
  BY DEF Fine, Stores3
<1>4. r = IF busy THEN [c EXCEPT !.queued[k] = IF @ = "none" THEN "write" ELSE @] ELSE [c EXCEPT !.records[k] = rule]
  BY DEF Behaviour!Assign, Behaviour!Enqueue
<1> HIDE DEF c, r
<1>5. /\ Stores3(r) /\ r.active = [a EXCEPT ![i] = rule]
      /\ busy => r.records = b.records /\ r.queued = [b.queued EXCEPT ![k] = "write"]
      /\ ~ busy => r.records = [b.records EXCEPT ![k] = rule] /\ r.queued = b.queued
  <2>1. b.queued[k] \in {"none", "write"}
    BY <1>1, <1>2
  <2>2. CASE busy
    BY <1>3, <1>4, <2>1, <2>2 DEF Stores3
  <2>3. CASE ~ busy
    BY <1>3, <1>4, <2>3 DEF Stores3
  <2> QED
    BY <2>2, <2>3
<1>6. r.active \in [Places -> Held] /\ r.records \in [Slots -> Held] /\ r.queued \in [Slots -> {"none", "write"}]
  BY <1>1, <1>2, <1>5
<1>7. ASSUME NEW x \in Slots
      PROVE  \/ r.records[x] = Due(r.active, x)
             \/ r.queued[x] = "write" /\ r.records[x] = none
  <2>1. x[2] \in Places /\ x[1] \in Kinds /\ x = <<x[1], x[2]>>
    BY DEF Slots
  <2>2. b.records[x] = Due(a, x) \/ (b.queued[x] = "write" /\ b.records[x] = none)
    BY DEF Fine, Restorable
  <2>3. CASE x[2] # i
    <3>1. x # k /\ r.active[x[2]] = a[x[2]]
      BY <1>1, <1>5, <2>1, <2>3
    <3>2. r.records[x] = b.records[x] /\ r.queued[x] = b.queued[x]
      BY <1>1, <1>5, <3>1
    <3> QED
      BY <2>2, <3>1, <3>2 DEF Due
  <2>4. CASE x[2] = i
    <3>1. r.active[i] = rule /\ b.records[x] = none
      BY <1>1, <1>2, <1>5, <2>1, <2>2, <2>4 DEF Due, Kinds
    <3>2. CASE x = k
      <4>1. Due(r.active, x) = rule
        BY <2>4, <3>1, <3>2 DEF Due
      <4> QED
        BY <1>1, <1>2, <1>5, <3>1, <3>2, <4>1
    <3>3. CASE x # k
      <4>1. Due(r.active, x) = none
        BY <2>1, <2>4, <3>1, <3>3 DEF Due
      <4> QED
        BY <1>1, <1>5, <3>1, <3>3, <4>1
    <3> QED
      BY <3>2, <3>3
  <2> QED
    BY <2>3, <2>4
<1> QED
  BY <1>5, <1>6, <1>7 DEF Fine, Restorable, r

\* What a reset loads at an index.
LEMMA LoadedIs ==
  ASSUME BehaviourInv, NEW i \in Places
  PROVE  /\ Behaviour!Loaded(i) \in Held
         /\ \A t \in Kinds : behaviours[<<t, i>>] # Behaviour!NoRule => Behaviour!Loaded(i) = behaviours[<<t, i>>]
         /\ (\A t \in Kinds : behaviours[<<t, i>>] = Behaviour!NoRule) => Behaviour!Loaded(i) = Behaviour!NoRule
         /\ \A t \in Kinds : behaviours[<<t, i>>] # Behaviour!NoRule => behaviours[<<t, i>>].type = t
<1> DEFINE order == Behaviour!LoadOrder
           none == Behaviour!NoRule
           found == {n \in DOMAIN order : behaviours[<<order[n], i>>] # none}
<1>1. DOMAIN order = 1 .. 3 /\ order[1] = "Switch" /\ order[2] = "Twilight" /\ order[3] = "Extended"
  BY DEF Behaviour!LoadOrder
<1>2. \A t \in Kinds : <<t, i>> \in Slots /\ <<t, i>>[1] = t /\ <<t, i>>[2] = i
  BY DEF Slots
<1>3. \A t \in Kinds : behaviours[<<t, i>>] \in Held /\ behaviours[<<t, i>>] \in {none, Due(active, <<t, i>>)}
  BY <1>2 DEF BehaviourInv, Restorable
<1>4. \A t \in Kinds : behaviours[<<t, i>>] # none =>
        behaviours[<<t, i>>].type = t /\ active[i].type = t /\ behaviours[<<t, i>>] = active[i]
  BY <1>2, <1>3 DEF Due
<1>5. ASSUME NEW n \in found PROVE found = {n} /\ Behaviour!Loaded(i) = behaviours[<<order[n], i>>]
  <2>1. n \in 1 .. 3 /\ order[n] \in Kinds /\ behaviours[<<order[n], i>>] # none
    BY <1>1 DEF Kinds
  <2>2. ASSUME NEW m \in found PROVE m = n
    <3>1. m \in 1 .. 3 /\ order[m] \in Kinds /\ behaviours[<<order[m], i>>] # none
      BY <1>1 DEF Kinds
    <3>2. order[m] = order[n]
      BY <1>4, <2>1, <3>1
    <3> QED
      BY <1>1, <2>1, <3>1, <3>2
  <2>3. found = {n}
    BY <2>2
  <2>4. (CHOOSE x \in found : \A m \in found : m <= x) = n
    BY <2>1, <2>3
  <2> QED
    BY <2>3, <2>4 DEF Behaviour!Loaded
<1>6. found = {} => Behaviour!Loaded(i) = none
  BY DEF Behaviour!Loaded
<1>7. \A t \in Kinds : \E n \in 1 .. 3 : order[n] = t
  BY <1>1 DEF Kinds
<1>8. \A n \in 1 .. 3 : order[n] \in Kinds
  BY <1>1 DEF Kinds
<1>9. none \in Held
  BY DEF Held
<1> HIDE DEF order, none
<1>10. \A t \in Kinds : behaviours[<<t, i>>] # none => Behaviour!Loaded(i) = behaviours[<<t, i>>]
  BY <1>1, <1>5, <1>7
<1>11. (\A t \in Kinds : behaviours[<<t, i>>] = none) => Behaviour!Loaded(i) = none
  BY <1>1, <1>6, <1>8
<1>12. Behaviour!Loaded(i) \in Held
  BY <1>3, <1>9, <1>10, <1>11
<1> QED
  BY <1>4, <1>10, <1>11, <1>12 DEF none

LEMMA NowIsFine == BehaviourInv => Fine(Behaviour!Now) /\ Behaviour!Now.active = active
BY DEF BehaviourInv, Fine, Stores3, Behaviour!Now

LEMMA FineBecomes ==
  ASSUME NEW b, Fine(b), Behaviour!Become(b)
  PROVE  BehaviourInv'
BY DEF Fine, Behaviour!Become, BehaviourInv, Restorable, Due

LEMMA AddBehaviourStep ==
  ASSUME BehaviourInv, NEW rule \in StoredRules, NEW busy \in BOOLEAN, Behaviour!AddBehaviour(rule, busy)
  PROVE  BehaviourInv'
<1> DEFINE E == Behaviour!EmptyIndices
           i == CHOOSE x \in E : \A y \in E : x <= y
<1>1. E \subseteq Nat /\ E # {} /\ E \subseteq Places
  BY DEF Behaviour!AddBehaviour, Behaviour!EmptyIndices, Behaviour!Indices, Places
<1>2. i \in E
  BY <1>1, Smallest
<1>3. i \in Places /\ active[i] = Behaviour!NoRule
  BY <1>1, <1>2 DEF Behaviour!EmptyIndices
<1>4. Behaviour!Become(Behaviour!Assign(Behaviour!Now, i, rule, busy))
  BY DEF Behaviour!AddBehaviour
<1> HIDE DEF i
<1>5. Fine(Behaviour!Assign(Behaviour!Now, i, rule, busy))
  BY <1>3, NowIsFine, AssignKeeps
<1> QED
  BY <1>4, <1>5, FineBecomes

LEMMA ReplaceBehaviourStep ==
  ASSUME BehaviourInv, "remove" \notin BusyCalls, NEW i \in Places, NEW rule \in StoredRules,
         NEW busyRemove \in BOOLEAN, NEW busySet \in BOOLEAN,
         Behaviour!ReplaceBehaviour(i, rule, busyRemove, busySet)
  PROVE  BehaviourInv'
<1> DEFINE b == Behaviour!Remove(Behaviour!Now, i, FALSE)
<1>1. busyRemove = FALSE
  BY DEF Behaviour!ReplaceBehaviour, Behaviour!MayBeBusy
<1>2. Behaviour!Become(Behaviour!Assign(b, i, rule, busySet))
  BY <1>1 DEF Behaviour!ReplaceBehaviour
<1>3. Fine(b) /\ b.active = [Behaviour!Now.active EXCEPT ![i] = Behaviour!NoRule]
  BY NowIsFine, RemoveKeeps
<1>4. b.active[i] = Behaviour!NoRule
  BY <1>3, NowIsFine DEF BehaviourInv, Restorable
<1> HIDE DEF b
<1>5. Fine(Behaviour!Assign(b, i, rule, busySet))
  BY <1>3, <1>4, AssignKeeps
<1> QED
  BY <1>2, <1>5, FineBecomes

LEMMA RemoveBehaviourStep ==
  ASSUME BehaviourInv, "remove" \notin BusyCalls, NEW i \in Places, NEW busy \in BOOLEAN,
         Behaviour!RemoveBehaviour(i, busy)
  PROVE  BehaviourInv'
<1>1. busy = FALSE
  BY DEF Behaviour!RemoveBehaviour, Behaviour!MayBeBusy
<1>2. Fine(Behaviour!Remove(Behaviour!Now, i, FALSE))
  BY NowIsFine, RemoveKeeps
<1> QED
  BY <1>1, <1>2, FineBecomes DEF Behaviour!RemoveBehaviour

LEMMA ClearAllStep ==
  ASSUME BehaviourInv, "remove" \notin BusyCalls, NEW busy, Behaviour!ClearAll(busy)
  PROVE  BehaviourInv'
<1> DEFINE none == Behaviour!NoRule
           removed == {<<active[i].type, i>> : i \in {j \in Places : active[j] # none}}
<1>1. busy = {}
  BY DEF Behaviour!ClearAll
<1>2. /\ active' = [i \in Places |-> none]
      /\ behaviours' = [k \in Slots |-> IF k \in removed /\ k[2] \notin busy THEN none ELSE behaviours[k]]
      /\ queued' = [k \in Slots |->
                      IF k \in removed /\ k[2] \in busy /\ queued[k] = "none" THEN "remove" ELSE queued[k]]
  BY DEF Behaviour!ClearAll, Behaviour!Indices, Places, Slots, Kinds, Behaviour!Keys, Behaviour!Types
<1> HIDE DEF removed
<1>3. /\ behaviours' = [k \in Slots |-> IF k \in removed THEN none ELSE behaviours[k]]
      /\ \A k \in Slots : queued'[k] = queued[k]
  BY <1>1, <1>2
<1>4. /\ active \in [Places -> Held] /\ behaviours \in [Slots -> Held] /\ queued \in [Slots -> {"none", "write"}]
      /\ \A k \in Slots : behaviours[k] = Due(active, k) \/ behaviours[k] = none
  BY DEF BehaviourInv, Restorable
<1>5. ASSUME NEW k \in Slots PROVE behaviours'[k] = none
  <2>1. CASE k \in removed
    BY <1>3, <2>1
  <2>2. CASE k \notin removed
    <3>1. k[2] \in Places /\ k = <<k[1], k[2]>> /\ k[1] \in Kinds
      BY DEF Slots
    <3>2. active[k[2]].type = k[1] => active[k[2]] = none
      BY <2>2, <3>1 DEF removed
    <3>3. Due(active, k) = none
      BY <3>2 DEF Due
    <3> QED
      BY <1>3, <1>4, <2>2, <3>3
  <2> QED
    BY <2>1, <2>2
<1>6. \A k \in Slots : Due(active, k)' = none
  BY <1>2 DEF Due, Slots
<1>7. queued' \in [Slots -> {"none", "write"}]
  <2>1. DOMAIN queued' = Slots /\ queued' = [k \in Slots |-> queued'[k]]
    BY <1>2
  <2> QED
    BY <1>3, <1>4, <2>1
<1>8. active' \in [Places -> Held] /\ behaviours' \in [Slots -> Held]
  BY <1>2, <1>3, <1>4 DEF Held
<1> HIDE DEF none
<1> QED
  BY <1>5, <1>6, <1>7, <1>8 DEF BehaviourInv, Restorable, none

LEMMA ExecuteQueuedStep ==
  ASSUME BehaviourInv, NEW k \in Slots, Behaviour!ExecuteQueued(k)
  PROVE  BehaviourInv'
<1> DEFINE none == Behaviour!NoRule
           stored == IF active[k[2]].type = k[1] THEN active[k[2]] ELSE behaviours[k]
<1>1. /\ active \in [Places -> Held] /\ behaviours \in [Slots -> Held] /\ queued \in [Slots -> {"none", "write"}]
      /\ \A x \in Slots : behaviours[x] = Due(active, x) \/ (queued[x] = "write" /\ behaviours[x] = none)
  BY DEF BehaviourInv, Restorable
<1>2. queued[k] # "remove"
  BY <1>1
<1>3. /\ queued' = [queued EXCEPT ![k] = "none"] /\ active' = active
      /\ behaviours' = [behaviours EXCEPT ![k] = stored]
  BY <1>2 DEF Behaviour!ExecuteQueued
<1>4. k[2] \in Places /\ stored \in Held
  BY <1>1 DEF Slots
<1>5. stored = Due(active, k)
  BY <1>1 DEF Due
<1>6. behaviours' \in [Slots -> Held] /\ queued' \in [Slots -> {"none", "write"}]
  BY <1>1, <1>3, <1>4
<1>7. \A x \in Slots : Due(active, x)' = Due(active, x)
  BY <1>3 DEF Due
<1> HIDE DEF stored, none
<1>8. \A x \in Slots : behaviours'[x] = Due(active, x) \/ (queued'[x] = "write" /\ behaviours'[x] = none)
  BY <1>1, <1>3, <1>5
<1> QED
  BY <1>1, <1>3, <1>6, <1>7, <1>8 DEF BehaviourInv, Restorable, none

LEMMA ResetStep ==
  ASSUME BehaviourInv, Behaviour!Reset
  PROVE  BehaviourInv'
<1> DEFINE none == Behaviour!NoRule
<1>1. /\ active' = [i \in Places |-> Behaviour!Loaded(i)] /\ behaviours' = behaviours
      /\ queued' = [k \in Slots |-> "none"]
  BY DEF Behaviour!Reset, Behaviour!Indices, Places, Slots, Kinds, Behaviour!Keys, Behaviour!Types
<1>2. active' \in [Places -> Held] /\ behaviours' \in [Slots -> Held] /\ queued' \in [Slots -> {"none", "write"}]
  BY <1>1, LoadedIs DEF BehaviourInv, Restorable
<1>3. ASSUME NEW k \in Slots PROVE behaviours'[k] = Due(active, k)'
  <2>1. k[1] \in Kinds /\ k[2] \in Places /\ k = <<k[1], k[2]>> /\ none.type \notin Kinds
    BY DEF Slots, Kinds, Behaviour!NoRule
  <2>2. active'[k[2]] = Behaviour!Loaded(k[2])
    BY <1>1, <2>1
  <2> DEFINE i == k[2]
             t == k[1]
             loaded == Behaviour!Loaded(i)
  <2>3. /\ \A x \in Kinds : behaviours[<<x, i>>] # none =>
             loaded = behaviours[<<x, i>>] /\ behaviours[<<x, i>>].type = x
        /\ (\A x \in Kinds : behaviours[<<x, i>>] = none) => loaded = none
    BY <2>1, LoadedIs
  <2>4. Due(active, k)' = IF loaded.type = t THEN loaded ELSE none
    BY <2>2 DEF Due
  <2>5. k = <<t, i>> /\ behaviours' = behaviours
    BY <1>1, <2>1
  <2> HIDE DEF loaded, i, none
  <2> QED
    BY <2>1, <2>3, <2>4, <2>5
<1> QED
  BY <1>2, <1>3 DEF BehaviourInv, Restorable

LEMMA BehaviourNext ==
  ASSUME BehaviourInv, "remove" \notin BusyCalls, Behaviour!Next
  PROVE  BehaviourInv'
<1>1. Behaviour!Indices = Places /\ Behaviour!Keys = Slots
  BY DEF Behaviour!Indices, Places, Slots, Kinds, Behaviour!Keys, Behaviour!Types
<1> QED
  BY <1>1, AddBehaviourStep, ReplaceBehaviourStep, RemoveBehaviourStep, ClearAllStep, ExecuteQueuedStep,
     ResetStep DEF Behaviour!Next

LEMMA BehaviourStutter ==
  ASSUME BehaviourInv, UNCHANGED behaviourVars
  PROVE  BehaviourInv'
BY DEF BehaviourInv, Restorable, Due, behaviourVars

LEMMA BehaviourHolds ==
  BehaviourInv => Behaviour!TypeOK /\ Behaviour!BehavioursComeBack
<1> SUFFICES ASSUME BehaviourInv PROVE Behaviour!TypeOK /\ Behaviour!BehavioursComeBack
  OBVIOUS
<1> DEFINE none == Behaviour!NoRule
<1>1. Behaviour!Indices = Places /\ Behaviour!Keys = Slots
  BY DEF Behaviour!Indices, Places, Slots, Kinds, Behaviour!Keys, Behaviour!Types
<1>2. /\ active \in [Places -> Held] /\ behaviours \in [Slots -> Held] /\ queued \in [Slots -> {"none", "write"}]
      /\ \A k \in Slots : behaviours[k] = Due(active, k) \/ (queued[k] = "write" /\ behaviours[k] = none)
  BY DEF BehaviourInv, Restorable
<1>3. Behaviour!TypeOK
  <2>1. ASSUME NEW k \in Slots
        PROVE  behaviours[k] \in {r \in StoredRules : r.type = k[1]} \cup {none}
    <3>1. k[2] \in Places
      BY DEF Slots
    <3>2. behaviours[k] # none => behaviours[k] = active[k[2]] /\ active[k[2]].type = k[1]
      BY <1>2 DEF Due
    <3> QED
      BY <1>2, <3>1, <3>2 DEF Held
  <2>2. queued \in [Slots -> {"none", "write", "remove"}]
    BY <1>2
  <2> QED
    BY <1>1, <1>2, <2>1, <2>2 DEF Behaviour!TypeOK, Held
<1>4. ASSUME \A k \in Slots : queued[k] = "none", NEW i \in Places
      PROVE  Behaviour!Loaded(i) = active[i]
  <2>1. \A t \in Kinds : <<t, i>> \in Slots /\ <<t, i>>[1] = t /\ <<t, i>>[2] = i
    BY DEF Slots
  <2>2. \A t \in Kinds : behaviours[<<t, i>>] = IF active[i].type = t THEN active[i] ELSE none
    BY <1>2, <1>4, <2>1 DEF Due
  <2>3. active[i] \in Held
    BY <1>2
  <2>4. CASE active[i] = none
    BY <2>2, <2>4, LoadedIs
  <2>5. CASE active[i] # none
    BY <2>2, <2>3, <2>5, LoadedIs, StoresAssumption DEF Held, Kinds
  <2> QED
    BY <2>4, <2>5
<1> QED
  BY <1>1, <1>3, <1>4 DEF Behaviour!BehavioursComeBack

-----------------------------------------------------------------------------
(* The microapp (Microapp), when a host waits for the answer to its upload, *)
(* writes do not fail, and apps are not enabled by a boot.                 *)

Cells == 1 .. 2 * NumChunks
Versions == 1 .. NumChunks
AppStates ==
  [enabled : BOOLEAN, hasData : BOOLEAN, known : Versions \cup {0}, passed : BOOLEAN,
   didReboot : BOOLEAN, exceeded : BOOLEAN]

CodeType ==
  /\ binary \in [Cells -> Versions \cup {0}]
  /\ app \in AppStates /\ kept \in [ram : AppStates, flash : AppStates]
  /\ started \in BOOLEAN /\ call \in [active : BOOLEAN, flag : BOOLEAN] /\ guilty \in BOOLEAN

\* An app that passed is complete, and flash is left alone as long as it has.
PassedIsValid == app.passed => Code!Valid /\ storage.op = "none"

\* Who may run was started, and only such are called.
CallsStarted ==
  /\ Code!CanRunApp(app) => started
  /\ call.active => Code!CanRunApp(app) /\ call.flag

\* The flag of a call that did not return survives, and keeps the app from running.
GuiltIsKnown == guilty => call.flag /\ ~ call.active /\ (app.didReboot \/ ~ app.enabled)

\* A chunk is written part by part, and the host is answered after the last.
Writing ==
  LET v == host.version
      first == 2 * host.chunk - 1
  IN /\ v \in Versions /\ host.chunk \in Versions /\ host.answer = "WAIT"
     /\ storage.version = v /\ storage.part \in {first, first + 1}
     /\ storage.chunk = [version |-> v, first |-> first, size |-> 2, written |-> storage.part - first + 1]
     /\ storage.part = first + 1 => binary[first] = v
ChunkIsWritten ==
  /\ DOMAIN storage = {"op", "part", "version", "chunk"}
  /\ storage.op \in {"none", "write", "erase"} /\ storage.part \in Cells
  /\ host.answer \in {"none", "WAIT", "SUCCESS", "BUSY", "WRITE_DISABLED"}
  /\ storage.op = "write" => Writing
  /\ storage.op = "erase" => host = Code!NoUpload
  /\ host.answer = "SUCCESS" =>
       /\ storage.op = "none" /\ host.chunk \in Versions
       /\ binary[2 * host.chunk - 1] = host.version /\ binary[2 * host.chunk] = host.version

CodeInv == CodeType /\ PassedIsValid /\ CallsStarted /\ GuiltIsKnown /\ ChunkIsWritten

LEMMA CodeNames ==
  /\ Code!Parts = Cells /\ Code!Versions = Versions /\ Code!Chunks = Versions /\ Code!Erased = 0
  /\ Code!AppState = AppStates
BY DEF Code!Parts, Cells, Code!Versions, Versions, Code!Chunks, Code!Erased, Code!AppState, AppStates

LEMMA ResetStateIs ==
  /\ Code!ResetState \in AppStates /\ ~ Code!ResetState.enabled /\ ~ Code!ResetState.passed
BY DEF Code!ResetState, AppStates, Code!Erased

LEMMA CodeInit == Code!Init => CodeInv
<1> SUFFICES ASSUME Code!Init PROVE CodeInv
  OBVIOUS
<1>1. 1 \in Cells
  BY StoresAssumption DEF Cells
<1>2. CodeType
  BY CodeNames, ResetStateIs DEF Code!Init, CodeType
<1>3. PassedIsValid /\ CallsStarted /\ GuiltIsKnown
  BY ResetStateIs DEF Code!Init, PassedIsValid, CallsStarted, GuiltIsKnown, Code!CanRunApp
<1>4. ChunkIsWritten
  BY <1>1 DEF Code!Init, ChunkIsWritten, Code!IdleStorage, Code!NoUpload
<1> QED
  BY <1>2, <1>3, <1>4 DEF CodeInv

LEMMA ValidSame ==
  ASSUME binary' = binary
  PROVE  Code!Valid' <=> Code!Valid
BY DEF Code!Valid, Code!IsValid

LEMMA ValidateAppIs ==
  ASSUME NEW a \in AppStates
  PROVE  LET r == Code!ValidateApp(a)
         IN /\ r \in AppStates
            /\ r.passed => Code!Valid
            /\ ~ Code!Validates(a) => (Code!CanRunApp(r) => Code!CanRunApp(a))
            /\ a.didReboot \/ ~ a.enabled => r.didReboot \/ ~ r.enabled
<1> DEFINE r == Code!ValidateApp(a)
           v == CHOOSE w \in Code!Versions : Code!IsValid(w)
           b == IF a.known = v THEN a ELSE Code!ResetState
<1>1. CASE ~ Code!Valid
  <2>1. r = [a EXCEPT !.passed = FALSE]
    BY <1>1 DEF Code!ValidateApp, Code!Validates
  <2> HIDE DEF r
  <2> QED
    BY <1>1, <2>1 DEF AppStates, Code!CanRunApp, r
<1>2. CASE Code!Valid /\ ~ a.hasData
  <2>1. r = a
    BY <1>2 DEF Code!ValidateApp, Code!Validates
  <2> HIDE DEF r
  <2> QED
    BY <1>2, <2>1 DEF AppStates, Code!CanRunApp, r
<1>3. CASE Code!Validates(a)
  <2>1. v \in Versions
    BY <1>3, CodeNames DEF Code!Validates, Code!Valid
  <2>2. r = [b EXCEPT !.known = v, !.passed = TRUE]
    BY <1>3 DEF Code!ValidateApp, Code!Validates
  <2> HIDE DEF v
  <2>3. b \in AppStates /\ (b = a \/ ~ b.enabled)
    BY ResetStateIs
  <2> HIDE DEF b, r
  <2>4. r \in AppStates /\ r.enabled = b.enabled /\ r.didReboot = b.didReboot
    BY <2>1, <2>2, <2>3 DEF AppStates
  <2> QED
    BY <1>3, <2>3, <2>4 DEF Code!Validates, r
<1> QED
  BY <1>1, <1>2, <1>3 DEF Code!Validates

\* A step that leaves flash and the upload alone.
LEMMA AppStep ==
  ASSUME CodeInv, UNCHANGED <<binary, storage, host>>,
         app' \in AppStates, kept' \in [ram : AppStates, flash : AppStates], started' \in BOOLEAN,
         call' \in [active : BOOLEAN, flag : BOOLEAN], guilty' \in BOOLEAN,
         app'.passed => Code!Valid /\ storage.op = "none",
         Code!CanRunApp(app') => started',
         call'.active => Code!CanRunApp(app') /\ call'.flag,
         guilty' => call'.flag /\ ~ call'.active /\ (app'.didReboot \/ ~ app'.enabled)
  PROVE  CodeInv'
<1>1. CodeType' /\ PassedIsValid'
  BY ValidSame DEF CodeInv, CodeType, PassedIsValid
<1>2. CallsStarted' /\ GuiltIsKnown'
  BY DEF CallsStarted, GuiltIsKnown, Code!CanRunApp
<1>3. ChunkIsWritten'
  BY DEF CodeInv, ChunkIsWritten, Writing, Code!NoUpload
<1> QED
  BY <1>1, <1>2, <1>3 DEF CodeInv

LEMMA ValidateStep ==
  ASSUME CodeInv, ~ Pipelined, Code!Validate
  PROVE  CodeInv'
<1>1. /\ ~ call.active /\ storage.op = "none" /\ app' = Code!ValidateApp(app)
      /\ kept' = [kept EXCEPT !.ram = app']
      /\ started' = (IF Code!Validates(app) THEN started \/ Code!CanRunApp(app') ELSE started)
      /\ UNCHANGED <<binary, call, storage, host, guilty>>
  BY DEF Code!Validate, Code!MayCommand, Code!StoreState, Code!StartApp
<1>2. /\ app \in AppStates /\ kept \in [ram : AppStates, flash : AppStates] /\ started \in BOOLEAN
      /\ call \in [active : BOOLEAN, flag : BOOLEAN] /\ guilty \in BOOLEAN
  BY DEF CodeInv, CodeType
<1>3. /\ app' \in AppStates
      /\ app'.passed => Code!Valid
      /\ ~ Code!Validates(app) => (Code!CanRunApp(app') => Code!CanRunApp(app))
      /\ app.didReboot \/ ~ app.enabled => app'.didReboot \/ ~ app'.enabled
  BY <1>1, <1>2, ValidateAppIs
<1>4. Code!CanRunApp(app') \in BOOLEAN
  BY <1>3 DEF Code!CanRunApp, AppStates
<1>5. kept' \in [ram : AppStates, flash : AppStates]
  BY <1>1, <1>2, <1>3
<1>6. Code!CanRunApp(app) => started
  BY DEF CodeInv, CallsStarted
<1>7. started' \in BOOLEAN /\ (Code!CanRunApp(app') => started')
  BY <1>1, <1>2, <1>3, <1>4, <1>6
<1>8. guilty => call.flag /\ (app.didReboot \/ ~ app.enabled)
  BY DEF CodeInv, GuiltIsKnown
<1> QED
  BY <1>1, <1>2, <1>3, <1>5, <1>7, <1>8, AppStep

LEMMA EnableStep ==
  ASSUME CodeInv, ~ Pipelined, Code!Enable
  PROVE  CodeInv'
<1>1. /\ ~ call.active /\ storage.op = "none" /\ app.passed
      /\ app' = [app EXCEPT !.enabled = TRUE, !.hasData = TRUE, !.didReboot = FALSE, !.exceeded = FALSE]
      /\ kept' = [kept EXCEPT !.ram = app']
      /\ started' = (started \/ Code!CanRunApp(app'))
      /\ guilty' = FALSE /\ UNCHANGED <<binary, call, storage, host>>
  BY DEF Code!Enable, Code!MayCommand, Code!StoreState, Code!StartApp
<1>2. /\ app \in AppStates /\ kept \in [ram : AppStates, flash : AppStates] /\ started \in BOOLEAN
      /\ call \in [active : BOOLEAN, flag : BOOLEAN] /\ guilty \in BOOLEAN /\ Code!Valid
  BY <1>1 DEF CodeInv, CodeType, PassedIsValid
<1>3. app' \in AppStates
  BY <1>1, <1>2 DEF AppStates
<1>4. kept' \in [ram : AppStates, flash : AppStates]
  BY <1>1, <1>2, <1>3
<1>5. started' \in BOOLEAN /\ (Code!CanRunApp(app') => started')
  BY <1>1, <1>2 DEF Code!CanRunApp
<1> QED
  BY <1>1, <1>2, <1>3, <1>4, <1>5, AppStep

LEMMA DisableStep ==
  ASSUME CodeInv, ~ Pipelined, Code!Disable
  PROVE  CodeInv'
<1>1. /\ ~ call.active /\ app' = [app EXCEPT !.enabled = FALSE] /\ kept' = [kept EXCEPT !.ram = app']
      /\ UNCHANGED <<binary, started, call, storage, host, guilty>>
  BY DEF Code!Disable, Code!MayCommand, Code!StoreState
<1>2. /\ app \in AppStates /\ kept \in [ram : AppStates, flash : AppStates] /\ started \in BOOLEAN
      /\ call \in [active : BOOLEAN, flag : BOOLEAN] /\ guilty \in BOOLEAN
      /\ app.passed => Code!Valid /\ storage.op = "none"
      /\ guilty => call.flag
  BY DEF CodeInv, CodeType, PassedIsValid, GuiltIsKnown
<1>3. app' \in AppStates /\ app'.passed = app.passed /\ ~ app'.enabled
  BY <1>1, <1>2 DEF AppStates
<1>4. kept' \in [ram : AppStates, flash : AppStates]
  BY <1>1, <1>2, <1>3
<1>5. ~ Code!CanRunApp(app')
  BY <1>3 DEF Code!CanRunApp
<1> QED
  BY <1>1, <1>2, <1>3, <1>4, <1>5, AppStep

LEMMA CallStep ==
  ASSUME CodeInv, Code!CallBegin \/ \E long \in BOOLEAN : Code!CallEnd(long)
  PROVE  CodeInv'
<1>1. /\ app \in AppStates /\ kept \in [ram : AppStates, flash : AppStates] /\ started \in BOOLEAN
      /\ call \in [active : BOOLEAN, flag : BOOLEAN] /\ guilty \in BOOLEAN
      /\ app.passed => Code!Valid /\ storage.op = "none"
      /\ guilty => ~ call.active /\ (app.didReboot \/ ~ app.enabled)
      /\ Code!CanRunApp(app) => started
  BY DEF CodeInv, CodeType, PassedIsValid, GuiltIsKnown, CallsStarted
<1>2. CASE Code!CallBegin
  <2>1. /\ Code!CanRunApp(app) /\ call' = [active |-> TRUE, flag |-> TRUE]
        /\ UNCHANGED <<binary, app, kept, started, storage, host, guilty>>
    BY <1>2 DEF Code!CallBegin
  <2>2. ~ guilty
    BY <1>1, <2>1 DEF Code!CanRunApp
  <2> QED
    BY <1>1, <2>1, <2>2, AppStep
<1>3. ASSUME NEW long \in BOOLEAN, Code!CallEnd(long) PROVE CodeInv'
  <2>1. /\ call.active /\ call' = [active |-> FALSE, flag |-> FALSE]
        /\ app' = (IF long THEN [app EXCEPT !.exceeded = TRUE] ELSE app)
        /\ kept' = (IF long THEN [kept EXCEPT !.ram = app'] ELSE kept)
        /\ UNCHANGED <<binary, started, storage, host, guilty>>
    BY <1>3 DEF Code!CallEnd, Code!StoreState
  <2>2. app' \in AppStates /\ app'.passed = app.passed /\ (Code!CanRunApp(app') => Code!CanRunApp(app))
    BY <1>1, <2>1 DEF AppStates, Code!CanRunApp
  <2>3. kept' \in [ram : AppStates, flash : AppStates]
    BY <1>1, <2>1, <2>2
  <2> QED
    BY <1>1, <2>1, <2>2, <2>3, AppStep
<1> QED
  BY <1>2, <1>3

LEMMA SaveStateStep ==
  ASSUME CodeInv, Code!SaveState
  PROVE  CodeInv'
<1>1. kept' = [kept EXCEPT !.flash = kept.ram] /\ UNCHANGED <<binary, app, started, call, storage, host, guilty>>
  BY DEF Code!SaveState
<1>2. kept' \in [ram : AppStates, flash : AppStates]
  BY <1>1 DEF CodeInv, CodeType
<1> QED
  BY <1>1, <1>2, AppStep DEF CodeInv, CodeType, PassedIsValid, GuiltIsKnown, CallsStarted

\* loadApps(), after which nothing is being written.
LEMMA LoadKeeps ==
  ASSUME CodeInv, ~ AutoEnable, NEW flag \in BOOLEAN, Code!Load(flag), UNCHANGED binary,
         guilty' \in BOOLEAN, guilty' => flag
  PROVE  CodeInv'
<1> DEFINE k == [Code!FromOperatingData(kept.flash, flag) EXCEPT !.hasData = ~ Code!IsErased]
           b == Code!ValidateApp(k)
<1>1. /\ app' = b /\ kept' = [kept EXCEPT !.ram = b] /\ started' = Code!CanRunApp(b)
      /\ call' = [active |-> FALSE, flag |-> flag] /\ storage' = Code!IdleStorage /\ host' = Code!NoUpload
  BY DEF Code!Load
<1>2. kept \in [ram : AppStates, flash : AppStates]
  BY DEF CodeInv, CodeType
<1>3. Code!IsErased \in BOOLEAN
  BY DEF Code!IsErased
<1>4. k \in AppStates /\ k.didReboot = flag
  <2> DEFINE erased == Code!IsErased
  <2>1. erased \in BOOLEAN /\ k = [[kept.flash EXCEPT !.didReboot = flag] EXCEPT !.hasData = ~ erased]
    BY <1>3 DEF Code!FromOperatingData
  <2> HIDE DEF erased, k
  <2> QED
    BY <1>2, <2>1 DEF AppStates
<1> HIDE DEF k
<1>5. /\ b \in AppStates
      /\ b.passed => Code!Valid
      /\ flag => b.didReboot \/ ~ b.enabled
  BY <1>4, ValidateAppIs
<1> HIDE DEF b
<1>6. Code!CanRunApp(b) \in BOOLEAN
  BY <1>5 DEF Code!CanRunApp, AppStates
<1>7. kept' \in [ram : AppStates, flash : AppStates]
  BY <1>1, <1>2, <1>5
<1>8. CodeType'
  BY <1>1, <1>5, <1>6, <1>7 DEF CodeInv, CodeType
<1>9. PassedIsValid'
  BY <1>1, <1>5, ValidSame DEF PassedIsValid, Code!IdleStorage
<1>10. CallsStarted' /\ GuiltIsKnown'
  <2>1. Code!CanRunApp(app)' <=> Code!CanRunApp(b)
    BY <1>1 DEF Code!CanRunApp
  <2>2. ~ call'.active /\ call'.flag = flag
    BY <1>1
  <2> QED
    BY <1>1, <1>5, <2>1, <2>2 DEF CallsStarted, GuiltIsKnown
<1>11. ChunkIsWritten'
  <2>1. 1 \in Cells
    BY StoresAssumption DEF Cells
  <2> QED
    BY <1>1, <2>1 DEF ChunkIsWritten, Code!IdleStorage, Code!NoUpload
<1> QED
  BY <1>8, <1>9, <1>10, <1>11 DEF CodeInv

LEMMA RestartStep ==
  ASSUME CodeInv, ~ AutoEnable, Code!Reset \/ Code!PowerCut
  PROVE  CodeInv'
<1>1. /\ call \in [active : BOOLEAN, flag : BOOLEAN] /\ guilty \in BOOLEAN
      /\ call.active => call.flag
      /\ guilty => call.flag
  BY DEF CodeInv, CodeType, CallsStarted, GuiltIsKnown
<1>2. CASE Code!Reset
  BY <1>1, <1>2, LoadKeeps DEF Code!Reset
<1>3. CASE Code!PowerCut
  BY <1>1, <1>3, LoadKeeps DEF Code!PowerCut
<1> QED
  BY <1>2, <1>3

\* What a host sends replaces the app, and with it what is known of the old one.
LEMMA UploadStep ==
  ASSUME CodeInv, ~ Pipelined, NEW v \in Versions, NEW c \in Versions, Code!Upload(v, c)
  PROVE  CodeInv'
<1> DEFINE free == \A p \in Code!PartsOf(c) : binary[p] = Code!Erased
           first == 2 * c - 1
           new == [version |-> v, first |-> first, size |-> 2, written |-> 0]
           s == [storage EXCEPT !.chunk = new]
           w == IF free THEN Code!WriteNextPart(s) ELSE [to |-> storage, ret |-> "WRITE_DISABLED"]
<1>1. /\ ~ call.active /\ storage.op = "none"
      /\ storage' = w.to /\ host' = [version |-> v, chunk |-> c, answer |-> w.ret]
      /\ app' = [Code!ResetState EXCEPT !.hasData = (w.ret # "BUSY")]
      /\ kept' = [kept EXCEPT !.ram = app'] /\ guilty' = FALSE /\ UNCHANGED <<binary, started, call>>
  BY DEF Code!Upload, Code!MayCommand, Code!StoreState
<1>2. /\ kept \in [ram : AppStates, flash : AppStates] /\ started \in BOOLEAN
      /\ call \in [active : BOOLEAN, flag : BOOLEAN] /\ binary \in [Cells -> Versions \cup {0}]
      /\ storage.part \in Cells
  BY DEF CodeInv, CodeType, ChunkIsWritten
<1>3. app' \in AppStates /\ ~ app'.passed /\ ~ app'.enabled
  <2> DEFINE has == w.ret # "BUSY"
  <2>1. has \in BOOLEAN /\ app' = [Code!ResetState EXCEPT !.hasData = has]
    BY <1>1
  <2> HIDE DEF has
  <2> QED
    BY <2>1, ResetStateIs DEF AppStates
<1>4. kept' \in [ram : AppStates, flash : AppStates]
  BY <1>1, <1>2, <1>3
<1>5. CodeType'
  BY <1>1, <1>2, <1>3, <1>4 DEF CodeType
<1>6. PassedIsValid' /\ CallsStarted' /\ GuiltIsKnown'
  BY <1>1, <1>3 DEF PassedIsValid, CallsStarted, GuiltIsKnown, Code!CanRunApp
<1>7. ChunkIsWritten'
  <2>1. CASE ~ free
    <3>1. w.to = storage /\ w.ret = "WRITE_DISABLED"
      BY <2>1
    <3> HIDE DEF w
    <3> QED
      BY <1>1, <1>2, <3>1 DEF CodeInv, ChunkIsWritten
  <2>2. CASE free
    <3> DEFINE t == [[s EXCEPT !.chunk.written = @ + 1] EXCEPT
                       !.op = "write", !.part = first, !.version = v]
    <3>1. first \in Cells /\ first + 0 = first /\ 0 + 1 = 1 /\ first - first + 1 = 1 /\ first + 1 # first
      BY StoresAssumption DEF Cells, Versions
    <3>2. s.chunk = new /\ s.op = "none" /\ DOMAIN s = {"op", "part", "version", "chunk"}
      BY <1>1 DEF CodeInv, ChunkIsWritten
    <3>3. s.chunk.written = 0 /\ s.chunk.size = 2 /\ s.chunk.first = first /\ s.chunk.version = v
      BY <3>2
    <3>4. w = [to |-> [[s EXCEPT !.chunk.written = @ + 1] EXCEPT !.op = "write",
                        !.part = s.chunk.first + s.chunk.written, !.version = s.chunk.version],
               ret |-> "WAIT"]
      BY <2>2, <3>2, <3>3 DEF Code!WriteNextPart
    <3>5. w = [to |-> t, ret |-> "WAIT"]
      BY <3>1, <3>3, <3>4
    <3>6. /\ t.op = "write" /\ t.part = first /\ t.version = v
          /\ t.chunk = [version |-> v, first |-> first, size |-> 2, written |-> 1]
          /\ DOMAIN t = {"op", "part", "version", "chunk"}
      BY <3>1, <3>2
    <3> HIDE DEF t, w, s
    <3>7. storage' = t /\ host' = [version |-> v, chunk |-> c, answer |-> "WAIT"]
      BY <1>1, <3>5
    <3>8. Writing'
      BY <3>1, <3>6, <3>7 DEF Writing
    <3> QED
      BY <3>1, <3>6, <3>7, <3>8 DEF ChunkIsWritten
  <2> QED
    BY <2>1, <2>2
<1> QED
  BY <1>5, <1>6, <1>7 DEF CodeInv

\* A step of storage, while no app has passed.
LEMMA FlashStep ==
  ASSUME CodeInv, storage.op # "none", UNCHANGED <<app, kept, started, call, guilty>>,
         binary' \in [Cells -> Versions \cup {0}], ChunkIsWritten'
  PROVE  CodeInv'
<1>1. ~ app.passed
  BY DEF CodeInv, PassedIsValid
<1>2. CodeType' /\ PassedIsValid'
  BY <1>1 DEF CodeInv, CodeType, PassedIsValid
<1>3. CallsStarted' /\ GuiltIsKnown'
  BY DEF CodeInv, CallsStarted, GuiltIsKnown, Code!CanRunApp
<1> QED
  BY <1>2, <1>3 DEF CodeInv

LEMMA FlashWrittenStep ==
  ASSUME CodeInv, ~ FlashFails, NEW ok \in BOOLEAN, Code!FlashWritten(ok)
  PROVE  CodeInv'
<1> DEFINE s == [storage EXCEPT !.op = "none"]
           w == Code!WriteNextPart(s)
           v == host.version
           here == storage.part
           first == 2 * host.chunk - 1
<1>1. /\ ok /\ storage.op = "write"
      /\ binary' = [binary EXCEPT ![here] = storage.version]
      /\ storage' = IF w.ret = "WAIT" THEN w.to ELSE Code!IdleStorage
      /\ host' = [host EXCEPT !.answer = w.ret]
      /\ UNCHANGED <<app, kept, started, call, guilty>>
  BY DEF Code!FlashWritten
<1>2. Writing /\ binary \in [Cells -> Versions \cup {0}] /\ here \in Cells
  BY <1>1 DEF CodeInv, CodeType, ChunkIsWritten
<1>3. /\ v \in Versions /\ host.chunk \in Versions /\ host.answer = "WAIT" /\ storage.version = v
      /\ here \in {first, first + 1}
      /\ storage.chunk = [version |-> v, first |-> first, size |-> 2, written |-> here - first + 1]
      /\ here = first + 1 => binary[first] = v
  BY <1>2 DEF Writing
<1>4. binary' \in [Cells -> Versions \cup {0}]
  BY <1>1, <1>2, <1>3
<1>5. s.op = "none" /\ s.chunk = storage.chunk /\ DOMAIN s = {"op", "part", "version", "chunk"}
  BY DEF CodeInv, ChunkIsWritten
<1>6. /\ first \in Cells /\ first + 1 \in Cells /\ first \in Int /\ first # first + 1 /\ first + 1 = 2 * host.chunk
      /\ first - first + 1 = 1 /\ (first + 1) - first + 1 = 2 /\ 1 + 1 = 2 /\ ~ (1 >= 2) /\ 2 >= 2
  <2>1. ASSUME NEW n \in Versions
        PROVE  /\ 2 * n - 1 \in Cells /\ (2 * n - 1) + 1 \in Cells /\ 2 * n - 1 \in Int
               /\ (2 * n - 1) + 1 = 2 * n /\ 2 * n - 1 # (2 * n - 1) + 1
               /\ (2 * n - 1) - (2 * n - 1) + 1 = 1 /\ ((2 * n - 1) + 1) - (2 * n - 1) + 1 = 2
    BY StoresAssumption DEF Cells, Versions
  <2> QED
    BY <1>3, <2>1
<1>7. host'.version = v /\ host'.chunk = host.chunk
  BY <1>1
<1> HIDE DEF first, here, s, v
<1>8. CASE here = first
  <2> DEFINE c == [s EXCEPT !.chunk.written = @ + 1]
             t == [c EXCEPT !.op = "write", !.part = s.chunk.first + s.chunk.written,
                            !.version = s.chunk.version]
  <2>1. s.chunk = [version |-> v, first |-> first, size |-> 2, written |-> 1]
    BY <1>3, <1>5, <1>6, <1>8
  <2>2. s.chunk.first = first /\ s.chunk.written = 1 /\ s.chunk.version = v /\ s.chunk.size = 2
    BY <2>1
  <2>3. w = [to |-> t, ret |-> "WAIT"]
    BY <1>5, <1>6, <2>2 DEF Code!WriteNextPart
  <2>4. c.chunk = [version |-> v, first |-> first, size |-> 2, written |-> 2]
    BY <1>6, <2>1 DEF s
  <2> DEFINE l == s.chunk.first + s.chunk.written
             o == s.chunk.version
  <2>5. l = first + 1 /\ o = v
    BY <2>2
  <2>6. DOMAIN c = {"op", "part", "version", "chunk"} /\ t = [c EXCEPT !.op = "write", !.part = l, !.version = o]
    BY <1>5
  <2> HIDE DEF c, l, o
  <2>7. storage' = t /\ host'.answer = "WAIT"
    <3>1. w.ret = "WAIT" /\ w.to = t
      BY <2>3
    <3> HIDE DEF w, t
    <3>2. storage' = t /\ host' = [host EXCEPT !.answer = "WAIT"]
      BY <1>1, <3>1
    <3>3. host'.answer \in {"WAIT", host.answer}
      BY <3>2
    <3> QED
      BY <1>3, <3>2, <3>3
  <2>8. /\ t.op = "write" /\ t.part = first + 1 /\ t.version = v /\ t.chunk = c.chunk
        /\ DOMAIN t = {"op", "part", "version", "chunk"}
    BY <2>5, <2>6
  <2> HIDE DEF t
  <2>9. binary'[first] = v
    BY <1>1, <1>2, <1>3, <1>6, <1>8
  <2>10. Writing'
    BY <1>3, <1>6, <1>7, <2>4, <2>7, <2>8, <2>9 DEF Writing, first, v
  <2>11. ChunkIsWritten'
    BY <1>6, <2>7, <2>8, <2>10 DEF ChunkIsWritten
  <2> QED
    BY <1>1, <1>4, <2>11, FlashStep
<1>9. CASE here = first + 1
  <2>1. s.chunk = [version |-> v, first |-> first, size |-> 2, written |-> 2]
    BY <1>3, <1>5, <1>6, <1>9
  <2>2. s.chunk.written = 2 /\ s.chunk.size = 2
    BY <2>1
  <2>3. w = [to |-> s, ret |-> "SUCCESS"]
    BY <1>6, <2>2 DEF Code!WriteNextPart
  <2>4. w.ret = "SUCCESS"
    BY <2>3
  <2> HIDE DEF w
  <2>5. storage' = Code!IdleStorage /\ host' = [host EXCEPT !.answer = "SUCCESS"]
    BY <1>1, <2>4
  <2>6. binary'[first] = v /\ binary'[first + 1] = v
    BY <1>1, <1>2, <1>3, <1>6, <1>9
  <2>7. binary'[2 * host'.chunk - 1] = host'.version /\ binary'[2 * host'.chunk] = host'.version
    BY <1>6, <1>7, <2>6 DEF first
  <2>8. 1 \in Cells /\ host'.answer \in {"none", "WAIT", "SUCCESS", "BUSY", "WRITE_DISABLED"}
    <3>1. 1 \in Cells
      BY StoresAssumption DEF Cells
    <3>2. host'.answer \in {"SUCCESS", host.answer}
      BY <2>5
    <3> QED
      BY <1>3, <3>1, <3>2
  <2>9. ChunkIsWritten'
    BY <1>3, <1>7, <2>5, <2>7, <2>8 DEF ChunkIsWritten, Code!IdleStorage
  <2> QED
    BY <1>1, <1>4, <2>9, FlashStep
<1> QED
  BY <1>3, <1>8, <1>9

LEMMA EraseStep ==
  ASSUME CodeInv, Code!ErasePage \/ Code!EraseDone
  PROVE  CodeInv'
<1>1. /\ storage.op = "erase" /\ UNCHANGED <<app, kept, started, call, host, guilty>>
  BY DEF Code!ErasePage, Code!EraseDone
<1>2. /\ binary \in [Cells -> Versions \cup {0}] /\ storage.part \in Cells /\ host = Code!NoUpload
  BY <1>1 DEF CodeInv, CodeType, ChunkIsWritten
<1>3. host'.answer = "none"
  BY <1>1, <1>2 DEF Code!NoUpload
<1>4. CASE Code!ErasePage
  <2> DEFINE p == CHOOSE q \in Code!Parts : binary[q] # Code!Erased
                                             /\ \A r \in 1 .. q - 1 : binary[r] = Code!Erased
  <2>1. binary' = [binary EXCEPT ![p] = Code!Erased] /\ storage' = storage
    BY <1>4 DEF Code!ErasePage
  <2> HIDE DEF p
  <2>2. binary' \in [Cells -> Versions \cup {0}]
    BY <1>2, <2>1, CodeNames
  <2>3. ChunkIsWritten'
    BY <1>1, <1>2, <1>3, <2>1 DEF CodeInv, ChunkIsWritten, Code!NoUpload
  <2> QED
    BY <1>1, <2>2, <2>3, FlashStep
<1>5. CASE Code!EraseDone
  <2>1. storage' = [storage EXCEPT !.op = "none"] /\ binary' = binary
    BY <1>5 DEF Code!EraseDone
  <2>2. DOMAIN storage = {"op", "part", "version", "chunk"}
    BY DEF CodeInv, ChunkIsWritten
  <2>3. storage'.part = storage.part /\ storage'.op = "none" /\ DOMAIN storage' = DOMAIN storage
    BY <2>1, <2>2
  <2>4. ChunkIsWritten'
    BY <1>1, <1>2, <1>3, <2>1, <2>2, <2>3 DEF ChunkIsWritten, Code!NoUpload
  <2> QED
    BY <1>1, <1>2, <2>1, <2>4, FlashStep
<1> QED
  BY <1>4, <1>5

LEMMA RemoveAppStep ==
  ASSUME CodeInv, ~ Pipelined, Code!RemoveApp
  PROVE  CodeInv'
<1>1. /\ ~ call.active /\ storage.op = "none" /\ host' = Code!NoUpload /\ guilty' = FALSE
      /\ app' = Code!ResetState /\ kept' = [kept EXCEPT !.ram = app'] /\ started' = FALSE
      /\ storage' = (IF Code!IsErased THEN storage ELSE [storage EXCEPT !.op = "erase"])
      /\ UNCHANGED <<binary, call>>
  BY DEF Code!RemoveApp, Code!MayCommand, Code!RemovedState, Code!StoreState
<1>2. /\ kept \in [ram : AppStates, flash : AppStates] /\ call \in [active : BOOLEAN, flag : BOOLEAN]
      /\ binary \in [Cells -> Versions \cup {0}] /\ storage.part \in Cells
  BY DEF CodeInv, CodeType, ChunkIsWritten
<1>3. kept' \in [ram : AppStates, flash : AppStates]
  BY <1>1, <1>2, ResetStateIs
<1>4. CodeType'
  BY <1>1, <1>2, <1>3, ResetStateIs DEF CodeType
<1>5. PassedIsValid' /\ CallsStarted' /\ GuiltIsKnown'
  BY <1>1, ResetStateIs DEF PassedIsValid, CallsStarted, GuiltIsKnown, Code!CanRunApp
<1>6. /\ storage'.part = storage.part /\ storage'.op \in {"none", "erase"}
      /\ DOMAIN storage' = {"op", "part", "version", "chunk"}
  BY <1>1 DEF CodeInv, ChunkIsWritten
<1>7. ChunkIsWritten'
  BY <1>1, <1>2, <1>6 DEF ChunkIsWritten, Code!NoUpload
<1> QED
  BY <1>4, <1>5, <1>7 DEF CodeInv

LEMMA CodeNext ==
  ASSUME CodeInv, ~ Pipelined, ~ FlashFails, ~ AutoEnable, Code!Next
  PROVE  CodeInv'
<1>1. CASE \E v \in Versions, c \in Versions : Code!Upload(v, c)
  BY <1>1, UploadStep
<1>2. CASE \E ok \in BOOLEAN : Code!FlashWritten(ok)
  BY <1>2, FlashWrittenStep
<1>3. CASE Code!Validate \/ Code!Enable \/ Code!Disable \/ Code!RemoveApp \/ Code!ErasePage \/ Code!EraseDone
  BY <1>3, ValidateStep, EnableStep, DisableStep, RemoveAppStep, EraseStep
<1>4. CASE Code!CallBegin \/ \E long \in BOOLEAN : Code!CallEnd(long)
  BY <1>4, CallStep
<1>5. CASE Code!SaveState \/ Code!Reset \/ Code!PowerCut
  BY <1>5, SaveStateStep, RestartStep
<1> QED
  BY <1>1, <1>2, <1>3, <1>4, <1>5, CodeNames DEF Code!Next

LEMMA CodeStutter ==
  ASSUME CodeInv, UNCHANGED codeVars
  PROVE  CodeInv'
BY ValidSame DEF CodeInv, CodeType, PassedIsValid, CallsStarted, GuiltIsKnown, ChunkIsWritten, Writing,
                 codeVars, Code!CanRunApp, Code!NoUpload

LEMMA CodeHolds ==
  CodeInv => Code!TypeOK /\ Code!RunsOnlyValid /\ Code!HangingAppStops /\ Code!UploadAnswerIsTrue
<1> SUFFICES ASSUME CodeInv
             PROVE  Code!TypeOK /\ Code!RunsOnlyValid /\ Code!HangingAppStops /\ Code!UploadAnswerIsTrue
  OBVIOUS
<1>1. Code!TypeOK
  BY CodeNames DEF CodeInv, CodeType, ChunkIsWritten, Code!TypeOK
<1>2. Code!RunsOnlyValid
  BY DEF CodeInv, CallsStarted, PassedIsValid, Code!RunsOnlyValid, Code!CanRunApp
<1>3. Code!HangingAppStops
  BY DEF CodeInv, GuiltIsKnown, Code!HangingAppStops
<1>4. Code!UploadAnswerIsTrue
  BY DEF CodeInv, ChunkIsWritten, Code!UploadAnswerIsTrue, Code!PartsOf
<1> QED
  BY <1>1, <1>2, <1>3, <1>4

-----------------------------------------------------------------------------
(* Switch commands (MultiSwitch), when a copy lives shorter than a claim.  *)

LEMMA ModIs ==
  ASSUME NEW M \in Nat \ {0}, NEW x \in Int
  PROVE  (x % M) \in 0 .. M - 1 /\ \E q \in Int : x = q * M + (x % M)
<1>1. x = (x \div M) * M + (x % M)
  OBVIOUS
<1>2. x \div M \in Int
  OBVIOUS
<1>3. (x % M) \in 0 .. M - 1
  OBVIOUS
<1> DEFINE r == x % M
<1> HIDE DEF r
<1>4. \E q \in Int : x = q * M + r
  BY <1>1, <1>2 DEF r
<1> QED
  BY <1>3, <1>4 DEF r

\* The count of an older command is less than half a round behind.
LEMMA OlderCount ==
  ASSUME NEW M \in Nat \ {0}, NEW u \in Int, NEW v \in Int, u < v, v - u <= M \div 2
  PROVE  (((u % M) - (v % M)) % M) \notin 1 .. M \div 2 - 1
<1> DEFINE r == u % M
           s == v % M
           h == M \div 2
           e == IF r <= s THEN r - s + M ELSE r - s
<1>1. PICK p \in Int : u = p * M + r
  BY ModIs
<1>2. PICK q \in Int : v = q * M + s
  BY ModIs
<1>3. r \in 0 .. M - 1 /\ s \in 0 .. M - 1
  BY ModIs
<1>4. h \in Nat /\ 2 * h <= M /\ v - u <= h
  OBVIOUS
<1> HIDE DEF r, s, h
<1>5. (q - p) * M = v - u - (s - r)
  BY <1>1, <1>2, <1>3
<1>6. q - p = 0 \/ q - p = 1
  <2>1. CASE q - p <= -1
    <3>1. (q - p) * M <= (-1) * M
      BY <2>1
    <3> QED
      BY <1>3, <1>5, <3>1
  <2>2. CASE q - p >= 2
    <3>1. (q - p) * M >= 2 * M
      BY <2>2
    <3> QED
      BY <1>3, <1>4, <1>5, <3>1
  <2> QED
    BY <2>1, <2>2
<1>7. (r - s) % M = M - (v - u)
  <2>1. CASE q - p = 0
    <3>1. r - s = u - v
      BY <1>3, <1>5, <2>1
    <3>2. u - v + M \in 0 .. M - 1
      BY <1>4
    <3>3. (u - v) % M = u - v + M
      BY <3>2
    <3> QED
      BY <3>1, <3>3
  <2>2. CASE q - p = 1
    <3>1. r - s = M - (v - u)
      BY <1>3, <1>5, <2>2
    <3>2. M - (v - u) \in 0 .. M - 1
      BY <1>4
    <3> QED
      BY <3>1, <3>2
  <2> QED
    BY <1>6, <2>1, <2>2
<1>8. M - (v - u) \notin 1 .. h - 1
  BY <1>4
<1> QED
  BY <1>7, <1>8 DEF r, s, h

Commands == Switching!Commands
Known == Commands \cup {Switching!Nothing}
Sent == Switching!Copies \cap Commands

SwitchingType ==
  /\ given \in [Phones -> Nat] /\ last \in [Phones -> Nat]
  /\ \A p \in Phones : given[p] <= NumCommands[p] /\ last[p] <= given[p]
  /\ stale \in [Commands -> 0 .. Linger]
  /\ commandAir \subseteq Commands
  /\ claims \in [Relays -> [Phones -> [command : Known, ticks : 0 .. AdvClaim]]]
  /\ queue \in [Relays -> [command : Known, left : 0 .. Transmissions]]
  /\ \A r \in Relays : queue[r].left > 0 => queue[r].command \in Commands
  /\ owner \in [source : Known, ticks : 0 .. OwnerClaim]

\* What is on its way was given, and less than half a round of the counter ago.
SentIsRecent ==
  \A c \in Sent : c[2] <= given[c[1]] /\ given[c[1]] - c[2] <= CountMod \div 2

\* As long as a copy of a command is on its way that is older than what was executed,
\* the phone owns the switch with what was executed, and for longer than the copy can live.
OlderIsShutOut ==
  \A c \in Sent : c[2] < last[c[1]] =>
    /\ owner.ticks > 0 /\ owner.source = <<c[1], last[c[1]]>>
    /\ stale[c] + owner.ticks >= OwnerClaim

SwitchingInv == SwitchingType /\ SentIsRecent /\ OlderIsShutOut

LEMMA CommandIs ==
  /\ \A c \in Commands : c = <<c[1], c[2]>> /\ c[1] \in Phones /\ c[2] \in 1 .. NumCommands[c[1]]
  /\ \A p \in Phones : \A n \in 1 .. NumCommands[p] : <<p, n>> \in Commands
  /\ Switching!Nothing \notin Commands
BY StoresAssumption DEF Commands, Switching!Commands, Switching!Nothing

LEMMA SwitchingConstants ==
  /\ CountMod \in Nat \ {0} /\ Transmissions \in Nat \ {0} /\ AdvClaim \in Nat \ {0}
  /\ OwnerClaim \in Nat \ {0} /\ Linger \in Nat /\ FirstCount \in Nat
  /\ NumCommands \in [Phones -> Nat]
BY StoresAssumption

LEMMA SwitchingInit == Switching!Init => SwitchingInv
<1> SUFFICES ASSUME Switching!Init PROVE SwitchingInv
  OBVIOUS
<1>1. Sent = {}
  BY CommandIs DEF Sent, Switching!Init, Switching!Copies, Switching!Empty
<1>2. SwitchingType
  BY SwitchingConstants DEF Switching!Init, SwitchingType, Known, Commands, Switching!NoClaim, Switching!Empty
<1> QED
  BY <1>1, <1>2 DEF SwitchingInv, SentIsRecent, OlderIsShutOut

\* What is accepted is not older than what was executed of its phone.
LEMMA AcceptedIsNewer ==
  ASSUME SwitchingInv, NEW c \in Sent, Switching!Accepts(c)
  PROVE  last[c[1]] <= c[2]
<1>1. c = <<c[1], c[2]>> /\ c[1] \in Phones /\ c[2] \in Nat /\ last[c[1]] \in Nat /\ last[c[1]] <= given[c[1]]
  BY CommandIs, SwitchingConstants DEF Sent, SwitchingInv, SwitchingType
<1> SUFFICES ASSUME c[2] < last[c[1]] PROVE FALSE
  BY <1>1
<1> DEFINE u == FirstCount + c[2] - 1
           v == FirstCount + last[c[1]] - 1
<1>2. owner.ticks > 0 /\ owner.source = <<c[1], last[c[1]]>>
  BY DEF SwitchingInv, OlderIsShutOut
<1>3. given[c[1]] - c[2] <= CountMod \div 2 /\ given[c[1]] \in Nat
  BY <1>1 DEF SwitchingInv, SentIsRecent, SwitchingType
<1>4. owner.ticks \in Nat
  BY SwitchingConstants DEF SwitchingInv, SwitchingType
<1>5. Switching!IsNewer(v % CountMod, u % CountMod)
  BY <1>2, <1>4 DEF Switching!Accepts, Switching!Count
<1>6. u \in Int /\ v \in Int /\ u < v /\ v - u <= CountMod \div 2
  <2>1. CountMod \div 2 \in Nat
    BY SwitchingConstants
  <2> QED
    BY <1>1, <1>3, <2>1, SwitchingConstants
<1> HIDE DEF u, v
<1> QED
  BY <1>5, <1>6, OlderCount, SwitchingConstants DEF Switching!IsNewer

LEMMA GiveStep ==
  ASSUME SwitchingInv, NEW p \in Phones, Switching!Give(p)
  PROVE  SwitchingInv'
<1>1. /\ given[p] < NumCommands[p] /\ given' = [given EXCEPT ![p] = @ + 1]
      /\ UNCHANGED <<stale, claims, queue, commandAir, owner, last>>
      /\ \A c \in Switching!Copies : c[1] = p => given[p] + 1 - c[2] <= CountMod \div 2
  BY DEF Switching!Give
<1>2. Sent' = Sent /\ \A c \in Sent : c[1] \in Phones /\ c[2] \in Nat
  BY <1>1, CommandIs, SwitchingConstants DEF Sent, Switching!Copies
<1>3. SwitchingType'
  <2>1. /\ given' \in [Phones -> Nat]
        /\ \A q \in Phones : given'[q] = IF q = p THEN given[q] + 1 ELSE given[q]
    BY <1>1 DEF SwitchingInv, SwitchingType
  <2>2. ASSUME NEW q \in Phones PROVE given'[q] <= NumCommands[q] /\ last[q] <= given'[q]
    <3>1. /\ given[q] \in Nat /\ last[q] \in Nat /\ NumCommands[q] \in Nat
          /\ given[q] <= NumCommands[q] /\ last[q] <= given[q] /\ given[p] < NumCommands[p]
      BY <1>1, SwitchingConstants DEF SwitchingInv, SwitchingType
    <3> QED
      BY <2>1, <3>1
  <2> QED
    BY <1>1, <2>1, <2>2 DEF SwitchingInv, SwitchingType
<1>4. SentIsRecent'
  <2> SUFFICES ASSUME NEW c \in Sent
               PROVE  c[2] <= given'[c[1]] /\ given'[c[1]] - c[2] <= CountMod \div 2
    BY <1>2 DEF SentIsRecent
  <2>1. c[2] <= given[c[1]] /\ given[c[1]] - c[2] <= CountMod \div 2 /\ given[c[1]] \in Nat
    BY <1>2 DEF SwitchingInv, SentIsRecent, SwitchingType
  <2>2. c[1] = p => given[p] + 1 - c[2] <= CountMod \div 2
    BY <1>1 DEF Sent
  <2>3. given'[c[1]] = IF c[1] = p THEN given[p] + 1 ELSE given[c[1]]
    BY <1>1, <1>2 DEF SwitchingInv, SwitchingType
  <2> QED
    BY <1>2, <2>1, <2>2, <2>3
<1>5. OlderIsShutOut'
  BY <1>1, <1>2 DEF SwitchingInv, OlderIsShutOut
<1> QED
  BY <1>3, <1>4, <1>5 DEF SwitchingInv

LEMMA ScanStep ==
  ASSUME SwitchingInv, NEW r \in Relays, NEW p \in Phones, Switching!Scan(r, p)
  PROVE  SwitchingInv'
<1> DEFINE c == <<p, given[p]>>
<1>1. /\ given[p] > 0 /\ UNCHANGED <<given, stale, commandAir, owner, last>>
      /\ claims' = [claims EXCEPT ![r][p] = [command |-> c, ticks |-> AdvClaim]]
      /\ queue' = [queue EXCEPT ![r] = [command |-> c, left |-> Transmissions]]
  BY DEF Switching!Scan
<1>2. c \in Commands /\ c \in Known /\ given[p] \in Nat /\ last[p] <= given[p] /\ last[p] \in Nat
  BY <1>1, CommandIs, SwitchingConstants DEF Known, SwitchingInv, SwitchingType
<1>3. Sent' \subseteq Sent \cup {c}
  BY <1>1 DEF Sent, Switching!Copies, SwitchingInv, SwitchingType
<1>4. SwitchingType'
  <2>1. claims' \in [Relays -> [Phones -> [command : Known, ticks : 0 .. AdvClaim]]]
    BY <1>1, <1>2, SwitchingConstants DEF SwitchingInv, SwitchingType
  <2>2. queue' \in [Relays -> [command : Known, left : 0 .. Transmissions]]
    BY <1>1, <1>2, SwitchingConstants DEF SwitchingInv, SwitchingType
  <2>3. \A q \in Relays : queue'[q].left > 0 => queue'[q].command \in Commands
    BY <1>1, <1>2 DEF SwitchingInv, SwitchingType
  <2> QED
    BY <1>1, <2>1, <2>2, <2>3 DEF SwitchingInv, SwitchingType
<1>5. SentIsRecent'
  <2>1. c[1] = p /\ c[2] = given[p] /\ 0 <= CountMod \div 2
    BY SwitchingConstants
  <2>2. c[2] <= given[c[1]] /\ given[c[1]] - c[2] <= CountMod \div 2
    BY <1>2, <2>1
  <2> QED
    BY <1>1, <1>3, <2>2 DEF SwitchingInv, SentIsRecent
<1>6. OlderIsShutOut'
  <2>1. ~ (c[2] < last[c[1]])
    BY <1>2
  <2> QED
    BY <1>1, <1>3, <2>1 DEF SwitchingInv, OlderIsShutOut
<1> QED
  BY <1>4, <1>5, <1>6 DEF SwitchingInv

\* What is sent gets no more than it was, and all else stays.
LEMMA FewerSent ==
  ASSUME SwitchingInv, UNCHANGED <<given, stale, owner, last>>, Sent' \subseteq Sent, SwitchingType'
  PROVE  SwitchingInv'
BY DEF SwitchingInv, SentIsRecent, OlderIsShutOut

LEMMA PublishStep ==
  ASSUME SwitchingInv, NEW r \in Relays, Switching!Publish(r)
  PROVE  SwitchingInv'
<1>1. /\ queue[r].left > 0 /\ commandAir' = commandAir \cup {queue[r].command}
      /\ queue' = [queue EXCEPT ![r] = IF queue[r].left = 1 THEN Switching!Empty
                                       ELSE [queue[r] EXCEPT !.left = queue[r].left - 1]]
      /\ UNCHANGED <<given, stale, claims, owner, last>>
  BY DEF Switching!Publish
<1>2. /\ queue \in [Relays -> [command : Known, left : 0 .. Transmissions]] /\ queue[r].command \in Commands
      /\ queue[r] \in [command : Known, left : 0 .. Transmissions]
  BY <1>1 DEF SwitchingInv, SwitchingType
<1> DEFINE e == IF queue[r].left = 1 THEN Switching!Empty ELSE [queue[r] EXCEPT !.left = queue[r].left - 1]
<1>3. /\ e \in [command : Known, left : 0 .. Transmissions]
      /\ e.command = Switching!Nothing \/ e.command = queue[r].command
      /\ e.left > 0 => e.command = queue[r].command
  BY <1>1, <1>2, SwitchingConstants DEF Switching!Empty, Known
<1>4. queue' = [queue EXCEPT ![r] = e]
  BY <1>1
<1> HIDE DEF e
<1>5. Sent' \subseteq Sent
  BY <1>1, <1>2, <1>3, <1>4, CommandIs DEF Sent, Switching!Copies
<1>6. SwitchingType'
  BY <1>1, <1>2, <1>3, <1>4 DEF SwitchingInv, SwitchingType
<1> QED
  BY <1>1, <1>5, <1>6, FewerSent

LEMMA LoseStep ==
  ASSUME SwitchingInv, NEW c \in Commands, Switching!Lose(c)
  PROVE  SwitchingInv'
<1>1. SwitchingType' /\ Sent' \subseteq Sent
  BY DEF Switching!Lose, SwitchingInv, SwitchingType, Sent, Switching!Copies
<1> QED
  BY <1>1, FewerSent DEF Switching!Lose

LEMMA ReceiveStep ==
  ASSUME SwitchingInv, NEW c \in Commands, NEW again \in BOOLEAN, Switching!Receive(c, again)
  PROVE  SwitchingInv' /\ \A p \in Phones : last'[p] >= last[p]
<1>1. /\ c \in commandAir /\ UNCHANGED <<given, stale, claims, queue>> /\ commandAir' \subseteq commandAir
  BY DEF Switching!Receive
<1>2. Sent' \subseteq Sent /\ c \in Sent
  BY <1>1 DEF Sent, Switching!Copies
<1>3. \A p \in Phones : last[p] \in Nat
  BY DEF SwitchingInv, SwitchingType
<1>4. CASE ~ Switching!Accepts(c)
  <2>1. UNCHANGED <<owner, last>>
    BY <1>4 DEF Switching!Receive
  <2>2. SwitchingType'
    BY <1>1, <2>1 DEF SwitchingInv, SwitchingType
  <2> QED
    BY <1>1, <1>2, <1>3, <2>1, <2>2, FewerSent
<1>5. CASE Switching!Accepts(c)
  <2>1. owner' = [source |-> c, ticks |-> OwnerClaim] /\ last' = [last EXCEPT ![c[1]] = c[2]]
    BY <1>5 DEF Switching!Receive
  <2>2. c = <<c[1], c[2]>> /\ c[1] \in Phones /\ c[2] \in Nat /\ c \in Known
    BY CommandIs, SwitchingConstants DEF Known
  <2>3. last[c[1]] <= c[2] /\ c[2] <= given[c[1]]
    BY <1>2, <1>5, AcceptedIsNewer DEF SwitchingInv, SentIsRecent
  <2>4. SwitchingType'
    <3>1. last' \in [Phones -> Nat] /\ \A p \in Phones : last'[p] <= given[p]
      BY <2>1, <2>2, <2>3 DEF SwitchingInv, SwitchingType
    <3>2. owner' \in [source : Known, ticks : 0 .. OwnerClaim]
      BY <2>1, <2>2, SwitchingConstants
    <3> QED
      BY <1>1, <3>1, <3>2 DEF SwitchingInv, SwitchingType
  <2>5. SentIsRecent'
    BY <1>1, <1>2 DEF SwitchingInv, SentIsRecent
  <2>6. OlderIsShutOut'
    <3> SUFFICES ASSUME NEW d \in Sent, d[2] < last'[d[1]]
                 PROVE  /\ owner'.ticks > 0 /\ owner'.source = <<d[1], last'[d[1]]>>
                        /\ stale[d] + owner'.ticks >= OwnerClaim
      BY <1>1, <1>2 DEF OlderIsShutOut
    <3>1. d[1] \in Phones /\ stale[d] \in Nat
      BY CommandIs, SwitchingConstants DEF Sent, SwitchingInv, SwitchingType
    <3>2. d[1] = c[1]
      <4> SUFFICES ASSUME d[1] # c[1] PROVE FALSE
        OBVIOUS
      <4>1. d[2] < last[d[1]]
        BY <2>1, <2>2, <3>1 DEF SwitchingInv, SwitchingType
      <4>2. owner.ticks > 0 /\ owner.source[1] = d[1]
        BY <4>1 DEF SwitchingInv, OlderIsShutOut
      <4>3. owner.ticks \in Nat
        BY SwitchingConstants DEF SwitchingInv, SwitchingType
      <4> QED
        BY <1>5, <4>2, <4>3 DEF Switching!Accepts
    <3>3. last'[d[1]] = c[2]
      BY <2>1, <2>2, <3>2 DEF SwitchingInv, SwitchingType
    <3> QED
      BY <2>1, <2>2, <3>1, <3>2, <3>3, SwitchingConstants
  <2>7. \A p \in Phones : last'[p] >= last[p]
    BY <1>3, <2>1, <2>2, <2>3 DEF SwitchingInv, SwitchingType
  <2> QED
    BY <2>4, <2>5, <2>6, <2>7 DEF SwitchingInv
<1> QED
  BY <1>4, <1>5

LEMMA SwitchingTickStep ==
  ASSUME Linger < OwnerClaim, SwitchingInv, Switching!Tick
  PROVE  SwitchingInv'
<1> DEFINE older(c) == c \in Switching!Replaced /\ stale[c] < Linger
<1>1. /\ UNCHANGED <<given, queue, commandAir, last>> /\ Sent' = Sent
      /\ \A c \in Switching!Copies \cap Switching!Replaced : stale[c] < Linger
      /\ stale' = [c \in Commands |-> IF older(c) THEN stale[c] + 1 ELSE stale[c]]
  BY DEF Switching!Tick, Sent, Switching!Copies, Commands
<1>2. owner' = IF owner.ticks > 1 THEN [owner EXCEPT !.ticks = owner.ticks - 1]
               ELSE [source |-> Switching!Nothing, ticks |-> 0]
  BY DEF Switching!Tick
<1>3. owner \in [source : Known, ticks : 0 .. OwnerClaim] /\ stale \in [Commands -> 0 .. Linger]
  BY DEF SwitchingInv, SwitchingType
<1>4. SwitchingType'
  <2>1. stale' \in [Commands -> 0 .. Linger]
    <3> SUFFICES ASSUME NEW c \in Commands PROVE (IF older(c) THEN stale[c] + 1 ELSE stale[c]) \in 0 .. Linger
      BY <1>1
    <3>1. stale[c] \in 0 .. Linger
      BY <1>3
    <3> QED
      BY <3>1, SwitchingConstants
  <2>2. claims' \in [Relays -> [Phones -> [command : Known, ticks : 0 .. AdvClaim]]]
    <3>1. \A q \in Relays : \A p \in Phones : claims[q][p] \in [command : Known, ticks : 0 .. AdvClaim]
      BY DEF SwitchingInv, SwitchingType
    <3>2. \A x \in [command : Known, ticks : 0 .. AdvClaim] :
            (IF x.ticks > 1 THEN [x EXCEPT !.ticks = x.ticks - 1] ELSE Switching!NoClaim)
              \in [command : Known, ticks : 0 .. AdvClaim]
      BY SwitchingConstants DEF Switching!NoClaim, Known
    <3>3. claims' = [q \in Relays |-> [p \in Phones |->
            IF claims[q][p].ticks > 1 THEN [claims[q][p] EXCEPT !.ticks = claims[q][p].ticks - 1]
            ELSE Switching!NoClaim]]
      BY DEF Switching!Tick
    <3> QED
      BY <3>1, <3>2, <3>3
  <2>3. owner' \in [source : Known, ticks : 0 .. OwnerClaim]
    BY <1>2, <1>3, SwitchingConstants DEF Known
  <2> QED
    BY <1>1, <2>1, <2>2, <2>3 DEF SwitchingInv, SwitchingType
<1>5. SentIsRecent'
  BY <1>1 DEF SwitchingInv, SentIsRecent
<1>6. OlderIsShutOut'
  <2> SUFFICES ASSUME NEW c \in Sent, c[2] < last[c[1]]
               PROVE  /\ owner'.ticks > 0 /\ owner'.source = <<c[1], last[c[1]]>>
                      /\ stale'[c] + owner'.ticks >= OwnerClaim
    BY <1>1 DEF OlderIsShutOut
  <2>1. c \in Commands /\ c[1] \in Phones /\ c[2] \in Nat /\ last[c[1]] \in Nat /\ given[c[1]] \in Nat
    BY CommandIs, SwitchingConstants DEF Sent, SwitchingInv, SwitchingType
  <2>2. c \in Switching!Replaced
    BY <2>1 DEF Switching!Replaced, Commands, SwitchingInv, SwitchingType
  <2>3. stale[c] < Linger /\ stale[c] \in Nat /\ stale'[c] = stale[c] + 1
    BY <1>1, <1>3, <2>1, <2>2, SwitchingConstants DEF Sent
  <2>4. /\ owner.source = <<c[1], last[c[1]]>> /\ stale[c] + owner.ticks >= OwnerClaim
        /\ owner.ticks \in Nat
    BY <1>3, SwitchingConstants DEF SwitchingInv, OlderIsShutOut
  <2>5. owner.ticks > 1
    BY <2>3, <2>4, SwitchingConstants
  <2>6. owner'.source = owner.source /\ owner'.ticks = owner.ticks - 1
    BY <1>2, <1>3, <2>5
  <2> QED
    BY <2>3, <2>4, <2>5, <2>6, SwitchingConstants
<1> QED
  BY <1>4, <1>5, <1>6 DEF SwitchingInv

LEMMA SwitchingNext ==
  ASSUME Linger < OwnerClaim, SwitchingInv, Switching!Next
  PROVE  SwitchingInv' /\ \A p \in Phones : last'[p] >= last[p]
<1>1. \A p \in Phones : last[p] \in Nat
  BY DEF SwitchingInv, SwitchingType
<1>2. last' = last \/ \E c \in Commands : \E again \in BOOLEAN : Switching!Receive(c, again)
  BY DEF Switching!Next, Switching!Give, Switching!Scan, Switching!Publish, Switching!Lose,
         Switching!Tick, Commands
<1>3. SwitchingInv'
  BY GiveStep, ScanStep, PublishStep, LoseStep, ReceiveStep, SwitchingTickStep DEF Switching!Next, Commands
<1>4. \A p \in Phones : last'[p] >= last[p]
  BY <1>1, <1>2, ReceiveStep
<1> QED
  BY <1>3, <1>4

LEMMA SwitchingStutter ==
  ASSUME SwitchingInv, UNCHANGED commandVars
  PROVE  SwitchingInv' /\ \A p \in Phones : last'[p] >= last[p]
<1>1. \A p \in Phones : last[p] \in Nat
  BY DEF SwitchingInv, SwitchingType
<1>2. SwitchingInv'
  BY DEF commandVars, SwitchingInv, SwitchingType, SentIsRecent, OlderIsShutOut, Sent, Switching!Copies
<1> QED
  BY <1>1, <1>2 DEF commandVars

LEMMA SwitchingHolds == SwitchingInv => Switching!TypeOK
<1> SUFFICES ASSUME SwitchingInv PROVE Switching!TypeOK
  OBVIOUS
<1>1. \A p \in Phones : given[p] \in 0 .. NumCommands[p] /\ last[p] \in 0 .. given[p]
  BY SwitchingConstants DEF SwitchingInv, SwitchingType
<1> QED
  BY <1>1 DEF SwitchingInv, SwitchingType, Switching!TypeOK, Known, Commands

-----------------------------------------------------------------------------
(* The dimmer (Pwm), when a value changes at most once in a period.        *)

Whole == Light!MaxTicks
On(v) == Light!Ticks(v)
Values == 0 .. Brightest

\* Values of the same brightness as their neighbours are those that are too low.
LEMMA TicksAre ==
  /\ Whole \in Nat /\ Whole - TicksPerValue >= 1
  /\ \A v \in Values : /\ On(v) \in Nat
                       /\ v = Brightest => On(v) = Whole
                       /\ v # Brightest => On(v) <= Whole - TicksPerValue
  /\ \A v, w \in Values : v < w => On(v) <= On(w)
<1>1. ASSUME NEW a \in Nat, NEW b \in Nat, NEW k \in Nat, a <= b
      PROVE  a * k \in Nat /\ a * k <= b * k
  <2>1. PICK d \in Nat : b = a + d
    BY <1>1, b - a \in Nat, b = a + (b - a)
  <2>2. b * k = a * k + d * k /\ d * k \in Nat /\ a * k \in Nat
    BY <2>1
  <2> QED
    BY <2>2
<1>2. /\ Brightest \in Nat /\ Brightest >= 2 /\ TicksPerValue \in Nat /\ TicksPerValue >= 1
      /\ Low \in Nat /\ Low <= Brightest
  BY StoresAssumption
<1>3. \A v \in Values : On(v) = IF v < Low THEN 0 ELSE v * TicksPerValue
  BY DEF On, Light!Ticks
<1>4. Whole = Brightest * TicksPerValue
  BY DEF Whole, Light!MaxTicks
<1>5. \A v, w \in Values : v < w => v * TicksPerValue <= w * TicksPerValue
  BY <1>1, <1>2 DEF Values
<1>6. (Brightest - 1) * TicksPerValue = Whole - TicksPerValue
  BY <1>2, <1>4
<1>7. 1 * TicksPerValue <= (Brightest - 1) * TicksPerValue
  BY <1>1, <1>2
<1>8. Whole \in Nat /\ Whole - TicksPerValue >= 1
  BY <1>2, <1>4, <1>6, <1>7
<1>9. ASSUME NEW v \in Values
      PROVE  /\ v * TicksPerValue \in Nat
             /\ v # Brightest => v * TicksPerValue <= (Brightest - 1) * TicksPerValue
  BY <1>1, <1>2 DEF Values
<1>10. ASSUME NEW v \in Values
       PROVE  /\ On(v) \in Nat
              /\ v = Brightest => On(v) = Whole
              /\ v # Brightest => On(v) <= Whole - TicksPerValue
  BY <1>2, <1>3, <1>4, <1>6, <1>8, <1>9 DEF Values
<1>11. ASSUME NEW v \in Values, NEW w \in Values, v < w PROVE On(v) <= On(w)
  BY <1>2, <1>3, <1>5, <1>9, <1>11 DEF Values
<1> QED
  BY <1>8, <1>10, <1>11

\* A period is long enough for every value but the brightest.
LEMMA PeriodsAre ==
  \A l \in Light!Lengths : l \in Nat /\ 1 <= l /\ Whole - TicksPerValue <= l
BY TicksAre, StoresAssumption DEF Light!Lengths, Whole

Lit == On(pwm.value)
Brightness == Light!Larger(seen.now, seen.before)

LightType ==
  /\ DOMAIN pwm = {"value", "target", "step", "countdown", "enabled", "started", "onZeroCrossing"}
  /\ DOMAIN timer = {"ticks", "period", "cc", "transitionCc", "ppiOn", "ppiOff", "transition", "pin"}
  /\ DOMAIN seen = {"now", "before", "steady", "changed"}
  /\ pwm.value \in Values /\ pwm.target \in Values /\ pwm.step \in Nat
  /\ pwm.enabled \in BOOLEAN /\ pwm.started \in BOOLEAN /\ pwm.onZeroCrossing \in BOOLEAN
  /\ timer.period \in Light!Lengths /\ timer.ticks \in 0 .. timer.period - 1
  /\ timer.cc \in 1 .. Whole - TicksPerValue /\ timer.transitionCc \in Nat
  /\ timer.ppiOn \in BOOLEAN /\ timer.ppiOff \in BOOLEAN /\ timer.transition \in BOOLEAN /\ timer.pin \in BOOLEAN
  /\ seen.now \in Nat /\ seen.before \in Nat /\ seen.steady \in 0 .. 2 /\ seen.changed \in BOOLEAN

\* What the channel is set to is the value; the old tick comes after the new one.
ChannelFits ==
  /\ Lit = 0 => ~ timer.ppiOn /\ ~ timer.transition /\ (timer.pin => timer.ppiOff)
  /\ Lit # 0 /\ pwm.value # Brightest =>
       timer.ppiOn /\ timer.ppiOff /\ timer.cc = Lit /\ (timer.transition => timer.transitionCc >= Lit)
  /\ pwm.value = Brightest => timer.ppiOn /\ ~ timer.ppiOff /\ ~ timer.transition

\* What was seen in this period; an enabled timer stays enabled.
SeenFits ==
  /\ seen.now >= Lit /\ (~ seen.changed => seen.now = Lit) /\ (seen.steady > 0 => ~ seen.changed)
  /\ pwm.started \/ pwm.onZeroCrossing => pwm.enabled

\* A pin that is on goes off before anything brighter than what was seen.
GoesOffInTime ==
  timer.pin /\ Brightness < Whole =>
    \/ timer.ppiOff /\ timer.ticks < timer.cc /\ timer.cc <= Brightness
    \/ timer.transition /\ timer.ticks < timer.transitionCc /\ timer.transitionCc <= Brightness

\* As long as the value is that of the start of the period, or off, it goes off at the
\* tick cc; and when that value is off, it is only on after the brightest value.
GoesOffAtTick ==
  /\ timer.pin /\ seen.now < Whole /\ (Lit = 0 \/ ~ seen.changed) => timer.ticks < timer.cc
  /\ timer.pin /\ Lit = 0 /\ ~ seen.changed => seen.before >= Whole

\* What a whole period does to the pin, or two when it goes off.
Settled ==
  /\ seen.steady > 0 /\ pwm.value = Brightest => timer.pin /\ pwm.started
  /\ seen.steady > 0 /\ Lit # 0 /\ pwm.value # Brightest => (timer.pin <=> timer.ticks < Lit)
  /\ seen.steady = 2 /\ Lit = 0 => ~ timer.pin

LightInv ==
  LightType /\ ChannelFits /\ SeenFits /\ GoesOffInTime /\ GoesOffAtTick /\ Settled

LEMMA LightInit == Light!Init => LightInv
<1> SUFFICES ASSUME Light!Init PROVE LightInv
  OBVIOUS
<1>1. 0 \in Values /\ On(0) \in Nat /\ On(0) = 0 /\ 0 # Brightest /\ Whole \in Nat /\ 1 <= Whole - TicksPerValue
  <2>1. On(0) = 0
    BY StoresAssumption DEF On, Light!Ticks
  <2> QED
    BY <2>1, TicksAre, StoresAssumption DEF Values
<1>2. Whole \in Light!Lengths /\ 1 <= Whole
  BY <1>1, StoresAssumption DEF Light!Lengths, Whole
<1>3. LightType
  BY <1>1, <1>2 DEF Light!Init, LightType, Whole
<1>4. Lit = 0 /\ pwm.value = 0
  BY <1>1 DEF Light!Init, Lit
<1> QED
  BY <1>1, <1>3, <1>4 DEF LightInv, Light!Init, ChannelFits, SeenFits, GoesOffInTime, GoesOffAtTick, Settled

LEMMA LightHolds == LightInv => Light!NoFlash /\ Light!LightFollows
<1> SUFFICES ASSUME LightInv PROVE Light!NoFlash /\ Light!LightFollows
  OBVIOUS
<1>1. pwm.value \in Values /\ Lit \in Nat /\ Whole \in Nat /\ (pwm.value = Brightest => Lit = Whole)
  BY TicksAre DEF LightInv, LightType, Lit
<1>2. Brightness \in Nat
  BY DEF LightInv, LightType, Brightness, Light!Larger
<1>3. timer.ticks \in Nat
  BY PeriodsAre DEF LightInv, LightType
<1>4. Light!NoFlash
  <2>1. timer.pin => timer.ticks < Brightness \/ Whole <= Brightness
    BY <1>1, <1>2, <1>3 DEF LightInv, LightType, GoesOffInTime
  <2> QED
    BY <2>1 DEF Light!NoFlash, Brightness, Whole
<1>5. Light!LightFollows
  <2>1. SUFFICES ASSUME seen.steady = 2
                 PROVE  timer.pin <=> timer.ticks < Lit \/ (pwm.value = Brightest /\ pwm.started)
    BY DEF Light!LightFollows, Lit, On, LightInv, LightType
  <2> QED
    BY <1>1, <1>3, <2>1 DEF LightInv, LightType, Settled
<1> QED
  BY <1>4, <1>5

\* What a step of the software may make of the members, but for the value.
SameLight(p) ==
  /\ DOMAIN p = DOMAIN pwm /\ p.value = pwm.value /\ p.target \in Values /\ p.step \in Nat
  /\ p.enabled \in BOOLEAN /\ p.started \in BOOLEAN /\ p.onZeroCrossing \in BOOLEAN
  /\ pwm.started => p.started
  /\ p.started \/ p.onZeroCrossing => p.enabled

LEMMA ValueStays ==
  ASSUME LightInv, SameLight(pwm'), UNCHANGED <<timer, seen>>
  PROVE  LightInv'
<1>1. Lit' = Lit /\ Brightness' = Brightness /\ pwm'.value = pwm.value
  BY DEF Lit, Brightness, SameLight
<1>2. LightType'
  BY DEF LightInv, LightType, SameLight
<1>3. ChannelFits' /\ GoesOffInTime' /\ GoesOffAtTick'
  BY <1>1 DEF LightInv, ChannelFits, GoesOffInTime, GoesOffAtTick
<1>4. SeenFits' /\ Settled'
  BY <1>1 DEF LightInv, SeenFits, Settled, SameLight
<1> QED
  BY <1>2, <1>3, <1>4 DEF LightInv

\* What the channel is set to, when a value changes.
LEMMA ApplyIs ==
  ASSUME LightType, NEW old \in Values, NEW new \in Values, NEW t, t = Light!Apply(old, new)
  PROVE  /\ DOMAIN t = DOMAIN timer /\ t.ticks = timer.ticks /\ t.period = timer.period /\ t.pin = timer.pin
         /\ t.ppiOn \in BOOLEAN /\ t.ppiOff \in BOOLEAN /\ t.transition \in BOOLEAN
         /\ On(new) = 0 =>
              ~ t.ppiOn /\ t.ppiOff /\ ~ t.transition /\ t.cc = timer.cc /\ t.transitionCc = timer.transitionCc
         /\ On(new) # 0 /\ new = Brightest =>
              t.ppiOn /\ ~ t.ppiOff /\ ~ t.transition /\ t.cc = timer.cc /\ t.transitionCc = timer.transitionCc
         /\ On(new) # 0 /\ new # Brightest =>
              /\ t.ppiOn /\ t.ppiOff /\ t.cc = On(new)
              /\ t.transition <=> old \notin {0, Brightest} /\ new < old
              /\ t.transitionCc = IF t.transition THEN On(old) ELSE timer.transitionCc
<1>1. CASE On(new) = 0
  <2>1. new # Brightest
    BY <1>1, TicksAre, StoresAssumption
  <2>2. t = [timer EXCEPT !.transition = FALSE, !.ppiOn = FALSE, !.ppiOff = TRUE]
    BY <1>1, <2>1 DEF Light!Apply, On
  <2> QED
    BY <1>1, <2>2 DEF LightType
<1>2. CASE On(new) # 0 /\ new = Brightest
  BY <1>2 DEF Light!Apply, On, LightType
<1>3. CASE On(new) # 0 /\ new # Brightest
  <2>1. t = Light!DimTo(old, new)
    BY <1>3 DEF Light!Apply, On
  <2> QED
    BY <1>3, <2>1 DEF Light!DimTo, On, LightType
<1> QED
  BY <1>1, <1>2, <1>3

LEMMA ValueChanges ==
  ASSUME ~ Hurry, LightInv, NEW new \in Values, NEW p, SameLight(p), Light!SetValue(p, new)
  PROVE  LightInv'
<1>1. CASE pwm.value = new
  <2>1. pwm' = p /\ UNCHANGED <<timer, seen>>
    BY <1>1 DEF Light!SetValue, SameLight
  <2> QED
    BY <2>1, ValueStays
<1>2. CASE pwm.value # new
  <2> DEFINE old == pwm.value
             t == timer'
  <2>1. /\ ~ seen.changed /\ pwm' = [p EXCEPT !.value = new] /\ t = Light!Apply(old, new)
        /\ seen' = [seen EXCEPT !.now = Light!Larger(seen.now, On(new)), !.steady = 0, !.changed = TRUE]
    BY <1>2 DEF Light!SetValue, SameLight, On
  <2>2. old \in Values /\ LightType
    BY DEF LightInv, LightType
  <2>3. /\ On(old) \in Nat /\ On(new) \in Nat /\ Whole \in Nat /\ Whole - TicksPerValue >= 1
        /\ old = Brightest => On(old) = Whole
        /\ old # Brightest => On(old) <= Whole - TicksPerValue
        /\ new = Brightest => On(new) = Whole
        /\ new # Brightest => On(new) <= Whole - TicksPerValue
        /\ new < old => On(new) <= On(old)
        /\ old < new => On(old) <= On(new)
    BY <2>2, TicksAre
  <2>4. /\ DOMAIN t = DOMAIN timer /\ t.ticks = timer.ticks /\ t.period = timer.period /\ t.pin = timer.pin
        /\ t.ppiOn \in BOOLEAN /\ t.ppiOff \in BOOLEAN /\ t.transition \in BOOLEAN
        /\ On(new) = 0 =>
              ~ t.ppiOn /\ t.ppiOff /\ ~ t.transition /\ t.cc = timer.cc /\ t.transitionCc = timer.transitionCc
        /\ On(new) # 0 /\ new = Brightest =>
              t.ppiOn /\ ~ t.ppiOff /\ ~ t.transition /\ t.cc = timer.cc /\ t.transitionCc = timer.transitionCc
        /\ On(new) # 0 /\ new # Brightest =>
              /\ t.ppiOn /\ t.ppiOff /\ t.cc = On(new)
              /\ t.transition <=> old \notin {0, Brightest} /\ new < old
              /\ t.transitionCc = IF t.transition THEN On(old) ELSE timer.transitionCc
    <3> HIDE DEF t, old
    <3> QED
      BY <2>1, <2>2, ApplyIs
  <2>5. /\ DOMAIN pwm' = DOMAIN pwm /\ pwm'.value = new /\ pwm'.target = p.target /\ pwm'.step = p.step
        /\ pwm'.enabled = p.enabled /\ pwm'.started = p.started /\ pwm'.onZeroCrossing = p.onZeroCrossing
    BY <2>1, <2>2 DEF SameLight, LightType
  <2>6. /\ DOMAIN seen' = DOMAIN seen /\ seen'.now = Light!Larger(seen.now, On(new)) /\ seen'.before = seen.before
        /\ seen'.steady = 0 /\ seen'.changed
    BY <2>1, <2>2 DEF LightType
  <2>7. Lit' = On(new) /\ Lit = On(old)
    BY <2>5 DEF Lit
  <2>8. seen.now \in Nat /\ seen.before \in Nat /\ seen'.now \in Nat /\ seen'.now >= seen.now /\ seen'.now >= On(new)
    BY <2>2, <2>3, <2>6 DEF LightType, Light!Larger
  <2>9. /\ Brightness \in Nat /\ Brightness >= seen.now /\ Brightness >= seen.before
        /\ Brightness' \in Nat /\ Brightness' >= seen'.now /\ Brightness' >= seen.before
    BY <2>6, <2>8 DEF Brightness, Light!Larger
  <2>10. seen.now >= On(old) /\ (pwm.started \/ pwm.onZeroCrossing => pwm.enabled)
    BY <2>7 DEF LightInv, SeenFits
  <2>11. LightType'
    BY <2>2, <2>3, <2>4, <2>5, <2>6, <2>8 DEF LightType, SameLight
  <2>12. ChannelFits'
    <3> HIDE DEF t, old
    <3>1. On(new) # 0 /\ new # Brightest /\ t.transition => t.transitionCc >= On(new)
      BY <2>3, <2>4
    <3>2. new = Brightest => On(new) # 0
      BY <2>3, StoresAssumption
    <3> QED
      BY <2>4, <2>5, <2>7, <3>1, <3>2 DEF ChannelFits, t
  <2>13. SeenFits'
    BY <2>5, <2>6, <2>7, <2>8 DEF SeenFits, SameLight
  <2>14. timer.pin /\ seen.now < Whole => timer.ticks < timer.cc
    BY <2>1 DEF LightInv, GoesOffAtTick
  <2>15. GoesOffAtTick'
    BY <2>3, <2>4, <2>6, <2>7, <2>8, <2>14 DEF GoesOffAtTick
  <2>16. Settled'
    BY <2>6 DEF Settled
  <2>17. GoesOffInTime'
    <3>1. SUFFICES ASSUME timer.pin, Brightness' < Whole
                   PROVE  \/ t.ppiOff /\ timer.ticks < t.cc /\ t.cc <= Brightness'
                          \/ t.transition /\ timer.ticks < t.transitionCc /\ t.transitionCc <= Brightness'
      BY <2>4 DEF GoesOffInTime
    <3>2. seen.now < Whole /\ seen.before < Whole /\ On(new) <= Brightness' /\ On(new) < Whole
      BY <2>3, <2>6, <2>8, <2>9, <3>1
    <3>3. new # Brightest /\ old # Brightest
      BY <2>3, <2>8, <2>10, <3>2
    <3>4. timer.ticks < timer.cc /\ On(old) # 0
      BY <2>1, <2>7, <2>14, <3>1, <3>2, <2>8, <2>3 DEF LightInv, GoesOffAtTick
    <3>5. timer.cc = On(old) /\ On(old) <= Brightness'
      BY <2>3, <2>7, <2>8, <2>9, <2>10, <3>3, <3>4 DEF LightInv, ChannelFits
    <3>6. timer.ticks \in Nat
      BY <2>2, PeriodsAre DEF LightType
    <3>7. old # 0
      BY <3>4, StoresAssumption DEF On, Light!Ticks
    <3>8. CASE On(new) = 0
      BY <2>4, <3>4, <3>5, <3>8
    <3>9. CASE On(new) # 0
      <4>1. timer.ticks < On(new) \/ new < old
        <5>1. new < old \/ old < new
          BY <1>2, <2>2, StoresAssumption DEF Values
        <5> QED
          BY <2>3, <3>4, <3>5, <3>6, <5>1
      <4> QED
        BY <2>4, <3>2, <3>3, <3>4, <3>5, <3>7, <3>9, <4>1
    <3> QED
      BY <3>8, <3>9
  <2> QED
    BY <2>11, <2>12, <2>13, <2>15, <2>16, <2>17 DEF LightInv
<1> QED
  BY <1>1, <1>2

LEMMA CountTickKeeps ==
  ASSUME LightInv, Light!CountTick
  PROVE  LightInv'
<1> DEFINE off == Light!GoesOff(timer.ticks + 1)
<1>1. /\ timer.ticks + 1 < timer.period /\ UNCHANGED <<pwm, seen>>
      /\ timer' = [timer EXCEPT !.ticks = timer.ticks + 1, !.pin = timer.pin /\ ~ off]
  BY DEF Light!CountTick
<1>2. timer.ticks \in Nat /\ timer.period \in Nat /\ LightType
  BY PeriodsAre DEF LightInv, LightType
<1>3. off <=> \/ timer.ppiOff /\ timer.ticks + 1 = timer.cc
              \/ timer.transition /\ timer.ticks + 1 = timer.transitionCc
  BY <1>2 DEF Light!GoesOff, LightType
<1> HIDE DEF off
<1>4. /\ DOMAIN timer' = DOMAIN timer /\ timer'.ticks = timer.ticks + 1 /\ timer'.period = timer.period
      /\ timer'.cc = timer.cc /\ timer'.transitionCc = timer.transitionCc
      /\ timer'.ppiOn = timer.ppiOn /\ timer'.ppiOff = timer.ppiOff /\ timer'.transition = timer.transition
      /\ timer'.pin \in BOOLEAN /\ (timer'.pin <=> timer.pin /\ ~ off)
  BY <1>1, <1>2 DEF LightType
<1>5. Lit' = Lit /\ Brightness' = Brightness /\ Lit \in Nat /\ Brightness \in Nat
  BY <1>1, <1>2, TicksAre DEF Lit, Brightness, LightType, Light!Larger
<1>6. LightType'
  BY <1>1, <1>2, <1>4 DEF LightType
<1>7. ChannelFits' /\ SeenFits'
  BY <1>1, <1>4, <1>5 DEF LightInv, ChannelFits, SeenFits
<1>8. GoesOffInTime'
  BY <1>2, <1>3, <1>4, <1>5 DEF LightInv, LightType, GoesOffInTime
<1>9. GoesOffAtTick'
  <2>1. timer.pin /\ seen.now < Whole /\ (Lit = 0 \/ ~ seen.changed) => timer.ppiOff
    BY <1>2, <1>5, TicksAre DEF LightInv, ChannelFits, SeenFits, LightType, Lit
  <2> QED
    BY <1>1, <1>2, <1>3, <1>4, <1>5, <2>1 DEF LightInv, LightType, GoesOffAtTick
<1>10. Settled'
  <2>1. CASE pwm.value = Brightest
    BY <1>1, <1>3, <1>4, <1>5, <2>1, TicksAre, StoresAssumption DEF LightInv, Settled, ChannelFits, Lit
  <2>2. CASE pwm.value # Brightest /\ Lit = 0
    BY <1>1, <1>4, <1>5, <2>2 DEF LightInv, Settled
  <2>3. CASE pwm.value # Brightest /\ Lit # 0
    BY <1>1, <1>2, <1>3, <1>4, <1>5, <2>3 DEF LightInv, Settled, ChannelFits, LightType
  <2> QED
    BY <2>1, <2>2, <2>3
<1> QED
  BY <1>6, <1>7, <1>8, <1>9, <1>10 DEF LightInv

LEMMA EndPeriodKeeps ==
  ASSUME LightInv, NEW period \in Light!Lengths, NEW fits \in BOOLEAN, Light!EndPeriod(period, fits)
  PROVE  LightInv'
<1> DEFINE off == Light!GoesOff(timer.period)
<1>1. /\ pwm.started /\ timer.ticks + 1 = timer.period /\ UNCHANGED pwm
      /\ timer' = [timer EXCEPT !.ticks = 0, !.period = period, !.pin = (timer.pin /\ ~ off) \/ timer.ppiOn]
      /\ seen' = [now |-> On(pwm.value), before |-> seen.now,
                  steady |-> Light!Smaller(seen.steady + 1, 2), changed |-> FALSE]
  BY DEF Light!EndPeriod, On
<1>2. timer.ticks \in Nat /\ timer.period \in Nat /\ LightType /\ period \in Nat /\ period >= 1
  BY PeriodsAre DEF LightInv, LightType
<1>3. off <=> \/ timer.ppiOff /\ timer.period = timer.cc
              \/ timer.transition /\ timer.period = timer.transitionCc
  BY <1>2 DEF Light!GoesOff, LightType
<1> HIDE DEF off
<1>4. /\ DOMAIN timer' = DOMAIN timer /\ timer'.ticks = 0 /\ timer'.period = period
      /\ timer'.cc = timer.cc /\ timer'.transitionCc = timer.transitionCc
      /\ timer'.ppiOn = timer.ppiOn /\ timer'.ppiOff = timer.ppiOff /\ timer'.transition = timer.transition
      /\ timer'.pin \in BOOLEAN /\ (timer'.pin <=> (timer.pin /\ ~ off) \/ timer.ppiOn)
  BY <1>1, <1>2 DEF LightType
<1>5. /\ DOMAIN seen' = DOMAIN seen /\ seen'.now = Lit /\ seen'.before = seen.now /\ ~ seen'.changed
      /\ seen'.changed \in BOOLEAN /\ seen'.steady \in 1 .. 2 /\ (seen'.steady = 2 => seen.steady > 0)
  BY <1>1, <1>2 DEF LightType, Lit, Light!Smaller
<1>6. /\ Lit' = Lit /\ Lit \in Nat /\ Whole \in Nat /\ Whole - TicksPerValue >= 1
      /\ pwm.value = Brightest => Lit = Whole
      /\ pwm.value # Brightest => Lit <= Whole - TicksPerValue
      /\ TicksPerValue \in Nat /\ TicksPerValue >= 1
  BY <1>1, <1>2, TicksAre, StoresAssumption DEF Lit, LightType
<1>7. Brightness' \in Nat /\ Brightness' >= Lit /\ Brightness' >= seen.now
  BY <1>2, <1>5, <1>6 DEF Brightness, LightType, Light!Larger
<1>8. LightType'
  <2>1. /\ timer'.period \in Light!Lengths /\ timer'.ticks \in 0 .. timer'.period - 1
        /\ timer'.cc \in 1 .. Whole - TicksPerValue /\ timer'.transitionCc \in Nat
        /\ timer'.ppiOn \in BOOLEAN /\ timer'.ppiOff \in BOOLEAN /\ timer'.transition \in BOOLEAN
    BY <1>2, <1>4 DEF LightType
  <2>2. seen'.now \in Nat /\ seen'.before \in Nat /\ seen'.steady \in 0 .. 2
    BY <1>2, <1>5, <1>6 DEF LightType
  <2> QED
    BY <1>1, <1>2, <1>4, <1>5, <2>1, <2>2 DEF LightType
<1>9. ChannelFits' /\ SeenFits'
  BY <1>1, <1>4, <1>5, <1>6 DEF LightInv, ChannelFits, SeenFits
\* A pin that was on to the end of a period, and was to go off, had been on for a brighter value.
<1>10. Lit = 0 /\ timer'.pin => timer.pin /\ timer.ppiOff /\ seen.now >= Whole
  <2>1. SUFFICES ASSUME Lit = 0, timer'.pin, seen.now < Whole PROVE FALSE
    BY <1>2, <1>4, <1>6 DEF LightInv, ChannelFits, LightType
  <2>2. timer.pin /\ ~ off /\ timer.ppiOff
    BY <1>4, <2>1 DEF LightInv, ChannelFits
  <2>3. timer.ticks < timer.cc
    BY <2>1, <2>2 DEF LightInv, GoesOffAtTick
  <2>4. timer.cc <= Whole - TicksPerValue /\ Whole - TicksPerValue <= timer.period /\ timer.cc \in Nat
    BY <1>2, <1>6, PeriodsAre DEF LightType
  <2> QED
    BY <1>1, <1>2, <1>3, <1>6, <2>2, <2>3, <2>4
<1>11. GoesOffInTime'
  <2>1. CASE Lit = 0
    BY <1>6, <1>7, <1>10, <1>2, <2>1 DEF GoesOffInTime, LightType
  <2>2. CASE Lit # 0
    BY <1>4, <1>6, <1>7, <1>2, <2>2 DEF LightInv, ChannelFits, GoesOffInTime, LightType
  <2> QED
    BY <2>1, <2>2
<1>12. GoesOffAtTick'
  BY <1>2, <1>4, <1>5, <1>6, <1>10 DEF GoesOffAtTick, LightType
<1>13. Settled'
  <2>1. CASE pwm.value = Brightest
    BY <1>1, <1>4, <1>6, <2>1 DEF LightInv, Settled, ChannelFits
  <2>2. CASE pwm.value # Brightest /\ Lit # 0
    BY <1>1, <1>4, <1>6, <2>2 DEF LightInv, Settled, ChannelFits
  <2>3. CASE pwm.value # Brightest /\ Lit = 0
    <3>1. seen'.steady = 2 => ~ seen.changed /\ seen.now = Lit
      BY <1>5 DEF LightInv, SeenFits
    <3> QED
      BY <1>1, <1>2, <1>5, <1>6, <1>10, <2>3, <3>1 DEF Settled
  <2> QED
    BY <2>1, <2>2, <2>3
<1> QED
  BY <1>8, <1>9, <1>11, <1>12, <1>13 DEF LightInv

LEMMA SetKeeps ==
  ASSUME ~ Hurry, LightInv, NEW value \in Values, NEW speed \in Speeds \cup {Brightest}, Light!Set(value, speed)
  PROVE  LightInv'
<1> DEFINE p == [pwm EXCEPT !.target = value, !.step = Light!Larger(speed, 1)]
<1>1. speed \in Nat
  BY StoresAssumption
<1>2. SameLight(p)
  <2>1. Light!Larger(speed, 1) \in Nat
    BY <1>1 DEF Light!Larger
  <2> QED
    BY <2>1 DEF LightInv, LightType, SeenFits, SameLight
<1>3. Light!SetValue(p, value) \/ (pwm' = p /\ UNCHANGED <<timer, seen>>)
  BY DEF Light!Set
<1> HIDE DEF p
<1> QED
  BY <1>2, <1>3, ValueChanges, ValueStays

LEMMA UpdateKeeps ==
  ASSUME ~ Hurry, LightInv, Light!UpdateValues
  PROVE  LightInv'
<1> DEFINE p == [pwm EXCEPT !.countdown = Periods]
           left == (pwm.countdown + CountdownMod - 1) % CountdownMod
           q == [pwm EXCEPT !.countdown = left]
           new == Light!Towards(pwm)
<1>1. SameLight(p) /\ SameLight(q) /\ SameLight(pwm)
  BY DEF LightInv, LightType, SeenFits, SameLight
<1>2. Light!Towards(p) = new
  BY DEF Light!Towards, LightInv, LightType
<1>3. new \in Values
  BY StoresAssumption DEF Light!Towards, Light!Smaller, Light!Larger, LightInv, LightType, Values
<1>4. Light!SetValue(p, new) \/ (pwm' \in {q, pwm} /\ UNCHANGED <<timer, seen>>)
  BY DEF Light!UpdateValues
<1> HIDE DEF p, q, new
<1> QED
  BY <1>1, <1>3, <1>4, ValueChanges, ValueStays

LEMMA LightNext ==
  ASSUME ~ Hurry, LightInv, Light!Next
  PROVE  LightInv'
<1>1. ASSUME NEW z \in BOOLEAN, Light!Start(z) PROVE LightInv'
  <2>1. SameLight(pwm')
    BY <1>1 DEF Light!Start, LightInv, LightType, SeenFits, SameLight
  <2> QED
    BY <1>1, <2>1, ValueStays DEF Light!Start
<1>2. ASSUME Light!OnZeroCrossing PROVE LightInv'
  <2>1. SameLight(pwm')
    BY <1>2 DEF Light!OnZeroCrossing, LightInv, LightType, SeenFits, SameLight
  <2> QED
    BY <1>2, <2>1, ValueStays DEF Light!OnZeroCrossing
<1> QED
  BY <1>1, <1>2, SetKeeps, UpdateKeeps, CountTickKeeps, EndPeriodKeeps DEF Light!Next, Values

LEMMA LightStutter == LightInv /\ UNCHANGED lightVars => LightInv'
BY DEF lightVars, LightInv, LightType, ChannelFits, SeenFits, GoesOffInTime, GoesOffAtTick, Settled,
       Lit, Brightness

-----------------------------------------------------------------------------
(* Tracked devices (TrackedDevices), each with tokens of its own.          *)

OwnTokens == \A r, s \in Registrations : r.token = s.token => r.id = s.id

Records == [set : SUBSET {"register", "token"}, id : {0} \cup {r.id : r \in Registrations},
            token : {0} \cup {r.token : r \in Registrations}, ttl : Nat, heartbeat : Nat]

\* A record that has a token has one its device registered.
Device(d) ==
  /\ d \in Records
  /\ "token" \in d.set => \E r \in Registrations : d.id = r.id /\ d.token = r.token

\* A list of records, of which those in use are of different devices.
Devices(l) ==
  /\ l \in Seq(Records)
  /\ \A i \in DOMAIN l : Device(l[i])
  /\ \A i, j \in DOMAIN l : i # j /\ l[i].set # {} /\ l[j].set # {} => l[i].id # l[j].id

\* Another record at a spot, that is of a device no other record is of.
LEMMA DevicePut ==
  ASSUME NEW l, Devices(l), NEW i \in DOMAIN l, NEW d, Device(d),
         \A j \in DOMAIN l : j # i /\ l[j].set # {} /\ d.set # {} => l[j].id # d.id
  PROVE  Devices([l EXCEPT ![i] = d])
<1> DEFINE m == [l EXCEPT ![i] = d]
<1>1. DOMAIN m = DOMAIN l /\ \A j \in DOMAIN l : m[j] = IF j = i THEN d ELSE l[j]
  BY DEF Devices
<1>2. m \in Seq(Records)
  BY DEF Devices, Device
<1> HIDE DEF m
<1> QED
  BY <1>1, <1>2 DEF Devices, m

\* What findOrAdd() gives: a list with the device at a spot, where no other is.
Found(f, id) ==
  /\ Devices(f.list) /\ f.at \in DOMAIN f.list /\ f.list[f.at].id = id
  /\ \A j \in DOMAIN f.list : j # f.at /\ f.list[j].set # {} => f.list[j].id # id

LEMMA FirstIs ==
  ASSUME NEW S \in SUBSET Nat, S # {}
  PROVE  Tracked!First(S) \in S
<1>1. \E i \in S : \A j \in S : i <= j
  BY Smallest
<1> QED
  BY <1>1 DEF Tracked!First

LEMMA AddAtFinds ==
  ASSUME NEW l, Devices(l), NEW i \in DOMAIN l, NEW id \in {r.id : r \in Registrations}, Tracked!With(l, id) = {}
  PROVE  Found(Tracked!AddAt(l, i, id), id)
<1> DEFINE d == [[l[i] EXCEPT !.set = {}] EXCEPT !.id = id]
           m == [l EXCEPT ![i] = d]
<1>1. Device(d) /\ d.set = {} /\ d.id = id
  BY DEF Devices, Device, Records
<1>2. Tracked!AddAt(l, i, id) = [at |-> i, list |-> m]
  BY DEF Tracked!AddAt, Devices
<1>3. \A j \in DOMAIN l : l[j].set # {} => l[j].id # id
  BY DEF Tracked!With, Tracked!IsValid
<1> HIDE DEF d
<1>4. Devices(m)
  BY <1>1, DevicePut
<1>5. DOMAIN m = DOMAIN l /\ \A j \in DOMAIN l : m[j] = IF j = i THEN d ELSE l[j]
  BY DEF Devices
<1> HIDE DEF m
<1> QED
  BY <1>1, <1>2, <1>3, <1>4, <1>5 DEF Found

LEMMA FindOrAddFinds ==
  ASSUME NEW l, Devices(l), NEW id \in {r.id : r \in Registrations}
  PROVE  Found(Tracked!FindOrAdd(l, id), id)
<1> DEFINE with == Tracked!With(l, id)
           empty == {i \in DOMAIN l : ~ Tracked!IsValid(l[i])}
           longer == Append(l, Tracked!NoDevice)
<1>1. DOMAIN l = 1 .. Len(l) /\ Len(l) \in Nat
  BY DEF Devices
<1>2. CASE with # {}
  <2>1. with \subseteq Nat
    BY <1>1 DEF Tracked!With
  <2>2. Tracked!FindOrAdd(l, id) = [at |-> Tracked!First(with), list |-> l]
    BY <1>2 DEF Tracked!FindOrAdd
  <2>3. \A i \in with : i \in DOMAIN l /\ l[i].set # {} /\ l[i].id = id
    BY DEF Tracked!With, Tracked!IsValid
  <2> HIDE DEF with
  <2>4. Tracked!First(with) \in with
    BY <1>2, <2>1, FirstIs
  <2> QED
    BY <2>2, <2>3, <2>4 DEF Found, Devices
<1>3. CASE with = {} /\ empty # {}
  <2>1. Tracked!First(empty) \in empty
    <3>1. empty \subseteq Nat
      BY <1>1
    <3> HIDE DEF empty
    <3> QED
      BY <1>3, <3>1, FirstIs
  <2>2. PICK i \in DOMAIN l : Tracked!FindOrAdd(l, id) = Tracked!AddAt(l, i, id)
    BY <1>3, <2>1 DEF Tracked!FindOrAdd
  <2> QED
    BY <1>3, <2>2, AddAtFinds
<1>4. CASE with = {} /\ empty = {} /\ Len(l) < Spots
  <2>1. Device(Tracked!NoDevice) /\ Tracked!NoDevice.set = {}
    BY DEF Device, Records, Tracked!NoDevice
  <2>2. /\ longer \in Seq(Records)
        /\ DOMAIN longer = 1 .. Len(l) + 1
        /\ \A i \in DOMAIN longer : longer[i] = IF i = Len(l) + 1 THEN Tracked!NoDevice ELSE l[i]
    BY <1>1, <2>1 DEF Devices, Device
  <2>3. PICK i \in DOMAIN longer : Tracked!FindOrAdd(l, id) = Tracked!AddAt(longer, i, id)
    BY <1>1, <1>4, <2>2 DEF Tracked!FindOrAdd
  <2> HIDE DEF longer
  <2>4. Devices(longer)
    BY <1>1, <2>1, <2>2 DEF Devices
  <2>5. Tracked!With(longer, id) = {}
    BY <1>1, <1>4, <2>1, <2>2 DEF Tracked!With, Tracked!IsValid
  <2> QED
    BY <2>3, <2>4, <2>5, AddAtFinds
<1>5. CASE with = {} /\ empty = {} /\ ~ (Len(l) < Spots) /\ Tracked!Incomplete(l) # {}
  <2> DEFINE incomplete == Tracked!Incomplete(l)
  <2>1. incomplete \subseteq Nat /\ incomplete \subseteq DOMAIN l
    BY <1>1 DEF Tracked!Incomplete
  <2>2. Tracked!FindOrAdd(l, id) = Tracked!AddAt(l, Tracked!First(incomplete), id)
    BY <1>5 DEF Tracked!FindOrAdd
  <2>3. incomplete # {}
    BY <1>5
  <2> HIDE DEF incomplete
  <2>4. Tracked!First(incomplete) \in incomplete
    BY <2>1, <2>3, FirstIs
  <2>5. PICK i \in DOMAIN l : Tracked!FindOrAdd(l, id) = Tracked!AddAt(l, i, id)
    BY <2>1, <2>2, <2>4
  <2> QED
    BY <1>5, <2>5, AddAtFinds
<1>6. CASE with = {} /\ empty = {} /\ ~ (Len(l) < Spots) /\ Tracked!Incomplete(l) = {}
  <2> DEFINE ttls == {l[i].ttl : i \in DOMAIN l}
             lowest == Tracked!LowestTtl(l)
  <2>1. lowest # {}
    <3>1. \A i \in DOMAIN l : l[i].ttl \in Nat
      BY DEF Devices, Device, Records
    <3>2. 1 \in DOMAIN l
      BY <1>1, <1>6, ListsAssumption
    <3>3. ttls \in SUBSET Nat /\ ttls # {}
      BY <3>1, <3>2
    <3>4. PICK x \in ttls : \A y \in ttls : x <= y
      <4> HIDE DEF ttls
      <4> QED
        BY <3>3, Smallest
    <3>5. PICK i \in DOMAIN l : x = l[i].ttl
      BY <3>4
    <3>6. i \in lowest
      BY <3>4, <3>5 DEF Tracked!LowestTtl
    <3> QED
      BY <3>6
  <2>2. lowest \subseteq Nat /\ lowest \subseteq DOMAIN l
    BY <1>1 DEF Tracked!LowestTtl
  <2>3. Tracked!FindOrAdd(l, id) = Tracked!AddAt(l, Tracked!First(lowest), id)
    BY <1>6 DEF Tracked!FindOrAdd
  <2> HIDE DEF lowest
  <2>4. Tracked!First(lowest) \in lowest
    BY <2>1, <2>2, FirstIs
  <2>5. PICK i \in DOMAIN l : Tracked!FindOrAdd(l, id) = Tracked!AddAt(l, i, id)
    BY <2>2, <2>3, <2>4
  <2> QED
    BY <1>6, <2>5, AddAtFinds
<1> QED
  BY <1>2, <1>3, <1>4, <1>5, <1>6

\* The record that was found gets the device.
LEMMA FoundPut ==
  ASSUME NEW id, NEW f, Found(f, id), NEW d, Device(d), d.id = id
  PROVE  Devices([f.list EXCEPT ![f.at] = d])
BY DevicePut DEF Found

LEMMA DevicesInit == Tracked!Init => Devices(devices)
BY DEF Tracked!Init, Devices

\* A record with its registration, and with a heartbeat.
LEMMA RecordMore ==
  ASSUME NEW d, Device(d)
  PROVE  /\ Device([d EXCEPT !.set = d.set \cup {"register"}])
         /\ [d EXCEPT !.set = d.set \cup {"register"}].id = d.id
BY DEF Device, Records

LEMMA RecordBeats ==
  ASSUME NEW d, Device(d), NEW ttl \in Nat
  PROVE  /\ Device([d EXCEPT !.heartbeat = ttl])
         /\ [d EXCEPT !.heartbeat = ttl].id = d.id
BY DEF Device, Records

LEMMA TtlIsNat == \A ttl \in 1 .. TtlMax : ttl \in Nat
BY ListsAssumption

LEMMA RegisterKeeps ==
  ASSUME Devices(devices), NEW r \in Registrations, NEW ttl \in 1 .. TtlMax, Tracked!HandleRegister(r, ttl)
  PROVE  Devices(devices)'
<1> DEFINE f == Tracked!FindOrAdd(devices, r.id)
           x == f.list[f.at]
           d == [x EXCEPT !.set = Tracked!AllFields, !.token = r.token, !.ttl = ttl]
<1>1. Found(f, r.id)
  BY FindOrAddFinds
<1>2. devices' = f.list \/ devices' = [f.list EXCEPT ![f.at] = d]
  BY DEF Tracked!HandleRegister
<1> HIDE DEF f
<1>3. Device(x) /\ x.id = r.id /\ Tracked!AllFields \in SUBSET {"register", "token"}
  BY <1>1 DEF Found, Devices, Tracked!AllFields
<1> HIDE DEF x
<1>4. ttl \in Nat
  BY TtlIsNat
<1>5. d = [x EXCEPT !.set = Tracked!AllFields, !.token = r.token, !.ttl = ttl]
  OBVIOUS
<1> HIDE DEF d
<1>6. Device(d) /\ d.id = r.id
  BY <1>3, <1>4, <1>5 DEF Device, Records
<1> HIDE DEF d
<1>7. Devices([f.list EXCEPT ![f.at] = d])
  BY <1>1, <1>6, FoundPut
<1> QED
  BY <1>1, <1>2, <1>7 DEF Found

LEMMA MeshRegisterKeeps ==
  ASSUME Devices(devices), NEW r \in Registrations, Tracked!HandleMeshRegister(r)
  PROVE  Devices(devices)'
<1> DEFINE f == Tracked!FindOrAdd(devices, r.id)
           x == f.list[f.at]
           d == [x EXCEPT !.set = x.set \cup {"register"}]
<1>1. Found(f, r.id)
  BY FindOrAddFinds
<1>2. devices' = [f.list EXCEPT ![f.at] = d]
  BY DEF Tracked!HandleMeshRegister
<1> HIDE DEF f
<1>3. Device(x) /\ x.id = r.id
  BY <1>1 DEF Found, Devices
<1> HIDE DEF x
<1>4. Device(d)
  BY <1>3, RecordMore
<1>5. d.id = r.id
  BY <1>3, RecordMore
<1> HIDE DEF d
<1> QED
  BY <1>1, <1>2, <1>4, <1>5, FoundPut

LEMMA MeshTokenKeeps ==
  ASSUME Devices(devices), NEW r \in Registrations, NEW ttl \in 1 .. TtlMax, Tracked!HandleMeshToken(r, ttl)
  PROVE  Devices(devices)'
<1> DEFINE f == Tracked!FindOrAdd(devices, r.id)
           x == f.list[f.at]
           set == x.set \cup {"token"}
           d == [x EXCEPT !.set = set, !.token = r.token, !.ttl = ttl]
<1>1. Found(f, r.id)
  BY FindOrAddFinds
<1>2. devices' = f.list \/ devices' = [f.list EXCEPT ![f.at] = d]
  BY DEF Tracked!HandleMeshToken
<1> HIDE DEF f
<1>3. Device(x) /\ x.id = r.id /\ set \in SUBSET {"register", "token"}
  BY <1>1 DEF Found, Devices, Device, Records
<1> HIDE DEF x, set
<1>4. ttl \in Nat
  BY TtlIsNat
<1>5. d = [x EXCEPT !.set = set, !.token = r.token, !.ttl = ttl]
  OBVIOUS
<1> HIDE DEF d
<1>6. Device(d) /\ d.id = r.id
  BY <1>3, <1>4, <1>5 DEF Device, Records
<1> HIDE DEF d
<1> QED
  BY <1>1, <1>2, <1>4, <1>6, FoundPut DEF Found

LEMMA HeartbeatKeeps ==
  ASSUME Devices(devices), NEW r \in Registrations, NEW fromMesh \in BOOLEAN, NEW ttl \in Nat,
         Tracked!HandleHeartbeat(r, fromMesh, ttl)
  PROVE  Devices(devices)'
<1>1. PICK i \in DOMAIN devices : /\ devices[i].id = r.id /\ devices[i].set # {}
                                  /\ devices' = [devices EXCEPT ![i].heartbeat = ttl]
  BY DEF Tracked!HandleHeartbeat, Tracked!With, Tracked!IsValid
<1> DEFINE x == devices[i]
           d == [x EXCEPT !.heartbeat = ttl]
<1>2. devices' = [devices EXCEPT ![i] = d]
  BY <1>1
<1>3. Device(x) /\ \A j \in DOMAIN devices : j # i /\ devices[j].set # {} => devices[j].id # x.id
  BY <1>1 DEF Devices
<1> HIDE DEF x
<1>4. Device(d) /\ d.id = x.id
  BY <1>3, RecordBeats
<1> HIDE DEF d
<1> QED
  BY <1>2, <1>3, <1>4, DevicePut DEF x

LEMMA MinuteKeeps ==
  ASSUME Devices(devices), Tracked!TickMinute
  PROVE  Devices(devices)'
<1> DEFINE Older(d) == [d EXCEPT !.ttl = Tracked!Minus1(d.ttl), !.heartbeat = Tracked!Minus1(d.heartbeat),
                                 !.set = IF d.ttl <= 1 THEN {} ELSE d.set]
<1>1. devices' = [i \in DOMAIN devices |-> IF devices[i].set = {} THEN devices[i] ELSE Older(devices[i])]
  BY DEF Tracked!TickMinute, Tracked!IsValid
<1>2. ASSUME NEW i \in DOMAIN devices
      PROVE  /\ Device(Older(devices[i])) /\ Older(devices[i]).id = devices[i].id
             /\ Older(devices[i]).set \subseteq devices[i].set
  <2> DEFINE d == devices[i]
             ttl == Tracked!Minus1(d.ttl)
             left == Tracked!Minus1(d.heartbeat)
             set == IF d.ttl <= 1 THEN {} ELSE d.set
  <2>1. Device(d)
    BY DEF Devices
  <2>2. ttl \in Nat /\ left \in Nat /\ set \in SUBSET d.set
    BY <2>1 DEF Device, Records, Tracked!Minus1
  <2>3. Older(d) = [d EXCEPT !.ttl = ttl, !.heartbeat = left, !.set = set]
    OBVIOUS
  <2> DEFINE e == Older(d)
  <2> HIDE DEF d, ttl, left, set
  <2>4. e = [d EXCEPT !.ttl = ttl, !.heartbeat = left, !.set = set]
    BY <2>3
  <2> HIDE DEF e
  <2>5. Device(e) /\ e.id = d.id /\ e.set = set
    BY <2>1, <2>2, <2>4 DEF Device, Records
  <2> HIDE DEF Older
  <2> QED
    BY <2>2, <2>5 DEF d, e
<1> HIDE DEF Older
<1>3. DOMAIN devices' = DOMAIN devices /\ \A i \in DOMAIN devices :
        /\ Device(devices'[i]) /\ devices'[i].id = devices[i].id
        /\ devices'[i].set \subseteq devices[i].set
  BY <1>1, <1>2 DEF Devices
<1>4. devices' \in Seq(Records)
  <2>1. DOMAIN devices = 1 .. Len(devices) /\ Len(devices) \in Nat
    BY DEF Devices
  <2>2. devices' \in [1 .. Len(devices) -> Records]
    BY <1>1, <1>3, <2>1 DEF Device
  <2> QED
    BY <2>1, <2>2
<1> QED
  BY <1>3, <1>4 DEF Devices

LEMMA TrackedNext ==
  ASSUME Devices(devices), Tracked!Next
  PROVE  Devices(devices)'
<1>1. CASE UNCHANGED devices
  BY <1>1
<1>2. CASE \E r \in Registrations, ttl \in 1 .. TtlMax : Tracked!HandleRegister(r, ttl)
  BY <1>2, RegisterKeeps
<1>3. CASE \E r \in Registrations, ttl \in 1 .. TtlMax : Tracked!HandleMeshToken(r, ttl)
  BY <1>3, MeshTokenKeeps
<1>4. CASE \E r \in Registrations : Tracked!HandleMeshRegister(r)
  BY <1>4, MeshRegisterKeeps
<1>5. CASE \E r \in Registrations, fromMesh \in BOOLEAN, ttl \in {0, Heartbeat} :
             Tracked!HandleHeartbeat(r, fromMesh, ttl)
  <2>1. PICK r \in Registrations, fromMesh \in BOOLEAN, ttl \in {0, Heartbeat} :
               Tracked!HandleHeartbeat(r, fromMesh, ttl)
    BY <1>5
  <2>2. ttl \in Nat
    BY ListsAssumption
  <2> QED
    BY <2>1, <2>2, HeartbeatKeeps
<1>6. CASE Tracked!TickMinute
  BY <1>6, MinuteKeeps
<1> QED
  BY <1>1, <1>2, <1>3, <1>4, <1>5, <1>6
     DEF Tracked!Next, Tracked!HandleMeshListSize, Tracked!SyncRequestOutgoing, Tracked!MeshSyncFailed

LEMMA TrackedHolds ==
  OwnTokens /\ Devices(devices) => Tracked!DevicesAreUnique /\ Tracked!DevicesAreTrue
BY DEF OwnTokens, Devices, Device, Tracked!DevicesAreUnique, Tracked!DevicesAreTrue, Tracked!AllFieldsSet,
       Tracked!AllFields, Tracked!IsValid

LEMMA TrackedStutter == Devices(devices) /\ UNCHANGED deviceVars => Devices(devices)'
BY DEF deviceVars

-----------------------------------------------------------------------------
(* Neighbours in the mesh (MeshTopology).                                  *)

\* Neighbour i is told of before neighbour j, when n is the next.
Sooner(n, i, j) == IF (n <= i) = (n <= j) THEN i < j ELSE n <= i

\* A list of neighbours, of the stones that each has skipped.
ListInv(items, c, next) ==
  /\ DOMAIN items = 0 .. MaxNeighbours - 1
  /\ \A i \in DOMAIN items : DOMAIN items[i] = {"id", "rssi", "ago"}
  /\ c \in 0 .. MaxNeighbours /\ next \in Nat
  /\ \A i \in 0 .. c - 1 :
       /\ items[i].id \in 1 .. NumStones /\ items[i].rssi \in {0, items[i].id}
       /\ items[i].ago \in Nat /\ items[i].ago < TimeoutSeconds
       /\ \A j \in 0 .. c - 1 : /\ i # j => items[i].id # items[j].id
                                /\ items[j].id \in skipped[items[i].id] => Sooner(next, i, j)

TopologyInv ==
  /\ ListInv(neighbours, count, nextSend)
  /\ skipped \in [1 .. NumStones -> SUBSET (1 .. NumStones)]
  /\ \A s \in 1 .. NumStones : skipped[s] # {} => s \in Topology!Known /\ skipped[s] \subseteq Topology!Known
  /\ outOfTurn = FALSE

\* After t turns of n.
LoopInv(l, n, t) ==
  /\ DOMAIN l = {"items", "count", "next", "at"}
  /\ ListInv(l.items, l.count, l.next)
  /\ l.at \in Nat /\ l.count - l.at = n - t

LEMMA TopologyInit == Topology!Init => TopologyInv
<1> SUFFICES ASSUME Topology!Init PROVE TopologyInv
  OBVIOUS
<1> USE ListsAssumption DEF Topology!Init, Topology!Stones, Topology!NoRssi
<1>1. ListInv(neighbours, count, nextSend)
  BY DEF ListInv
<1> QED
  BY <1>1 DEF TopologyInv

Starts == [items |-> neighbours, count |-> count, next |-> nextSend, at |-> 0]

\* A function that gives each turn of the loop up to turn n.
Turns(f, n) == f = [turn \in 0 .. n |-> IF turn = 0 THEN Starts ELSE Topology!AgeNext(f[turn - 1])]

LEMMA TurnsExist == \A n \in Nat : \E f : Turns(f, n)
<1> DEFINE none == {n \in Nat : ~ \E f : Turns(f, n)}
<1>1. SUFFICES ASSUME none # {} PROVE FALSE
  OBVIOUS
<1>2. PICK n \in none : \A m \in none : n <= m
  <2>1. none \in SUBSET Nat
    OBVIOUS
  <2> HIDE DEF none
  <2> QED
    BY <1>1, <2>1, Smallest
<1>3. n \in Nat /\ ~ \E f : Turns(f, n)
  OBVIOUS
<1>4. CASE n = 0
  <2>1. Turns([turn \in 0 .. 0 |-> Starts], 0)
    BY DEF Turns
  <2> QED
    BY <1>3, <1>4, <2>1
<1>5. CASE n # 0
  <2>1. n - 1 \in Nat /\ n - 1 \notin none
    BY <1>2, <1>3, <1>5
  <2>2. PICK f : Turns(f, n - 1)
    BY <2>1
  <2> DEFINE g == [turn \in 0 .. n |-> IF turn = n THEN Topology!AgeNext(f[n - 1]) ELSE f[turn]]
  <2>3. ASSUME NEW turn \in 0 .. n
        PROVE  g[turn] = IF turn = 0 THEN Starts ELSE Topology!AgeNext(g[turn - 1])
    <3>1. CASE turn = n
      BY <1>3, <1>5, <3>1
    <3>2. CASE turn # n
      <4>1. turn \in 0 .. n - 1 /\ g[turn] = f[turn]
        BY <1>3, <3>2
      <4>2. turn # 0 => turn - 1 \in 0 .. n /\ turn - 1 # n /\ g[turn - 1] = f[turn - 1]
        BY <1>3, <3>2
      <4>3. f[turn] = IF turn = 0 THEN Starts ELSE Topology!AgeNext(f[turn - 1])
        BY <2>2, <4>1 DEF Turns
      <4> QED
        BY <4>1, <4>2, <4>3
    <3> QED
      BY <3>1, <3>2
  <2>4. g = [turn \in 0 .. n |-> g[turn]]
    OBVIOUS
  <2> HIDE DEF g
  <2>5. Turns(g, n)
    BY <2>3, <2>4 DEF Turns
  <2> QED
    BY <1>3, <2>5
<1> QED
  BY <1>4, <1>5

LEMMA TurnedIs ==
  /\ Topology!Turned[0] = Starts
  /\ \A t \in 1 .. MaxNeighbours : Topology!Turned[t] = Topology!AgeNext(Topology!Turned[t - 1])
<1> DEFINE T == Topology!Turned
<1>1. T = CHOOSE f : f = [turn \in 0 .. MaxNeighbours |->
              IF turn = 0 THEN Starts ELSE Topology!AgeNext(f[turn - 1])]
  BY DEF Topology!Turned, Starts
<1>2. MaxNeighbours \in Nat
  BY ListsAssumption
<1>3. \E f : f = [turn \in 0 .. MaxNeighbours |-> IF turn = 0 THEN Starts ELSE Topology!AgeNext(f[turn - 1])]
  BY <1>2, TurnsExist DEF Turns
<1>4. T = [turn \in 0 .. MaxNeighbours |-> IF turn = 0 THEN Starts ELSE Topology!AgeNext(T[turn - 1])]
  <2> HIDE DEF T
  <2> QED
    BY <1>1, <1>3
<1> HIDE DEF T
<1>5. \A t \in 0 .. MaxNeighbours : T[t] = IF t = 0 THEN Starts ELSE Topology!AgeNext(T[t - 1])
  BY <1>4
<1>6. T[0] = Starts /\ \A t \in 1 .. MaxNeighbours : T[t] = Topology!AgeNext(T[t - 1])
  BY <1>2, <1>5
<1> QED
  BY <1>6 DEF T

\* The items when that at l.at has grown older.
OlderItems(l) == [l.items EXCEPT ![l.at] = [l.items[l.at] EXCEPT !.ago = l.items[l.at].ago + 1]]

\* A turn of the loop, by field.
LEMMA AgeNextIs ==
  ASSUME NEW l, DOMAIN l = {"items", "count", "next", "at"},
         NEW m, m = Topology!AgeNext(l), NEW items, items = OlderItems(l)
  PROVE  /\ DOMAIN m = {"items", "count", "next", "at"}
         /\ items[l.at].ago # TimeoutSeconds =>
              m.items = items /\ m.count = l.count /\ m.next = l.next /\ m.at = l.at + 1
         /\ items[l.at].ago = TimeoutSeconds =>
              /\ m.items = [j \in DOMAIN items |-> IF l.at <= j /\ j < l.count - 1 THEN items[j + 1] ELSE items[j]]
              /\ m.count = l.count - 1 /\ m.next = (IF l.next > l.at THEN l.next - 1 ELSE l.next) /\ m.at = l.at
<1> DEFINE older == [l EXCEPT !.items = items]
<1>1. DOMAIN older = {"items", "count", "next", "at"} /\ older.items = items
      /\ older.count = l.count /\ older.next = l.next /\ older.at = l.at
  OBVIOUS
<1>2. m = IF older.items[l.at].ago # TimeoutSeconds THEN [older EXCEPT !.at = older.at + 1]
          ELSE [older EXCEPT
                  !.count = older.count - 1,
                  !.items = [j \in DOMAIN older.items |->
                    IF l.at <= j /\ j < l.count - 1 THEN older.items[j + 1] ELSE older.items[j]],
                  !.next = IF older.next > l.at THEN older.next - 1 ELSE older.next]
  BY DEF Topology!AgeNext, OlderItems
<1> HIDE DEF older
<1> QED
  BY <1>1, <1>2

\* The item at a turn is older; or it is removed, and the next is not skipped.
LEMMA AgeNextKeeps ==
  ASSUME NEW n \in Nat, NEW t \in 0 .. n - 1, NEW l, LoopInv(l, n, t), NEW m, m = Topology!AgeNext(l)
  PROVE  LoopInv(m, n, t + 1)
<1> DEFINE at == l.at
           c == l.count
           next == l.next
           items == OlderItems(l)
<1>1. /\ at \in Nat /\ c \in Nat /\ c <= MaxNeighbours /\ next \in Nat /\ at < c
      /\ MaxNeighbours \in Nat /\ TimeoutSeconds \in Nat /\ c - at = n - t
  BY ListsAssumption DEF LoopInv, ListInv
<1>2. /\ DOMAIN l = {"items", "count", "next", "at"} /\ DOMAIN l.items = 0 .. MaxNeighbours - 1
      /\ \A i \in DOMAIN l.items : DOMAIN l.items[i] = {"id", "rssi", "ago"}
      /\ at \in DOMAIN l.items
  BY <1>1 DEF LoopInv, ListInv
<1>3. /\ DOMAIN m = {"items", "count", "next", "at"}
      /\ items[at].ago # TimeoutSeconds => m.items = items /\ m.count = c /\ m.next = next /\ m.at = at + 1
      /\ items[at].ago = TimeoutSeconds =>
           /\ m.items = [j \in DOMAIN items |-> IF at <= j /\ j < c - 1 THEN items[j + 1] ELSE items[j]]
           /\ m.count = c - 1 /\ m.next = (IF next > at THEN next - 1 ELSE next) /\ m.at = at
  BY <1>2, AgeNextIs
<1>4. /\ DOMAIN items = 0 .. MaxNeighbours - 1
      /\ \A i \in DOMAIN items : /\ DOMAIN items[i] = {"id", "rssi", "ago"}
                                 /\ items[i].id = l.items[i].id /\ items[i].rssi = l.items[i].rssi
                                 /\ items[i].ago = IF i = at THEN l.items[i].ago + 1 ELSE l.items[i].ago
  BY <1>2 DEF OlderItems
<1> HIDE DEF items
<1>5. \A i \in 0 .. c - 1 :
        /\ items[i].id \in 1 .. NumStones /\ items[i].rssi \in {0, items[i].id}
        /\ items[i].ago \in Nat /\ items[i].ago <= TimeoutSeconds
        /\ i # at => items[i].ago < TimeoutSeconds
        /\ \A j \in 0 .. c - 1 : /\ i # j => items[i].id # items[j].id
                                 /\ items[j].id \in skipped[items[i].id] => Sooner(next, i, j)
  <2> SUFFICES ASSUME NEW i \in 0 .. c - 1
               PROVE  /\ items[i].id \in 1 .. NumStones /\ items[i].rssi \in {0, items[i].id}
                      /\ items[i].ago \in Nat /\ items[i].ago <= TimeoutSeconds
                      /\ i # at => items[i].ago < TimeoutSeconds
                      /\ \A j \in 0 .. c - 1 : /\ i # j => items[i].id # items[j].id
                                               /\ items[j].id \in skipped[items[i].id] => Sooner(next, i, j)
    OBVIOUS
  <2>1. /\ l.items[i].id \in 1 .. NumStones /\ l.items[i].rssi \in {0, l.items[i].id}
        /\ l.items[i].ago \in Nat /\ l.items[i].ago < TimeoutSeconds
        /\ \A j \in 0 .. c - 1 : /\ i # j => l.items[i].id # l.items[j].id
                                 /\ l.items[j].id \in skipped[l.items[i].id] => Sooner(next, i, j)
    BY DEF LoopInv, ListInv
  <2>2. \A j \in 0 .. c - 1 : j \in DOMAIN items
    BY <1>1, <1>4
  <2>3. \A j \in 0 .. c - 1 : items[j].id = l.items[j].id /\ items[j].rssi = l.items[j].rssi
    BY <1>4, <2>2
  <2>4. items[i].ago = IF i = at THEN l.items[i].ago + 1 ELSE l.items[i].ago
    BY <1>4, <2>2
  <2>5. /\ items[i].ago \in Nat /\ items[i].ago <= TimeoutSeconds
        /\ i # at => items[i].ago < TimeoutSeconds
    BY <1>1, <2>1, <2>4
  <2> QED
    BY <2>1, <2>3, <2>5
<1>6. CASE items[at].ago # TimeoutSeconds
  <2>1. m.items = items /\ m.count = c /\ m.next = next /\ m.at = at + 1
    BY <1>3, <1>6
  <2>2. \A i \in 0 .. c - 1 : items[i].ago < TimeoutSeconds
    BY <1>1, <1>5, <1>6
  <2>3. ListInv(items, c, next)
    BY <1>1, <1>4, <1>5, <2>2 DEF ListInv
  <2> QED
    BY <1>1, <1>3, <2>1, <2>3 DEF LoopInv
<1>7. CASE items[at].ago = TimeoutSeconds
  <2> DEFINE Old(i) == IF i < at THEN i ELSE i + 1
             after == IF next > at THEN next - 1 ELSE next
  <2>1. /\ m.items = [j \in DOMAIN items |-> IF at <= j /\ j < c - 1 THEN items[j + 1] ELSE items[j]]
        /\ m.count = c - 1 /\ m.next = after /\ m.at = at
    BY <1>3, <1>7
  <2>2. after \in Nat /\ c - 1 \in 0 .. MaxNeighbours
    BY <1>1
  <2>3. DOMAIN m.items = 0 .. MaxNeighbours - 1 /\ \A i \in DOMAIN m.items : DOMAIN m.items[i] = {"id", "rssi", "ago"}
    BY <1>1, <1>4, <2>1
  <2>4. \A i \in 0 .. c - 2 : Old(i) \in 0 .. c - 1 /\ Old(i) # at /\ m.items[i] = items[Old(i)]
    <3> SUFFICES ASSUME NEW i \in 0 .. c - 2
                 PROVE  Old(i) \in 0 .. c - 1 /\ Old(i) # at /\ m.items[i] = items[Old(i)]
      OBVIOUS
    <3>1. i \in DOMAIN items
      BY <1>1, <1>4
    <3>2. CASE i < at
      BY <1>1, <2>1, <3>1, <3>2
    <3>3. CASE i >= at
      BY <1>1, <2>1, <3>1, <3>3
    <3> QED
      BY <1>1, <3>2, <3>3
  <2>5. \A i, j \in 0 .. c - 2 : /\ i # j => Old(i) # Old(j)
                                 /\ Sooner(next, Old(i), Old(j)) => Sooner(after, i, j)
    BY <1>1 DEF Sooner
  <2> HIDE DEF Old, after
  <2>6. \A i \in 0 .. c - 2 :
          /\ m.items[i].id \in 1 .. NumStones /\ m.items[i].rssi \in {0, m.items[i].id}
          /\ m.items[i].ago \in Nat /\ m.items[i].ago < TimeoutSeconds
    BY <1>5, <2>4
  <2>7. \A i, j \in 0 .. c - 2 :
          /\ i # j => m.items[i].id # m.items[j].id
          /\ m.items[j].id \in skipped[m.items[i].id] => Sooner(after, i, j)
    BY <1>5, <2>4, <2>5
  <2>8. (c - 1) - 1 = c - 2
    BY <1>1
  <2>9. ListInv(m.items, c - 1, after)
    BY <2>2, <2>3, <2>6, <2>7, <2>8 DEF ListInv
  <2> QED
    BY <1>1, <1>3, <2>1, <2>9 DEF LoopInv
<1> QED
  BY <1>6, <1>7

LEMMA AgedIs ==
  ASSUME ListInv(neighbours, count, nextSend)
  PROVE  LoopInv(Topology!Aged, count, count)
<1> DEFINE bad == {t \in 0 .. count : ~ LoopInv(Topology!Turned[t], count, t)}
<1>1. count \in Nat /\ count <= MaxNeighbours /\ MaxNeighbours \in Nat
  BY ListsAssumption DEF ListInv
<1>2. SUFFICES ASSUME bad # {} PROVE FALSE
  BY <1>1 DEF Topology!Aged
<1>3. PICK t \in bad : \A u \in bad : t <= u
  <2>1. bad \in SUBSET Nat
    OBVIOUS
  <2> HIDE DEF bad
  <2> QED
    BY <1>2, <2>1, Smallest
<1>4. t \in 0 .. count /\ ~ LoopInv(Topology!Turned[t], count, t)
  OBVIOUS
<1>5. CASE t = 0
  <2>1. LoopInv(Starts, count, 0)
    BY <1>1 DEF LoopInv, Starts
  <2> QED
    BY <1>4, <1>5, <2>1, TurnedIs
<1>6. CASE t # 0
  <2> DEFINE u == t - 1
             l == Topology!Turned[u]
             m == Topology!Turned[t]
  <2>1. u \in 0 .. count - 1 /\ u \notin bad /\ t \in 1 .. MaxNeighbours /\ u + 1 = t
    BY <1>1, <1>3, <1>4, <1>6
  <2>2. LoopInv(l, count, u)
    BY <1>1, <2>1
  <2>3. m = Topology!AgeNext(l)
    BY <2>1, TurnedIs
  <2> HIDE DEF u, l, m
  <2>4. LoopInv(m, count, u + 1)
    BY <1>1, <2>1, <2>2, <2>3, AgeNextKeeps
  <2> QED
    BY <1>4, <2>1, <2>4 DEF m
<1> QED
  BY <1>5, <1>6

\* A message of a neighbour: it is updated, or added at the end.
LEMMA MessageKeeps ==
  ASSUME TopologyInv, NEW id \in 1 .. NumStones, NEW here \in BOOLEAN, Topology!OnMeshMsg(id, here)
  PROVE  TopologyInv'
<1>1. /\ count \in Nat /\ count <= MaxNeighbours /\ MaxNeighbours \in Nat
      /\ DOMAIN neighbours = 0 .. MaxNeighbours - 1
      /\ \A i \in DOMAIN neighbours : DOMAIN neighbours[i] = {"id", "rssi", "ago"}
  BY ListsAssumption DEF TopologyInv, ListInv
<1>2. UNCHANGED <<nextSend, skipped, outOfTurn>> /\ Topology!Add(id, here)
  BY DEF Topology!OnMeshMsg
<1>3. CASE id \in Topology!Known
  <2>1. PICK i \in 0 .. count - 1 :
               /\ neighbours[i].id = id
               /\ neighbours' = [neighbours EXCEPT ![i] =
                    [neighbours[i] EXCEPT !.id = id, !.rssi = IF here THEN id ELSE neighbours[i].rssi, !.ago = 0]]
    BY <1>2, <1>3 DEF Topology!Add, Topology!Updated
  <2>2. count' = count
    BY <1>2, <1>3 DEF Topology!Add
  <2> DEFINE x == neighbours[i]
             y == [x EXCEPT !.id = id, !.rssi = IF here THEN id ELSE x.rssi, !.ago = 0]
  <2>3. DOMAIN x = {"id", "rssi", "ago"} /\ x.id = id /\ x.rssi \in {0, id} /\ i \in DOMAIN neighbours
    BY <1>1, <2>1 DEF TopologyInv, ListInv
  <2>4. DOMAIN y = {"id", "rssi", "ago"} /\ y.id = id /\ y.rssi \in {0, id} /\ y.ago = 0
    <3> HIDE DEF x
    <3> QED
      BY <2>3
  <2>5. neighbours' = [neighbours EXCEPT ![i] = y]
    BY <2>1
  <2> HIDE DEF x, y
  <2>6. DOMAIN neighbours' = DOMAIN neighbours
        /\ \A j \in DOMAIN neighbours : neighbours'[j] = IF j = i THEN y ELSE neighbours[j]
    BY <2>3, <2>5
  <2>7. \A j \in 0 .. count - 1 : j \in DOMAIN neighbours /\ neighbours'[j].id = neighbours[j].id
    BY <1>1, <2>1, <2>4, <2>6
  <2>8. \A j \in 0 .. count - 1 :
          /\ neighbours'[j].rssi \in {0, neighbours'[j].id}
          /\ neighbours'[j].ago \in Nat /\ neighbours'[j].ago < TimeoutSeconds
    <3> SUFFICES ASSUME NEW j \in 0 .. count - 1
                 PROVE  /\ neighbours'[j].rssi \in {0, neighbours'[j].id}
                        /\ neighbours'[j].ago \in Nat /\ neighbours'[j].ago < TimeoutSeconds
      OBVIOUS
    <3>1. neighbours'[j] = IF j = i THEN y ELSE neighbours[j]
      BY <2>6, <2>7
    <3>2. /\ neighbours[j].rssi \in {0, neighbours[j].id}
          /\ neighbours[j].ago \in Nat /\ neighbours[j].ago < TimeoutSeconds
      BY DEF TopologyInv, ListInv
    <3> QED
      BY <2>4, <3>1, <3>2, ListsAssumption
  <2>9. \A j \in DOMAIN neighbours' : DOMAIN neighbours'[j] = {"id", "rssi", "ago"}
    BY <1>1, <2>4, <2>6
  <2>10. ListInv(neighbours, count, nextSend)'
    BY <1>1, <1>2, <2>2, <2>6, <2>7, <2>8, <2>9 DEF TopologyInv, ListInv
  <2>11. Topology!Known' = Topology!Known
    BY <2>2, <2>7 DEF Topology!Known
  <2> QED
    BY <1>2, <2>10, <2>11 DEF TopologyInv
<1>4. CASE id \notin Topology!Known /\ count < MaxNeighbours
  <2> DEFINE x == neighbours[count]
             y == [[x EXCEPT !.rssi = 0] EXCEPT !.id = id, !.rssi = IF here THEN id ELSE 0, !.ago = 0]
  <2>1. count' = count + 1 /\ count \in DOMAIN neighbours
    BY <1>1, <1>2, <1>4 DEF Topology!Add
  <2>2. DOMAIN x = {"id", "rssi", "ago"}
    BY <1>1, <2>1
  <2>3. neighbours' = [neighbours EXCEPT ![count] = y]
    BY <1>2, <1>4, <2>2 DEF Topology!Add, Topology!Updated, Topology!NoRssi
  <2> HIDE DEF x
  <2>4. DOMAIN y = {"id", "rssi", "ago"} /\ y.id = id /\ y.rssi \in {0, id} /\ y.ago = 0
    BY <2>2
  <2> HIDE DEF y
  <2>5. DOMAIN neighbours' = DOMAIN neighbours
        /\ \A j \in DOMAIN neighbours : neighbours'[j] = IF j = count THEN y ELSE neighbours[j]
    BY <2>1, <2>3
  <2>6. \A j \in DOMAIN neighbours' : DOMAIN neighbours'[j] = {"id", "rssi", "ago"}
    BY <1>1, <2>4, <2>5
  <2>7. \A j \in 0 .. count - 1 : j \in DOMAIN neighbours /\ neighbours'[j] = neighbours[j]
    BY <1>1, <2>5
  <2>8. neighbours'[count] = y
    BY <2>1, <2>5
  <2>9. \A j \in 0 .. count - 1 : /\ neighbours[j].id # id /\ neighbours[j].id \in Topology!Known
                                  /\ id \notin skipped[neighbours[j].id] /\ neighbours[j].id \notin skipped[id]
    BY <1>4 DEF TopologyInv, ListInv, Topology!Known
  <2>10. id \notin skipped[id]
    BY <1>4 DEF TopologyInv
  <2>11. \A i \in 0 .. count :
           /\ neighbours'[i].id \in 1 .. NumStones /\ neighbours'[i].rssi \in {0, neighbours'[i].id}
           /\ neighbours'[i].ago \in Nat /\ neighbours'[i].ago < TimeoutSeconds
    <3> SUFFICES ASSUME NEW i \in 0 .. count
                 PROVE  /\ neighbours'[i].id \in 1 .. NumStones /\ neighbours'[i].rssi \in {0, neighbours'[i].id}
                        /\ neighbours'[i].ago \in Nat /\ neighbours'[i].ago < TimeoutSeconds
      OBVIOUS
    <3>1. CASE i = count
      BY <2>4, <2>8, <3>1, ListsAssumption
    <3>2. CASE i # count
      <4>1. i \in 0 .. count - 1
        BY <1>1, <3>2
      <4> QED
        BY <2>7, <4>1 DEF TopologyInv, ListInv
    <3> QED
      BY <3>1, <3>2
  <2>12. \A i, j \in 0 .. count :
           /\ i # j => neighbours'[i].id # neighbours'[j].id
           /\ neighbours'[j].id \in skipped[neighbours'[i].id] => Sooner(nextSend, i, j)
    <3> SUFFICES ASSUME NEW i \in 0 .. count, NEW j \in 0 .. count
                 PROVE  /\ i # j => neighbours'[i].id # neighbours'[j].id
                        /\ neighbours'[j].id \in skipped[neighbours'[i].id] => Sooner(nextSend, i, j)
      OBVIOUS
    <3>1. \A k \in 0 .. count : k # count => k \in 0 .. count - 1
      BY <1>1
    <3>2. CASE i = count \/ j = count
      BY <2>4, <2>7, <2>8, <2>9, <2>10, <3>1, <3>2
    <3>3. CASE i # count /\ j # count
      BY <2>7, <3>1, <3>3 DEF TopologyInv, ListInv
    <3> QED
      BY <3>2, <3>3
  <2>13. count' \in 0 .. MaxNeighbours /\ nextSend' \in Nat /\ 0 .. count' - 1 = 0 .. count
    BY <1>1, <1>2, <1>4, <2>1 DEF TopologyInv, ListInv
  <2>14. ListInv(neighbours, count, nextSend)'
    BY <1>1, <1>2, <2>5, <2>6, <2>11, <2>12, <2>13 DEF ListInv
  <2>15. Topology!Known \subseteq Topology!Known'
    <3>1. \A j \in 0 .. count - 1 : j \in 0 .. count' - 1
      BY <1>1, <2>1
    <3> QED
      BY <2>7, <3>1 DEF Topology!Known
  <2> QED
    BY <1>2, <2>14, <2>15 DEF TopologyInv
<1>5. CASE id \notin Topology!Known /\ ~ (count < MaxNeighbours)
  <2>1. UNCHANGED <<neighbours, count>>
    BY <1>2, <1>5 DEF Topology!Add
  <2> QED
    BY <1>2, <2>1 DEF TopologyInv, ListInv, Topology!Known
<1> QED
  BY <1>3, <1>4, <1>5

\* What is told of next comes before all others, and after them when it was told.
LEMMA SentIsFirst ==
  ASSUME NEW c \in Nat, c > 0, NEW next \in Nat, NEW x, x = IF next >= c THEN 0 ELSE next
  PROVE  /\ x \in 0 .. c - 1 /\ x + 1 \in Nat
         /\ \A i \in 0 .. c - 1 : ~ Sooner(next, i, x)
         /\ \A i \in 0 .. c - 1 : i # x => Sooner(x + 1, i, x)
         /\ \A i, j \in 0 .. c - 1 : i # x /\ j # x /\ Sooner(next, i, j) => Sooner(x + 1, i, j)
BY DEF Sooner

LEMMA TickSecondKeeps ==
  ASSUME TopologyInv, Topology!OnTickSecond
  PROVE  TopologyInv'
<1> DEFINE l == Topology!Aged
           c == l.count
           x == IF l.next >= c THEN 0 ELSE l.next
           known == {l.items[i].id : i \in 0 .. c - 1}
           sends == sendCountdown <= 1 /\ c > 0
           sent == l.items[x].id
<1>1. /\ neighbours' = l.items /\ count' = c
      /\ nextSend' = IF sends THEN x + 1 ELSE l.next
      /\ skipped' = [s \in 1 .. NumStones |->
           IF s \notin known \/ (sends /\ s = sent) THEN {}
           ELSE (skipped[s] \cap known) \cup (IF sends THEN {sent} ELSE {})]
      /\ outOfTurn' = (sends /\ \E s \in known \ {sent} : sent \in skipped[s])
  BY DEF Topology!OnTickSecond, Topology!SendIndex, Topology!Stones
<1>2. ListInv(l.items, c, l.next)
  BY AgedIs DEF TopologyInv, LoopInv
<1>3. c \in Nat /\ c <= MaxNeighbours /\ MaxNeighbours \in Nat /\ l.next \in Nat
  BY <1>2, ListsAssumption DEF ListInv
<1>4. known \subseteq 1 .. NumStones
  BY <1>2 DEF ListInv
<1>5. Topology!Known' = known
  BY <1>1 DEF Topology!Known
<1> DEFINE items == l.items
           next == l.next
<1>6. \A i, j \in 0 .. c - 1 :
        /\ i # j => items[i].id # items[j].id
        /\ items[j].id \in skipped[items[i].id] => Sooner(next, i, j)
        /\ items[i].id \in 1 .. NumStones /\ items[i].id \in known
  BY <1>2 DEF ListInv
<1>7. CASE ~ sends
  <2>1. nextSend' = next /\ outOfTurn' = FALSE
        /\ skipped' = [s \in 1 .. NumStones |-> IF s \notin known THEN {} ELSE skipped[s] \cap known]
    BY <1>1, <1>7
  <2> HIDE DEF known, items, next, sends, x, c
  <2>2. \A i, j \in 0 .. c - 1 : items[j].id \in skipped'[items[i].id] => Sooner(next, i, j)
    BY <1>6, <2>1
  <2>3. ListInv(neighbours, count, nextSend)'
    BY <1>1, <1>2, <2>1, <2>2 DEF ListInv, items, next
  <2> QED
    BY <1>4, <1>5, <2>1, <2>3 DEF TopologyInv
<1>8. CASE sends
  <2>1. /\ nextSend' = x + 1
        /\ skipped' = [s \in 1 .. NumStones |-> IF s \notin known \/ s = sent THEN {}
                                                ELSE (skipped[s] \cap known) \cup {sent}]
        /\ outOfTurn' = \E s \in known \ {sent} : sent \in skipped[s]
    BY <1>1, <1>8
  <2>2. /\ x \in 0 .. c - 1 /\ x + 1 \in Nat
        /\ \A i \in 0 .. c - 1 : ~ Sooner(next, i, x)
        /\ \A i \in 0 .. c - 1 : i # x => Sooner(x + 1, i, x)
        /\ \A i, j \in 0 .. c - 1 : i # x /\ j # x /\ Sooner(next, i, j) => Sooner(x + 1, i, j)
    <3>1. c > 0 /\ next \in Nat /\ x = IF next >= c THEN 0 ELSE next
      BY <1>3, <1>8
    <3> HIDE DEF x, c, next
    <3> QED
      BY <1>3, <3>1, SentIsFirst
  <2>3. sent \in known /\ sent = items[x].id
    BY <1>6, <2>2
  <2>4. \A s \in known : \E i \in 0 .. c - 1 : s = items[i].id
    OBVIOUS
  <2> HIDE DEF known, items, next, sends, x, c, sent
  <2>5. outOfTurn' = FALSE
    <3>1. ~ \E s \in known \ {sent} : sent \in skipped[s]
      BY <1>6, <2>2, <2>3, <2>4
    <3> QED
      BY <2>1, <3>1
  <2>6. ASSUME NEW i \in 0 .. c - 1, NEW j \in 0 .. c - 1, items[j].id \in skipped'[items[i].id]
        PROVE  Sooner(x + 1, i, j)
    <3>1. /\ items[i].id # sent
          /\ items[j].id \in skipped[items[i].id] \/ items[j].id = sent
      BY <1>6, <2>1, <2>6
    <3>2. i # x
      BY <2>3, <3>1
    <3>3. CASE j = x
      BY <2>2, <3>2, <3>3
    <3>4. CASE j # x
      <4>1. items[j].id # sent
        BY <1>6, <2>2, <2>3, <3>4
      <4>2. Sooner(next, i, j)
        BY <1>6, <3>1, <4>1
      <4> QED
        BY <2>2, <3>2, <3>4, <4>2
    <3> QED
      BY <3>3, <3>4
  <2>7. ListInv(neighbours, count, nextSend)'
    <3>1. neighbours' = items /\ count' = c /\ nextSend' = x + 1 /\ x + 1 \in Nat
      BY <1>1, <2>1, <2>2 DEF items
    <3>2. /\ DOMAIN items = 0 .. MaxNeighbours - 1 /\ c \in 0 .. MaxNeighbours
          /\ \A i \in DOMAIN items : DOMAIN items[i] = {"id", "rssi", "ago"}
          /\ \A i \in 0 .. c - 1 : /\ items[i].id \in 1 .. NumStones /\ items[i].rssi \in {0, items[i].id}
                                   /\ items[i].ago \in Nat /\ items[i].ago < TimeoutSeconds
      BY <1>2 DEF ListInv, items
    <3>3. \A i, j \in 0 .. c - 1 : /\ i # j => items[i].id # items[j].id
                                   /\ items[j].id \in skipped'[items[i].id] => Sooner(x + 1, i, j)
      BY <1>6, <2>6
    <3> QED
      BY <3>1, <3>2, <3>3 DEF ListInv
  <2>8. skipped' \in [1 .. NumStones -> SUBSET (1 .. NumStones)]
        /\ \A s \in 1 .. NumStones : skipped'[s] # {} => s \in known /\ skipped'[s] \subseteq known
    BY <1>4, <2>1, <2>3
  <2> QED
    BY <1>5, <2>5, <2>7, <2>8 DEF TopologyInv
<1> QED
  BY <1>7, <1>8

LEMMA TopologyNext ==
  ASSUME TopologyInv, Topology!Next
  PROVE  TopologyInv'
<1>1. CASE \E id \in 1 .. NumStones, here \in BOOLEAN : Topology!OnMeshMsg(id, here)
  BY <1>1, MessageKeeps
<1>2. CASE Topology!OnTickSecond
  BY <1>2, TickSecondKeeps
<1>3. CASE Topology!Reset
  <2>1. count' = 0 /\ UNCHANGED <<neighbours, nextSend, outOfTurn>> /\ skipped' = [s \in 1 .. NumStones |-> {}]
    BY <1>3 DEF Topology!Reset, Topology!Stones
  <2>2. 0 \in 0 .. MaxNeighbours /\ 0 .. 0 - 1 = {}
    BY ListsAssumption
  <2>3. ListInv(neighbours, count, nextSend)'
    BY <2>1, <2>2 DEF TopologyInv, ListInv
  <2> QED
    BY <2>1, <2>3 DEF TopologyInv
<1> QED
  BY <1>1, <1>2, <1>3 DEF Topology!Next, Topology!Stones

LEMMA TopologyHolds == TopologyInv => Topology!NeighboursAreTrue /\ Topology!InTurn
BY DEF TopologyInv, ListInv, Topology!NeighboursAreTrue, Topology!InTurn, Topology!NoRssi

LEMMA TopologyStutter == TopologyInv /\ UNCHANGED topologyVars => TopologyInv'
<1> SUFFICES ASSUME TopologyInv, UNCHANGED topologyVars PROVE TopologyInv'
  OBVIOUS
<1>1. /\ neighbours' = neighbours /\ count' = count /\ nextSend' = nextSend
      /\ skipped' = skipped /\ outOfTurn' = outOfTurn
  BY DEF topologyVars
<1>2. ListInv(neighbours, count, nextSend)'
  BY <1>1 DEF TopologyInv, ListInv
<1>3. Topology!Known' = Topology!Known
  BY <1>1 DEF Topology!Known
<1> QED
  BY <1>1, <1>2, <1>3 DEF TopologyInv

-----------------------------------------------------------------------------
(* States of other stones (ServiceData).                                   *)

ToldSlots == 0 .. StateSlots - 1
Numbers == {0} \cup DOMAIN Source

\* Two halves of a stone, in the same second, or none yet.
Received(r) ==
  /\ DOMAIN r = {"src", "stamp", "half"} /\ r.half \in [{0, 1} -> Numbers]
  /\ \A h \in {0, 1} : r.half[h] # 0 => Source[r.half[h]] = r.src /\ Stamp[r.half[h]] = r.stamp

SlotType(s) ==
  /\ DOMAIN s = {"id", "timeout", "half"} /\ s.half \in [{0, 1} -> Numbers] /\ s.timeout \in Nat
  /\ s.id \in {0} \cup {Source[k] : k \in DOMAIN Source}
  /\ s.id = 0 => s.timeout = 0
  /\ s.id # 0 => /\ Source[s.half[0]] = s.id /\ Source[s.half[1]] = s.id
                 /\ Stamp[s.half[0]] = Stamp[s.half[1]]

ToldStates ==
  /\ DOMAIN states = ToldSlots
  /\ \A i \in ToldSlots : SlotType(states[i])
  /\ \A i, j \in ToldSlots : states[i].id = states[j].id /\ states[i].id # 0 => i = j

\* How many slots come before slot i, from slot b on.
Ahead(b, i) == IF b <= i THEN i - b ELSE i + StateSlots - b

ToldTurns ==
  /\ broadcast \in ToldSlots /\ waited \in [ToldSlots -> Nat]
  /\ \A i \in ToldSlots : /\ waited[i] + Ahead(broadcast, i) < StateSlots
                          /\ states[i].timeout = 0 => waited[i] = 0

ToldInv == Received(received) /\ ToldStates /\ ToldTurns

\* Slot m from slot b on, around the list.
LEMMA Around ==
  ASSUME NEW b \in ToldSlots, NEW m \in 0 .. StateSlots
  PROVE  (b + m) % StateSlots = IF b + m < StateSlots THEN b + m ELSE b + m - StateSlots
<1>1. StateSlots \in Nat \ {0} /\ b \in Nat /\ b < StateSlots /\ m \in Nat /\ m <= StateSlots
  BY ListsAssumption DEF ToldSlots
<1>2. CASE b + m < StateSlots
  BY <1>1, <1>2
<1>3. CASE b + m >= StateSlots
  BY <1>1, <1>3
<1> QED
  BY <1>1, <1>2, <1>3

LEMMA AheadIs ==
  ASSUME NEW b \in ToldSlots, NEW i \in ToldSlots
  PROVE  Ahead(b, i) \in ToldSlots /\ (b + Ahead(b, i)) % StateSlots = i
<1>1. StateSlots \in Nat \ {0} /\ b \in Nat /\ b < StateSlots /\ i \in Nat /\ i < StateSlots
  BY ListsAssumption DEF ToldSlots
<1>2. Ahead(b, i) \in ToldSlots /\ Ahead(b, i) \in 0 .. StateSlots
  BY <1>1 DEF ToldSlots, Ahead
<1>3. b + Ahead(b, i) = IF b <= i THEN i ELSE i + StateSlots
  BY <1>1 DEF Ahead
<1> DEFINE m == Ahead(b, i)
<1> HIDE DEF m
<1>4. (b + m) % StateSlots = IF b + m < StateSlots THEN b + m ELSE b + m - StateSlots
  BY <1>2, Around DEF m
<1>5. b + m = IF b <= i THEN i ELSE i + StateSlots
  BY <1>3 DEF m
<1>6. (b + m) % StateSlots = i
  BY <1>1, <1>4, <1>5
<1> QED
  BY <1>2, <1>6 DEF m

LEMMA MinIs ==
  ASSUME NEW S \in SUBSET Nat, S # {}
  PROVE  Told!Min(S) \in S /\ \A j \in S : Told!Min(S) <= j
<1>1. \E i \in S : \A j \in S : i <= j
  BY Smallest
<1> QED
  BY <1>1 DEF Told!Min

LEMMA ToldInit == Told!Init => ToldInv
<1> SUFFICES ASSUME Told!Init PROVE ToldInv
  OBVIOUS
<1> USE ListsAssumption DEF Told!Init, Told!None, Told!NoHalves, Told!Halves, Told!AllSlots
<1>1. Received(received)
  BY DEF Received, Numbers
<1>2. ToldStates
  BY DEF ToldStates, ToldSlots, SlotType, Numbers
<1>3. ToldTurns
  BY DEF ToldTurns, ToldSlots, Ahead
<1> QED
  BY <1>1, <1>2, <1>3 DEF ToldInv

\* The slot for a stone: no other is of it.
LEMMA SlotOfIs ==
  ASSUME ToldStates, NEW id, id # 0
  PROVE  /\ Told!SlotOf(id) \in ToldSlots
         /\ \A j \in ToldSlots : j # Told!SlotOf(id) => states[j].id # id
<1> DEFINE own == {i \in Told!AllSlots : states[i].id = id}
           oldest == {i \in Told!AllSlots : \A j \in Told!AllSlots : states[i].timeout <= states[j].timeout}
           slots == IF own # {} THEN own ELSE oldest
<1>1. Told!AllSlots = ToldSlots /\ ToldSlots \subseteq Nat /\ 0 \in ToldSlots
  BY ListsAssumption DEF Told!AllSlots, ToldSlots
<1>2. slots # {}
  <2> DEFINE times == {states[i].timeout : i \in ToldSlots}
  <2>1. times \subseteq Nat /\ times # {}
    BY <1>1 DEF ToldStates, SlotType
  <2>2. PICK t \in times : \A u \in times : t <= u
    <3> HIDE DEF times
    <3> QED
      BY <2>1, Smallest
  <2>3. PICK i \in ToldSlots : t = states[i].timeout
    BY <2>2
  <2>4. \A j \in ToldSlots : states[i].timeout <= states[j].timeout
    BY <2>2, <2>3
  <2>5. i \in oldest
    BY <1>1, <2>4
  <2> QED
    BY <2>5
<1>3. slots \subseteq ToldSlots /\ slots \subseteq Nat
  BY <1>1
<1>4. Told!SlotOf(id) = Told!Min(slots)
  BY DEF Told!SlotOf
<1>5. Told!Min(slots) \in slots
  <2> HIDE DEF slots
  <2> QED
    BY <1>2, <1>3, MinIs
<1>6. ASSUME NEW j \in ToldSlots, states[j].id = id PROVE j = Told!Min(slots)
  <2>1. own # {} /\ Told!Min(slots) \in own
    BY <1>1, <1>5, <1>6
  <2>2. Told!Min(slots) \in ToldSlots /\ states[Told!Min(slots)].id = id
    BY <1>1, <2>1
  <2> QED
    BY <1>6, <2>2 DEF ToldStates
<1> HIDE DEF slots
<1> QED
  BY <1>3, <1>4, <1>5, <1>6

LEMMA HandleStateKeeps ==
  ASSUME ToldInv, NEW h \in {0, 1}, NEW k \in DOMAIN Source, Told!HandleState(h, k)
  PROVE  ToldInv'
<1> DEFINE none == Told!NoHalves
           old == IF Told!IsFromSameState(Source[k], Stamp[k]) THEN received.half ELSE none
           half == [old EXCEPT ![h] = k]
           whole == 0 \notin {half[0], half[1]}
<1>1. none = [g \in {0, 1} |-> 0]
  BY DEF Told!NoHalves, Told!Halves, Told!None
<1>2. old \in [{0, 1} -> Numbers] /\ \A g \in {0, 1} : old[g] # 0 =>
        Source[old[g]] = Source[k] /\ Stamp[old[g]] = Stamp[k]
  BY <1>1 DEF ToldInv, Received, Numbers, Told!IsFromSameState
<1> HIDE DEF old
<1>3. half \in [{0, 1} -> Numbers] /\ \A g \in {0, 1} : half[g] # 0 =>
        Source[half[g]] = Source[k] /\ Stamp[half[g]] = Stamp[k]
  BY <1>2 DEF Numbers
<1>4. /\ received' = [src |-> Source[k], stamp |-> Stamp[k], half |-> IF whole THEN none ELSE half]
      /\ IF whole THEN Told!ReceivedState(Source[k], half) ELSE UNCHANGED states
      /\ UNCHANGED <<broadcast, waited>>
  BY DEF Told!HandleState, old, Told!None
<1> HIDE DEF half, none
<1>5. Received(received)'
  BY <1>1, <1>3, <1>4 DEF Received, Numbers
<1>6. CASE ~ whole
  BY <1>4, <1>5, <1>6 DEF ToldInv, ToldStates, ToldTurns
<1>7. CASE whole
  <2> DEFINE i == Told!SlotOf(Source[k])
             s == [id |-> Source[k], timeout |-> StateTimeout, half |-> half]
  <2>1. states' = [states EXCEPT ![i] = s]
    BY <1>4, <1>7 DEF Told!ReceivedState
  <2>2. Source[k] # 0
    BY ListsAssumption
  <2>3. i \in ToldSlots /\ \A j \in ToldSlots : j # i => states[j].id # Source[k]
    <3> DEFINE id == Source[k]
    <3> HIDE DEF id
    <3>1. id # 0
      BY <2>2 DEF id
    <3>2. /\ Told!SlotOf(id) \in ToldSlots
          /\ \A j \in ToldSlots : j # Told!SlotOf(id) => states[j].id # id
      BY <3>1, SlotOfIs DEF ToldInv
    <3> QED
      BY <3>2 DEF id
  <2>4. SlotType(s) /\ s.id = Source[k] /\ s.timeout # 0
    BY <1>3, <1>7, <2>2, ListsAssumption DEF SlotType
  <2> HIDE DEF i, s
  <2>5. DOMAIN states' = ToldSlots /\ \A j \in ToldSlots : states'[j] = IF j = i THEN s ELSE states[j]
    BY <2>1, <2>3 DEF ToldInv, ToldStates
  <2>6. ToldStates'
    BY <2>3, <2>4, <2>5 DEF ToldInv, ToldStates
  <2>7. ToldTurns'
    BY <1>4, <2>4, <2>5 DEF ToldInv, ToldTurns
  <2> QED
    BY <1>5, <2>6, <2>7 DEF ToldInv
<1> QED
  BY <1>6, <1>7

LEMMA TurnKeeps ==
  ASSUME ToldInv, Told!TellNextState, states' = states
  PROVE  ToldTurns'
<1>1. CASE ~ \E i \in Told!AllSlots : Told!Live(i)
  BY <1>1 DEF Told!TellNextState, ToldInv, ToldTurns
<1>2. CASE \E i \in Told!AllSlots : Told!Live(i)
  <2> DEFINE S == {m \in Told!AllSlots : Told!Live((broadcast + m) % StateSlots)}
             n == Told!NextTurn
             told == (broadcast + n) % StateSlots
  <2>1. StateSlots \in Nat \ {0} /\ Told!AllSlots = ToldSlots /\ ToldSlots \subseteq Nat
    BY ListsAssumption DEF Told!AllSlots, ToldSlots
  <2>2. \A m \in ToldSlots : (broadcast + m) % StateSlots =
          IF broadcast + m < StateSlots THEN broadcast + m ELSE broadcast + m - StateSlots
    BY <2>1, Around DEF ToldInv, ToldTurns, ToldSlots
  <2>3. \A i \in ToldSlots : Ahead(broadcast, i) \in ToldSlots /\ (broadcast + Ahead(broadcast, i)) % StateSlots = i
    BY AheadIs DEF ToldInv, ToldTurns
  <2>4. S # {} /\ S \subseteq Nat
    BY <1>2, <2>1, <2>3
  <2>5. n = Told!Min(S)
    BY DEF Told!NextTurn
  <2>6. n \in S /\ \A m \in S : n <= m
    <3> HIDE DEF S
    <3> QED
      BY <2>4, <2>5, MinIs
  <2>7. /\ broadcast' = (told + 1) % StateSlots
        /\ waited' = [i \in ToldSlots |-> IF i = told \/ ~ Told!Live(i) THEN 0 ELSE waited[i] + 1]
        /\ UNCHANGED <<>>
    BY <1>2, <2>1 DEF Told!TellNextState
  <2> HIDE DEF n
  <2>8. n \in ToldSlots /\ told \in ToldSlots /\ told = IF broadcast + n < StateSlots THEN broadcast + n ELSE broadcast + n - StateSlots
    BY <2>1, <2>2, <2>6 DEF ToldInv, ToldTurns, ToldSlots
  <2>9. \A i \in ToldSlots : Told!Live(i) => n <= Ahead(broadcast, i)
    BY <2>1, <2>3, <2>6
  <2> HIDE DEF told, S
  <2>10. broadcast' = IF told + 1 = StateSlots THEN 0 ELSE told + 1
    <3>1. told \in ToldSlots /\ 1 \in 0 .. StateSlots /\ told \in Nat /\ told < StateSlots
      BY <2>1, <2>8 DEF ToldSlots
    <3>2. (told + 1) % StateSlots = IF told + 1 < StateSlots THEN told + 1 ELSE told + 1 - StateSlots
      BY <3>1, Around
    <3> QED
      BY <2>1, <2>7, <3>1, <3>2
  <2>11. broadcast' \in ToldSlots /\ waited' \in [ToldSlots -> Nat]
    BY <2>1, <2>7, <2>8, <2>10 DEF ToldInv, ToldTurns, ToldSlots
  <2>12. \A i \in ToldSlots : Ahead(broadcast', i) < StateSlots /\
           (i # told /\ n <= Ahead(broadcast, i) => Ahead(broadcast', i) + n + 1 = Ahead(broadcast, i))
    BY <2>1, <2>8, <2>10, <2>11 DEF ToldInv, ToldTurns, ToldSlots, Ahead
  <2>13. ASSUME NEW i \in ToldSlots
         PROVE  waited'[i] + Ahead(broadcast', i) < StateSlots
    <3>1. CASE i = told \/ ~ Told!Live(i)
      <4>1. waited'[i] = 0
        BY <2>7, <3>1
      <4>2. Ahead(broadcast', i) \in Int
        BY <2>1, <2>11 DEF Ahead, ToldSlots
      <4> QED
        BY <2>12, <4>1, <4>2
    <3>2. CASE i # told /\ Told!Live(i)
      <4>1. waited'[i] = waited[i] + 1 /\ waited[i] \in Nat
        BY <2>7, <3>2 DEF ToldInv, ToldTurns
      <4>2. Ahead(broadcast', i) + n + 1 = Ahead(broadcast, i)
        BY <2>9, <2>12, <3>2
      <4>3. waited[i] + Ahead(broadcast, i) < StateSlots
        BY DEF ToldInv, ToldTurns
      <4>4. Ahead(broadcast', i) \in Int /\ Ahead(broadcast, i) \in Int /\ n \in Nat
        BY <2>1, <2>3, <2>8, <2>11 DEF Ahead, ToldSlots
      <4> QED
        BY <2>1, <4>1, <4>2, <4>3, <4>4
    <3> QED
      BY <3>1, <3>2
  <2>14. ASSUME NEW i \in ToldSlots, states'[i].timeout = 0
         PROVE  waited'[i] = 0
    BY <2>7, <2>14 DEF Told!Live
  <2> QED
    BY <2>11, <2>13, <2>14 DEF ToldTurns
<1> QED
  BY <1>1, <1>2
LEMMA TickKeeps ==
  ASSUME ToldInv, Told!Tick
  PROVE  ToldInv'
<1>1. /\ states' = [i \in ToldSlots |->
             [states[i] EXCEPT !.timeout = IF states[i].timeout = 0 THEN 0 ELSE states[i].timeout - 1]]
      /\ waited' = [i \in ToldSlots |-> IF states'[i].timeout = 0 THEN 0 ELSE waited[i]]
      /\ UNCHANGED <<received, broadcast>>
  BY DEF Told!Tick, Told!AllSlots, ToldSlots
<1>2. ASSUME NEW i \in ToldSlots
      PROVE  /\ SlotType(states'[i]) /\ states'[i].id = states[i].id
             /\ states[i].timeout = 0 => states'[i].timeout = 0
  <2> DEFINE s == states[i]
             t == IF s.timeout = 0 THEN 0 ELSE s.timeout - 1
  <2>1. SlotType(s)
    BY DEF ToldInv, ToldStates
  <2>2. states'[i] = [s EXCEPT !.timeout = t]
    BY <1>1
  <2>3. t \in Nat /\ (s.timeout = 0 => t = 0)
    BY <2>1 DEF SlotType
  <2> HIDE DEF s, t
  <2>4. SlotType(states'[i]) /\ states'[i].id = s.id /\ states'[i].timeout = t
    BY <2>1, <2>2, <2>3 DEF SlotType
  <2> QED
    BY <2>3, <2>4 DEF s
<1>3. Received(received)'
  BY <1>1 DEF ToldInv, Received
<1>4. ToldStates'
  BY <1>1, <1>2 DEF ToldInv, ToldStates
<1>5. ToldTurns'
  <2>1. broadcast' \in ToldSlots /\ waited' \in [ToldSlots -> Nat] /\ broadcast' = broadcast
    BY <1>1 DEF ToldInv, ToldTurns
  <2>2. ASSUME NEW i \in ToldSlots
        PROVE  /\ waited'[i] + Ahead(broadcast', i) < StateSlots
               /\ states'[i].timeout = 0 => waited'[i] = 0
    <3>1. waited'[i] = IF states'[i].timeout = 0 THEN 0 ELSE waited[i]
      BY <1>1
    <3>2. Ahead(broadcast', i) = Ahead(broadcast, i) /\ Ahead(broadcast, i) \in ToldSlots
      BY <2>1, AheadIs DEF ToldInv, ToldTurns
    <3>3. 0 + Ahead(broadcast, i) < StateSlots
      BY <3>2, ListsAssumption DEF ToldSlots
    <3>4. waited[i] + Ahead(broadcast, i) < StateSlots
      BY DEF ToldInv, ToldTurns
    <3> QED
      BY <3>1, <3>2, <3>3, <3>4
  <2> QED
    BY <2>1, <2>2 DEF ToldTurns
<1> QED
  BY <1>3, <1>4, <1>5 DEF ToldInv

LEMMA ToldNext ==
  ASSUME ToldInv, Told!Next
  PROVE  ToldInv'
<1>1. CASE \E h \in {0, 1}, k \in DOMAIN Source : Told!HandleState(h, k)
  BY <1>1, HandleStateKeeps
<1>2. CASE \E errors \in BOOLEAN : Told!UpdateServiceData(errors)
  <2>1. UNCHANGED <<received, states>>
    BY <1>2 DEF Told!UpdateServiceData
  <2>2. Told!TellNextState \/ UNCHANGED <<broadcast, waited>>
    BY <1>2 DEF Told!UpdateServiceData
  <2>3. ToldTurns'
    BY <2>1, <2>2, TurnKeeps DEF ToldInv, ToldTurns
  <2> QED
    BY <2>1, <2>3 DEF ToldInv, Received, ToldStates
<1>3. CASE Told!MicroappAdvertises
  BY <1>3 DEF Told!MicroappAdvertises, ToldInv, Received, ToldStates, ToldTurns
<1>4. CASE Told!Tick
  BY <1>4, TickKeeps
<1> QED
  BY <1>1, <1>2, <1>3, <1>4 DEF Told!Next, Told!Halves, Told!States

LEMMA ToldHolds ==
  ToldInv => Told!StatesAreWhole /\ Told!StonesAreUnique /\ Told!StatesInTurn
<1> SUFFICES ASSUME ToldInv PROVE Told!StatesAreWhole /\ Told!StonesAreUnique /\ Told!StatesInTurn
  OBVIOUS
<1>1. Told!StatesAreWhole
  BY DEF ToldInv, ToldStates, SlotType, ToldSlots, Told!StatesAreWhole, Told!AllSlots, Told!Live
<1>2. Told!StonesAreUnique
  BY DEF ToldInv, ToldStates, ToldSlots, Told!StonesAreUnique, Told!AllSlots, Told!None
<1>3. ASSUME NEW i \in ToldSlots PROVE waited[i] < StateSlots
  <2>1. Ahead(broadcast, i) \in ToldSlots /\ waited[i] \in Nat /\ waited[i] + Ahead(broadcast, i) < StateSlots
    BY AheadIs DEF ToldInv, ToldTurns
  <2> QED
    BY <2>1, ListsAssumption DEF ToldSlots
<1> QED
  BY <1>1, <1>2, <1>3 DEF ToldSlots, Told!StatesInTurn, Told!AllSlots

LEMMA ToldStutter == ToldInv /\ UNCHANGED stateVars => ToldInv'
BY DEF stateVars, ToldInv, Received, ToldStates, ToldTurns

-----------------------------------------------------------------------------
(* Reading over UART (Uart), when the scheduler has room and no host stops *)
(* right after an escape.                                                  *)

Bytes == Seq(Nat)

\* A reader that escapes is in the middle of a message.
Reading(r) ==
  /\ DOMAIN r = {"busy", "started", "escape", "toRead", "buffer"}
  /\ r.busy \in BOOLEAN /\ r.started \in BOOLEAN /\ r.escape \in BOOLEAN
  /\ r.toRead \in Nat /\ r.buffer \in Bytes
  /\ r.escape => r.started /\ ~ r.busy

LineType(l) ==
  /\ DOMAIN l = {"left", "next", "whole", "escape"}
  /\ l.left \in Bytes /\ l.next \in {"start", "byte", "flipped"} /\ l.whole \in Bytes /\ l.escape \in BOOLEAN

\* No start byte comes after an escape.
EscapesFit ==
  /\ line.next = "start" \/ line.left = <<>> => ~ line.escape
  /\ line.next = "flipped" => line.left # <<>> /\ Head(line.left) \in {10, 11}
  /\ reader.escape => line.escape

\* What was read of a message, and what is left of it.
SoFar(r, left, w) ==
  \/ left = <<Len(w), 0>> \o w /\ r.toRead = 0 /\ r.buffer = <<>>
  \/ left = <<0>> \o w /\ r.toRead = 0 /\ r.buffer = <<Len(w)>>
  \/ r.buffer \o left = w /\ r.toRead = Len(w)

\* The reader is with a message of which nothing was lost.
Keeps(r, l) ==
  l.whole # <<>> =>
    /\ Len(l.whole) <= RxBufferSize
    /\ l.next = "start" => l.left = <<Len(l.whole), 0>> \o l.whole
    /\ l.next # "start" /\ l.left # <<>> =>
         /\ ~ r.busy /\ r.started /\ (r.escape <=> l.next = "flipped")
         /\ SoFar(r, l.left, l.whole)

\* A message that was read is handled, and only then there is reading again.
Handled ==
  /\ task \in {"idle", "handling", "rest"} /\ scheduled \in BOOLEAN
  /\ reader.busy <=> scheduled \/ task # "idle"
  /\ scheduled => task = "idle"
  /\ due # <<>> => task # "rest" /\ reader.busy /\ reader.buffer = due

LinesInv == Reading(reader) /\ LineType(line) /\ EscapesFit /\ Keeps(reader, line) /\ Handled

LEMMA LinesInit == Lines!Init => LinesInv
<1> SUFFICES ASSUME Lines!Init PROVE LinesInv
  OBVIOUS
<1>1. reader = [busy |-> FALSE, started |-> FALSE, escape |-> FALSE, toRead |-> 0, buffer |-> <<>>]
      /\ line = [left |-> <<>>, next |-> "start", whole |-> <<>>, escape |-> FALSE]
      /\ scheduled = FALSE /\ task = "idle" /\ due = <<>>
  BY DEF Lines!Init
<1>2. Reading(reader)
  BY <1>1 DEF Reading, Bytes
<1>3. LineType(line) /\ Keeps(reader, line)
  BY <1>1 DEF LineType, Keeps, Bytes
<1>4. EscapesFit /\ Handled
  BY <1>1 DEF EscapesFit, Handled
<1> QED
  BY <1>2, <1>3, <1>4 DEF LinesInv

LEMMA FreshIs ==
  ASSUME NEW r, Reading(r), NEW f, f = Lines!Fresh(r)
  PROVE  /\ DOMAIN f = DOMAIN r /\ f.busy = r.busy
         /\ f.started = FALSE /\ f.escape = FALSE /\ f.toRead = 0 /\ f.buffer = <<>>
BY DEF Lines!Fresh, Reading

\* A reader that waits for the size.
LEMMA Rested ==
  ASSUME NEW r, Reading(r), NEW s, DOMAIN s = DOMAIN r, s.busy = r.busy, s.started \in BOOLEAN,
         s.escape = FALSE, s.toRead = 0, s.buffer = <<>>
  PROVE  Reading(s)
<1>1. DOMAIN s = {"busy", "started", "escape", "toRead", "buffer"} /\ s.busy \in BOOLEAN
  BY DEF Reading
<1>2. s.escape \in BOOLEAN /\ (s.escape => s.started /\ ~ s.busy)
  OBVIOUS
<1>3. s.toRead \in Nat /\ s.buffer \in Bytes
  BY DEF Bytes
<1> QED
  BY <1>1, <1>2, <1>3 DEF Reading

\* The buffer after a byte.
Filled(r, byte) == Append(r.buffer, IF r.escape THEN Lines!UnFlip(byte) ELSE byte)

\* A byte that is stored: one more in the buffer, or what follows the size.
LEMMA StoreIs ==
  ASSUME NEW r, Reading(r), ~ r.busy, NEW byte \in Nat, NEW s, s = Lines!Store(r, byte)
  PROVE  /\ Reading(s) /\ ~ s.escape
         /\ r.toRead # 0 =>
              /\ s.busy <=> Len(Filled(r, byte)) >= r.toRead
              /\ s.started = r.started /\ s.toRead = r.toRead /\ s.buffer = Filled(r, byte)
         /\ r.toRead = 0 => ~ s.busy
         /\ r.toRead = 0 /\ Len(Filled(r, byte)) < 2 => s.started = r.started /\ s.toRead = 0 /\ s.buffer = Filled(r, byte)
         /\ r.toRead = 0 /\ Len(Filled(r, byte)) >= 2 /\ Lines!Size(Filled(r, byte)) \in 1 .. RxBufferSize =>
              s.started = r.started /\ s.toRead = Lines!Size(Filled(r, byte)) /\ s.buffer = <<>>
<1> DEFINE buffer == Filled(r, byte)
           t == [r EXCEPT !.escape = FALSE, !.buffer = buffer]
<1>1. buffer \in Bytes
  BY DEF Reading, Bytes, Lines!UnFlip, Filled
<1>2. /\ DOMAIN t = {"busy", "started", "escape", "toRead", "buffer"} /\ t.escape = FALSE /\ t.buffer = buffer
      /\ t.busy = r.busy /\ t.started = r.started /\ t.toRead = r.toRead
  BY DEF Reading
<1>3. s = IF t.toRead # 0 THEN [t EXCEPT !.busy = Len(t.buffer) >= t.toRead]
          ELSE IF Len(t.buffer) < 2 THEN t
          ELSE IF Lines!Size(t.buffer) \notin 1 .. RxBufferSize THEN Lines!Fresh(t)
          ELSE [t EXCEPT !.toRead = Lines!Size(t.buffer), !.buffer = <<>>]
  BY DEF Lines!Store, Filled
<1>4. Reading(t)
  BY <1>1, <1>2 DEF Reading
<1> HIDE DEF t, buffer
<1>5. CASE r.toRead # 0
  <2> DEFINE full == Len(buffer) >= r.toRead
  <2>1. full \in BOOLEAN
    OBVIOUS
  <2>2. s = [t EXCEPT !.busy = full]
    BY <1>2, <1>3, <1>5
  <2> HIDE DEF full
  <2>3. Reading(s) /\ s.busy = full /\ s.escape = FALSE /\ s.started = r.started /\ s.toRead = r.toRead /\ s.buffer = buffer
    BY <1>2, <1>4, <2>1, <2>2 DEF Reading
  <2> QED
    BY <1>1, <1>5, <2>3 DEF full, buffer
<1>6. CASE r.toRead = 0 /\ Len(buffer) < 2
  <2>1. s = t
    BY <1>2, <1>3, <1>6
  <2> QED
    BY <1>1, <1>2, <1>4, <1>6, <2>1 DEF buffer
<1>7. CASE r.toRead = 0 /\ ~ (Len(buffer) < 2) /\ Lines!Size(buffer) \notin 1 .. RxBufferSize
  <2>1. s = Lines!Fresh(t)
    BY <1>2, <1>3, <1>7
  <2>2. DOMAIN s = DOMAIN t /\ s.busy = t.busy /\ s.started = FALSE /\ s.escape = FALSE /\ s.toRead = 0 /\ s.buffer = <<>>
    BY <1>4, <2>1, FreshIs
  <2>3. Reading(s)
    BY <1>4, <2>2, Rested
  <2> QED
    BY <1>1, <1>2, <1>7, <2>2, <2>3 DEF buffer
<1>8. CASE r.toRead = 0 /\ ~ (Len(buffer) < 2) /\ Lines!Size(buffer) \in 1 .. RxBufferSize
  <2> DEFINE size == Lines!Size(buffer)
  <2>1. s = [t EXCEPT !.toRead = size, !.buffer = <<>>]
    BY <1>2, <1>3, <1>8
  <2>2. size \in Nat
    BY <1>8, LinesAssumption
  <2> HIDE DEF size
  <2>3. Reading(s) /\ s.busy = r.busy /\ s.escape = FALSE /\ s.started = r.started /\ s.toRead = size /\ s.buffer = <<>>
    BY <1>2, <1>4, <2>1, <2>2 DEF Reading, Bytes
  <2> QED
    BY <1>1, <1>8, <2>3 DEF size, buffer
<1> QED
  BY <1>5, <1>6, <1>7, <1>8 DEF buffer

LEMMA StoreFits ==
  ASSUME NEW r, Reading(r), ~ r.busy, NEW byte \in Nat, NEW s, s = Lines!Store(r, byte)
  PROVE  Reading(s) /\ ~ s.escape
BY StoreIs

\* A byte that is read: nothing of one that comes while busy; a start, an escape, or
\* one that is stored.
LEMMA OnReadIs ==
  ASSUME NEW r, Reading(r), NEW byte \in Nat, NEW s, s = Lines!OnRead(r, byte)
  PROVE  /\ Reading(s) /\ (s.escape => byte = 11)
         /\ r.busy => s = r
         /\ ~ r.busy /\ byte = 10 /\ ~ r.escape => ~ s.busy /\ s.started /\ ~ s.escape /\ s.toRead = 0 /\ s.buffer = <<>>
         /\ ~ r.busy /\ byte = 11 /\ ~ r.escape /\ r.started =>
              ~ s.busy /\ s.started /\ s.escape /\ s.toRead = r.toRead /\ s.buffer = r.buffer
         /\ ~ r.busy /\ byte \notin {10, 11} /\ r.started => s = Lines!Store(r, byte)
<1> USE DEF Lines!Start, Lines!Escape, Lines!Special
<1>1. CASE r.busy
  BY <1>1 DEF Lines!OnRead, Reading
<1>2. CASE ~ r.busy /\ byte \in {10, 11} /\ r.escape
  <2>1. s = Lines!Fresh(r)
    BY <1>2 DEF Lines!OnRead, Reading
  <2>2. /\ DOMAIN s = DOMAIN r /\ s.busy = r.busy
        /\ s.started = FALSE /\ s.escape = FALSE /\ s.toRead = 0 /\ s.buffer = <<>>
    BY <2>1, FreshIs
  <2>3. Reading(s)
    BY <2>2, Rested
  <2> QED
    BY <1>2, <2>2, <2>3
<1>3. CASE ~ r.busy /\ byte = 10 /\ ~ r.escape
  <2> DEFINE f == Lines!Fresh(r)
  <2>1. s = [f EXCEPT !.started = TRUE]
    BY <1>3 DEF Lines!OnRead
  <2>2. DOMAIN f = DOMAIN r /\ f.busy = r.busy /\ f.started = FALSE /\ f.escape = FALSE /\ f.toRead = 0 /\ f.buffer = <<>>
    BY FreshIs
  <2> HIDE DEF f
  <2>3. /\ DOMAIN s = {"busy", "started", "escape", "toRead", "buffer"}
        /\ s.busy = r.busy /\ s.started = TRUE /\ s.escape = FALSE /\ s.toRead = 0 /\ s.buffer = <<>>
    BY <2>1, <2>2 DEF Reading
  <2>4. Reading(s)
    BY <2>3, Rested DEF Reading
  <2> QED
    BY <1>3, <2>3, <2>4
<1>4. CASE ~ r.busy /\ byte # 10 /\ ~ r.started
  <2>1. s = r
    BY <1>4 DEF Lines!OnRead, Reading
  <2> QED
    BY <1>4, <2>1 DEF Reading
<1>5. CASE ~ r.busy /\ byte = 11 /\ ~ r.escape /\ r.started
  <2>1. s = [r EXCEPT !.escape = TRUE]
    BY <1>5 DEF Lines!OnRead
  <2>2. /\ DOMAIN s = {"busy", "started", "escape", "toRead", "buffer"}
        /\ s.busy = r.busy /\ s.started = r.started /\ s.escape = TRUE /\ s.toRead = r.toRead /\ s.buffer = r.buffer
    BY <2>1 DEF Reading
  <2>3. Reading(s)
    BY <1>5, <2>2 DEF Reading
  <2>4. ~ s.busy /\ s.started /\ s.escape /\ s.toRead = r.toRead /\ s.buffer = r.buffer
    BY <1>5, <2>2
  <2> QED
    BY <1>5, <2>3, <2>4
<1>6. CASE ~ r.busy /\ byte \notin {10, 11} /\ r.started
  <2>1. s = Lines!Store(r, byte)
    BY <1>6 DEF Lines!OnRead
  <2>2. Reading(s) /\ ~ s.escape
    BY <1>6, <2>1, StoreFits
  <2> QED
    BY <1>6, <2>1, <2>2
<1> QED
  BY <1>1, <1>2, <1>3, <1>4, <1>5, <1>6 DEF Reading

\* What comes next on the line, and what the reader makes of it.
LEMMA NextByteIs ==
  ASSUME LineType(line), EscapesFit, line.left # <<>>
  PROVE  /\ Lines!NextByte \in Nat
         /\ Lines!NextByte = 11 <=> Lines!Escapes
         /\ line.next = "start" => /\ Lines!NextByte = 10 /\ ~ Lines!Escapes
                                   /\ Lines!LeftAfter = line.left /\ Lines!NextAfter = "byte"
         /\ Lines!Escapes => /\ line.next = "byte" /\ Head(line.left) \in {10, 11}
                             /\ Lines!LeftAfter = line.left /\ Lines!NextAfter = "flipped"
         /\ line.next # "start" /\ ~ Lines!Escapes =>
              /\ Lines!NextByte \notin {10, 11}
              /\ Lines!LeftAfter = Tail(line.left) /\ Lines!NextAfter = "byte"
              /\ Head(line.left) =
                   IF line.next = "flipped" THEN Lines!UnFlip(Lines!NextByte) ELSE Lines!NextByte
<1> DEFINE head == Head(line.left)
<1>1. head \in Nat
  BY DEF LineType, Bytes
<1>2. Lines!Escapes <=> line.next = "byte" /\ head \in {10, 11}
  BY DEF Lines!Escapes, Lines!Special, Lines!Start, Lines!Escape
<1>3. Lines!NextByte = CASE line.next = "start" -> 10
                         [] line.next = "byte" -> IF Lines!Escapes THEN 11 ELSE head
                         [] line.next = "flipped" -> head + 10
  BY DEF Lines!NextByte, Lines!Start, Lines!Escape, Lines!Flip
<1>4. line.next \in {"start", "byte", "flipped"} /\ (line.next = "flipped" => head \in {10, 11})
  BY DEF LineType, EscapesFit
<1>5. Lines!LeftAfter = (IF line.next = "start" \/ Lines!Escapes THEN line.left ELSE Tail(line.left))
      /\ Lines!NextAfter = (IF Lines!Escapes THEN "flipped" ELSE "byte")
  BY DEF Lines!LeftAfter, Lines!NextAfter
<1> HIDE DEF head
<1>6. CASE line.next = "start"
  BY <1>2, <1>3, <1>5, <1>6
<1>7. CASE line.next = "byte" /\ head \in {10, 11}
  BY <1>2, <1>3, <1>5, <1>7 DEF head
<1>8. CASE line.next = "byte" /\ head \notin {10, 11}
  BY <1>1, <1>2, <1>3, <1>5, <1>8 DEF head
<1>9. CASE line.next = "flipped"
  <2>1. Lines!NextByte = head + 10 /\ ~ Lines!Escapes
    BY <1>2, <1>3, <1>9
  <2>2. Lines!UnFlip(head + 10) = head /\ head + 10 \in Nat /\ head + 10 \notin {10, 11}
    BY <1>4, <1>9 DEF Lines!UnFlip
  <2> QED
    BY <1>5, <1>9, <2>1, <2>2 DEF head
<1> QED
  BY <1>4, <1>6, <1>7, <1>8, <1>9

LEMMA HeadMoves ==
  ASSUME NEW s \in Bytes, NEW t \in Bytes, t # <<>>
  PROVE  /\ Append(s, Head(t)) \o Tail(t) = s \o t /\ Append(s, Head(t)) \in Bytes
         /\ Head(t) \in Nat /\ Tail(t) \in Bytes /\ Len(t) = Len(Tail(t)) + 1
         /\ Len(s \o t) = Len(s) + Len(t)
BY DEF Bytes

LEMMA FirstOne == ASSUME NEW x PROVE Append(<<>>, x) = <<x>> /\ Len(<<x>>) = 1
OBVIOUS

LEMMA FirstTwo ==
  ASSUME NEW x \in Nat, NEW y \in Nat, NEW s, s = <<x>>, NEW z, z = Append(s, y)
  PROVE  Len(z) = 2 /\ z[1] = x /\ z[2] = y
<1>1. s \in Seq(Nat) /\ Len(s) = 1 /\ s[1] = x
  OBVIOUS
<1> QED
  BY <1>1

LEMMA HeadOfPair ==
  ASSUME NEW x \in Nat, NEW w \in Bytes
  PROVE  /\ Head(<<x, 0>> \o w) = x /\ Tail(<<x, 0>> \o w) = <<0>> \o w /\ <<0>> \o w # <<>>
         /\ Head(<<0>> \o w) = 0 /\ Tail(<<0>> \o w) = w
BY DEF Bytes

LEMMA EmptyRest == ASSUME NEW s \in Bytes PROVE s \o <<>> = s /\ <<>> \o s = s
BY DEF Bytes

\* The next byte of a message goes where it belongs, and the last one completes it.
LEMMA StoredKeeps ==
  ASSUME NEW r, Reading(r), ~ r.busy, r.started, NEW byte \in Nat, NEW s, s = Lines!Store(r, byte),
         NEW left \in Bytes, left # <<>>, NEW w \in Bytes, w # <<>>, Len(w) <= RxBufferSize, SoFar(r, left, w),
         Head(left) = IF r.escape THEN Lines!UnFlip(byte) ELSE byte
  PROVE  IF Tail(left) = <<>> THEN s.busy /\ s.buffer = w
         ELSE ~ s.busy /\ s.started /\ ~ s.escape /\ SoFar(s, Tail(left), w)
<1> DEFINE buffer == Filled(r, byte)
<1>1. /\ Reading(s) /\ ~ s.escape
      /\ r.toRead # 0 => /\ s.busy <=> Len(buffer) >= r.toRead
                         /\ s.started = r.started /\ s.toRead = r.toRead /\ s.buffer = buffer
      /\ r.toRead = 0 => ~ s.busy
      /\ r.toRead = 0 /\ Len(buffer) < 2 => s.started = r.started /\ s.toRead = 0 /\ s.buffer = buffer
      /\ r.toRead = 0 /\ Len(buffer) >= 2 /\ Lines!Size(buffer) \in 1 .. RxBufferSize =>
           s.started = r.started /\ s.toRead = Lines!Size(buffer) /\ s.buffer = <<>>
  BY StoreIs
<1>2. buffer = Append(r.buffer, Head(left))
  BY DEF Filled
<1> HIDE DEF buffer
<1>3. r.buffer \in Bytes /\ Len(w) \in Nat /\ Len(w) > 0 /\ RxBufferSize \in Nat
  BY LinesAssumption DEF Reading, Bytes
<1>4. CASE left = <<Len(w), 0>> \o w /\ r.toRead = 0 /\ r.buffer = <<>>
  <2>1. Head(left) = Len(w) /\ Tail(left) = <<0>> \o w /\ Tail(left) # <<>>
    BY <1>3, <1>4, HeadOfPair
  <2>2. buffer = <<Len(w)>> /\ Len(buffer) < 2
    <3> DEFINE x == Len(w)
    <3>1. buffer = Append(<<>>, x)
      BY <1>4, <1>2, <2>1
    <3> HIDE DEF x
    <3> QED
      BY <3>1, FirstOne DEF x
  <2> QED
    BY <1>1, <1>4, <2>1, <2>2 DEF SoFar
<1>5. CASE left = <<0>> \o w /\ r.toRead = 0 /\ r.buffer = <<Len(w)>>
  <2>1. Head(left) = 0 /\ Tail(left) = w
    BY <1>5, HeadOfPair
  <2>2. buffer = Append(r.buffer, 0)
    BY <1>2, <2>1
  <2>3. Len(buffer) = 2 /\ buffer[1] = Len(w) /\ buffer[2] = 0
    <3> DEFINE x == Len(w)
    <3>1. x \in Nat /\ 0 \in Nat /\ r.buffer = <<x>>
      BY <1>3, <1>5
    <3> HIDE DEF x
    <3>2. Len(buffer) = 2 /\ buffer[1] = x /\ buffer[2] = 0
      BY <2>2, <3>1, FirstTwo
    <3> QED
      BY <3>2 DEF x
  <2>4. Len(buffer) >= 2 /\ Lines!Size(buffer) = Len(w)
    BY <2>3 DEF Lines!Size
  <2>5. ~ s.busy /\ s.started /\ ~ s.escape /\ s.toRead = Len(w) /\ s.buffer = <<>>
    <3> DEFINE size == Lines!Size(buffer)
    <3>1. size \in 1 .. RxBufferSize /\ size = Len(w)
      BY <1>3, <2>4
    <3> HIDE DEF size
    <3> QED
      BY <1>1, <1>5, <2>4, <3>1 DEF size
  <2>6. <<>> \o w = w
    BY DEF Bytes
  <2> QED
    BY <2>1, <2>5, <2>6 DEF SoFar
<1>6. CASE r.buffer \o left = w /\ r.toRead = Len(w)
  <2>1. /\ buffer \o Tail(left) = w /\ buffer \in Bytes /\ Tail(left) \in Bytes
    BY <1>3, <1>6, <1>2, HeadMoves
  <2>2. Len(w) = Len(buffer) + Len(Tail(left)) /\ Len(buffer) \in Nat /\ Len(Tail(left)) \in Nat
    BY <2>1 DEF Bytes
  <2>3. CASE Tail(left) = <<>>
    <3>1. buffer = w
      BY <2>1, <2>3, EmptyRest
    <3> QED
      BY <1>1, <1>3, <1>6, <2>3, <3>1
  <2>4. CASE Tail(left) # <<>>
    <3>1. Len(Tail(left)) > 0
      BY <2>1, <2>4 DEF Bytes
    <3> QED
      <4>1. ~ (Len(buffer) >= r.toRead) /\ r.toRead # 0
        BY <1>3, <1>6, <2>2, <3>1
      <4>2. ~ s.busy /\ s.started /\ ~ s.escape /\ s.toRead = Len(w) /\ s.buffer = buffer
        BY <1>1, <1>6, <4>1
      <4> QED
        BY <2>1, <2>4, <4>2 DEF SoFar
  <2> QED
    BY <2>3, <2>4
<1> QED
  BY <1>4, <1>5, <1>6 DEF SoFar

LEMMA SendKeeps ==
  ASSUME ~ SchedulerFills, LinesInv, Lines!Send
  PROVE  LinesInv'
<1> DEFINE byte == Lines!NextByte
           left == Lines!LeftAfter
           after == Lines!NextAfter
           whole == IF reader.busy THEN <<>> ELSE line.whole
           r == Lines!OnRead(reader, byte)
           w == line.whole
<1>1. /\ line.left # <<>> /\ reader' = r /\ UNCHANGED task
      /\ IF reader'.busy /\ ~reader.busy THEN \E fits \in {TRUE, ~SchedulerFills} : scheduled' = fits
         ELSE UNCHANGED scheduled
      /\ line' = [left |-> left, next |-> after, whole |-> whole, escape |-> Lines!Escapes]
      /\ due' = IF left = <<>> /\ whole # <<>> THEN whole ELSE due
  BY DEF Lines!Send, Lines!Read
<1>2. reader'.busy /\ ~ reader.busy => scheduled' = TRUE
  BY <1>1
<1>3. /\ byte \in Nat /\ (byte = 11 <=> Lines!Escapes)
      /\ line.next = "start" => byte = 10 /\ ~ Lines!Escapes /\ left = line.left /\ after = "byte"
      /\ Lines!Escapes => line.next = "byte" /\ Head(line.left) \in {10, 11} /\ left = line.left /\ after = "flipped"
      /\ line.next # "start" /\ ~ Lines!Escapes =>
           /\ byte \notin {10, 11} /\ left = Tail(line.left) /\ after = "byte"
           /\ Head(line.left) = IF line.next = "flipped" THEN Lines!UnFlip(byte) ELSE byte
  BY <1>1, NextByteIs DEF LinesInv
<1> HIDE DEF byte, left, after
<1>4. /\ Reading(r) /\ (r.escape => byte = 11)
      /\ reader.busy => r = reader
      /\ ~ reader.busy /\ byte = 10 /\ ~ reader.escape =>
           ~ r.busy /\ r.started /\ ~ r.escape /\ r.toRead = 0 /\ r.buffer = <<>>
      /\ ~ reader.busy /\ byte = 11 /\ ~ reader.escape /\ reader.started =>
           ~ r.busy /\ r.started /\ r.escape /\ r.toRead = reader.toRead /\ r.buffer = reader.buffer
      /\ ~ reader.busy /\ byte \notin {10, 11} /\ reader.started => r = Lines!Store(reader, byte)
  BY <1>3, OnReadIs DEF LinesInv
<1> HIDE DEF r
<1>5. line.left \in Bytes /\ w \in Bytes /\ left \in Bytes /\ after \in {"byte", "flipped"}
  <2>1. line.left \in Bytes /\ w \in Bytes /\ line.left # <<>> /\ Tail(line.left) \in Bytes
    BY <1>1, HeadMoves DEF LinesInv, LineType
  <2>2. left = line.left \/ left = Tail(line.left)
    BY <1>3
  <2>3. after \in {"byte", "flipped"}
    BY <1>3
  <2> QED
    BY <2>1, <2>2, <2>3
<1>6. LineType(line')
  BY <1>1, <1>5 DEF LineType, Lines!Escapes, Bytes
<1>7. EscapesFit'
  <2>1. after = "flipped" => Lines!Escapes
    BY <1>3
  <2>2. line'.next = after /\ line'.left = left /\ line'.escape = Lines!Escapes /\ reader' = r
    BY <1>1
  <2>3. Lines!Escapes => left # <<>> /\ Head(left) \in {10, 11}
    BY <1>1, <1>3
  <2>4. line'.next = "start" \/ line'.left = <<>> => ~ line'.escape
    BY <1>5, <2>2, <2>3
  <2>5. reader'.escape => line'.escape
    BY <1>3, <1>4, <2>2
  <2> QED
    BY <2>1, <2>2, <2>3, <2>4, <2>5 DEF EscapesFit
<1>8. ASSUME whole # <<>>
      PROVE  /\ ~ reader.busy /\ whole = w /\ Len(w) <= RxBufferSize
             /\ IF left = <<>> THEN r.busy /\ r.buffer = w
                ELSE ~ r.busy /\ r.started /\ (r.escape <=> after = "flipped") /\ SoFar(r, left, w)
  <2>1. ~ reader.busy /\ whole = w /\ w # <<>> /\ Len(w) <= RxBufferSize
    BY <1>8 DEF LinesInv, Keeps
  <2>2. CASE line.next = "start"
    <3>1. ~ reader.escape
      BY <2>2 DEF LinesInv, EscapesFit
    <3>2. left = <<Len(w), 0>> \o w
      BY <1>3, <2>1, <2>2 DEF LinesInv, Keeps
    <3> QED
      BY <1>1, <1>3, <1>4, <2>1, <2>2, <3>1, <3>2 DEF SoFar
  <2>3. CASE line.next # "start"
    <3>1. /\ reader.started /\ (reader.escape <=> line.next = "flipped") /\ SoFar(reader, line.left, w)
      BY <1>1, <2>1, <2>3 DEF LinesInv, Keeps
    <3>2. CASE Lines!Escapes
      <4>1. ~ reader.escape /\ byte = 11 /\ left = line.left /\ after = "flipped"
        BY <1>3, <3>1, <3>2
      <4> QED
        BY <1>1, <1>4, <2>1, <3>1, <4>1 DEF SoFar
    <3>3. CASE ~ Lines!Escapes
      <4>1. r = Lines!Store(reader, byte) /\ left = Tail(line.left) /\ after = "byte"
        BY <1>3, <1>4, <2>1, <2>3, <3>1, <3>3
      <4>2. Head(line.left) = IF reader.escape THEN Lines!UnFlip(byte) ELSE byte
        BY <1>3, <2>3, <3>1, <3>3
      <4> DEFINE old == line.left
      <4> HIDE DEF old, w, whole
      <4>3. Reading(reader)
        BY DEF LinesInv
      <4>4. old \in Bytes /\ old # <<>> /\ SoFar(reader, old, w) /\ Head(old) = IF reader.escape THEN Lines!UnFlip(byte) ELSE byte
        BY <1>1, <1>5, <3>1, <4>2 DEF old
      <4>5. IF Tail(old) = <<>> THEN r.busy /\ r.buffer = w
            ELSE ~ r.busy /\ r.started /\ ~ r.escape /\ SoFar(r, Tail(old), w)
        BY <1>3, <1>5, <2>1, <3>1, <4>1, <4>3, <4>4, StoredKeeps
      <4> QED
        BY <2>1, <4>1, <4>5 DEF old
    <3> QED
      BY <3>2, <3>3
  <2> QED
    BY <2>2, <2>3
<1>9. Keeps(reader', line')
  <2>1. line'.next = after /\ line'.left = left /\ line'.whole = whole /\ reader' = r
    BY <1>1
  <2>2. after # "start"
    BY <1>5
  <2> HIDE DEF whole
  <2> QED
    BY <1>8, <2>1, <2>2 DEF Keeps
<1>10. Handled'
  <2>1. task' = task /\ reader' = r
    BY <1>1
  <2>2. task \in {"idle", "handling", "rest"} /\ scheduled \in BOOLEAN
        /\ (reader.busy <=> scheduled \/ task # "idle") /\ (scheduled => task = "idle")
        /\ (due # <<>> => task # "rest" /\ reader.busy /\ reader.buffer = due)
    BY DEF LinesInv, Handled
  <2>3. /\ scheduled' \in BOOLEAN /\ (reader'.busy <=> scheduled' \/ task' # "idle")
        /\ scheduled' => task' = "idle"
    <3>1. CASE reader.busy
      <4>1. UNCHANGED scheduled /\ reader' = reader
        BY <1>1, <1>4, <3>1
      <4> QED
        BY <2>1, <2>2, <4>1
    <3>2. CASE ~ reader.busy /\ r.busy
      BY <1>2, <2>1, <2>2, <3>2
    <3>3. CASE ~ reader.busy /\ ~ r.busy
      <4>1. UNCHANGED scheduled
        BY <1>1, <3>3
      <4> QED
        BY <2>1, <2>2, <3>3, <4>1
    <3> QED
      BY <3>1, <3>2, <3>3
  <2>4. due' # <<>> => task' # "rest" /\ reader'.busy /\ reader'.buffer = due'
    <3>1. CASE left = <<>> /\ whole # <<>>
      <4>1. due' = w /\ r.busy /\ r.buffer = w /\ ~ reader.busy
        BY <1>1, <1>8, <3>1
      <4> QED
        BY <2>1, <2>2, <4>1
    <3>2. CASE ~ (left = <<>> /\ whole # <<>>)
      <4>1. due' = due
        BY <1>1, <3>2
      <4> QED
        BY <1>4, <2>1, <2>2, <4>1
    <3> QED
      BY <3>1, <3>2
  <2> QED
    BY <2>1, <2>2, <2>3, <2>4 DEF Handled
<1> QED
  BY <1>1, <1>4, <1>6, <1>7, <1>9, <1>10 DEF LinesInv

LEMMA BeginKeeps ==
  ASSUME ~ CutAfterEscape, LinesInv, NEW message \in Messages, Lines!Begin(message)
  PROVE  LinesInv'
<1> DEFINE whole == IF Len(message) <= RxBufferSize THEN message ELSE <<>>
           left == <<Len(message), 0>> \o message
<1>1. /\ line' = [left |-> left, next |-> "start", escape |-> line.escape, whole |-> whole]
      /\ UNCHANGED <<reader, scheduled, task, due>> /\ (line.left = <<>> \/ ~ line.escape)
  BY DEF Lines!Begin, Lines!OnLine
<1>2. message \in Bytes /\ left \in Bytes /\ whole \in Bytes
  BY LinesAssumption DEF Bytes
<1>3. whole # <<>> => Len(whole) <= RxBufferSize /\ left = <<Len(whole), 0>> \o whole
  OBVIOUS
<1> HIDE DEF left, whole
<1>4. ~ line.escape /\ line.escape \in BOOLEAN
  BY <1>1 DEF LinesInv, EscapesFit, LineType
<1>5. LineType(line')
  BY <1>1, <1>2, <1>4 DEF LineType
<1>6. EscapesFit'
  BY <1>1, <1>4 DEF LinesInv, EscapesFit
<1>7. Keeps(reader', line')
  BY <1>1, <1>3 DEF Keeps
<1> QED
  BY <1>1, <1>5, <1>6, <1>7 DEF LinesInv, Handled

LEMMA LoseKeeps ==
  ASSUME ~ CutAfterEscape, LinesInv, Lines!Lose
  PROVE  LinesInv'
<1> DEFINE left == Lines!LeftAfter
           after == Lines!NextAfter
<1>1. /\ line.left # <<>> /\ ~ (left = <<>> /\ line.escape)
      /\ line' = [left |-> left, next |-> after, whole |-> <<>>, escape |-> line.escape]
      /\ UNCHANGED <<reader, scheduled, task, due>>
  BY DEF Lines!Lose
<1>2. /\ Lines!Escapes => left = line.left /\ after = "flipped" /\ Head(line.left) \in {10, 11}
      /\ ~ Lines!Escapes => after = "byte"
      /\ left = line.left \/ left = Tail(line.left)
  BY <1>1, NextByteIs DEF LinesInv
<1> HIDE DEF left, after
<1>3. left \in Bytes /\ <<>> \in Bytes /\ line.escape \in BOOLEAN /\ after \in {"byte", "flipped"}
  <2>1. line.left \in Bytes /\ Tail(line.left) \in Bytes /\ <<>> \in Bytes /\ line.escape \in BOOLEAN
    BY <1>1, EmptyRest, HeadMoves DEF LinesInv, LineType, Bytes
  <2> QED
    BY <1>2, <2>1
<1>4. LineType(line')
  BY <1>1, <1>3 DEF LineType
<1>5. EscapesFit'
  BY <1>1, <1>2, <1>3 DEF LinesInv, EscapesFit
<1>6. Keeps(reader', line')
  BY <1>1 DEF Keeps
<1> QED
  BY <1>1, <1>4, <1>5, <1>6 DEF LinesInv, Handled

\* While a message is being handled no other is followed.
LEMMA BusyKeepsNone ==
  ASSUME LinesInv, reader.busy, NEW r
  PROVE  Keeps(r, line)
BY DEF LinesInv, Keeps

LEMMA FinishKeeps ==
  ASSUME LinesInv, Lines!Finish
  PROVE  LinesInv'
<1>1. task # "idle" /\ reader.busy /\ ~ scheduled /\ reader.busy \in BOOLEAN /\ ~ reader.escape
  BY DEF Lines!Finish, Lines!Reset, Lines!Unblock, LinesInv, Handled, Reading
<1>2. CASE Lines!Reset("handling", "rest")
  <2>1. /\ task' = "rest" /\ reader' = Lines!Fresh(reader) /\ due' = <<>> /\ UNCHANGED <<scheduled, line>>
    BY <1>1, <1>2 DEF Lines!Reset
  <2>2. /\ DOMAIN reader' = DOMAIN reader /\ reader'.busy = reader.busy
        /\ reader'.started = FALSE /\ reader'.escape = FALSE /\ reader'.toRead = 0 /\ reader'.buffer = <<>>
    BY <2>1, FreshIs DEF LinesInv
  <2>3. Reading(reader')
    BY <2>2, Rested DEF LinesInv
  <2>4. Keeps(reader', line')
    BY <1>1, <2>1, BusyKeepsNone
  <2>5. EscapesFit'
    BY <2>1, <2>2 DEF LinesInv, EscapesFit
  <2>6. Handled'
    BY <1>1, <2>1, <2>2 DEF LinesInv, Handled
  <2> QED
    BY <2>1, <2>3, <2>4, <2>5, <2>6 DEF LinesInv, LineType
<1>3. CASE Lines!Unblock("rest", "idle")
  <2>1. /\ task = "rest" /\ task' = "idle" /\ reader' = [reader EXCEPT !.busy = FALSE]
        /\ UNCHANGED <<scheduled, line, due>>
    BY <1>3 DEF Lines!Unblock
  <2>2. /\ DOMAIN reader' = DOMAIN reader /\ reader'.busy = FALSE /\ reader'.started = reader.started
        /\ reader'.escape = reader.escape /\ reader'.toRead = reader.toRead /\ reader'.buffer = reader.buffer
    BY <2>1 DEF LinesInv, Reading
  <2>3. Reading(reader')
    <3>1. reader'.busy \in BOOLEAN /\ (reader'.escape => reader'.started /\ ~ reader'.busy)
      BY <1>1, <2>2
    <3> QED
      BY <2>2, <3>1 DEF LinesInv, Reading
  <2>4. Keeps(reader', line')
    BY <1>1, <2>1, BusyKeepsNone
  <2>5. EscapesFit'
    BY <1>1, <2>1, <2>2 DEF LinesInv, EscapesFit
  <2>6. Handled'
    <3>1. due = <<>>
      BY <2>1 DEF LinesInv, Handled
    <3> QED
      BY <1>1, <2>1, <2>2, <3>1 DEF LinesInv, Handled
  <2> QED
    BY <2>1, <2>3, <2>4, <2>5, <2>6 DEF LinesInv, LineType
<1> QED
  BY <1>2, <1>3 DEF Lines!Finish

LEMMA LinesNext ==
  ASSUME ~ SchedulerFills, ~ CutAfterEscape, LinesInv, Lines!Next
  PROVE  LinesInv'
<1>1. CASE Lines!HandleMsg
  <2>1. task = "idle" /\ scheduled /\ task' = "handling" /\ scheduled' = FALSE /\ UNCHANGED <<reader, line, due>>
    BY <1>1 DEF Lines!HandleMsg
  <2>2. Handled'
    BY <2>1 DEF LinesInv, Handled
  <2> QED
    BY <2>1, <2>2 DEF LinesInv, EscapesFit
<1> QED
  BY <1>1, BeginKeeps, SendKeeps, LoseKeeps, FinishKeeps DEF Lines!Next

LEMMA LinesStutter == LinesInv /\ UNCHANGED uartVars => LinesInv'
BY DEF uartVars, LinesInv, EscapesFit, Handled

LEMMA LinesHold == LinesInv => Lines!MessageGetsThrough /\ Lines!NeverDeaf
BY DEF LinesInv, Handled, Lines!MessageGetsThrough, Lines!NeverDeaf

-----------------------------------------------------------------------------
(* Behaviours (BehaviourHandler): days and the times of a day.             *)

\* The day and the time of the day, one second later.
LEMMA NextMoment ==
  ASSUME NEW d \in Nat \ {0}, NEW w \in Nat \ {0}, NEW n \in 0 .. d * w - 1,
         NEW m, m = IF n = d * w - 1 THEN 0 ELSE n + 1
  PROVE  /\ m \in 0 .. d * w - 1
         /\ n % d # d - 1 => m % d = (n % d) + 1 /\ m \div d = n \div d
         /\ n % d = d - 1 => m % d = 0 /\ m \div d = ((n \div d) + 1) % w
         /\ n \div d \in 0 .. w - 1 /\ n % d \in 0 .. d - 1
<1> DEFINE t == n % d
           q == n \div d
<1>1. n = d * q + t /\ q \in Int /\ t \in 0 .. d - 1
  BY Parts
<1> HIDE DEF t, q
<1>2. q \in 0 .. w - 1
  <2>1. q >= 0
    <3>1. SUFFICES ASSUME q <= -1 PROVE FALSE
      BY <1>1
    <3>2. d * q <= d * (-1)
      BY <1>1, <3>1
    <3> QED
      BY <1>1, <3>2
  <2>2. q <= w - 1
    <3>1. SUFFICES ASSUME q >= w PROVE FALSE
      BY <1>1
    <3>2. d * q >= d * w
      BY <1>1, <3>1
    <3> QED
      BY <1>1, <3>2
  <2> QED
    BY <1>1, <2>1, <2>2
<1>3. CASE t # d - 1
  <2> DEFINE u == t + 1
  <2>1. n + 1 = d * q + u /\ u \in 0 .. d - 1
    BY <1>1, <1>3
  <2>2. d * q <= d * (w - 1) /\ d * (w - 1) = d * w - d
    BY <1>1, <1>2
  <2>3. n + 1 \in 0 .. d * w - 1 /\ d * w \in Int
    BY <1>1, <2>1, <2>2
  <2>4. m = n + 1
    BY <2>3
  <2>5. m = d * q + u /\ m \in Int
    BY <2>1, <2>4
  <2> HIDE DEF u
  <2>6. m \div d = q /\ m % d = u
    BY <1>1, <2>1, <2>5, Divided
  <2> QED
    BY <1>1, <1>2, <1>3, <2>3, <2>4, <2>6 DEF t, q, u
<1>4. CASE t = d - 1 /\ q # w - 1
  <2> DEFINE p == q + 1
  <2>1. n + 1 = d * p + 0 /\ p \in 0 .. w - 1
    BY <1>1, <1>2, <1>4
  <2>2. d * p <= d * (w - 1) /\ d * (w - 1) = d * w - d
    BY <2>1
  <2>3. n + 1 \in 0 .. d * w - 1 /\ d * w \in Int
    BY <1>1, <2>1, <2>2
  <2>4. m = n + 1
    BY <2>3
  <2>5. m = d * p + 0 /\ m \in Int /\ p \in Int /\ 0 \in 0 .. d - 1
    BY <2>1, <2>4
  <2>6. p % w = p
    BY <2>1
  <2> HIDE DEF p
  <2>7. m \div d = p /\ m % d = 0
    BY <2>5, Divided
  <2> QED
    BY <1>1, <1>2, <1>4, <2>3, <2>4, <2>6, <2>7 DEF t, q, p
<1>5. CASE t = d - 1 /\ q = w - 1
  <2>1. d * (w - 1) = d * w - d
    OBVIOUS
  <2>2. n + 1 = d * w /\ d * w \in Nat \ {0}
    BY <1>1, <1>5, <2>1
  <2>3. m = 0
    BY <2>2
  <2>4. 0 % d = 0 /\ 0 \div d = 0 /\ w % w = 0
    OBVIOUS
  <2> QED
    BY <1>1, <1>2, <1>5, <2>2, <2>3, <2>4 DEF t, q
<1> QED
  BY <1>1, <1>3, <1>4, <1>5

-----------------------------------------------------------------------------
(* A behaviour that waits for users.                                       *)

Behaviours == 1 .. WishSlots
Moments == 0 .. Day * Week - 1
Memory == [seen : Wishes!Ages, extended : BOOLEAN, extensionSeen : Wishes!Ages]

WaitsForUsers(r) == r.kind \in {"switch", "extended"} /\ Wishes!RequiresPresence(r.presence) /\ r.presence.timeout # 0

\* The conditions of a behaviour with an extension are of one kind.
KindsAgree ==
  \A r \in WishRules :
    r.kind = "extended" /\ Wishes!RequiresPresence(r.presence) => Wishes!RequiresPresence(r.extension)

\* Users that were seen at the end of the time of a behaviour are forgotten when
\* it begins again.
Off(r) == IF r.from > r.until THEN r.from - r.until ELSE r.from - r.until + Day
NightsAreLong == \A r \in WishRules : WaitsForUsers(r) => r.presence.timeout <= Off(r)

SinceEnd(r, now) == LET time == now % Day IN IF time >= r.until THEN time - r.until ELSE time - r.until + Day

\* What is remembered of a behaviour, when those in v are valid, it has been for l.
Stays(i, r, m, v, l, now) ==
  /\ r.kind = "extended" => (i \in v <=> m.extended)
  /\ r.kind = "twilight" => i \notin v
  /\ WaitsForUsers(r) =>
       /\ i \in v => m.seen # Wishes!Never /\ l >= m.seen
       /\ i \notin v /\ m.seen # Wishes!Never /\ Wishes!InTime(r, now) => m.seen > r.presence.timeout
       /\ m.seen # Wishes!Never /\ ~ Wishes!InTime(r, now) => m.seen = Cap \/ m.seen >= SinceEnd(r, now) + 1

SecondAfter(now) == IF now = Day * Week - 1 THEN 0 ELSE now + 1

LEMMA Ring ==
  ASSUME NEW k \in Nat \ {0}, NEW n \in 0 .. k - 1
  PROVE  (n + 1) % k = IF n = k - 1 THEN 0 ELSE n + 1
<1>1. CASE n = k - 1
  <2>1. n + 1 = k /\ k % k = 0
    BY <1>1
  <2> QED
    BY <1>1, <2>1
<1>2. CASE n # k - 1
  <2>1. n + 1 \in 0 .. k - 1
    BY <1>2
  <2> QED
    BY <1>2, <2>1
<1> QED
  BY <1>1, <1>2

LEMMA OnceAround ==
  ASSUME NEW k \in Nat \ {0}, NEW n \in 0 .. k - 1
  PROVE  (k + n) % k = n
<1>1. k + n = k * 1 + n /\ k + n \in Int /\ 1 \in Int
  OBVIOUS
<1> DEFINE x == k + n
<1> HIDE DEF x
<1>2. x = k * 1 + n /\ x \in Int => x % k = n
  BY <1>1, Divided
<1> QED
  BY <1>1, <1>2 DEF x

LEMMA WeekLength == Day * Week \in Nat \ {0}
BY WishesAssumption

LEMMA RuleType ==
  ASSUME NEW r \in WishRules
  PROVE  /\ r.kind \in {"switch", "extended", "twilight"} /\ r.value \in 0 .. 100
         /\ r.from \in 0 .. Day - 1 /\ r.until \in 0 .. Day - 1
         /\ r.presence \in Conditions /\ r.extension \in Conditions
         /\ r.presence.timeout \in 0 .. Cap - 1 /\ r.extension.timeout \in 0 .. Cap - 1
BY WishesAssumption DEF Conditions

\* A behaviour begins at its time, and ends at its time.
LEMMA BeginsAndEnds ==
  ASSUME NEW r \in WishRules, NEW now \in Moments, NEW next, next = SecondAfter(now)
  PROVE  /\ next \in Moments
         /\ Wishes!InTime(r, now) /\ ~ Wishes!InTime(r, next) => next % Day = r.until
         /\ ~ Wishes!InTime(r, now) /\ Wishes!InTime(r, next) => next % Day = r.from
         /\ next % Day = IF now % Day = Day - 1 THEN 0 ELSE (now % Day) + 1
         /\ now % Day \in 0 .. Day - 1
<1> DEFINE t == now % Day
           q == now \div Day
           u == next % Day
           p == next \div Day
           y == (q + Week - 1) % Week
           z == (p + Week - 1) % Week
<1>0. Day \in Nat \ {0} /\ Week \in Nat \ {0} /\ r.from \in 0 .. Day - 1 /\ r.until \in 0 .. Day - 1
  BY WishesAssumption, RuleType
<1>1. /\ next \in Moments
      /\ t # Day - 1 => u = t + 1 /\ p = q
      /\ t = Day - 1 => u = 0 /\ p = (q + 1) % Week
      /\ q \in 0 .. Week - 1 /\ t \in 0 .. Day - 1
  <2>1. now \in 0 .. Day * Week - 1 /\ next = IF now = Day * Week - 1 THEN 0 ELSE now + 1
    BY DEF Moments, SecondAfter
  <2> QED
    BY <1>0, <2>1, NextMoment, Zenon DEF Moments
<1>2. t = Day - 1 => z = q
  <2> HIDE DEF t, q, u, p
  <2>1. SUFFICES ASSUME t = Day - 1 PROVE z = q
    OBVIOUS
  <2>2. p = IF q = Week - 1 THEN 0 ELSE q + 1
    BY <1>0, <1>1, <2>1, Ring
  <2>3. CASE q = Week - 1
    <3>1. p + Week - 1 = Week - 1 /\ (Week - 1) % Week = Week - 1
      BY <1>0, <2>2, <2>3
    <3> QED
      BY <2>3, <3>1
  <2>4. CASE q # Week - 1
    <3>1. p + Week - 1 = Week + q
      BY <1>0, <1>1, <2>2, <2>4
    <3>2. (Week + q) % Week = q
      BY <1>0, <1>1, OnceAround
    <3> QED
      BY <3>1, <3>2
  <2> QED
    BY <2>3, <2>4
<1>3. /\ Wishes!InTime(r, now) <=>
           IF r.from >= r.until THEN (t < r.until /\ y \in r.days) \/ (t >= r.from /\ q \in r.days)
           ELSE t >= r.from /\ t < r.until /\ q \in r.days
      /\ Wishes!InTime(r, next) <=>
           IF r.from >= r.until THEN (u < r.until /\ z \in r.days) \/ (u >= r.from /\ p \in r.days)
           ELSE u >= r.from /\ u < r.until /\ p \in r.days
  BY <1>0, <1>1 DEF Wishes!InTime
<1> DEFINE A == Wishes!InTime(r, now)
           B == Wishes!InTime(r, next)
<1>4. t # Day - 1 => z = y
  BY <1>1
<1> HIDE DEF t, q, u, p, y, z, A, B
<1>5. (A /\ ~ B => u = r.until) /\ (~ A /\ B => u = r.from)
  BY <1>0, <1>1, <1>2, <1>3, <1>4 DEF A, B
<1> QED
  BY <1>1, <1>5 DEF t, u, A, B

LEMMA ConditionIs ==
  ASSUME NEW c \in Conditions, NEW where
  PROVE  /\ Wishes!IsTrue(c, where) \in BOOLEAN /\ Wishes!RequiresPresence(c) \in BOOLEAN
         /\ Wishes!RequiresAbsence(c) \in BOOLEAN
         /\ Wishes!RequiresPresence(c) => ~ Wishes!RequiresAbsence(c) /\ c.condition # "always"
<1>1. c.condition \in {"always", "anyoneInRooms", "nooneInRooms", "anyoneInSphere", "nooneInSphere"}
  BY DEF Conditions
<1>2. Wishes!IsTrue(c, where) \in BOOLEAN
  <2>1. CASE c.condition = "always"
    BY <2>1 DEF Wishes!IsTrue
  <2>2. CASE c.condition = "anyoneInRooms"
    BY <2>2 DEF Wishes!IsTrue
  <2>3. CASE c.condition = "nooneInRooms"
    BY <2>3 DEF Wishes!IsTrue
  <2>4. CASE c.condition = "anyoneInSphere"
    BY <2>4 DEF Wishes!IsTrue
  <2>5. CASE c.condition = "nooneInSphere"
    BY <2>5 DEF Wishes!IsTrue
  <2> QED
    BY <1>1, <2>1, <2>2, <2>3, <2>4, <2>5
<1> QED
  BY <1>1, <1>2 DEF Wishes!RequiresPresence, Wishes!RequiresAbsence

LEMMA CapIs == Cap \in Nat /\ Wishes!Never = -1 /\ Wishes!Ages = -1 .. Cap
BY WishesAssumption DEF Wishes!Never, Wishes!Ages

LEMMA MemoryIs ==
  ASSUME NEW m \in Memory
  PROVE  /\ m.seen \in Wishes!Ages /\ m.extended \in BOOLEAN /\ m.extensionSeen \in Wishes!Ages
         /\ DOMAIN m = {"seen", "extended", "extensionSeen"}
BY DEF Memory

LEMMA SeenIs ==
  ASSUME NEW r \in WishRules, NEW m \in Memory, NEW where
  PROVE  LET saw == Wishes!Seen(r, m, where)
         IN saw \in {0, m.seen, Wishes!Never} /\ saw \in Wishes!Ages
BY MemoryIs, CapIs DEF Wishes!Seen

LEMMA KeptIs ==
  ASSUME NEW r \in WishRules, NEW m \in Memory, NEW saw \in Wishes!Ages,
         NEW k, k = Wishes!AfterPresence(r, m, saw)
  PROVE  /\ k \in Memory /\ k.extended = m.extended /\ k.extensionSeen = m.extensionSeen
         /\ k.seen = IF Wishes!RequiredCondition(r, m).condition = "always" THEN m.seen ELSE saw
<1>1. CASE Wishes!RequiredCondition(r, m).condition = "always"
  BY <1>1 DEF Wishes!AfterPresence
<1>2. CASE Wishes!RequiredCondition(r, m).condition # "always"
  <2>1. k = [m EXCEPT !.seen = saw]
    BY <1>2 DEF Wishes!AfterPresence
  <2> QED
    BY <1>2, <2>1 DEF Memory
<1> QED
  BY <1>1, <1>2

LEMMA LateIs ==
  ASSUME NEW r \in WishRules, NEW m \in Memory, NEW where, NEW after, after = Wishes!AfterTime(r, m, where)
  PROVE  after \in Memory /\ after.seen = m.seen /\ (after.extended => m.extended)
<1> DEFINE stays == Wishes!StaysExtended(r, m, where)
           sight == IF Wishes!IsTrue(r.extension, where) THEN 0 ELSE m.extensionSeen
<1>1. stays => m.extended
  BY DEF Wishes!StaysExtended
<1>2. sight \in Wishes!Ages /\ Wishes!Never \in Wishes!Ages
  BY MemoryIs, CapIs
<1>3. after = IF ~ stays THEN IF m.extended THEN [m EXCEPT !.extended = FALSE, !.extensionSeen = Wishes!Never] ELSE m
             ELSE [m EXCEPT !.extended = TRUE, !.extensionSeen = sight]
  BY DEF Wishes!AfterTime
<1> HIDE DEF stays, sight
<1>4. CASE stays
  <2>1. after = [m EXCEPT !.extended = TRUE, !.extensionSeen = sight]
    BY <1>3, <1>4
  <2> QED
    BY <1>1, <1>2, <1>4, <2>1 DEF Memory
<1>5. CASE ~ stays /\ m.extended
  <2>1. after = [m EXCEPT !.extended = FALSE, !.extensionSeen = Wishes!Never]
    BY <1>3, <1>5
  <2> QED
    BY <1>2, <1>5, <2>1 DEF Memory
<1>6. CASE ~ stays /\ ~ m.extended
  BY <1>3, <1>6
<1> QED
  BY <1>4, <1>5, <1>6

\* What isValid() does to what is remembered.
LEMMA ValidateIs ==
  ASSUME NEW r \in WishRules, NEW m \in Memory, NEW now \in Moments, NEW where,
         NEW check, check = Wishes!Validate(r, m, now, where)
  PROVE  /\ check.memory \in Memory /\ check.valid \in BOOLEAN
         /\ r.kind = "twilight" => ~ check.valid
         /\ r.kind = "extended" => check.valid = check.memory.extended
         /\ r.kind = "extended" /\ check.valid /\ ~ Wishes!InTime(r, now) => m.extended
         /\ r.kind = "switch" /\ check.valid => Wishes!InTime(r, now)
         /\ ~ Wishes!InTime(r, now) => check.memory.seen = m.seen
<1> DEFINE in == Wishes!InTime(r, now)
           saw == Wishes!Seen(r, m, where)
           ok == Wishes!PresenceIsValid(r, m, saw)
           keeps == Wishes!AfterPresence(r, m, saw)
           after == Wishes!AfterTime(r, m, where)
<1>1. keeps \in Memory
  BY SeenIs, KeptIs
<1>2. after \in Memory /\ after.seen = m.seen /\ (after.extended => m.extended)
  BY LateIs
<1>3. ok \in BOOLEAN
  BY DEF Wishes!PresenceIsValid
<1>4. r.kind \in {"switch", "extended", "twilight"}
  BY RuleType
<1>5. check = CASE r.kind = "switch" /\ in -> [memory |-> keeps, valid |-> ok]
                [] r.kind = "extended" /\ in -> [memory |-> [keeps EXCEPT !.extended = ok], valid |-> ok]
                [] r.kind = "extended" /\ ~ in -> [memory |-> after, valid |-> after.extended]
                [] OTHER -> [memory |-> m, valid |-> FALSE]
  BY DEF Wishes!Validate
<1> HIDE DEF in, saw, ok, keeps, after
<1>6. CASE r.kind = "switch" /\ in
  <2>1. check = [memory |-> keeps, valid |-> ok]
    BY <1>5, <1>6
  <2> QED
    BY <1>1, <1>3, <1>6, <2>1 DEF in
<1>7. CASE r.kind = "extended" /\ in
  <2> DEFINE k == [keeps EXCEPT !.extended = ok]
  <2>1. k \in Memory /\ k.extended = ok
    BY <1>1, <1>3 DEF Memory
  <2>2. check = [memory |-> k, valid |-> ok]
    BY <1>5, <1>7
  <2> HIDE DEF k
  <2> QED
    BY <1>3, <1>7, <2>1, <2>2 DEF in
<1>8. CASE r.kind = "extended" /\ ~ in
  <2>1. check = [memory |-> after, valid |-> after.extended]
    BY <1>5, <1>8
  <2> QED
    BY <1>2, <1>8, <2>1, MemoryIs
<1>9. CASE (r.kind = "switch" /\ ~ in) \/ r.kind = "twilight"
  <2>1. check = [memory |-> m, valid |-> FALSE]
    BY <1>5, <1>9
  <2> QED
    <3>1. check.memory = m /\ check.valid = FALSE /\ r.kind # "extended"
      BY <1>9, <2>1
    <3>2. check.memory \in Memory /\ check.memory.seen = m.seen /\ ~ check.valid /\ check.valid \in BOOLEAN
      BY <3>1
    <3> QED
      BY <3>1, <3>2
<1> QED
  BY <1>4, <1>6, <1>7, <1>8, <1>9

\* One that waits for users remembers when it saw them, and is valid if it does.
LEMMA WaitingIs ==
  ASSUME KindsAgree, NEW r \in WishRules, WaitsForUsers(r), NEW m \in Memory, NEW now \in Moments, NEW where,
         Wishes!InTime(r, now), NEW check, check = Wishes!Validate(r, m, now, where)
  PROVE  /\ check.valid <=> check.memory.seen # Wishes!Never
         /\ \/ check.memory.seen = 0
            \/ check.memory.seen = m.seen /\ m.seen # Wishes!Never /\ m.seen <= r.presence.timeout
            \/ check.memory.seen = Wishes!Never /\ (m.seen = Wishes!Never \/ m.seen > r.presence.timeout)
<1> DEFINE saw == Wishes!Seen(r, m, where)
           ok == Wishes!PresenceIsValid(r, m, saw)
           keeps == Wishes!AfterPresence(r, m, saw)
           c == Wishes!RequiredCondition(r, m)
           true == Wishes!IsTrue(r.presence, where)
<1>1. r.presence \in Conditions /\ r.extension \in Conditions /\ r.presence.timeout \in Nat
  BY RuleType, CapIs
<1>2. c \in Conditions /\ Wishes!RequiresPresence(c)
  BY <1>1 DEF KindsAgree, WaitsForUsers, Wishes!RequiredCondition
<1>3. ~ Wishes!RequiresAbsence(c) /\ c.condition # "always" /\ true \in BOOLEAN
  BY <1>1, <1>2, ConditionIs
<1>4. m.seen \in -1 .. Cap /\ saw \in Wishes!Ages
  BY MemoryIs, SeenIs, CapIs
<1>5. saw = LET sight == IF true THEN 0 ELSE m.seen
             IN IF sight # Wishes!Never /\ Wishes!IntervalClosureContains(sight, r.presence.timeout) THEN sight ELSE Wishes!Never
  <2>1. (Wishes!RequiresAbsence(c) # true) = true
    BY <1>3, ConditionIs, <1>2
  <2> QED
    BY <2>1 DEF Wishes!Seen
<1>6. \/ saw = 0
      \/ saw = m.seen /\ m.seen # Wishes!Never /\ m.seen <= r.presence.timeout
      \/ saw = Wishes!Never /\ (m.seen = Wishes!Never \/ m.seen > r.presence.timeout)
  <2> HIDE DEF saw, true
  <2>1. \A age \in -1 .. Cap : Wishes!IntervalClosureContains(age, r.presence.timeout) <=> age <= r.presence.timeout
    BY <1>1 DEF Wishes!IntervalClosureContains, WaitsForUsers
  <2>2. CASE true
    <3>1. Wishes!IntervalClosureContains(0, r.presence.timeout)
      BY <1>1, <2>1, CapIs
    <3> QED
      BY <1>5, <2>2, <3>1, CapIs
  <2>3. CASE ~ true
    <3>1. saw = IF m.seen # Wishes!Never /\ m.seen <= r.presence.timeout THEN m.seen ELSE Wishes!Never
      BY <1>4, <1>5, <2>1, <2>3
    <3> QED
      BY <1>1, <1>4, <3>1, CapIs
  <2> QED
    BY <2>2, <2>3
<1>7. ok <=> saw # Wishes!Never
  BY <1>2, <1>3 DEF Wishes!PresenceIsValid
<1>8. keeps \in Memory /\ keeps.seen = saw
  BY <1>3, <1>4, KeptIs
<1>9. check.valid = ok /\ check.memory.seen = saw
  <2>1. check = IF r.kind = "switch" THEN [memory |-> keeps, valid |-> ok]
                ELSE [memory |-> [keeps EXCEPT !.extended = ok], valid |-> ok]
    BY DEF Wishes!Validate, WaitsForUsers
  <2> HIDE DEF keeps, ok, saw
  <2> QED
    BY <1>8, <2>1 DEF Memory
<1> HIDE DEF saw, ok
<1> QED
  BY <1>6, <1>7, <1>9

LEMMA OlderIs ==
  ASSUME NEW age \in Wishes!Ages
  PROVE  Wishes!Older(age) \in Wishes!Ages /\ Wishes!Older(age) = IF age \in {-1, Cap} THEN age ELSE age + 1
BY CapIs DEF Wishes!Older

\* One who waits does so one second longer.
LEMMA AgeKeeps ==
  ASSUME NightsAreLong, NEW r \in WishRules, NEW m \in Memory, NEW now \in Moments, NEW next, next = SecondAfter(now),
         NEW i, NEW v, NEW l \in 0 .. Cap, Stays(i, r, m, v, l, now),
         NEW a \in Memory, a.seen = Wishes!Older(m.seen), a.extended = m.extended,
         NEW k \in 0 .. Cap, k = IF l = Cap THEN Cap ELSE l + 1
  PROVE  Stays(i, r, a, v, k, next)
<1>1. /\ m.seen \in -1 .. Cap /\ a.seen = IF m.seen \in {-1, Cap} THEN m.seen ELSE m.seen + 1
      /\ Wishes!Never = -1 /\ Cap \in Nat
  BY MemoryIs, OlderIs, CapIs
<1>2. SUFFICES ASSUME WaitsForUsers(r)
      PROVE  /\ i \in v => a.seen # -1 /\ k >= a.seen
             /\ i \notin v /\ a.seen # -1 /\ Wishes!InTime(r, next) => a.seen > r.presence.timeout
             /\ a.seen # -1 /\ ~ Wishes!InTime(r, next) => a.seen = Cap \/ a.seen >= SinceEnd(r, next) + 1
  BY <1>1 DEF Stays
<1>3. /\ i \in v => m.seen # -1 /\ l >= m.seen
      /\ i \notin v /\ m.seen # -1 /\ Wishes!InTime(r, now) => m.seen > r.presence.timeout
      /\ m.seen # -1 /\ ~ Wishes!InTime(r, now) => m.seen = Cap \/ m.seen >= SinceEnd(r, now) + 1
  BY <1>1, <1>2 DEF Stays
<1>4. r.presence.timeout \in 0 .. Cap - 1 /\ r.presence.timeout <= Off(r)
  BY <1>2, RuleType DEF NightsAreLong
<1>5. Day \in Nat \ {0} /\ r.from \in 0 .. Day - 1 /\ r.until \in 0 .. Day - 1
  BY WishesAssumption, RuleType
<1> DEFINE t == now % Day
           u == next % Day
<1>6. /\ Wishes!InTime(r, now) /\ ~ Wishes!InTime(r, next) => u = r.until
      /\ ~ Wishes!InTime(r, now) /\ Wishes!InTime(r, next) => u = r.from
      /\ u = IF t = Day - 1 THEN 0 ELSE t + 1
      /\ t \in 0 .. Day - 1
  BY BeginsAndEnds
<1>7. /\ SinceEnd(r, now) = IF t >= r.until THEN t - r.until ELSE t - r.until + Day
      /\ SinceEnd(r, next) = IF u >= r.until THEN u - r.until ELSE u - r.until + Day
  BY DEF SinceEnd
<1> HIDE DEF t, u
<1>8. i \in v => a.seen # -1 /\ k >= a.seen
  BY <1>1, <1>3
<1>9. ASSUME i \notin v, a.seen # -1, Wishes!InTime(r, next) PROVE a.seen > r.presence.timeout
  <2>1. CASE Wishes!InTime(r, now)
    BY <1>1, <1>3, <1>4, <1>9, <2>1
  <2>2. CASE ~ Wishes!InTime(r, now)
    <3>1. u = r.from /\ m.seen # -1 /\ (m.seen = Cap \/ m.seen >= SinceEnd(r, now) + 1)
      BY <1>1, <1>3, <1>6, <1>9, <2>2
    <3>2. SinceEnd(r, now) + 1 = Off(r) /\ Off(r) \in Int
      BY <1>5, <1>6, <1>7, <3>1 DEF Off
    <3> QED
      BY <1>1, <1>4, <3>1, <3>2
  <2> QED
    BY <2>1, <2>2
<1>10. ASSUME a.seen # -1, ~ Wishes!InTime(r, next) PROVE a.seen = Cap \/ a.seen >= SinceEnd(r, next) + 1
  <2>1. CASE Wishes!InTime(r, now)
    <3>1. SinceEnd(r, next) = 0
      BY <1>5, <1>6, <1>7, <1>10, <2>1
    <3> QED
      BY <1>1, <1>10, <3>1
  <2>2. CASE ~ Wishes!InTime(r, now)
    <3>1. SinceEnd(r, next) \in 0 .. SinceEnd(r, now) + 1 /\ SinceEnd(r, now) \in Nat
      BY <1>5, <1>6, <1>7
    <3>2. m.seen = Cap \/ m.seen >= SinceEnd(r, now) + 1
      BY <1>1, <1>3, <1>10, <2>2
    <3> QED
      BY <1>1, <1>10, <3>1, <3>2
  <2> QED
    BY <2>1, <2>2
<1> QED
  BY <1>8, <1>9, <1>10

\* A look at one.
LEMMA LookKeeps ==
  ASSUME KindsAgree, NEW r \in WishRules, NEW m \in Memory, NEW now \in Moments, NEW where,
         NEW check, check = Wishes!Validate(r, m, now, where),
         NEW i, NEW v, NEW l \in 0 .. Cap, Stays(i, r, m, v, l, now),
         NEW w, i \in w <=> check.valid, NEW k \in 0 .. Cap, i \in v /\ i \in w => k >= l
  PROVE  /\ Stays(i, r, check.memory, w, k, now)
         /\ i \notin v /\ i \in w => Wishes!InTime(r, now)
         /\ i \in v /\ i \notin w /\ WaitsForUsers(r) /\ Wishes!InTime(r, now) => l > r.presence.timeout
<1> DEFINE c == check.memory
<1>1. /\ m.seen \in -1 .. Cap /\ c.seen \in -1 .. Cap /\ Wishes!Never = -1 /\ Cap \in Nat
      /\ r.presence.timeout \in 0 .. Cap - 1 /\ r.kind \in {"switch", "extended", "twilight"}
  BY MemoryIs, ValidateIs, CapIs, RuleType
<1>2. /\ r.kind = "twilight" => ~ check.valid
      /\ r.kind = "extended" => check.valid = c.extended
      /\ r.kind = "extended" /\ check.valid /\ ~ Wishes!InTime(r, now) => m.extended
      /\ r.kind = "switch" /\ check.valid => Wishes!InTime(r, now)
      /\ ~ Wishes!InTime(r, now) => c.seen = m.seen
  BY ValidateIs
<1>3. WaitsForUsers(r) /\ Wishes!InTime(r, now) =>
         /\ check.valid <=> c.seen # -1
         /\ \/ c.seen = 0
            \/ c.seen = m.seen /\ m.seen # -1 /\ m.seen <= r.presence.timeout
            \/ c.seen = -1 /\ (m.seen = -1 \/ m.seen > r.presence.timeout)
  BY <1>1, WaitingIs
<1> HIDE DEF c
<1>4. /\ r.kind = "extended" => (i \in v <=> m.extended)
      /\ r.kind = "twilight" => i \notin v
      /\ WaitsForUsers(r) =>
           /\ i \in v => m.seen # -1 /\ l >= m.seen
           /\ i \notin v /\ m.seen # -1 /\ Wishes!InTime(r, now) => m.seen > r.presence.timeout
           /\ m.seen # -1 /\ ~ Wishes!InTime(r, now) => m.seen = Cap \/ m.seen >= SinceEnd(r, now) + 1
  BY <1>1 DEF Stays
<1>5. i \notin v /\ i \in w => Wishes!InTime(r, now)
  BY <1>1, <1>2, <1>4
<1>6. ASSUME i \in v, i \notin w, WaitsForUsers(r), Wishes!InTime(r, now) PROVE l > r.presence.timeout
  BY <1>1, <1>3, <1>4, <1>6
<1>7. ASSUME WaitsForUsers(r), i \in w PROVE c.seen # -1 /\ k >= c.seen
  <2>1. CASE Wishes!InTime(r, now)
    BY <1>1, <1>3, <1>4, <1>7, <2>1
  <2>2. CASE ~ Wishes!InTime(r, now)
    BY <1>1, <1>2, <1>4, <1>5, <1>7, <2>2
  <2> QED
    BY <2>1, <2>2
<1>8. WaitsForUsers(r) =>
        /\ i \notin w /\ c.seen # -1 /\ Wishes!InTime(r, now) => c.seen > r.presence.timeout
        /\ c.seen # -1 /\ ~ Wishes!InTime(r, now) => c.seen = Cap \/ c.seen >= SinceEnd(r, now) + 1
  BY <1>2, <1>3, <1>4
<1>9. Stays(i, r, c, w, k, now)
  BY <1>1, <1>2, <1>7, <1>8 DEF Stays
<1> QED
  BY <1>5, <1>6, <1>9 DEF c

-----------------------------------------------------------------------------
(* Which behaviour wins.                                                   *)

\* The winner among the first n.
Better(candidates, beats, n, before) ==
  IF n \in candidates /\ (before = 0 \/ <<n, before>> \in beats) THEN n ELSE before
Best(f, candidates, beats, n) ==
  f = [k \in 0 .. n |-> IF k = 0 THEN 0 ELSE Better(candidates, beats, k, f[k - 1])]

LEMMA BestExists ==
  ASSUME NEW candidates, NEW beats
  PROVE  \A n \in Nat : \E f : Best(f, candidates, beats, n)
<1> DEFINE none == {n \in Nat : ~ \E f : Best(f, candidates, beats, n)}
           Then(k, before) == Better(candidates, beats, k, before)
<1>1. SUFFICES ASSUME none # {} PROVE FALSE
  OBVIOUS
<1>2. PICK n \in none : \A m \in none : n <= m
  <2>1. none \in SUBSET Nat
    OBVIOUS
  <2> HIDE DEF none
  <2> QED
    BY <1>1, <2>1, Smallest
<1>3. n \in Nat /\ ~ \E f : Best(f, candidates, beats, n)
  OBVIOUS
<1>4. CASE n = 0
  <2>1. Best([k \in 0 .. 0 |-> 0], candidates, beats, 0)
    BY DEF Best
  <2> QED
    BY <1>3, <1>4, <2>1
<1>5. CASE n # 0
  <2>1. n - 1 \in Nat /\ n - 1 \notin none
    BY <1>2, <1>3, <1>5
  <2>2. PICK f : Best(f, candidates, beats, n - 1)
    BY <2>1
  <2> DEFINE g == [k \in 0 .. n |-> IF k = n THEN Then(n, f[n - 1]) ELSE f[k]]
  <2>3. ASSUME NEW k \in 0 .. n
        PROVE  g[k] = IF k = 0 THEN 0 ELSE Then(k, g[k - 1])
    <3> HIDE DEF Then
    <3>1. CASE k = n
      BY <1>3, <1>5, <3>1
    <3>2. CASE k # n
      <4>1. k \in 0 .. n - 1 /\ g[k] = f[k]
        BY <1>3, <3>2
      <4>2. k # 0 => k - 1 \in 0 .. n /\ k - 1 # n /\ g[k - 1] = f[k - 1]
        BY <1>3, <3>2
      <4>3. f[k] = IF k = 0 THEN 0 ELSE Then(k, f[k - 1])
        BY <2>2, <4>1 DEF Best, Then
      <4> QED
        BY <4>1, <4>2, <4>3
    <3> QED
      BY <3>1, <3>2
  <2>4. g = [k \in 0 .. n |-> g[k]]
    OBVIOUS
  <2> HIDE DEF g
  <2>5. Best(g, candidates, beats, n)
    BY <2>3, <2>4 DEF Best
  <2> QED
    BY <1>3, <2>5
<1> QED
  BY <1>4, <1>5

LEMMA WinnerIsLast ==
  ASSUME NEW candidates, NEW beats
  PROVE  \E f : Best(f, candidates, beats, WishSlots) /\ Wishes!Winner(candidates, beats) = f[WishSlots]
<1> DEFINE T == CHOOSE f : Best(f, candidates, beats, WishSlots)
<1>1. Wishes!Winner(candidates, beats) = T[WishSlots]
  BY DEF Wishes!Winner, Best, Better
<1>2. WishSlots \in Nat
  BY WishesAssumption
<1>3. Best(T, candidates, beats, WishSlots)
  BY <1>2, BestExists
<1> QED
  BY <1>1, <1>3

\* The winner is one of the candidates, and none of them beats it.
LEMMA WinnerIs ==
  ASSUME NEW candidates \in SUBSET Behaviours, NEW beats, NEW w, w = Wishes!Winner(candidates, beats)
  PROVE  /\ w \in candidates \cup {0} /\ (candidates # {} => w # 0)
         /\ (\A i, j, k \in candidates : <<k, i>> \in beats /\ <<i, j>> \in beats => <<k, j>> \in beats)
              /\ (\A i \in candidates : <<i, i>> \notin beats) =>
              \A j \in candidates : <<j, w>> \notin beats
<1> DEFINE Ordered == /\ \A i, j, k \in candidates : <<k, i>> \in beats /\ <<i, j>> \in beats => <<k, j>> \in beats
                      /\ \A i \in candidates : <<i, i>> \notin beats
           Good(n, x) == /\ x \in candidates \cup {0} /\ (\A j \in candidates : j <= n => x # 0)
                         /\ Ordered /\ x # 0 => \A j \in candidates : j <= n => <<j, x>> \notin beats
<1>1. WishSlots \in Nat
  BY WishesAssumption
<1>2. PICK f : Best(f, candidates, beats, WishSlots) /\ w = f[WishSlots]
  BY WinnerIsLast
<1>3. /\ f[0] = 0
      /\ \A n \in 1 .. WishSlots : f[n] = Better(candidates, beats, n, f[n - 1])
  BY <1>1, <1>2 DEF Best
<1> HIDE DEF Ordered
<1>4. ASSUME NEW n \in 1 .. WishSlots, Good(n - 1, f[n - 1]) PROVE Good(n, f[n])
  <2> DEFINE x == f[n - 1]
             y == f[n]
  <2>1. y = IF n \in candidates /\ (x = 0 \/ <<n, x>> \in beats) THEN n ELSE x
    BY <1>3 DEF Better
  <2>2. Good(n - 1, x)
    BY <1>4
  <2>3. \A j \in candidates : j \in Nat /\ (j <= n => j = n \/ j <= n - 1)
    BY <1>1 DEF Behaviours
  <2> HIDE DEF x, y
  <2>4. CASE n \in candidates /\ x = 0
    <3>1. y = n /\ n # 0
      BY <2>1, <2>4
    <3>2. \A j \in candidates : j <= n => j = n
      BY <2>2, <2>3, <2>4
    <3>3. Ordered => <<n, n>> \notin beats
      BY <2>4 DEF Ordered
    <3> QED
      BY <2>4, <3>1, <3>2, <3>3 DEF y
  <2>5. CASE n \in candidates /\ x # 0 /\ <<n, x>> \in beats
    <3>1. y = n /\ n # 0 /\ x \in candidates
      BY <2>1, <2>2, <2>5
    <3>2. ASSUME Ordered, NEW j \in candidates, j <= n PROVE <<j, n>> \notin beats
      <4>1. CASE j = n
        BY <3>2, <4>1 DEF Ordered
      <4>2. CASE j # n
        <5>1. <<j, x>> \notin beats
          BY <2>2, <2>3, <2>5, <3>2, <4>2
        <5> QED
          BY <2>5, <3>1, <3>2, <5>1 DEF Ordered
      <4> QED
        BY <4>1, <4>2
    <3> QED
      BY <2>5, <3>1, <3>2 DEF y
  <2>6. CASE n \notin candidates \/ (x # 0 /\ <<n, x>> \notin beats)
    <3>1. y = x
      BY <2>1, <2>6
    <3>2. ASSUME NEW j \in candidates, j <= n PROVE x # 0 /\ (Ordered => <<j, x>> \notin beats)
      BY <2>2, <2>3, <2>6, <3>2
    <3> QED
      BY <2>2, <3>1, <3>2 DEF y
  <2> QED
    BY <2>4, <2>5, <2>6
<1> HIDE DEF Good
<1>5. Good(0, f[0])
  BY <1>3 DEF Good, Behaviours
<1>6. \A n \in 0 .. WishSlots : Good(n, f[n])
  <2> DEFINE bad == {n \in 0 .. WishSlots : ~ Good(n, f[n])}
  <2>1. SUFFICES ASSUME bad # {} PROVE FALSE
    OBVIOUS
  <2>2. PICK n \in bad : \A m \in bad : n <= m
    <3>1. bad \in SUBSET Nat
      BY <1>1
    <3> HIDE DEF bad
    <3> QED
      BY <2>1, <3>1, Smallest
  <2>3. n \in 1 .. WishSlots /\ n - 1 \in 0 .. WishSlots /\ n - 1 \notin bad
    BY <1>1, <1>5, <2>2
  <2> QED
    BY <1>4, <2>2, <2>3
<1>7. Good(WishSlots, w)
  BY <1>1, <1>2, <1>6
<1>8. \A j \in candidates : j <= WishSlots
  BY <1>1 DEF Behaviours
<1> QED
  BY <1>7, <1>8 DEF Good, Ordered

\* numberOfRooms() counts all of them.
RoomsAreCounted == \A r \in WishRules : r.presence.rooms \subseteq CountedRooms

NumRooms(r) == IF Wishes!IsRoomBased(r.presence) THEN Cardinality(r.presence.rooms) ELSE 0
Since(r, now) == (now - r.from) % Day
ByTime(r, s, now) ==
  \/ Since(r, now) < Since(s, now)
  \/ /\ Since(r, now) = Since(s, now)
     /\ \/ Wishes!Normalized(r.until, now) < Wishes!Normalized(s.until, now)
        \/ Wishes!Normalized(r.until, now) = Wishes!Normalized(s.until, now) /\ r.value < s.value
ByPresence(r, s, now) ==
  LET R(x) == Wishes!Relevance[x.presence.condition]
  IN \/ R(r) > R(s)
     \/ R(r) = R(s) /\ (NumRooms(r) > NumRooms(s) \/ (NumRooms(r) = NumRooms(s) /\ ByTime(r, s, now)))

LEMMA RankTypes ==
  ASSUME NEW r \in WishRules, NEW now \in Moments
  PROVE  /\ NumRooms(r) \in Nat /\ Since(r, now) \in 0 .. Day - 1
         /\ Wishes!Normalized(r.until, now) \in 0 .. Day - 1 /\ r.value \in Int
         /\ Wishes!Relevance[r.presence.condition] \in Nat
         /\ Cardinality(r.presence.rooms) \in Nat
<1>1. r.presence \in Conditions /\ r.from \in 0 .. Day - 1 /\ r.until \in 0 .. Day - 1 /\ r.value \in Int
  BY RuleType
<1>2. Day \in Nat \ {0} /\ now \in Int
  BY WishesAssumption, WeekLength DEF Moments
<1>3. IsFiniteSet(r.presence.rooms)
  BY <1>1, WishesAssumption, FS_Subset DEF Conditions
<1>4. Cardinality(r.presence.rooms) \in Nat
  BY <1>3, FS_CardinalityType
<1>5. NumRooms(r) \in Nat
  BY <1>4 DEF NumRooms
<1>6. Since(r, now) \in 0 .. Day - 1 /\ Wishes!Normalized(r.until, now) \in 0 .. Day - 1
  BY <1>1, <1>2 DEF Since, Wishes!Normalized
<1>7. Wishes!Relevance[r.presence.condition] \in Nat
  BY <1>1 DEF Conditions, Wishes!Relevance
<1> QED
  BY <1>1, <1>4, <1>5, <1>6, <1>7

\* An instance counts as the module does.
LEMMA WishesCount == \A S : Wishes!Cardinality(S) = Cardinality(S)
BY DEF Wishes!Cardinality, Cardinality

\* The order of the ranks.
LEMMA AboveIs ==
  ASSUME NEW r \in WishRules, NEW s \in WishRules, clock.now \in Moments
  PROVE  /\ Wishes!Above(Wishes!TwilightRank(r), Wishes!TwilightRank(s)) => ByTime(r, s, clock.now)
         /\ Wishes!Above(Wishes!Rank(r), Wishes!Rank(s)) => ByPresence(r, s, clock.now)
<1> DEFINE P(x) == Wishes!Relevance[x.presence.condition]
           S(x) == Since(x, clock.now)
           U(x) == Wishes!Normalized(x.until, clock.now)
<1>1. \A x \in {r, s} : NumRooms(x) \in Nat /\ S(x) \in Int /\ U(x) \in Int /\ x.value \in Int /\ P(x) \in Nat
  BY RankTypes
<1>2. \A x \in {r, s} : /\ Wishes!TwilightRank(x) = <<- S(x), - U(x), - x.value>>
                       /\ Wishes!Rank(x) = <<P(x), NumRooms(x), - S(x), - U(x), - x.value>>
  <2>1. ASSUME NEW x \in {r, s}
        PROVE  /\ Wishes!TwilightRank(x) = <<- S(x), - U(x), - x.value>>
               /\ Wishes!Rank(x) = <<P(x), NumRooms(x), - S(x), - U(x), - x.value>>
    <3>1. Wishes!SinceStart(x) = S(x)
      BY DEF Wishes!SinceStart, Since
    <3>2. Wishes!TwilightRank(x) = <<- Wishes!SinceStart(x), - U(x), - x.value>>
      BY DEF Wishes!TwilightRank
    <3>3. Wishes!Rank(x) = <<P(x), NumRooms(x), - Wishes!SinceStart(x), - U(x), - x.value>>
      BY WishesCount, Zenon DEF Wishes!Rank, NumRooms
    <3> QED
      BY <3>1, <3>2, <3>3
  <2> QED
    BY <2>1
<1> HIDE DEF P, S, U
<1>3. ASSUME Wishes!Above(Wishes!TwilightRank(r), Wishes!TwilightRank(s)) PROVE ByTime(r, s, clock.now)
  <2> DEFINE a == Wishes!TwilightRank(r)
             b == Wishes!TwilightRank(s)
  <2>1. PICK k \in DOMAIN a : a[k] > b[k] /\ \A j \in 1 .. k - 1 : a[j] = b[j]
    BY <1>3 DEF Wishes!Above
  <2>2. /\ DOMAIN a = 1 .. 3 /\ a[1] = - S(r) /\ a[2] = - U(r) /\ a[3] = - r.value
        /\ b[1] = - S(s) /\ b[2] = - U(s) /\ b[3] = - s.value
    BY <1>2
  <2> HIDE DEF a, b
  <2>3. k = 1 \/ (k = 2 /\ a[1] = b[1]) \/ (k = 3 /\ a[1] = b[1] /\ a[2] = b[2])
    BY <2>1, <2>2
  <2>4. S(r) < S(s) \/ (S(r) = S(s) /\ (U(r) < U(s) \/ (U(r) = U(s) /\ r.value < s.value)))
    BY <1>1, <2>1, <2>2, <2>3
  <2> QED
    BY <2>4 DEF ByTime, S, U
<1>4. ASSUME Wishes!Above(Wishes!Rank(r), Wishes!Rank(s)) PROVE ByPresence(r, s, clock.now)
  <2> DEFINE a == Wishes!Rank(r)
             b == Wishes!Rank(s)
  <2>1. PICK k \in DOMAIN a : a[k] > b[k] /\ \A j \in 1 .. k - 1 : a[j] = b[j]
    BY <1>4 DEF Wishes!Above
  <2>2. /\ DOMAIN a = 1 .. 5
        /\ a[1] = P(r) /\ a[2] = NumRooms(r) /\ a[3] = - S(r) /\ a[4] = - U(r) /\ a[5] = - r.value
        /\ b[1] = P(s) /\ b[2] = NumRooms(s) /\ b[3] = - S(s) /\ b[4] = - U(s) /\ b[5] = - s.value
    BY <1>2
  <2> HIDE DEF a, b
  <2>3. \/ k = 1
        \/ k = 2 /\ a[1] = b[1]
        \/ k = 3 /\ a[1] = b[1] /\ a[2] = b[2]
        \/ k = 4 /\ a[1] = b[1] /\ a[2] = b[2] /\ a[3] = b[3]
        \/ k = 5 /\ a[1] = b[1] /\ a[2] = b[2] /\ a[3] = b[3] /\ a[4] = b[4]
    BY <2>1, <2>2
  <2> DEFINE time == S(r) < S(s) \/ (S(r) = S(s) /\ (U(r) < U(s) \/ (U(r) = U(s) /\ r.value < s.value)))
  <2>4. P(r) > P(s) \/ (P(r) = P(s) /\ (NumRooms(r) > NumRooms(s) \/ (NumRooms(r) = NumRooms(s) /\ time)))
    BY <1>1, <2>1, <2>2, <2>3
  <2> QED
    BY <2>4 DEF ByPresence, ByTime, S, U, P
<1> QED
  BY <1>3, <1>4

LEMMA Negated ==
  ASSUME NEW d \in Nat \ {0}, NEW x \in Int, x % d # 0
  PROVE  (-x) % d = d - (x % d)
<1> DEFINE t == x % d
           q == x \div d
           p == -1 - q
           u == d - t
           y == -x
<1>1. x = d * q + t /\ q \in Int /\ t \in 1 .. d - 1
  BY Parts
<1> HIDE DEF t, q
<1>2. y = d * p + u /\ y \in Int /\ p \in Int /\ u \in 0 .. d - 1
  BY <1>1
<1> HIDE DEF p, u, y
<1>3. y % d = u
  BY <1>2, Divided
<1> QED
  BY <1>3 DEF t, u, y

\* The candidate replaces the best one if it is above it, and none starts now.
LEMMA WinsIs ==
  ASSUME RoomsAreCounted, NEW r \in WishRules, NEW s \in WishRules, NEW now \in Moments,
         Since(r, now) # 0, Since(s, now) # 0
  PROVE  /\ Wishes!WinsByTime(r, s, now) => ByTime(r, s, now)
         /\ ByTime(r, s, now) => Wishes!WinsByTime(r, s, now)
         /\ Wishes!Wins(r, s, now) => ByPresence(r, s, now)
         /\ ByPresence(r, s, now) => Wishes!Wins(r, s, now)
<1> DEFINE F(x) == Wishes!Normalized(x.from, now)
           U(x) == Wishes!Normalized(x.until, now)
           S(x) == Since(x, now)
<1>1. /\ Day \in Nat \ {0} /\ now \in Int
      /\ r.from \in 0 .. Day - 1 /\ r.until \in 0 .. Day - 1 /\ r.value \in Int
      /\ s.from \in 0 .. Day - 1 /\ s.until \in 0 .. Day - 1 /\ s.value \in Int
  BY WishesAssumption, RuleType, RankTypes, WeekLength DEF Moments
<1>2. ASSUME NEW from \in 0 .. Day - 1, (now - from) % Day # 0
      PROVE  Wishes!Normalized(from, now) = Day - ((now - from) % Day)
  <2>1. now - from \in Int /\ -(now - from) = from - now
    BY <1>1
  <2>2. (-(now - from)) % Day = Day - ((now - from) % Day)
    BY <1>1, <1>2, <2>1, Negated
  <2> QED
    BY <2>1, <2>2 DEF Wishes!Normalized
<1>3. F(r) = Day - S(r) /\ F(s) = Day - S(s)
  BY <1>1, <1>2 DEF Since
<1>4. S(r) \in Int /\ S(s) \in Int /\ U(r) \in Int /\ U(s) \in Int
  BY RankTypes
<1>5. r.from = s.from <=> S(r) = S(s)
  <2>1. ASSUME S(r) = S(s) PROVE r.from = s.from
    <3> DEFINE x == now - r.from
               y == now - s.from
    <3>1. x \in Int /\ y \in Int /\ x - y < Day /\ y - x < Day
      BY <1>1
    <3>2. x % Day = y % Day
      BY <2>1 DEF Since
    <3> HIDE DEF x, y
    <3>3. x = y
      BY <1>1, <3>1, <3>2, SameRemainder
    <3> QED
      BY <1>1, <3>3 DEF x, y
  <2> QED
    BY <2>1 DEF Since
<1>6. r.until = s.until <=> U(r) = U(s)
  <2>1. ASSUME U(r) = U(s) PROVE r.until = s.until
    <3> DEFINE x == r.until - now
               y == s.until - now
    <3>1. x \in Int /\ y \in Int /\ x - y < Day /\ y - x < Day
      BY <1>1
    <3>2. x % Day = y % Day
      BY <2>1 DEF Wishes!Normalized
    <3> HIDE DEF x, y
    <3>3. x = y
      BY <1>1, <3>1, <3>2, SameRemainder
    <3> QED
      BY <1>1, <3>3 DEF x, y
  <2> QED
    BY <2>1
<1>7. Wishes!WinsByTime(r, s, now) <=>
        IF r.from = s.from /\ r.until = s.until THEN r.value < s.value
        ELSE F(r) > F(s) \/ (F(r) = F(s) /\ U(r) <= U(s))
  BY DEF Wishes!WinsByTime, Wishes!SameInterval, Wishes!FromUntilIntervalIsMoreRelevantOrEqual
<1>8. ByTime(r, s, now) <=>
        S(r) < S(s) \/ (S(r) = S(s) /\ (U(r) < U(s) \/ (U(r) = U(s) /\ r.value < s.value)))
  BY DEF ByTime
<1> HIDE DEF F, U, S
<1>9. Wishes!WinsByTime(r, s, now) <=> ByTime(r, s, now)
  BY <1>1, <1>3, <1>4, <1>5, <1>6, <1>7, <1>8
<1> DEFINE P(x) == Wishes!Relevance[x.presence.condition]
           M(x, y) == Wishes!PresenceIsMoreRelevant(x.presence, y.presence)
<1>10. ASSUME NEW x \in WishRules, NEW y \in WishRules
       PROVE  M(x, y) <=> P(x) > P(y) \/ (P(x) = P(y) /\ NumRooms(x) > NumRooms(y))
  <2>1. x.presence \in Conditions /\ y.presence \in Conditions
    BY RuleType
  <2>2. P(x) = P(y) <=> x.presence.condition = y.presence.condition
    BY <2>1 DEF Conditions, Wishes!Relevance
  <2>3. ASSUME NEW z \in {x, y} PROVE Wishes!NumberOfRooms(z.presence) = Cardinality(z.presence.rooms)
    <3>1. z.presence.rooms \cap CountedRooms = z.presence.rooms
      BY DEF RoomsAreCounted
    <3> QED
      BY <3>1, WishesCount DEF Wishes!NumberOfRooms
  <2>4. M(x, y) <=>
           P(x) > P(y) \/ (/\ x.presence.condition = y.presence.condition /\ Wishes!IsRoomBased(x.presence)
                          /\ Cardinality(x.presence.rooms) > Cardinality(y.presence.rooms))
    BY <2>3 DEF Wishes!PresenceIsMoreRelevant
  <2>5. x.presence.condition = y.presence.condition =>
           (Wishes!IsRoomBased(x.presence) <=> Wishes!IsRoomBased(y.presence))
    BY DEF Wishes!IsRoomBased
  <2> HIDE DEF P, M
  <2>6. /\ NumRooms(x) = IF Wishes!IsRoomBased(x.presence) THEN Cardinality(x.presence.rooms) ELSE 0
        /\ NumRooms(y) = IF Wishes!IsRoomBased(y.presence) THEN Cardinality(y.presence.rooms) ELSE 0
    BY DEF NumRooms
  <2> QED
    BY <2>2, <2>4, <2>5, <2>6
<1>11. /\ P(r) \in Int /\ P(s) \in Int /\ NumRooms(r) \in Int /\ NumRooms(s) \in Int
  BY RankTypes
<1>12. Wishes!Wins(r, s, now) <=> M(r, s) \/ (~ M(s, r) /\ ByTime(r, s, now))
  BY <1>9 DEF Wishes!Wins, Wishes!CurrentPredicate
<1>13. ByPresence(r, s, now) <=>
        P(r) > P(s) \/ (P(r) = P(s) /\ (NumRooms(r) > NumRooms(s) \/ (NumRooms(r) = NumRooms(s) /\ ByTime(r, s, now))))
  BY DEF ByPresence
<1> HIDE DEF P, M
<1> QED
  BY <1>9, <1>10, <1>11, <1>12, <1>13

\* Both are orders.
LEMMA Orders ==
  ASSUME NEW now \in Moments, NEW r \in WishRules, NEW s \in WishRules, NEW q \in WishRules
  PROVE  /\ ~ ByTime(r, r, now) /\ ~ ByPresence(r, r, now)
         /\ ByTime(r, s, now) /\ ByTime(s, q, now) => ByTime(r, q, now)
         /\ ByPresence(r, s, now) /\ ByPresence(s, q, now) => ByPresence(r, q, now)
<1> DEFINE U(x) == Wishes!Normalized(x.until, now)
           S(x) == Since(x, now)
           P(x) == Wishes!Relevance[x.presence.condition]
           T(x, y) == ByTime(x, y, now)
<1>1. \A x \in {r, s, q} : NumRooms(x) \in Int /\ S(x) \in Int /\ U(x) \in Int /\ x.value \in Int /\ P(x) \in Int
  BY RankTypes
<1>2. \A x, y \in {r, s, q} :
         T(x, y) <=> S(x) < S(y) \/ (S(x) = S(y) /\ (U(x) < U(y) \/ (U(x) = U(y) /\ x.value < y.value)))
  BY DEF ByTime
<1>3. \A x, y \in {r, s, q} :
         ByPresence(x, y, now) <=>
           P(x) > P(y) \/ (P(x) = P(y) /\ (NumRooms(x) > NumRooms(y) \/ (NumRooms(x) = NumRooms(y) /\ T(x, y))))
  BY DEF ByPresence
<1> HIDE DEF U, S, P, T
<1>4. ~ T(r, r) /\ (T(r, s) /\ T(s, q) => T(r, q))
  BY <1>1, <1>2
<1>5. ~ ByPresence(r, r, now) /\ (ByPresence(r, s, now) /\ ByPresence(s, q, now) => ByPresence(r, q, now))
  BY <1>1, <1>3, <1>4
<1> QED
  BY <1>4, <1>5 DEF T

\* What is computed, of rules rs.
Chosen(rs, v, now) ==
  LET best == Wishes!Winner(v, {p \in Behaviours \X Behaviours : Wishes!Wins(rs[p[1]], rs[p[2]], now)})
  IN IF best = 0 THEN 0 ELSE rs[best].value
Dusks(rs, now) == {i \in Behaviours : rs[i].kind = "twilight" /\ Wishes!InTime(rs[i], now)}
Dusk(rs, now) ==
  LET best == Wishes!Winner(Dusks(rs, now),
                            {p \in Behaviours \X Behaviours : Wishes!WinsByTime(rs[p[1]], rs[p[2]], now)})
  IN IF best = 0 THEN 100 ELSE rs[best].value

LEMMA ComputedIs ==
  ASSUME NEW v, NEW now
  PROVE  /\ Wishes!ComputeIntendedState(v, now) = Chosen(rules, v, now)
         /\ Wishes!Twilights(now) = Dusks(rules, now)
         /\ Wishes!ComputeTwilight(now) = Dusk(rules, now)
<1>1. Wishes!Indices = Behaviours
  BY DEF Wishes!Indices, Behaviours
<1>2. Wishes!Twilights(now) = Dusks(rules, now)
  BY <1>1 DEF Wishes!Twilights, Dusks
<1> QED
  BY <1>1, <1>2, Zenon DEF Wishes!ComputeIntendedState, Chosen, Wishes!ComputeTwilight, Dusk, Wishes!FullyOn

\* The one that is chosen is above the others, when none of them starts.
LEMMA ChosenIs ==
  ASSUME NEW rs \in [Behaviours -> WishRules], NEW v \in SUBSET Behaviours, NEW now \in Moments
  PROVE  /\ Chosen(rs, v, now) \in 0 .. 100
         /\ RoomsAreCounted /\ (\A i \in v : Since(rs[i], now) # 0) =>
              \/ v = {} /\ Chosen(rs, v, now) = 0
              \/ \E i \in v : Chosen(rs, v, now) = rs[i].value /\ \A j \in v : ~ ByPresence(rs[j], rs[i], now)
<1> DEFINE beats == {p \in Behaviours \X Behaviours : Wishes!Wins(rs[p[1]], rs[p[2]], now)}
           best == Wishes!Winner(v, beats)
<1>1. \A i, j \in v : <<i, j>> \in beats <=> Wishes!Wins(rs[i], rs[j], now)
  OBVIOUS
<1>2. Chosen(rs, v, now) = IF best = 0 THEN 0 ELSE rs[best].value
  BY DEF Chosen
<1> HIDE DEF beats
<1>3. /\ best \in v \cup {0} /\ (v # {} => best # 0)
      /\ (\A i, j, k \in v : <<k, i>> \in beats /\ <<i, j>> \in beats => <<k, j>> \in beats)
           /\ (\A i \in v : <<i, i>> \notin beats) =>
           \A j \in v : <<j, best>> \notin beats
  BY WinnerIs
<1> HIDE DEF best
<1>4. Chosen(rs, v, now) \in 0 .. 100
  BY <1>2, <1>3, RuleType
<1>5. ASSUME RoomsAreCounted, \A i \in v : Since(rs[i], now) # 0
      PROVE  \/ v = {} /\ Chosen(rs, v, now) = 0
             \/ \E i \in v : Chosen(rs, v, now) = rs[i].value /\ \A j \in v : ~ ByPresence(rs[j], rs[i], now)
  <2>1. \A i, j \in v : <<i, j>> \in beats <=> ByPresence(rs[i], rs[j], now)
    <3>1. \A i, j \in v : Wishes!Wins(rs[i], rs[j], now) <=> ByPresence(rs[i], rs[j], now)
      BY <1>5, WinsIs
    <3> QED
      BY <1>1, <3>1
  <2>2. \A i, j, k \in v : <<k, i>> \in beats /\ <<i, j>> \in beats => <<k, j>> \in beats
    <3>1. ASSUME NEW i \in v, NEW j \in v, NEW k \in v
          PROVE  ByPresence(rs[k], rs[i], now) /\ ByPresence(rs[i], rs[j], now) => ByPresence(rs[k], rs[j], now)
      BY Orders
    <3> QED
      BY <2>1, <3>1
  <2>3. \A i \in v : <<i, i>> \notin beats
    <3>1. ASSUME NEW i \in v PROVE ~ ByPresence(rs[i], rs[i], now)
      BY Orders
    <3> QED
      BY <2>1, <3>1
  <2>4. \A j \in v : <<j, best>> \notin beats
    BY <1>3, <2>2, <2>3
  <2>5. CASE v = {}
    BY <1>2, <1>3, <2>5
  <2>6. CASE v # {}
    <3>1. best \in v /\ best # 0
      BY <1>3, <2>6
    <3>2. \A j \in v : ~ ByPresence(rs[j], rs[best], now)
      BY <2>1, <2>4, <3>1
    <3> QED
      BY <1>2, <3>1, <3>2
  <2> QED
    BY <2>5, <2>6
<1> QED
  BY <1>4, <1>5

LEMMA DuskIs ==
  ASSUME NEW rs \in [Behaviours -> WishRules], NEW now \in Moments, NEW v, v = Dusks(rs, now)
  PROVE  /\ Dusk(rs, now) \in 0 .. 100
         /\ RoomsAreCounted /\ (\A i \in v : Since(rs[i], now) # 0) =>
              \/ v = {} /\ Dusk(rs, now) = 100
              \/ \E i \in v : Dusk(rs, now) = rs[i].value /\ \A j \in v : ~ ByTime(rs[j], rs[i], now)
<1> DEFINE beats == {p \in Behaviours \X Behaviours : Wishes!WinsByTime(rs[p[1]], rs[p[2]], now)}
           best == Wishes!Winner(v, beats)
<1>0. v \in SUBSET Behaviours
  BY DEF Dusks
<1>1. \A i, j \in v : <<i, j>> \in beats <=> Wishes!WinsByTime(rs[i], rs[j], now)
  BY <1>0
<1>2. Dusk(rs, now) = IF best = 0 THEN 100 ELSE rs[best].value
  BY DEF Dusk
<1> HIDE DEF beats
<1>3. /\ best \in v \cup {0} /\ (v # {} => best # 0)
      /\ (\A i, j, k \in v : <<k, i>> \in beats /\ <<i, j>> \in beats => <<k, j>> \in beats)
           /\ (\A i \in v : <<i, i>> \notin beats) =>
           \A j \in v : <<j, best>> \notin beats
  BY <1>0, WinnerIs
<1> HIDE DEF best
<1>4. Dusk(rs, now) \in 0 .. 100
  BY <1>0, <1>2, <1>3, RuleType
<1>5. ASSUME RoomsAreCounted, \A i \in v : Since(rs[i], now) # 0
      PROVE  \/ v = {} /\ Dusk(rs, now) = 100
             \/ \E i \in v : Dusk(rs, now) = rs[i].value /\ \A j \in v : ~ ByTime(rs[j], rs[i], now)
  <2>0. \A i \in v : rs[i] \in WishRules
    BY <1>0
  <2>1. \A i, j \in v : <<i, j>> \in beats <=> ByTime(rs[i], rs[j], now)
    <3>1. \A i, j \in v : Wishes!WinsByTime(rs[i], rs[j], now) <=> ByTime(rs[i], rs[j], now)
      BY <1>5, <2>0, WinsIs
    <3> QED
      BY <1>1, <3>1
  <2>2. \A i, j, k \in v : <<k, i>> \in beats /\ <<i, j>> \in beats => <<k, j>> \in beats
    <3>1. ASSUME NEW i \in v, NEW j \in v, NEW k \in v
          PROVE  ByTime(rs[k], rs[i], now) /\ ByTime(rs[i], rs[j], now) => ByTime(rs[k], rs[j], now)
      BY <2>0, Orders
    <3> QED
      BY <2>1, <3>1
  <2>3. \A i \in v : <<i, i>> \notin beats
    <3>1. ASSUME NEW i \in v PROVE ~ ByTime(rs[i], rs[i], now)
      BY <2>0, Orders
    <3> QED
      BY <2>1, <3>1
  <2>4. \A j \in v : <<j, best>> \notin beats
    BY <1>3, <2>2, <2>3
  <2>5. CASE v = {}
    BY <1>2, <1>3, <2>5
  <2>6. CASE v # {}
    <3>1. best \in v /\ best # 0
      BY <1>3, <2>6
    <3>2. \A j \in v : ~ ByTime(rs[j], rs[best], now)
      BY <2>1, <2>4, <3>1
    <3> QED
      BY <1>2, <3>1, <3>2
  <2> QED
    BY <2>5, <2>6
<1> QED
  BY <1>4, <1>5

-----------------------------------------------------------------------------
(* The invariants, and that every update keeps them.                       *)

WishType ==
  /\ rules \in [Behaviours -> WishRules] /\ memory \in [Behaviours -> Memory]
  /\ clock \in [set : BOOLEAN, now : Moments] /\ people \in (SUBSET Rooms) \cup {Wishes!Uncertain}
  /\ enabled \in BOOLEAN /\ valid \in SUBSET Behaviours /\ lasted \in [Behaviours -> 0 .. Cap]
  /\ intended.switch \in -1 .. 100 /\ intended.twilight \in -1 .. 100

\* What is intended was chosen now, among those that are valid.
WishInv ==
  /\ WishType
  /\ ~ clock.set => valid = {} /\ intended.switch = -1 /\ intended.twilight = -1
  /\ intended.switch # -1 /\ people # Wishes!Uncertain => intended.switch = Chosen(rules, valid, clock.now)
  /\ intended.twilight # -1 => intended.twilight = Dusk(rules, clock.now)

\* What is remembered.
StayInv ==
  /\ \A i \in Behaviours : Stays(i, rules[i], memory[i], valid, lasted[i], clock.now)
  /\ ~ clock.set => \A i \in Behaviours : memory[i].seen = -1

\* What NoFlicker says of a step.
Steady ==
  \A i \in Behaviours : LET r == rules[i] IN
    /\ /\ i \in valid /\ i \notin valid' /\ clock'.set /\ enabled /\ enabled'
       /\ Wishes!RequiresPresence(r.presence) /\ Wishes!InTime(r, clock'.now)
       => lasted[i] >= r.presence.timeout
    /\ i \notin valid /\ i \in valid' => Wishes!InTime(r, clock'.now)

LEMMA UpdateIntends ==
  ASSUME WishInv, NEW on \in BOOLEAN, NEW at \in [set : BOOLEAN, now : Moments], at.set = clock.set,
         NEW where \in (SUBSET Rooms) \cup {Wishes!Uncertain}, NEW mem \in [Behaviours -> Memory],
         Wishes!Update(on, at, where, mem), lasted' \in [Behaviours -> 0 .. Cap]
  PROVE  WishInv'
<1> DEFINE checks == [i \in Behaviours |-> Wishes!Validate(rules[i], mem[i], at.now, where)]
           looks == on /\ at.set /\ where # Wishes!Uncertain
           found == IF looks THEN {i \in Behaviours : checks[i].valid} ELSE valid
<1>0. Wishes!NoValue = -1 /\ Wishes!Indices = Behaviours
  BY DEF Wishes!NoValue, Wishes!Indices, Behaviours
<1>1. /\ memory' = IF looks THEN [i \in Behaviours |-> checks[i].memory] ELSE mem
      /\ valid' = found
      /\ intended' =
           [switch |-> IF ~ on THEN -1
                       ELSE IF where = Wishes!Uncertain THEN intended.switch
                       ELSE IF ~ at.set THEN -1
                       ELSE Wishes!ComputeIntendedState(found, at.now),
            twilight |-> IF on /\ at.set THEN Wishes!ComputeTwilight(at.now) ELSE -1]
      /\ clock' = at /\ people' = where /\ enabled' = on
      /\ rules' = rules
  BY <1>0 DEF Wishes!Update
<1>2. /\ Wishes!ComputeIntendedState(found, at.now) = Chosen(rules, found, at.now)
      /\ Wishes!ComputeTwilight(at.now) = Dusk(rules, at.now)
  BY ComputedIs
<1>3. /\ rules \in [Behaviours -> WishRules] /\ valid \in SUBSET Behaviours /\ intended.switch \in -1 .. 100
      /\ at.set \in BOOLEAN /\ at.now \in Moments
      /\ ~ at.set => valid = {} /\ intended.switch = -1
  BY DEF WishInv, WishType
<1>4. \A i \in Behaviours : checks[i].memory \in Memory
  <2>1. ASSUME NEW i \in Behaviours PROVE checks[i].memory \in Memory
    <3>1. rules[i] \in WishRules /\ mem[i] \in Memory
      BY <1>3
    <3> QED
      BY <1>3, <3>1, ValidateIs
  <2> QED
    BY <2>1
<1> HIDE DEF checks
<1>5. found \in SUBSET Behaviours
  BY <1>3
<1>6. memory' \in [Behaviours -> Memory]
  BY <1>1, <1>4
<1> HIDE DEF found
<1>7. Chosen(rules, found, at.now) \in 0 .. 100 /\ Dusk(rules, at.now) \in 0 .. 100
  BY <1>3, <1>5, ChosenIs, DuskIs
<1>8. /\ intended'.switch = IF ~ on THEN -1 ELSE IF where = Wishes!Uncertain THEN intended.switch
                            ELSE IF ~ at.set THEN -1 ELSE Chosen(rules, found, at.now)
      /\ intended'.twilight = IF on /\ at.set THEN Dusk(rules, at.now) ELSE -1
  BY <1>1, <1>2
<1>9. ~ at.set => found = {}
  BY <1>3 DEF found
<1> HIDE DEF looks
<1>10. WishType'
  BY <1>1, <1>3, <1>5, <1>6, <1>7, <1>8 DEF WishType
<1>11. ~ at.set => found = {} /\ intended'.switch = -1 /\ intended'.twilight = -1
  BY <1>3, <1>8, <1>9
<1>12. intended'.switch # -1 /\ where # Wishes!Uncertain => intended'.switch = Chosen(rules, found, at.now)
  BY <1>8
<1>13. intended'.twilight # -1 => intended'.twilight = Dusk(rules, at.now)
  BY <1>8
<1> QED
  BY <1>1, <1>10, <1>11, <1>12, <1>13 DEF WishInv

LEMMA StaysAlike ==
  ASSUME NEW r \in WishRules, NEW m \in Memory, NEW i, NEW v, NEW l \in 0 .. Cap, NEW now, Stays(i, r, m, v, l, now),
         NEW a \in Memory, a.extended = m.extended, NEW k \in 0 .. Cap, NEW next,
         \/ m.seen = -1 /\ a.seen = -1
         \/ a.seen = m.seen /\ next = now /\ (i \in v => k >= l)
  PROVE  Stays(i, r, a, v, k, next)
<1>1. m.seen \in -1 .. Cap /\ Wishes!Never = -1 /\ Cap \in Nat
  BY MemoryIs, CapIs
<1> QED
  BY <1>1 DEF Stays

\* What an update sees, with what was remembered as old as it is by then.
LEMMA UpdateLooks ==
  ASSUME KindsAgree, WishInv, NEW on \in BOOLEAN, NEW at \in [set : BOOLEAN, now : Moments], at.set = clock.set,
         NEW where, NEW mem \in [Behaviours -> Memory], NEW long \in [Behaviours -> 0 .. Cap],
         \A i \in Behaviours : Stays(i, rules[i], mem[i], valid, long[i], at.now),
         ~ at.set => \A i \in Behaviours : mem[i].seen = -1,
         Wishes!Update(on, at, where, mem), lasted' \in [Behaviours -> 0 .. Cap],
         \A i \in Behaviours : i \in valid /\ i \in valid' => lasted'[i] >= long[i]
  PROVE  /\ StayInv'
         /\ \A i \in Behaviours : LET r == rules[i] IN
              /\ i \notin valid /\ i \in valid' => Wishes!InTime(r, at.now)
              /\ i \in valid /\ i \notin valid' /\ WaitsForUsers(r) /\ Wishes!InTime(r, at.now) =>
                   long[i] > r.presence.timeout
<1> DEFINE check(i) == Wishes!Validate(rules[i], mem[i], at.now, where)
           looks == on /\ at.set /\ where # Wishes!Uncertain
<1>1. /\ memory' = IF looks THEN [i \in Behaviours |-> check(i).memory] ELSE mem
      /\ valid' = IF looks THEN {i \in Behaviours : check(i).valid} ELSE valid
      /\ clock' = at /\ rules' = rules
  BY DEF Wishes!Update, Wishes!Indices, Behaviours
<1>2. rules \in [Behaviours -> WishRules] /\ at.now \in Moments /\ at.set \in BOOLEAN
  BY DEF WishInv, WishType
<1>3. CASE ~ looks
  <2>1. memory' = mem /\ valid' = valid
    BY <1>1, <1>3
  <2>2. ASSUME NEW i \in Behaviours PROVE Stays(i, rules[i], mem[i], valid, lasted'[i], at.now)
    <3>1. /\ rules[i] \in WishRules /\ mem[i] \in Memory /\ long[i] \in 0 .. Cap /\ lasted'[i] \in 0 .. Cap
          /\ i \in valid => lasted'[i] >= long[i]
          /\ Stays(i, rules[i], mem[i], valid, long[i], at.now)
      BY <1>2, <2>1
    <3> QED
      BY <3>1, StaysAlike
  <2>3. StayInv'
    BY <1>1, <2>1, <2>2 DEF StayInv
  <2> QED
    BY <2>1, <2>3
<1>4. CASE looks
  <2>1. at.set /\ memory' = [i \in Behaviours |-> check(i).memory] /\ valid' = {i \in Behaviours : check(i).valid}
    BY <1>1, <1>4
  <2>2. ASSUME NEW i \in Behaviours
        PROVE  /\ Stays(i, rules[i], memory'[i], valid', lasted'[i], at.now)
               /\ i \notin valid /\ i \in valid' => Wishes!InTime(rules[i], at.now)
               /\ i \in valid /\ i \notin valid' /\ WaitsForUsers(rules[i]) /\ Wishes!InTime(rules[i], at.now) =>
                    long[i] > rules[i].presence.timeout
    <3> DEFINE c == check(i)
               r == rules[i]
               m == mem[i]
               l == long[i]
               k == lasted'[i]
               w == valid'
    <3>1. /\ r \in WishRules /\ m \in Memory /\ l \in 0 .. Cap /\ k \in 0 .. Cap
          /\ i \in valid /\ i \in w => k >= l
          /\ Stays(i, r, m, valid, l, at.now)
      BY <1>2
    <3>2. c = Wishes!Validate(r, m, at.now, where) /\ (i \in w <=> c.valid) /\ memory'[i] = c.memory
      BY <2>1
    <3> HIDE DEF c, r, m, l, k, w
    <3>3. /\ Stays(i, r, c.memory, w, k, at.now)
          /\ i \notin valid /\ i \in w => Wishes!InTime(r, at.now)
          /\ i \in valid /\ i \notin w /\ WaitsForUsers(r) /\ Wishes!InTime(r, at.now) => l > r.presence.timeout
      BY <1>2, <3>1, <3>2, LookKeeps
    <3> QED
      BY <3>2, <3>3 DEF r, l, k, w
  <2>3. StayInv'
    BY <1>1, <2>1, <2>2 DEF StayInv
  <2> QED
    BY <2>2, <2>3
<1> QED
  BY <1>3, <1>4

\* An update within the second, or one second later.
LEMMA WishUpdateKeeps ==
  ASSUME WishInv, NEW on \in BOOLEAN, NEW at \in [set : BOOLEAN, now : Moments], at.set = clock.set,
         NEW where \in (SUBSET Rooms) \cup {Wishes!Uncertain}, NEW mem \in [Behaviours -> Memory],
         NEW long \in [Behaviours -> 0 .. Cap],
         KindsAgree /\ NightsAreLong /\ StayInv =>
           /\ \A i \in Behaviours : Stays(i, rules[i], mem[i], valid, long[i], at.now)
           /\ ~ at.set => \A i \in Behaviours : mem[i].seen = -1,
         \A i \in Behaviours : lasted[i] < long[i] => lasted[i] + 1 = long[i],
         Wishes!Update(on, at, where, mem),
         lasted' = [i \in Behaviours |-> IF i \in valid' THEN long[i] ELSE 0]
  PROVE  WishInv' /\ (KindsAgree /\ NightsAreLong /\ StayInv => StayInv' /\ Steady)
<1>1. lasted' \in [Behaviours -> 0 .. Cap]
  BY CapIs
<1>2. WishInv'
  BY <1>1, UpdateIntends
<1>3. ASSUME KindsAgree, NightsAreLong, StayInv PROVE StayInv' /\ Steady
  <2>1. \A i \in Behaviours : i \in valid /\ i \in valid' => lasted'[i] >= long[i]
    <3>1. \A i \in Behaviours : long[i] \in Int
      BY CapIs
    <3> QED
      BY <3>1
  <2>2. /\ StayInv'
        /\ \A i \in Behaviours : LET r == rules[i] IN
             /\ i \notin valid /\ i \in valid' => Wishes!InTime(r, at.now)
             /\ i \in valid /\ i \notin valid' /\ WaitsForUsers(r) /\ Wishes!InTime(r, at.now) =>
                  long[i] > r.presence.timeout
    BY <1>1, <1>3, <2>1, UpdateLooks
  <2>3. clock' = at
    BY DEF Wishes!Update
  <2>4. ASSUME NEW i \in Behaviours, i \in valid, i \notin valid', Wishes!RequiresPresence(rules[i].presence),
               Wishes!InTime(rules[i], at.now)
        PROVE  lasted[i] >= rules[i].presence.timeout
    <3> DEFINE r == rules[i]
    <3>1. r \in WishRules /\ lasted[i] \in 0 .. Cap /\ long[i] \in 0 .. Cap
      BY DEF WishInv, WishType
    <3>2. r.presence.timeout \in 0 .. Cap - 1 /\ r.kind \in {"switch", "extended", "twilight"} /\ Cap \in Nat
      BY <3>1, RuleType, CapIs
    <3>3. r.kind # "twilight"
      BY <1>3, <2>4 DEF StayInv, Stays
    <3>4. CASE r.presence.timeout = 0
      BY <3>1, <3>4
    <3>5. CASE r.presence.timeout # 0
      <4>1. WaitsForUsers(r)
        BY <2>4, <3>2, <3>3, <3>5 DEF WaitsForUsers
      <4>2. long[i] > r.presence.timeout
        BY <2>2, <2>4, <4>1
      <4> QED
        BY <3>1, <3>2, <4>2
    <3> QED
      BY <3>4, <3>5
  <2>5. Steady
    BY <2>2, <2>3, <2>4 DEF Steady
  <2> QED
    BY <2>2, <2>5
<1> QED
  BY <1>2, <1>3

LEMMA WishesInit == Wishes!Init => WishInv /\ StayInv
<1> SUFFICES ASSUME Wishes!Init PROVE WishInv /\ StayInv
  OBVIOUS
<1>1. /\ rules \in [Behaviours -> WishRules] /\ clock = [set |-> FALSE, now |-> 0] /\ people = Wishes!Uncertain
      /\ memory = [i \in Behaviours |-> Wishes!Fresh] /\ enabled = TRUE
      /\ intended = [switch |-> -1, twilight |-> -1] /\ valid = {} /\ lasted = [i \in Behaviours |-> 0]
  BY DEF Wishes!Init, Wishes!Indices, Behaviours, Wishes!NoValue
<1>2. Wishes!Fresh \in Memory /\ Wishes!Fresh.seen = -1 /\ Wishes!Fresh.extended = FALSE
  BY CapIs DEF Wishes!Fresh, Memory
<1>3. clock \in [set : BOOLEAN, now : Moments] /\ lasted \in [Behaviours -> 0 .. Cap]
  BY <1>1, WeekLength, CapIs DEF Moments
<1>4. WishType
  <2>1. intended.switch = -1 /\ intended.twilight = -1
    BY <1>1
  <2>2. memory \in [Behaviours -> Memory] /\ enabled \in BOOLEAN
    BY <1>1, <1>2
  <2>3. intended.switch \in -1 .. 100 /\ intended.twilight \in -1 .. 100
    BY <2>1
  <2>4. people \in (SUBSET Rooms) \cup {Wishes!Uncertain}
    BY <1>1, Zenon
  <2>5. valid \in SUBSET Behaviours
    BY <1>1
  <2> QED
    BY <1>1, <1>3, <2>2, <2>3, <2>4, <2>5 DEF WishType
<1>6. WishInv
  BY <1>1, <1>4 DEF WishInv
<1>5. StayInv
  BY <1>1, <1>2, CapIs DEF StayInv, Stays
<1> QED
  BY <1>5, <1>6

LEMMA WishTickKeeps ==
  ASSUME WishInv, Wishes!Tick
  PROVE  WishInv' /\ (KindsAgree /\ NightsAreLong /\ StayInv => StayInv' /\ Steady)
<1> DEFINE at == [clock EXCEPT !.now = IF clock.set THEN (@ + 1) % (Day * Week) ELSE @]
           mem == [i \in Behaviours |-> [memory[i] EXCEPT !.seen = Wishes!Older(@), !.extensionSeen = Wishes!Older(@)]]
           long == [i \in Behaviours |-> IF lasted[i] = Cap THEN Cap ELSE lasted[i] + 1]
<1>1. PICK where \in (SUBSET Rooms) \cup {Wishes!Uncertain} :
        /\ Wishes!Update(enabled, at, where, mem)
        /\ lasted' = [i \in Behaviours |-> IF i \in valid' THEN long[i] ELSE 0]
  BY DEF Wishes!Tick, Wishes!Indices, Behaviours
<1>2. /\ enabled \in BOOLEAN /\ clock \in [set : BOOLEAN, now : Moments] /\ memory \in [Behaviours -> Memory]
      /\ lasted \in [Behaviours -> 0 .. Cap] /\ rules \in [Behaviours -> WishRules]
  BY DEF WishInv, WishType
<1>3. /\ at \in [set : BOOLEAN, now : Moments] /\ at.set = clock.set
      /\ at.now = IF clock.set THEN SecondAfter(clock.now) ELSE clock.now
  <2>1. (clock.now + 1) % (Day * Week) = SecondAfter(clock.now)
    <3> DEFINE k == Day * Week
               n == clock.now
    <3>1. k \in Nat \ {0} /\ n \in 0 .. k - 1
      BY <1>2, WeekLength DEF Moments
    <3> HIDE DEF k, n
    <3>2. (n + 1) % k = IF n = k - 1 THEN 0 ELSE n + 1
      BY <3>1, Ring
    <3> QED
      BY <3>2 DEF SecondAfter, k, n
  <2>2. SecondAfter(clock.now) \in Moments
    BY <1>2, WeekLength DEF SecondAfter, Moments
  <2>3. at = [clock EXCEPT !.now = IF clock.set THEN SecondAfter(clock.now) ELSE clock.now]
    BY <2>1
  <2> QED
    BY <1>2, <2>2, <2>3
<1>4. ASSUME NEW i \in Behaviours
      PROVE  /\ mem[i] \in Memory /\ mem[i].seen = Wishes!Older(memory[i].seen)
             /\ mem[i].extended = memory[i].extended
  <2> DEFINE m == memory[i]
             a == [m EXCEPT !.seen = Wishes!Older(m.seen), !.extensionSeen = Wishes!Older(m.extensionSeen)]
  <2>1. m \in Memory
    BY <1>2
  <2>2. Wishes!Older(m.seen) \in Wishes!Ages /\ Wishes!Older(m.extensionSeen) \in Wishes!Ages
    BY <2>1, MemoryIs, OlderIs
  <2>3. mem[i] = a
    OBVIOUS
  <2> HIDE DEF m, mem
  <2>4. a \in Memory /\ a.seen = Wishes!Older(m.seen) /\ a.extended = m.extended
    BY <2>1, <2>2 DEF Memory
  <2> QED
    BY <2>3, <2>4 DEF m
<1>5. mem \in [Behaviours -> Memory]
  BY <1>4
<1>6. /\ long \in [Behaviours -> 0 .. Cap]
      /\ \A i \in Behaviours : lasted[i] < long[i] => lasted[i] + 1 = long[i]
      /\ \A i \in Behaviours : long[i] = IF lasted[i] = Cap THEN Cap ELSE lasted[i] + 1
  BY <1>2, CapIs
<1> HIDE DEF at, mem, long
<1>7. ASSUME KindsAgree, NightsAreLong, StayInv
      PROVE  /\ \A i \in Behaviours : Stays(i, rules[i], mem[i], valid, long[i], at.now)
             /\ ~ at.set => \A i \in Behaviours : mem[i].seen = -1
  <2>1. ~ at.set => \A i \in Behaviours : memory[i].seen = -1 /\ mem[i].seen = -1
    <3>1. Wishes!Older(-1) = -1
      BY CapIs DEF Wishes!Older
    <3> QED
      BY <1>3, <1>4, <1>7, <3>1 DEF StayInv
  <2>2. ASSUME NEW i \in Behaviours PROVE Stays(i, rules[i], mem[i], valid, long[i], at.now)
    <3> DEFINE r == rules[i]
               m == memory[i]
               a == mem[i]
               l == lasted[i]
               k == long[i]
               now == clock.now
               next == at.now
    <3>1. /\ r \in WishRules /\ m \in Memory /\ a \in Memory /\ l \in 0 .. Cap /\ k \in 0 .. Cap
          /\ k = IF l = Cap THEN Cap ELSE l + 1
          /\ a.seen = Wishes!Older(m.seen) /\ a.extended = m.extended /\ now \in Moments
          /\ Stays(i, r, m, valid, l, now)
      BY <1>2, <1>4, <1>6, <1>7 DEF StayInv
    <3>2. at.set => next = SecondAfter(now)
      BY <1>3
    <3>3. ~ at.set => m.seen = -1 /\ a.seen = -1
      BY <2>1
    <3> HIDE DEF r, m, a, l, k, now, next
    <3>4. CASE at.set
      BY <1>7, <3>1, <3>2, <3>4, AgeKeeps DEF r, a, k, next
    <3>5. CASE ~ at.set
      <4>1. Stays(i, r, a, valid, k, next)
        BY <3>1, <3>3, <3>5, StaysAlike
      <4> QED
        BY <4>1 DEF r, a, k, next
    <3> QED
      BY <3>4, <3>5
  <2> QED
    BY <2>1, <2>2
<1> QED
  BY <1>1, <1>2, <1>3, <1>5, <1>6, <1>7, WishUpdateKeeps

\* Within the second.
LEMMA AtOnceKeeps ==
  ASSUME WishInv, NEW on \in BOOLEAN, NEW where \in (SUBSET Rooms) \cup {Wishes!Uncertain},
         Wishes!Update(on, clock, where, memory),
         lasted' = [i \in Behaviours |-> IF i \in valid' THEN lasted[i] ELSE 0]
  PROVE  WishInv' /\ (KindsAgree /\ NightsAreLong /\ StayInv => StayInv' /\ Steady)
<1>1. /\ clock \in [set : BOOLEAN, now : Moments] /\ memory \in [Behaviours -> Memory]
      /\ lasted \in [Behaviours -> 0 .. Cap]
  BY DEF WishInv, WishType
<1>2. StayInv => /\ \A i \in Behaviours : Stays(i, rules[i], memory[i], valid, lasted[i], clock.now)
                 /\ ~ clock.set => \A i \in Behaviours : memory[i].seen = -1
  BY DEF StayInv
<1>3. \A i \in Behaviours : lasted[i] < lasted[i] => lasted[i] + 1 = lasted[i]
  BY <1>1, CapIs
<1> QED
  BY <1>1, <1>2, <1>3, WishUpdateKeeps

LEMMA MutationKeeps ==
  ASSUME WishInv, Wishes!PresenceMutation
  PROVE  WishInv' /\ (KindsAgree /\ NightsAreLong /\ StayInv => StayInv' /\ Steady)
<1>1. PICK where \in (SUBSET Rooms) \ {people} : Wishes!Update(enabled, clock, where, memory)
  BY DEF Wishes!PresenceMutation
<1>2. lasted' = [i \in Behaviours |-> IF i \in valid' THEN lasted[i] ELSE 0]
  BY DEF Wishes!PresenceMutation, Wishes!Indices, Behaviours
<1>3. enabled \in BOOLEAN /\ where \in (SUBSET Rooms) \cup {Wishes!Uncertain}
  BY DEF WishInv, WishType
<1> QED
  BY <1>1, <1>2, <1>3, AtOnceKeeps

LEMMA SettingsKeep ==
  ASSUME WishInv, Wishes!SettingsChange
  PROVE  WishInv' /\ (KindsAgree /\ NightsAreLong /\ StayInv => StayInv' /\ Steady)
<1> DEFINE on == ~ enabled
<1>1. Wishes!Update(on, clock, people, memory)
  BY DEF Wishes!SettingsChange
<1>2. lasted' = [i \in Behaviours |-> IF i \in valid' THEN lasted[i] ELSE 0]
  BY DEF Wishes!SettingsChange, Wishes!Indices, Behaviours
<1>3. on \in BOOLEAN /\ people \in (SUBSET Rooms) \cup {Wishes!Uncertain}
  BY DEF WishInv, WishType
<1> HIDE DEF on
<1> QED
  BY <1>1, <1>2, <1>3, AtOnceKeeps

LEMMA SetTimeKeeps ==
  ASSUME WishInv, Wishes!SetTime
  PROVE  WishInv' /\ (StayInv => StayInv' /\ Steady)
<1>1. PICK now \in Moments : clock' = [set |-> TRUE, now |-> now]
  BY DEF Wishes!SetTime, Moments
<1>2. ~ clock.set /\ UNCHANGED <<rules, people, memory, enabled, intended, valid, lasted>>
  BY DEF Wishes!SetTime
<1>3. WishType /\ valid = {} /\ intended.switch = -1 /\ intended.twilight = -1
  BY <1>2 DEF WishInv
<1>4. clock' \in [set : BOOLEAN, now : Moments] /\ clock'.set
  BY <1>1
<1>5. WishInv'
  BY <1>2, <1>3, <1>4 DEF WishInv, WishType
<1>6. ASSUME StayInv PROVE StayInv' /\ Steady
  <2>1. \A i \in Behaviours : memory[i].seen = -1
    BY <1>2, <1>6 DEF StayInv
  <2>2. ASSUME NEW i \in Behaviours PROVE Stays(i, rules[i], memory[i], valid, lasted[i], clock'.now)
    <3>1. /\ rules[i] \in WishRules /\ memory[i] \in Memory /\ lasted[i] \in 0 .. Cap
          /\ Stays(i, rules[i], memory[i], valid, lasted[i], clock.now)
      BY <1>3, <1>6 DEF WishType, StayInv
    <3> QED
      BY <2>1, <3>1, StaysAlike
  <2>3. StayInv'
    BY <1>2, <1>4, <2>2 DEF StayInv
  <2>4. Steady
    BY <1>2, <1>3 DEF Steady
  <2> QED
    BY <2>3, <2>4
<1> QED
  BY <1>5, <1>6

LEMMA BootKeeps ==
  ASSUME WishInv, Wishes!Boot
  PROVE  WishInv' /\ StayInv' /\ Steady
<1>1. rules \in [Behaviours -> WishRules] /\ enabled \in BOOLEAN
  BY DEF WishInv, WishType
<1>2. /\ rules' \in [Behaviours -> WishRules] /\ enabled' \in BOOLEAN
      /\ clock' = [set |-> FALSE, now |-> 0] /\ people' = Wishes!Uncertain
      /\ memory' = [i \in Behaviours |-> Wishes!Fresh]
      /\ intended' = [switch |-> -1, twilight |-> -1] /\ valid' = {} /\ lasted' = [i \in Behaviours |-> 0]
  BY <1>1 DEF Wishes!Boot, Wishes!Indices, Behaviours, Wishes!NoValue
<1>3. Wishes!Fresh \in Memory /\ Wishes!Fresh.seen = -1 /\ Wishes!Fresh.extended = FALSE
  BY CapIs DEF Wishes!Fresh, Memory
<1>4. clock' \in [set : BOOLEAN, now : Moments] /\ lasted' \in [Behaviours -> 0 .. Cap] /\ ~ clock'.set
  BY <1>2, WeekLength, CapIs DEF Moments
<1>5. WishType'
  <2>1. intended'.switch = -1 /\ intended'.twilight = -1
    BY <1>2
  <2>2. memory' \in [Behaviours -> Memory]
    BY <1>2, <1>3
  <2>3. intended'.switch \in -1 .. 100 /\ intended'.twilight \in -1 .. 100
    BY <2>1
  <2>4. people' \in (SUBSET Rooms) \cup {Wishes!Uncertain}
    BY <1>2, Zenon
  <2>5. valid' \in SUBSET Behaviours
    BY <1>2
  <2> QED
    BY <1>2, <1>4, <2>2, <2>3, <2>4, <2>5 DEF WishType
<1>6. WishInv'
  BY <1>2, <1>5 DEF WishInv
<1>7. StayInv'
  BY <1>2, <1>3, CapIs DEF StayInv, Stays
<1>8. Steady
  BY <1>2, <1>4 DEF Steady
<1> QED
  BY <1>6, <1>7, <1>8

LEMMA WishesNext ==
  ASSUME WishInv, Wishes!Next
  PROVE  WishInv' /\ (KindsAgree /\ NightsAreLong /\ StayInv => StayInv' /\ Steady)
BY WishTickKeeps, MutationKeeps, SettingsKeep, SetTimeKeeps, BootKeeps, Zenon DEF Wishes!Next

LEMMA WishesStutter ==
  ASSUME UNCHANGED wishVars
  PROVE  (WishInv => WishInv') /\ (StayInv => StayInv')
<1>1. UNCHANGED <<rules, clock, people, memory, enabled, intended, valid, lasted>>
  BY DEF wishVars
<1> QED
  BY <1>1 DEF WishInv, WishType, StayInv

\* The intended states are those of the most relevant behaviours.
LEMMA WishesHold == WishInv => Wishes!TypeOK /\ (RoomsAreCounted => Wishes!MostRelevantWins)
<1> SUFFICES ASSUME WishInv PROVE Wishes!TypeOK /\ (RoomsAreCounted => Wishes!MostRelevantWins)
  OBVIOUS
<1>1. WishType /\ Wishes!NoValue = -1 /\ Wishes!FullyOn = 100 /\ Wishes!Indices = Behaviours
  BY DEF WishInv, Wishes!NoValue, Wishes!FullyOn, Wishes!Indices, Behaviours
<1>2. Wishes!TypeOK
  BY <1>1 DEF WishType, Wishes!TypeOK, Memory, Moments
<1>3. ASSUME RoomsAreCounted PROVE Wishes!MostRelevantWins
  <2> DEFINE now == clock.now
             dusks == Dusks(rules, now)
  <2>1. rules \in [Behaviours -> WishRules] /\ now \in Moments /\ valid \in SUBSET Behaviours /\ dusks \in SUBSET Behaviours
    BY <1>1 DEF WishType, Dusks
  <2>2. \A i \in Behaviours : rules[i] \in WishRules /\ Wishes!SinceStart(rules[i]) = Since(rules[i], now)
    BY <2>1 DEF Wishes!SinceStart, Since
  <2>3. ASSUME NEW i \in Behaviours, NEW j \in Behaviours
        PROVE  /\ ~ ByPresence(rules[j], rules[i], now) => ~ Wishes!Above(Wishes!Rank(rules[j]), Wishes!Rank(rules[i]))
               /\ ~ ByTime(rules[j], rules[i], now) =>
                    ~ Wishes!Above(Wishes!TwilightRank(rules[j]), Wishes!TwilightRank(rules[i]))
    BY <2>1, <2>2, AboveIs
  <2>4. Wishes!Twilights(now) = dusks
    BY ComputedIs
  <2>5. ASSUME intended.switch # -1, people # Wishes!Uncertain, \A i \in valid : Wishes!SinceStart(rules[i]) # 0
        PROVE  \/ valid = {} /\ intended.switch = 0
               \/ \E i \in valid : /\ intended.switch = rules[i].value
                                   /\ \A j \in valid : ~ Wishes!Above(Wishes!Rank(rules[j]), Wishes!Rank(rules[i]))
    <3>1. intended.switch = Chosen(rules, valid, now)
      BY <2>5 DEF WishInv
    <3>2. \A i \in valid : Since(rules[i], now) # 0
      BY <2>1, <2>2, <2>5
    <3>3. \/ valid = {} /\ intended.switch = 0
          \/ \E i \in valid : intended.switch = rules[i].value /\ \A j \in valid : ~ ByPresence(rules[j], rules[i], now)
      <4> HIDE DEF now
      <4> QED
        BY <1>3, <2>1, <3>1, <3>2, ChosenIs
    <3> QED
      BY <2>1, <2>3, <3>3
  <2>6. ASSUME intended.twilight # -1, \A i \in dusks : Wishes!SinceStart(rules[i]) # 0
        PROVE  \/ dusks = {} /\ intended.twilight = 100
               \/ \E i \in dusks : /\ intended.twilight = rules[i].value
                                   /\ \A j \in dusks : ~ Wishes!Above(Wishes!TwilightRank(rules[j]), Wishes!TwilightRank(rules[i]))
    <3>1. intended.twilight = Dusk(rules, now)
      BY <2>6 DEF WishInv
    <3>2. \A i \in dusks : Since(rules[i], now) # 0
      BY <2>1, <2>2, <2>6
    <3>3. \/ dusks = {} /\ intended.twilight = 100
          \/ \E i \in dusks : intended.twilight = rules[i].value /\ \A j \in dusks : ~ ByTime(rules[j], rules[i], now)
      <4> HIDE DEF now
      <4> QED
        BY <1>3, <2>1, <3>1, <3>2, DuskIs
    <3> QED
      BY <2>1, <2>3, <3>3
  <2> HIDE DEF dusks
  <2> QED
    BY <1>1, <2>4, <2>5, <2>6 DEF Wishes!MostRelevantWins
<1> QED
  BY <1>2, <1>3

-----------------------------------------------------------------------------
(* Filters (FilterHost).                                                   *)

\* The code's types, and the buffer when it has room for all of them at once.
Roomy ==
  /\ Cardinality(FilterIds) <= MaxFilters
  /\ \A t \in TypeSizes : Cardinality(FilterIds) * (Overhead + t) <= BufferSize

\* Of the sets that are wrong, one has nothing wrong in it.
LEMMA LeastSet ==
  ASSUME NEW D, IsFiniteSet(D), NEW Wrong \in SUBSET SUBSET D, Wrong # {}
  PROVE  \E S \in Wrong : IsFiniteSet(S) /\ \A x \in S : S \ {x} \notin Wrong
<1> DEFINE Sizes == {Cardinality(S) : S \in Wrong}
<1>1. \A S \in SUBSET D : IsFiniteSet(S) /\ Cardinality(S) \in Nat
  BY FS_Subset, FS_CardinalityType
<1>2. Sizes \in SUBSET Nat /\ Sizes # {}
  BY <1>1
<1>3. PICK n \in Sizes : \A m \in Sizes : n <= m
  <2> HIDE DEF Sizes
  <2> QED
    BY <1>2, Smallest
<1>4. PICK S \in Wrong : n = Cardinality(S)
  BY <1>3
<1>5. ASSUME NEW x \in S, S \ {x} \in Wrong PROVE FALSE
  <2>1. IsFiniteSet(S)
    BY <1>1
  <2>2. Cardinality(S \ {x}) = Cardinality(S) - 1
    BY <2>1, FS_RemoveElement
  <2>3. n <= Cardinality(S \ {x})
    BY <1>3, <1>5
  <2> QED
    BY <1>1, <1>2, <1>4, <2>2, <2>3
<1> QED
  BY <1>1, <1>4, <1>5

\* A finite set of numbers has a greatest one.
LEMMA GreatestOf ==
  ASSUME NEW T \in SUBSET Nat, IsFiniteSet(T), T # {}
  PROVE  \E x \in T : \A y \in T : y <= x
<1> DEFINE Wrong == {S \in SUBSET T : S # {} /\ ~ \E x \in S : \A y \in S : y <= x}
<1>1. SUFFICES ASSUME Wrong # {} PROVE FALSE
  OBVIOUS
<1>2. PICK S \in Wrong : IsFiniteSet(S) /\ \A x \in S : S \ {x} \notin Wrong
  <2>1. Wrong \in SUBSET SUBSET T
    OBVIOUS
  <2> HIDE DEF Wrong
  <2> QED
    BY <1>1, <2>1, LeastSet
<1>3. PICK x \in S : TRUE
  BY <1>2
<1>4. S \in SUBSET Nat /\ x \in Nat
  BY <1>2, <1>3
<1>5. CASE S \ {x} = {}
  BY <1>2, <1>3, <1>4, <1>5
<1>6. CASE S \ {x} # {}
  <2>1. PICK z \in S \ {x} : \A y \in S \ {x} : y <= z
    BY <1>2, <1>3, <1>6
  <2>2. \E w \in {x, z} : \A y \in S : y <= w
    BY <1>3, <1>4, <2>1
  <2> QED
    BY <1>2, <1>3, <2>1, <2>2
<1> QED
  BY <1>5, <1>6

\* Of a finite set of keys, one is loaded as the last.
LEMMA LastKey ==
  ASSUME NEW T \in SUBSET (Nat \X Nat), IsFiniteSet(T), T # {}
  PROVE  \E x \in T : \A y \in T \ {x} : Filters!KeyOrder(y, x)
<1> DEFINE Wrong == {S \in SUBSET T : S # {} /\ ~ \E x \in S : \A y \in S \ {x} : Filters!KeyOrder(y, x)}
<1>1. SUFFICES ASSUME Wrong # {} PROVE FALSE
  OBVIOUS
<1>2. PICK S \in Wrong : IsFiniteSet(S) /\ \A x \in S : S \ {x} \notin Wrong
  <2>1. Wrong \in SUBSET SUBSET T
    OBVIOUS
  <2> HIDE DEF Wrong
  <2> QED
    BY <1>1, <2>1, LeastSet
<1>3. PICK x \in S : TRUE
  BY <1>2
<1>4. S \in SUBSET T /\ S \in SUBSET (Nat \X Nat)
  BY <1>2
<1>5. ~ \E w \in S : \A y \in S \ {w} : Filters!KeyOrder(y, w)
  BY <1>2
<1>6. S \ {x} # {} => \E w \in S \ {x} : \A y \in (S \ {x}) \ {w} : Filters!KeyOrder(y, w)
  <2> DEFINE R == S \ {x}
  <2>1. R \notin Wrong
    BY <1>2, <1>3
  <2>2. R \in SUBSET T
    BY <1>4
  <2> HIDE DEF R
  <2>3. R # {} => \E w \in R : \A y \in R \ {w} : Filters!KeyOrder(y, w)
    BY <2>1, <2>2, Zenon
  <2> QED
    BY <2>3 DEF R
<1> HIDE DEF Wrong
<1>7. CASE S \ {x} = {}
  BY <1>3, <1>5, <1>7
<1>8. CASE S \ {x} # {}
  <2>1. PICK z \in S \ {x} : \A y \in (S \ {x}) \ {z} : Filters!KeyOrder(y, z)
    BY <1>6, <1>8
  <2>2. x \in Nat \X Nat /\ z \in Nat \X Nat /\ x # z
    BY <1>3, <1>4, <2>1
  <2>3. Filters!KeyOrder(x, z) \/ Filters!KeyOrder(z, x)
    BY <2>2 DEF Filters!KeyOrder
  <2>4. CASE Filters!KeyOrder(x, z)
    BY <1>5, <2>1, <2>4
  <2>5. CASE Filters!KeyOrder(z, x)
    <3>1. ASSUME NEW y \in S \ {x} PROVE Filters!KeyOrder(y, x)
      <4>1. y = z \/ Filters!KeyOrder(y, z)
        BY <2>1
      <4>2. y \in Nat \X Nat
        BY <1>4
      <4> QED
        BY <2>2, <2>5, <4>1, <4>2 DEF Filters!KeyOrder
    <3> QED
      BY <1>3, <1>5, <3>1
  <2> QED
    BY <2>3, <2>4, <2>5
<1> QED
  BY <1>7, <1>8

-----------------------------------------------------------------------------
(* What the filters take of the buffer.                                    *)

\* A sum over a finite set, one element at a time, each chosen from what is left.
IsSum(h, g, D) ==
  h = [S \in SUBSET D |-> IF S = {} THEN 0 ELSE g[CHOOSE x \in S : TRUE] + h[S \ {CHOOSE x \in S : TRUE}]]

\* Up to sets of n elements.
SumUpTo(h, g, D, n) ==
  /\ h = [S \in SUBSET D |-> h[S]]
  /\ \A S \in SUBSET D : Cardinality(S) <= n =>
       h[S] = IF S = {} THEN 0 ELSE g[CHOOSE x \in S : TRUE] + h[S \ {CHOOSE x \in S : TRUE}]

LEMMA SumExists ==
  ASSUME NEW D, IsFiniteSet(D), NEW g
  PROVE  \E h : IsSum(h, g, D)
<1>1. \A S \in SUBSET D : IsFiniteSet(S) /\ Cardinality(S) \in Nat /\ Cardinality(S) <= Cardinality(D)
  BY FS_Subset, FS_CardinalityType
<1>2. Cardinality(D) \in Nat
  BY FS_CardinalityType
<1>3. \A S \in SUBSET D : S # {} =>
        LET x == CHOOSE x \in S : TRUE
        IN x \in S /\ S \ {x} \in SUBSET D /\ Cardinality(S \ {x}) = Cardinality(S) - 1
  BY <1>1, FS_RemoveElement
<1> DEFINE Fail == {n \in Nat : ~ \E h : SumUpTo(h, g, D, n)}
<1>4. SUFFICES ASSUME Fail # {} PROVE FALSE
  <2>1. Fail = {}
    BY <1>4
  <2>2. PICK h : SumUpTo(h, g, D, Cardinality(D))
    BY <1>2, <2>1
  <2>3. IsSum(h, g, D)
    BY <1>1, <2>2, Zenon DEF SumUpTo, IsSum
  <2> QED
    BY <2>3
<1>5. PICK n \in Fail : \A m \in Fail : n <= m
  <2> HIDE DEF Fail
  <2>1. Fail \in SUBSET Nat
    BY DEF Fail
  <2> QED
    BY <1>4, <2>1, Smallest
<1>6. CASE n = 0
  <2> DEFINE h == [S \in SUBSET D |-> 0]
  <2>1. \A S \in SUBSET D : Cardinality(S) <= 0 => S = {}
    BY <1>1, FS_EmptySet
  <2>2. SumUpTo(h, g, D, 0)
    BY <2>1 DEF SumUpTo
  <2> QED
    BY <1>5, <1>6, <2>2
<1>7. CASE n # 0
  <2>1. n \in Nat /\ n - 1 \in Nat /\ n - 1 \notin Fail
    BY <1>5, <1>7
  <2>2. PICK h : SumUpTo(h, g, D, n - 1)
    BY <2>1
  <2> DEFINE Next1(S) == IF S = {} THEN 0 ELSE g[CHOOSE x \in S : TRUE] + h[S \ {CHOOSE x \in S : TRUE}]
             k == [S \in SUBSET D |-> Next1(S)]
  <2>3. \A S \in SUBSET D : Cardinality(S) <= n - 1 => h[S] = Next1(S)
    BY <2>2 DEF SumUpTo
  <2>4. \A S \in SUBSET D : k[S] = Next1(S)
    OBVIOUS
  <2>5. \A S \in SUBSET D : Cardinality(S) <= n - 1 => k[S] = h[S]
    BY <2>3, <2>4
  <2>6. k = [S \in SUBSET D |-> k[S]]
    OBVIOUS
  <2>7. ASSUME NEW S \in SUBSET D, Cardinality(S) <= n
        PROVE  k[S] = IF S = {} THEN 0 ELSE g[CHOOSE x \in S : TRUE] + k[S \ {CHOOSE x \in S : TRUE}]
    <3> HIDE DEF k
    <3>1. CASE S = {}
      BY <2>4, <3>1
    <3>2. CASE S # {}
      <4> DEFINE x == CHOOSE x \in S : TRUE
      <4>1. S \ {x} \in SUBSET D /\ Cardinality(S \ {x}) = Cardinality(S) - 1
        BY <1>3, <3>2
      <4>2. Cardinality(S \ {x}) <= n - 1
        BY <1>1, <2>1, <2>7, <4>1
      <4>3. k[S \ {x}] = h[S \ {x}]
        BY <2>5, <4>1, <4>2
      <4>4. k[S] = g[x] + h[S \ {x}]
        BY <2>4, <3>2
      <4> QED
        BY <3>2, <4>3, <4>4
    <3> QED
      BY <3>1, <3>2
  <2> HIDE DEF k
  <2>8. SumUpTo(k, g, D, n)
    BY <2>6, <2>7, Zenon DEF SumUpTo
  <2> QED
    BY <1>5, <2>1, <2>8
<1> QED
  BY <1>6, <1>7

\* A sum of numbers of which none is above a limit.
LEMMA SumBound ==
  ASSUME NEW D, IsFiniteSet(D), NEW g \in [D -> Nat], NEW top \in Nat, \A x \in D : g[x] <= top,
         NEW h, IsSum(h, g, D)
  PROVE  h[D] \in Nat /\ h[D] <= Cardinality(D) * top
<1> DEFINE Right(S) == h[S] \in Nat /\ h[S] <= Cardinality(S) * top
           Wrong == {S \in SUBSET D : ~ Right(S)}
<1>1. SUFFICES ASSUME Wrong # {} PROVE FALSE
  OBVIOUS
<1>2. PICK S \in Wrong : IsFiniteSet(S) /\ \A x \in S : S \ {x} \notin Wrong
  <2>1. Wrong \in SUBSET SUBSET D
    OBVIOUS
  <2> HIDE DEF Wrong
  <2> QED
    BY <1>1, <2>1, LeastSet
<1>3. S \in SUBSET D
  BY <1>2
<1>4. h[S] = IF S = {} THEN 0 ELSE g[CHOOSE x \in S : TRUE] + h[S \ {CHOOSE x \in S : TRUE}]
  BY <1>3, Zenon DEF IsSum
<1>5. CASE S = {}
  <2>1. Cardinality(S) = 0
    BY <1>5, FS_EmptySet
  <2>2. h[S] = 0
    BY <1>4, <1>5
  <2> QED
    BY <1>2, <2>1, <2>2
<1>6. CASE S # {}
  <2> DEFINE x == CHOOSE x \in S : TRUE
             R == S \ {x}
  <2>1. x \in S
    BY <1>6
  <2>2. Cardinality(R) = Cardinality(S) - 1 /\ Cardinality(S) \in Nat /\ Cardinality(R) \in Nat
    BY <1>2, <2>1, FS_RemoveElement, FS_CardinalityType
  <2>3. h[S] = g[x] + h[R]
    BY <1>4, <1>6
  <2>4. R \in SUBSET D /\ R \notin Wrong
    BY <1>2, <1>3, <2>1
  <2> HIDE DEF x, R
  <2>5. Right(R)
    BY <2>4
  <2>6. g[x] \in Nat /\ g[x] <= top
    BY <1>3, <2>1
  <2> DEFINE n == Cardinality(S)
             m == Cardinality(R)
             v == h[R]
             w == g[x]
  <2>7. n = m + 1 /\ m \in Nat /\ v \in Nat /\ w \in Nat /\ v <= m * top /\ w <= top
    BY <2>2, <2>5, <2>6
  <2>8. h[S] = w + v
    BY <2>3
  <2> HIDE DEF n, m, v, w
  <2>9. (m + 1) * top = m * top + top /\ m * top \in Nat
    BY <2>7
  <2>10. w + v \in Nat /\ w + v <= n * top
    BY <2>7, <2>9
  <2>11. Right(S)
    BY <2>8, <2>10 DEF n
  <2> QED
    BY <1>2, <2>11
<1> QED
  BY <1>5, <1>6

\* An instance counts as the module does.
LEMMA FiltersCount == \A S : Filters!Cardinality(S) = Cardinality(S)
BY DEF Filters!Cardinality, Cardinality

Data == (0 .. NumPackets) \X (0 .. NumPackets)

\* None is larger than a type, and the filters of different ids count each once.
LEMMA InUseBound ==
  ASSUME NEW f, DOMAIN f \in SUBSET FilterIds, \A i \in DOMAIN f : f[i].content \in Data,
         NEW top \in Nat, \A t \in TypeSizes : t <= top
  PROVE  Filters!InUse(f) \in Nat /\ Filters!InUse(f) <= Cardinality(DOMAIN f) * (Overhead + top)
<1> DEFINE D == DOMAIN f
           g == [i \in D |-> Overhead + Length[f[i].content[1]]]
           most == Overhead + top
<1>1. IsFiniteSet(D)
  BY FS_Subset, FiltersAssumption
<1>2. ASSUME NEW i \in D PROVE Length[f[i].content[1]] \in Nat /\ Length[f[i].content[1]] <= top
  <2> DEFINE c == f[i].content[1]
  <2>1. c \in 0 .. NumPackets
    BY DEF Data
  <2> HIDE DEF c
  <2>2. PICK t \in TypeSizes : Length[c] <= t
    BY <2>1, FiltersAssumption
  <2>3. Length[c] \in Nat /\ t \in Nat /\ t <= top
    BY <2>1, <2>2, FiltersAssumption
  <2>4. Length[c] <= top
    BY <2>2, <2>3
  <2> QED
    BY <2>3, <2>4 DEF c
<1>3. Overhead \in Nat /\ most \in Nat
  BY FiltersAssumption
<1>4. g \in [D -> Nat] /\ \A i \in D : g[i] <= most
  BY <1>2, <1>3
<1>5. PICK h : IsSum(h, g, D)
  <2> HIDE DEF g, D
  <2> QED
    BY <1>1, SumExists
<1>6. Filters!InUse(f) = LET k == CHOOSE k : IsSum(k, g, D) IN k[D]
  BY Zenon DEF Filters!InUse, Filters!FoldFunction, Filters!FoldFunctionOnSet, Filters!MapThenFoldSet, IsSum
<1> DEFINE k == CHOOSE k : IsSum(k, g, D)
<1>7. IsSum(k, g, D)
  BY <1>5
<1> HIDE DEF k, g, D, most
<1>8. k[D] \in Nat /\ k[D] <= Cardinality(D) * most
  BY <1>1, <1>3, <1>4, <1>7, SumBound
<1> QED
  BY <1>6, <1>8 DEF k, D, most

\* The type of a filter is one of the types.
LEMMA StateTypeIs ==
  ASSUME NEW total \in Nat, \E t \in TypeSizes : total <= t
  PROVE  Filters!StateType(total) \in TypeSizes
<1> DEFINE Large == {t \in TypeSizes : total <= t}
<1>1. Large \in SUBSET Nat /\ Large # {}
  BY FiltersAssumption
<1>2. PICK t \in Large : \A u \in Large : t <= u
  <2> HIDE DEF Large
  <2> QED
    BY <1>1, Smallest
<1> QED
  BY <1>2 DEF Filters!StateType

\* A state of a type fits in that type.
LEMMA SizesAreNumbers == \A t \in TypeSizes : t \in Nat /\ t <= t
<1>1. \A t \in TypeSizes : t \in Nat
  BY FiltersAssumption
<1>2. \A t \in Nat : t <= t
  OBVIOUS
<1> QED
  BY <1>1, <1>2

\* A buffer with room for all has room for one more.
LEMMA Fits ==
  ASSUME Roomy, NEW f, DOMAIN f \in SUBSET FilterIds, \A i \in DOMAIN f : f[i].content \in Data,
         NEW id \in FilterIds, id \notin DOMAIN f, NEW total \in Nat, \E t \in TypeSizes : total <= t
  PROVE  Filters!CanAllocate(f, total)
<1> DEFINE D == DOMAIN f
           size == Filters!StateType(total)
<1>1. TypeSizes \in SUBSET Nat /\ IsFiniteSet(TypeSizes) /\ TypeSizes # {} /\ size \in TypeSizes
  BY FiltersAssumption, StateTypeIs
<1>2. PICK top \in TypeSizes : \A t \in TypeSizes : t <= top
  BY <1>1, GreatestOf
<1>3. /\ IsFiniteSet(D) /\ Cardinality(D) \in Nat /\ Cardinality(FilterIds) \in Nat
      /\ Cardinality(D) <= Cardinality(FilterIds) - 1
  <2> DEFINE others == FilterIds \ {id}
  <2>1. IsFiniteSet(others) /\ Cardinality(others) = Cardinality(FilterIds) - 1
    BY FiltersAssumption, FS_RemoveElement
  <2>2. D \in SUBSET others
    OBVIOUS
  <2> HIDE DEF others, D
  <2>3. IsFiniteSet(D) /\ Cardinality(D) <= Cardinality(others)
    BY <2>1, <2>2, FS_Subset
  <2> QED
    BY <2>1, <2>3, FS_CardinalityType, FiltersAssumption
<1>4. top \in Nat /\ \A t \in TypeSizes : t <= top
  BY <1>1, <1>2
<1>5. Filters!InUse(f) \in Nat /\ Filters!InUse(f) <= Cardinality(D) * (Overhead + top)
  BY <1>4, InUseBound
<1>6. size \in Nat /\ size <= top
  BY <1>1, <1>2
<1>7. Cardinality(D) < MaxFilters
  BY <1>3, FiltersAssumption DEF Roomy
<1>8. Cardinality(FilterIds) * (Overhead + top) <= BufferSize
  BY <1>2 DEF Roomy
<1> DEFINE n == Cardinality(D)
           m == Cardinality(FilterIds)
           most == Overhead + top
           used == Filters!InUse(f)
<1>9. Filters!InUse(f) + Overhead + size <= BufferSize
  <2>1. /\ n \in Nat /\ m \in Nat /\ n <= m - 1 /\ most \in Nat /\ used \in Nat /\ used <= n * most
        /\ m * most <= BufferSize /\ BufferSize \in Nat
    BY <1>3, <1>4, <1>5, <1>8, FiltersAssumption
  <2>2. Overhead + size <= most /\ Overhead + size \in Nat
    BY <1>4, <1>6, FiltersAssumption
  <2> HIDE DEF n, m, most, used, size
  <2>3. PICK d \in Nat : m = n + 1 + d
    <3>1. m - n - 1 \in Nat /\ m = n + 1 + (m - n - 1)
      BY <2>1
    <3> QED
      BY <3>1
  <2>4. m * most = (n * most + most) + d * most /\ d * most \in Nat /\ n * most \in Nat
    BY <2>1, <2>3
  <2>5. n * most + most <= BufferSize
    BY <2>1, <2>4
  <2> DEFINE both == Overhead + size
  <2>6. used + both <= BufferSize
    <3> HIDE DEF both
    <3>1. both <= most /\ both \in Nat
      BY <2>2 DEF both
    <3> QED
      BY <2>1, <2>4, <2>5, <3>1
  <2>7. used \in Nat /\ Overhead \in Nat /\ size \in Nat
    BY <1>6, <2>1, FiltersAssumption DEF size
  <2>8. used + Overhead + size <= BufferSize
    BY <2>6, <2>7
  <2> QED
    BY <2>8 DEF used
<1> QED
  BY <1>7, <1>9, FiltersCount DEF Filters!CanAllocate

-----------------------------------------------------------------------------
(* Loading the filters from flash, one key after the other.                *)

LastOf(keys) == CHOOSE k \in keys : \A l \in keys \ {k} : Filters!KeyOrder(l, k)

Before(flash) == [keys |-> << >>, flash |-> flash, stored |-> flash]

IsLoad(h, flash) ==
  h = [keys \in SUBSET DOMAIN flash |->
         IF keys = {} THEN Before(flash)
         ELSE Filters!LoadFilter(h[keys \ {LastOf(keys)}], LastOf(keys))]

LoadUpTo(h, flash, n) ==
  /\ h = [keys \in SUBSET DOMAIN flash |-> h[keys]]
  /\ \A keys \in SUBSET DOMAIN flash : Cardinality(keys) <= n =>
       h[keys] = IF keys = {} THEN Before(flash)
                 ELSE Filters!LoadFilter(h[keys \ {LastOf(keys)}], LastOf(keys))

LEMMA LastOfIs ==
  ASSUME NEW T \in SUBSET (Nat \X Nat), IsFiniteSet(T), T # {}
  PROVE  LastOf(T) \in T
BY LastKey DEF LastOf

LEMMA LoadExists ==
  ASSUME NEW flash, DOMAIN flash \in SUBSET (Nat \X Nat), IsFiniteSet(DOMAIN flash)
  PROVE  \E h : IsLoad(h, flash)
<1> DEFINE D == DOMAIN flash
<1>1. \A S \in SUBSET D : IsFiniteSet(S) /\ Cardinality(S) \in Nat /\ Cardinality(S) <= Cardinality(D)
  BY FS_Subset, FS_CardinalityType
<1>2. Cardinality(D) \in Nat
  BY FS_CardinalityType
<1>3. ASSUME NEW S \in SUBSET D, S # {}
      PROVE  LastOf(S) \in S /\ S \ {LastOf(S)} \in SUBSET D /\ Cardinality(S \ {LastOf(S)}) = Cardinality(S) - 1
  <2>1. LastOf(S) \in S
    BY <1>1, <1>3, LastOfIs
  <2> QED
    BY <1>1, <2>1, FS_RemoveElement
<1> DEFINE Fail == {n \in Nat : ~ \E h : LoadUpTo(h, flash, n)}
<1>4. SUFFICES ASSUME Fail # {} PROVE FALSE
  <2>1. Fail = {}
    BY <1>4
  <2>2. PICK h : LoadUpTo(h, flash, Cardinality(D))
    BY <1>2, <2>1
  <2>3. IsLoad(h, flash)
    BY <1>1, <2>2, Zenon DEF LoadUpTo, IsLoad
  <2> QED
    BY <2>3
<1>5. PICK n \in Fail : \A m \in Fail : n <= m
  <2> HIDE DEF Fail
  <2>1. Fail \in SUBSET Nat
    BY DEF Fail
  <2> QED
    BY <1>4, <2>1, Smallest
<1>6. CASE n = 0
  <2> DEFINE h == [S \in SUBSET D |-> Before(flash)]
  <2>1. \A S \in SUBSET D : Cardinality(S) <= 0 => S = {}
    BY <1>1, FS_EmptySet
  <2>2. LoadUpTo(h, flash, 0)
    BY <2>1 DEF LoadUpTo
  <2> QED
    BY <1>5, <1>6, <2>2
<1>7. CASE n # 0
  <2>1. n \in Nat /\ n - 1 \in Nat /\ n - 1 \notin Fail
    BY <1>5, <1>7
  <2>2. PICK h : LoadUpTo(h, flash, n - 1)
    BY <2>1
  <2> DEFINE Then(S) == IF S = {} THEN Before(flash) ELSE Filters!LoadFilter(h[S \ {LastOf(S)}], LastOf(S))
             k == [S \in SUBSET D |-> Then(S)]
  <2>3. \A S \in SUBSET D : Cardinality(S) <= n - 1 => h[S] = Then(S)
    BY <2>2 DEF LoadUpTo
  <2>4. \A S \in SUBSET D : k[S] = Then(S)
    OBVIOUS
  <2>5. \A S \in SUBSET D : Cardinality(S) <= n - 1 => k[S] = h[S]
    BY <2>3, <2>4
  <2>6. k = [S \in SUBSET D |-> k[S]]
    OBVIOUS
  <2>7. ASSUME NEW S \in SUBSET D, Cardinality(S) <= n
        PROVE  k[S] = IF S = {} THEN Before(flash) ELSE Filters!LoadFilter(k[S \ {LastOf(S)}], LastOf(S))
    <3> HIDE DEF k
    <3>1. CASE S = {}
      BY <2>4, <3>1
    <3>2. CASE S # {}
      <4> DEFINE x == LastOf(S)
      <4>1. S \ {x} \in SUBSET D /\ Cardinality(S \ {x}) = Cardinality(S) - 1
        BY <1>3, <3>2
      <4>2. Cardinality(S \ {x}) <= n - 1
        BY <1>1, <2>1, <2>7, <4>1
      <4>3. k[S \ {x}] = h[S \ {x}]
        BY <2>5, <4>1, <4>2
      <4>4. k[S] = Filters!LoadFilter(h[S \ {x}], x)
        BY <2>4, <3>2
      <4> QED
        BY <3>2, <4>3, <4>4
    <3> QED
      BY <3>1, <3>2
  <2> HIDE DEF k
  <2>8. LoadUpTo(k, flash, n)
    BY <2>6, <2>7, Zenon DEF LoadUpTo
  <2> QED
    BY <1>5, <2>1, <2>8
<1> QED
  BY <1>6, <1>7

LEMMA LoadFiltersIs ==
  ASSUME NEW flash, DOMAIN flash \in SUBSET (Nat \X Nat), IsFiniteSet(DOMAIN flash)
  PROVE  \E h : IsLoad(h, flash) /\ Filters!LoadFilters(flash) = h[DOMAIN flash]
<1> DEFINE h == CHOOSE h : IsLoad(h, flash)
<1>1. IsLoad(h, flash)
  BY LoadExists
<1>2. Filters!LoadFilters(flash) = h[DOMAIN flash]
  BY Zenon DEF Filters!LoadFilters, IsLoad, LastOf, Before
<1> QED
  BY <1>1, <1>2

\* What is kept of filters, by State or in flash: under the key of their contents.
Keyed(f) ==
  /\ f = [k \in DOMAIN f |-> f[k]]
  /\ DOMAIN f \in SUBSET (TypeSizes \X FilterIds)
  /\ \A k \in DOMAIN f : f[k] \in Data /\ k = Filters!StateKey(k[2], f[k])

\* After the keys P of flash: one filter for each id and, if there is room, its
\* key is the only one of P that is left.
LoadInv(flash, P, r) ==
  /\ r = [keys |-> r.keys, flash |-> flash, stored |-> r.stored]
  /\ r.keys = [i \in DOMAIN r.keys |-> r.keys[i]]
  /\ DOMAIN r.keys \in SUBSET FilterIds
  /\ \A i \in DOMAIN r.keys : r.keys[i] \in P /\ r.keys[i][2] = i
  /\ r.stored = [k \in DOMAIN r.stored |-> flash[k]]
  /\ DOMAIN r.stored \in SUBSET DOMAIN flash
  /\ Roomy =>
       /\ \A k \in P : k[2] \in DOMAIN r.keys
       /\ \A k \in P \cap DOMAIN r.stored : k = r.keys[k[2]]
       /\ \A i \in DOMAIN r.keys : r.keys[i] \in DOMAIN r.stored
       /\ DOMAIN flash \ P \in SUBSET DOMAIN r.stored

LEMMA KeepsFinite ==
  ASSUME NEW f, Keyed(f)
  PROVE  DOMAIN f \in SUBSET (Nat \X Nat) /\ IsFiniteSet(DOMAIN f)
<1>1. IsFiniteSet(TypeSizes \X FilterIds)
  BY FiltersAssumption, FS_Product
<1>2. IsFiniteSet(DOMAIN f)
  BY <1>1, FS_Subset DEF Keyed
<1>3. TypeSizes \X FilterIds \in SUBSET (Nat \X Nat)
  BY FiltersAssumption
<1> QED
  BY <1>2, <1>3 DEF Keyed

LEMMA LoadFilterKeeps ==
  ASSUME NEW flash, Keyed(flash), NEW P \in SUBSET DOMAIN flash, NEW r, LoadInv(flash, P, r),
         NEW key \in DOMAIN flash \ P
  PROVE  LoadInv(flash, P \cup {key}, Filters!LoadFilter(r, key))
<1> DEFINE id == key[2]
           ks == Filters!Without(r.keys, {id})
           ws == Filters!Without(r.stored, {Filters!StateKey(id, r.flash[r.keys[id]])})
           freed == IF id \notin DOMAIN r.keys THEN r
                    ELSE [r EXCEPT !.keys = Filters!Without(@, {id}),
                                   !.stored = Filters!Without(@, {Filters!StateKey(id, r.flash[r.keys[id]])})]
           fs == Filters!FromFlash(r.flash, freed.keys)
           room == Filters!CanAllocate(fs, key[1])
           taken == [freed EXCEPT !.keys = Filters!With(@, id, key)]
           Q == P \cup {key}
<1>1. Filters!LoadFilter(r, key) = IF room THEN taken ELSE freed
  BY Zenon DEF Filters!LoadFilter
<1>2. r = [keys |-> r.keys, flash |-> flash, stored |-> r.stored] /\ r.flash = flash
  BY DEF LoadInv
<1>3. key \in TypeSizes \X FilterIds /\ id \in FilterIds /\ key[1] \in TypeSizes /\ key = <<key[1], id>>
  BY DEF Keyed
<1>4. /\ freed = [keys |-> freed.keys, flash |-> flash, stored |-> freed.stored] /\ freed.flash = flash
      /\ freed.keys = [i \in DOMAIN r.keys \ {id} |-> r.keys[i]]
      /\ freed.stored = [k \in (IF id \in DOMAIN r.keys THEN DOMAIN r.stored \ {r.keys[id]}
                                ELSE DOMAIN r.stored) |-> flash[k]]
  <2>1. r.keys = [i \in DOMAIN r.keys |-> r.keys[i]] /\ r.stored = [k \in DOMAIN r.stored |-> flash[k]]
    BY DEF LoadInv
  <2>2. CASE id \notin DOMAIN r.keys
    <3>1. freed = r /\ DOMAIN r.keys \ {id} = DOMAIN r.keys
      BY <2>2
    <3> HIDE DEF freed
    <3> QED
      BY <1>2, <2>1, <2>2, <3>1
  <2>3. CASE id \in DOMAIN r.keys
    <3>1. r.keys[id] \in DOMAIN flash /\ r.keys[id][2] = id
      BY <2>3 DEF LoadInv
    <3>2. Filters!StateKey(id, r.flash[r.keys[id]]) = r.keys[id]
      BY <1>2, <3>1 DEF Keyed
    <3>3. ws = [k \in DOMAIN r.stored \ {r.keys[id]} |-> r.stored[k]]
      BY <3>2 DEF Filters!Without, Filters!Restrict
    <3>4. ks = [i \in DOMAIN r.keys \ {id} |-> r.keys[i]]
      BY DEF Filters!Without, Filters!Restrict
    <3>5. ws = [k \in DOMAIN r.stored \ {r.keys[id]} |-> flash[k]]
      BY <2>1, <3>3
    <3>6. freed = [r EXCEPT !.keys = ks, !.stored = ws]
      BY <2>3
    <3> HIDE DEF freed, ks, ws
    <3>7. freed = [keys |-> ks, flash |-> flash, stored |-> ws]
      BY <1>2, <3>6
    <3> QED
      BY <2>3, <3>4, <3>5, <3>7
  <2> QED
    BY <2>2, <2>3
<1> HIDE DEF freed
<1>5. /\ taken = [keys |-> taken.keys, flash |-> flash, stored |-> freed.stored]
      /\ taken.stored = freed.stored
      /\ taken.keys = [i \in DOMAIN freed.keys \cup {id} |-> IF i = id THEN key ELSE freed.keys[i]]
  <2> DEFINE ts == Filters!With(freed.keys, id, key)
  <2>1. ts = [i \in DOMAIN freed.keys \cup {id} |-> IF i = id THEN key ELSE freed.keys[i]]
    BY DEF Filters!With
  <2>2. taken = [freed EXCEPT !.keys = ts]
    OBVIOUS
  <2> HIDE DEF ts, taken
  <2>3. taken = [keys |-> ts, flash |-> flash, stored |-> freed.stored]
    BY <1>4, <2>2
  <2> QED
    BY <2>1, <2>3
<1>6. Roomy => room
  <2> SUFFICES ASSUME Roomy PROVE room
    OBVIOUS
  <2>1. DOMAIN fs = DOMAIN freed.keys /\ DOMAIN fs \in SUBSET FilterIds /\ id \notin DOMAIN fs
    BY <1>4 DEF Filters!FromFlash, LoadInv
  <2>2. ASSUME NEW i \in DOMAIN fs PROVE fs[i].content \in Data
    <3>1. freed.keys[i] \in DOMAIN flash
      BY <1>4, <2>1, <2>2 DEF LoadInv
    <3>2. fs[i].content = flash[freed.keys[i]]
      BY <1>2, <2>1, <2>2 DEF Filters!FromFlash, Filters!NewFilter
    <3> QED
      BY <3>1, <3>2 DEF Keyed
  <2>3. \A t \in TypeSizes : t \in Nat /\ t <= t
    BY SizesAreNumbers
  <2> HIDE DEF fs, id
  <2> QED
    BY <1>3, <2>1, <2>2, <2>3, Fits
<1> HIDE DEF taken, room
<1>7. \A i \in DOMAIN r.keys : r.keys[i] \in P /\ r.keys[i][2] = i
  BY DEF LoadInv
<1>8. DOMAIN r.keys \in SUBSET FilterIds /\ DOMAIN r.stored \in SUBSET DOMAIN flash
  BY DEF LoadInv
<1>9. Roomy =>
       /\ \A k \in P : k[2] \in DOMAIN r.keys
       /\ \A k \in P \cap DOMAIN r.stored : k = r.keys[k[2]]
       /\ \A i \in DOMAIN r.keys : r.keys[i] \in DOMAIN r.stored
       /\ DOMAIN flash \ P \in SUBSET DOMAIN r.stored
  BY Zenon DEF LoadInv
<1>10. CASE ~ room
  <2>1. Filters!LoadFilter(r, key) = freed /\ ~ Roomy
    BY <1>1, <1>6, <1>10
  <2>2. LoadInv(flash, Q, freed)
    BY <1>4, <1>7, <1>8, <2>1 DEF LoadInv
  <2> QED
    BY <2>1, <2>2
<1>11. CASE room
  <2>1. Filters!LoadFilter(r, key) = taken
    BY <1>1, <1>11
  <2>2. taken.keys = [i \in DOMAIN r.keys \cup {id} |-> IF i = id THEN key ELSE r.keys[i]]
    BY <1>4, <1>5
  <2>3. DOMAIN taken.keys \in SUBSET FilterIds /\ \A i \in DOMAIN taken.keys : taken.keys[i] \in Q /\ taken.keys[i][2] = i
    BY <1>3, <1>7, <1>8, <2>2
  <2>4. taken.stored = [k \in DOMAIN taken.stored |-> flash[k]] /\ DOMAIN taken.stored \in SUBSET DOMAIN flash
    BY <1>4, <1>5, <1>8
  <2>5. DOMAIN taken.stored = IF id \in DOMAIN r.keys THEN DOMAIN r.stored \ {r.keys[id]} ELSE DOMAIN r.stored
    BY <1>4, <1>5
  <2>6. ASSUME Roomy
        PROVE  /\ \A k \in Q : k[2] \in DOMAIN taken.keys
               /\ \A k \in Q \cap DOMAIN taken.stored : k = taken.keys[k[2]]
               /\ \A i \in DOMAIN taken.keys : taken.keys[i] \in DOMAIN taken.stored
               /\ DOMAIN flash \ Q \in SUBSET DOMAIN taken.stored
    <3>1. \A k \in Q : k[2] \in DOMAIN taken.keys
      BY <1>9, <2>2, <2>6
    <3>2. ASSUME NEW k \in Q \cap DOMAIN taken.stored PROVE k = taken.keys[k[2]]
      <4>1. CASE k = key
        BY <2>2, <4>1
      <4>2. CASE k # key
        <5>1. k \in P \cap DOMAIN r.stored
          BY <2>5, <3>2, <4>2
        <5>2. k = r.keys[k[2]] /\ k[2] \in DOMAIN r.keys
          BY <1>9, <2>6, <5>1
        <5>3. k[2] # id
          BY <2>5, <3>2, <5>2
        <5> QED
          BY <2>2, <5>2, <5>3
      <4> QED
        BY <4>1, <4>2
    <3>3. ASSUME NEW i \in DOMAIN taken.keys PROVE taken.keys[i] \in DOMAIN taken.stored
      <4>1. CASE i = id
        <5>1. taken.keys[i] = key /\ key \in DOMAIN r.stored
          BY <1>9, <2>2, <2>6, <4>1
        <5>2. id \in DOMAIN r.keys => key # r.keys[id]
          BY <1>7
        <5> QED
          BY <2>5, <5>1, <5>2
      <4>2. CASE i # id
        <5>1. i \in DOMAIN r.keys /\ taken.keys[i] = r.keys[i] /\ r.keys[i] \in DOMAIN r.stored
          BY <1>9, <2>2, <2>6, <3>3, <4>2
        <5>2. id \in DOMAIN r.keys => r.keys[i] # r.keys[id]
          BY <1>7, <4>2, <5>1
        <5> QED
          BY <2>5, <5>1, <5>2
      <4> QED
        BY <4>1, <4>2
    <3>4. DOMAIN flash \ Q \in SUBSET DOMAIN taken.stored
      BY <1>7, <1>9, <2>5, <2>6
    <3> QED
      BY <3>1, <3>2, <3>3, <3>4
  <2>7. taken = [keys |-> taken.keys, flash |-> flash, stored |-> taken.stored]
    BY <1>5
  <2>8. taken.keys = [i \in DOMAIN taken.keys |-> taken.keys[i]]
    BY <2>2
  <2> HIDE DEF Q
  <2>9. LoadInv(flash, Q, taken)
    BY <2>3, <2>4, <2>6, <2>7, <2>8 DEF LoadInv
  <2> QED
    BY <2>1, <2>9 DEF Q
<1> QED
  BY <1>10, <1>11

\* So it is after all keys.
LEMMA AllLoaded ==
  ASSUME NEW flash, Keyed(flash)
  PROVE  LoadInv(flash, DOMAIN flash, Filters!LoadFilters(flash))
<1> DEFINE D == DOMAIN flash
<1>1. D \in SUBSET (Nat \X Nat) /\ IsFiniteSet(D)
  BY KeepsFinite
<1>2. PICK h : IsLoad(h, flash) /\ Filters!LoadFilters(flash) = h[D]
  BY <1>1, LoadFiltersIs
<1> DEFINE Wrong == {P \in SUBSET D : ~ LoadInv(flash, P, h[P])}
<1>3. SUFFICES ASSUME Wrong # {} PROVE FALSE
  BY <1>2
<1>4. PICK P \in Wrong : IsFiniteSet(P) /\ \A x \in P : P \ {x} \notin Wrong
  <2>1. Wrong \in SUBSET SUBSET D
    OBVIOUS
  <2> HIDE DEF Wrong
  <2> QED
    BY <1>1, <1>3, <2>1, LeastSet
<1>5. P \in SUBSET D /\ ~ LoadInv(flash, P, h[P])
  BY <1>4
<1>6. h[P] = IF P = {} THEN Before(flash) ELSE Filters!LoadFilter(h[P \ {LastOf(P)}], LastOf(P))
  BY <1>2, <1>5, Zenon DEF IsLoad
<1>7. CASE P = {}
  <2>1. LoadInv(flash, {}, Before(flash))
    BY DEF LoadInv, Before, Keyed
  <2> QED
    BY <1>5, <1>6, <1>7, <2>1
<1>8. CASE P # {}
  <2> DEFINE key == LastOf(P)
             R == P \ {key}
  <2>1. key \in P
    BY <1>1, <1>4, <1>5, <1>8, LastOfIs
  <2>2. R \in SUBSET D /\ R \notin Wrong /\ key \in D \ R /\ R \cup {key} = P
    BY <1>4, <1>5, <2>1
  <2>3. h[P] = Filters!LoadFilter(h[R], key)
    BY <1>6, <1>8
  <2> HIDE DEF key, R
  <2>4. LoadInv(flash, R, h[R])
    BY <2>2
  <2>5. LoadInv(flash, R \cup {key}, Filters!LoadFilter(h[R], key))
    BY <2>2, <2>4, LoadFilterKeeps
  <2> QED
    BY <1>5, <2>2, <2>3, <2>5
<1> QED
  BY <1>7, <1>8

-----------------------------------------------------------------------------
(* The store of one stone.  A set K of versions stands for `committed`.    *)

StoneFields ==
  {"filters", "version", "crc", "inProgress", "stored", "storedVersion", "flash", "flashVersion"}

FilterTotals == (Filters!Totals \cup TypeSizes) \cup {Length[0]}

\* A CRC that was calculated is that of the data.
FilterFine(f) ==
  /\ f \in [content : Data, total : FilterTotals, committed : BOOLEAN, crc : Nat]
  /\ f.crc \in {0, Filters!Crc(f.content)}
  /\ f.committed => f.content[1] # 0 /\ f.total = Length[f.content[1]] /\ f.crc = Filters!Crc(f.content)

StoreFine(s) ==
  /\ DOMAIN s = StoneFields
  /\ s.filters = [i \in DOMAIN s.filters |-> s.filters[i]]
  /\ DOMAIN s.filters \in SUBSET FilterIds
  /\ \A i \in DOMAIN s.filters : FilterFine(s.filters[i])
  /\ Keyed(s.stored) /\ Keyed(s.flash)

KeyOf(s, i) == Filters!StateKey(i, s.filters[i].content)

\* State has the filters that are committed, or those that are not, and no others.
Kept(s, c) ==
  /\ \A k \in DOMAIN s.stored :
       /\ k[2] \in DOMAIN s.filters /\ s.filters[k[2]].committed = c
       /\ s.stored[k] = s.filters[k[2]].content
  /\ \A i \in DOMAIN s.filters : s.filters[i].committed = c => KeyOf(s, i) \in DOMAIN s.stored

\* A version, in RAM or in flash, was committed.
Dated(K, v) ==
  v.version \in 0 .. MaxVersion /\ (v.version # 0 => <<"stone", v.version, v.crc>> \in K)

VersionFine(s) ==
  s.version # 0 =>
    /\ ~ s.inProgress /\ Filters!DataCrc(s.filters) = s.crc
    /\ s.storedVersion = [version |-> s.version, crc |-> s.crc]

StoneFine(K, s) ==
  /\ StoreFine(s)
  /\ Roomy => Kept(s, TRUE)
  /\ s.inProgress \in BOOLEAN
  /\ Dated(K, s) /\ Dated(K, s.storedVersion) /\ Dated(K, s.flashVersion)
  /\ VersionFine(s)
  /\ ~ s.inProgress => Filters!Uncommitted(s) = {}

SameVersions(s, t) ==
  /\ t.version = s.version /\ t.crc = s.crc /\ t.inProgress = s.inProgress
  /\ t.storedVersion = s.storedVersion /\ t.flashVersion = s.flashVersion /\ t.flash = s.flash

\* What is made of a store has its versions, and keeps what it kept.
FineToo(s, t) == StoreFine(t) /\ SameVersions(s, t) /\ \A c \in BOOLEAN : Kept(s, c) => Kept(t, c)

LEMMA FreshFine == ASSUME NEW K PROVE StoneFine(K, Filters!Fresh)
<1> DEFINE s == Filters!Fresh
<1>1. /\ DOMAIN s = StoneFields /\ s.filters = << >> /\ s.stored = << >> /\ s.flash = << >>
      /\ s.version = 0 /\ s.inProgress = FALSE
      /\ s.storedVersion = Filters!NoVersion /\ s.flashVersion = Filters!NoVersion
  BY DEF Filters!Fresh, StoneFields
<1>2. Filters!NoVersion.version = 0 /\ 0 \in 0 .. MaxVersion
  BY FiltersAssumption DEF Filters!NoVersion
<1> HIDE DEF s
<1>3. /\ DOMAIN << >> = {} /\ << >> = [i \in {} |-> << >>[i]]
  OBVIOUS
<1>4. Keyed(<< >>)
  BY <1>3 DEF Keyed
<1>5. StoreFine(s) /\ Kept(s, TRUE)
  BY <1>1, <1>3, <1>4 DEF StoreFine, Kept
<1>6. Filters!Uncommitted(s) = {}
  BY <1>1, <1>3 DEF Filters!Uncommitted
<1>7. Dated(K, s) /\ Dated(K, s.storedVersion) /\ Dated(K, s.flashVersion)
  BY <1>1, <1>2 DEF Dated
<1> QED
  BY <1>1, <1>5, <1>6, <1>7 DEF StoneFine, VersionFine, s

\* The key of a filter.
LEMMA KeyIs ==
  ASSUME NEW i \in FilterIds, NEW c \in Data
  PROVE  /\ Filters!StateKey(i, c) \in TypeSizes \X FilterIds /\ Filters!StateKey(i, c)[2] = i
         /\ Length[c[1]] \in Nat /\ Length[c[1]] \in FilterTotals
<1> DEFINE d == c[1]
<1>1. d \in 0 .. NumPackets
  BY DEF Data
<1> HIDE DEF d
<1>2. Length[d] \in Nat /\ \E t \in TypeSizes : Length[d] <= t
  BY <1>1, FiltersAssumption
<1>3. Filters!StateType(Length[d]) \in TypeSizes
  BY <1>2, StateTypeIs
<1>4. d = 0 \/ d \in 1 .. NumPackets
  BY <1>1, FiltersAssumption
<1>5. Length[d] \in FilterTotals
  BY <1>4 DEF FilterTotals, Filters!Totals
<1>6. Filters!StateKey(i, c) = <<Filters!StateType(Length[d]), i>>
  BY DEF Filters!StateKey, d
<1> QED
  BY <1>2, <1>3, <1>5, <1>6 DEF d

\* Filters go, and what is kept of them.
LEMMA DeallocateIs ==
  ASSUME NEW s, StoreFine(s), NEW ids \in SUBSET DOMAIN s.filters, NEW t, t = Filters!Deallocate(s, ids)
  PROVE  FineToo(s, t) /\ t.filters = Filters!Without(s.filters, ids)
<1> DEFINE gone == {Filters!StateKey(i, s.filters[i].content) : i \in ids}
           fs == [i \in DOMAIN s.filters \ ids |-> s.filters[i]]
           ks == [k \in DOMAIN s.stored \ gone |-> s.stored[k]]
<1>1. t = [s EXCEPT !.filters = fs, !.stored = ks]
  BY DEF Filters!Deallocate, Filters!Without, Filters!Restrict
<1>2. \A i \in ids : Filters!StateKey(i, s.filters[i].content)[2] = i
  BY DEF Filters!StateKey
<1>3. \A k \in gone : k[2] \in ids /\ k = KeyOf(s, k[2])
  BY <1>2 DEF KeyOf
<1>4. \A i \in ids : KeyOf(s, i) \in gone
  BY DEF KeyOf
<1>5. Keyed(ks)
  BY DEF StoreFine, Keyed
<1>6. DOMAIN fs = DOMAIN s.filters \ ids /\ DOMAIN ks = DOMAIN s.stored \ gone
  OBVIOUS
<1>7. \A i \in DOMAIN fs : fs[i] = s.filters[i]
  OBVIOUS
<1>8. \A k \in DOMAIN ks : ks[k] = s.stored[k]
  OBVIOUS
<1>9. fs = [i \in DOMAIN fs |-> fs[i]]
  OBVIOUS
<1> HIDE DEF fs, ks, gone
<1>10. DOMAIN t = StoneFields /\ t.filters = fs /\ t.stored = ks /\ t.flash = s.flash
  BY <1>1 DEF StoreFine, StoneFields
<1>11. SameVersions(s, t)
  BY <1>1 DEF SameVersions, StoreFine, StoneFields
<1>12. StoreFine(t)
  BY <1>5, <1>6, <1>7, <1>9, <1>10 DEF StoreFine
<1>13. ASSUME NEW c \in BOOLEAN, Kept(s, c) PROVE Kept(t, c)
  <2>1. ASSUME NEW k \in DOMAIN t.stored
        PROVE  /\ k[2] \in DOMAIN t.filters /\ t.filters[k[2]].committed = c
               /\ t.stored[k] = t.filters[k[2]].content
    <3>1. k \in DOMAIN s.stored /\ k \notin gone /\ t.stored[k] = s.stored[k]
      BY <1>6, <1>8, <1>10, <2>1
    <3>2. /\ k[2] \in DOMAIN s.filters /\ s.filters[k[2]].committed = c
          /\ s.stored[k] = s.filters[k[2]].content
      BY <1>13, <3>1 DEF Kept
    <3>3. k = KeyOf(s, k[2])
      BY <3>1, <3>2 DEF StoreFine, Keyed, KeyOf
    <3>4. k[2] \notin ids
      BY <1>4, <3>1, <3>3
    <3> QED
      BY <1>6, <1>7, <1>10, <3>1, <3>2, <3>4
  <2>2. ASSUME NEW i \in DOMAIN t.filters, t.filters[i].committed = c PROVE KeyOf(t, i) \in DOMAIN t.stored
    <3>1. i \in DOMAIN s.filters /\ i \notin ids /\ t.filters[i] = s.filters[i]
      BY <1>6, <1>7, <1>10, <2>2
    <3>2. KeyOf(s, i) \in DOMAIN s.stored /\ KeyOf(t, i) = KeyOf(s, i)
      BY <1>13, <2>2, <3>1 DEF Kept, KeyOf
    <3>3. KeyOf(s, i)[2] = i
      BY DEF KeyOf, Filters!StateKey
    <3>4. KeyOf(s, i) \notin gone
      BY <1>3, <3>1, <3>3
    <3> QED
      BY <1>6, <1>10, <3>2, <3>4
  <2> QED
    BY <2>1, <2>2 DEF Kept
<1> QED
  BY <1>6, <1>10, <1>11, <1>12, <1>13 DEF fs, Filters!Without, Filters!Restrict, FineToo

\* A modification ends the version.
LEMMA StartIs ==
  ASSUME NEW s, StoreFine(s), NEW t, t = Filters!StartInProgress(s)
  PROVE  /\ StoreFine(t) /\ t.version = 0 /\ t.inProgress = TRUE /\ t.filters = s.filters /\ t.stored = s.stored
         /\ t.storedVersion = s.storedVersion /\ t.flashVersion = s.flashVersion
         /\ \A c \in BOOLEAN : Kept(s, c) => Kept(t, c)
<1>1. /\ DOMAIN t = StoneFields /\ t.version = 0 /\ t.inProgress = TRUE /\ t.filters = s.filters
      /\ t.stored = s.stored /\ t.flash = s.flash
      /\ t.storedVersion = s.storedVersion /\ t.flashVersion = s.flashVersion
  BY DEF StoreFine, StoneFields, Filters!StartInProgress
<1>2. StoreFine(t)
  BY <1>1 DEF StoreFine
<1> QED
  BY <1>1, <1>2 DEF Kept, KeyOf

LEMMA Modified ==
  ASSUME NEW K, NEW s, StoneFine(K, s), NEW t, StoreFine(t), Roomy => Kept(t, TRUE),
         t.version = 0, t.inProgress = TRUE,
         t.storedVersion = s.storedVersion, t.flashVersion = s.flashVersion
  PROVE  StoneFine(K, t)
<1>1. 0 \in 0 .. MaxVersion
  BY FiltersAssumption
<1>2. Dated(K, t) /\ VersionFine(t)
  BY <1>1 DEF Dated, VersionFine
<1> QED
  BY <1>2 DEF StoneFine

\* A chunk is written to a filter that is new or has no CRC yet.
LEMMA UploadFine ==
  ASSUME NEW K, NEW s, StoneFine(K, s), NEW id \in FilterIds, NEW total \in Filters!Totals,
         NEW chunk \in 1 .. 2, NEW packet \in 1 .. NumPackets,
         id \in DOMAIN s.filters => s.filters[id].committed \/ s.filters[id].crc = 0,
         NEW r, r = Filters!HandleUpload(s, id, total, chunk, packet)
  PROVE  StoneFine(K, r.s)
<1> DEFINE begun == Filters!StartInProgress(s)
           freed == Filters!Deallocate(begun, {id})
           ready == Filters!ForUpload(s, id)
           f == IF id \in DOMAIN ready.filters THEN ready.filters[id] ELSE Filters!NewFilter(total)
           g == [f EXCEPT !.content[chunk] = packet]
           w == Filters!WriteChunk(ready, id, total, chunk, packet)
           dropped == Filters!Deallocate(ready, {id})
<1>1. StoreFine(s) /\ (Roomy => Kept(s, TRUE))
  BY DEF StoneFine
<1>2. /\ StoreFine(begun) /\ begun.version = 0 /\ begun.inProgress = TRUE /\ begun.filters = s.filters
      /\ begun.storedVersion = s.storedVersion /\ begun.flashVersion = s.flashVersion
      /\ Kept(s, TRUE) => Kept(begun, TRUE)
  BY <1>1, StartIs
<1>3. ready = IF id \in DOMAIN s.filters /\ s.filters[id].committed THEN freed ELSE begun
  BY DEF Filters!ForUpload, Filters!Uncommitted
<1> HIDE DEF begun, freed, ready
<1>4. id \in DOMAIN s.filters =>
        /\ StoreFine(freed) /\ SameVersions(begun, freed)
        /\ freed.filters = Filters!Without(s.filters, {id})
        /\ Kept(begun, TRUE) => Kept(freed, TRUE)
  <2> DEFINE ids == {id}
  <2> SUFFICES ASSUME ids \in SUBSET DOMAIN begun.filters
               PROVE  /\ StoreFine(freed) /\ SameVersions(begun, freed)
                      /\ freed.filters = Filters!Without(begun.filters, ids)
                      /\ Kept(begun, TRUE) => Kept(freed, TRUE)
    BY <1>2
  <2>1. freed = Filters!Deallocate(begun, ids)
    BY DEF freed
  <2> HIDE DEF ids
  <2>2. FineToo(begun, freed) /\ freed.filters = Filters!Without(begun.filters, ids)
    BY <1>2, <2>1, DeallocateIs
  <2> QED
    BY <2>2 DEF FineToo
<1>5. /\ StoreFine(ready) /\ ready.version = 0 /\ ready.inProgress = TRUE
      /\ ready.storedVersion = s.storedVersion /\ ready.flashVersion = s.flashVersion
      /\ Roomy => Kept(ready, TRUE)
  BY <1>1, <1>2, <1>3, <1>4 DEF SameVersions
<1>6. id \in DOMAIN ready.filters => ready.filters[id].crc = 0 /\ ready.filters[id].committed = FALSE
  <2>1. CASE id \in DOMAIN s.filters /\ s.filters[id].committed
    <3>1. ready.filters = Filters!Without(s.filters, {id})
      BY <1>3, <1>4, <2>1
    <3> QED
      BY <3>1 DEF Filters!Without, Filters!Restrict
  <2>2. CASE ~ (id \in DOMAIN s.filters /\ s.filters[id].committed)
    <3>1. ready.filters = s.filters
      BY <1>2, <1>3, <2>2
    <3>2. id \in DOMAIN s.filters => s.filters[id].committed \in BOOLEAN
      BY <1>1 DEF StoreFine, FilterFine
    <3> QED
      BY <2>2, <3>1, <3>2
  <2> QED
    BY <2>1, <2>2
<1>7. id \in DOMAIN ready.filters =>
        StoreFine(dropped) /\ SameVersions(ready, dropped) /\ (Kept(ready, TRUE) => Kept(dropped, TRUE))
  <2> DEFINE ids == {id}
  <2> SUFFICES ASSUME ids \in SUBSET DOMAIN ready.filters
               PROVE  StoreFine(dropped) /\ SameVersions(ready, dropped) /\ (Kept(ready, TRUE) => Kept(dropped, TRUE))
    OBVIOUS
  <2>1. dropped = Filters!Deallocate(ready, ids)
    OBVIOUS
  <2> HIDE DEF ids, dropped
  <2>2. FineToo(ready, dropped)
    BY <1>5, <2>1, DeallocateIs
  <2> QED
    BY <2>2 DEF FineToo
<1>8. FilterFine(f) /\ f.crc = 0 /\ f.committed = FALSE
  <2>1. CASE id \in DOMAIN ready.filters
    BY <1>5, <1>6, <2>1 DEF StoreFine
  <2>2. CASE id \notin DOMAIN ready.filters
    <3>1. f = [content |-> <<0, 0>>, total |-> total, committed |-> FALSE, crc |-> 0]
      BY <2>2 DEF Filters!NewFilter
    <3>2. <<0, 0>> \in Data
      BY FiltersAssumption DEF Data
    <3>3. total \in FilterTotals
      BY DEF FilterTotals
    <3> HIDE DEF f
    <3> QED
      BY <3>1, <3>2, <3>3 DEF FilterFine
  <2> QED
    BY <2>1, <2>2
<1> HIDE DEF f, dropped
<1>9. FilterFine(g) /\ g.committed = FALSE
  <2> DEFINE c == f.content
             d == [c EXCEPT ![chunk] = packet]
  <2>1. c \in Data
    BY <1>8 DEF FilterFine
  <2>2. d \in Data
    <3>1. PICK x \in 0 .. NumPackets, y \in 0 .. NumPackets : c = <<x, y>>
      BY <2>1 DEF Data
    <3>2. packet \in 0 .. NumPackets
      BY FiltersAssumption
    <3> HIDE DEF c
    <3>3. CASE chunk = 1
      <4>1. d = <<packet, y>>
        BY <3>1, <3>3
      <4> QED
        BY <3>2, <4>1 DEF Data
    <3>4. CASE chunk = 2
      <4>1. d = <<x, packet>>
        BY <3>1, <3>4
      <4> QED
        BY <3>2, <4>1 DEF Data
    <3> QED
      BY <3>3, <3>4
  <2>3. g = [f EXCEPT !.content = d]
    BY <1>8 DEF FilterFine
  <2> HIDE DEF c, d
  <2>4. g = [content |-> d, total |-> f.total, committed |-> f.committed, crc |-> f.crc]
    BY <1>8, <2>3 DEF FilterFine
  <2> HIDE DEF g
  <2> QED
    BY <1>8, <2>2, <2>4 DEF FilterFine
<1>10. StoreFine(w) /\ SameVersions(ready, w) /\ (Roomy => Kept(w, TRUE))
  <2> DEFINE fs == Filters!With(ready.filters, id, g)
  <2>1. w = [ready EXCEPT !.filters = fs]
    BY DEF Filters!WriteChunk, f
  <2> HIDE DEF g
  <2>2. fs = [i \in DOMAIN ready.filters \cup {id} |-> IF i = id THEN g ELSE ready.filters[i]]
    BY DEF Filters!With
  <2>3. /\ DOMAIN fs = DOMAIN ready.filters \cup {id} /\ fs[id] = g /\ fs = [i \in DOMAIN fs |-> fs[i]]
        /\ \A i \in DOMAIN ready.filters \ {id} : fs[i] = ready.filters[i]
    BY <2>2
  <2> HIDE DEF fs, w
  <2>4. DOMAIN w = StoneFields /\ w.filters = fs /\ w.stored = ready.stored /\ SameVersions(ready, w)
    BY <1>5, <2>1 DEF StoreFine, StoneFields, SameVersions
  <2>5. StoreFine(w)
    BY <1>5, <1>9, <2>3, <2>4 DEF StoreFine, SameVersions
  <2>6. ASSUME Roomy PROVE Kept(w, TRUE)
    <3>1. Kept(ready, TRUE)
      BY <1>5, <2>6
    <3>2. ASSUME NEW k \in DOMAIN w.stored
          PROVE  /\ k[2] \in DOMAIN w.filters /\ w.filters[k[2]].committed = TRUE
                 /\ w.stored[k] = w.filters[k[2]].content
      <4>1. /\ k[2] \in DOMAIN ready.filters /\ ready.filters[k[2]].committed = TRUE
            /\ ready.stored[k] = ready.filters[k[2]].content
        BY <2>4, <3>1, <3>2 DEF Kept
      <4>2. k[2] # id
        BY <1>6, <4>1
      <4> QED
        BY <2>3, <2>4, <4>1, <4>2
    <3>3. ASSUME NEW i \in DOMAIN w.filters, w.filters[i].committed = TRUE PROVE KeyOf(w, i) \in DOMAIN w.stored
      <4>1. i # id
        BY <1>9, <2>3, <2>4, <3>3
      <4>2. i \in DOMAIN ready.filters /\ w.filters[i] = ready.filters[i]
        BY <2>3, <2>4, <3>3, <4>1
      <4> QED
        BY <2>4, <3>1, <3>3, <4>2 DEF Kept, KeyOf
    <3> QED
      BY <3>2, <3>3 DEF Kept
  <2> QED
    BY <2>4, <2>5, <2>6
<1>11. \/ r.s = dropped /\ id \in DOMAIN ready.filters
       \/ r.s = ready
       \/ r.s = w
  BY DEF Filters!HandleUpload, ready, dropped
<1> HIDE DEF w
<1>12. StoreFine(r.s) /\ (Roomy => Kept(r.s, TRUE))
  BY <1>5, <1>7, <1>10, <1>11
<1>13. /\ r.s.version = 0 /\ r.s.inProgress = TRUE
       /\ r.s.storedVersion = s.storedVersion /\ r.s.flashVersion = s.flashVersion
  BY <1>5, <1>7, <1>10, <1>11 DEF SameVersions
<1> QED
  BY <1>12, <1>13, Modified

LEMMA RemoveFine ==
  ASSUME NEW K, NEW s, StoneFine(K, s), NEW id, NEW r, r = Filters!HandleRemove(s, id)
  PROVE  StoneFine(K, r.s)
<1> DEFINE d == Filters!Deallocate(s, {id})
           t == Filters!StartInProgress(d)
<1>1. CASE id \notin DOMAIN s.filters
  BY <1>1 DEF Filters!HandleRemove
<1>2. CASE id \in DOMAIN s.filters
  <2>1. r.s = t
    BY <1>2 DEF Filters!HandleRemove
  <2>2. StoreFine(s) /\ (Roomy => Kept(s, TRUE))
    BY DEF StoneFine
  <2> DEFINE ids == {id}
  <2>6. ids \in SUBSET DOMAIN s.filters /\ d = Filters!Deallocate(s, ids)
    BY <1>2
  <2> HIDE DEF d, ids
  <2>3. StoreFine(d) /\ SameVersions(s, d) /\ (Kept(s, TRUE) => Kept(d, TRUE))
    <3>1. FineToo(s, d)
      BY <2>2, <2>6, DeallocateIs
    <3> QED
      BY <3>1 DEF FineToo
  <2> HIDE DEF d
  <2>4. /\ StoreFine(t) /\ t.version = 0 /\ t.inProgress = TRUE
        /\ t.storedVersion = d.storedVersion /\ t.flashVersion = d.flashVersion
        /\ Kept(d, TRUE) => Kept(t, TRUE)
    BY <2>3, StartIs
  <2> HIDE DEF t
  <2>5. t.storedVersion = s.storedVersion /\ t.flashVersion = s.flashVersion /\ (Roomy => Kept(t, TRUE))
    BY <2>2, <2>3, <2>4 DEF SameVersions
  <2> QED
    BY <2>1, <2>4, <2>5, Modified
<1> QED
  BY <1>1, <1>2

\* A modification that takes too long.
LEMMA DropFine ==
  ASSUME NEW K, NEW s, StoneFine(K, s), s.inProgress, NEW t, t = Filters!DropUncommitted(s)
  PROVE  StoneFine(K, t)
<1> DEFINE open == Filters!Uncommitted(s)
           d == Filters!Deallocate(s, open)
<1>1. open \in SUBSET DOMAIN s.filters /\ StoreFine(s) /\ (Roomy => Kept(s, TRUE)) /\ s.version = 0
  BY DEF Filters!Uncommitted, StoneFine, VersionFine
<1>2. /\ StoreFine(d) /\ SameVersions(s, d) /\ (Kept(s, TRUE) => Kept(d, TRUE))
      /\ d.filters = Filters!Without(s.filters, open)
  <2>1. d = Filters!Deallocate(s, open)
    OBVIOUS
  <2> HIDE DEF open, d
  <2>2. FineToo(s, d) /\ d.filters = Filters!Without(s.filters, open)
    BY <1>1, <2>1, DeallocateIs
  <2> QED
    BY <2>2 DEF FineToo
<1>3. t = [d EXCEPT !.inProgress = FALSE]
  BY DEF Filters!DropUncommitted
<1> HIDE DEF d
<1>4. /\ DOMAIN t = StoneFields /\ t.filters = d.filters /\ t.stored = d.stored /\ t.flash = d.flash
      /\ t.version = 0 /\ t.inProgress = FALSE
      /\ t.storedVersion = s.storedVersion /\ t.flashVersion = s.flashVersion
  BY <1>1, <1>2, <1>3 DEF StoreFine, StoneFields, SameVersions
<1>5. StoreFine(t)
  BY <1>2, <1>4 DEF StoreFine
<1>6. Kept(d, TRUE) => Kept(t, TRUE)
  BY <1>4 DEF Kept, KeyOf
<1>7. Filters!Uncommitted(t) = {}
  BY <1>2, <1>4 DEF Filters!Uncommitted, Filters!Without, Filters!Restrict
<1>8. 0 \in 0 .. MaxVersion
  BY FiltersAssumption
<1>9. Dated(K, t) /\ VersionFine(t)
  BY <1>4, <1>8 DEF Dated, VersionFine
<1> QED
  BY <1>1, <1>2, <1>4, <1>5, <1>6, <1>7, <1>9 DEF StoneFine

\* The CRCs are calculated.
LEMMA ComputeIs ==
  ASSUME NEW s, StoreFine(s), NEW t, t = Filters!ComputeCrcs(s)
  PROVE  /\ StoreFine(t) /\ SameVersions(s, t) /\ t.stored = s.stored /\ DOMAIN t.filters = DOMAIN s.filters
         /\ \A i \in DOMAIN s.filters :
              /\ t.filters[i].content = s.filters[i].content /\ t.filters[i].total = s.filters[i].total
              /\ t.filters[i].committed = s.filters[i].committed
              /\ t.filters[i].crc = Filters!Crc(s.filters[i].content)
         /\ \A c \in BOOLEAN : Kept(s, c) => Kept(t, c)
<1> DEFINE fs == [i \in DOMAIN s.filters |->
                    IF s.filters[i].crc = 0 THEN [s.filters[i] EXCEPT !.crc = Filters!Crc(s.filters[i].content)]
                    ELSE s.filters[i]]
<1>1. t = [s EXCEPT !.filters = fs]
  BY DEF Filters!ComputeCrcs
<1>2. ASSUME NEW i \in DOMAIN s.filters
      PROVE  /\ FilterFine(fs[i]) /\ fs[i].content = s.filters[i].content /\ fs[i].total = s.filters[i].total
             /\ fs[i].committed = s.filters[i].committed /\ fs[i].crc = Filters!Crc(s.filters[i].content)
  <2> DEFINE f == s.filters[i]
             sum == Filters!Crc(f.content)
             g == IF f.crc = 0 THEN [f EXCEPT !.crc = sum] ELSE f
  <2>1. fs[i] = g
    OBVIOUS
  <2>2. FilterFine(f)
    BY DEF StoreFine
  <2> HIDE DEF fs, f, sum
  <2>3. sum \in Nat
    <3>1. f.content[1] \in Nat /\ f.content[2] \in Nat /\ NumPackets + 1 \in Nat
      BY <2>2, FiltersAssumption DEF FilterFine, Data
    <3>2. f.content[1] * (NumPackets + 1) \in Nat
      BY <3>1
    <3> QED
      BY <3>1, <3>2 DEF sum, Filters!Crc
  <2>4. g = [content |-> f.content, total |-> f.total, committed |-> f.committed, crc |-> sum]
    <3>1. CASE f.crc = 0
      BY <2>2, <3>1 DEF FilterFine
    <3>2. CASE f.crc # 0
      <4>1. g = f /\ f.crc = sum
        BY <2>2, <3>2 DEF FilterFine, sum
      <4> HIDE DEF g
      <4> QED
        BY <2>2, <4>1 DEF FilterFine
    <3> QED
      BY <3>1, <3>2
  <2> HIDE DEF g
  <2>5. FilterFine(g)
    BY <2>2, <2>3, <2>4 DEF FilterFine, sum
  <2> QED
    BY <2>1, <2>4, <2>5 DEF f, sum
<1>3. DOMAIN fs = DOMAIN s.filters /\ fs = [i \in DOMAIN fs |-> fs[i]]
  OBVIOUS
<1> HIDE DEF fs
<1>4. DOMAIN t = StoneFields /\ t.filters = fs /\ t.stored = s.stored /\ SameVersions(s, t)
  BY <1>1 DEF StoreFine, StoneFields, SameVersions
<1>5. StoreFine(t)
  BY <1>2, <1>3, <1>4 DEF StoreFine, SameVersions
<1>6. ASSUME NEW c \in BOOLEAN, Kept(s, c) PROVE Kept(t, c)
  BY <1>2, <1>3, <1>4, <1>6 DEF Kept, KeyOf
<1> QED
  BY <1>2, <1>3, <1>4, <1>5, <1>6

\* What a commit makes of a filter.
Sealed(c) == [content |-> c, total |-> Length[c[1]], committed |-> TRUE, crc |-> Filters!Crc(c)]

LEMMA SealedIs ==
  ASSUME NEW f, FilterFine(f), f.committed
  PROVE  f = Sealed(f.content)
BY DEF FilterFine, Sealed

LEMMA MarkIs ==
  ASSUME NEW s, StoreFine(s), Filters!InvalidFilters(s) = {}, NEW u, u = Filters!ComputeCrcs(s),
         NEW w, DOMAIN w = StoneFields, w.filters = u.filters, NEW t, t = Filters!MarkCommitted(w)
  PROVE  /\ DOMAIN t = StoneFields /\ SameVersions(w, t) /\ t.stored = w.stored
         /\ t.filters = [i \in DOMAIN s.filters |-> Sealed(s.filters[i].content)]
         /\ \A i \in DOMAIN s.filters : FilterFine(Sealed(s.filters[i].content))
<1> DEFINE fs == [i \in DOMAIN w.filters |-> [w.filters[i] EXCEPT !.committed = TRUE]]
<1>1. /\ StoreFine(u) /\ DOMAIN u.filters = DOMAIN s.filters
      /\ \A i \in DOMAIN s.filters :
           /\ u.filters[i].content = s.filters[i].content /\ u.filters[i].total = s.filters[i].total
           /\ u.filters[i].committed = s.filters[i].committed
           /\ u.filters[i].crc = Filters!Crc(s.filters[i].content)
  BY ComputeIs
<1>2. ASSUME NEW i \in DOMAIN s.filters
      PROVE  fs[i] = Sealed(s.filters[i].content) /\ FilterFine(Sealed(s.filters[i].content))
  <2> DEFINE f == s.filters[i]
             g == u.filters[i]
  <2>1. FilterFine(f) /\ FilterFine(g)
    BY <1>1 DEF StoreFine
  <2>2. g.content = f.content /\ g.total = f.total /\ g.crc = Filters!Crc(f.content)
    BY <1>1
  <2>3. f.content[1] # 0 /\ f.total = Length[f.content[1]]
    <3>1. CASE f.committed
      BY <2>1, <3>1 DEF FilterFine
    <3>2. CASE ~ f.committed
      <4>1. i \in Filters!Uncommitted(s) /\ i \notin Filters!InvalidFilters(s)
        BY <3>2 DEF Filters!Uncommitted
      <4> QED
        BY <4>1 DEF Filters!InvalidFilters
    <3> QED
      BY <3>1, <3>2
  <2>4. fs[i] = [g EXCEPT !.committed = TRUE]
    BY <1>1
  <2> HIDE DEF f, g, fs
  <2>5. fs[i] = [content |-> g.content, total |-> g.total, committed |-> TRUE, crc |-> g.crc]
    BY <2>1, <2>4 DEF FilterFine
  <2>6. fs[i] = Sealed(f.content)
    BY <2>2, <2>3, <2>5 DEF Sealed
  <2>7. FilterFine(Sealed(f.content))
    BY <2>1, <2>2, <2>3 DEF FilterFine, Sealed
  <2> QED
    BY <2>6, <2>7 DEF f
<1>3. t = [w EXCEPT !.filters = fs]
  BY DEF Filters!MarkCommitted
<1>4. fs = [i \in DOMAIN s.filters |-> Sealed(s.filters[i].content)]
  BY <1>1, <1>2
<1> HIDE DEF fs
<1>5. DOMAIN t = StoneFields /\ SameVersions(w, t) /\ t.stored = w.stored /\ t.filters = fs
  BY <1>3 DEF StoneFields, SameVersions
<1> QED
  BY <1>2, <1>4, <1>5

\* What is not committed yet is stored.
AllStored(s, held) ==
  /\ \A k \in DOMAIN held : k[2] \in DOMAIN s.filters /\ held[k] = s.filters[k[2]].content
  /\ \A i \in DOMAIN s.filters : KeyOf(s, i) \in DOMAIN held

LEMMA StoreFiltersIs ==
  ASSUME NEW s, StoreFine(s), NEW t, t = Filters!StoreFilters(s)
  PROVE  /\ DOMAIN t = StoneFields /\ SameVersions(s, t) /\ t.filters = s.filters /\ Keyed(t.stored)
         /\ Kept(s, TRUE) => AllStored(s, t.stored)
<1> DEFINE keys == {Filters!StateKey(i, s.filters[i].content) : i \in Filters!Uncommitted(s)}
           ks == [k \in DOMAIN s.stored \cup keys |-> IF k \in keys THEN s.filters[k[2]].content ELSE s.stored[k]]
<1>1. t = [s EXCEPT !.stored = ks]
  BY DEF Filters!StoreFilters
<1>2. ASSUME NEW i \in DOMAIN s.filters
      PROVE  /\ KeyOf(s, i) \in TypeSizes \X FilterIds /\ KeyOf(s, i)[2] = i /\ s.filters[i].content \in Data
             /\ KeyOf(s, i) = Filters!StateKey(i, s.filters[i].content)
  <2>1. i \in FilterIds /\ s.filters[i].content \in Data
    BY DEF StoreFine, FilterFine
  <2> QED
    BY <2>1, KeyIs DEF KeyOf
<1>3. Filters!Uncommitted(s) = {i \in DOMAIN s.filters : ~ s.filters[i].committed}
  BY DEF Filters!Uncommitted
<1>4. \A k \in keys : k[2] \in Filters!Uncommitted(s) /\ k = KeyOf(s, k[2])
  BY <1>2, <1>3
<1>5. \A i \in Filters!Uncommitted(s) : KeyOf(s, i) \in keys
  BY <1>2, <1>3
<1>6. DOMAIN ks = DOMAIN s.stored \cup keys /\ ks = [k \in DOMAIN ks |-> ks[k]]
  OBVIOUS
<1>7. \A k \in DOMAIN ks : ks[k] = IF k \in keys THEN s.filters[k[2]].content ELSE s.stored[k]
  OBVIOUS
<1> HIDE DEF keys, ks
<1>8. ASSUME NEW k \in DOMAIN ks
      PROVE  k \in TypeSizes \X FilterIds /\ ks[k] \in Data /\ k = Filters!StateKey(k[2], ks[k])
  <2>1. CASE k \in keys
    BY <1>2, <1>3, <1>4, <1>7, <2>1 DEF KeyOf
  <2>2. CASE k \notin keys
    <3>1. k \in DOMAIN s.stored /\ ks[k] = s.stored[k]
      BY <1>6, <1>7, <2>2
    <3> QED
      BY <3>1 DEF StoreFine, Keyed
  <2> QED
    BY <2>1, <2>2
<1>9. Keyed(ks)
  BY <1>6, <1>8 DEF Keyed
<1>10. DOMAIN t = StoneFields /\ SameVersions(s, t) /\ t.filters = s.filters /\ t.stored = ks
  BY <1>1 DEF StoreFine, StoneFields, SameVersions
<1>11. ASSUME Kept(s, TRUE)
       PROVE  /\ \A k \in DOMAIN ks : k[2] \in DOMAIN s.filters /\ ks[k] = s.filters[k[2]].content
              /\ \A i \in DOMAIN s.filters : KeyOf(s, i) \in DOMAIN ks
  <2>1. ASSUME NEW k \in DOMAIN ks PROVE k[2] \in DOMAIN s.filters /\ ks[k] = s.filters[k[2]].content
    <3>1. CASE k \in keys
      BY <1>3, <1>4, <1>7, <3>1
    <3>2. CASE k \notin keys
      BY <1>6, <1>7, <1>11, <3>2 DEF Kept
    <3> QED
      BY <3>1, <3>2
  <2>2. ASSUME NEW i \in DOMAIN s.filters PROVE KeyOf(s, i) \in DOMAIN ks
    <3>1. CASE s.filters[i].committed
      <4>1. s.filters[i].committed \in BOOLEAN
        BY DEF StoreFine, FilterFine
      <4> QED
        BY <1>6, <1>11, <3>1, <4>1 DEF Kept
    <3>2. CASE ~ s.filters[i].committed
      BY <1>3, <1>5, <1>6, <3>2
    <3> QED
      BY <3>1, <3>2
  <2> QED
    BY <2>1, <2>2
<1> QED
  BY <1>9, <1>10, <1>11 DEF AllStored

LEMMA SameData ==
  ASSUME NEW f, NEW g, DOMAIN f = DOMAIN g, \A i \in DOMAIN f : f[i].content = g[i].content
  PROVE  Filters!DataCrc(f) = Filters!DataCrc(g)
BY DEF Filters!DataCrc

Accepted(s, t, version, crc) ==
  /\ StoreFine(t) /\ t.filters = [i \in DOMAIN s.filters |-> Sealed(s.filters[i].content)]
  /\ Filters!DataCrc(s.filters) = crc /\ Filters!DataCrc(t.filters) = crc /\ Filters!Uncommitted(t) = {}
  /\ t.version = version /\ t.crc = crc /\ t.inProgress = FALSE
  /\ t.storedVersion = [version |-> version, crc |-> crc] /\ t.flashVersion = s.flashVersion

\* A commit of filters that are wrong, one of other data, and one that is right.
LEMMA CommitIs ==
  ASSUME NEW s, StoreFine(s), NEW version, NEW crc, NEW save \in BOOLEAN,
         NEW r, r = Filters!Commit(s, version, crc, save)
  PROVE  \/ /\ r.ret = "WRONG_STATE" /\ Filters!InvalidFilters(s) # {} /\ FineToo(s, r.s)
         \/ /\ r.ret = "MISMATCH" /\ FineToo(s, r.s) /\ Filters!DataCrc(s.filters) # crc
            /\ Filters!DataCrc(r.s.filters) = Filters!DataCrc(s.filters)
            /\ Filters!Uncommitted(r.s) = Filters!Uncommitted(s)
         \/ /\ r.ret = "SUCCESS" /\ Accepted(s, r.s, version, crc)
            /\ save = TRUE /\ Kept(s, TRUE) => Kept(r.s, TRUE)
            /\ /\ save = FALSE /\ Kept(s, FALSE)
               /\ \A i \in DOMAIN s.filters : s.filters[i].committed = FALSE
               => Kept(r.s, TRUE)
<1> DEFINE summed == Filters!ComputeCrcs(s)
           saved == IF save THEN Filters!StoreFilters(summed) ELSE summed
           marked == Filters!MarkCommitted(saved)
           done == Filters!EndInProgress(marked, version, crc)
           bad == Filters!InvalidFilters(s)
           dropped == Filters!Deallocate(s, bad)
<1>1. /\ StoreFine(summed) /\ SameVersions(s, summed) /\ summed.stored = s.stored
      /\ DOMAIN summed.filters = DOMAIN s.filters
      /\ \A i \in DOMAIN s.filters :
           /\ summed.filters[i].content = s.filters[i].content
           /\ summed.filters[i].committed = s.filters[i].committed
           /\ summed.filters[i].crc = Filters!Crc(s.filters[i].content)
      /\ \A c \in BOOLEAN : Kept(s, c) => Kept(summed, c)
  BY ComputeIs
<1>2. r = IF bad # {} THEN [s |-> dropped, ret |-> "WRONG_STATE"]
          ELSE IF Filters!MasterCrc(summed.filters) # crc THEN [s |-> summed, ret |-> "MISMATCH"]
          ELSE [s |-> done, ret |-> "SUCCESS"]
  BY Zenon DEF Filters!Commit
<1>3. Filters!MasterCrc(summed.filters) = Filters!DataCrc(s.filters)
  <2> HIDE DEF summed
  <2> QED
    BY <1>1 DEF Filters!MasterCrc, Filters!DataCrc
<1>4. bad \in SUBSET DOMAIN s.filters
  BY DEF Filters!InvalidFilters, Filters!Uncommitted
<1>5. FineToo(s, dropped)
  <2>1. dropped = Filters!Deallocate(s, bad)
    OBVIOUS
  <2> HIDE DEF dropped, bad
  <2> QED
    BY <1>4, <2>1, DeallocateIs
<1>6. saved = summed \/ saved = Filters!StoreFilters(summed)
  OBVIOUS
<1>7. save = TRUE => saved = Filters!StoreFilters(summed)
  OBVIOUS
<1>8. save = FALSE => saved = summed
  OBVIOUS
<1>9. summed = Filters!ComputeCrcs(s) /\ marked = Filters!MarkCommitted(saved)
  OBVIOUS
<1>10. done = Filters!EndInProgress(marked, version, crc)
  OBVIOUS
<1> HIDE DEF summed, saved, marked, done, dropped
<1>11. CASE bad # {}
  <2>1. r.s = dropped /\ r.ret = "WRONG_STATE"
    BY <1>2, <1>11
  <2> QED
    BY <1>5, <1>11, <2>1
<1>12. CASE bad = {} /\ Filters!MasterCrc(summed.filters) # crc
  <2>1. r.s = summed /\ r.ret = "MISMATCH"
    BY <1>2, <1>12
  <2>2. Filters!Uncommitted(summed) = Filters!Uncommitted(s)
    BY <1>1 DEF Filters!Uncommitted
  <2>3. Filters!DataCrc(summed.filters) = Filters!DataCrc(s.filters)
    BY <1>1, SameData
  <2>4. FineToo(s, summed)
    BY <1>1 DEF FineToo
  <2> QED
    BY <1>3, <1>12, <2>1, <2>2, <2>3, <2>4
<1>13. CASE bad = {} /\ Filters!MasterCrc(summed.filters) = crc
  <2>1. r.s = done /\ r.ret = "SUCCESS"
    BY <1>2, <1>13
  <2>2. /\ DOMAIN saved = StoneFields /\ SameVersions(summed, saved) /\ saved.filters = summed.filters
        /\ Keyed(saved.stored)
    <3>1. CASE saved = summed
      BY <1>1, <3>1 DEF StoreFine, SameVersions
    <3>2. CASE saved = Filters!StoreFilters(summed)
      BY <1>1, <3>2, StoreFiltersIs
    <3> QED
      BY <1>6, <3>1, <3>2
  <2> DEFINE fs == [i \in DOMAIN s.filters |-> Sealed(s.filters[i].content)]
  <2>3. /\ DOMAIN marked = StoneFields /\ SameVersions(saved, marked) /\ marked.stored = saved.stored
        /\ marked.filters = fs
        /\ \A i \in DOMAIN s.filters : FilterFine(Sealed(s.filters[i].content))
    BY <1>9, <1>13, <2>2, MarkIs
  <2>4. /\ DOMAIN fs = DOMAIN s.filters /\ fs = [i \in DOMAIN fs |-> fs[i]]
        /\ \A i \in DOMAIN fs : fs[i] = Sealed(s.filters[i].content)
    OBVIOUS
  <2>5. \A i \in DOMAIN fs : fs[i].content = s.filters[i].content /\ fs[i].committed = TRUE /\ FilterFine(fs[i])
    BY <2>3, <2>4 DEF Sealed
  <2> HIDE DEF fs
  <2>6. /\ DOMAIN done = StoneFields /\ done.filters = fs /\ done.stored = saved.stored
        /\ done.flash = s.flash /\ done.flashVersion = s.flashVersion
        /\ done.version = version /\ done.crc = crc /\ done.inProgress = FALSE
        /\ done.storedVersion = [version |-> version, crc |-> crc]
    BY <1>1, <1>10, <2>2, <2>3 DEF Filters!EndInProgress, StoneFields, SameVersions
  <2>7. StoreFine(done)
    BY <2>2, <2>4, <2>5, <2>6 DEF StoreFine
  <2>8. Filters!DataCrc(fs) = crc /\ Filters!DataCrc(s.filters) = crc
    BY <1>3, <1>13, <2>4, <2>5, SameData
  <2>9. Filters!Uncommitted(done) = {}
    BY <2>5, <2>6 DEF Filters!Uncommitted
  <2>10. Accepted(s, done, version, crc)
    BY <2>6, <2>7, <2>8, <2>9 DEF Accepted, fs
  <2>11. ASSUME AllStored(s, saved.stored) PROVE Kept(done, TRUE)
    BY <2>4, <2>5, <2>6, <2>11 DEF Kept, KeyOf, AllStored
  <2>12. ASSUME save = TRUE, Kept(s, TRUE) PROVE Kept(done, TRUE)
    <3>1. Kept(summed, TRUE) /\ saved = Filters!StoreFilters(summed) /\ StoreFine(summed)
      BY <1>1, <1>7, <2>12
    <3>2. AllStored(summed, saved.stored)
      BY <3>1, StoreFiltersIs
    <3> QED
      BY <1>1, <2>11, <3>2 DEF AllStored, KeyOf
  <2>13. ASSUME save = FALSE, Kept(s, FALSE), \A i \in DOMAIN s.filters : s.filters[i].committed = FALSE
         PROVE  Kept(done, TRUE)
    <3>1. saved.stored = s.stored
      BY <1>1, <1>8, <2>13
    <3> QED
      BY <2>11, <2>13, <3>1 DEF Kept, AllStored
  <2> QED
    BY <2>1, <2>10, <2>12, <2>13
<1> QED
  BY <1>11, <1>12, <1>13

\* A commit by the host: the version counts from now on.
LEMMA CommitFine ==
  ASSUME NEW K, NEW s, StoneFine(K, s), NEW version \in 1 .. MaxVersion, NEW crc,
         NEW r, r = Filters!HandleCommit(s, version, crc), NEW L, K \subseteq L,
         r.ret = "SUCCESS" => <<"stone", version, crc>> \in L
  PROVE  StoneFine(L, r.s)
<1>1. r = Filters!Commit(s, version, crc, TRUE)
  BY DEF Filters!HandleCommit
<1>2. /\ StoreFine(s) /\ s.inProgress \in BOOLEAN /\ (Roomy => Kept(s, TRUE))
      /\ Dated(L, s) /\ Dated(L, s.storedVersion) /\ Dated(L, s.flashVersion)
  BY DEF StoneFine, Dated
<1>3. VersionFine(s) /\ (~ s.inProgress => Filters!Uncommitted(s) = {})
  BY DEF StoneFine
<1>4. \/ /\ r.ret = "WRONG_STATE" /\ Filters!InvalidFilters(s) # {} /\ FineToo(s, r.s)
      \/ /\ r.ret = "MISMATCH" /\ FineToo(s, r.s)
         /\ Filters!DataCrc(r.s.filters) = Filters!DataCrc(s.filters)
         /\ Filters!Uncommitted(r.s) = Filters!Uncommitted(s)
      \/ /\ r.ret = "SUCCESS" /\ Accepted(s, r.s, version, crc)
         /\ Kept(s, TRUE) => Kept(r.s, TRUE)
  BY <1>1, <1>2, CommitIs
<1>5. CASE r.ret = "WRONG_STATE" /\ Filters!InvalidFilters(s) # {} /\ FineToo(s, r.s)
  <2>1. s.inProgress = TRUE /\ s.version = 0
    <3>1. Filters!Uncommitted(s) # {}
      BY <1>5 DEF Filters!InvalidFilters
    <3> QED
      BY <1>2, <1>3, <3>1 DEF VersionFine
  <2>2. r.s.inProgress = TRUE /\ r.s.version = 0
    BY <1>5, <2>1 DEF FineToo, SameVersions
  <2> QED
    BY <1>2, <1>5, <2>2 DEF StoneFine, FineToo, SameVersions, Dated, VersionFine
<1>6. CASE /\ r.ret = "MISMATCH" /\ FineToo(s, r.s)
           /\ Filters!DataCrc(r.s.filters) = Filters!DataCrc(s.filters)
           /\ Filters!Uncommitted(r.s) = Filters!Uncommitted(s)
  <2>1. VersionFine(r.s) /\ (~ r.s.inProgress => Filters!Uncommitted(r.s) = {})
    BY <1>3, <1>6 DEF FineToo, SameVersions, VersionFine
  <2> QED
    BY <1>2, <1>6, <2>1 DEF StoneFine, FineToo, SameVersions, Dated
<1>7. CASE r.ret = "SUCCESS" /\ Accepted(s, r.s, version, crc) /\ (Kept(s, TRUE) => Kept(r.s, TRUE))
  <2>1. <<"stone", version, crc>> \in L /\ version \in 0 .. MaxVersion
    BY <1>7, FiltersAssumption
  <2>2. Dated(L, r.s) /\ Dated(L, r.s.storedVersion) /\ Dated(L, r.s.flashVersion)
    BY <1>2, <1>7, <2>1 DEF Accepted, Dated
  <2>3. VersionFine(r.s)
    BY <1>7 DEF Accepted, VersionFine
  <2> QED
    BY <1>2, <1>7, <2>2, <2>3 DEF StoneFine, Accepted
<1> QED
  BY <1>4, <1>5, <1>6, <1>7

-----------------------------------------------------------------------------
(* A reset.                                                                *)

Loaded(s) ==
  LET read == Filters!LoadFilters(s.flash)
  IN [Filters!Fresh EXCEPT !.filters = Filters!FromFlash(s.flash, read.keys),
                           !.stored = read.stored, !.flash = s.flash,
                           !.storedVersion = s.flashVersion, !.flashVersion = s.flashVersion]

FromKeys(s, t) ==
  \A i \in DOMAIN t.filters :
    /\ t.filters[i].committed = FALSE /\ t.filters[i].total = Length[t.filters[i].content[1]]
    /\ \E k \in DOMAIN s.flash : k[2] = i /\ t.filters[i].content = s.flash[k]

\* One filter for every id in flash, with what flash has of it.
LEMMA FiltersLoadedIs ==
  ASSUME NEW s, Keyed(s.flash), NEW t, t = Loaded(s)
  PROVE  /\ StoreFine(t) /\ t.storedVersion = s.flashVersion /\ t.flashVersion = s.flashVersion
         /\ FromKeys(s, t)
         /\ Roomy => Kept(t, FALSE) /\ \A k \in DOMAIN s.flash : k[2] \in DOMAIN t.filters
<1> DEFINE flash == s.flash
           read == Filters!LoadFilters(flash)
           fs == Filters!FromFlash(flash, read.keys)
<1>1. LoadInv(flash, DOMAIN flash, read)
  BY AllLoaded
<1>2. t = [Filters!Fresh EXCEPT !.filters = fs, !.stored = read.stored, !.flash = flash,
                                !.storedVersion = s.flashVersion, !.flashVersion = s.flashVersion]
  BY DEF Loaded
<1>3. /\ DOMAIN fs = DOMAIN read.keys /\ fs = [i \in DOMAIN fs |-> fs[i]]
      /\ \A i \in DOMAIN fs : fs[i] = [content |-> flash[read.keys[i]], total |-> Length[flash[read.keys[i]][1]],
                                     committed |-> FALSE, crc |-> 0]
  BY DEF Filters!FromFlash, Filters!NewFilter
<1>4. \A i \in DOMAIN fs : /\ fs[i].content = flash[read.keys[i]] /\ fs[i].committed = FALSE
                            /\ fs[i].total = Length[fs[i].content[1]]
  <2> SUFFICES ASSUME NEW i \in DOMAIN fs
               PROVE  /\ fs[i].content = flash[read.keys[i]] /\ fs[i].committed = FALSE
                      /\ fs[i].total = Length[fs[i].content[1]]
    OBVIOUS
  <2>1. fs[i] = [content |-> flash[read.keys[i]], total |-> Length[flash[read.keys[i]][1]],
                 committed |-> FALSE, crc |-> 0]
    BY <1>3
  <2> HIDE DEF fs
  <2> QED
    BY <2>1
<1>5. DOMAIN Filters!Fresh = StoneFields
  BY DEF Filters!Fresh, StoneFields
<1> HIDE DEF read, fs
<1>6. /\ DOMAIN t = StoneFields /\ t.filters = fs /\ t.stored = read.stored /\ t.flash = flash
      /\ t.storedVersion = s.flashVersion /\ t.flashVersion = s.flashVersion
  BY <1>2, <1>5 DEF StoneFields
<1>7. ASSUME NEW i \in DOMAIN fs
      PROVE  /\ i \in FilterIds /\ read.keys[i] \in DOMAIN flash /\ read.keys[i][2] = i
             /\ flash[read.keys[i]] \in Data /\ read.keys[i] = Filters!StateKey(i, flash[read.keys[i]])
  <2>1. i \in FilterIds /\ read.keys[i] \in DOMAIN flash /\ read.keys[i][2] = i
    BY <1>1, <1>3, <1>7 DEF LoadInv
  <2> QED
    BY <2>1 DEF Keyed
<1>8. \A i \in DOMAIN fs : FilterFine(fs[i])
  <2> SUFFICES ASSUME NEW i \in DOMAIN fs PROVE FilterFine(fs[i])
    OBVIOUS
  <2> DEFINE c == flash[read.keys[i]]
  <2>1. c \in Data /\ Length[c[1]] \in FilterTotals
    BY <1>7, KeyIs
  <2>2. fs[i] = [content |-> c, total |-> Length[c[1]], committed |-> FALSE, crc |-> 0]
    BY <1>3
  <2> HIDE DEF c
  <2> QED
    BY <2>1, <2>2 DEF FilterFine
<1>9. /\ read.stored = [k \in DOMAIN read.stored |-> flash[k]] /\ DOMAIN read.stored \in SUBSET DOMAIN flash
      /\ \A k \in DOMAIN read.stored : read.stored[k] = flash[k]
  <2>1. read.stored = [k \in DOMAIN read.stored |-> flash[k]] /\ DOMAIN read.stored \in SUBSET DOMAIN flash
    BY <1>1 DEF LoadInv
  <2> QED
    BY <2>1
<1>10. Keyed(read.stored)
  BY <1>9 DEF Keyed
<1>11. StoreFine(t)
  BY <1>3, <1>6, <1>7, <1>8, <1>10 DEF StoreFine
<1>12. FromKeys(s, t)
  <2> SUFFICES ASSUME NEW i \in DOMAIN fs
               PROVE  /\ fs[i].committed = FALSE /\ fs[i].total = Length[fs[i].content[1]]
                      /\ \E k \in DOMAIN flash : k[2] = i /\ fs[i].content = flash[k]
    BY <1>6 DEF FromKeys
  <2>1. read.keys[i] \in DOMAIN flash /\ read.keys[i][2] = i
    BY <1>7
  <2>2. fs[i].content = flash[read.keys[i]] /\ fs[i].committed = FALSE /\ fs[i].total = Length[fs[i].content[1]]
    BY <1>4
  <2> QED
    BY <2>1, <2>2
<1>13. ASSUME Roomy PROVE Kept(t, FALSE) /\ \A k \in DOMAIN s.flash : k[2] \in DOMAIN t.filters
  <2>1. /\ \A k \in DOMAIN flash : k[2] \in DOMAIN read.keys
        /\ \A k \in DOMAIN read.stored : k = read.keys[k[2]]
        /\ \A i \in DOMAIN read.keys : read.keys[i] \in DOMAIN read.stored
    BY <1>1, <1>9, <1>13 DEF LoadInv
  <2>2. ASSUME NEW k \in DOMAIN t.stored
        PROVE  /\ k[2] \in DOMAIN t.filters /\ t.filters[k[2]].committed = FALSE
               /\ t.stored[k] = t.filters[k[2]].content
    <3>1. k \in DOMAIN flash /\ k = read.keys[k[2]] /\ k[2] \in DOMAIN fs /\ t.stored[k] = flash[k]
      BY <1>3, <1>6, <1>9, <2>1, <2>2
    <3>2. fs[k[2]].committed = FALSE /\ fs[k[2]].content = flash[k]
      BY <1>4, <3>1
    <3> QED
      BY <1>6, <3>1, <3>2
  <2>3. ASSUME NEW i \in DOMAIN t.filters PROVE KeyOf(t, i) \in DOMAIN t.stored
    <3>1. i \in DOMAIN fs /\ i \in DOMAIN read.keys
      BY <1>3, <1>6, <2>3
    <3>2. KeyOf(t, i) = read.keys[i]
      BY <1>6, <1>7, <1>4, <3>1 DEF KeyOf
    <3> QED
      BY <1>6, <2>1, <3>1, <3>2
  <2> QED
    BY <1>3, <1>6, <2>1, <2>2, <2>3 DEF Kept
<1> QED
  BY <1>6, <1>11, <1>12, <1>13

\* What a reset comes up with.
LoadResult(s) ==
  LET v == s.flashVersion
  IN IF v.version = 0 THEN [s |-> Loaded(s), ret |-> "UNSPECIFIED"]
     ELSE Filters!Commit(Loaded(s), v.version, v.crc, FALSE)

LEMMA LoadFromFlashIs ==
  ASSUME NEW s, NEW result, result = LoadResult(s)
  PROVE  Filters!LoadFromFlash(s) =
           IF result.ret = "SUCCESS" THEN result.s
           ELSE Filters!EndInProgress(Filters!Deallocate(result.s, DOMAIN result.s.filters), 0, Filters!NoCrc)
BY DEF Filters!LoadFromFlash, LoadResult, Loaded

\* A reset comes up with the version of flash and the filters it stands for, or with none.
LEMMA LoadFine ==
  ASSUME NEW K, NEW s, Keyed(s.flash), Dated(K, s.flashVersion), NEW t, t = Filters!LoadFromFlash(s)
  PROVE  StoneFine(K, t) /\ (t.version = 0 => t.filters = << >>)
<1> DEFINE loaded == Loaded(s)
           result == LoadResult(s)
           v == s.flashVersion
           version == v.version
           crc == v.crc
           x == result.s
           ids == DOMAIN x.filters
           none == Filters!Deallocate(x, ids)
           failed == Filters!EndInProgress(none, 0, Filters!NoCrc)
<1>1. t = IF result.ret = "SUCCESS" THEN x ELSE failed
  BY LoadFromFlashIs
<1>2. /\ StoreFine(loaded) /\ loaded.storedVersion = v /\ loaded.flashVersion = v
      /\ \A i \in DOMAIN loaded.filters : loaded.filters[i].committed = FALSE
      /\ Roomy => Kept(loaded, FALSE)
  <2>1. loaded = Loaded(s)
    OBVIOUS
  <2> HIDE DEF loaded
  <2>2. /\ StoreFine(loaded) /\ loaded.storedVersion = v /\ loaded.flashVersion = v /\ FromKeys(s, loaded)
        /\ Roomy => Kept(loaded, FALSE)
    BY <2>1, FiltersLoadedIs
  <2> QED
    BY <2>2 DEF FromKeys
<1>3. result = IF version = 0 THEN [s |-> loaded, ret |-> "UNSPECIFIED"]
               ELSE Filters!Commit(loaded, version, crc, FALSE)
  BY DEF LoadResult
<1> HIDE DEF loaded, result
<1>4. \/ result.ret # "SUCCESS" /\ FineToo(loaded, x)
      \/ /\ result.ret = "SUCCESS" /\ version # 0 /\ Accepted(loaded, x, version, crc)
         /\ Roomy => Kept(x, TRUE)
  <2> HIDE DEF version, crc
  <2>1. CASE version = 0
    <3>1. result.ret # "SUCCESS" /\ x = loaded
      BY <1>3, <2>1
    <3> QED
      BY <1>2, <3>1 DEF FineToo, SameVersions
  <2>2. CASE version # 0
    <3>1. result = Filters!Commit(loaded, version, crc, FALSE)
      BY <1>3, <2>2
    <3>2. \/ result.ret = "WRONG_STATE" /\ FineToo(loaded, result.s)
          \/ result.ret = "MISMATCH" /\ FineToo(loaded, result.s)
          \/ /\ result.ret = "SUCCESS" /\ Accepted(loaded, result.s, version, crc)
             /\ Kept(loaded, FALSE) => Kept(result.s, TRUE)
      BY <1>2, <3>1, CommitIs
    <3> QED
      BY <1>2, <2>2, <3>2
  <2> QED
    BY <2>1, <2>2
<1>5. 0 \in 0 .. MaxVersion
  BY FiltersAssumption
<1> HIDE DEF version, crc
<1>6. CASE /\ result.ret = "SUCCESS" /\ version # 0 /\ Accepted(loaded, x, version, crc)
           /\ Roomy => Kept(x, TRUE)
  <2>1. version \in 0 .. MaxVersion /\ <<"stone", version, crc>> \in K
    BY <1>6 DEF Dated, version, crc
  <2>2. Dated(K, x) /\ Dated(K, x.storedVersion) /\ Dated(K, x.flashVersion)
    BY <1>2, <1>6, <2>1 DEF Accepted, Dated
  <2>3. StoneFine(K, x) /\ x.version # 0
    BY <1>6, <2>2 DEF Accepted, StoneFine, VersionFine
  <2> QED
    BY <1>1, <1>6, <2>3
<1>7. CASE result.ret # "SUCCESS" /\ FineToo(loaded, x)
  <2>1. StoreFine(x) /\ x.flashVersion = v /\ (Roomy => Kept(x, FALSE))
    BY <1>2, <1>7 DEF FineToo, SameVersions
  <2>2. FineToo(x, none) /\ none.filters = Filters!Without(x.filters, ids)
    <3>1. ids \in SUBSET DOMAIN x.filters /\ none = Filters!Deallocate(x, ids)
      OBVIOUS
    <3> HIDE DEF ids, none, x
    <3> QED
      BY <2>1, <3>1, DeallocateIs
  <2>3. none.filters = << >> /\ DOMAIN none.filters = {}
    <3>1. none.filters = [i \in {} |-> x.filters[i]]
      BY <2>2 DEF Filters!Without, Filters!Restrict
    <3> HIDE DEF none, x
    <3> QED
      BY <3>1
  <2>4. StoreFine(none) /\ none.flashVersion = v /\ (Roomy => Kept(none, FALSE))
    BY <2>1, <2>2 DEF FineToo, SameVersions
  <2> HIDE DEF none, x
  <2>5. /\ DOMAIN failed = StoneFields /\ failed.filters = << >> /\ failed.stored = none.stored
        /\ failed.flash = none.flash /\ failed.flashVersion = v /\ failed.version = 0 /\ failed.inProgress = FALSE
        /\ failed.storedVersion.version = 0
    BY <2>3, <2>4 DEF Filters!EndInProgress, StoreFine, StoneFields
  <2> HIDE DEF failed
  <2>6. StoreFine(failed)
    BY <2>3, <2>4, <2>5 DEF StoreFine
  <2>7. Roomy => Kept(failed, TRUE)
    BY <2>3, <2>4, <2>5 DEF Kept
  <2>8. Dated(K, failed) /\ Dated(K, failed.storedVersion) /\ Dated(K, failed.flashVersion)
    BY <1>5, <2>5 DEF Dated
  <2>9. Filters!Uncommitted(failed) = {}
    BY <2>3, <2>5 DEF Filters!Uncommitted
  <2>10. StoneFine(K, failed)
    BY <2>5, <2>6, <2>7, <2>8, <2>9 DEF StoneFine, VersionFine
  <2> QED
    BY <1>1, <1>7, <2>5, <2>10
<1> QED
  BY <1>4, <1>6, <1>7

\* What was stored comes back.
LEMMA ResetKeeps ==
  ASSUME Roomy, NEW K, NEW s, StoneFine(K, s), s.version # 0, s.flash = s.stored, s.flashVersion = s.storedVersion,
         NEW t, t = Filters!LoadFromFlash(s)
  PROVE  t.version = s.version /\ t.crc = s.crc /\ t.filters = s.filters
<1> DEFINE loaded == Loaded(s)
           result == LoadResult(s)
           version == s.version
           crc == s.crc
<1>1. /\ StoreFine(s) /\ Kept(s, TRUE) /\ Filters!Uncommitted(s) = {}
      /\ Filters!DataCrc(s.filters) = crc /\ s.flashVersion = [version |-> version, crc |-> crc]
  BY DEF StoneFine, VersionFine
<1>2. StoreFine(loaded) /\ FromKeys(s, loaded) /\ \A k \in DOMAIN s.flash : k[2] \in DOMAIN loaded.filters
  <2>1. loaded = Loaded(s) /\ Keyed(s.flash)
    BY <1>1 DEF StoreFine
  <2> HIDE DEF loaded
  <2> QED
    BY <2>1, FiltersLoadedIs
<1>3. result = Filters!Commit(loaded, version, crc, FALSE)
  BY <1>1 DEF LoadResult
<1>4. t = IF result.ret = "SUCCESS" THEN result.s
          ELSE Filters!EndInProgress(Filters!Deallocate(result.s, DOMAIN result.s.filters), 0, Filters!NoCrc)
  BY LoadFromFlashIs
<1> HIDE DEF loaded, result, version, crc
<1>5. ASSUME NEW i \in DOMAIN s.filters
      PROVE  /\ FilterFine(s.filters[i]) /\ s.filters[i].committed = TRUE
             /\ s.filters[i] = Sealed(s.filters[i].content) /\ s.filters[i].content[1] # 0
  <2>1. FilterFine(s.filters[i])
    BY <1>1 DEF StoreFine
  <2>2. s.filters[i].committed = TRUE
    BY <1>1, <2>1 DEF Filters!Uncommitted, FilterFine
  <2>3. s.filters[i] = Sealed(s.filters[i].content)
    BY <2>1, <2>2, SealedIs
  <2> QED
    BY <2>1, <2>2, <2>3 DEF FilterFine
<1>6. ASSUME NEW i \in DOMAIN loaded.filters
      PROVE  i \in DOMAIN s.filters /\ loaded.filters[i].content = s.filters[i].content
  <2>1. PICK k \in DOMAIN s.stored : k[2] = i /\ loaded.filters[i].content = s.stored[k]
    BY <1>2, <1>6 DEF FromKeys
  <2> QED
    BY <1>1, <2>1 DEF Kept
<1>7. ASSUME NEW i \in DOMAIN s.filters PROVE i \in DOMAIN loaded.filters
  <2>1. KeyOf(s, i) \in DOMAIN s.flash /\ KeyOf(s, i)[2] = i
    BY <1>1, <1>5, <1>7 DEF Kept, KeyOf, Filters!StateKey
  <2> QED
    BY <1>2, <2>1
<1>8. DOMAIN loaded.filters = DOMAIN s.filters
  BY <1>6, <1>7
<1>9. Filters!DataCrc(loaded.filters) = crc
  BY <1>1, <1>6, <1>8, SameData
<1>10. Filters!InvalidFilters(loaded) = {}
  <2>1. ASSUME NEW i \in DOMAIN loaded.filters
        PROVE  loaded.filters[i].content[1] # 0 /\ loaded.filters[i].total = Length[loaded.filters[i].content[1]]
    <3>1. loaded.filters[i].content = s.filters[i].content /\ s.filters[i].content[1] # 0
      BY <1>5, <1>6
    <3> QED
      BY <1>2, <3>1 DEF FromKeys
  <2> QED
    BY <2>1 DEF Filters!InvalidFilters, Filters!Uncommitted
<1>11. Accepted(loaded, result.s, version, crc) /\ result.ret = "SUCCESS"
  <2>1. \/ result.ret = "WRONG_STATE" /\ Filters!InvalidFilters(loaded) # {}
        \/ result.ret = "MISMATCH" /\ Filters!DataCrc(loaded.filters) # crc
        \/ result.ret = "SUCCESS" /\ Accepted(loaded, result.s, version, crc)
    <3>1. StoreFine(loaded)
      BY <1>2
    <3> QED
      BY <1>3, <3>1, CommitIs
  <2> QED
    BY <1>9, <1>10, <2>1
<1>12. /\ t.version = version /\ t.crc = crc
       /\ t.filters = [i \in DOMAIN loaded.filters |-> Sealed(loaded.filters[i].content)]
  BY <1>4, <1>11 DEF Accepted
<1>13. t.filters = [i \in DOMAIN s.filters |-> s.filters[i]]
  <2>1. \A i \in DOMAIN s.filters : Sealed(loaded.filters[i].content) = s.filters[i]
    BY <1>5, <1>6, <1>8
  <2> QED
    BY <1>8, <1>12, <2>1
<1>14. t.filters = s.filters
  BY <1>1, <1>13 DEF StoreFine
<1> QED
  BY <1>12, <1>14 DEF version, crc

-----------------------------------------------------------------------------
(* The stone, its host and resets.                                         *)

FilterInv == DOMAIN store = {"stone"} /\ StoneFine(committed, store["stone"])

\* What the stone may become.
Becomes(s) == store' = [store EXCEPT !["stone"] = s]

LEMMA BecomesIs ==
  ASSUME FilterInv, NEW s, Becomes(s), StoneFine(committed', s)
  PROVE  FilterInv'
<1>1. DOMAIN store' = {"stone"} /\ store'["stone"] = s
  BY DEF FilterInv, Becomes
<1> QED
  BY <1>1 DEF FilterInv

LEMMA FiltersInit == Filters!Init => FilterInv
<1> SUFFICES ASSUME Filters!Init PROVE FilterInv
  OBVIOUS
<1>1. store = [n \in {"stone"} |-> Filters!Fresh]
  BY DEF Filters!Init, Filters!FilterInit
<1>2. DOMAIN store = {"stone"} /\ store["stone"] = Filters!Fresh
  BY <1>1
<1> QED
  BY <1>2, FreshFine DEF FilterInv

LEMMA FlushKeeps ==
  ASSUME FilterInv, Filters!Flush("stone"), UNCHANGED committed
  PROVE  FilterInv'
<1> DEFINE s == store["stone"]
<1>1. StoneFine(committed, s) /\ StoreFine(s) /\ DOMAIN store = {"stone"}
  BY DEF FilterInv, StoneFine
<1>2. DOMAIN s = StoneFields /\ Keyed(s.stored) /\ Keyed(s.flash)
  BY <1>1 DEF StoreFine
<1>3. CASE Filters!FlushVersion("stone")
  <2> DEFINE t == [s EXCEPT !.flashVersion = s.storedVersion]
  <2>1. Becomes(t)
    BY <1>1, <1>3 DEF Filters!FlushVersion, Becomes
  <2>2. /\ DOMAIN t = StoneFields /\ t.filters = s.filters /\ t.stored = s.stored /\ t.flash = s.flash
        /\ t.version = s.version /\ t.crc = s.crc /\ t.inProgress = s.inProgress
        /\ t.storedVersion = s.storedVersion /\ t.flashVersion = s.storedVersion
    BY <1>2 DEF StoneFields
  <2> HIDE DEF t
  <2>3. StoreFine(t) /\ (Kept(s, TRUE) => Kept(t, TRUE)) /\ Filters!Uncommitted(t) = Filters!Uncommitted(s)
    BY <1>1, <2>2 DEF StoreFine, Kept, KeyOf, Filters!Uncommitted
  <2>4. StoneFine(committed, t)
    BY <1>1, <2>2, <2>3 DEF StoneFine, Dated, VersionFine
  <2> QED
    BY <2>1, <2>4, BecomesIs
<1>4. ASSUME NEW key \in TypeSizes \X FilterIds, Filters!FlushFilter("stone", key) PROVE FilterInv'
  <2>1. PICK f : Keyed(f) /\ Becomes([s EXCEPT !.flash = f])
    <3>1. CASE key \in DOMAIN s.stored
      <4> DEFINE f == Filters!With(s.flash, key, s.stored[key])
      <4>1. Becomes([s EXCEPT !.flash = f])
        BY <1>1, <1>4, <3>1 DEF Filters!FlushFilter, Becomes
      <4>2. f = [k \in DOMAIN s.flash \cup {key} |-> IF k = key THEN s.stored[key] ELSE s.flash[k]]
        BY DEF Filters!With
      <4> HIDE DEF f
      <4>3. Keyed(f)
        BY <1>2, <3>1, <4>2 DEF Keyed
      <4> QED
        BY <4>1, <4>3
    <3>2. CASE key \notin DOMAIN s.stored
      <4> DEFINE f == Filters!Without(s.flash, {key})
      <4>1. Becomes([s EXCEPT !.flash = f])
        BY <1>1, <1>4, <3>2 DEF Filters!FlushFilter, Becomes
      <4>2. f = [k \in DOMAIN s.flash \ {key} |-> s.flash[k]]
        BY DEF Filters!Without, Filters!Restrict
      <4> HIDE DEF f
      <4>3. Keyed(f)
        BY <1>2, <4>2 DEF Keyed
      <4> QED
        BY <4>1, <4>3
    <3> QED
      BY <3>1, <3>2
  <2> DEFINE t == [s EXCEPT !.flash = f]
  <2>2. /\ DOMAIN t = StoneFields /\ t.filters = s.filters /\ t.stored = s.stored /\ t.flash = f
        /\ t.version = s.version /\ t.crc = s.crc /\ t.inProgress = s.inProgress
        /\ t.storedVersion = s.storedVersion /\ t.flashVersion = s.flashVersion
    BY <1>2 DEF StoneFields
  <2>3. Becomes(t)
    BY <2>1
  <2> HIDE DEF t
  <2>4. StoreFine(t) /\ (Kept(s, TRUE) => Kept(t, TRUE)) /\ Filters!Uncommitted(t) = Filters!Uncommitted(s)
    BY <1>1, <2>1, <2>2 DEF StoreFine, Kept, KeyOf, Filters!Uncommitted
  <2>5. StoneFine(committed, t)
    BY <1>1, <2>2, <2>4 DEF StoneFine, Dated, VersionFine
  <2> QED
    BY <2>3, <2>5, BecomesIs
<1> QED
  BY <1>3, <1>4 DEF Filters!Flush

LEMMA FiltersNext ==
  ASSUME FilterInv, ~ Rewrites, Filters!Next
  PROVE  FilterInv'
<1> DEFINE s == store["stone"]
<1>1. StoneFine(committed, s) /\ StoreFine(s) /\ DOMAIN store = {"stone"}
  BY DEF FilterInv, StoneFine
<1>2. ASSUME NEW id \in FilterIds, NEW total \in Filters!Totals, NEW chunk \in 1 .. 2, NEW packet \in 1 .. NumPackets,
             Filters!UploadChunk("stone", id, total, chunk, packet)
      PROVE  FilterInv'
  <2> DEFINE r == Filters!HandleUpload(s, id, total, chunk, packet)
  <2>1. id \in DOMAIN s.filters => s.filters[id].committed \/ s.filters[id].crc = 0
    BY <1>2 DEF Filters!UploadChunk
  <2>2. Becomes(r.s) /\ committed' = committed
    BY <1>2 DEF Filters!UploadChunk, Filters!Set, Becomes
  <2>3. r = Filters!HandleUpload(s, id, total, chunk, packet)
    OBVIOUS
  <2> HIDE DEF r
  <2>4. StoneFine(committed', r.s)
    BY <1>1, <2>1, <2>2, <2>3, UploadFine
  <2> QED
    BY <2>2, <2>4, BecomesIs
<1>3. ASSUME NEW id \in FilterIds, Filters!RemoveFilter("stone", id) PROVE FilterInv'
  <2> DEFINE r == Filters!HandleRemove(s, id)
  <2>1. Becomes(r.s) /\ committed' = committed
    BY <1>3 DEF Filters!RemoveFilter, Filters!Set, Becomes
  <2>2. r = Filters!HandleRemove(s, id)
    OBVIOUS
  <2> HIDE DEF r
  <2>3. StoneFine(committed', r.s)
    BY <1>1, <2>1, <2>2, RemoveFine
  <2> QED
    BY <2>1, <2>3, BecomesIs
<1>4. ASSUME NEW version \in 1 .. MaxVersion, NEW crc, Filters!CommitChanges("stone", version, crc)
      PROVE  FilterInv'
  <2> DEFINE r == Filters!HandleCommit(s, version, crc)
  <2>1. Becomes(r.s)
    BY <1>4 DEF Filters!CommitChanges, Filters!Set, Becomes
  <2>2. committed' = IF r.ret = "SUCCESS" THEN committed \cup {<<"stone", version, crc>>} ELSE committed
    BY <1>4 DEF Filters!CommitChanges
  <2>3. r = Filters!HandleCommit(s, version, crc)
    OBVIOUS
  <2> HIDE DEF r
  <2>4. committed \subseteq committed' /\ (r.ret = "SUCCESS" => <<"stone", version, crc>> \in committed')
    BY <2>2
  <2>5. StoneFine(committed', r.s)
    BY <1>1, <2>3, <2>4, CommitFine
  <2> QED
    BY <2>1, <2>5, BecomesIs
<1>5. ASSUME Filters!InProgressTimeout("stone"), UNCHANGED committed PROVE FilterInv'
  <2> DEFINE t == Filters!DropUncommitted(s)
  <2>1. s.inProgress /\ Becomes(t)
    BY <1>1, <1>5 DEF Filters!InProgressTimeout, Becomes
  <2>2. t = Filters!DropUncommitted(s)
    OBVIOUS
  <2> HIDE DEF t
  <2>3. StoneFine(committed', t)
    BY <1>1, <1>5, <2>1, <2>2, DropFine
  <2> QED
    BY <2>1, <2>3, BecomesIs
<1>6. ASSUME Filters!PowerCycle("stone") PROVE FilterInv'
  <2> DEFINE t == Filters!LoadFromFlash(s)
  <2>1. Becomes(t) /\ committed' = committed
    BY <1>1, <1>6 DEF Filters!PowerCycle, Filters!Reset, Becomes
  <2>2. t = Filters!LoadFromFlash(s)
    OBVIOUS
  <2>3. Keyed(s.flash) /\ Dated(committed, s.flashVersion)
    BY <1>1 DEF StoneFine, StoreFine
  <2> HIDE DEF t
  <2>4. StoneFine(committed', t)
    BY <2>1, <2>2, <2>3, LoadFine
  <2> QED
    BY <2>1, <2>4, BecomesIs
<1> QED
  BY <1>2, <1>3, <1>4, <1>5, <1>6, FlushKeeps DEF Filters!Next

LEMMA FiltersStutter ==
  ASSUME FilterInv, UNCHANGED filterVars
  PROVE  FilterInv'
BY DEF FilterInv, filterVars

FiltersGenuine ==
  /\ Filters!TypeOK /\ Filters!VersionMeansFilters /\ Filters!NoStrayFilters /\ Filters!ResetIsAtomic

LEMMA FiltersHold == FilterInv => FiltersGenuine /\ (Roomy => Filters!ResetKeepsFilters)
<1> SUFFICES ASSUME FilterInv PROVE FiltersGenuine /\ (Roomy => Filters!ResetKeepsFilters)
  OBVIOUS
<1> DEFINE s == store["stone"]
           t == Filters!LoadFromFlash(s)
<1>1. StoneFine(committed, s) /\ StoreFine(s)
  BY DEF FilterInv, StoneFine
<1>2. Filters!TypeOK
  <2>1. ASSUME NEW i \in DOMAIN s.filters
        PROVE  i \in FilterIds /\ s.filters[i] \in [content : Data, total : FilterTotals, committed : BOOLEAN, crc : Nat]
    BY <1>1 DEF StoreFine, FilterFine
  <2>2. Filters!Chunks \X Filters!Chunks = Data
    BY DEF Filters!Chunks, Data
  <2>3. s.version \in 0 .. MaxVersion /\ s.inProgress \in BOOLEAN
    BY <1>1 DEF StoneFine, Dated
  <2>4. DOMAIN s.stored \cup DOMAIN s.flash \subseteq TypeSizes \X FilterIds
    BY <1>1 DEF StoreFine, Keyed
  <2> HIDE DEF s
  <2> QED
    BY <2>1, <2>2, <2>3, <2>4 DEF Filters!TypeOK, s, FilterTotals
<1>3. Filters!VersionMeansFilters
  BY <1>1 DEF Filters!VersionMeansFilters, StoneFine, VersionFine, Dated
<1>4. Filters!NoStrayFilters
  BY <1>1 DEF Filters!NoStrayFilters, StoneFine
<1>5. t = Filters!LoadFromFlash(s)
  OBVIOUS
<1> HIDE DEF t
<1>6. Filters!ResetIsAtomic
  <2>1. Keyed(s.flash) /\ Dated(committed, s.flashVersion)
    BY <1>1 DEF StoneFine, StoreFine
  <2>2. StoneFine(committed, t) /\ (t.version = 0 => t.filters = << >>)
    BY <1>5, <2>1, LoadFine
  <2>3. IF t.version = 0 THEN t.filters = << >>
        ELSE <<"stone", t.version, t.crc>> \in committed /\ Filters!DataCrc(t.filters) = t.crc
    BY <2>2 DEF StoneFine, VersionFine, Dated
  <2> QED
    BY <1>5, <2>3 DEF Filters!ResetIsAtomic
<1>7. ASSUME Roomy PROVE Filters!ResetKeepsFilters
  <2> SUFFICES ASSUME s.version # 0, s.flash = s.stored, s.flashVersion = s.storedVersion
               PROVE  t.version = s.version /\ t.crc = s.crc /\ t.filters = s.filters
    BY <1>5 DEF Filters!ResetKeepsFilters
  <2> HIDE DEF s
  <2> QED
    BY <1>1, <1>5, <1>7, ResetKeeps
<1> QED
  BY <1>2, <1>3, <1>4, <1>6, <1>7 DEF FiltersGenuine

-----------------------------------------------------------------------------
(* The theorems: each part keeps its invariant while it runs.              *)

\* What a reset loads is what was active, once all that was queued is in flash, for
\* any number of behaviours, whatever was replaced or cleared and whichever sets
\* found storage busy; if no removal does.
THEOREM BehavioursReturn ==
  ASSUME "remove" \notin BusyCalls
  PROVE  Spec => []BehavioursComeBack
<1> DEFINE Inv == part = "behaviour" => BehaviourInv
<1>1. Init => Inv
  BY BehaviourInit DEF Init
<1>2. Inv /\ [Next]_vars => Inv'
  <2> SUFFICES ASSUME Inv, [Next]_vars, part' = "behaviour" PROVE BehaviourInv'
    OBVIOUS
  <2>1. part = "behaviour" /\ BehaviourInv
    BY DEF Next, vars
  <2>2. Behaviour!Next \/ UNCHANGED behaviourVars
    BY <2>1 DEF Next, vars
  <2> QED
    BY <2>1, <2>2, BehaviourNext, BehaviourStutter
<1>3. Inv => BehavioursComeBack
  BY BehaviourHolds DEF BehavioursComeBack
<1> QED
  BY <1>1, <1>2, <1>3, PTL DEF Spec

\* A microapp is called only while it is complete, one that hung is not called again,
\* and an upload that is answered with a success is in flash, for binaries of any
\* size and resets at any moment; if hosts wait for their answers, writes do not
\* fail, and a boot enables no app by itself.
THEOREM MicroappIsSafe ==
  ASSUME ~ Pipelined, ~ FlashFails, ~ AutoEnable
  PROVE  Spec => []MicroappIsSound
<1> DEFINE Inv == part = "code" => CodeInv
<1>1. Init => Inv
  BY CodeInit DEF Init
<1>2. Inv /\ [Next]_vars => Inv'
  <2> SUFFICES ASSUME Inv, [Next]_vars, part' = "code" PROVE CodeInv'
    OBVIOUS
  <2>1. part = "code" /\ CodeInv
    BY DEF Next, vars
  <2>2. Code!Next \/ UNCHANGED codeVars
    BY <2>1 DEF Next, vars
  <2> QED
    BY <2>1, <2>2, CodeNext, CodeStutter
<1>3. Inv => MicroappIsSound
  BY CodeHolds DEF MicroappIsSound
<1> QED
  BY <1>1, <1>2, <1>3, PTL DEF Spec

\* Of one phone, no command is executed after a newer one, for any phones, relays,
\* repetitions and numbers of commands, also where the counter wraps around; if no copy
\* of a replaced command lives as long as the owner's claim.
THEOREM NewestCommandsWin ==
  ASSUME Linger < OwnerClaim
  PROVE  Spec => NewestWins
<1> DEFINE Forward == \A p \in Phones : last'[p] >= last[p]
<1>1. Init => SwitchingInv
  BY SwitchingInit DEF Init
<1>2. SwitchingInv /\ [Next]_vars => SwitchingInv' /\ Forward
  <2> SUFFICES ASSUME SwitchingInv, [Next]_vars PROVE SwitchingInv' /\ Forward
    OBVIOUS
  <2>1. Switching!Next \/ UNCHANGED commandVars
    BY DEF Next, vars
  <2> QED
    BY <2>1, SwitchingNext, SwitchingStutter
<1>3. SwitchingInv => Switching!TypeOK
  BY SwitchingHolds
<1> QED
  BY <1>1, <1>2, <1>3, PTL DEF Spec, NewestWins

\* Whenever a value changes, for any values, lengths of periods and speeds of dimming, the
\* light is never on for longer than for the brightest value around it, and two periods
\* later it is what the value says; if a value changes at most once in a period.
THEOREM LightFollowsValue ==
  ASSUME ~ Hurry
  PROVE  Spec => []LightIsTrue
<1> DEFINE Inv == part = "light" => LightInv
<1>1. Init => Inv
  BY LightInit DEF Init
<1>2. Inv /\ [Next]_vars => Inv'
  <2> SUFFICES ASSUME Inv, [Next]_vars, part' = "light" PROVE LightInv'
    OBVIOUS
  <2>1. part = "light" /\ LightInv
    BY DEF Next, vars
  <2>2. Light!Next \/ UNCHANGED lightVars
    BY <2>1 DEF Next, vars
  <2> QED
    BY <2>1, <2>2, LightNext, LightStutter
<1>3. Inv => LightIsTrue
  BY LightHolds DEF LightIsTrue
<1> QED
  BY <1>1, <1>2, <1>3, PTL DEF Spec

\* For any number of spots, devices and stones: a tracked device has one record, and the
\* token of a complete one is one of its own; a neighbour is in the list once, with what
\* was measured of it, and they are told of in turn, whichever are added and removed
\* meanwhile; the states that are told of other stones have two halves of one stone and
\* second, one state of each, and each gets its turn; if no two devices have one token.
THEOREM DevicesStayTrue ==
  ASSUME OwnTokens
  PROVE  Spec => []DevicesAreTrue
<1> DEFINE Inv == /\ part = "devices" => Devices(devices)
                  /\ part = "topology" => TopologyInv
                  /\ part = "states" => ToldInv
<1>1. Init => Inv
  BY DevicesInit, TopologyInit, ToldInit DEF Init
<1>2. Inv /\ [Next]_vars => Inv'
  <2> SUFFICES ASSUME Inv, [Next]_vars PROVE Inv'
    OBVIOUS
  <2>1. part' = part
    BY DEF Next, vars
  <2>2. CASE part = "devices"
    <3>1. Tracked!Next \/ UNCHANGED deviceVars
      BY <2>2 DEF Next, vars
    <3>2. Devices(devices)'
      BY <2>2, <3>1, TrackedNext, TrackedStutter
    <3> QED
      BY <2>1, <2>2, <3>2
  <2>3. CASE part = "topology"
    <3>1. Topology!Next \/ UNCHANGED topologyVars
      BY <2>3 DEF Next, vars
    <3>2. TopologyInv'
      BY <2>3, <3>1, TopologyNext, TopologyStutter
    <3> QED
      BY <2>1, <2>3, <3>2
  <2>4. CASE part = "states"
    <3>1. Told!Next \/ UNCHANGED stateVars
      BY <2>4 DEF Next, vars
    <3>2. ToldInv'
      BY <2>4, <3>1, ToldNext, ToldStutter
    <3> QED
      BY <2>1, <2>4, <3>2
  <2> QED
    BY <2>1, <2>2, <2>3, <2>4
<1>3. Inv => DevicesAreTrue
  BY TrackedHolds, TopologyHolds, ToldHolds DEF DevicesAreTrue
<1> QED
  BY <1>1, <1>2, <1>3, PTL DEF Spec

\* For any messages and buffer: a message of which every byte arrives while none is being
\* handled is in the buffer until it is handled, whatever was lost or cut off before it, and
\* reading is blocked only while one is on its way to be handled; if the scheduler has room
\* and no host stops right after an escape byte.
THEOREM MessagesArrive ==
  ASSUME ~ SchedulerFills, ~ CutAfterEscape
  PROVE  Spec => []MessagesGetThrough
<1> DEFINE Inv == part = "uart" => LinesInv
<1>1. Init => Inv
  BY LinesInit DEF Init
<1>2. Inv /\ [Next]_vars => Inv'
  <2> SUFFICES ASSUME Inv, [Next]_vars, part' = "uart" PROVE LinesInv'
    OBVIOUS
  <2>1. part = "uart" /\ LinesInv
    BY DEF Next, vars
  <2>2. Lines!Next \/ UNCHANGED uartVars
    BY <2>1 DEF Next, vars
  <2> QED
    BY <2>1, <2>2, LinesNext, LinesStutter
<1>3. Inv => MessagesGetThrough
  BY LinesHold DEF MessagesGetThrough
<1> QED
  BY <1>1, <1>2, <1>3, PTL DEF Spec

\* Of rules whose rooms are all counted, for any number of behaviours, length of the day and
\* of the week: what is intended is what the most relevant of the valid behaviours wants,
\* whatever their order in the store, and off without any; of the twilights likewise.  The
\* second in which one of them starts is left out, as in the property.
THEOREM RelevantBehaviourWins ==
  ASSUME RoomsAreCounted
  PROVE  Spec => []MostRelevantWins
<1>1. Init => WishInv
  BY WishesInit DEF Init
<1>2. WishInv /\ [Next]_vars => WishInv'
  <2> SUFFICES ASSUME WishInv, [Next]_vars PROVE WishInv'
    OBVIOUS
  <2>1. Wishes!Next \/ UNCHANGED wishVars
    BY DEF Next, vars
  <2> QED
    BY <2>1, WishesNext, WishesStutter
<1>3. WishInv => MostRelevantWins
  BY WishesHold DEF MostRelevantWins
<1> QED
  BY <1>1, <1>2, <1>3, PTL DEF Spec

\* For any timeouts and times: a behaviour that waits for users is valid for its timeout at
\* least, as long as its time lasts, and one with an extension becomes valid only in its
\* time; if presence and extension of a behaviour are conditions of one kind, and none
\* starts again before its timeout is over.
THEOREM BehavioursAreSteady ==
  ASSUME KindsAgree, NightsAreLong
  PROVE  Spec => NoFlicker
<1> DEFINE Inv == WishInv /\ StayInv
<1>1. Init => Inv
  BY WishesInit DEF Init
<1>2. Inv /\ [Next]_vars => Inv' /\ (Steady \/ UNCHANGED wishVars)
  <2> SUFFICES ASSUME Inv, [Next]_vars PROVE Inv' /\ (Steady \/ UNCHANGED wishVars)
    OBVIOUS
  <2>1. Wishes!Next \/ UNCHANGED wishVars
    BY DEF Next, vars
  <2> QED
    BY <2>1, WishesNext, WishesStutter
<1>3. Steady \/ UNCHANGED wishVars =>
        [\A i \in Wishes!Indices : LET r == rules[i] IN
           /\ /\ i \in valid /\ i \notin valid' /\ clock'.set
              /\ Wishes!RequiresPresence(r.presence)
              /\ Wishes!InTime(r, clock'.now) /\ enabled /\ enabled'
              => lasted[i] >= r.presence.timeout
           /\ i \notin valid /\ i \in valid' => Wishes!InTime(r, clock'.now)]_(Wishes!handlerVars)
  BY DEF Steady, wishVars, Wishes!handlerVars, Wishes!Indices, Behaviours
<1> QED
  BY <1>1, <1>2, <1>3, PTL DEF Spec, NoFlicker, Wishes!NoFlicker

LEMMA FiltersKeep ==
  ASSUME ~ Rewrites
  PROVE  Spec => [](part = "filters" => FilterInv)
<1> DEFINE Inv == part = "filters" => FilterInv
<1>1. Init => Inv
  BY FiltersInit DEF Init
<1>2. Inv /\ [Next]_vars => Inv'
  <2> SUFFICES ASSUME Inv, [Next]_vars, part' = "filters" PROVE FilterInv'
    OBVIOUS
  <2>1. part = "filters" /\ FilterInv
    BY DEF Next, vars
  <2>2. Filters!Next \/ UNCHANGED filterVars
    BY <2>1 DEF Next, vars
  <2> QED
    BY <2>1, <2>2, FiltersNext, FiltersStutter
<1> QED
  BY <1>1, <1>2, PTL DEF Spec

\* Whatever is uploaded, removed and committed, with resets at any moment: a version stands
\* for the filters that a host committed under it, with the data their CRC was calculated
\* over; no modification that is over leaves a filter that was not committed; and a reset
\* comes up with a version that was committed or with nothing, whichever part of the changes
\* has reached flash.  For any filters and any buffer; if no chunk is written after a commit
\* that failed.
THEOREM FiltersStayGenuine ==
  ASSUME ~ Rewrites
  PROVE  Spec => [](part = "filters" => FiltersGenuine)
<1>1. (part = "filters" => FilterInv) => (part = "filters" => FiltersGenuine)
  BY FiltersHold
<1>2. Spec => [](part = "filters" => FilterInv)
  BY FiltersKeep
<1> QED
  BY <1>1, <1>2, PTL

\* And a reset gives the same version and filters once they are stored; if the buffer has
\* room for a filter of each id at once, of any type.
THEOREM FiltersComeBack ==
  ASSUME ~ Rewrites, Roomy
  PROVE  Spec => []FiltersAreSound
<1>1. (part = "filters" => FilterInv) => FiltersAreSound
  BY FiltersHold DEF FiltersAreSound, FiltersGenuine
<1>2. Spec => [](part = "filters" => FilterInv)
  BY FiltersKeep
<1> QED
  BY <1>1, <1>2, PTL

==============================================================================
