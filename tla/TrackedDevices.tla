--------------------------- MODULE TrackedDevices ---------------------------
(***************************************************************************)
(* The list of tracked devices of a stone (cs_TrackedDevices.cpp, with the *)
(* records of cs_TrackedDevice.cpp in the Store of cs_Store.h).  A device  *)
(* registers itself, with a token that is its own, at the stone or at      *)
(* another one that passes it on in two mesh messages; each of these may   *)
(* be lost, late, or come again.  A record that is not used any more stays *)
(* in its spot, and what it held stays with it, until the spot is taken.   *)
(*                                                                         *)
(* Left out: the data that is only passed on (profile, offset, flags), the *)
(* location with its own timeout, what is sent at each second, and the     *)
(* access levels, which a stone checks for what it gets itself.            *)
(***************************************************************************)
EXTENDS Naturals, Sequences, FiniteSets

CONSTANTS Spots,          \* MAX_TRACKED_DEVICES
          Registrations,  \* what the devices register: their id and token
          TtlMax,         \* bound: times to live, in minutes
          Heartbeat,      \* time for which a device lets its heartbeat be simulated
          SizeMax         \* bound: size of the list of another stone, at most Spots

VARIABLES devices,   \* _store
          synced,    \* _deviceListIsSynced
          expected   \* _expectedDeviceListSize

deviceVars == <<devices, synced, expected>>

Unknown == Spots + 1                            \* 0xFF, above any size
AllFields == {"register", "token"}
NoDevice == [set |-> {}, id |-> 0, token |-> 0, ttl |-> 0, heartbeat |-> 0]

Init ==
  /\ devices = <<>>
  /\ synced = FALSE
  /\ expected = Unknown
-----------------------------------------------------------------------------
(* The store; `list` is one.                                               *)

IsValid(device) == device.set # {}
AllFieldsSet(device) == device.set = AllFields

First(spots) == CHOOSE i \in spots : \A j \in spots : i <= j

With(list, id) == {i \in DOMAIN list : IsValid(list[i]) /\ list[i].id = id}
Incomplete(list) == {i \in DOMAIN list : ~AllFieldsSet(list[i])}
LowestTtl(list) == {i \in DOMAIN list : \A j \in DOMAIN list : list[i].ttl <= list[j].ttl}

\* Mutant: the predecessor is not invalidated.
AddAtValid(list, i, id) == [at |-> i, list |-> [list EXCEPT ![i].id = id]]

\* add(): the list with, at the spot `at`, a record that is not valid.
AddAt(list, i, id) == [at |-> i, list |-> [list EXCEPT ![i].set = {}, ![i].id = id]]

\* A spot that is empty, a new one, one that is not complete, that with the
\* lowest time to live.
FindOrAdd(list, id) ==
  LET empty == {i \in DOMAIN list : ~IsValid(list[i])}
  IN  IF With(list, id) # {} THEN [at |-> First(With(list, id)), list |-> list]
      ELSE IF empty # {} THEN AddAt(list, First(empty), id)
      ELSE IF Len(list) < Spots THEN AddAt(Append(list, NoDevice), Len(list) + 1, id)
      ELSE IF Incomplete(list) # {} THEN AddAt(list, First(Incomplete(list)), id)
      ELSE AddAt(list, First(LowestTtl(list)), id)

\* findToken() also finds a token that a record only has from its predecessor.
WithToken(list, token) == {i \in DOMAIN list : IsValid(list[i]) /\ list[i].token = token}

IsTokenOkToSet(list, id, token) ==
  WithToken(list, token) = {} \/ list[First(WithToken(list, token))].id = id
-----------------------------------------------------------------------------
CheckSynced(list, size) ==
  synced' = (synced \/ (/\ Cardinality({i \in DOMAIN list : AllFieldsSet(list[i])}) >= size
                        /\ Incomplete(list) = {}))

\* A refused registration may have cost another device its spot.
HandleRegister(r, ttl) ==
  /\ LET found == FindOrAdd(devices, r.id)
     IN  devices' = IF IsTokenOkToSet(found.list, r.id, r.token)
                    THEN [found.list EXCEPT ![found.at] =
                            [@ EXCEPT !.set = AllFields, !.token = r.token, !.ttl = ttl]]
                    ELSE found.list
  /\ UNCHANGED <<synced, expected>>

HandleMeshRegister(r) ==
  /\ LET found == FindOrAdd(devices, r.id)
         list  == [found.list EXCEPT ![found.at].set = @ \union {"register"}]
     IN  devices' = list /\ CheckSynced(list, expected)
  /\ UNCHANGED expected

HandleMeshToken(r, ttl) ==
  /\ LET found  == FindOrAdd(devices, r.id)
         device == found.list[found.at]
         list   == [found.list EXCEPT ![found.at] =
                      [device EXCEPT !.set = @ \union {"token"}, !.token = r.token, !.ttl = ttl]]
     IN  IF IsTokenOkToSet(found.list, r.id, r.token)
         THEN devices' = list /\ CheckSynced(list, expected)
         ELSE devices' = found.list /\ UNCHANGED synced
  /\ UNCHANGED expected

\* A heartbeat names the token; one from the mesh was checked elsewhere.
HandleHeartbeat(r, fromMesh, ttl) ==
  /\ \E i \in With(devices, r.id) :
       /\ fromMesh \/ (AllFieldsSet(devices[i]) /\ devices[i].token = r.token)
       /\ devices' = [devices EXCEPT ![i].heartbeat = ttl]
  /\ UNCHANGED <<synced, expected>>

HandleMeshListSize(size) ==
  /\ expected' = size
  /\ CheckSynced(devices, size)
  /\ UNCHANGED devices

SyncRequestOutgoing ==
  /\ ~synced
  /\ expected' = Unknown
  /\ UNCHANGED <<devices, synced>>

MeshSyncFailed ==
  /\ synced' = TRUE
  /\ UNCHANGED <<devices, expected>>

Minus1(n) == IF n = 0 THEN 0 ELSE n - 1

\* A time to live that was never set counts as over.
TickMinute ==
  /\ devices' = [i \in DOMAIN devices |->
       IF ~IsValid(devices[i]) THEN devices[i]
       ELSE [devices[i] EXCEPT !.ttl = Minus1(@), !.heartbeat = Minus1(@),
                               !.set = IF devices[i].ttl <= 1 THEN {} ELSE @]]
  /\ UNCHANGED <<synced, expected>>

Next ==
  \/ \E r \in Registrations :
       \/ \E ttl \in 1 .. TtlMax : HandleRegister(r, ttl) \/ HandleMeshToken(r, ttl)
       \/ HandleMeshRegister(r)
       \/ \E fromMesh \in BOOLEAN, ttl \in {0, Heartbeat} : HandleHeartbeat(r, fromMesh, ttl)
  \/ \E size \in 0 .. SizeMax : HandleMeshListSize(size)
  \/ SyncRequestOutgoing \/ MeshSyncFailed \/ TickMinute
-----------------------------------------------------------------------------
(* Properties.                                                             *)

\* A device has one record, and a scanned token at most one device, however the
\* spots were used before and in whatever order the messages came (findOrAdd(),
\* isTokenOkToSet()).
DevicesAreUnique ==
  \A i, j \in DOMAIN devices :
    i # j /\ IsValid(devices[i]) /\ IsValid(devices[j]) =>
      /\ devices[i].id # devices[j].id
      /\ "token" \in devices[i].set \intersect devices[j].set => devices[i].token # devices[j].token

\* The token of a complete record is one that its device registered, and never
\* what the spot still held of another (invalidate(), allFieldsSet()).
DevicesAreTrue ==
  \A i \in DOMAIN devices : AllFieldsSet(devices[i]) =>
    \E r \in Registrations : devices[i].id = r.id /\ devices[i].token = r.token
=============================================================================
