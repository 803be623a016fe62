----------------------------- MODULE ServiceData -----------------------------
(***************************************************************************)
(* The states of other stones that a stone tells in its service data.  A   *)
(* state comes over the mesh in two halves, put together in one place for  *)
(* all stones (handleState0(), handleState1() of cs_MeshMsgHandler.cpp),   *)
(* kept in a list of few slots (cs_ExternalStates.cpp) and told in turn,   *)
(* between the state of the stone itself, its errors and what the microapp *)
(* tells (cs_ServiceData.cpp).                                             *)
(*                                                                         *)
(* A half is the state it was taken of, by number; what is in it is left   *)
(* out.  Halves are sent several times, and are lost, late and between     *)
(* those of others, so any half may come at any time.  Left out: encryption*)
(* and the hub and setup states, that replace all of it.                   *)
(***************************************************************************)
EXTENDS Naturals, FiniteSetsExt

CONSTANTS Source,    \* the stone that was in each state: a sequence
          Stamp,     \* the partial timestamp of each state, in seconds: a sequence
          Slots,     \* EXTERNAL_STATE_LIST_COUNT
          Timeout    \* EXTERNAL_STATE_TIMEOUT_COUNT_START

VARIABLES received,   \* _lastReceivedState; a half whose bit is not set is None
          states,     \* _states
          broadcast,  \* _broadcastIndex
          update,     \* _updateCount, of which the last two bits matter
          app,        \* _microappServiceDataSet
          waited      \* history: per slot, the others told since it was told

stateVars == <<received, states, broadcast, update, app, waited>>

States == DOMAIN Source
None == 0
Halves == {0, 1}
AllSlots == 0 .. Slots - 1
NoHalves == [h \in Halves |-> None]

Init ==
  /\ received = [src |-> None, stamp |-> 0, half |-> NoHalves]
  /\ states = [i \in AllSlots |-> [id |-> None, timeout |-> 0, half |-> NoHalves]]
  /\ broadcast = 0
  /\ update = 0
  /\ app = FALSE
  /\ waited = [i \in AllSlots |-> 0]
-----------------------------------------------------------------------------
Live(i) == states[i].timeout # 0

\* receivedState(): the slot of this stone, or else the first of those that time
\* out soonest.
SlotOf(id) ==
  LET own    == {i \in AllSlots : states[i].id = id}
      oldest == {i \in AllSlots : \A j \in AllSlots : states[i].timeout <= states[j].timeout}
  IN  Min(IF own # {} THEN own ELSE oldest)

ReceivedState(id, half) ==
  states' = [states EXCEPT ![SlotOf(id)] = [id |-> id, timeout |-> Timeout, half |-> half]]

\* Mutant: what is kept is of the same stone, of whatever moment.
SameSource(src, stamp) == received.src = src

\* isFromSameState()
IsFromSameState(src, stamp) == received.src = src /\ received.stamp = stamp

\* handleState0(), handleState1(): half h of state k, and checkStateReceived().
HandleState(h, k) ==
  LET kept  == IF IsFromSameState(Source[k], Stamp[k]) THEN received.half ELSE NoHalves
      half  == [kept EXCEPT ![h] = k]
      whole == None \notin {half[0], half[1]}
  IN  /\ received' = [src |-> Source[k], stamp |-> Stamp[k],
                      half |-> IF whole THEN NoHalves ELSE half]
      /\ IF whole THEN ReceivedState(Source[k], half) ELSE UNCHANGED states
      /\ UNCHANGED <<broadcast, update, app, waited>>

\* getNextState(): the first slot that is not timed out, from _broadcastIndex on.
NextTurn == Min({n \in AllSlots : Live((broadcast + n) % Slots)})

TellNextState ==
  IF \E i \in AllSlots : Live(i)
  THEN LET told == (broadcast + NextTurn) % Slots
       IN  /\ broadcast' = (told + 1) % Slots
           /\ waited' = [i \in AllSlots |-> IF i = told \/ ~ Live(i) THEN 0 ELSE waited[i] + 1]
  ELSE UNCHANGED <<broadcast, waited>>

\* updateServiceData() and fillServiceData(), with or without errors at that moment.
UpdateServiceData(errors) ==
  LET n == (update + 1) % 4
  IN  /\ update' = n
      /\ IF n % 2 = 0 /\ ~ errors /\ ~ (n % 4 = 0 /\ app)
         THEN TellNextState
         ELSE UNCHANGED <<broadcast, waited>>
      /\ UNCHANGED <<received, states, app>>

\* CMD_MICROAPP_ADVERTISE
MicroappAdvertises ==
  /\ app' = TRUE
  /\ UNCHANGED <<received, states, broadcast, update, waited>>

\* tick(), each second.
Tick ==
  /\ states' = [i \in AllSlots |->
       [states[i] EXCEPT !.timeout = IF @ = 0 THEN 0 ELSE @ - 1]]
  /\ waited' = [i \in AllSlots |-> IF states'[i].timeout = 0 THEN 0 ELSE waited[i]]
  /\ UNCHANGED <<received, broadcast, update, app>>

Next ==
  \/ \E h \in Halves, k \in States : HandleState(h, k)
  \/ \E errors \in BOOLEAN : UpdateServiceData(errors)
  \/ MicroappAdvertises
  \/ Tick
-----------------------------------------------------------------------------
(* Properties.                                                             *)

\* A state that is told is one of the stone it is told of, whose halves are of the
\* same second: those of two stones, or of two moments, are never put together
\* (handleState0(), handleState1(), isFromSameState()).
StatesAreWhole ==
  \A i \in AllSlots : Live(i) =>
    LET first == states[i].half[0]
        second == states[i].half[1]
    IN  /\ Source[first] = states[i].id /\ Source[second] = states[i].id
        /\ Stamp[first] = Stamp[second]

\* Each stone is in the list once, so that no old state of it is told after a new
\* one (receivedState()).
StonesAreUnique ==
  \A i, j \in AllSlots : states[i].id = states[j].id /\ states[i].id # None => i = j

\* Each is told of in turn, whatever comes and times out meanwhile and whatever
\* else is told (getNextState(), fillServiceData()).
StatesInTurn == \A i \in AllSlots : Live(i) => waited[i] < Slots
=============================================================================
