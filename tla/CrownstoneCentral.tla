------------------------- MODULE CrownstoneCentral --------------------------
(***************************************************************************)
(* Connections to other Crownstones (cs_CrownstoneCentral.cpp): connect    *)
(* goes from the address, asked over the mesh, to the session data; write  *)
(* ends with the notification of the result.  Above it a user, like the    *)
(* syncer of asset filters, that gives commands and gets their results.    *)
(*                                                                         *)
(* Encryption, the parts of a notification, the handles found by the       *)
(* discovery and connecting by address, which only a test does, are left   *)
(* out, and so are microapps that use BleCentral themselves.               *)
(***************************************************************************)
EXTENDS BleCentral

CONSTANTS
  Commands,      \* number of connects and writes of the user
  Losses         \* number of connections that are lost

VARIABLES
  central,       \* the record of BleCentral and that of CrownstoneCentral
  user,          \* what the user waits for, and the session it was told of
  macRequests,   \* stones that were asked for their address
  commandsLeft, lossesLeft

vars == <<central, user, macRequests, commandsLeft, lossesLeft>>

CsIdle ==
  [csOp |-> "none",      \* _currentOperation: "none", "connect" or "write"
   csStep |-> "none",    \* _currentStep
   stone |-> NoStone,    \* _stoneId
   timer |-> FALSE,      \* _timeoutCountDown # 0
   results |-> << >>]    \* the events the user gets

Fields(r, f) == [x \in DOMAIN r \cup DOMAIN f |-> IF x \in DOMAIN f THEN f[x] ELSE r[x]]

Init ==
  /\ central = Fields(BleIdle, CsIdle)
  /\ user = [awaits |-> "none", target |-> NoStone, session |-> NoStone, spoilt |-> FALSE]
  /\ macRequests = {}
  /\ commandsLeft = Commands /\ lossesLeft = Losses

-----------------------------------------------------------------------------
(* Operations and steps.                                                   *)

CsBusy(c) == c.csOp # "none"

\* sendOperationResult(): the operation is over before the user is told.
Tell(c, ret) ==
  [c EXCEPT !.results = Append(@, [type |-> c.csOp, ret |-> ret]),
            !.csOp = "none", !.csStep = "none"]

\* finalizeOperation(): of another operation than the current one, an error.
FinalizeCs(c, operation, ret) ==
  IF c.csOp = "none" THEN [c EXCEPT !.csStep = "none"]
  ELSE Tell(c, IF c.csOp = operation THEN ret ELSE "WRONG_STATE")

\* finalizeStep(): an error, an event of another operation or of another step
\* ends the operation.
InStep(c, operation, step, ret) ==
  c.csOp = operation /\ ret = "SUCCESS" /\ c.csStep = step
EndStep(c, operation, ret) ==
  IF c.csOp # operation THEN FinalizeCs(c, operation, "WRONG_OPERATION")
  ELSE FinalizeCs(c, operation, IF ret # "SUCCESS" THEN ret ELSE "WRONG_OPERATION")

\* As if the answer of BleCentral were not looked at.
GoOnUnchecked(answer, step) == [answer.c EXCEPT !.csStep = step]

\* The next step, when BleCentral takes it.
GoOn(answer, step) ==
  IF answer.ret = "WAIT" THEN [answer.c EXCEPT !.csStep = step]
  ELSE FinalizeCs(answer.c, "connect", answer.ret)

-----------------------------------------------------------------------------
(* Handlers of the events of BleCentral.                                   *)

\* onConnect()
OnConnectResult(c, ret, gattOk) ==
  IF InStep(c, "connect", "connect", ret)
  THEN GoOn(Procedure(c, "discovery", gattOk), "discover")
  ELSE EndStep(c, "connect", ret)

\* onDiscoveryDone()
OnDiscoveryResult(c, ret, gattOk) ==
  IF InStep(c, "connect", "discover", ret)
  THEN GoOn(Procedure(c, "write", gattOk), "enable_notifications")
  ELSE EndStep(c, "connect", ret)

\* onRead(), onReadDuringConnect(): the session data are the last step.
OnReadResult(c, ret, gattOk) ==
  IF ret # "SUCCESS" THEN FinalizeCs(c, c.csOp, ret)
  ELSE CASE InStep(c, "connect", "session_key", ret) ->
              GoOn(Procedure(c, "read", gattOk), "session_data")
         [] InStep(c, "connect", "session_data", ret) -> FinalizeCs(c, "connect", "SUCCESS")
         [] OTHER -> FinalizeCs(c, c.csOp, "WRONG_OPERATION")

\* onWrite(), readSessionData(): what is read depends on the mode of the other.
OnWriteResult(c, ret, gattOk, setupMode) ==
  IF ret # "SUCCESS" THEN FinalizeCs(c, c.csOp, ret)
  ELSE CASE InStep(c, "connect", "enable_notifications", ret) ->
              GoOn(Procedure(c, "read", gattOk), IF setupMode THEN "session_key" ELSE "session_data")
         [] InStep(c, "write", "write", ret) -> [c EXCEPT !.csStep = "receive_result"]
         [] OTHER -> FinalizeCs(c, c.csOp, "WRONG_OPERATION")

\* onDisconnect(): reset() and the end of the operation.  The user hears of it
\* from BleCentral as well.
OnDisconnected(c) ==
  LET ended == FinalizeCs([c EXCEPT !.stone = NoStone, !.timer = FALSE], c.csOp, "CANCELED")
  IN [ended EXCEPT !.results = Append(@, [type |-> "disconnected", ret |-> "SUCCESS"])]

\* handleEvent(), of the event that BleCentral sent, if any.
Dispatched(c, gattOk, setupMode) ==
  IF c.event = << >> THEN c
  ELSE LET event == Head(c.event)
           taken == [c EXCEPT !.event = << >>]
       IN CASE event.type = "connect_result" -> OnConnectResult(taken, event.ret, gattOk)
            [] event.type = "discovery_result" -> OnDiscoveryResult(taken, event.ret, gattOk)
            [] event.type = "read_result" -> OnReadResult(taken, event.ret, gattOk)
            [] event.type = "write_result" -> OnWriteResult(taken, event.ret, gattOk, setupMode)
            [] event.type = "disconnected" -> OnDisconnected(taken)

-----------------------------------------------------------------------------
(* The user.                                                               *)

\* What the user makes of one event.
Heard(u, r) ==
  CASE r.type = "disconnected" ->
         [u EXCEPT !.session = NoStone, !.spoilt = FALSE,
                   !.awaits = IF @ = "disconnect" THEN "none" ELSE @]
    [] r.type = "connect" /\ u.awaits = "connect" ->
         [u EXCEPT !.awaits = "none",
                   !.session = IF r.ret = "SUCCESS" THEN u.target ELSE NoStone]
    [] r.type = "write" /\ u.awaits = "write" ->
         [u EXCEPT !.awaits = "none", !.spoilt = r.ret # "SUCCESS",
                   !.session = IF r.ret = "SUCCESS" THEN @ ELSE NoStone]
    [] OTHER -> u

\* What the user makes of the events of a step, which are two at most.
HeardAll(u, results) ==
  CASE results = << >> -> u
    [] Len(results) = 1 -> Heard(u, results[1])
    [] Len(results) = 2 -> Heard(Heard(u, results[1]), results[2])

\* The end of a step: what was dispatched reaches the user.
Become(c, u) ==
  /\ central' = [c EXCEPT !.results = << >>]
  /\ user' = HeardAll(u, c.results)

Command ==
  /\ commandsLeft > 0 /\ commandsLeft' = commandsLeft - 1
  /\ user.awaits = "none" /\ ~ user.spoilt

\* connect(): the address is asked for first, and only that has a timeout.
Connect(stone) ==
  /\ Command /\ user.session = NoStone
  /\ ~ CsBusy(central)
  /\ Become([central EXCEPT !.csOp = "connect", !.csStep = "get_address",
                            !.stone = stone, !.timer = TRUE],
            [user EXCEPT !.awaits = "connect", !.target = stone])
  /\ macRequests' = macRequests \cup {stone}
  /\ UNCHANGED lossesLeft

\* write(): a user that is refused gives up the session, as reset() of the syncer.
WriteCommand(gattOk) ==
  /\ Command /\ user.session # NoStone
  /\ ~ CsBusy(central)
  /\ LET answer == Procedure(central, "write", gattOk)
     IN IF answer.ret = "WAIT"
        THEN Become([answer.c EXCEPT !.csOp = "write", !.csStep = "write"],
                    [user EXCEPT !.awaits = "write"])
        ELSE Become(answer.c, [user EXCEPT !.spoilt = TRUE, !.session = NoStone])
  /\ UNCHANGED <<macRequests, lossesLeft>>

\* disconnect(): the operation is canceled, and the connection ended.  The user
\* takes a connection that is there no more for ended.
EndSession ==
  /\ \/ user.awaits = "none" /\ (user.session # NoStone \/ user.spoilt)
     \/ user.awaits = "write"
  /\ LET canceled == FinalizeCs(central, central.csOp, "CANCELED")
         answer   == BleDisconnect(canceled)
         c        == Dispatched(answer.c, TRUE, FALSE)
     IN /\ central' = [c EXCEPT !.results = << >>]
        /\ user' = [HeardAll(user, c.results) EXCEPT
                      !.session = NoStone, !.spoilt = FALSE,
                      !.awaits = IF answer.ret = "WAIT" THEN "disconnect" ELSE "none"]
  /\ UNCHANGED <<macRequests, commandsLeft, lossesLeft>>

-----------------------------------------------------------------------------
(* What happens to the central.                                            *)

Quiet == UNCHANGED <<macRequests, commandsLeft, lossesLeft>>

\* onMacAddress(), of any stone that was asked, however late.  BleCentral does
\* not connect while a host is connected.
MacResult(stone, hostConnected) ==
  /\ stone \in macRequests /\ macRequests' = macRequests \ {stone}
  /\ LET stopped == [central EXCEPT !.timer = FALSE]
         answer  == IF hostConnected THEN Answer(stopped, "WRONG_STATE")
                    ELSE BleConnect(stopped, stone)
         c       == IF ~ InStep(central, "connect", "get_address", "SUCCESS")
                    THEN EndStep(central, "connect", "SUCCESS")
                    ELSE IF stone # central.stone THEN central
                    ELSE GoOn(answer, "connect")
     IN Become(c, user)
  /\ UNCHANGED <<commandsLeft, lossesLeft>>

\* A request or its answer is lost.
MacLost(stone) ==
  /\ stone \in macRequests /\ macRequests' = macRequests \ {stone}
  /\ UNCHANGED <<central, user, commandsLeft, lossesLeft>>

\* onTimeout()
TimerExpires ==
  /\ central.timer
  /\ Become(FinalizeCs([central EXCEPT !.timer = FALSE], central.csOp, "TIMEOUT"), user)
  /\ Quiet

MeshDisabled ==
  /\ central.mesh = "stopping"
  /\ Become(Dispatched(OnMeshDisabled(central), TRUE, FALSE), user)
  /\ Quiet

GapConnected(gattOk) ==
  /\ central.gap # NoStone
  /\ Become(Dispatched(OnGapConnected(central, gattOk), gattOk, FALSE), user)
  /\ Quiet

GapTimeout ==
  /\ central.gap # NoStone
  /\ Become(Dispatched(OnGapTimeout(central), TRUE, FALSE), user)
  /\ Quiet

\* The other stone answers a GATT procedure, or refuses.
GattDone(ret, gattOk, setupMode) ==
  /\ central.gatt # "none"
  /\ Become(Dispatched(OnGattDone(central, ret), gattOk, setupMode), user)
  /\ Quiet

\* onNotification(), of the last result; one that says to wait changes nothing.
Notification(ret) ==
  /\ central.csOp = "write" /\ central.csStep = "receive_result" /\ central.link # NoStone
  /\ Become(FinalizeCs(central, "write", ret), user)
  /\ Quiet

Disconnected ==
  /\ central.link # NoStone
  /\ Become(Dispatched(OnGapDisconnected(central), TRUE, FALSE), user)
  /\ UNCHANGED <<macRequests, commandsLeft>>

LinkClosed == central.closing /\ Disconnected /\ UNCHANGED lossesLeft

LinkLost ==
  /\ lossesLeft > 0 /\ lossesLeft' = lossesLeft - 1
  /\ Disconnected

\* The other stone ends a connection over which nothing is written
\* (connection_watchdog_timeout() of cs_Stack.cpp).
Watchdog == central.gatt = "none" /\ Disconnected /\ UNCHANGED lossesLeft

\* What the SoftDevice and the other stone answer, one way or the other.
GapAnswers  == GapTimeout \/ \E gattOk \in BOOLEAN : GapConnected(gattOk)
GattAnswers == \E ret \in {"SUCCESS", "GATT_ERROR"}, gattOk, setupMode \in BOOLEAN :
                 GattDone(ret, gattOk, setupMode)

Next ==
  \/ \E stone \in Stones : Connect(stone) \/ MacLost(stone)
  \/ \E stone \in Stones, hostConnected \in BOOLEAN : MacResult(stone, hostConnected)
  \/ EndSession \/ TimerExpires \/ MeshDisabled \/ GapAnswers \/ GattAnswers
  \/ LinkClosed \/ LinkLost \/ Watchdog
  \/ \E gattOk \in BOOLEAN : WriteCommand(gattOk)
  \/ \E ret \in {"SUCCESS", "WRONG_PARAMETER"} : Notification(ret)

Fairness ==
  /\ WF_vars(TimerExpires) /\ WF_vars(MeshDisabled) /\ WF_vars(LinkClosed) /\ WF_vars(Watchdog)
  /\ WF_vars(GapAnswers) /\ WF_vars(GattAnswers)

Spec == Init /\ [][Next]_vars
FairSpec == Spec /\ Fairness

-----------------------------------------------------------------------------
(* Properties.                                                             *)

\* A user that was told that it is connected, and of no end of it since, is
\* connected, to the stone it asked for (connect() with the address that came
\* back, finalizeOperation(), onDisconnect()).
SessionIsTrue ==
  user.session # NoStone => central.link = user.session /\ ~ central.closing

\* The mesh is stopped for the sake of a connection only while that connection
\* is being made, whatever goes wrong then: the event that starts it again comes
\* (cs_Types.h, EVT_BLE_CENTRAL_CONNECT_CLEARANCE_REQUEST).
MeshComesBack == central.op \notin {"clearance", "connect"} => central.mesh = "on"

\* When the connection has ended, for whatever reason, advertising is connectable
\* again: "Always send the disconnect event" (finalizeOperation()).
AdvertisingComesBack ==
  central.op = "none" /\ central.link = NoStone => central.connectable

\* Every command of the user gets its answer: after the last of the Commands,
\* nothing is awaited.
EveryAnswerComes == []<>(user.awaits = "none")
=============================================================================
