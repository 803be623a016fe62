----------------------------- MODULE BleCentral -----------------------------
(***************************************************************************)
(* Outgoing connections (cs_BleCentral.cpp), with the modules that make    *)
(* room for them: the mesh stops and advertising is not connectable        *)
(* (cs_Mesh.cpp, cs_MeshCore.cpp, cs_Advertiser.cpp).                      *)
(*                                                                         *)
(* The state is a record c; a function of the class is an operator from it *)
(* to the new record.  An operation that is finalized sends one event,     *)
(* left in c.event for the layer above.                                    *)
(*                                                                         *)
(* External: the SoftDevice has at most one connection to make (gap), one  *)
(* connection (link) and one GATT procedure on it (gatt).                  *)
(***************************************************************************)
EXTENDS Integers, Sequences

CONSTANTS Stones, NoStone

Operations == {"none", "clearance", "connect", "disconnect", "discovery", "read", "write"}

BleIdle ==
  [op |-> "none",             \* _currentOperation
   address |-> NoStone,       \* _address
   link |-> NoStone,          \* _connectionHandle: the stone we are connected to
   closing |-> FALSE,         \* we asked for the end of the connection
   gap |-> NoStone,           \* the stone the SoftDevice is connecting to
   gatt |-> "none",           \* "none", "mtu", "discovery", "read" or "write"
   mesh |-> "on",             \* "on", "stopping" or "off"
   connectable |-> TRUE,      \* advertising is connectable
   event |-> << >>]           \* the event that is being dispatched

Busy(c) == c.op # "none"
Connected(c) == c.link # NoStone

-----------------------------------------------------------------------------
(* Results.                                                                *)

ResultEvent(op) ==
  CASE op = "connect" -> "connect_result" [] op = "discovery" -> "discovery_result"
    [] op = "read" -> "read_result"       [] op = "write" -> "write_result"

\* Mesh::handleEvent() and Advertiser::handleEvent() on an event of the central.
MakeRoom(c) ==
  [c EXCEPT !.mesh = IF @ = "on" THEN "stopping" ELSE @, !.connectable = FALSE]
OthersOn(c, type, ret) ==
  [c EXCEPT
    !.mesh = IF type = "connect_result" THEN "on" ELSE @,
    !.connectable = @ \/ type = "disconnected" \/ (type = "connect_result" /\ ret # "SUCCESS")]

Send(c, type, ret) ==
  [OthersOn(c, type, ret) EXCEPT !.op = "none", !.event = <<[type |-> type, ret |-> ret]>>]

\* As if only a disconnect that was asked for were told.
FinalizeAsked(c, operation, ret) ==
  LET current == c.op
  IN CASE current = operation /\ current \in {"connect", "discovery", "read", "write"} ->
            Send(c, ResultEvent(current), ret)
       [] current # operation /\ current \in {"discovery", "read", "write"} ->
            Send(c, ResultEvent(current), "WRONG_STATE")
       [] current # operation /\ current \in {"connect", "clearance"} ->
            Send(c, "connect_result", "WRONG_STATE")
       [] operation = "disconnect" /\ current = "disconnect" -> Send(c, "disconnected", "SUCCESS")
       [] OTHER -> [c EXCEPT !.op = "none"]

\* finalizeOperation(): the result of another operation than the current one
\* ends the current one with an error, and nothing else is sent then.
FinalizeBle(c, operation, ret) ==
  LET current == c.op
  IN CASE current = operation /\ current \in {"connect", "discovery", "read", "write"} ->
            Send(c, ResultEvent(current), ret)
       [] current # operation /\ current \in {"discovery", "read", "write"} ->
            Send(c, ResultEvent(current), "WRONG_STATE")
       [] current # operation /\ current \in {"connect", "clearance"} ->
            Send(c, "connect_result", "WRONG_STATE")
       [] operation = "disconnect" /\ current \in {"none", "disconnect"} ->
            Send(c, "disconnected", "SUCCESS")
       [] OTHER -> [c EXCEPT !.op = "none"]

-----------------------------------------------------------------------------
(* Commands: [c, ret].  "gattOk" tells whether the SoftDevice takes a call. *)

Answer(c, ret) == [c |-> c, ret |-> ret]

\* connectWithClearance(): the SoftDevice makes one connection at a time.
ConnectWithClearance(c, stone) ==
  IF c.gap # NoStone
  THEN Answer(FinalizeBle(c, "connect", "UNSPECIFIED"), "UNSPECIFIED")
  ELSE Answer([c EXCEPT !.op = "connect", !.gap = stone], "WAIT")

\* connect(): a mesh that is off gives clearance at once.
BleConnect(c, stone) ==
  IF Busy(c) THEN Answer(c, "BUSY")
  ELSE IF Connected(c) THEN Answer(c, "WRONG_STATE")
  ELSE LET room == MakeRoom(c)
       IN IF c.mesh = "off" THEN ConnectWithClearance(room, c.address)
          ELSE Answer([room EXCEPT !.address = stone, !.op = "clearance"], "WAIT")

\* disconnect()
BleDisconnect(c) ==
  LET d == IF Busy(c) THEN FinalizeBle(c, c.op, "CANCELED") ELSE c
  IN IF ~ Connected(d) \/ d.closing THEN Answer(d, "SUCCESS")
     ELSE Answer([d EXCEPT !.op = "disconnect", !.closing = TRUE], "WAIT")

\* discoverServices(), read() and write()
Procedure(c, op, gattOk) ==
  IF Busy(c) THEN Answer(c, "BUSY")
  ELSE IF ~ Connected(c) THEN Answer(c, "WRONG_STATE")
  ELSE IF ~ gattOk \/ c.gatt # "none" \/ c.closing THEN Answer(c, "UNSPECIFIED")
  ELSE Answer([c EXCEPT !.op = op, !.gatt = op], "WAIT")

-----------------------------------------------------------------------------
(* Events of the mesh and of the SoftDevice.                               *)

\* NRF_MESH_EVT_DISABLED: onConnectClearance() goes on to connect.
OnMeshDisabled(c) ==
  LET off == [c EXCEPT !.mesh = "off"]
  IN IF c.op # "clearance" THEN off
     ELSE ConnectWithClearance(FinalizeBle(off, "clearance", "SUCCESS"), c.address).c

\* onConnect(): the MTU comes first, unless it cannot be asked for.
OnGapConnected(c, gattOk) ==
  LET linked == [c EXCEPT !.link = c.gap, !.gap = NoStone]
  IN IF gattOk THEN [linked EXCEPT !.gatt = "mtu"]
     ELSE FinalizeBle(linked, "connect", "SUCCESS")

\* onGapTimeout()
OnGapTimeout(c) ==
  FinalizeBle([c EXCEPT !.gap = NoStone, !.link = NoStone], "connect", "TIMEOUT")

\* onDisconnect()
OnGapDisconnected(c) ==
  FinalizeBle([c EXCEPT !.link = NoStone, !.closing = FALSE, !.gatt = "none"],
              "disconnect", "SUCCESS")

\* onMtu(), onDiscoveryEvent(), onRead() and onWrite(), the last part of it
OnGattDone(c, ret) ==
  FinalizeBle([c EXCEPT !.gatt = "none"], IF c.gatt = "mtu" THEN "connect" ELSE c.gatt, ret)
=============================================================================
