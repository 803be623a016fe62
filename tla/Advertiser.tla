----------------------------- MODULE Advertiser -----------------------------
(***************************************************************************)
(* Advertiser (cs_Advertiser.cpp), with what it asks of Stack and hears of *)
(* BleCentral.  There is one link (NRF_SDH_BLE_TOTAL_LINK_COUNT), so the   *)
(* advertisement is connectable only when no connection is there or made.  *)
(* The SoftDevice takes connections at any time and stops advertising by   *)
(* itself; the events that tell so wait on the scheduler (gap).            *)
(*                                                                         *)
(* s holds the members, and what is really on air; a function is an        *)
(* operator from s to the new s.  The two buffers for the data are 1 and   *)
(* 2, and 0 is no buffer; scan responses go the same way.                  *)
(*                                                                         *)
(* External: the SoftDevice.  A connectable advertiser, an attempt to      *)
(* connect and a connection each take the link.                            *)
(***************************************************************************)
EXTENDS Naturals, Sequences, FiniteSets

CONSTANTS MaxCalls,    \* bound: commands, connections that come, and those that are asked for
          Toggles      \* whether advertising is stopped or started while a connection is
                       \* there, made, or not handled

VARIABLES
  s,
  central,   \* BleCentral: "idle", "clearance", "connecting" or "connected"
  gap,       \* events of the SoftDevice that are not handled
  calls,     \* what MaxCalls leaves
  calm       \* history: no call came while a connection was there, made, or not handled

advVars == <<s, central, gap, calls, calm>>

-----------------------------------------------------------------------------
(* Starting and stopping.                                                  *)

Marked(buffers, buffer) == buffers \cup ({buffer} \ {0})

\* startAdvertising()
Start(t) ==
  LET wanted == [t EXCEPT !.want = TRUE]
      configured == [wanted EXCEPT !.handle = TRUE, !.changed = FALSE,
                                   !.airType = t.type, !.airData = t.data]
  IN CASE t.on \/ t.air -> wanted
       [] ~ t.on /\ ~ t.air /\ t.type = "connectable" /\ (t.link \/ t.connecting) -> configured
       [] OTHER -> [configured EXCEPT !.on = TRUE, !.air = TRUE, !.inUse = Marked(@, t.data)]

\* stopAdvertising(): fails when a connection has already stopped it.
Stop(t) ==
  IF t.on /\ t.air
  THEN [t EXCEPT !.want = FALSE, !.on = FALSE, !.air = FALSE, !.inUse = @ \ {t.data}]
  ELSE [t EXCEPT !.want = FALSE]

RestartAdvertising(t) == Start(Stop(t))

SetParams(t, connectable) ==
  [t EXCEPT !.type = IF connectable THEN "connectable" ELSE "plain", !.isConnectable = connectable]

\* updateAdvertisementParams()
UpdateAdvertisementParams(t) ==
  LET connectable == ~ t.conn
      changed == t.changed \/ (connectable /\ ~ t.isConnectable)
  IN IF changed /\ (t.on \/ t.want)
     THEN RestartAdvertising(SetParams([t EXCEPT !.changed = TRUE], connectable))
     ELSE t

\* getAdvertisementBuffer()
FreeBuffer(t) ==
  IF 1 \notin t.inUse THEN 1 ELSE IF 2 \notin t.inUse THEN 2 ELSE 0

\* updateAdvertisementData()
WithData(t, buffer) ==
  IF t.handle
  THEN [t EXCEPT !.data = buffer, !.airData = buffer, !.inUse = Marked(@ \ {t.data}, buffer)]
  ELSE [t EXCEPT !.data = buffer]
UpdateAdvertisementData(t) ==
  LET buffer == FreeBuffer(t)
      new == WithData(t, buffer)
  IN IF buffer = 0 \/ (t.handle /\ t.air /\ buffer = t.airData) THEN [t EXCEPT !.data = buffer]
     ELSE IF ~ t.on /\ t.want THEN Start(new) ELSE new

\* Advertising starts with the firmware (Crownstone::startUp()).
Init ==
  /\ s = Start(
        [want |-> FALSE,              \* _wantAdvertising
         on |-> FALSE,                \* _advertising
         nextTick |-> FALSE,          \* _startOnNextTick
         handle |-> FALSE,            \* _advHandle is set
         type |-> "connectable",      \* _advParams.properties.type
         isConnectable |-> FALSE,
         changed |-> FALSE,           \* _advParamsChanged
         data |-> 0,                  \* _advData
         inUse |-> {},                \* _advertisementDataBuffersInUse
         conn |-> FALSE,              \* Stack::isConnected()
         air |-> FALSE, airType |-> "plain", airData |-> 0,    \* SoftDevice: the advertisement,
         link |-> FALSE, outgoing |-> FALSE,                   \* the link, and whether it was asked
        connecting |-> FALSE])                                \* for, an attempt to connect
  /\ central = "idle"
  /\ gap = << >>
  /\ calls = MaxCalls
  /\ calm = TRUE
-----------------------------------------------------------------------------
(* Commands, ticks and connections that are asked for.                     *)

Quiet == ~ s.link /\ gap = << >> /\ central = "idle" /\ ~ s.connecting

Call == calls > 0 /\ calls' = calls - 1 /\ calm' = (calm /\ Quiet)

\* CMD_ENABLE_ADVERTISEMENT
EnableAdvertisement(enable) ==
  /\ Call
  /\ Toggles \/ Quiet
  /\ s' = IF enable THEN Start(s) ELSE Stop(s)
  /\ UNCHANGED <<central, gap>>

\* CONFIG_ADV_INTERVAL: configureAdvertisementParameters() makes the type connectable.
SetAdvertisingInterval ==
  /\ Call
  /\ s' = UpdateAdvertisementParams([s EXCEPT !.type = "connectable"])
  /\ UNCHANGED <<central, gap>>

\* EVT_ADVERTISEMENT_UPDATED: the service data changes each second.
UpdateServiceData ==
  /\ s' = UpdateAdvertisementData(s)
  /\ UNCHANGED <<central, gap, calls, calm>>

\* onTick()
Tick ==
  /\ s.nextTick
  /\ LET ticked == [s EXCEPT !.nextTick = FALSE]
     IN s' = IF s.want THEN Start(ticked) ELSE ticked
  /\ UNCHANGED <<central, gap, calls, calm>>

\* BleCentral::connect(), and onConnectOutgoing() on its request for clearance.
ConnectOutgoing ==
  /\ Call
  /\ central = "idle" /\ ~ s.conn
  /\ s' = IF s.on THEN RestartAdvertising(SetParams(s, FALSE)) ELSE s
  /\ central' = "clearance"
  /\ UNCHANGED gap

\* BleCentral::onConnectClearance(): a connection that fails has no result.
ConnectWithClearance ==
  LET taken == s.link \/ s.connecting \/ (s.air /\ s.airType = "connectable")
  IN /\ central = "clearance"
     /\ central' = IF taken THEN "idle" ELSE "connecting"
     /\ s' = [s EXCEPT !.connecting = @ \/ ~ taken]
     /\ UNCHANGED <<gap, calls, calm>>

\* BleCentral::disconnect() while it connects: the result is not a success, and
\* the SoftDevice goes on.
CancelConnect ==
  /\ Call
  /\ central = "connecting"
  /\ central' = "idle"
  /\ s' = UpdateAdvertisementParams(s)
  /\ UNCHANGED gap

-----------------------------------------------------------------------------
(* The SoftDevice, and its events.                                         *)

Event(type, buffer) == [type |-> type, buffer |-> buffer]
Post(type, buffer) == gap' = Append(gap, Event(type, buffer))

\* A phone connects.
Accept ==
  /\ calls > 0 /\ calls' = calls - 1
  /\ s.air /\ s.airType = "connectable"
  /\ s' = [s EXCEPT !.link = TRUE, !.outgoing = FALSE, !.air = FALSE]
  /\ Post("connect", s.airData)
  /\ UNCHANGED <<central, calm>>

Connected ==
  /\ s.connecting
  /\ s' = [s EXCEPT !.connecting = FALSE, !.link = TRUE, !.outgoing = TRUE]
  /\ Post("out", 0)
  /\ UNCHANGED <<central, calls, calm>>

ConnectTimeout ==
  /\ s.connecting
  /\ s' = [s EXCEPT !.connecting = FALSE]
  /\ Post("timeout", 0)
  /\ UNCHANGED <<central, calls, calm>>

\* Either side ends the connection, or the watchdog does.
Drop ==
  /\ s.link
  /\ s' = [s EXCEPT !.link = FALSE]
  /\ Post(IF s.outgoing THEN "end" ELSE "disconnect", 0)
  /\ UNCHANGED <<central, calls, calm>>

\* onConnect(): advertising was stopped by the connection.
OnConnect(t, buffer) ==
  [SetParams(t, FALSE) EXCEPT !.conn = TRUE, !.on = FALSE, !.inUse = @ \ {buffer},
                              !.nextTick = @ \/ t.want]

OnDisconnect(t) == UpdateAdvertisementParams(t)

\* BleCentral ends its operation, which others hear unless it is over; `result`
\* is whether that is the result of a connect that did not succeed.
Finalize(t, result) ==
  /\ s' = IF result THEN OnDisconnect(t) ELSE t
  /\ central' = IF central = "connecting" /\ ~ result THEN "connected" ELSE "idle"

\* BleCentral::onMtu(), or a request for the MTU that fails.
FinishConnect(t) ==
  IF central \in {"clearance", "connecting"}
  THEN Finalize(t, central = "clearance")
  ELSE s' = t /\ UNCHANGED central

HandleEvent ==
  /\ gap # << >>
  /\ LET event == Head(gap)
         here == [s EXCEPT !.conn = TRUE]
         gone == [s EXCEPT !.conn = FALSE]
     IN /\ gap' = IF event.type = "out" /\ s.link /\ s.outgoing
                  THEN Append(Tail(gap), Event("mtu", 0)) ELSE Tail(gap)
        /\ \/ /\ event.type = "connect"
              /\ s' = OnConnect(s, event.buffer) /\ UNCHANGED central
           \/ /\ event.type = "out"
              /\ IF s.link /\ s.outgoing THEN s' = here /\ UNCHANGED central ELSE FinishConnect(here)
           \/ event.type = "mtu" /\ FinishConnect(s)
           \/ /\ event.type = "timeout"
              /\ IF central \in {"clearance", "connecting"} THEN Finalize(s, TRUE) ELSE UNCHANGED <<s, central>>
           \/ /\ event.type = "disconnect"
              /\ s' = OnDisconnect(gone) /\ UNCHANGED central
           \/ event.type = "end" /\ Finalize(gone, TRUE)
  /\ UNCHANGED <<calls, calm>>

Next ==
  \/ \E enable \in BOOLEAN : EnableAdvertisement(enable)
  \/ SetAdvertisingInterval \/ UpdateServiceData \/ Tick
  \/ ConnectOutgoing \/ ConnectWithClearance \/ CancelConnect
  \/ Accept \/ Connected \/ ConnectTimeout \/ Drop \/ HandleEvent
-----------------------------------------------------------------------------
\* The data of an advertisement that is on air is never written: its buffer is
\* marked, whatever connection came in between (markAdvertisementBuffer()); and
\* one of the two is always free (getAdvertisementBuffer() returns no nullptr).
BufferOnAirIsKept ==
  /\ s.air => s.airData \in s.inUse \cup {0}
  /\ Cardinality(s.inUse) < 2

\* Once the events have been handled, Advertiser and Stack know what the
\* SoftDevice does (_advertising "might be out of sync", cs_Advertiser.h).
KnowsWhenHandled == gap = << >> => s.on = s.air /\ s.conn = s.link

\* An attempt to connect waits for clearance: the link is not given away by
\* being connectable meanwhile (onConnectOutgoing()); unless another connection
\* was going on, or something was commanded meanwhile.
LinkIsKeptForCentral ==
  calm /\ central = "clearance" /\ ~ s.link /\ gap = << >> => ~ (s.air /\ s.airType = "connectable")

\* A stone that should advertise can be connected to, once connections ended
\* (updateAdvertisementParams(), onTick(), and the retry in updateAdvertisementData()).
ConnectableInTheEnd == <>[](s.want => s.air /\ s.airType = "connectable")
=============================================================================
