------------------------- MODULE AssetFilterSyncer --------------------------
(***************************************************************************)
(* The syncer of asset filters of every stone (cs_AssetFilterSyncer.cpp):  *)
(* stones broadcast the version of their filters, and a stone that hears   *)
(* an older version connects and uploads what differs.  The connection is  *)
(* that of CrownstoneCentral, seen from its user: a command is accepted or *)
(* not, and its result comes later.                                        *)
(*                                                                         *)
(* External: the mesh keeps the last version heard of every stone (one     *)
(* that is overwritten was lost), and a stone accepts one connection at a  *)
(* time.                                                                   *)
(***************************************************************************)
EXTENDS AssetFilterStore, Lollipop, SequencesExt

CONSTANTS
  Edits,        \* number of commands of the host
  Faults,       \* number of failures of connections
  Resets,       \* number of resets of stones
  VersionMax    \* where versions wrap around (0xFFFF)

VARIABLES
  sync,         \* the syncer of every stone and its connection
  heard,        \* receiver |-> sender |-> version that still is to be handled
  editsLeft, faultsLeft, resetsLeft,
  committed     \* the versions, with their CRC, a host had committed

budgetVars == <<editsLeft, faultsLeft, resetsLeft>>
syncVars == <<store, sync, heard, committed, budgetVars>>

Steps == {"none", "connect", "get_filter_summaries", "remove_filters",
          "upload_filters", "commit", "disconnect"}

Idle == [step |-> "none", toRemove |-> << >>, toUpload |-> << >>, chunk |-> 1,
         link |-> "none", peer |-> CHOOSE n \in Stones : TRUE, request |-> << >>, reply |-> << >>]

Init ==
  /\ FilterInit
  /\ sync = [n \in Stones |-> Idle]
  /\ heard = [m \in Stones |-> [n \in Stones |-> << >>]]
  /\ editsLeft = Edits /\ faultsLeft = Faults /\ resetsLeft = Resets
  /\ committed = {}

\* A connection to the stone is open.
Occupied(n) ==
  \E m \in Stones : sync[m].link \in {"open", "closing"} /\ sync[m].peer = n

-----------------------------------------------------------------------------
(* Versions.                                                               *)

Announced(n) == [version |-> store[n].version, crc |-> store[n].crc]

\* sendVersion(): not while a modification is in progress.
Broadcast(n, h) ==
  IF store[n].inProgress THEN h
  ELSE [m \in Stones |-> IF m = n THEN h[m] ELSE [h[m] EXCEPT ![n] = <<Announced(n)>>]]

\* As if the CRC were not compared.
CompareVersions(n, their) ==
  LET mine == store[n].version
  IN CASE mine = their.version -> "equal"
       [] mine = 0 -> "newer"
       [] OTHER -> IF IsNewer(mine, their.version, VersionMax) THEN "newer" ELSE "older"

\* compareToMyVersion()
Compare(n, their) ==
  LET mine == store[n]
  IN CASE mine.version = 0 /\ their.version = 0 -> "equal"
       [] mine.version = 0 /\ their.version # 0 -> "newer"
       [] mine.version # 0 /\ mine.version = their.version ->
            IF their.crc = mine.crc THEN "equal"
            ELSE IF Above(their.crc, mine.crc) THEN "newer" ELSE "older"
       [] OTHER -> IF IsNewer(mine.version, their.version, VersionMax) THEN "newer" ELSE "older"

-----------------------------------------------------------------------------
(* Handlers of one syncer: from its record to the new one.                 *)

\* disconnect(): a request that is on its way may still be handled.
Disconnect(c) ==
  IF c.link = "open" THEN [c EXCEPT !.step = "disconnect", !.link = "closing"]
  ELSE [c EXCEPT !.step = "none"]

\* reset(): a connection that is still being made is not ended.
Abort(c) ==
  [(IF c.step \notin {"none", "connect", "disconnect"} THEN Disconnect(c) ELSE c)
     EXCEPT !.step = "none", !.toRemove = << >>, !.toUpload = << >>, !.chunk = 1]

\* A command that is written to the other stone.
Write(c, step, request) ==
  IF c.link = "open" /\ c.request = << >>
  THEN [c EXCEPT !.step = step, !.request = <<request>>]
  ELSE Abort(c)

\* commit(): the version and the CRC the stone has now.
SendCommit(n, c) ==
  Write(c, "commit", [command |-> "commit", version |-> store[n].version, crc |-> store[n].crc])

\* uploadNextFilter(): the data the stone has now, one chunk after the other.
UploadNext(n, c) ==
  IF c.toUpload = << >> THEN SendCommit(n, c)
  ELSE LET id == Head(c.toUpload)
       IN IF id \notin DOMAIN store[n].filters THEN Abort(c)
          ELSE LET content == store[n].filters[id].content
                   next == Write(c, "upload_filters",
                             [command |-> "upload", id |-> id, total |-> Length[content[1]],
                              chunk |-> c.chunk, packet |-> content[c.chunk]])
               IN IF c.chunk = 1 THEN [next EXCEPT !.chunk = 2]
                  ELSE [next EXCEPT !.chunk = 1, !.toUpload = Tail(c.toUpload)]

\* removeNextFilter()
RemoveNext(n, c) ==
  IF c.toRemove = << >> THEN UploadNext(n, c)
  ELSE Write([c EXCEPT !.toRemove = Tail(@)], "remove_filters",
             [command |-> "remove", id |-> Head(c.toRemove)])

Ascending(ids) == SetToSortSeq(ids, <)

\* onFilterSummaries(): filters they have and we do not are removed, those with
\* another CRC and those they do not have are uploaded.
OnFilterSummaries(n, c, theirs) ==
  LET mine  == store[n].filters
      differ == {i \in DOMAIN mine \cap DOMAIN theirs.filters : mine[i].crc # theirs.filters[i]}
  IN IF Compare(n, theirs) # "older" THEN Abort(c)
     ELSE RemoveNext(n, [c EXCEPT
            !.toRemove = Ascending(DOMAIN theirs.filters \ DOMAIN mine),
            !.toUpload = Ascending(differ) \o Ascending(DOMAIN mine \ DOMAIN theirs.filters),
            !.chunk = 1])

\* onConnectResult(), successful
OnConnected(c) ==
  IF c.step = "connect"
  THEN Write(c, "get_filter_summaries", [command |-> "summaries"]) ELSE c

\* onWriteResult()
OnWriteResult(n, c, result) ==
  IF c.step = "none" THEN c
  ELSE IF result.ret # "SUCCESS" THEN Abort(c)
  ELSE CASE c.step = "get_filter_summaries" -> OnFilterSummaries(n, c, result.summaries)
         [] c.step = "remove_filters" -> RemoveNext(n, c)
         [] c.step = "upload_filters" -> UploadNext(n, c)
         [] c.step = "commit" -> Disconnect(c)
         [] OTHER -> Abort(c)

\* As if uploading went on.
OnModificationIgnored(c) == c

\* onModificationInProgress(), of the stone whose filters are modified
OnModification(c) == IF c.step # "none" THEN Abort(c) ELSE c

-----------------------------------------------------------------------------
(* Actions of the syncer.                                                  *)

\* onTick()
SendVersion(n) ==
  /\ heard' = Broadcast(n, heard)
  /\ UNCHANGED <<store, sync, committed, budgetVars>>

\* onVersion(): syncFilters() when ours is newer, sendVersion() when theirs is.
OnVersion(m, n) ==
  /\ heard[m][n] # << >>
  /\ LET relation == Compare(m, Head(heard[m][n]))
         handled  == [heard EXCEPT ![m][n] = << >>]
     IN /\ heard' = IF relation = "newer" THEN Broadcast(m, handled) ELSE handled
        /\ sync' =
             IF /\ relation = "older" /\ sync[m].step = "none" /\ ~ store[m].inProgress
                /\ sync[m].link = "none"
             THEN [sync EXCEPT ![m].step = "connect", ![m].link = "connecting", ![m].peer = n]
             ELSE sync
  /\ UNCHANGED <<store, committed, budgetVars>>

ConnectDone(m) ==
  /\ sync[m].link = "connecting" /\ ~ Occupied(sync[m].peer)
  /\ sync' = [sync EXCEPT ![m] = OnConnected([@ EXCEPT !.link = "open"])]
  /\ UNCHANGED <<store, heard, committed, budgetVars>>

\* A failure, or the other stone is connected already.
ConnectFails(m) ==
  /\ sync[m].link = "connecting"
  /\ \/ Occupied(sync[m].peer) /\ UNCHANGED faultsLeft
     \/ faultsLeft > 0 /\ faultsLeft' = faultsLeft - 1
  /\ sync' = [sync EXCEPT ![m] = Abort([@ EXCEPT !.link = "none"])]
  /\ UNCHANGED <<store, heard, committed, editsLeft, resetsLeft>>

\* The other stone handles a command.
Execution(s, request) ==
  CASE request.command = "summaries" -> [s |-> s, ret |-> "SUCCESS"]
    [] request.command = "remove" -> HandleRemove(s, request.id)
    [] request.command = "upload" ->
         HandleUpload(s, request.id, request.total, request.chunk, request.packet)
    [] request.command = "commit" -> HandleCommit(s, request.version, request.crc)

Execute(m) ==
  /\ sync[m].request # << >> /\ sync[m].reply = << >>
  /\ LET request == Head(sync[m].request)
         n       == sync[m].peer
         result  == Execution(store[n], request)
         reply   == [ret |-> result.ret, summaries |-> Summaries(store[n])]
         replied == [sync EXCEPT ![m].reply = <<reply>>]
     IN /\ store' = [store EXCEPT ![n] = result.s]
        /\ sync' = IF \/ request.command = "upload"
                      \/ request.command = "remove" /\ result.ret = "SUCCESS"
                   THEN [replied EXCEPT ![n] = OnModification(@)] ELSE replied
  /\ UNCHANGED <<heard, committed, budgetVars>>

WriteResult(m) ==
  /\ sync[m].reply # << >> /\ sync[m].link = "open"
  /\ sync' = [sync EXCEPT ![m] =
                OnWriteResult(m, [@ EXCEPT !.request = << >>, !.reply = << >>], Head(@.reply))]
  /\ UNCHANGED <<store, heard, committed, budgetVars>>

\* The connection is gone: onDisconnect(), or the error of the command.
Unlinked(c) ==
  Abort([c EXCEPT !.link = "none", !.peer = Idle.peer, !.request = << >>, !.reply = << >>])

Closed(m) ==
  /\ sync[m].link = "closing"
  /\ sync' = [sync EXCEPT ![m] = Unlinked(@)]
  /\ UNCHANGED <<store, heard, committed, budgetVars>>

\* The link is lost; the other stone ends one that is not used.
LinkLost(m) ==
  /\ sync[m].link = "open"
  /\ \/ sync[m].step = "none" /\ UNCHANGED faultsLeft
     \/ sync[m].step # "none" /\ faultsLeft > 0 /\ faultsLeft' = faultsLeft - 1
  /\ sync' = [sync EXCEPT ![m] = Unlinked(@)]
  /\ UNCHANGED <<store, heard, committed, editsLeft, resetsLeft>>

-----------------------------------------------------------------------------
(* The host, time and resets.                                              *)

\* A host is connected to the stone for one command.
HostCommand(n) ==
  /\ editsLeft > 0 /\ ~ Occupied(n)
  /\ editsLeft' = editsLeft - 1
  /\ UNCHANGED <<heard, faultsLeft, resetsLeft>>

HostUpload(n, id, packet) ==
  /\ HostCommand(n)
  /\ Set(n, HandleUpload(store[n], id, Length[packet], 1, packet))
  /\ sync' = [sync EXCEPT ![n] = OnModification(@)]
  /\ UNCHANGED committed

HostRemove(n, id) ==
  /\ HostCommand(n)
  /\ id \in DOMAIN store[n].filters
  /\ Set(n, HandleRemove(store[n], id))
  /\ sync' = [sync EXCEPT ![n] = OnModification(@)]
  /\ UNCHANGED committed

DataCrc(filters) ==
  [i \in Ids |-> IF i \in DOMAIN filters THEN Crc(filters[i].content) ELSE 0]

Latest == IF committed = {} THEN 0 ELSE Max({c[1] : c \in committed})

\* The host commits the next version, or a host that does not know of the last
\* one commits that version too.
HostCommit(n, version) ==
  /\ HostCommand(n)
  /\ LET crc == DataCrc(store[n].filters)
         result == HandleCommit(store[n], version, crc)
     IN /\ Set(n, result)
        /\ committed' = IF result.ret = "SUCCESS"
                        THEN committed \cup {<<version, crc>>} ELSE committed
  /\ UNCHANGED sync

\* The modification of a stone that is being synced times out only when the
\* connection stalls.
TimeOut(n) ==
  /\ InProgressTimeout(n)
  /\ IF Occupied(n) THEN faultsLeft > 0 /\ faultsLeft' = faultsLeft - 1
                    ELSE UNCHANGED faultsLeft
  /\ UNCHANGED <<sync, heard, committed, editsLeft, resetsLeft>>

\* When power goes, some of what was to be stored is in flash, and the rest is
\* as it was at the reset before.
Saved(s, keys, versionToo) ==
  LET now == DOMAIN s.stored
      old == DOMAIN s.flash
  IN [s EXCEPT
       !.flash = [k \in (now \cap keys) \cup (old \ keys) |->
                    IF k \in keys THEN s.stored[k] ELSE s.flash[k]],
       !.flashVersion = IF versionToo THEN s.storedVersion ELSE @]

PowerCycle(n) ==
  /\ resetsLeft > 0 /\ resetsLeft' = resetsLeft - 1
  /\ \E keys \in SUBSET (DOMAIN store[n].stored \cup DOMAIN store[n].flash), versionToo \in BOOLEAN :
       store' = [store EXCEPT ![n] = LoadFromFlash(Saved(@, keys, versionToo))]
  /\ sync' = [m \in Stones |->
       IF m = n THEN Idle
       ELSE IF sync[m].link # "none" /\ sync[m].peer = n THEN Unlinked(sync[m])
       ELSE sync[m]]
  /\ heard' = [heard EXCEPT ![n] = [m \in Stones |-> << >>]]
  /\ UNCHANGED <<committed, editsLeft, faultsLeft>>

Next ==
  \/ \E n \in Stones :
       \/ SendVersion(n) \/ ConnectDone(n) \/ ConnectFails(n) \/ Execute(n) \/ WriteResult(n)
       \/ Closed(n) \/ LinkLost(n) \/ TimeOut(n) \/ PowerCycle(n)
       \/ \E id \in Ids, packet \in 1..NumPackets : HostUpload(n, id, packet)
       \/ \E id \in Ids : HostRemove(n, id)
       \/ \E version \in {Latest, NextVersion(Latest, VersionMax)} \ {0} : HostCommit(n, version)
  \/ \E m, n \in Stones : OnVersion(m, n)

Fairness ==
  /\ \A n \in Stones :
       /\ WF_syncVars(SendVersion(n)) /\ WF_syncVars(ConnectDone(n)) /\ WF_syncVars(Execute(n))
       /\ WF_syncVars(WriteResult(n)) /\ WF_syncVars(Closed(n))
       /\ WF_syncVars(LinkLost(n) /\ sync[n].step = "none")
       /\ WF_syncVars(TimeOut(n) /\ ~ Occupied(n))
  /\ \A m, n \in Stones : WF_syncVars(OnVersion(m, n))

Spec == Init /\ [][Next]_syncVars
FairSpec == Spec /\ Fairness
=============================================================================
