----------------------------- MODULE FilterHost -----------------------------
(***************************************************************************)
(* One stone, a host that uploads, removes and commits filters in any      *)
(* order, and resets at any moment: what the store of filters guarantees.  *)
(***************************************************************************)
EXTENDS AssetFilterStore

CONSTANTS
  MaxVersion,   \* the host commits versions 1..MaxVersion
  Commands,     \* number of commands of the host
  Resets,       \* number of resets
  Rewrites      \* whether a chunk may be written after a commit that failed

VARIABLES
  commandsLeft,
  resetsLeft,
  committed     \* the versions, with their CRC, the host had committed

hostVars == <<store, commandsLeft, resetsLeft, committed>>

TypeOK ==
  \A n \in Stones :
    /\ \A i \in DOMAIN store[n].filters :
         /\ i \in Ids
         /\ store[n].filters[i] \in [content : Chunks \X Chunks, total : Totals \cup TypeSizes
                                      \cup {Length[0]}, committed : BOOLEAN, crc : Nat]
    /\ store[n].version \in 0..MaxVersion
    /\ store[n].inProgress \in BOOLEAN
    /\ DOMAIN store[n].stored \cup DOMAIN store[n].flash \subseteq TypeSizes \X Ids

Init ==
  /\ FilterInit
  /\ commandsLeft = Commands /\ resetsLeft = Resets
  /\ committed = {}

Command ==
  /\ commandsLeft > 0
  /\ commandsLeft' = commandsLeft - 1
  /\ UNCHANGED resetsLeft

UploadChunk(n, id, total, chunk, packet) ==
  /\ Command
  /\ \/ Rewrites
     \/ id \in DOMAIN store[n].filters =>
          store[n].filters[id].committed \/ store[n].filters[id].crc = 0
  /\ Set(n, HandleUpload(store[n], id, total, chunk, packet))
  /\ UNCHANGED committed

RemoveFilter(n, id) ==
  /\ Command
  /\ Set(n, HandleRemove(store[n], id))
  /\ UNCHANGED committed

\* The host commits the CRC of what it thinks is there: either it is right, or
\* it is the CRC of other data.
CommitChanges(n, version, crc) ==
  /\ Command
  /\ Set(n, HandleCommit(store[n], version, crc))
  /\ committed' = IF HandleCommit(store[n], version, crc).ret = "SUCCESS"
                  THEN committed \cup {<<n, version, crc>>} ELSE committed

\* The CRC of the data that are there.
DataCrc(filters) ==
  [i \in Ids |-> IF i \in DOMAIN filters THEN Crc(filters[i].content) ELSE 0]

PowerCycle(n) ==
  /\ resetsLeft > 0
  /\ resetsLeft' = resetsLeft - 1
  /\ Reset(n)
  /\ UNCHANGED <<commandsLeft, committed>>

Next == \E n \in Stones :
  \/ \E id \in Ids, total \in Totals, chunk \in 1..2, packet \in 1..NumPackets :
       UploadChunk(n, id, total, chunk, packet)
  \/ \E id \in Ids : RemoveFilter(n, id)
  \/ \E version \in 1..MaxVersion, crc \in {DataCrc(store[n].filters), MasterCrc(store[n].filters)} :
       CommitChanges(n, version, crc)
  \/ InProgressTimeout(n) /\ UNCHANGED <<commandsLeft, resetsLeft, committed>>
  \/ Flush(n) /\ UNCHANGED <<commandsLeft, resetsLeft, committed>>
  \/ PowerCycle(n)

Spec == Init /\ [][Next]_hostVars

-----------------------------------------------------------------------------
(* Properties.                                                             *)

\* A stone that has a version has what the host committed as that version: no
\* modification is going on, no filter is half uploaded, and the data are those
\* the CRC was calculated over (startInProgress(), commit(), inProgressTimeout()
\* and loadFromFlash() together).
VersionMeansFilters ==
  \A n \in Stones : LET s == store[n] IN s.version # 0 =>
    /\ ~ s.inProgress /\ Uncommitted(s) = {}
    /\ DataCrc(s.filters) = s.crc
    /\ <<n, s.version, s.crc>> \in committed

\* When the changes of a commit are stored, a reset gives the same version and the
\* same filters (storeFilters(), endInProgress(), loadFromFlash()).
ResetKeepsFilters ==
  \A n \in Stones : LET s == store[n]
                        r == LoadFromFlash(s)
    IN s.version # 0 /\ s.flash = s.stored /\ s.flashVersion = s.storedVersion =>
         r.version = s.version /\ r.crc = s.crc /\ r.filters = s.filters

\* Whatever part of the changes has reached flash, a reset comes up with a
\* version the host committed, or with nothing: never with a mixture.
ResetIsAtomic ==
  \A n \in Stones : LET r == LoadFromFlash(store[n])
    IN IF r.version = 0 THEN r.filters = << >>
       ELSE <<n, r.version, r.crc>> \in committed /\ DataCrc(r.filters) = r.crc

\* A modification that is over, whatever way, leaves no filter that was not
\* committed.
NoStrayFilters ==
  \A n \in Stones : ~ store[n].inProgress => Uncommitted(store[n]) = {}

=============================================================================
