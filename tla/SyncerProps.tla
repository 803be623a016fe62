---------------------------- MODULE SyncerProps -----------------------------
(***************************************************************************)
(* What the stores and the syncers of asset filters guarantee together.    *)
(***************************************************************************)
EXTENDS AssetFilterSyncer

\* The version of a stone, wherever it came from, is one a host had committed,
\* with the filters the host committed: a stone never shows a version with half
\* of its filters, or with filters of two versions (commit(), startInProgress(),
\* and uploadNextFilter() that reads filters that may have changed meanwhile).
VersionIsCommitted ==
  \A n \in Stones : LET s == store[n] IN s.version # 0 =>
    /\ <<s.version, s.crc>> \in committed
    /\ ~ s.inProgress /\ Uncommitted(s) = {}
    /\ DataCrc(s.filters) = s.crc

\* Who uploads is newer: while a stone uploads, it has a version itself.
UploaderHasVersion ==
  \A n \in Stones :
    sync[n].step \in {"remove_filters", "upload_filters", "commit"} => store[n].version # 0

\* The CRC that a store has calculated of a filter is that of its data.  One that was
\* calculated stays when a chunk is written after a commit that failed
\* (computeFilterCrcs()).
CrcsAreRight ==
  \A n \in Stones : \A i \in DOMAIN store[n].filters :
    store[n].filters[i].crc \in {0, Crc(store[n].filters[i].content)}

\* Only what a host had committed spreads.
OnlyCommittedSpreads == VersionIsCommitted /\ UploaderHasVersion

\* All stones have the same version and the same filters.
Agreement ==
  \A m, n \in Stones :
    /\ ~ store[m].inProgress
    /\ store[m].version = store[n].version
    /\ store[m].version # 0 =>
         /\ store[m].crc = store[n].crc
         /\ DataCrc(store[m].filters) = DataCrc(store[n].filters)

\* When hosts, failures and resets come to an end, the stones come to agree.
Converges == <>[]Agreement

-----------------------------------------------------------------------------
\* For small instances: the parts of filters all take the same room.
EqualLengths == [c \in Chunks |-> 1]
=============================================================================
