---------------------------- MODULE SyncerProofs ----------------------------
(***************************************************************************)
(* What the comparison of versions guarantees for every range of versions, *)
(* and what the stores and the syncers of asset filters guarantee together. *)
(***************************************************************************)
EXTENDS SyncerProps, TLAPS

\* Two versions that are not exactly half the range apart: one is newer than
\* the other, and not the other way around (Lollipop::operator<).
THEOREM NewerOneWay ==
  ASSUME NEW max \in Nat, max >= 2,
         NEW a \in 1..max, NEW b \in 1..max, a # b,
         a - b # max \div 2, b - a # max \div 2
  PROVE  IsNewer(a, b, max) <=> ~ IsNewer(b, a, max)
<1> DEFINE half == max \div 2
<1>1. half \in Nat /\ 2 * half <= max /\ max <= 2 * half + 1
  OBVIOUS
<1>2. ASSUME NEW p \in 1..max, NEW c \in 1..max
      PROVE  IsNewer(p, c, max) <=>
               IF p > half THEN c <= p - half \/ c > p ELSE p < c /\ c <= p + half
  BY <1>1 DEF IsNewer, InWindow
<1> HIDE DEF half
<1>3. a - b # half /\ b - a # half
  BY DEF half
<1>4. IsNewer(a, b, max) <=>
        IF a > half THEN b <= a - half \/ b > a ELSE a < b /\ b <= a + half
  BY <1>2
<1>5. IsNewer(b, a, max) <=>
        IF b > half THEN a <= b - half \/ a > b ELSE b < a /\ a <= b + half
  BY <1>2
<1> QED
  BY <1>1, <1>3, <1>4, <1>5

\* Two versions that are exactly half the range apart are each newer than the
\* other, whatever the comment of operator< says of the window.
THEOREM BothNewerAtHalf ==
  ASSUME NEW max \in Nat, max >= 2,
         NEW a \in 1..max, a + max \div 2 <= max
  PROVE  IsNewer(a, a + max \div 2, max) /\ IsNewer(a + max \div 2, a, max)
<1> DEFINE half == max \div 2
<1>1. half \in Nat /\ half >= 1 /\ 2 * half <= max /\ max <= 2 * half + 1
  OBVIOUS
<1> QED
  BY <1>1 DEF IsNewer, InWindow

\* The version that follows is newer, where versions wrap around as well
\* (Lollipop::next()).
THEOREM NextIsNewer ==
  ASSUME NEW max \in Nat, max >= 3, NEW v \in 0..(max - 1)
  PROVE  IsNewer(v, NextVersion(v, max), max)
<1> DEFINE half == max \div 2
<1>1. half \in Nat /\ half >= 1 /\ 2 * half <= max /\ max <= 2 * half + 1
  OBVIOUS
<1> QED
  BY <1>1 DEF IsNewer, InWindow, NextVersion

-----------------------------------------------------------------------------
(* The store of one stone.  A set `K` of versions stands for `committed`.  *)

FilterShape(f) == DOMAIN f = {"content", "total", "committed", "crc"}

StoneFields ==
  {"filters", "version", "crc", "inProgress", "stored", "storedVersion", "flash", "flashVersion"}

Shape(s) ==
  /\ DOMAIN s = StoneFields
  /\ \A i \in DOMAIN s.filters : FilterShape(s.filters[i])

Summed(s) == \A i \in DOMAIN s.filters : s.filters[i].crc \in {0, Crc(s.filters[i].content)}

\* What the version says of the filters.
Whole(s) == ~ s.inProgress /\ Uncommitted(s) = {} /\ DataCrc(s.filters) = s.crc

\* A version, in RAM or in flash, was committed.
Genuine(K, v) == v.version # 0 => <<v.version, v.crc>> \in K

StoneInv(K, s) ==
  /\ Shape(s)
  /\ s.version # 0 => Whole(s)
  /\ Genuine(K, s) /\ Genuine(K, s.storedVersion) /\ Genuine(K, s.flashVersion)

\* Nothing but the filters changes, and what is stored of them.
SameVersions(s, t) ==
  /\ t.version = s.version /\ t.crc = s.crc /\ t.inProgress = s.inProgress
  /\ t.storedVersion = s.storedVersion /\ t.flashVersion = s.flashVersion

LEMMA FreshFine == ASSUME NEW K PROVE StoneInv(K, Fresh)
BY DEF StoneInv, Shape, StoneFields, Genuine, Fresh, NoVersion

LEMMA DeallocateIs ==
  ASSUME NEW s, Shape(s), NEW ids
  PROVE  Shape(Deallocate(s, ids)) /\ SameVersions(s, Deallocate(s, ids))
<1> DEFINE t == Deallocate(s, ids)
           f == Restrict(s.filters, DOMAIN s.filters \ ids)
<1>1. \A i \in DOMAIN f : FilterShape(f[i])
  BY DEF Shape, StoneFields, Restrict
<1>2. DOMAIN t = StoneFields /\ t.filters = f /\ SameVersions(s, t)
  BY DEF Shape, StoneFields, Deallocate, Without, StoneFields, SameVersions
<1> HIDE DEF f, t
<1> QED
  BY <1>1, <1>2 DEF Shape, StoneFields, t

LEMMA StartIs ==
  ASSUME NEW s, Shape(s)
  PROVE  LET t == StartInProgress(s)
         IN /\ Shape(t) /\ t.version = 0 /\ t.filters = s.filters
            /\ t.storedVersion = s.storedVersion /\ t.flashVersion = s.flashVersion
BY DEF Shape, StoneFields, StartInProgress

\* Writing a chunk ends the version of a stone, and so does removing a filter.
LEMMA UploadIs ==
  ASSUME NEW K, NEW s, StoneInv(K, s), NEW id, NEW total, NEW chunk, NEW packet,
         NEW r, r = HandleUpload(s, id, total, chunk, packet)
  PROVE  StoneInv(K, r.s) /\ r.s.version = 0
<1> DEFINE ready == ForUpload(s, id)
           f == IF id \in DOMAIN ready.filters THEN ready.filters[id] ELSE NewFilter(total)
           g == [f EXCEPT !.content[chunk] = packet]
           w == WriteChunk(ready, id, total, chunk, packet)
<1>1. /\ Shape(ready) /\ ready.version = 0
      /\ ready.storedVersion = s.storedVersion /\ ready.flashVersion = s.flashVersion
  BY StartIs, DeallocateIs DEF ForUpload, StoneInv, SameVersions
<1> HIDE DEF ready
<1>2. /\ Shape(Deallocate(ready, {id})) /\ SameVersions(ready, Deallocate(ready, {id}))
  BY <1>1, DeallocateIs
<1>3. Shape(w) /\ SameVersions(ready, w)
  <2>1. FilterShape(f)
    BY <1>1 DEF Shape, StoneFields, NewFilter, FilterShape
  <2> HIDE DEF f
  <2>2. FilterShape(g)
    BY <2>1 DEF FilterShape
  <2> HIDE DEF g
  <2> DEFINE fs == With(ready.filters, id, g)
  <2>3. \A i \in DOMAIN fs : FilterShape(fs[i])
    BY <1>1, <2>2 DEF Shape, StoneFields, With
  <2>4. w = [ready EXCEPT !.filters = fs]
    BY DEF WriteChunk, f, g
  <2> HIDE DEF fs, w
  <2> QED
    BY <1>1, <2>3, <2>4 DEF Shape, StoneFields, SameVersions
<1>4. r.s = Deallocate(ready, {id}) \/ r.s = ready \/ r.s = w
  BY DEF HandleUpload, ready
<1> HIDE DEF w
<1>5. Shape(r.s) /\ r.s.version = 0 /\ r.s.storedVersion = s.storedVersion /\ r.s.flashVersion = s.flashVersion
  BY <1>1, <1>2, <1>3, <1>4 DEF SameVersions
<1> QED
  BY <1>5 DEF StoneInv, Genuine

LEMMA RemoveIs ==
  ASSUME NEW K, NEW s, StoneInv(K, s), NEW id, NEW r, r = HandleRemove(s, id)
  PROVE  StoneInv(K, r.s) /\ (r.ret = "SUCCESS" \/ r.s = s)
<1> DEFINE d == Deallocate(s, {id})
<1>1. Shape(d) /\ SameVersions(s, d)
  BY DeallocateIs DEF StoneInv
<1> HIDE DEF d
<1>2. StoneInv(K, StartInProgress(d))
  BY <1>1, StartIs DEF StoneInv, Genuine, SameVersions
<1> QED
  BY <1>2 DEF HandleRemove, d

-----------------------------------------------------------------------------
(* A commit: a checksum that is right is that of the data.                 *)

LEMMA ComputeIs ==
  ASSUME NEW s, Shape(s)
  PROVE  LET t == ComputeCrcs(s)
         IN /\ Shape(t) /\ SameVersions(s, t) /\ DOMAIN t.filters = DOMAIN s.filters
            /\ \A i \in DOMAIN s.filters :
                 /\ t.filters[i].content = s.filters[i].content
                 /\ t.filters[i].committed = s.filters[i].committed
                 /\ Summed(s) => t.filters[i].crc = Crc(s.filters[i].content)
<1> DEFINE fs == [i \in DOMAIN s.filters |->
                    IF s.filters[i].crc = 0 THEN [s.filters[i] EXCEPT !.crc = Crc(s.filters[i].content)]
                    ELSE s.filters[i]]
           t == ComputeCrcs(s)
<1>1. t = [s EXCEPT !.filters = fs]
  BY DEF ComputeCrcs
<1>2. ASSUME NEW i \in DOMAIN s.filters
      PROVE  /\ FilterShape(fs[i]) /\ fs[i].content = s.filters[i].content
             /\ fs[i].committed = s.filters[i].committed
             /\ Summed(s) => fs[i].crc = Crc(s.filters[i].content)
  BY DEF Shape, FilterShape, Summed
<1>3. DOMAIN fs = DOMAIN s.filters
  OBVIOUS
<1> HIDE DEF fs, t
<1>4. t.filters = fs /\ SameVersions(s, t) /\ Shape(t)
  BY <1>1, <1>2, <1>3 DEF Shape, StoneFields, SameVersions
<1> QED
  BY <1>2, <1>3, <1>4 DEF t

LEMMA StoreFiltersIs ==
  ASSUME NEW s, Shape(s)
  PROVE  Shape(StoreFilters(s)) /\ SameVersions(s, StoreFilters(s)) /\ StoreFilters(s).filters = s.filters
BY DEF Shape, StoneFields, SameVersions, StoreFilters

LEMMA MarkIs ==
  ASSUME NEW s, Shape(s)
  PROVE  LET t == MarkCommitted(s)
         IN /\ Shape(t) /\ SameVersions(s, t) /\ DOMAIN t.filters = DOMAIN s.filters
            /\ Uncommitted(t) = {}
            /\ \A i \in DOMAIN s.filters : t.filters[i].content = s.filters[i].content
<1> DEFINE fs == [i \in DOMAIN s.filters |-> [s.filters[i] EXCEPT !.committed = TRUE]]
           t == MarkCommitted(s)
<1>1. t = [s EXCEPT !.filters = fs]
  BY DEF MarkCommitted
<1>2. ASSUME NEW i \in DOMAIN s.filters
      PROVE  FilterShape(fs[i]) /\ fs[i].content = s.filters[i].content /\ fs[i].committed
  BY DEF Shape, StoneFields, FilterShape
<1>3. DOMAIN fs = DOMAIN s.filters
  OBVIOUS
<1> HIDE DEF fs, t
<1>4. t.filters = fs /\ SameVersions(s, t) /\ Shape(t)
  BY <1>1, <1>2, <1>3 DEF Shape, StoneFields, SameVersions
<1>5. Uncommitted(t) = {}
  BY <1>2, <1>3, <1>4 DEF Uncommitted
<1> QED
  BY <1>2, <1>3, <1>4, <1>5 DEF t

LEMMA SameData ==
  ASSUME NEW f, NEW g, DOMAIN f = DOMAIN g, \A i \in DOMAIN f : f[i].content = g[i].content
  PROVE  DataCrc(f) = DataCrc(g)
BY DEF DataCrc

LEMMA CommitIs ==
  ASSUME NEW s, Shape(s), Summed(s), NEW version, NEW crc, NEW r,
         r = Commit(s, version, crc, TRUE) \/ r = Commit(s, version, crc, FALSE)
  PROVE  /\ Shape(r.s) /\ r.s.flashVersion = s.flashVersion
         /\ IF r.ret = "SUCCESS"
            THEN /\ r.s.version = version /\ r.s.crc = crc /\ Whole(r.s)
                 /\ r.s.storedVersion = [version |-> version, crc |-> crc]
            ELSE SameVersions(s, r.s) /\ (Whole(s) => Whole(r.s))
<1> DEFINE summed == ComputeCrcs(s)
           invalid == InvalidFilters(s)
<1>1. /\ Shape(summed) /\ SameVersions(s, summed) /\ DOMAIN summed.filters = DOMAIN s.filters
      /\ \A i \in DOMAIN s.filters :
           /\ summed.filters[i].content = s.filters[i].content
           /\ summed.filters[i].committed = s.filters[i].committed
           /\ summed.filters[i].crc = Crc(s.filters[i].content)
  BY ComputeIs
<1>2. PICK saved \in {summed, StoreFilters(summed)} :
         r = IF invalid # {} THEN [s |-> Deallocate(s, invalid), ret |-> "WRONG_STATE"]
             ELSE IF MasterCrc(summed.filters) # crc THEN [s |-> summed, ret |-> "MISMATCH"]
             ELSE [s |-> EndInProgress(MarkCommitted(saved), version, crc), ret |-> "SUCCESS"]
  BY DEF Commit
<1> DEFINE marked == MarkCommitted(saved)
           done == EndInProgress(marked, version, crc)
<1>3. invalid \subseteq Uncommitted(s)
  BY DEF InvalidFilters
<1> HIDE DEF invalid, summed, marked, done
<1>4. Shape(saved) /\ SameVersions(summed, saved) /\ saved.filters = summed.filters
  BY <1>1, <1>2, StoreFiltersIs DEF SameVersions
<1>5. /\ Shape(marked) /\ SameVersions(saved, marked) /\ DOMAIN marked.filters = DOMAIN saved.filters
      /\ Uncommitted(marked) = {}
      /\ \A i \in DOMAIN saved.filters : marked.filters[i].content = saved.filters[i].content
  BY <1>4, MarkIs DEF marked
<1>6. /\ Shape(done) /\ done.version = version /\ done.crc = crc /\ ~ done.inProgress
      /\ done.filters = marked.filters /\ done.flashVersion = marked.flashVersion
      /\ done.storedVersion = [version |-> version, crc |-> crc]
  BY <1>5 DEF done, EndInProgress, Shape, StoneFields
<1>7. CASE invalid # {}
  <2>1. r.s = Deallocate(s, invalid) /\ r.ret # "SUCCESS"
    BY <1>2, <1>7
  <2>2. ~ Whole(s)
    BY <1>3, <1>7 DEF Whole
  <2> QED
    BY <2>1, <2>2, DeallocateIs DEF SameVersions
<1>8. CASE invalid = {} /\ MasterCrc(summed.filters) # crc
  <2>1. r.s = summed /\ r.ret # "SUCCESS"
    BY <1>2, <1>8
  <2>2. Uncommitted(summed) = Uncommitted(s)
    BY <1>1 DEF Uncommitted
  <2>3. DataCrc(summed.filters) = DataCrc(s.filters)
    BY <1>1, SameData
  <2> QED
    BY <1>1, <2>1, <2>2, <2>3 DEF SameVersions, Whole
<1>9. CASE invalid = {} /\ MasterCrc(summed.filters) = crc
  <2>1. r.s = done /\ r.ret = "SUCCESS"
    BY <1>2, <1>9 DEF done, marked
  <2>2. MasterCrc(summed.filters) = DataCrc(s.filters)
    BY <1>1 DEF MasterCrc, DataCrc
  <2>3. DataCrc(done.filters) = DataCrc(s.filters)
    BY <1>1, <1>4, <1>5, <1>6, SameData
  <2>4. Uncommitted(done) = {}
    BY <1>5, <1>6 DEF Uncommitted
  <2> QED
    BY <1>1, <1>4, <1>5, <1>6, <1>9, <2>1, <2>2, <2>3, <2>4 DEF SameVersions, Whole
<1> QED
  BY <1>7, <1>8, <1>9

\* A commit of a version that was, or will be, committed.
LEMMA CommitFine ==
  ASSUME NEW K, NEW s, StoneInv(K, s), Summed(s), NEW version, NEW crc, version # 0,
         NEW r, r = HandleCommit(s, version, crc), NEW L, L = K \cup {<<version, crc>>}
  PROVE  /\ r.ret = "SUCCESS" => StoneInv(L, r.s) /\ r.s.version # 0
         /\ r.ret # "SUCCESS" => StoneInv(K, r.s) /\ r.s.version = s.version
<1>1. r = Commit(s, version, crc, TRUE) /\ Shape(s)
  BY DEF HandleCommit, StoneInv
<1>2. /\ Shape(r.s) /\ r.s.flashVersion = s.flashVersion
      /\ IF r.ret = "SUCCESS"
         THEN /\ r.s.version = version /\ r.s.crc = crc /\ Whole(r.s)
              /\ r.s.storedVersion = [version |-> version, crc |-> crc]
         ELSE SameVersions(s, r.s) /\ (Whole(s) => Whole(r.s))
  BY <1>1, CommitIs
<1> QED
  BY <1>2 DEF StoneInv, Genuine, SameVersions

\* A reset comes up with a version of flash and its filters, or with none.
LEMMA LoadIs ==
  ASSUME NEW K, NEW s, Genuine(K, s.flashVersion)
  PROVE  StoneInv(K, LoadFromFlash(s))
<1> DEFINE read == LoadFilters(s.flash)
           fs == FromFlash(s.flash, read.keys)
           loaded == [Fresh EXCEPT !.filters = fs, !.stored = read.stored, !.flash = s.flash,
                                   !.storedVersion = s.flashVersion, !.flashVersion = s.flashVersion]
           v == s.flashVersion
           result == IF v.version = 0 THEN [s |-> loaded, ret |-> "UNSPECIFIED"]
                     ELSE Commit(loaded, v.version, v.crc, FALSE)
           none == Deallocate(result.s, DOMAIN result.s.filters)
           failed == EndInProgress(none, 0, NoCrc)
<1>1. LoadFromFlash(s) = IF result.ret = "SUCCESS" THEN result.s ELSE failed
  BY DEF LoadFromFlash
<1>2. \A i \in DOMAIN fs : FilterShape(fs[i]) /\ fs[i].crc = 0
  BY DEF FromFlash, NewFilter, FilterShape
<1> HIDE DEF read, fs
<1>3. /\ DOMAIN loaded = StoneFields /\ loaded.filters = fs
      /\ loaded.storedVersion = v /\ loaded.flashVersion = v
  BY DEF Fresh, StoneFields
<1> HIDE DEF loaded
<1>4. Shape(loaded) /\ Summed(loaded)
  BY <1>2, <1>3 DEF Shape, Summed
<1>5. /\ Shape(result.s) /\ result.s.flashVersion = v
      /\ result.ret = "SUCCESS" =>
           /\ v.version # 0 /\ result.s.version = v.version /\ result.s.crc = v.crc /\ Whole(result.s)
           /\ result.s.storedVersion = [version |-> v.version, crc |-> v.crc]
  <2>1. CASE v.version = 0
    <3>1. result.s = loaded /\ result.ret # "SUCCESS"
      BY <2>1
    <3> HIDE DEF result
    <3> QED
      BY <1>3, <1>4, <3>1
  <2>2. CASE v.version # 0
    <3> DEFINE r == Commit(loaded, v.version, v.crc, FALSE)
    <3>1. result = r
      BY <2>2
    <3>2. /\ Shape(r.s) /\ r.s.flashVersion = loaded.flashVersion
          /\ r.ret = "SUCCESS" =>
               /\ r.s.version = v.version /\ r.s.crc = v.crc /\ Whole(r.s)
               /\ r.s.storedVersion = [version |-> v.version, crc |-> v.crc]
      <4> DEFINE version == v.version
                 crc == v.crc
      <4>1. r = Commit(loaded, version, crc, TRUE) \/ r = Commit(loaded, version, crc, FALSE)
        OBVIOUS
      <4> HIDE DEF r, version, crc
      <4>2. /\ Shape(r.s) /\ r.s.flashVersion = loaded.flashVersion
            /\ IF r.ret = "SUCCESS"
               THEN /\ r.s.version = version /\ r.s.crc = crc /\ Whole(r.s)
                    /\ r.s.storedVersion = [version |-> version, crc |-> crc]
               ELSE SameVersions(loaded, r.s) /\ (Whole(loaded) => Whole(r.s))
        BY <1>4, <4>1, CommitIs, ZenonT(30)
      <4> QED
        BY <4>2 DEF version, crc
    <3> HIDE DEF result, r
    <3> QED
      BY <1>3, <2>2, <3>1, <3>2
  <2> QED
    BY <2>1, <2>2
<1> HIDE DEF result
<1>6. Shape(none) /\ SameVersions(result.s, none)
  BY <1>5, DeallocateIs
<1> HIDE DEF none
<1>7. /\ Shape(failed) /\ failed.version = 0 /\ failed.flashVersion = v
      /\ failed.storedVersion.version = 0
  BY <1>5, <1>6 DEF EndInProgress, Shape, StoneFields, SameVersions
<1> HIDE DEF failed
<1>8. StoneInv(K, failed)
  BY <1>7 DEF StoneInv, Genuine
<1>9. result.ret = "SUCCESS" => StoneInv(K, result.s)
  BY <1>5 DEF StoneInv, Genuine
<1> QED
  BY <1>1, <1>8, <1>9

LEMMA SavedIs ==
  ASSUME NEW K, NEW s, StoneInv(K, s), NEW keys, NEW versionToo \in BOOLEAN
  PROVE  Genuine(K, Saved(s, keys, versionToo).flashVersion)
<1> DEFINE t == Saved(s, keys, versionToo)
<1>1. t.flashVersion = IF versionToo THEN s.storedVersion ELSE s.flashVersion
  BY DEF Saved, StoneInv, Shape, StoneFields
<1> HIDE DEF t
<1> QED
  BY <1>1 DEF StoneInv, t

LEMMA DropIs ==
  ASSUME NEW K, NEW s, StoneInv(K, s), s.inProgress
  PROVE  StoneInv(K, DropUncommitted(s)) /\ DropUncommitted(s).version = 0
<1> DEFINE d == Deallocate(s, Uncommitted(s))
           t == DropUncommitted(s)
<1>1. s.version = 0
  BY DEF StoneInv, Whole
<1>2. Shape(d) /\ SameVersions(s, d)
  BY DeallocateIs DEF StoneInv
<1>3. t = [d EXCEPT !.inProgress = FALSE]
  BY DEF DropUncommitted
<1> HIDE DEF d, t
<1>4. /\ Shape(t) /\ t.version = 0 /\ t.storedVersion = s.storedVersion /\ t.flashVersion = s.flashVersion
  BY <1>1, <1>2, <1>3 DEF Shape, StoneFields, SameVersions
<1> QED
  BY <1>4 DEF StoneInv, Genuine, t

\* What was committed stays.
LEMMA MoreCommitted ==
  ASSUME NEW K, NEW L, K \subseteq L, NEW s, StoneInv(K, s)
  PROVE  StoneInv(L, s)
BY DEF StoneInv, Genuine

-----------------------------------------------------------------------------
(* The syncer of one stone.                                                *)

SyncFields == {"step", "toRemove", "toUpload", "chunk", "link", "peer", "request", "reply"}

Uploading == {"remove_filters", "upload_filters", "commit"}

\* A commit that is on its way is of a version that was committed.
RequestInv(K, r) ==
  /\ r.command \in {"summaries", "remove", "upload", "commit"}
  /\ r.command = "commit" => r.version # 0 /\ <<r.version, r.crc>> \in K

CentralInv(K, c) ==
  /\ DOMAIN c = SyncFields /\ c.peer \in Stones
  /\ c.request # << >> => RequestInv(K, Head(c.request))

\* What a handler of a stone that has a version `v` makes of its syncer.
Goes(K, v, c) == CentralInv(K, c) /\ (c.step \in Uploading => v # 0)

LEMMA IdleFine == ASSUME NEW K, NEW n \in Stones PROVE CentralInv(K, Idle) /\ Idle.step = "none"
<1>1. (CHOOSE x \in Stones : TRUE) \in Stones
  OBVIOUS
<1>2. DOMAIN Idle = SyncFields /\ Idle.peer \in Stones /\ Idle.request = << >> /\ Idle.step = "none"
  BY <1>1 DEF Idle, SyncFields
<1> QED
  BY <1>2 DEF CentralInv

LEMMA DisconnectIs ==
  ASSUME NEW K, NEW c, CentralInv(K, c)
  PROVE  CentralInv(K, Disconnect(c)) /\ Disconnect(c).step \notin Uploading
BY DEF CentralInv, Disconnect, SyncFields, Uploading

LEMMA AbortIs ==
  ASSUME NEW K, NEW c, CentralInv(K, c)
  PROVE  CentralInv(K, Abort(c)) /\ Abort(c).step = "none"
<1> DEFINE d == IF c.step \notin {"none", "connect", "disconnect"} THEN Disconnect(c) ELSE c
<1>1. CentralInv(K, d)
  BY DisconnectIs
<1>2. Abort(c) = [d EXCEPT !.step = "none", !.toRemove = << >>, !.toUpload = << >>, !.chunk = 1]
  BY DEF Abort
<1> HIDE DEF d
<1> QED
  BY <1>1, <1>2 DEF CentralInv, SyncFields

LEMMA WriteIs ==
  ASSUME NEW K, NEW v, NEW c, CentralInv(K, c), NEW step, NEW request, RequestInv(K, request),
         step \in Uploading => v # 0
  PROVE  Goes(K, v, Write(c, step, request))
<1> DEFINE w == [c EXCEPT !.step = step, !.request = <<request>>]
<1>1. Head(<<request>>) = request
  OBVIOUS
<1>2. DOMAIN w = SyncFields /\ w.peer = c.peer /\ w.request = <<request>> /\ w.step = step
  BY DEF CentralInv, SyncFields
<1>3. Goes(K, v, w)
  BY <1>1, <1>2 DEF CentralInv, Goes
<1>4. Goes(K, v, Abort(c))
  BY AbortIs DEF Goes, Uploading
<1> QED
  BY <1>3, <1>4 DEF Write

\* The commands a syncer sends carry what its stone has, which is committed.
LEMMA SendCommitIs ==
  ASSUME NEW K, NEW n \in Stones, StoneInv(K, store[n]), store[n].version # 0,
         NEW c, CentralInv(K, c)
  PROVE  Goes(K, store[n].version, SendCommit(n, c))
<1> DEFINE request == [command |-> "commit", version |-> store[n].version, crc |-> store[n].crc]
<1>1. RequestInv(K, request)
  BY DEF RequestInv, StoneInv, Genuine
<1>2. SendCommit(n, c) = Write(c, "commit", request)
  BY DEF SendCommit
<1> HIDE DEF request
<1> QED
  BY <1>1, <1>2, WriteIs

LEMMA UploadNextIs ==
  ASSUME NEW K, NEW n \in Stones, StoneInv(K, store[n]), store[n].version # 0,
         NEW c, CentralInv(K, c)
  PROVE  Goes(K, store[n].version, UploadNext(n, c))
<1> DEFINE v == store[n].version
           id == Head(c.toUpload)
           content == store[n].filters[id].content
           request == [command |-> "upload", id |-> id, total |-> Length[content[1]],
                       chunk |-> c.chunk, packet |-> content[c.chunk]]
           next == Write(c, "upload_filters", request)
<1>1. RequestInv(K, request)
  BY DEF RequestInv
<1> HIDE DEF request
<1>2. Goes(K, v, next)
  BY <1>1, WriteIs
<1>3. UploadNext(n, c) = IF c.toUpload = << >> THEN SendCommit(n, c)
                         ELSE IF id \notin DOMAIN store[n].filters THEN Abort(c)
                         ELSE IF c.chunk = 1 THEN [next EXCEPT !.chunk = 2]
                         ELSE [next EXCEPT !.chunk = 1, !.toUpload = Tail(c.toUpload)]
  BY DEF UploadNext, request
<1> HIDE DEF next
<1>4. /\ Goes(K, v, [next EXCEPT !.chunk = 2])
      /\ Goes(K, v, [next EXCEPT !.chunk = 1, !.toUpload = Tail(c.toUpload)])
  BY <1>2 DEF Goes, CentralInv, SyncFields
<1>5. Goes(K, v, Abort(c))
  BY AbortIs DEF Goes, Uploading
<1>6. Goes(K, v, SendCommit(n, c))
  BY SendCommitIs
<1> QED
  BY <1>3, <1>4, <1>5, <1>6

LEMMA RemoveNextIs ==
  ASSUME NEW K, NEW n \in Stones, StoneInv(K, store[n]), store[n].version # 0,
         NEW c, CentralInv(K, c)
  PROVE  Goes(K, store[n].version, RemoveNext(n, c))
<1> DEFINE d == [c EXCEPT !.toRemove = Tail(@)]
           request == [command |-> "remove", id |-> Head(c.toRemove)]
<1>1. RequestInv(K, request)
  BY DEF RequestInv
<1>2. CentralInv(K, d)
  BY DEF CentralInv, SyncFields
<1>3. RemoveNext(n, c) = IF c.toRemove = << >> THEN UploadNext(n, c) ELSE Write(d, "remove_filters", request)
  BY DEF RemoveNext
<1> HIDE DEF d, request
<1> QED
  BY <1>1, <1>2, <1>3, WriteIs, UploadNextIs

\* Who is older than what it hears has a version.
LEMMA OlderHasVersion ==
  ASSUME NEW n, NEW theirs, Compare(n, theirs) = "older"
  PROVE  store[n].version # 0
BY DEF Compare

LEMMA SummariesIs ==
  ASSUME NEW K, NEW n \in Stones, StoneInv(K, store[n]), NEW c, CentralInv(K, c), NEW theirs
  PROVE  Goes(K, store[n].version, OnFilterSummaries(n, c, theirs))
<1> DEFINE mine == store[n].filters
           differ == {i \in DOMAIN mine \cap DOMAIN theirs.filters : mine[i].crc # theirs.filters[i]}
           rem == Ascending(DOMAIN theirs.filters \ DOMAIN mine)
           up == Ascending(differ) \o Ascending(DOMAIN mine \ DOMAIN theirs.filters)
           d == [c EXCEPT !.toRemove = rem, !.toUpload = up, !.chunk = 1]
<1>1. OnFilterSummaries(n, c, theirs) =
        IF Compare(n, theirs) # "older" THEN Abort(c) ELSE RemoveNext(n, d)
  BY DEF OnFilterSummaries
<1> HIDE DEF rem, up
<1>2. CentralInv(K, d)
  BY DEF CentralInv, SyncFields
<1> HIDE DEF d
<1>3. CASE Compare(n, theirs) = "older"
  BY <1>1, <1>2, <1>3, OlderHasVersion, RemoveNextIs
<1>4. CASE Compare(n, theirs) # "older"
  BY <1>1, <1>4, AbortIs DEF Goes, Uploading
<1> QED
  BY <1>3, <1>4

LEMMA ConnectedIs ==
  ASSUME NEW K, NEW v, NEW c, Goes(K, v, c)
  PROVE  Goes(K, v, OnConnected(c))
<1> DEFINE request == [command |-> "summaries"]
<1>1. RequestInv(K, request)
  BY DEF RequestInv
<1>2. OnConnected(c) = IF c.step = "connect" THEN Write(c, "get_filter_summaries", request) ELSE c
  BY DEF OnConnected
<1> HIDE DEF request
<1> QED
  BY <1>1, <1>2, WriteIs DEF Goes, Uploading

LEMMA WriteResultIs ==
  ASSUME NEW K, NEW n \in Stones, StoneInv(K, store[n]), NEW c, Goes(K, store[n].version, c), NEW result
  PROVE  Goes(K, store[n].version, OnWriteResult(n, c, result))
<1> DEFINE v == store[n].version
<1>1. Goes(K, v, Abort(c)) /\ Goes(K, v, Disconnect(c))
  BY AbortIs, DisconnectIs DEF Goes, Uploading
<1>2. Goes(K, v, OnFilterSummaries(n, c, result.summaries))
  BY SummariesIs DEF Goes
<1>3. c.step \in Uploading => Goes(K, v, RemoveNext(n, c)) /\ Goes(K, v, UploadNext(n, c))
  BY RemoveNextIs, UploadNextIs DEF Goes
<1> QED
  BY <1>1, <1>2, <1>3 DEF OnWriteResult, Uploading

LEMMA UnlinkedIs ==
  ASSUME NEW K, NEW c, DOMAIN c = SyncFields, NEW n \in Stones
  PROVE  CentralInv(K, Unlinked(c)) /\ Unlinked(c).step = "none"
<1> DEFINE d == [c EXCEPT !.link = "none", !.peer = Idle.peer, !.request = << >>, !.reply = << >>]
<1>1. Idle.peer \in Stones
  BY IdleFine DEF CentralInv
<1>2. CentralInv(K, d)
  BY <1>1 DEF CentralInv, SyncFields
<1> HIDE DEF d
<1> QED
  BY <1>2, AbortIs DEF Unlinked, d

-----------------------------------------------------------------------------
(* The system.                                                             *)

SyncInv ==
  /\ store = [n \in Stones |-> store[n]] /\ sync = [n \in Stones |-> sync[n]]
  /\ \A n \in Stones : StoneInv(committed, store[n]) /\ Goes(committed, store[n].version, sync[n])

LEMMA SyncInit == Init => SyncInv
<1> SUFFICES ASSUME Init PROVE SyncInv
  OBVIOUS
<1>1. \A n \in Stones : store[n] = Fresh /\ sync[n] = Idle
  BY DEF Init, FilterInit
<1> QED
  BY <1>1, FreshFine, IdleFine DEF Init, FilterInit, SyncInv, Goes, Uploading

\* One syncer moves, and the stores stay.
LEMMA SyncMoves ==
  ASSUME SyncInv, UNCHANGED <<store, committed>>, NEW m \in Stones, NEW c,
         Goes(committed, store[m].version, c), sync' = [sync EXCEPT ![m] = c]
  PROVE  SyncInv'
<1>1. ASSUME NEW n \in Stones PROVE sync'[n] = IF n = m THEN c ELSE sync[n]
  BY DEF SyncInv
<1> QED
  BY <1>1 DEF SyncInv

\* One stone gets another store, and its own syncer follows.
LEMMA StoreMoves ==
  ASSUME SyncInv, NEW K, committed \subseteq K, committed' = K, NEW n \in Stones, NEW s,
         StoneInv(K, s), store' = [store EXCEPT ![n] = s],
         sync' \in [Stones -> {sync'[x] : x \in Stones}],
         \A x \in Stones : CentralInv(committed, sync'[x]),
         \A x \in Stones \ {n} : sync'[x].step \in Uploading => store[x].version # 0,
         sync'[n].step \in Uploading => s.version # 0
  PROVE  SyncInv'
<1>1. ASSUME NEW x \in Stones PROVE store'[x] = IF x = n THEN s ELSE store[x]
  BY DEF SyncInv
<1>2. ASSUME NEW x \in Stones PROVE CentralInv(K, sync'[x])
  BY DEF CentralInv, RequestInv
<1>3. ASSUME NEW x \in Stones PROVE StoneInv(K, store'[x])
  BY <1>1, MoreCommitted DEF SyncInv
<1>4. ASSUME NEW x \in Stones PROVE sync'[x].step \in Uploading => store'[x].version # 0
  BY <1>1
<1>5. store' = [x \in Stones |-> store'[x]] /\ sync' = [x \in Stones |-> sync'[x]]
  BY DEF SyncInv
<1> QED
  BY <1>2, <1>3, <1>4, <1>5 DEF SyncInv, Goes

LEMMA OnVersionStep ==
  ASSUME SyncInv, NEW m \in Stones, NEW n \in Stones, OnVersion(m, n)
  PROVE  SyncInv'
<1> DEFINE c == sync[m]
           d == [c EXCEPT !.step = "connect", !.link = "connecting", !.peer = n]
<1>1. CentralInv(committed, c) /\ Goes(committed, store[m].version, d)
  BY DEF SyncInv, Goes, CentralInv, SyncFields, Uploading
<1>2. UNCHANGED <<store, committed>> /\ (sync' = sync \/ sync' = [sync EXCEPT ![m] = d])
  BY DEF OnVersion
<1> HIDE DEF d
<1> QED
  BY <1>1, <1>2, SyncMoves DEF SyncInv

LEMMA ConnectDoneStep ==
  ASSUME SyncInv, NEW m \in Stones, ConnectDone(m)
  PROVE  SyncInv'
<1> DEFINE d == [sync[m] EXCEPT !.link = "open"]
<1>1. Goes(committed, store[m].version, d)
  BY DEF SyncInv, Goes, CentralInv, SyncFields
<1>2. UNCHANGED <<store, committed>> /\ sync' = [sync EXCEPT ![m] = OnConnected(d)]
  BY DEF ConnectDone
<1> HIDE DEF d
<1> QED
  BY <1>1, <1>2, ConnectedIs, SyncMoves

LEMMA ConnectFailsStep ==
  ASSUME SyncInv, NEW m \in Stones, ConnectFails(m)
  PROVE  SyncInv'
<1> DEFINE d == [sync[m] EXCEPT !.link = "none"]
<1>1. CentralInv(committed, d)
  BY DEF SyncInv, Goes, CentralInv, SyncFields
<1>2. UNCHANGED <<store, committed>> /\ sync' = [sync EXCEPT ![m] = Abort(d)]
  BY DEF ConnectFails
<1> HIDE DEF d
<1>3. Goes(committed, store[m].version, Abort(d))
  BY <1>1, AbortIs DEF Goes, Uploading
<1> QED
  BY <1>2, <1>3, SyncMoves

LEMMA WriteResultStep ==
  ASSUME SyncInv, NEW m \in Stones, WriteResult(m)
  PROVE  SyncInv'
<1> DEFINE d == [sync[m] EXCEPT !.request = << >>, !.reply = << >>]
           result == Head(sync[m].reply)
<1>1. Goes(committed, store[m].version, d) /\ StoneInv(committed, store[m])
  BY DEF SyncInv, Goes, CentralInv, SyncFields
<1>2. UNCHANGED <<store, committed>> /\ sync' = [sync EXCEPT ![m] = OnWriteResult(m, d, result)]
  BY DEF WriteResult
<1> HIDE DEF d, result
<1>3. Goes(committed, store[m].version, OnWriteResult(m, d, result))
  BY <1>1, WriteResultIs
<1> QED
  BY <1>2, <1>3, SyncMoves

LEMMA UnlinkedStep ==
  ASSUME SyncInv, NEW m \in Stones, Closed(m) \/ LinkLost(m)
  PROVE  SyncInv'
<1>1. UNCHANGED <<store, committed>> /\ sync' = [sync EXCEPT ![m] = Unlinked(sync[m])]
  BY DEF Closed, LinkLost
<1>2. Goes(committed, store[m].version, Unlinked(sync[m]))
  BY UnlinkedIs DEF SyncInv, Goes, CentralInv, Uploading
<1> QED
  BY <1>1, <1>2, SyncMoves

LEMMA ModificationIs ==
  ASSUME NEW K, NEW c, CentralInv(K, c)
  PROVE  CentralInv(K, OnModification(c)) /\ OnModification(c).step = "none"
BY AbortIs DEF OnModification

\* The other stone handles what was sent: only a commit gives it a version.
LEMMA ExecuteStep ==
  ASSUME SyncInv, CrcsAreRight, NEW m \in Stones, Execute(m)
  PROVE  SyncInv'
<1> DEFINE request == Head(sync[m].request)
           n == sync[m].peer
           s == store[n]
           result == Execution(s, request)
           reply == [ret |-> result.ret, summaries |-> Summaries(s)]
           replied == [sync EXCEPT ![m].reply = <<reply>>]
           ends == \/ request.command = "upload"
                   \/ request.command = "remove" /\ result.ret = "SUCCESS"
<1>1. /\ store' = [store EXCEPT ![n] = result.s] /\ UNCHANGED committed
      /\ sync' = IF ends THEN [replied EXCEPT ![n] = OnModification(replied[n])] ELSE replied
      /\ sync[m].request # << >>
  BY DEF Execute
<1>2. n \in Stones /\ RequestInv(committed, request)
  BY <1>1 DEF SyncInv, Goes, CentralInv
<1>3. StoneInv(committed, s) /\ Summed(s)
  BY <1>2 DEF SyncInv, CrcsAreRight, Summed
<1> HIDE DEF n, s, reply
<1>4. /\ replied \in [Stones -> {replied[x] : x \in Stones}]
      /\ \A x \in Stones : CentralInv(committed, replied[x]) /\ replied[x].step = sync[x].step
  <2>1. ASSUME NEW x \in Stones PROVE CentralInv(committed, replied[x]) /\ replied[x].step = sync[x].step
    BY DEF SyncInv, Goes, CentralInv, SyncFields
  <2>2. replied = [x \in Stones |-> replied[x]]
    BY DEF SyncInv
  <2> HIDE DEF replied
  <2> QED
    BY <2>1, <2>2
<1> HIDE DEF replied
<1>5. /\ StoneInv(committed, result.s)
      /\ ends \/ result.s.version = s.version \/ result.s.version # 0
  <2>1. CASE request.command = "summaries"
    <3>1. result.s = s
      BY <2>1 DEF Execution
    <3> QED
      BY <1>3, <3>1
  <2>2. CASE request.command = "remove"
    <3>1. result = HandleRemove(s, request.id)
      BY <2>2 DEF Execution
    <3> HIDE DEF result, ends
    <3>2. StoneInv(committed, result.s) /\ (result.ret = "SUCCESS" \/ result.s = s)
      BY <1>3, <3>1, RemoveIs
    <3> QED
      BY <2>2, <3>2 DEF ends
  <2>3. CASE request.command = "upload"
    <3>1. result = HandleUpload(s, request.id, request.total, request.chunk, request.packet)
      BY <2>3 DEF Execution
    <3> HIDE DEF result, ends
    <3>2. StoneInv(committed, result.s)
      BY <1>3, <3>1, UploadIs
    <3> QED
      BY <2>3, <3>2 DEF ends
  <2>4. CASE request.command = "commit"
    <3>1. result = HandleCommit(s, request.version, request.crc)
      BY <2>4 DEF Execution
    <3>2. request.version # 0 /\ <<request.version, request.crc>> \in committed
      BY <1>2, <2>4 DEF RequestInv
    <3>3. committed = committed \cup {<<request.version, request.crc>>}
      BY <3>2
    <3> HIDE DEF result, ends
    <3>4. /\ result.ret = "SUCCESS" => StoneInv(committed, result.s) /\ result.s.version # 0
          /\ result.ret # "SUCCESS" => StoneInv(committed, result.s) /\ result.s.version = s.version
      BY <1>3, <3>1, <3>2, <3>3, CommitFine
    <3> QED
      BY <3>4
  <2> QED
    BY <1>2, <2>1, <2>2, <2>3, <2>4 DEF RequestInv
<1>6. \A x \in Stones : sync[x].step \in Uploading => store[x].version # 0
  BY DEF SyncInv, Goes
<1> HIDE DEF result, request
<1>7. CASE ends
  <2>1. sync' = [replied EXCEPT ![n] = OnModification(replied[n])]
    BY <1>1, <1>7
  <2>2. /\ CentralInv(committed, OnModification(replied[n])) /\ OnModification(replied[n]).step = "none"
    BY <1>2, <1>4, ModificationIs
  <2>3. \A x \in Stones : sync'[x] = IF x = n THEN OnModification(replied[n]) ELSE replied[x]
    BY <1>4, <2>1
  <2>4. sync' \in [Stones -> {sync'[x] : x \in Stones}]
    BY <1>4, <2>1
  <2> HIDE DEF ends
  <2> QED
    BY <1>1, <1>2, <1>4, <1>5, <1>6, <2>2, <2>3, <2>4, StoreMoves DEF Uploading
<1>8. CASE ~ ends
  <2>1. sync' = replied
    BY <1>1, <1>8
  <2>2. result.s.version = s.version \/ result.s.version # 0
    BY <1>5, <1>8
  <2>3. sync'[n].step \in Uploading => result.s.version # 0
    BY <1>2, <1>4, <1>6, <2>1, <2>2 DEF s
  <2> HIDE DEF ends
  <2> QED
    BY <1>1, <1>2, <1>4, <1>5, <1>6, <2>1, <2>3, StoreMoves
<1> QED
  BY <1>7, <1>8

\* A host modifies the filters of a stone, whose own syncer stops.
LEMMA ModifiedIs ==
  ASSUME SyncInv, UNCHANGED committed, NEW n \in Stones, NEW t,
         StoneInv(committed, t), t.version = 0, store' = [store EXCEPT ![n] = t],
         sync' = [sync EXCEPT ![n] = OnModification(sync[n])]
  PROVE  SyncInv'
<1>1. CentralInv(committed, OnModification(sync[n])) /\ OnModification(sync[n]).step = "none"
  BY ModificationIs DEF SyncInv, Goes
<1>2. \A x \in Stones : sync'[x] = IF x = n THEN OnModification(sync[n]) ELSE sync[x]
  BY DEF SyncInv
<1>3. sync' \in [Stones -> {sync'[x] : x \in Stones}]
  BY DEF SyncInv
<1>4. \A x \in Stones : CentralInv(committed, sync[x]) /\ (sync[x].step \in Uploading => store[x].version # 0)
  BY DEF SyncInv, Goes
<1> QED
  BY <1>1, <1>2, <1>3, <1>4, StoreMoves DEF Uploading

LEMMA HostUploadStep ==
  ASSUME SyncInv, NEW n \in Stones, NEW id, NEW packet, HostUpload(n, id, packet)
  PROVE  SyncInv'
<1> DEFINE t == HandleUpload(store[n], id, Length[packet], 1, packet).s
<1>1. UNCHANGED committed /\ store' = [store EXCEPT ![n] = t] /\ sync' = [sync EXCEPT ![n] = OnModification(sync[n])]
  BY DEF HostUpload, Set
<1>2. StoneInv(committed, t) /\ t.version = 0
  BY UploadIs DEF SyncInv
<1> HIDE DEF t
<1> QED
  BY <1>1, <1>2, ModifiedIs

LEMMA HostRemoveStep ==
  ASSUME SyncInv, NEW n \in Stones, NEW id, HostRemove(n, id)
  PROVE  SyncInv'
<1> DEFINE s == store[n]
           t == HandleRemove(s, id).s
           d == Deallocate(s, {id})
<1>1. /\ UNCHANGED committed /\ store' = [store EXCEPT ![n] = t]
      /\ sync' = [sync EXCEPT ![n] = OnModification(sync[n])] /\ id \in DOMAIN s.filters
  BY DEF HostRemove, Set
<1>2. StoneInv(committed, s)
  BY DEF SyncInv
<1>3. StoneInv(committed, t)
  BY <1>2, RemoveIs
<1>4. t.version = 0
  <2>1. t = StartInProgress(d)
    BY <1>1 DEF HandleRemove
  <2>2. Shape(d)
    BY <1>2, DeallocateIs DEF StoneInv
  <2> HIDE DEF t, d
  <2> QED
    BY <2>1, <2>2, StartIs
<1> HIDE DEF t
<1> QED
  BY <1>1, <1>3, <1>4, ModifiedIs

LEMMA HostCommitStep ==
  ASSUME SyncInv, CrcsAreRight, NEW n \in Stones, NEW version, version # 0, HostCommit(n, version)
  PROVE  SyncInv'
<1> DEFINE s == store[n]
           crc == DataCrc(s.filters)
           r == HandleCommit(s, version, crc)
           K == IF r.ret = "SUCCESS" THEN committed \cup {<<version, crc>>} ELSE committed
           t == r.s
<1>1. store' = [store EXCEPT ![n] = t] /\ committed' = K /\ sync' = sync
  BY DEF HostCommit, Set
<1>2. StoneInv(committed, s) /\ Summed(s)
  BY DEF SyncInv, CrcsAreRight, Summed
<1> HIDE DEF crc
<1>3. /\ r.ret = "SUCCESS" => StoneInv(committed \cup {<<version, crc>>}, t) /\ t.version # 0
      /\ r.ret # "SUCCESS" => StoneInv(committed, t) /\ t.version = s.version
  <2>1. r = HandleCommit(s, version, crc)
    OBVIOUS
  <2> HIDE DEF r
  <2> QED
    BY <1>2, <2>1, CommitFine
<1> HIDE DEF r, t
<1>4. committed \subseteq K /\ StoneInv(K, t) /\ (t.version = s.version \/ t.version # 0)
  BY <1>3
<1>5. \A x \in Stones : CentralInv(committed, sync[x]) /\ (sync[x].step \in Uploading => store[x].version # 0)
  BY DEF SyncInv, Goes
<1>6. sync' \in [Stones -> {sync'[x] : x \in Stones}]
  BY <1>1 DEF SyncInv
<1>7. sync'[n].step \in Uploading => t.version # 0
  BY <1>1, <1>4, <1>5
<1> HIDE DEF K
<1> QED
  BY <1>1, <1>4, <1>5, <1>6, <1>7, StoreMoves

LEMMA TimeOutStep ==
  ASSUME SyncInv, NEW n \in Stones, TimeOut(n)
  PROVE  SyncInv'
<1> DEFINE s == store[n]
           t == DropUncommitted(s)
<1>1. s.inProgress /\ store' = [store EXCEPT ![n] = t] /\ UNCHANGED <<sync, committed>>
  BY DEF TimeOut, InProgressTimeout
<1>2. StoneInv(committed, s) /\ s.version = 0
  BY <1>1 DEF SyncInv, StoneInv, Whole
<1>3. StoneInv(committed, t)
  BY <1>1, <1>2, DropIs
<1>4. \A x \in Stones : CentralInv(committed, sync[x]) /\ (sync[x].step \in Uploading => store[x].version # 0)
  BY DEF SyncInv, Goes
<1>5. sync' \in [Stones -> {sync'[x] : x \in Stones}]
  BY <1>1 DEF SyncInv
<1>6. sync'[n].step \notin Uploading
  BY <1>1, <1>2, <1>4
<1> HIDE DEF t
<1> QED
  BY <1>1, <1>3, <1>4, <1>5, <1>6, StoreMoves

LEMMA PowerCycleStep ==
  ASSUME SyncInv, NEW n \in Stones, PowerCycle(n)
  PROVE  SyncInv'
<1>1. /\ \E keys \in SUBSET (DOMAIN store[n].stored \cup DOMAIN store[n].flash), versionToo \in BOOLEAN :
           store' = [store EXCEPT ![n] = LoadFromFlash(Saved(store[n], keys, versionToo))]
      /\ sync' = [m \in Stones |->
           IF m = n THEN Idle
           ELSE IF sync[m].link # "none" /\ sync[m].peer = n THEN Unlinked(sync[m]) ELSE sync[m]]
      /\ UNCHANGED committed
  BY DEF PowerCycle
<1>2. PICK keys \in SUBSET (DOMAIN store[n].stored \cup DOMAIN store[n].flash), versionToo \in BOOLEAN :
        store' = [store EXCEPT ![n] = LoadFromFlash(Saved(store[n], keys, versionToo))]
  BY <1>1
<1> DEFINE t == LoadFromFlash(Saved(store[n], keys, versionToo))
<1>3. StoneInv(committed, t)
  BY SavedIs, LoadIs DEF SyncInv
<1>4. \A x \in Stones : CentralInv(committed, sync[x]) /\ (sync[x].step \in Uploading => store[x].version # 0)
  BY DEF SyncInv, Goes
<1>5. ASSUME NEW x \in Stones
      PROVE  /\ CentralInv(committed, sync'[x])
             /\ sync'[x].step \in Uploading => x # n /\ store[x].version # 0
  BY <1>1, <1>4, IdleFine, UnlinkedIs DEF Uploading, CentralInv
<1>6. sync' \in [Stones -> {sync'[x] : x \in Stones}]
  BY <1>1
<1> HIDE DEF t
<1> QED
  BY <1>1, <1>2, <1>3, <1>5, <1>6, StoreMoves DEF t

LEMMA SyncNext ==
  ASSUME SyncInv, CrcsAreRight, Next
  PROVE  SyncInv'
<1>1. ASSUME NEW n \in Stones, SendVersion(n) PROVE SyncInv'
  BY <1>1 DEF SendVersion, SyncInv, Goes, CentralInv
<1> QED
  BY <1>1, OnVersionStep, ConnectDoneStep, ConnectFailsStep, ExecuteStep, WriteResultStep, UnlinkedStep,
     HostUploadStep, HostRemoveStep, HostCommitStep, TimeOutStep, PowerCycleStep DEF Next

\* The versions of all stones stand for what hosts had committed, however it spread,
\* for any stones, filters, hosts, failures of connections and resets at any moment; as
\* long as the CRCs of the stores are those of their data.
THEOREM CommittedSpreads == Spec /\ []CrcsAreRight => []OnlyCommittedSpreads
<1>1. Init => SyncInv
  BY SyncInit
<1>2. SyncInv /\ CrcsAreRight /\ [Next]_syncVars => SyncInv'
  <2> SUFFICES ASSUME SyncInv, CrcsAreRight, [Next]_syncVars PROVE SyncInv'
    OBVIOUS
  <2>1. CASE UNCHANGED syncVars
    BY <2>1 DEF syncVars, SyncInv, Goes, CentralInv
  <2> QED
    BY <2>1, SyncNext
<1>3. SyncInv => OnlyCommittedSpreads
  <2> SUFFICES ASSUME SyncInv PROVE OnlyCommittedSpreads
    OBVIOUS
  <2>1. VersionIsCommitted
    BY DEF SyncInv, StoneInv, Genuine, Whole, VersionIsCommitted
  <2>2. UploaderHasVersion
    BY DEF SyncInv, Goes, Uploading, UploaderHasVersion
  <2> QED
    BY <2>1, <2>2 DEF OnlyCommittedSpreads
<1> QED
  BY <1>1, <1>2, <1>3, PTL DEF Spec
=============================================================================
