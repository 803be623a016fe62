--------------------------- MODULE SamplingProofs ---------------------------
(***************************************************************************)
(* Proofs about Sampling, one of the parts of Stores: the driver and its   *)
(* interrupt, for any number of buffers and however late the main loop is, *)
(* and what the main loop calculates with, if it is not too late.          *)
(***************************************************************************)
EXTENDS Stores, SequenceFacts, TLAPS

-----------------------------------------------------------------------------
(* The ring of buffers.                                                    *)

LEMMA SizesAre ==
  /\ NumBuffers \in Nat /\ NumBuffers >= 2
  /\ SeqRange \in Nat /\ SeqRange >= 2 /\ SchedulerRoom \in Nat /\ SchedulerRoom >= 1
  /\ Needed \in Nat /\ Needed >= 1 /\ Pause \in Nat /\ During \in Nat /\ Behind \in Nat
BY SamplesAssumption

\* The buffers are a ring: the d-th from h on, how far b is from h, and the
\* one that is i before b.
Bufs == 0 .. NumBuffers - 1
At(h, d) == IF h + d < NumBuffers THEN h + d ELSE h + d - NumBuffers
Dist(h, b) == IF b >= h THEN b - h ELSE b - h + NumBuffers
Back(b, i) == IF b >= i THEN b - i ELSE b - i + NumBuffers
Seqs == 0 .. SeqRange - 1

\* From h on, they are those of the SAADC and then the others, the oldest first.
RingAt(S, Q, h) ==
  /\ Len(S) <= 2 /\ Len(S) + Len(Q) = NumBuffers
  /\ \A i \in 1 .. Len(S) : S[i] = At(h, i - 1)
  /\ \A i \in 1 .. Len(Q) : Q[i] = At(h, Len(S) + i - 1)

\* A valid buffer is not one of the n of the SAADC, and its number says how old it is.
Aged(n, seq, f, h) ==
  \A b \in Bufs : f[b].valid =>
    Dist(h, b) >= n /\ seq = (f[b].seq + (NumBuffers - Dist(h, b))) % SeqRange

\* Going d on from h and looking how far that is are inverse to each other.
LEMMA RingIs ==
  ASSUME NEW h \in Bufs
  PROVE  /\ \A d \in 0 .. NumBuffers - 1 : At(h, d) \in Bufs /\ Dist(h, At(h, d)) = d
         /\ \A b \in Bufs : Dist(h, b) \in 0 .. NumBuffers - 1 /\ At(h, Dist(h, b)) = b
         /\ At(h, 1) \in Bufs /\ \A d \in 0 .. NumBuffers - 2 : At(At(h, 1), d) = At(h, d + 1)
         /\ At(At(h, 1), NumBuffers - 1) = h /\ Dist(At(h, 1), h) = NumBuffers - 1
         /\ \A b \in Bufs \ {h} : Dist(At(h, 1), b) = Dist(h, b) - 1
         /\ At(h, 0) = h /\ Dist(h, h) = 0 /\ \A b \in Bufs \ {h} : Dist(h, b) >= 1
BY SizesAre DEF Bufs, At, Dist

\* The oldest of the others becomes the last of the SAADC.
LEMMA RingFills ==
  ASSUME NEW h \in Bufs, NEW S \in Seq(Bufs), NEW Q \in Seq(Bufs), RingAt(S, Q, h), Len(S) < 2,
         NEW x, x = At(h, Len(S))
  PROVE  /\ x \in Bufs /\ Dist(h, x) = Len(S) /\ Q # <<>> /\ Head(Q) = x /\ ~ Samples!Contains(S, x)
         /\ Append(S, x) \in Seq(Bufs) /\ Tail(Q) \in Seq(Bufs) /\ RingAt(Append(S, x), Tail(Q), h)
         /\ Len(Append(S, x)) = Len(S) + 1
<1>1. /\ Len(S) \in Nat /\ Len(Q) \in Nat /\ Len(Q) = NumBuffers - Len(S) /\ Len(Q) >= 1
      /\ Len(S) \in 0 .. NumBuffers - 1
  BY SizesAre DEF RingAt
<1>2. x \in Bufs /\ Dist(h, x) = Len(S)
  BY <1>1, RingIs
<1>3. Q # <<>> /\ Head(Q) = Q[1] /\ Q[1] = x
  <2>1. 1 \in 1 .. Len(Q) /\ Len(S) + 1 - 1 = Len(S)
    BY <1>1
  <2>2. Q[1] = At(h, Len(S) + 1 - 1)
    BY <2>1 DEF RingAt
  <2> QED
    BY <1>1, <2>1, <2>2
<1>4. ASSUME NEW i \in 1 .. Len(S), S[i] = x PROVE FALSE
  <2>1. S[i] = At(h, i - 1)
    BY DEF RingAt
  <2>2. i - 1 \in 0 .. NumBuffers - 1 /\ i - 1 # Len(S)
    BY <1>1, SizesAre
  <2>3. Dist(h, At(h, i - 1)) = i - 1
    BY <2>2, RingIs
  <2> QED
    BY <1>2, <1>4, <2>1, <2>2, <2>3
<1> DEFINE T == Append(S, x)
           R == Tail(Q)
<1>5. T \in Seq(Bufs) /\ Len(T) = Len(S) + 1 /\ T[Len(S) + 1] = x /\ \A i \in 1 .. Len(S) : T[i] = S[i]
  BY <1>2
<1>6. R \in Seq(Bufs) /\ Len(R) = Len(Q) - 1 /\ \A i \in 1 .. Len(Q) - 1 : R[i] = Q[i + 1]
  BY <1>1, <1>3
<1> HIDE DEF T, R
<1>7. RingAt(T, R, h)
  <2>1. ASSUME NEW i \in 1 .. Len(T) PROVE T[i] = At(h, i - 1)
    <3>1. CASE i = Len(S) + 1
      BY <1>1, <1>5, <3>1
    <3>2. CASE i # Len(S) + 1
      <4>1. i \in 1 .. Len(S)
        BY <1>1, <1>5, <3>2
      <4>2. S[i] = At(h, i - 1)
        BY <4>1 DEF RingAt
      <4> QED
        BY <1>5, <4>1, <4>2
    <3> QED
      BY <3>1, <3>2
  <2>2. ASSUME NEW i \in 1 .. Len(R) PROVE R[i] = At(h, Len(T) + i - 1)
    <3>1. i + 1 \in 1 .. Len(Q) /\ Len(S) + (i + 1) - 1 = Len(T) + i - 1 /\ i \in 1 .. Len(Q) - 1
      BY <1>1, <1>5, <1>6
    <3>2. Q[i + 1] = At(h, Len(S) + (i + 1) - 1)
      BY <3>1 DEF RingAt
    <3> QED
      BY <1>6, <3>1, <3>2
  <2>3. Len(T) <= 2 /\ Len(T) + Len(R) = NumBuffers
    BY <1>1, <1>5, <1>6, SizesAre
  <2> QED
    BY <2>1, <2>2, <2>3 DEF RingAt
<1>8. ~ Samples!Contains(S, x)
  BY <1>4 DEF Samples!Contains
<1> QED
  BY <1>2, <1>3, <1>5, <1>6, <1>7, <1>8 DEF T, R

\* The first of the SAADC becomes the newest of the others.
LEMMA RingTurns ==
  ASSUME NEW h \in Bufs, NEW S \in Seq(Bufs), NEW Q \in Seq(Bufs), RingAt(S, Q, h), S # <<>>
  PROVE  /\ Head(S) = h /\ S[1] = h /\ ~ Samples!Contains(Q, h)
         /\ Append(Q, h) \in Seq(Bufs) /\ Tail(S) \in Seq(Bufs) /\ RingAt(Tail(S), Append(Q, h), At(h, 1))
         /\ Len(Tail(S)) = Len(S) - 1 /\ Len(S) \in 1 .. 2
<1>1. /\ Len(S) \in 1 .. 2 /\ Len(Q) \in Nat /\ Len(Q) = NumBuffers - Len(S)
  <2> DEFINE s == Len(S)
             q == Len(Q)
  <2>1. s \in Nat /\ q \in Nat /\ s # 0
    OBVIOUS
  <2>2. s <= 2 /\ s + q = NumBuffers
    BY DEF RingAt
  <2> HIDE DEF s, q
  <2>3. s \in 1 .. 2 /\ q = NumBuffers - s
    BY <2>1, <2>2
  <2> QED
    BY <2>1, <2>3 DEF s, q
<1>2. Head(S) = S[1] /\ S[1] = h
  <2>1. 1 \in 1 .. Len(S) /\ 1 - 1 = 0
    BY <1>1
  <2>2. S[1] = At(h, 1 - 1)
    BY <2>1 DEF RingAt
  <2> QED
    BY <2>1, <2>2, RingIs
<1>3. ASSUME NEW i \in 1 .. Len(Q), Q[i] = h PROVE FALSE
  <2>1. Q[i] = At(h, Len(S) + i - 1)
    BY DEF RingAt
  <2>2. Len(S) + i - 1 \in 0 .. NumBuffers - 1 /\ Len(S) + i - 1 # 0
    BY <1>1, SizesAre
  <2>3. Dist(h, At(h, Len(S) + i - 1)) = Len(S) + i - 1
    BY <2>2, RingIs
  <2> QED
    BY <1>3, <2>1, <2>2, <2>3, RingIs
<1> DEFINE T == Tail(S)
           R == Append(Q, h)
           k == At(h, 1)
<1>4. R \in Seq(Bufs) /\ Len(R) = Len(Q) + 1 /\ R[Len(Q) + 1] = h /\ \A i \in 1 .. Len(Q) : R[i] = Q[i]
  OBVIOUS
<1>5. T \in Seq(Bufs) /\ Len(T) = Len(S) - 1 /\ \A i \in 1 .. Len(S) - 1 : T[i] = S[i + 1]
  BY <1>1
<1> HIDE DEF T, R
<1>6. RingAt(T, R, k)
  <2>1. ASSUME NEW i \in 1 .. Len(T) PROVE T[i] = At(k, i - 1)
    <3>1. i + 1 \in 1 .. Len(S) /\ i \in 1 .. Len(S) - 1 /\ i - 1 \in 0 .. NumBuffers - 2 /\ i + 1 - 1 = i - 1 + 1
      BY <1>1, <1>5, SizesAre
    <3>2. S[i + 1] = At(h, i + 1 - 1)
      BY <3>1 DEF RingAt
    <3>3. At(k, i - 1) = At(h, i - 1 + 1)
      BY <3>1, RingIs
    <3> QED
      BY <1>5, <3>1, <3>2, <3>3
  <2>2. ASSUME NEW i \in 1 .. Len(R) PROVE R[i] = At(k, Len(T) + i - 1)
    <3>1. CASE i = Len(Q) + 1
      <4>1. Len(T) + i - 1 = NumBuffers - 1
        BY <1>1, <1>5, <3>1, SizesAre
      <4> QED
        BY <1>4, <3>1, <4>1, RingIs
    <3>2. CASE i # Len(Q) + 1
      <4>1. /\ i \in 1 .. Len(Q) /\ Len(T) + i - 1 \in 0 .. NumBuffers - 2
            /\ Len(T) + i - 1 + 1 = Len(S) + i - 1
        BY <1>1, <1>4, <1>5, <3>2, SizesAre
      <4>2. Q[i] = At(h, Len(S) + i - 1)
        BY <4>1 DEF RingAt
      <4>3. At(k, Len(T) + i - 1) = At(h, Len(T) + i - 1 + 1)
        BY <4>1, RingIs
      <4> QED
        BY <1>4, <4>1, <4>2, <4>3
    <3> QED
      BY <3>1, <3>2
  <2>3. Len(T) <= 2 /\ Len(T) + Len(R) = NumBuffers
    <3> DEFINE s == Len(S)
               q == Len(Q)
    <3>1. Len(T) = s - 1 /\ Len(R) = q + 1
      BY <1>4, <1>5
    <3>2. s \in 1 .. 2 /\ q \in Nat /\ q = NumBuffers - s
      BY <1>1
    <3> HIDE DEF s, q
    <3>3. s - 1 <= 2 /\ (s - 1) + (q + 1) = NumBuffers
      BY <3>2, SizesAre
    <3> QED
      BY <3>1, <3>3
  <2> QED
    BY <2>1, <2>2, <2>3 DEF RingAt
<1>7. ~ Samples!Contains(Q, h)
  BY <1>3 DEF Samples!Contains
<1> QED
  BY <1>1, <1>2, <1>4, <1>5, <1>6, <1>7 DEF T, R

-----------------------------------------------------------------------------
(* The driver: its two queues while it fills, starts, stops and finishes.  *)

AdcStates ==
  [state : {"idle", "waiting", "busy"}, saadc : {"idle", "busy", "stopping"},
   queue : Seq(Bufs), saadcQueue : Seq(Bufs), first : BOOLEAN, change : BOOLEAN, timer : BOOLEAN,
   seq : Seqs, pointer : Bufs, filling : Bufs]
BufStates == [Bufs -> [valid : BOOLEAN, seq : Seqs]]
Calls == [type : {"done", "restart"}, buffer : Bufs]

\* The driver with its buffers from h on.
Driver(a, f, h) ==
  /\ a \in AdcStates /\ f \in BufStates
  /\ RingAt(a.saadcQueue, a.queue, h) /\ Aged(Len(a.saadcQueue), a.seq, f, h)

\* One more buffer for the SAADC: the oldest of the others, which is not valid any more.
LEMMA FillOnceIs ==
  ASSUME NEW h \in Bufs, NEW a, NEW f, Driver(a, f, h), Len(a.saadcQueue) < 2, a.saadc # "stopping",
         NEW n, n = Samples!FillOnce([adc |-> a, buf |-> f]),
         NEW x, x = At(h, Len(a.saadcQueue))
  PROVE  /\ n = [adc |-> n.adc, buf |-> n.buf] /\ Driver(n.adc, n.buf, h)
         /\ n.adc.saadc = "busy" /\ n.adc.pointer = x
         /\ n.adc.filling = IF a.saadc = "idle" THEN x ELSE a.filling
         /\ n.adc.saadcQueue = Append(a.saadcQueue, x) /\ Len(n.adc.saadcQueue) = Len(a.saadcQueue) + 1
         /\ n.adc.seq = a.seq /\ n.adc.first = a.first /\ n.adc.change = a.change
         /\ n.adc.timer = a.timer /\ n.adc.state = a.state
         /\ \A b \in Bufs : n.buf[b].valid => f[b].valid
<1> DEFINE S == a.saadcQueue
           Q == a.queue
           s == Len(S)
           filling == IF a.saadc = "idle" THEN x ELSE a.filling
           next == [a EXCEPT !.queue = Tail(Q), !.saadcQueue = Append(S, x), !.pointer = x,
                             !.filling = filling, !.saadc = "busy"]
           g == [f EXCEPT ![x].valid = FALSE]
<1>1. a \in AdcStates /\ f \in BufStates /\ RingAt(S, Q, h) /\ Aged(s, a.seq, f, h)
  BY DEF Driver
<1>2. S \in Seq(Bufs) /\ Q \in Seq(Bufs) /\ Len(S) < 2 /\ x = At(h, Len(S)) /\ s \in Nat
  BY <1>1 DEF AdcStates
<1>3. /\ x \in Bufs /\ Dist(h, x) = s /\ Q # <<>> /\ Head(Q) = x /\ ~ Samples!Contains(S, x)
      /\ Append(S, x) \in Seq(Bufs) /\ Tail(Q) \in Seq(Bufs) /\ RingAt(Append(S, x), Tail(Q), h)
      /\ Len(Append(S, x)) = s + 1
  <2> HIDE DEF S, Q
  <2> QED
    BY <1>1, <1>2, RingFills
<1>4. n = [adc |-> next, buf |-> g]
  <2>1. n = Samples!AddBufferToSaadcQueue([adc |-> a, buf |-> f], x)
    BY <1>3 DEF Samples!FillOnce, Samples!SaadcBuffers
  <2> QED
    BY <1>3, <2>1 DEF Samples!AddBufferToSaadcQueue, Samples!MarkedInvalid
<1>5. /\ g \in BufStates /\ \A b \in Bufs : g[b].seq = f[b].seq /\ (g[b].valid => f[b].valid /\ b # x)
  BY <1>1, <1>3 DEF BufStates
<1>6. next \in AdcStates
  BY <1>1, <1>3 DEF AdcStates
<1>7. Aged(s + 1, a.seq, g, h)
  <2>1. ASSUME NEW b \in Bufs, g[b].valid
        PROVE  Dist(h, b) >= s + 1 /\ a.seq = (g[b].seq + (NumBuffers - Dist(h, b))) % SeqRange
    <3>1. f[b].valid /\ b # x /\ g[b].seq = f[b].seq
      BY <1>5, <2>1
    <3>2. Dist(h, b) >= s /\ a.seq = (f[b].seq + (NumBuffers - Dist(h, b))) % SeqRange
      BY <1>1, <3>1 DEF Aged
    <3>3. Dist(h, b) \in 0 .. NumBuffers - 1 /\ At(h, Dist(h, b)) = b /\ At(h, s) = x
      BY <1>2, RingIs
    <3>4. Dist(h, b) # s
      BY <3>1, <3>3
    <3> HIDE DEF s, g
    <3>5. Dist(h, b) >= s + 1
      BY <1>2, <3>2, <3>3, <3>4
    <3> QED
      BY <3>1, <3>2, <3>5
  <2> HIDE DEF s, g
  <2> QED
    BY <2>1 DEF Aged
<1>8. /\ next.saadc = "busy" /\ next.pointer = x /\ next.filling = filling
      /\ next.saadcQueue = Append(S, x) /\ next.queue = Tail(Q)
      /\ next.seq = a.seq /\ next.first = a.first /\ next.change = a.change
      /\ next.timer = a.timer /\ next.state = a.state
  BY <1>1 DEF AdcStates
<1> HIDE DEF next, g
<1>9. Driver(next, g, h)
  BY <1>3, <1>5, <1>6, <1>7, <1>8 DEF Driver
<1> QED
  BY <1>3, <1>4, <1>5, <1>8, <1>9

LEMMA FillNoMore ==
  ASSUME NEW d, Len(d.adc.saadcQueue) = 2 \/ d.adc.saadc = "stopping"
  PROVE  Samples!FillOnce(d) = d
BY DEF Samples!FillOnce, Samples!SaadcBuffers

\* Nothing to take back from the SAADC.
LEMMA StopIs ==
  ASSUME NEW a, NEW f, a.saadcQueue = <<>>
  PROVE  Samples!Stop([adc |-> a, buf |-> f]) =
           [adc |-> [a EXCEPT !.state = "idle", !.timer = FALSE, !.saadc = "idle", !.queue = a.queue, !.saadcQueue = <<>>],
            buf |-> f]
<1> DEFINE Q == a.queue
           IsPushed(g) == g = [k \in 0 .. Len(<<>>) |-> IF k = 0 THEN Q ELSE Samples!PushUnique(g[k - 1], <<>>[k])]
           pushed == CHOOSE g : IsPushed(g)
<1>1. 0 .. Len(<<>>) = {0}
  OBVIOUS
<1>2. IsPushed([k \in {0} |-> Q])
  BY <1>1
<1>3. IsPushed(pushed)
  BY <1>2
<1>4. pushed[0] = Q
  BY <1>1, <1>3
<1>5. Samples!Stop([adc |-> a, buf |-> f]) =
        [adc |-> [a EXCEPT !.state = "idle", !.timer = FALSE, !.saadc = "idle", !.queue = pushed[Len(<<>>)], !.saadcQueue = <<>>],
         buf |-> f]
  BY DEF Samples!Stop
<1> QED
  BY <1>1, <1>4, <1>5

\* Two buffers for a SAADC that has none.
LEMMA RecordingStarts ==
  ASSUME NEW h \in Bufs, NEW a, NEW f, Driver(a, f, h), a.saadcQueue = <<>>, a.saadc = "idle",
         NEW n, n = Samples!Start([adc |-> a, buf |-> f])
  PROVE  /\ n = [adc |-> n.adc, buf |-> n.buf] /\ Driver(n.adc, n.buf, h)
         /\ n.adc.timer /\ n.adc.saadc = "busy" /\ ~ n.adc.change
         /\ Len(n.adc.saadcQueue) = 2 /\ n.adc.filling = n.adc.saadcQueue[1] /\ n.adc.pointer = n.adc.saadcQueue[2]
         /\ n.adc.seq = a.seq
         /\ \A b \in Bufs : n.buf[b].valid => f[b].valid
<1> DEFINE c == [a EXCEPT !.change = FALSE]
           p == Samples!FillOnce([adc |-> c, buf |-> f])
           q == Samples!FillOnce([adc |-> p.adc, buf |-> p.buf])
           x == At(h, 0)
           y == At(h, 1)
           final2 == [q.adc EXCEPT !.state = "busy", !.first = TRUE, !.timer = TRUE]
<1>1. /\ Driver(c, f, h) /\ c.saadcQueue = <<>> /\ Len(c.saadcQueue) = 0 /\ c.saadc = "idle"
      /\ c.seq = a.seq /\ ~ c.change
  <2>1. a \in AdcStates
    BY DEF Driver
  <2>2. c \in AdcStates /\ c.saadcQueue = a.saadcQueue /\ c.queue = a.queue /\ c.seq = a.seq /\ c.saadc = a.saadc /\ ~ c.change
    BY <2>1 DEF AdcStates
  <2> HIDE DEF c
  <2> QED
    BY <2>2 DEF Driver
<1> HIDE DEF c
<1>2. /\ p = [adc |-> p.adc, buf |-> p.buf] /\ Driver(p.adc, p.buf, h)
      /\ p.adc.saadc = "busy" /\ p.adc.filling = x /\ p.adc.saadcQueue = Append(<<>>, x) /\ Len(p.adc.saadcQueue) = 1
      /\ p.adc.seq = a.seq /\ ~ p.adc.change
      /\ \A b \in Bufs : p.buf[b].valid => f[b].valid
  <2>1. x = At(h, Len(c.saadcQueue)) /\ Len(c.saadcQueue) < 2 /\ Len(c.saadcQueue) + 1 = 1 /\ c.saadc # "stopping"
    BY <1>1
  <2> HIDE DEF x, p
  <2>2. p = Samples!FillOnce([adc |-> c, buf |-> f])
    BY DEF p
  <2>3. Driver(c, f, h)
    BY <1>1
  <2>4. /\ p = [adc |-> p.adc, buf |-> p.buf] /\ Driver(p.adc, p.buf, h)
        /\ p.adc.saadc = "busy" /\ p.adc.pointer = x
        /\ p.adc.filling = IF c.saadc = "idle" THEN x ELSE c.filling
        /\ p.adc.saadcQueue = Append(c.saadcQueue, x) /\ Len(p.adc.saadcQueue) = Len(c.saadcQueue) + 1
        /\ p.adc.seq = c.seq /\ p.adc.first = c.first /\ p.adc.change = c.change
        /\ p.adc.timer = c.timer /\ p.adc.state = c.state
        /\ \A b \in Bufs : p.buf[b].valid => f[b].valid
    BY <2>1, <2>2, <2>3, FillOnceIs
  <2> QED
    BY <1>1, <2>1, <2>4
<1> HIDE DEF p
<1>3. /\ q = [adc |-> q.adc, buf |-> q.buf] /\ Driver(q.adc, q.buf, h)
      /\ q.adc.saadc = "busy" /\ q.adc.filling = x /\ q.adc.pointer = y
      /\ q.adc.saadcQueue = Append(Append(<<>>, x), y) /\ Len(q.adc.saadcQueue) = 2
      /\ q.adc.seq = a.seq /\ ~ q.adc.change
      /\ \A b \in Bufs : q.buf[b].valid => f[b].valid
  <2>1. y = At(h, Len(p.adc.saadcQueue)) /\ Len(p.adc.saadcQueue) < 2 /\ Len(p.adc.saadcQueue) + 1 = 2 /\ p.adc.saadc # "stopping"
    BY <1>2
  <2> DEFINE b == p.adc
             g == p.buf
  <2>2. q = Samples!FillOnce([adc |-> b, buf |-> g]) /\ Driver(b, g, h)
    BY <1>2 DEF q
  <2>3. y = At(h, Len(b.saadcQueue)) /\ Len(b.saadcQueue) < 2 /\ b.saadc # "stopping"
    BY <2>1
  <2> HIDE DEF x, y, q, b, g
  <2>4. /\ q = [adc |-> q.adc, buf |-> q.buf] /\ Driver(q.adc, q.buf, h)
        /\ q.adc.saadc = "busy" /\ q.adc.pointer = y
        /\ q.adc.filling = IF b.saadc = "idle" THEN y ELSE b.filling
        /\ q.adc.saadcQueue = Append(b.saadcQueue, y) /\ Len(q.adc.saadcQueue) = Len(b.saadcQueue) + 1
        /\ q.adc.seq = b.seq /\ q.adc.first = b.first /\ q.adc.change = b.change
        /\ q.adc.timer = b.timer /\ q.adc.state = b.state
        /\ \A i \in Bufs : q.buf[i].valid => g[i].valid
    BY <2>2, <2>3, FillOnceIs
  <2> QED
    BY <1>2, <2>1, <2>4 DEF b, g
<1>4. Samples!FillSaadcQueue([adc |-> c, buf |-> f]) = q
  BY <1>2, Zenon DEF p, q, Samples!FillSaadcQueue
<1> HIDE DEF q, x, y
<1>5. n = [adc |-> final2, buf |-> q.buf]
  <2>1. [adc |-> a, buf |-> f].adc = a /\ [adc |-> a, buf |-> f].buf = f
    OBVIOUS
  <2>2. [[adc |-> a, buf |-> f].adc EXCEPT !.change = FALSE] = c
    BY <2>1 DEF c
  <2>3. ~ Len(q.adc.saadcQueue) < 2
    BY <1>3
  <2> QED
    BY <1>4, <2>1, <2>2, <2>3 DEF Samples!Start, Samples!SaadcBuffers
<1>6. q.adc \in AdcStates /\ q.adc.saadcQueue \in Seq(Bufs)
  BY <1>3 DEF Driver, AdcStates
<1>7. /\ final2 \in AdcStates /\ final2.saadcQueue = q.adc.saadcQueue /\ final2.queue = q.adc.queue /\ final2.seq = a.seq
      /\ final2.timer /\ final2.saadc = "busy" /\ ~ final2.change /\ final2.filling = x /\ final2.pointer = y
  BY <1>3, <1>6 DEF AdcStates
<1>8. q.adc.saadcQueue[1] = x /\ q.adc.saadcQueue[2] = y
  BY <1>3
<1> HIDE DEF final2
<1>9. Driver(final2, q.buf, h)
  BY <1>3, <1>7 DEF Driver
<1>10. n.adc = final2 /\ n.buf = q.buf
  BY <1>5
<1> QED
  BY <1>3, <1>5, <1>7, <1>8, <1>9, <1>10

\* The buffer at h is full: it is the newest one now.
Finished(n, a, h) ==
  /\ n = [adc |-> n.adc, buf |-> n.buf] /\ Driver(n.adc, n.buf, At(h, 1))
  /\ n.adc.saadcQueue = Tail(a.saadcQueue) /\ Len(n.adc.saadcQueue) = Len(a.saadcQueue) - 1
  /\ n.adc.filling = a.pointer /\ n.adc.pointer = a.pointer /\ n.adc.saadc = a.saadc
  /\ n.adc.timer = a.timer /\ n.adc.change = a.change
  /\ n.adc.seq = (a.seq + 1) % SeqRange

LEMMA FinishIs ==
  ASSUME NEW h \in Bufs, NEW a, NEW f, Driver(a, f, h), a.saadcQueue # <<>>,
         NEW n, n = Samples!Finish([adc |-> a, buf |-> f], h)
  PROVE  Finished(n, a, h)
<1> DEFINE S == a.saadcQueue
           Q == a.queue
           k == At(h, 1)
           full == [valid |-> TRUE, seq |-> a.seq]
           next == [a EXCEPT !.saadcQueue = Tail(S), !.queue = Append(Q, h), !.filling = a.pointer,
                             !.seq = (a.seq + 1) % SeqRange]
           g == [f EXCEPT ![h] = full]
<1>1. a \in AdcStates /\ f \in BufStates /\ RingAt(S, Q, h) /\ Aged(Len(S), a.seq, f, h)
  BY DEF Driver
<1>2. S \in Seq(Bufs) /\ Q \in Seq(Bufs) /\ S # <<>> /\ a.seq \in Seqs
  BY <1>1 DEF AdcStates
<1>3. /\ Head(S) = h /\ ~ Samples!Contains(Q, h)
      /\ Append(Q, h) \in Seq(Bufs) /\ Tail(S) \in Seq(Bufs) /\ RingAt(Tail(S), Append(Q, h), k)
      /\ Len(Tail(S)) = Len(S) - 1 /\ Len(S) \in 1 .. 2
  <2> HIDE DEF S, Q
  <2> QED
    BY <1>1, <1>2, RingTurns
<1>4. n = [adc |-> next, buf |-> g]
  BY <1>3 DEF Samples!Finish, Samples!PushUnique
<1>5. (a.seq + 1) % SeqRange \in Seqs
  <2>1. a.seq \in Int /\ SeqRange \in Nat \ {0}
    BY <1>2, SizesAre DEF Seqs
  <2> QED
    BY <2>1, 1 \in Int, SumOfRemainder, Zenon DEF Seqs
<1>6. next \in AdcStates
  BY <1>1, <1>3, <1>5 DEF AdcStates
<1>7. g \in BufStates /\ g[h] = full /\ \A b \in Bufs \ {h} : g[b] = f[b]
  BY <1>1, <1>2 DEF BufStates
<1>8. Aged(Len(S) - 1, (a.seq + 1) % SeqRange, g, k)
  <2> DEFINE s == Len(S)
             next2 == (a.seq + 1) % SeqRange
  <2>1. s \in 1 .. 2 /\ a.seq \in Int /\ SeqRange \in Nat \ {0} /\ k \in Bufs /\ Dist(k, h) = NumBuffers - 1
    <3>1. a.seq \in Int
      BY <1>2 DEF Seqs
    <3>2. SeqRange \in Nat \ {0}
      BY SizesAre
    <3>3. s \in 1 .. 2
      BY <1>3
    <3> QED
      BY <3>1, <3>2, <3>3, RingIs
  <2>2. ASSUME NEW b \in Bufs, g[b].valid
        PROVE  Dist(k, b) >= s - 1 /\ next2 = (g[b].seq + (NumBuffers - Dist(k, b))) % SeqRange
    <3>1. CASE b = h
      <4>1. NumBuffers - Dist(k, b) = 1 /\ Dist(k, b) >= s - 1
        <5> HIDE DEF s, k
        <5> QED
          BY <2>1, <3>1, SizesAre
      <4> QED
        BY <1>7, <3>1, <4>1
    <3>2. CASE b # h
      <4> DEFINE d == Dist(h, b)
                 t == f[b].seq
                 z == NumBuffers - d
      <4>1. g[b] = f[b] /\ f[b].valid
        BY <1>7, <2>2, <3>2
      <4>2. d >= s /\ a.seq = (t + z) % SeqRange
        BY <1>1, <4>1 DEF Aged
      <4>3. d \in 0 .. NumBuffers - 1 /\ Dist(k, b) = d - 1
        BY <3>2, RingIs
      <4>4. t \in Int
        BY <1>1 DEF BufStates, Seqs
      <4> HIDE DEF s, k, d, t
      <4>5. /\ Dist(k, b) >= s - 1 /\ z \in Int /\ t + z \in Int /\ NumBuffers - Dist(k, b) = z + 1
            /\ t + (NumBuffers - Dist(k, b)) = (t + z) + 1
        <5> DEFINE D == Dist(k, b)
        <5>1. D = d - 1 /\ d \in 0 .. NumBuffers - 1 /\ d >= s /\ s \in 1 .. 2 /\ t \in Int
          BY <2>1, <4>2, <4>3, <4>4
        <5> HIDE DEF D
        <5>2. D >= s - 1 /\ z \in Int /\ t + z \in Int /\ NumBuffers - D = z + 1
          BY <5>1, SizesAre
        <5> HIDE DEF z
        <5>3. t + (z + 1) = (t + z) + 1
          BY <5>1, <5>2
        <5> QED
          BY <5>2, <5>3 DEF D
      <4> HIDE DEF z
      <4>6. (((t + z) % SeqRange) + 1) % SeqRange = ((t + z) + 1) % SeqRange
        BY <2>1, <4>5, 1 \in Int, SumOfRemainder, Zenon
      <4>7. next2 = (t + (NumBuffers - Dist(k, b))) % SeqRange
        BY <4>2, <4>5, <4>6
      <4>8. g[b].seq = t
        BY <4>1 DEF t
      <4> QED
        BY <4>5, <4>7, <4>8
    <3> QED
      BY <3>1, <3>2
  <2> HIDE DEF next2, g, k
  <2> QED
    BY <2>2 DEF Aged, next2
<1>9. /\ next.saadcQueue = Tail(S) /\ next.queue = Append(Q, h) /\ next.filling = a.pointer /\ next.pointer = a.pointer
      /\ next.saadc = a.saadc /\ next.timer = a.timer /\ next.change = a.change /\ next.first = a.first
      /\ next.seq = (a.seq + 1) % SeqRange
  BY <1>1 DEF AdcStates
<1> HIDE DEF next, g, k
<1>10. Driver(next, g, k)
  BY <1>3, <1>6, <1>7, <1>8, <1>9 DEF Driver
<1>11. n.adc = next /\ n.buf = g
  BY <1>4
<1> QED
  BY <1>3, <1>4, <1>9, <1>10, <1>11 DEF Finished, k

-----------------------------------------------------------------------------
(* The interrupt, and the scheduler.                                       *)

\* While the timer runs, the SAADC fills the first buffer and points at the last; without
\* a change it has two.  Otherwise it has none, and there was a change.
RunsOn(a, h) ==
  /\ a.timer =>
       /\ a.saadc = "busy" /\ a.saadcQueue # <<>> /\ a.filling = h
       /\ a.pointer = At(h, Len(a.saadcQueue) - 1)
       /\ ~ a.change => Len(a.saadcQueue) = 2
  /\ ~ a.timer => a.saadc = "stopping" /\ a.saadcQueue = <<>> /\ a.change

\* What HandleAdcInterrupt makes of the driver.
Interrupted(a, f) ==
  LET d == Samples!Finish([adc |-> a, buf |-> f], Head(a.saadcQueue))
  IN  IF d.adc.saadcQueue = <<>>
      THEN [adc |-> [d.adc EXCEPT !.timer = FALSE, !.saadc = "stopping"], buf |-> d.buf]
      ELSE IF d.adc.change THEN d ELSE Samples!FillSaadcQueue(d)

LEMMA InterruptIs ==
  ASSUME NEW h \in Bufs, NEW a, NEW f, Driver(a, f, h), RunsOn(a, h), a.timer,
         NEW n, n = Interrupted(a, f),
         NEW k, k = At(h, 1)
  PROVE  /\ Driver(n.adc, n.buf, k) /\ RunsOn(n.adc, k)
         /\ n.adc.filling = At(h, Len(a.saadcQueue) - 1)
         /\ n.adc.seq = (a.seq + 1) % SeqRange /\ n.adc.change = a.change
         /\ a.change => Len(n.adc.saadcQueue) = Len(a.saadcQueue) - 1
         /\ ~ a.change => Len(n.adc.saadcQueue) = 2 /\ Len(a.saadcQueue) = 2
         /\ n.adc.saadc = "stopping" <=> ~ n.adc.timer
         /\ Len(a.saadcQueue) \in 1 .. 2
<1> DEFINE S == a.saadcQueue
           d == Samples!Finish([adc |-> a, buf |-> f], h)
           b == d.adc
           g == d.buf
           p == At(h, Len(S) - 1)
           m == Samples!FillOnce([adc |-> b, buf |-> g])
           stopped == [b EXCEPT !.timer = FALSE, !.saadc = "stopping"]
<1>1. /\ a \in AdcStates /\ S \in Seq(Bufs) /\ a.queue \in Seq(Bufs) /\ RingAt(S, a.queue, h) /\ S # <<>>
      /\ a.saadc = "busy" /\ a.pointer = p
      /\ ~ a.change => Len(S) = 2
  BY DEF Driver, AdcStates, RunsOn
<1>2. Head(S) = h /\ Len(S) \in 1 .. 2
  <2> DEFINE Q == a.queue
  <2>1. S \in Seq(Bufs) /\ Q \in Seq(Bufs) /\ RingAt(S, Q, h) /\ S # <<>>
    BY <1>1
  <2> HIDE DEF S, Q
  <2> QED
    BY <2>1, RingTurns
<1>3. /\ d = [adc |-> b, buf |-> g] /\ Driver(b, g, k)
      /\ b.saadcQueue = Tail(S) /\ Len(b.saadcQueue) = Len(S) - 1
      /\ b.filling = p /\ b.pointer = p /\ b.saadc = "busy"
      /\ b.timer /\ b.change = a.change
      /\ b.seq = (a.seq + 1) % SeqRange
  <2> HIDE DEF d
  <2>1. d = Samples!Finish([adc |-> a, buf |-> f], h) /\ Driver(a, f, h)
    BY DEF d
  <2>2. a.saadcQueue # <<>> /\ Driver(a, f, h)
    BY <1>1
  <2>3. Finished(d, a, h)
    BY <2>1, <2>2, FinishIs
  <2>4. d = [adc |-> d.adc, buf |-> d.buf] /\ Driver(d.adc, d.buf, At(h, 1))
    BY <2>3, Zenon DEF Finished
  <2>5. d.adc.saadcQueue = Tail(a.saadcQueue) /\ Len(d.adc.saadcQueue) = Len(a.saadcQueue) - 1
    BY <2>3, Zenon DEF Finished
  <2>6. /\ d.adc.filling = a.pointer /\ d.adc.pointer = a.pointer /\ d.adc.saadc = a.saadc
        /\ d.adc.timer = a.timer /\ d.adc.change = a.change
        /\ d.adc.seq = (a.seq + 1) % SeqRange
    BY <2>3, Zenon DEF Finished
  <2>7. a.pointer = p /\ a.saadc = "busy"
    BY <1>1
  <2> HIDE DEF p
  <2>8. /\ b.filling = p /\ b.pointer = p /\ b.saadc = "busy" /\ b.change = a.change
    BY <2>6, <2>7, Zenon
  <2>9. b.timer
    BY <2>6
  <2>10. Driver(b, g, k)
    BY <2>4, Zenon
  <2> QED
    BY <2>4, <2>5, <2>6, <2>8, <2>9, <2>10, Zenon
<1>4. n = IF b.saadcQueue = <<>> THEN [adc |-> stopped, buf |-> g]
          ELSE IF b.change THEN d ELSE Samples!FillSaadcQueue(d)
  BY <1>2 DEF Interrupted
<1> HIDE DEF d, b, g
<1>5. k \in Bufs /\ At(k, 0) = k /\ At(h, 0) = h
  BY RingIs
<1>6. b \in AdcStates /\ b.saadcQueue \in Seq(Bufs)
  BY <1>3 DEF Driver, AdcStates
<1> DEFINE t == Len(S)
           B == b.saadcQueue
           u == Len(B)
<1>6a. B \in Seq(Bufs) /\ u = t - 1 /\ t \in 1 .. 2 /\ (~ a.change => t = 2)
  <2>1. B \in Seq(Bufs) /\ u = t - 1
    BY <1>3, <1>6, Zenon
  <2>2. t \in 1 .. 2 /\ (~ a.change => t = 2)
    BY <1>1, <1>2, Zenon
  <2> QED
    BY <2>1, <2>2, Zenon
<1>6b. (t = 1 => a.change /\ B = <<>> /\ u = 0) /\ (t = 2 => B # <<>> /\ u = 1 /\ u < 2 /\ u - 1 = 0 /\ t - 1 = 1)
  <2>1. u = 0 => B = <<>>
    BY <1>6a
  <2>2. u # 0 => B # <<>>
    OBVIOUS
  <2> HIDE DEF t, B, u
  <2>3. (t = 1 => u = 0 /\ a.change) /\ (t = 2 => u = 1 /\ u # 0 /\ u < 2 /\ u - 1 = 0 /\ t - 1 = 1)
    BY <1>6a
  <2> QED
    BY <2>1, <2>2, <2>3
<1>7. CASE Len(S) = 1
  <2>1. b.saadcQueue = <<>> /\ Len(b.saadcQueue) = 0 /\ a.change
    BY <1>6b, <1>7
  <2>2. n.adc = stopped /\ n.buf = g
    BY <1>4, <2>1
  <2>3. /\ stopped \in AdcStates /\ stopped.saadcQueue = b.saadcQueue /\ stopped.queue = b.queue
        /\ stopped.seq = b.seq /\ stopped.saadc = "stopping" /\ ~ stopped.timer
        /\ stopped.change = b.change /\ stopped.filling = p
    BY <1>3, <1>6 DEF AdcStates
  <2> HIDE DEF stopped, p
  <2>4. Driver(stopped, g, k)
    BY <1>3, <2>3 DEF Driver
  <2>5. RunsOn(stopped, k)
    BY <1>3, <2>1, <2>3 DEF RunsOn
  <2>6. Len(stopped.saadcQueue) = Len(S) - 1
    BY <1>3, <2>3
  <2>7. stopped.filling = At(h, Len(S) - 1)
    BY <2>3 DEF p
  <2> QED
    BY <1>2, <1>3, <2>1, <2>2, <2>3, <2>4, <2>5, <2>6, <2>7
<1>8. CASE Len(S) = 2 /\ a.change
  <2>1. b.saadcQueue # <<>> /\ Len(b.saadcQueue) = 1 /\ b.change /\ p = k
    <3> HIDE DEF S
    <3> QED
      BY <1>3, <1>6b, <1>8
  <2>2. n.adc = b /\ n.buf = g
    BY <1>3, <1>4, <2>1
  <2>3. b.pointer = At(k, Len(b.saadcQueue) - 1)
    <3>1. Len(b.saadcQueue) - 1 = 0
      BY <1>6b, <1>8
    <3> QED
      BY <1>3, <1>5, <2>1, <3>1
  <2>4. RunsOn(b, k)
    BY <1>3, <2>1, <2>3 DEF RunsOn
  <2> QED
    BY <1>2, <1>3, <1>8, <2>2, <2>4
<1>9. CASE Len(S) = 2 /\ ~ a.change
  <2>1. b.saadcQueue # <<>> /\ Len(b.saadcQueue) = 1 /\ ~ b.change /\ p = k
    <3> HIDE DEF S
    <3> QED
      BY <1>3, <1>6b, <1>9
  <2> DEFINE x == At(k, Len(b.saadcQueue))
  <2>2. Driver(b, g, k) /\ Len(b.saadcQueue) < 2 /\ b.saadc # "stopping" /\ b.saadc # "idle"
    BY <1>3, <1>6b, <1>9
  <2>3. x = At(k, 1)
    BY <2>1
  <2> HIDE DEF x, m
  <2>4. m = Samples!FillOnce([adc |-> b, buf |-> g]) /\ x = At(k, Len(b.saadcQueue))
    BY DEF m, x
  <2>5. /\ m = [adc |-> m.adc, buf |-> m.buf] /\ Driver(m.adc, m.buf, k)
        /\ m.adc.saadc = "busy" /\ m.adc.pointer = x
        /\ m.adc.filling = IF b.saadc = "idle" THEN x ELSE b.filling
        /\ m.adc.saadcQueue = Append(b.saadcQueue, x) /\ Len(m.adc.saadcQueue) = Len(b.saadcQueue) + 1
        /\ m.adc.seq = b.seq /\ m.adc.first = b.first /\ m.adc.change = b.change
        /\ m.adc.timer = b.timer /\ m.adc.state = b.state
        /\ \A i \in Bufs : m.buf[i].valid => g[i].valid
    BY <1>5, <2>2, <2>4, FillOnceIs
  <2>6. Len(m.adc.saadcQueue) = 2 /\ m.adc.saadcQueue # <<>>
    BY <1>6, <2>1, <2>5
  <2>7. n = m
    <3>1. n = Samples!FillOnce(Samples!FillOnce(d))
      BY <1>4, <2>1 DEF Samples!FillSaadcQueue
    <3>2. Samples!FillOnce(d) = m
      BY <1>3 DEF m
    <3>3. Samples!FillOnce(m) = m
      BY <2>6, FillNoMore
    <3> QED
      BY <3>1, <3>2, <3>3
  <2>8. RunsOn(m.adc, k)
    BY <1>3, <2>1, <2>2, <2>3, <2>5, <2>6 DEF RunsOn
  <2> QED
    BY <1>2, <1>3, <1>9, <2>1, <2>2, <2>5, <2>6, <2>7, <2>8
<1> QED
  BY <1>1, <1>2, <1>7, <1>8, <1>9

AllDone(calls) == \A i \in 1 .. Len(calls) : calls[i].type = "done"

\* The scheduler has one restart, when the timer does not run.
Restarts(on, calls) ==
  /\ calls \in Seq(Calls)
  /\ on => AllDone(calls)
  /\ ~ on => \E i \in 1 .. Len(calls) :
       calls[i] = Samples!Restart /\ \A j \in (1 .. Len(calls)) \ {i} : calls[j].type = "done"

LEMMA CallsGrow ==
  ASSUME NEW C \in Seq(Calls), AllDone(C), NEW b \in Bufs,
         NEW D \in {<<>>, <<[type |-> "done", buffer |-> b]>>}, NEW on \in BOOLEAN,
         NEW R, R = C \o D \o IF ~ on THEN <<Samples!Restart>> ELSE <<>>
  PROVE  Restarts(on, R)
<1> DEFINE e == [type |-> "done", buffer |-> b]
           r == Samples!Restart
           M == C \o D
           m == Len(M)
<1>1. e \in Calls /\ r \in Calls /\ r.type = "restart"
  BY SizesAre DEF Calls, Samples!Restart, Bufs
<1>2. M \in Seq(Calls) /\ AllDone(M)
  <2>1. CASE D = <<>>
    <3>1. M = C
      BY <2>1
    <3> QED
      BY <3>1
  <2>2. CASE D = <<e>>
    <3>1. M = Append(C, e)
      BY <2>2, <1>1
    <3> HIDE DEF M, e
    <3>2. M \in Seq(Calls) /\ Len(M) = Len(C) + 1 /\ \A i \in 1 .. Len(M) : M[i] = IF i = Len(C) + 1 THEN e ELSE C[i]
      BY <3>1, <1>1
    <3>3. e.type = "done"
      BY DEF e
    <3>4. ASSUME NEW i \in 1 .. Len(M) PROVE M[i].type = "done"
      <4>1. i = Len(C) + 1 \/ i \in 1 .. Len(C)
        BY <3>2
      <4> QED
        BY <3>2, <3>3, <4>1 DEF AllDone
    <3> QED
      BY <3>2, <3>4 DEF AllDone
  <2> QED
    BY <2>1, <2>2
<1> HIDE DEF M
<1>3. CASE on
  <2>1. R = M
    BY <1>2, <1>3 DEF M
  <2> QED
    BY <1>2, <1>3, <2>1 DEF Restarts
<1>4. CASE ~ on
  <2>1. R = Append(M, r)
    BY <1>1, <1>2, <1>4 DEF M
  <2> HIDE DEF r
  <2>2. R \in Seq(Calls) /\ Len(R) = m + 1 /\ m \in Nat /\ \A i \in 1 .. Len(R) : R[i] = IF i = m + 1 THEN r ELSE M[i]
    <3>1. M \in Seq(Calls) /\ r \in Calls /\ R = Append(M, r)
      BY <1>1, <1>2, <2>1
    <3>2. R \in Seq(Calls)
      <4>1. \A B : \A q \in Seq(B) : \A x \in B : Append(q, x) \in Seq(B)
        OBVIOUS
      <4> QED
        BY <3>1, <4>1, Zenon
    <3>3. Len(R) = Len(M) + 1 /\ Len(M) \in Nat
      BY <3>1
    <3>4. \A i \in 1 .. Len(R) : R[i] = IF i = Len(M) + 1 THEN r ELSE M[i]
      BY <3>1
    <3> QED
      BY <3>2, <3>3, <3>4
  <2>3. m + 1 \in 1 .. Len(R) /\ R[m + 1] = r
    BY <2>2
  <2>4. ASSUME NEW j \in (1 .. Len(R)) \ {m + 1} PROVE R[j].type = "done"
    <3>1. j \in 1 .. m /\ j # m + 1
      BY <2>2
    <3>2. R[j] = M[j]
      BY <2>2, <3>1
    <3> QED
      BY <1>2, <3>1, <3>2 DEF AllDone
  <2> HIDE DEF m
  <2> QED
    BY <1>4, <2>2, <2>3, <2>4 DEF Restarts, r
<1> QED
  BY <1>3, <1>4

LEMMA CallsShrink ==
  ASSUME NEW on \in BOOLEAN, NEW C, Restarts(on, C), C # <<>>
  PROVE  /\ Head(C) \in Calls
         /\ Head(C).type = "restart" => ~ on /\ Restarts(TRUE, Tail(C))
         /\ Head(C).type = "done" => Restarts(on, Tail(C))
<1> DEFINE T == Tail(C)
           n == Len(C)
<1>1. C \in Seq(Calls) /\ C # <<>> /\ Head(C) = C[1] /\ Head(C) \in Calls /\ n \in Nat /\ n >= 1
  BY DEF Restarts
<1>2. T \in Seq(Calls) /\ Len(T) = n - 1 /\ \A i \in 1 .. n - 1 : T[i] = C[i + 1]
  BY <1>1
<1> HIDE DEF T
<1>3. Samples!Restart.type = "restart"
  BY DEF Samples!Restart
<1>4. CASE on
  <2>1. AllDone(C) /\ C[1].type = "done"
    BY <1>1, <1>4 DEF Restarts, AllDone
  <2>2. AllDone(T)
    <3>1. ASSUME NEW i \in 1 .. Len(T) PROVE T[i].type = "done"
      <4>1. i \in 1 .. n - 1 /\ i + 1 \in 1 .. n
        BY <1>1, <1>2
      <4> QED
        BY <1>2, <2>1, <4>1 DEF AllDone
    <3> QED
      BY <3>1 DEF AllDone
  <2> QED
    BY <1>1, <1>2, <1>4, <2>1, <2>2 DEF Restarts, T
<1>5. CASE ~ on
  <2>1. PICK i \in 1 .. Len(C) : C[i] = Samples!Restart /\ \A j \in (1 .. Len(C)) \ {i} : C[j].type = "done"
    BY <1>5 DEF Restarts
  <2>2. ASSUME NEW j \in 1 .. Len(T) PROVE j \in 1 .. n - 1 /\ j + 1 \in 1 .. n /\ T[j] = C[j + 1]
    BY <1>1, <1>2
  <2>3. CASE i = 1
    <3>1. Head(C).type = "restart"
      BY <1>1, <1>3, <2>1, <2>3
    <3>2. ASSUME NEW j \in 1 .. Len(T) PROVE T[j].type = "done"
      BY <2>1, <2>2, <2>3
    <3> QED
      BY <1>1, <1>2, <1>5, <3>1, <3>2 DEF Restarts, AllDone, T
  <2>4. CASE i # 1
    <3>1. Head(C).type = "done"
      BY <1>1, <2>1, <2>4
    <3>2. i - 1 \in 1 .. Len(T) /\ T[i - 1] = Samples!Restart
      <4>1. i - 1 \in 1 .. n - 1 /\ i - 1 + 1 = i
        BY <1>1, <2>4
      <4> QED
        BY <1>2, <2>1, <4>1
    <3>3. ASSUME NEW j \in (1 .. Len(T)) \ {i - 1} PROVE T[j].type = "done"
      <4>1. j + 1 # i /\ j + 1 \in (1 .. Len(C)) \ {i}
        BY <2>2, <3>3
      <4> QED
        BY <2>1, <2>2, <4>1
    <3> HIDE DEF n
    <3> QED
      BY <1>1, <1>2, <1>5, <3>1, <3>2, <3>3 DEF Restarts, T
  <2> QED
    BY <2>3, <2>4
<1> QED
  BY <1>4, <1>5

-----------------------------------------------------------------------------
(* The invariant of the driver, and each step that is about it.            *)

\* The driver and what it has put on the scheduler, the oldest buffer being h.
DriverInv(h) == Driver(adc, buf, h) /\ RunsOn(adc, h) /\ Restarts(adc.timer, scheduler)

\* It gives what SamplingIsReal says of the driver.
LEMMA DriverHolds ==
  ASSUME NEW h \in Bufs, DriverInv(h)
  PROVE  Samples!DriverKnowsBuffers /\ Samples!SamplingGoesOn
<1> DEFINE S == adc.saadcQueue
           Q == adc.queue
           s == Len(S)
<1>1. /\ S \in Seq(Bufs) /\ Q \in Seq(Bufs) /\ RingAt(S, Q, h) /\ RunsOn(adc, h) /\ Restarts(adc.timer, scheduler)
      /\ adc.timer \in BOOLEAN
  BY DEF DriverInv, Driver, AdcStates
<1>2. adc.timer => adc.filling = Head(S)
  <2> SUFFICES ASSUME adc.timer PROVE adc.filling = Head(S)
    OBVIOUS
  <2>1. S \in Seq(Bufs) /\ Q \in Seq(Bufs) /\ RingAt(S, Q, h) /\ S # <<>> /\ adc.filling = h
    BY <1>1 DEF RunsOn
  <2> HIDE DEF S, Q
  <2> QED
    BY <2>1, RingTurns
<1>3. Samples!SamplingGoesOn
  <2> HIDE DEF S, Q
  <2> QED
    BY <1>1 DEF Samples!SamplingGoesOn, Samples!Contains, Restarts
<1>4. ASSUME NEW b \in Bufs PROVE Samples!Contains(Q, b) # Samples!Contains(S, b)
  <2> DEFINE d == Dist(h, b)
             q == Len(Q)
  <2>1. d \in 0 .. NumBuffers - 1 /\ At(h, d) = b
    BY RingIs
  <2>2. s \in Nat /\ q \in Nat /\ s + q = NumBuffers
    <3>1. s \in Nat /\ q \in Nat
      BY <1>1
    <3>2. s + q = NumBuffers
      BY <1>1, Zenon DEF RingAt
    <3> QED
      BY <3>1, <3>2
  <2>3. \A i \in 1 .. s : S[i] = At(h, i - 1)
    BY <1>1 DEF RingAt
  <2>4. \A i \in 1 .. q : Q[i] = At(h, s + i - 1)
    BY <1>1 DEF RingAt
  <2>5. \A e \in 0 .. NumBuffers - 1 : Dist(h, At(h, e)) = e
    BY RingIs
  <2> HIDE DEF d, s, q
  <2>6. ASSUME NEW i \in 1 .. s, S[i] = b PROVE d = i - 1
    <3>1. i - 1 \in 0 .. NumBuffers - 1
      BY <2>2
    <3> QED
      BY <2>3, <2>5, <2>6, <3>1 DEF d
  <2>7. ASSUME NEW i \in 1 .. q, Q[i] = b PROVE d = s + i - 1
    <3>1. s + i - 1 \in 0 .. NumBuffers - 1
      BY <2>2
    <3> QED
      BY <2>4, <2>5, <2>7, <3>1 DEF d
  <2>8. d < s => d + 1 \in 1 .. s /\ S[d + 1] = b
    <3> SUFFICES ASSUME d < s PROVE d + 1 \in 1 .. s /\ S[d + 1] = b
      OBVIOUS
    <3> DEFINE e == d + 1
    <3>1. e \in 1 .. s /\ e - 1 = d
      BY <2>1, <2>2
    <3> HIDE DEF e, S
    <3>2. S[e] = At(h, e - 1)
      BY <2>3, <3>1, Zenon
    <3>3. S[e] = b
      BY <2>1, <3>1, <3>2
    <3> QED
      BY <3>1, <3>3 DEF e
  <2>9. d >= s => d - s + 1 \in 1 .. q /\ Q[d - s + 1] = b
    <3> SUFFICES ASSUME d >= s PROVE d - s + 1 \in 1 .. q /\ Q[d - s + 1] = b
      OBVIOUS
    <3>1. d - s + 1 \in 1 .. q /\ s + (d - s + 1) - 1 = d
      BY <2>1, <2>2
    <3>2. Q[d - s + 1] = At(h, s + (d - s + 1) - 1)
      BY <2>4, <3>1, Zenon
    <3> QED
      BY <2>1, <3>1, <3>2
  <2>10. Samples!Contains(S, b) <=> d < s
    <3>1. ASSUME NEW i \in 1 .. s, S[i] = b PROVE d < s
      BY <2>2, <2>6, <3>1
    <3> QED
      BY <2>8, <3>1 DEF Samples!Contains, s
  <2>11. Samples!Contains(Q, b) <=> d >= s
    <3>1. ASSUME NEW i \in 1 .. q, Q[i] = b PROVE d >= s
      BY <2>2, <2>7, <3>1
    <3> QED
      BY <2>9, <3>1 DEF Samples!Contains, q
  <2>12. Samples!Contains(Q, b) \in BOOLEAN /\ Samples!Contains(S, b) \in BOOLEAN
    BY DEF Samples!Contains
  <2>13. d < s <=> ~ d >= s
    BY <2>1, <2>2
  <2> QED
    BY <2>10, <2>11, <2>12, <2>13
<1>5. Samples!Buffers = Bufs
  BY DEF Samples!Buffers, Bufs
<1> QED
  BY <1>2, <1>3, <1>4, <1>5 DEF Samples!DriverKnowsBuffers

\* After start() the SAADC has its two buffers.
LEMMA StartRuns ==
  ASSUME NEW h \in Bufs, NEW a, NEW f, Driver(a, f, h), a.saadcQueue = <<>>, a.saadc = "idle",
         NEW n, n = Samples!Start([adc |-> a, buf |-> f])
  PROVE  /\ Driver(n.adc, n.buf, h) /\ RunsOn(n.adc, h)
         /\ n.adc.timer /\ ~ n.adc.change /\ n.adc.seq = a.seq
<1>1. /\ Driver(n.adc, n.buf, h)
      /\ n.adc.timer /\ n.adc.saadc = "busy" /\ ~ n.adc.change
      /\ Len(n.adc.saadcQueue) = 2 /\ n.adc.filling = n.adc.saadcQueue[1] /\ n.adc.pointer = n.adc.saadcQueue[2]
      /\ n.adc.seq = a.seq
  BY RecordingStarts
<1> DEFINE S == n.adc.saadcQueue
<1>2. S \in Seq(Bufs) /\ \A i \in 1 .. Len(S) : S[i] = At(h, i - 1)
  BY <1>1 DEF Driver, RingAt, AdcStates
<1>3. S # <<>> /\ S[1] = At(h, 0) /\ S[2] = At(h, 1) /\ Len(S) - 1 = 1
  BY <1>1, <1>2
<1>4. At(h, 0) = h
  BY RingIs
<1> QED
  BY <1>1, <1>3, <1>4 DEF RunsOn

LEMMA DriverInit ==
  ASSUME Samples!Init PROVE DriverInv(0)
<1> DEFINE a == [state |-> "idle", saadc |-> "idle", queue |-> [i \in 1 .. NumBuffers |-> i - 1],
                 saadcQueue |-> <<>>, first |-> FALSE, change |-> FALSE, timer |-> FALSE,
                 seq |-> 1, pointer |-> 0, filling |-> 0]
           f == [b \in Samples!Buffers |-> [valid |-> FALSE, seq |-> 0]]
           n == Samples!Start([adc |-> a, buf |-> f])
           Q == [i \in 1 .. NumBuffers |-> i - 1]
<1>1. adc = n.adc /\ buf = n.buf /\ scheduler = <<>>
  BY DEF Samples!Init
<1>2. 0 \in Bufs /\ 0 \in Seqs /\ 1 \in Seqs
  BY SizesAre DEF Bufs, Seqs
<1>3. Q \in Seq(Bufs) /\ Len(Q) = NumBuffers /\ \A i \in 1 .. NumBuffers : Q[i] = i - 1
  <2>1. \A i \in 1 .. NumBuffers : i - 1 \in Bufs
    BY SizesAre DEF Bufs
  <2> QED
    BY <2>1, SizesAre
<1> HIDE DEF Q
<1>4. a.queue = Q /\ a.saadcQueue = <<>> /\ a.saadc = "idle"
  BY DEF Q
<1>5. a \in AdcStates
  <2>1. <<>> \in Seq(Bufs)
    OBVIOUS
  <2> QED
    BY <1>2, <1>3, <2>1 DEF AdcStates, Q
<1>6. f \in BufStates /\ \A b \in Bufs : ~ f[b].valid
  BY <1>2 DEF BufStates, Samples!Buffers, Bufs
<1>7. RingAt(<<>>, Q, 0)
  <2>1. ASSUME NEW i \in 1 .. NumBuffers PROVE Q[i] = At(0, 0 + i - 1)
    BY <1>3, SizesAre DEF At
  <2>2. Len(<<>>) = 0 /\ 0 <= 2 /\ 0 + NumBuffers = NumBuffers
    BY SizesAre
  <2> QED
    BY <1>3, <2>1, <2>2 DEF RingAt
<1> HIDE DEF f
<1>8. Driver(a, f, 0)
  BY <1>4, <1>5, <1>6, <1>7 DEF Driver, Aged
<1> HIDE DEF a
<1>9. Driver(n.adc, n.buf, 0) /\ RunsOn(n.adc, 0) /\ n.adc.timer
  BY <1>2, <1>4, <1>8, StartRuns
<1>10. Restarts(TRUE, <<>>)
  BY DEF Restarts, AllDone
<1> HIDE DEF n
<1> QED
  BY <1>1, <1>9, <1>10 DEF DriverInv

LEMMA InterruptDrives ==
  ASSUME NEW h \in Bufs, DriverInv(h), Samples!HandleAdcInterrupt
  PROVE  /\ At(h, 1) \in Bufs /\ DriverInv(At(h, 1))' /\ adc.timer
         /\ adc'.filling = At(h, Len(adc.saadcQueue) - 1)
         /\ adc'.seq = (adc.seq + 1) % SeqRange /\ adc'.change = adc.change
         /\ adc.change => Len(adc'.saadcQueue) = Len(adc.saadcQueue) - 1
         /\ ~ adc.change => Len(adc'.saadcQueue) = 2 /\ Len(adc.saadcQueue) = 2
         /\ Len(adc.saadcQueue) \in 1 .. 2
<1> DEFINE n == Interrupted(adc, buf)
           k == At(h, 1)
           S == adc.saadcQueue
           Q == adc.queue
<1>1. adc' = n.adc /\ buf' = n.buf /\ adc.timer
  BY DEF Samples!HandleAdcInterrupt, Interrupted
<1>2. scheduler' = scheduler \o Samples!Done(Head(S)) \o IF n.adc.saadc = "stopping" THEN <<Samples!Restart>> ELSE <<>>
  BY DEF Samples!HandleAdcInterrupt, Interrupted
<1> HIDE DEF n
<1>3. Driver(adc, buf, h) /\ RunsOn(adc, h) /\ n = Interrupted(adc, buf) /\ k = At(h, 1)
  BY DEF n, DriverInv
<1>4. /\ Driver(n.adc, n.buf, k) /\ RunsOn(n.adc, k)
      /\ n.adc.filling = At(h, Len(adc.saadcQueue) - 1)
      /\ n.adc.seq = (adc.seq + 1) % SeqRange /\ n.adc.change = adc.change
      /\ adc.change => Len(n.adc.saadcQueue) = Len(adc.saadcQueue) - 1
      /\ ~ adc.change => Len(n.adc.saadcQueue) = 2 /\ Len(adc.saadcQueue) = 2
      /\ n.adc.saadc = "stopping" <=> ~ n.adc.timer
      /\ Len(adc.saadcQueue) \in 1 .. 2
  <2> HIDE DEF k
  <2> QED
    BY <1>1, <1>3, InterruptIs
<1>5. k \in Bufs /\ n.adc.timer \in BOOLEAN
  BY <1>4, RingIs DEF Driver, AdcStates
<1>6. Head(S) \in Bufs
  <2>1. S \in Seq(Bufs) /\ Q \in Seq(Bufs) /\ RingAt(S, Q, h) /\ S # <<>>
    BY <1>1, <1>3 DEF Driver, AdcStates, RunsOn
  <2> HIDE DEF S, Q
  <2> QED
    BY <2>1, RingTurns
<1>7. Restarts(n.adc.timer, scheduler')
  <2> DEFINE on == n.adc.timer
             D == Samples!Done(Head(S))
             b == Head(S)
  <2>1. scheduler \in Seq(Calls) /\ AllDone(scheduler)
    BY <1>1 DEF DriverInv, Restarts
  <2>2. D \in {<<>>, <<[type |-> "done", buffer |-> b]>>}
    BY DEF Samples!Done
  <2>3. scheduler' = scheduler \o D \o IF ~ on THEN <<Samples!Restart>> ELSE <<>>
    BY <1>2, <1>4
  <2>4. on \in BOOLEAN /\ b \in Bufs
    BY <1>5, <1>6
  <2> HIDE DEF on, D, b
  <2>5. Restarts(on, scheduler')
    BY <2>1, <2>2, <2>3, <2>4, CallsGrow
  <2> QED
    BY <2>5 DEF on
<1>8. DriverInv(k)'
  BY <1>1, <1>4, <1>7 DEF DriverInv
<1> QED
  BY <1>1, <1>4, <1>5, <1>8

LEMMA RestartDrives ==
  ASSUME NEW h \in Bufs, DriverInv(h), Samples!HandleRestart
  PROVE  /\ DriverInv(h)' /\ ~ adc.timer /\ adc'.timer /\ ~ adc'.change /\ adc'.seq = adc.seq
<1> DEFINE a == [adc EXCEPT !.state = "idle", !.timer = FALSE, !.saadc = "idle", !.queue = adc.queue, !.saadcQueue = <<>>]
           n == Samples!Start([adc |-> a, buf |-> buf])
<1>1. /\ scheduler # <<>> /\ Head(scheduler).type = "restart" /\ scheduler' = Tail(scheduler)
      /\ Restarts(adc.timer, scheduler) /\ adc.timer \in BOOLEAN
  BY DEF Samples!HandleRestart, DriverInv, Driver, AdcStates
<1>2. ~ adc.timer /\ Restarts(TRUE, scheduler')
  BY <1>1, CallsShrink
<1>3. adc.saadcQueue = <<>> /\ adc \in AdcStates
  BY <1>2 DEF DriverInv, Driver, RunsOn
<1>4. adc' = n.adc /\ buf' = n.buf
  BY <1>3, StopIs DEF Samples!HandleRestart
<1>5. Driver(a, buf, h) /\ a.saadcQueue = <<>> /\ a.saadc = "idle" /\ a.seq = adc.seq
  <2>1. a \in AdcStates /\ a.saadcQueue = adc.saadcQueue /\ a.queue = adc.queue /\ a.seq = adc.seq /\ a.saadc = "idle"
    BY <1>3 DEF AdcStates
  <2> HIDE DEF a
  <2> QED
    BY <1>3, <2>1 DEF DriverInv, Driver
<1> HIDE DEF a
<1>6. Driver(n.adc, n.buf, h) /\ RunsOn(n.adc, h) /\ n.adc.timer /\ ~ n.adc.change /\ n.adc.seq = a.seq
  BY <1>5, StartRuns
<1> HIDE DEF n
<1>7. n.adc.timer = TRUE
  BY <1>6 DEF Driver, AdcStates
<1> QED
  BY <1>2, <1>4, <1>5, <1>6, <1>7 DEF DriverInv

LEMMA ChangeDrives ==
  ASSUME NEW h \in Bufs, DriverInv(h), Samples!ChangeChannel
  PROVE  /\ DriverInv(h)' /\ adc'.change /\ adc'.saadcQueue = adc.saadcQueue /\ adc'.timer = adc.timer
         /\ adc'.seq = adc.seq /\ adc'.filling = adc.filling /\ adc.timer /\ Len(adc.saadcQueue) = 2
<1> DEFINE a == [adc EXCEPT !.change = TRUE]
<1>1. adc' = a /\ buf' = buf /\ scheduler' = scheduler /\ ~ adc.change
  BY DEF Samples!ChangeChannel
<1>2. adc \in AdcStates
  BY DEF DriverInv, Driver
<1>3. /\ a \in AdcStates /\ a.saadcQueue = adc.saadcQueue /\ a.queue = adc.queue /\ a.seq = adc.seq /\ a.saadc = adc.saadc
      /\ a.timer = adc.timer /\ a.filling = adc.filling /\ a.pointer = adc.pointer /\ a.change
  BY <1>2 DEF AdcStates
<1> HIDE DEF a
<1>4. Driver(a, buf, h) /\ RunsOn(a, h)
  BY <1>2, <1>3 DEF DriverInv, Driver, RunsOn
<1>5. adc.timer /\ Len(adc.saadcQueue) = 2
  BY <1>1 DEF DriverInv, RunsOn
<1> QED
  BY <1>1, <1>3, <1>4, <1>5 DEF DriverInv

LEMMA DoneDrives ==
  ASSUME NEW h \in Bufs, DriverInv(h), Samples!HandleAdcDone
  PROVE  /\ DriverInv(h)' /\ adc'.change = adc.change /\ adc'.saadcQueue = adc.saadcQueue /\ adc'.timer = adc.timer
         /\ adc'.seq = adc.seq /\ adc'.filling = adc.filling /\ Head(scheduler) \in Calls
<1> DEFINE a == [adc EXCEPT !.first = FALSE]
<1>1. adc' = a /\ buf' = buf /\ scheduler' = Tail(scheduler) /\ scheduler # <<>> /\ Head(scheduler).type = "done"
  BY DEF Samples!HandleAdcDone
<1>2. adc \in AdcStates /\ adc.timer \in BOOLEAN
  BY DEF DriverInv, Driver, AdcStates
<1>3. /\ a \in AdcStates /\ a.saadcQueue = adc.saadcQueue /\ a.queue = adc.queue /\ a.seq = adc.seq /\ a.saadc = adc.saadc
      /\ a.timer = adc.timer /\ a.filling = adc.filling /\ a.pointer = adc.pointer /\ a.change = adc.change
  BY <1>2 DEF AdcStates
<1> HIDE DEF a
<1>4. Driver(a, buf, h) /\ RunsOn(a, h)
  BY <1>2, <1>3 DEF DriverInv, Driver, RunsOn
<1>5. Restarts(adc.timer, Tail(scheduler)) /\ Head(scheduler) \in Calls
  BY <1>1, <1>2, CallsShrink DEF DriverInv
<1> QED
  BY <1>1, <1>3, <1>4, <1>5 DEF DriverInv

-----------------------------------------------------------------------------
(* What the main loop holds.                                               *)

\* The main loop keeps up: at most one recording ends during a handler, the channel changes
\* only when so few recordings wait that those compared are still there after the last two,
\* and the numbers of the buffers do not come round while it waits.
Punctual ==
  /\ During <= 1
  /\ Needed + Behind + 2 <= NumBuffers
  /\ NumBuffers + Pause < SeqRange

Lesser(x, y) == IF x <= y THEN x ELSE y

Handlers == [pc : {"idle", "filter", "filter2", "check", "power", "look", "compare"},
             out : Bufs, used : Seq(Bufs), touched : SUBSET Bufs]

\* What the handler uses, the SAADC has not been in since the handler began.
Apart(h, b, touched, wait, n) == b \in Bufs /\ b \notin touched /\ (wait = 0 => Dist(h, b) >= n)

HandlerInv(h) ==
  /\ handler \in Handlers /\ spoiled = {} /\ late \in Nat
  /\ late <= IF handler.pc = "idle" THEN Pause ELSE During
  /\ handler.pc \in {"filter", "filter2", "check", "power"} =>
       /\ Apart(h, handler.out, handler.touched, late, Len(adc.saadcQueue))
       /\ ~ (adc.timer /\ handler.out = adc.filling)
  /\ handler.pc = "compare" =>
       /\ \A j \in 1 .. 3 : Apart(h, handler.used[j], handler.touched, late, Len(adc.saadcQueue))
       /\ Dist(h, handler.used[3]) = Dist(h, handler.used[1]) + Needed - 1

\* The buffers in the queue of the main loop follow each other.
Chain(W) ==
  /\ W \in Seq(Bufs) /\ Len(W) <= NumBuffers
  /\ \A i \in 0 .. Len(W) - 1 : W[Len(W) - i] = Back(W[Len(W)], i)

\* After b, with that number, there were g recordings.
Waiting(h, b, number, seq, g) ==
  /\ g \in Nat /\ seq = (number + 1 + g) % SeqRange
  /\ g < NumBuffers => Dist(h, b) = NumBuffers - 1 - g

\* They are few enough for what the handler still compares of the l buffers, and when the
\* channel changes, with n buffers that the SAADC will fill, for what it will compare.
Fresh(l, g, n, change, on, pc, wait) ==
  /\ pc = "idle" => g <= NumBuffers - 1 + wait
  /\ pc # "idle" => g <= NumBuffers - 1 - (IF pc \in {"power", "look"} THEN Lesser(l - 1, Needed) ELSE 0)
                                       - (IF wait = 0 /\ on THEN 1 ELSE 0)
  /\ change => g <= NumBuffers - 1 - n - Lesser(l - 1, IF pc = "idle" THEN Needed - 1 ELSE Needed)

QueueInv(h) ==
  LET W == sampling.queue IN
  /\ sampling \in [queue : Seq(Bufs), last : Seqs]
  /\ W # <<>> =>
       /\ Chain(W)
       /\ \E g \in Nat : /\ Waiting(h, W[Len(W)], sampling.last, adc.seq, g)
                          /\ Fresh(Len(W), g, Len(adc.saadcQueue), adc.change, adc.timer, handler.pc, late)

LEMMA BackIs ==
  ASSUME NEW h \in Bufs, NEW b \in Bufs, NEW i \in 0 .. NumBuffers - 1
  PROVE  /\ Back(b, i) \in Bufs /\ Back(b, 0) = b
         /\ i <= Dist(h, b) => Dist(h, Back(b, i)) = Dist(h, b) - i
         /\ i >= 1 => Back(Back(b, 1), i - 1) = Back(b, i)
BY SizesAre DEF Bufs, Back, Dist

LEMMA BackOne ==
  ASSUME NEW h \in Bufs, NEW b \in Bufs, NEW x \in Bufs, Dist(h, x) = Dist(h, b) - 1
  PROVE  x = Back(b, 1)
BY SizesAre DEF Bufs, Back, Dist

LEMMA WaitingNext ==
  ASSUME NEW h \in Bufs, NEW b \in Bufs, NEW number \in Seqs, NEW seq \in Seqs, NEW g \in Nat,
         Waiting(h, b, number, seq, g)
  PROVE  Waiting(At(h, 1), b, number, (seq + 1) % SeqRange, g + 1)
<1>1. number \in Int /\ SeqRange \in Nat \ {0} /\ number + 1 + g \in Int /\ (number + 1 + g) + 1 = number + 1 + (g + 1)
  BY SizesAre DEF Seqs
<1>2. (seq + 1) % SeqRange = ((number + 1 + g) + 1) % SeqRange
  <2> DEFINE x == number + 1 + g
  <2>1. x \in Int /\ seq = x % SeqRange
    BY <1>1 DEF Waiting
  <2> HIDE DEF x
  <2>2. ((x % SeqRange) + 1) % SeqRange = (x + 1) % SeqRange
    BY <1>1, <2>1, 1 \in Int, SumOfRemainder, Zenon
  <2> QED
    BY <2>1, <2>2 DEF x
<1>3. ASSUME g + 1 < NumBuffers PROVE Dist(At(h, 1), b) = NumBuffers - 1 - (g + 1)
  <2>1. Dist(h, b) = NumBuffers - 1 - g /\ Dist(h, b) >= 1
    BY <1>3, SizesAre DEF Waiting
  <2>2. b # h
    BY <2>1, SizesAre, RingIs
  <2>3. Dist(At(h, 1), b) = Dist(h, b) - 1
    BY <2>2, RingIs
  <2> QED
    BY <2>1, <2>3, SizesAre
<1> QED
  BY <1>1, <1>2, <1>3 DEF Waiting

\* How many recordings wait, from the numbers.
LEMMA WaitingSays ==
  ASSUME NEW number \in Seqs, NEW g \in Nat, g < SeqRange, NEW seq, seq = (number + 1 + g) % SeqRange
  PROVE  (seq + SeqRange - number - 1) % SeqRange = g
<1> DEFINE x == number + 1 + g
           y == SeqRange - number - 1
<1>1. x \in Int /\ y \in Int /\ SeqRange \in Nat \ {0} /\ x + y = SeqRange * 1 + g /\ g \in 0 .. SeqRange - 1
  BY SizesAre DEF Seqs
<1>2. seq \in Int /\ number \in Int
  BY <1>1, Parts DEF Seqs
<1>3. seq + SeqRange - number - 1 = seq + y
  BY <1>1, <1>2
<1> HIDE DEF x, y
<1>4. seq = x % SeqRange
  BY DEF x
<1>5. (seq + y) % SeqRange = (x + y) % SeqRange
  BY <1>1, <1>4, SumOfRemainder, Zenon
<1>6. (x + y) % SeqRange = g
  <2> DEFINE z == x + y
  <2>1. z \in Int /\ z = SeqRange * 1 + g
    BY <1>1
  <2> HIDE DEF z
  <2>2. z % SeqRange = g
    BY <1>1, <2>1, Divided
  <2> QED
    BY <2>2 DEF z
<1> QED
  BY <1>3, <1>5, <1>6

LEMMA Sums ==
  ASSUME NEW number \in Int, NEW g \in Int, NEW e \in Int
  PROVE  /\ number + 1 \in Int /\ 1 + e \in Int /\ number + 1 + g \in Int /\ (number + 1) + (1 + e) \in Int
         /\ ((number + 1) + (1 + e)) - (number + 1 + g) = 1 + e - g
OBVIOUS

\* The next number means the next recording.
LEMMA OneLess ==
  ASSUME NEW number \in Seqs, NEW g \in Nat, g < SeqRange, NEW e \in Nat, e + 1 < SeqRange,
         NEW next, next = (number + 1) % SeqRange,
         NEW seq, seq = (number + 1 + g) % SeqRange, seq = (next + 1 + e) % SeqRange
  PROVE  g = e + 1
<1> DEFINE x == number + 1
           y == 1 + e
           v == number + 1 + g
           w == x + y
<1>1. x \in Int /\ y \in Int /\ v \in Int /\ SeqRange \in Nat \ {0} /\ w \in Int /\ w - v = 1 + e - g
  <2>1. number \in Int /\ SeqRange \in Nat \ {0} /\ e \in Int /\ g \in Int
    BY SizesAre DEF Seqs
  <2> QED
    BY <2>1, Sums, Zenon
<1>2. next \in Int
  BY <1>1, Parts
<1>3. next + 1 + e = next + y
  BY <1>1, <1>2
<1> HIDE DEF x
<1>4. next = x % SeqRange
  BY DEF x
<1> HIDE DEF y
<1>5. (next + y) % SeqRange = (x + y) % SeqRange
  BY <1>1, <1>4, SumOfRemainder, Zenon
<1>6. v % SeqRange = w % SeqRange
  BY <1>3, <1>5
<1> HIDE DEF v, w
<1>7. v - w < SeqRange /\ w - v < SeqRange
  BY <1>1, SizesAre
<1>8. v = w
  BY <1>1, <1>6, <1>7, SameRemainder, Zenon
<1> QED
  BY <1>1, <1>8

\* Two sums with one remainder.
LEMMA SameSum ==
  ASSUME NEW d \in Nat \ {0}, NEW a \in Int, NEW b \in Int, NEW c \in Int
  PROVE  (a + c) % d = (b + c) % d => a % d = b % d
<1> SUFFICES ASSUME (a + c) % d = (b + c) % d PROVE a % d = b % d
  OBVIOUS
<1> DEFINE v == a + c
           w == b + c
           m == 0 - c
<1>1. v \in Int /\ w \in Int /\ m \in Int /\ v + m = a /\ w + m = b /\ v % d = w % d
  OBVIOUS
<1> HIDE DEF v, w, m
<1>2. ((v % d) + m) % d = (v + m) % d /\ ((w % d) + m) % d = (w + m) % d
  BY <1>1, SumOfRemainder
<1> QED
  BY <1>1, <1>2

-----------------------------------------------------------------------------
(* Each step of the interrupt and the main loop keeps it.                  *)

\* A recording that ends is one more that waits.
LEMMA InterruptQueues ==
  ASSUME Punctual, NEW h \in Bufs, DriverInv(h), HandlerInv(h), QueueInv(h), Samples!HandleAdcInterrupt
  PROVE  QueueInv(At(h, 1))'
<1> DEFINE W == sampling.queue
           l == Len(W)
           n == Len(adc.saadcQueue)
           m == Len(adc'.saadcQueue)
           k == At(h, 1)
<1>1. /\ sampling' = sampling /\ late' = late + 1 /\ handler'.pc = handler.pc
      /\ handler.pc # "idle" => late = 0
  <2>1. handler.pc # "idle" => late < During
    BY DEF Samples!HandleAdcInterrupt
  <2>2. late \in Nat /\ During <= 1 /\ handler \in Handlers
    BY DEF HandlerInv, Punctual
  <2>3. handler.pc # "idle" => late = 0
    BY <2>1, <2>2, SizesAre
  <2>4. handler'.pc = handler.pc
    BY <2>2 DEF Samples!HandleAdcInterrupt, Handlers
  <2> QED
    BY <2>3, <2>4 DEF Samples!HandleAdcInterrupt
<1>2. /\ k \in Bufs /\ DriverInv(k)' /\ adc.timer
      /\ adc'.seq = (adc.seq + 1) % SeqRange /\ adc'.change = adc.change
      /\ adc.change => m = n - 1
      /\ n \in 1 .. 2
  BY InterruptDrives
<1>3. /\ adc.seq \in Seqs /\ adc.change \in BOOLEAN /\ adc.timer = TRUE /\ adc'.timer \in BOOLEAN
      /\ sampling \in [queue : Seq(Bufs), last : Seqs] /\ late \in Nat /\ n \in Nat
  BY <1>2 DEF DriverInv, Driver, AdcStates, QueueInv, HandlerInv
<1>4. m \in Nat
  <2>1. adc'.saadcQueue \in Seq(Bufs)
    BY <1>2 DEF DriverInv, Driver, AdcStates
  <2> QED
    BY <2>1
<1>5. CASE W = <<>>
  BY <1>1, <1>3, <1>5 DEF QueueInv
<1>6. CASE W # <<>>
  <2> DEFINE b == W[Len(W)]
             final2 == sampling.last
  <2>1. PICK g \in Nat : /\ Waiting(h, b, final2, adc.seq, g)
                         /\ Fresh(l, g, n, adc.change, adc.timer, handler.pc, late)
    BY <1>6 DEF QueueInv
  <2>2. Chain(W)
    BY <1>6 DEF QueueInv
  <2>3. l \in Nat /\ b \in Bufs /\ final2 \in Seqs
    <3>1. W \in Seq(Bufs) /\ final2 \in Seqs
      BY <1>3
    <3> HIDE DEF W
    <3> QED
      BY <1>6, <3>1
  <2> HIDE DEF b, l, n, m, k, W, final2
  <2>4. Waiting(k, b, final2, adc'.seq, g + 1)
    BY <1>2, <1>3, <2>1, <2>3, WaitingNext DEF k
  <2>5. Fresh(l, g + 1, m, adc'.change, adc'.timer, handler'.pc, late')
    <3> DEFINE pc == handler.pc
               base == IF pc \in {"power", "look"} THEN Lesser(l - 1, Needed) ELSE 0
               held == Lesser(l - 1, IF pc = "idle" THEN Needed - 1 ELSE Needed)
    <3>1. base \in Int /\ held \in Int
      BY <2>3, SizesAre DEF Lesser
    <3>2. /\ pc = "idle" => g <= NumBuffers - 1 + late
          /\ pc # "idle" => g <= NumBuffers - 1 - base - (IF late = 0 /\ adc.timer THEN 1 ELSE 0)
          /\ adc.change => g <= NumBuffers - 1 - n - held
      BY <2>1 DEF Fresh
    <3>3. /\ pc # "idle" => late = 0 /\ adc.timer
          /\ adc.change => m = n - 1
          /\ m \in Nat /\ n \in Nat /\ late \in Nat
      BY <1>1, <1>2, <1>3, <1>4
    <3> HIDE DEF pc, base, held
    <3>4. /\ pc = "idle" => g + 1 <= NumBuffers - 1 + (late + 1)
          /\ pc # "idle" => g + 1 <= NumBuffers - 1 - base - (IF late + 1 = 0 /\ adc'.timer THEN 1 ELSE 0)
          /\ adc.change => g + 1 <= NumBuffers - 1 - m - held
      BY <3>1, <3>2, <3>3, SizesAre
    <3>5. Fresh(l, g + 1, m, adc.change, adc'.timer, pc, late + 1)
      BY <3>4 DEF Fresh, base, held
    <3> QED
      BY <1>1, <1>2, <3>5 DEF pc
  <2>6. g + 1 \in Nat
    OBVIOUS
  <2> QED
    BY <1>1, <1>3, <2>2, <2>4, <2>5, <2>6 DEF QueueInv, b, l, m, W, final2, k
<1> QED
  BY <1>5, <1>6

\* The interrupt takes no buffer that the handler uses.
LEMMA InterruptHandles ==
  ASSUME Punctual, NEW h \in Bufs, DriverInv(h), HandlerInv(h), Samples!HandleAdcInterrupt
  PROVE  HandlerInv(At(h, 1))'
<1> DEFINE n == Len(adc.saadcQueue)
           k == At(h, 1)
           full == adc'.filling
<1>1. /\ k \in Bufs /\ DriverInv(k)' /\ adc.timer /\ full = At(h, n - 1) /\ n \in 1 .. 2
  BY InterruptDrives
<1>2. /\ handler' = [handler EXCEPT !.touched = @ \union ({full} \intersect Samples!InUse)]
      /\ spoiled' = spoiled \ {full} /\ late' = late + 1
      /\ late < IF handler.pc = "idle" THEN Pause ELSE During
  BY DEF Samples!HandleAdcInterrupt
<1>3. handler \in Handlers /\ spoiled = {} /\ late \in Nat /\ During <= 1
  BY DEF HandlerInv, Punctual
<1>4. full \in Bufs /\ Dist(h, full) = n - 1
  <2>1. n - 1 \in 0 .. NumBuffers - 1
    <3>1. n \in 1 .. 2
      BY <1>1
    <3> HIDE DEF n
    <3> QED
      BY <3>1, SizesAre
  <2> QED
    BY <1>1, <2>1, RingIs
<1> HIDE DEF full
<1>5. /\ handler' \in Handlers /\ handler'.pc = handler.pc /\ handler'.out = handler.out /\ handler'.used = handler.used
      /\ handler'.touched \subseteq handler.touched \union {full}
  BY <1>2, <1>3, <1>4 DEF Handlers
<1>6. /\ late' \in Nat /\ late' <= IF handler.pc = "idle" THEN Pause ELSE During
      /\ handler.pc # "idle" => late = 0 /\ late' # 0
  BY <1>2, <1>3, SizesAre
<1>7. ASSUME NEW b, Apart(h, b, handler.touched, late, n), late = 0
      PROVE  b \in Bufs /\ b # full /\ Dist(h, b) >= 1 /\ Dist(k, b) = Dist(h, b) - 1
  <2>1. b \in Bufs /\ Dist(h, b) >= n
    BY <1>7 DEF Apart
  <2>2. Dist(h, b) \in Int /\ Dist(h, b) >= 1 /\ Dist(h, b) # n - 1
    <3> DEFINE d == Dist(h, b)
    <3>1. d \in Int
      BY <2>1, RingIs
    <3> HIDE DEF d, n
    <3>2. d >= 1 /\ d # n - 1
      BY <1>1, <2>1, <3>1 DEF d
    <3> QED
      BY <3>1, <3>2 DEF d
  <2>3. b # h
    BY <2>2, RingIs
  <2>4. Dist(k, b) = Dist(h, b) - 1
    BY <2>1, <2>3, RingIs
  <2> QED
    BY <1>4, <2>1, <2>2, <2>4
<1> HIDE DEF k, n
<1> DEFINE m == Len(adc'.saadcQueue)
           touched2 == handler'.touched
           wait2 == late'
<1>8. ASSUME NEW b, Apart(h, b, handler.touched, late, n), late = 0
      PROVE  Apart(k, b, touched2, wait2, m)
  <2>1. b \notin touched2
    BY <1>5, <1>7, <1>8 DEF Apart
  <2>2. b \in Bufs /\ wait2 # 0
    BY <1>2, <1>3, <1>7, <1>8
  <2> HIDE DEF touched2, wait2, m
  <2> QED
    BY <2>1, <2>2 DEF Apart
<1> HIDE DEF touched2, wait2, m
<1>9. ASSUME handler.pc \in {"filter", "filter2", "check", "power"}
      PROVE  Apart(k, handler'.out, touched2, wait2, m) /\ ~ (adc'.timer /\ handler'.out = full)
  <2> DEFINE b == handler.out
  <2>1. Apart(h, b, handler.touched, late, n) /\ late = 0 /\ handler'.out = b
    BY <1>5, <1>6, <1>9 DEF HandlerInv, n
  <2> HIDE DEF b
  <2>2. Apart(k, b, touched2, wait2, m) /\ b # full
    BY <1>7, <1>8, <2>1
  <2> QED
    BY <2>1, <2>2
<1>10. ASSUME handler.pc = "compare"
       PROVE  /\ \A j \in 1 .. 3 : Apart(k, handler'.used[j], touched2, wait2, m)
              /\ Dist(k, handler'.used[3]) = Dist(k, handler'.used[1]) + Needed - 1
  <2>1. /\ late = 0 /\ handler'.used = handler.used
        /\ \A j \in 1 .. 3 : Apart(h, handler.used[j], handler.touched, late, n)
        /\ Dist(h, handler.used[3]) = Dist(h, handler.used[1]) + Needed - 1
    BY <1>5, <1>6, <1>10 DEF HandlerInv, n
  <2>2. ASSUME NEW j \in 1 .. 3 PROVE Apart(k, handler'.used[j], touched2, wait2, m)
    <3> DEFINE b == handler.used[j]
    <3>1. Apart(h, b, handler.touched, late, n) /\ handler'.used[j] = b
      BY <2>1
    <3> HIDE DEF b
    <3>2. Apart(k, b, touched2, wait2, m)
      BY <1>8, <2>1, <3>1
    <3> QED
      BY <3>1, <3>2
  <2> DEFINE u == handler.used[1]
             v == handler.used[3]
             du == Dist(h, u)
             dv == Dist(h, v)
  <2>3. /\ Apart(h, u, handler.touched, late, n) /\ Apart(h, v, handler.touched, late, n)
        /\ dv = du + Needed - 1
    BY <2>1
  <2> HIDE DEF u, v
  <2>4. Dist(k, u) = du - 1 /\ Dist(k, v) = dv - 1 /\ u \in Bufs /\ v \in Bufs
    BY <1>7, <2>1, <2>3
  <2>5. du \in Int /\ dv \in Int
    <3>1. u \in Bufs /\ v \in Bufs
      BY <2>4
    <3>2. Dist(h, u) \in 0 .. NumBuffers - 1 /\ Dist(h, v) \in 0 .. NumBuffers - 1
      BY <3>1, RingIs
    <3> QED
      BY <3>2
  <2> HIDE DEF du, dv
  <2>6. Dist(k, v) = Dist(k, u) + Needed - 1
    BY <2>3, <2>4, <2>5, SizesAre
  <2> QED
    BY <2>1, <2>2, <2>6 DEF u, v
<1>11. spoiled' = {}
  BY <1>2, <1>3
<1>12. /\ handler'.pc \in {"filter", "filter2", "check", "power"} =>
            /\ Apart(k, handler'.out, handler'.touched, late', Len(adc'.saadcQueue))
            /\ ~ (adc'.timer /\ handler'.out = adc'.filling)
       /\ handler'.pc = "compare" =>
            /\ \A j \in 1 .. 3 : Apart(k, handler'.used[j], handler'.touched, late', Len(adc'.saadcQueue))
            /\ Dist(k, handler'.used[3]) = Dist(k, handler'.used[1]) + Needed - 1
  BY <1>5, <1>9, <1>10 DEF touched2, wait2, m, full
<1> QED
  BY <1>5, <1>6, <1>11, <1>12 DEF HandlerInv, k

\* Without a handler there is nothing to be apart from.
LEMMA IdleHandles ==
  ASSUME NEW h, handler' \in Handlers, handler'.pc = "idle", spoiled' = {}, late' = 0
  PROVE  HandlerInv(h)'
BY SizesAre DEF HandlerInv

LEMMA ChangeQueues ==
  ASSUME Punctual, NEW h \in Bufs, DriverInv(h), HandlerInv(h), QueueInv(h), Samples!ChangeChannel
  PROVE  HandlerInv(h)' /\ QueueInv(h)'
<1> DEFINE W == sampling.queue
           l == Len(W)
           b == W[Len(W)]
<1>1. /\ handler.pc = "idle" /\ handler' = handler /\ late' = 0 /\ sampling' = sampling /\ spoiled' = spoiled
      /\ (adc.seq + SeqRange - sampling.last - 1) % SeqRange <= Behind
  BY DEF Samples!ChangeChannel, Samples!Step
<1>2. handler \in Handlers /\ spoiled = {} /\ late \in Nat /\ late <= Pause
  BY <1>1 DEF HandlerInv
<1>3. HandlerInv(h)'
  BY <1>1, <1>2, IdleHandles
<1>4. /\ adc'.change /\ adc'.saadcQueue = adc.saadcQueue /\ adc'.timer = adc.timer
      /\ adc'.seq = adc.seq /\ Len(adc.saadcQueue) = 2
  BY ChangeDrives
<1>5. sampling \in [queue : Seq(Bufs), last : Seqs]
  BY DEF QueueInv
<1>6. CASE W = <<>>
  BY <1>1, <1>3, <1>5, <1>6 DEF QueueInv
<1>7. CASE W # <<>>
  <2>1. PICK g \in Nat : /\ Waiting(h, b, sampling.last, adc.seq, g)
                         /\ Fresh(l, g, 2, adc.change, adc.timer, handler.pc, late)
    BY <1>4, <1>7 DEF QueueInv
  <2>2. Chain(W)
    BY <1>7 DEF QueueInv
  <2>3. l \in Nat /\ sampling.last \in Seqs
    BY <1>5
  <2>4. g <= NumBuffers - 1 + late
    BY <1>1, <2>1 DEF Fresh
  <2>5. g < SeqRange
    BY <1>2, <2>4, SizesAre DEF Punctual
  <2>6. (adc.seq + SeqRange - sampling.last - 1) % SeqRange = g
    BY <2>1, <2>3, <2>5, WaitingSays DEF Waiting
  <2>7. g <= Behind
    BY <1>1, <2>6
  <2> DEFINE held == Lesser(l - 1, Needed - 1)
  <2>8. held \in Int /\ held <= Needed - 1
    BY <2>3, SizesAre DEF Lesser
  <2> HIDE DEF held, l
  <2>9. g <= NumBuffers - 1 + 0 /\ g <= NumBuffers - 1 - 2 - held
    BY <2>7, <2>8, SizesAre DEF Punctual
  <2>10. Fresh(l, g, 2, adc'.change, adc'.timer, "idle", 0)
    BY <2>9 DEF Fresh, held
  <2> HIDE DEF b
  <2> QED
    BY <1>1, <1>3, <1>4, <1>5, <2>1, <2>2, <2>10 DEF QueueInv, b, l
<1> QED
  BY <1>6, <1>7

\* A restart gives two buffers to the SAADC, none of which will be compared.
LEMMA RestartQueues ==
  ASSUME NEW h \in Bufs, DriverInv(h), HandlerInv(h), QueueInv(h), Samples!HandleRestart
  PROVE  HandlerInv(h)' /\ QueueInv(h)'
<1> DEFINE W == sampling.queue
           l == Len(W)
           b == W[Len(W)]
           n == Len(adc.saadcQueue)
           m == Len(adc'.saadcQueue)
<1>1. handler.pc = "idle" /\ handler' = handler /\ late' = 0 /\ sampling' = sampling /\ spoiled' = spoiled
  BY DEF Samples!HandleRestart, Samples!Step
<1>2. handler \in Handlers /\ spoiled = {}
  BY DEF HandlerInv
<1>3. HandlerInv(h)'
  BY <1>1, <1>2, IdleHandles
<1>4. ~ adc.timer /\ ~ adc'.change /\ adc'.seq = adc.seq
  BY RestartDrives
<1>5. adc.saadcQueue = <<>> /\ adc.change
  BY <1>4 DEF DriverInv, RunsOn
<1>6. sampling \in [queue : Seq(Bufs), last : Seqs]
  BY DEF QueueInv
<1>7. CASE W = <<>>
  BY <1>1, <1>3, <1>6, <1>7 DEF QueueInv
<1>8. CASE W # <<>>
  <2>1. PICK g \in Nat : /\ Waiting(h, b, sampling.last, adc.seq, g)
                         /\ Fresh(l, g, n, adc.change, adc.timer, handler.pc, late)
    BY <1>8 DEF QueueInv
  <2>2. Chain(W)
    BY <1>8 DEF QueueInv
  <2>3. l \in Nat /\ l >= 1 /\ n = 0
    <3>1. W \in Seq(Bufs)
      BY <1>6
    <3> HIDE DEF W
    <3> QED
      BY <1>5, <1>8, <3>1
  <2> DEFINE held == Lesser(l - 1, Needed - 1)
  <2>4. g <= NumBuffers - 1 - n - held
    BY <1>1, <1>5, <2>1 DEF Fresh
  <2> HIDE DEF l, n, b
  <2>5. held \in Int /\ held >= 0
    BY <2>3, SizesAre DEF Lesser
  <2> HIDE DEF held
  <2>6. g <= NumBuffers - 1 + 0
    BY <2>3, <2>4, <2>5, SizesAre
  <2>7. Fresh(l, g, m, adc'.change, adc'.timer, "idle", 0)
    BY <1>4, <2>6 DEF Fresh
  <2> QED
    BY <1>1, <1>3, <1>4, <1>6, <2>1, <2>2, <2>7 DEF QueueInv, b, l
<1> QED
  BY <1>7, <1>8

\* The steps of a handler that change neither the driver nor the queue.
LEMMA FilterQueues ==
  ASSUME NEW h \in Bufs, DriverInv(h), HandlerInv(h), QueueInv(h),
         Samples!Filter("filter", "filter2") \/ Samples!Filter("filter2", "check") \/ Samples!CalculatePower
  PROVE  HandlerInv(h)' /\ QueueInv(h)'
<1> PICK pc \in {"filter2", "check", "look"} :
         /\ handler' = [handler EXCEPT !.pc = pc]
         /\ handler.pc \in IF pc = "look" THEN {"power"} ELSE {"filter", "filter2"}
  BY DEF Samples!Filter, Samples!CalculatePower, Samples!Step
<1>1. /\ late' = late /\ adc' = adc /\ sampling' = sampling
      /\ spoiled' \in {spoiled, IF handler.out \in handler.touched \/ (adc.timer /\ handler.out = adc.filling)
                                 THEN spoiled \union {handler.out} ELSE spoiled}
  <2>1. handler \in Handlers
    BY DEF HandlerInv
  <2> QED
    BY <2>1 DEF Samples!Filter, Samples!CalculatePower, Samples!Step, Handlers
<1>2. /\ handler \in Handlers /\ spoiled = {} /\ late \in Nat /\ late <= During
      /\ Apart(h, handler.out, handler.touched, late, Len(adc.saadcQueue))
      /\ ~ (adc.timer /\ handler.out = adc.filling)
  BY DEF HandlerInv
<1>3. /\ handler' \in Handlers /\ handler'.pc = pc /\ handler'.out = handler.out /\ handler'.touched = handler.touched
  BY <1>2 DEF Handlers
<1>4. handler.out \notin handler.touched
  BY <1>2 DEF Apart
<1>5. spoiled' = {}
  BY <1>1, <1>2, <1>4
<1>6. HandlerInv(h)'
  BY <1>1, <1>2, <1>3, <1>5 DEF HandlerInv
<1>7. QueueInv(h)'
  <2> DEFINE n == Len(adc.saadcQueue)
  <2>1. ASSUME NEW l, NEW g, Fresh(l, g, n, adc.change, adc.timer, handler.pc, late)
        PROVE  Fresh(l, g, n, adc.change, adc.timer, pc, late)
    BY <2>1 DEF Fresh
  <2> HIDE DEF n
  <2> QED
    BY <1>1, <1>3, <2>1 DEF QueueInv, n
<1> QED
  BY <1>6, <1>7

\* The end of a handler.
LEMMA EndQueues ==
  ASSUME NEW h \in Bufs, DriverInv(h), HandlerInv(h), QueueInv(h),
         handler.pc \in {"look", "compare"}, handler'.pc \in {"idle", "compare"},
         handler'.pc = "idle" => late' = 0, handler'.pc # "idle" => late' = late,
         adc' = adc, sampling' = sampling
  PROVE  QueueInv(h)'
<1> DEFINE W == sampling.queue
           l == Len(W)
           n == Len(adc.saadcQueue)
<1>1. sampling \in [queue : Seq(Bufs), last : Seqs] /\ late \in Nat
  BY DEF QueueInv, HandlerInv
<1>2. CASE W = <<>>
  BY <1>1, <1>2 DEF QueueInv
<1>3. CASE W # <<>>
  <2>1. l \in Nat /\ l >= 1
    <3>1. W \in Seq(Bufs)
      BY <1>1
    <3> HIDE DEF W
    <3> QED
      BY <1>3, <3>1
  <2>2. n \in Nat
    BY DEF DriverInv, Driver, AdcStates
  <2> HIDE DEF l, n
  <2>3. ASSUME NEW g \in Nat, Fresh(l, g, n, adc.change, adc.timer, handler.pc, late)
        PROVE  Fresh(l, g, n, adc.change, adc.timer, handler'.pc, late')
    <3> DEFINE base == IF handler.pc \in {"power", "look"} THEN Lesser(l - 1, Needed) ELSE 0
               wait == IF late = 0 /\ adc.timer THEN 1 ELSE 0
               held == Lesser(l - 1, Needed)
               held2 == Lesser(l - 1, IF handler'.pc = "idle" THEN Needed - 1 ELSE Needed)
    <3>1. base \in Nat /\ wait \in Nat /\ held \in Nat /\ held2 \in Nat /\ held2 <= held
      BY <2>1, SizesAre DEF Lesser
    <3>2. g <= NumBuffers - 1 - base - wait
      BY <2>3 DEF Fresh
    <3>3. adc.change => g <= NumBuffers - 1 - n - held
      BY <2>3 DEF Fresh
    <3> HIDE DEF base, held, held2
    <3>4. /\ g <= NumBuffers - 1 - 0 - wait /\ g <= NumBuffers - 1 + 0
          /\ adc.change => g <= NumBuffers - 1 - n - held2
      <4> HIDE DEF wait
      <4> QED
        BY <2>2, <3>1, <3>2, <3>3, SizesAre
    <3>5. CASE handler'.pc = "idle"
      BY <3>4, <3>5 DEF Fresh, held2
    <3>6. CASE handler'.pc = "compare"
      <4>1. handler'.pc \notin {"power", "look"} /\ handler'.pc # "idle" /\ late' = late
        BY <3>6
      <4> QED
        BY <3>4, <4>1 DEF Fresh, held2
    <3> QED
      BY <3>5, <3>6
  <2>4. PICK g \in Nat : /\ Waiting(h, W[Len(W)], sampling.last, adc.seq, g)
                         /\ Fresh(l, g, n, adc.change, adc.timer, handler.pc, late)
    BY <1>3 DEF QueueInv, l, n
  <2>5. Chain(W)
    BY <1>3 DEF QueueInv
  <2>6. Fresh(l, g, n, adc'.change, adc'.timer, handler'.pc, late')
    BY <2>3, <2>4
  <2> QED
    BY <1>1, <2>4, <2>5, <2>6 DEF QueueInv, l, n
<1> QED
  BY <1>2, <1>3

LEMMA DetectQueues ==
  ASSUME NEW h \in Bufs, DriverInv(h), HandlerInv(h), QueueInv(h), NEW i \in 1 .. Needed - 2, Samples!Detect(i)
  PROVE  HandlerInv(h)' /\ QueueInv(h)'
<1> DEFINE W == sampling.queue
           l == Len(W)
           b == W[Len(W)]
           n == Len(adc.saadcQueue)
           used == <<W[Len(W) - Needed], W[Len(W) - Needed + i], W[Len(W) - 1]>>
           found == ~ (Len(W) < Needed + 1 \/ \E j \in 1 .. 3 : ~ buf[used[j]].valid)
           next == IF found THEN [Samples!Idle EXCEPT !.pc = "compare", !.used = used] ELSE Samples!Idle
<1>1. /\ handler.pc = "look" /\ handler' = next
      /\ late' = IF next.pc = "idle" THEN 0 ELSE late
      /\ adc' = adc /\ buf' = buf /\ sampling' = sampling /\ spoiled' = spoiled
  BY DEF Samples!Detect, Samples!Step
<1>2. handler \in Handlers /\ spoiled = {} /\ late \in Nat /\ late <= During
  BY <1>1 DEF HandlerInv
<1>3. sampling \in [queue : Seq(Bufs), last : Seqs] /\ n \in Nat /\ 0 \in Bufs
  BY SizesAre DEF QueueInv, DriverInv, Driver, AdcStates, Bufs
<1>4. CASE ~ found
  <2>1. handler' = Samples!Idle /\ handler'.pc = "idle" /\ late' = 0
    BY <1>1, <1>4 DEF Samples!Idle
  <2>2. handler' \in Handlers
    BY <1>3, <2>1 DEF Handlers, Samples!Idle
  <2>3. HandlerInv(h)'
    BY <1>1, <1>2, <2>1, <2>2, IdleHandles
  <2>4. QueueInv(h)'
    BY <1>1, <2>1, EndQueues
  <2> QED
    BY <2>3, <2>4
<1>5. CASE found
  <2>1. /\ handler' = [pc |-> "compare", out |-> 0, used |-> used, touched |-> {}]
        /\ late' = late /\ handler'.pc = "compare" /\ handler'.touched = {} /\ handler'.used = used
    BY <1>1, <1>5 DEF Samples!Idle
  <2>2. QueueInv(h)'
    BY <1>1, <2>1, EndQueues
  <2>3. W \in Seq(Bufs) /\ W # <<>> /\ l \in Nat /\ l >= Needed + 1
    <3>1. W \in Seq(Bufs) /\ l \in Nat /\ ~ l < Needed + 1
      BY <1>3, <1>5
    <3> HIDE DEF W
    <3>2. l >= Needed + 1 /\ l >= 1
      BY <3>1, SizesAre
    <3> QED
      BY <3>1, <3>2
  <2>4. \A j \in 1 .. 3 : buf[used[j]].valid
    BY <1>5
  <2>5. \A j \in 1 .. 3 : used[j] \in Bufs
    <3>1. l - Needed \in 1 .. l /\ l - Needed + i \in 1 .. l /\ l - 1 \in 1 .. l
      <4> HIDE DEF l
      <4> QED
        BY <2>3, SizesAre
    <3> DEFINE u == W[Len(W) - Needed]
               v == W[Len(W) - Needed + i]
               w == W[Len(W) - 1]
    <3>2. u \in Bufs /\ v \in Bufs /\ w \in Bufs
      <4> HIDE DEF W
      <4> QED
        BY <2>3, <3>1
    <3> HIDE DEF u, v, w
    <3>3. used = <<u, v, w>>
      BY DEF u, v, w
    <3> HIDE DEF used
    <3> QED
      BY <3>2, <3>3
  <2>6. PICK g \in Nat : /\ Waiting(h, b, sampling.last, adc.seq, g)
                         /\ Fresh(l, g, n, adc.change, adc.timer, handler.pc, late)
    BY <2>3 DEF QueueInv
  <2>7. Chain(W)
    BY <2>3 DEF QueueInv
  <2>8. Dist(h, used[3]) = Dist(h, used[1]) + Needed - 1
    <3> DEFINE d == Dist(h, b)
    <3>1. g <= NumBuffers - 1 - Needed
      <4>1. Lesser(l - 1, Needed) = Needed
        <5> HIDE DEF l
        <5> QED
          BY <2>3, SizesAre DEF Lesser
      <4> DEFINE wait == IF late = 0 /\ adc.timer THEN 1 ELSE 0
      <4>2. g <= NumBuffers - 1 - Needed - wait
        BY <1>1, <2>6, <4>1 DEF Fresh
      <4>3. wait \in Nat
        OBVIOUS
      <4> HIDE DEF wait
      <4> QED
        BY <4>2, <4>3, SizesAre
    <3>2. b \in Bufs
      <4> HIDE DEF W
      <4> QED
        BY <2>3
    <3> HIDE DEF b
    <3>3. d \in 0 .. NumBuffers - 1 /\ d >= Needed
      <4>1. d = NumBuffers - 1 - g /\ d \in 0 .. NumBuffers - 1
        BY <2>6, <3>1, <3>2, SizesAre, RingIs DEF Waiting
      <4> HIDE DEF d
      <4> QED
        BY <3>1, <4>1, SizesAre
    <3>4. used[3] = Back(b, 1) /\ used[1] = Back(b, Needed)
      <4>1. 1 \in 0 .. l - 1 /\ Needed \in 0 .. l - 1
        <5> HIDE DEF l
        <5> QED
          BY <2>3, SizesAre
      <4>2. W[Len(W) - 1] = Back(b, 1) /\ W[Len(W) - Needed] = Back(b, Needed)
        BY <2>7, <4>1, Zenon DEF Chain, b
      <4> QED
        BY <4>2
    <3>5. 1 \in 0 .. NumBuffers - 1 /\ Needed \in 0 .. NumBuffers - 1 /\ 1 <= d /\ Needed <= d
      <4> HIDE DEF d
      <4> QED
        BY <3>3, SizesAre
    <3>6. Dist(h, Back(b, 1)) = d - 1 /\ Dist(h, Back(b, Needed)) = d - Needed
      BY <3>2, <3>5, BackIs
    <3> HIDE DEF d, used
    <3> QED
      BY <3>3, <3>4, <3>6, SizesAre
  <2>9. ASSUME NEW j \in 1 .. 3 PROVE Apart(h, used[j], {}, late, n)
    <3> DEFINE u == used[j]
    <3>1. u \in Bufs /\ buf[u].valid
      BY <2>4, <2>5
    <3> HIDE DEF u, n
    <3>2. Dist(h, u) >= n
      BY <3>1 DEF DriverInv, Driver, Aged, n
    <3>3. Apart(h, u, {}, late, n)
      BY <3>1, <3>2 DEF Apart
    <3> QED
      BY <3>3 DEF u
  <2>10. handler' \in Handlers
    <3>1. used \in Seq(Bufs)
      <4> DEFINE u == W[Len(W) - Needed]
                 v == W[Len(W) - Needed + i]
                 w == W[Len(W) - 1]
      <4>1. u \in Bufs /\ v \in Bufs /\ w \in Bufs
        BY <2>5
      <4> HIDE DEF u, v, w
      <4>2. <<u, v, w>> \in Seq(Bufs)
        BY <4>1
      <4> QED
        BY <4>2 DEF u, v, w
    <3> HIDE DEF used
    <3> QED
      BY <1>3, <2>1, <3>1 DEF Handlers
  <2> HIDE DEF used, next, found
  <2>11. HandlerInv(h)'
    BY <1>1, <1>2, <2>1, <2>8, <2>9, <2>10 DEF HandlerInv, n
  <2> QED
    BY <2>2, <2>11
<1> QED
  BY <1>4, <1>5

LEMMA DetectedQueues ==
  ASSUME NEW h \in Bufs, DriverInv(h), HandlerInv(h), QueueInv(h), Samples!Detected
  PROVE  HandlerInv(h)' /\ QueueInv(h)'
<1>1. /\ handler.pc = "compare" /\ handler' = Samples!Idle /\ handler'.pc = "idle" /\ late' = 0
      /\ adc' = adc /\ sampling' = sampling /\ spoiled' = spoiled
  BY DEF Samples!Detected, Samples!Step, Samples!Idle
<1>2. spoiled = {}
  BY DEF HandlerInv
<1>3. handler' \in Handlers
  BY <1>1, SizesAre DEF Handlers, Samples!Idle, Bufs
<1>4. HandlerInv(h)'
  BY <1>1, <1>2, <1>3, IdleHandles
<1>5. QueueInv(h)'
  BY <1>1, EndQueues
<1> QED
  BY <1>4, <1>5

\* What is left of the queue is its end, with valid buffers only.
LEMMA RemoveIs ==
  ASSUME NEW W \in Seq(Bufs), NEW R, R = Samples!RemoveInvalidBufs(W)
  PROVE  /\ R \in Seq(Bufs) /\ \A i \in 1 .. Len(R) : buf[R[i]].valid
         /\ \E m \in 0 .. Len(W) : Len(R) = Len(W) - m /\ \A i \in 1 .. Len(R) : R[i] = W[i + m]
<1> DEFINE invalid == {i \in DOMAIN W : ~ buf[W[i]].valid}
           IsLast(m) == m \in invalid \union {0} /\ \A i \in invalid : i <= m
           m == CHOOSE x \in invalid \union {0} : \A i \in invalid : i <= x
           L == Len(W)
<1>1. L \in Nat /\ DOMAIN W = 1 .. L /\ invalid \in SUBSET (1 .. L)
  OBVIOUS
<1>2. \E x \in invalid \union {0} : \A i \in invalid : i <= x
  <2>1. CASE invalid = {}
    BY <2>1
  <2>2. CASE invalid # {}
    <3> HIDE DEF invalid, L
    <3>1. \E x \in invalid : \A i \in invalid : i <= x
      BY <1>1, <2>2, Greatest
    <3> QED
      BY <3>1
  <2> QED
    BY <2>1, <2>2
<1>3. m \in invalid \union {0} /\ \A i \in invalid : i <= m
  <2> HIDE DEF invalid
  <2> QED
    BY <1>2
<1>4. R = SubSeq(W, 1 + m, L)
  BY DEF Samples!RemoveInvalidBufs
<1>5. \A i \in 1 .. L : i \in invalid \/ buf[W[i]].valid
  BY <1>1
<1> HIDE DEF m, invalid
<1>6. m \in 0 .. L
  BY <1>1, <1>3
<1>7. \A i \in 1 + m .. L : W[i] \in Bufs
  BY <1>1, <1>6
<1> DEFINE a == 1 + m
<1>8. a \in Int /\ L \in Int /\ \A i \in a .. L : W[i] \in Bufs
  BY <1>1, <1>6, <1>7
<1> HIDE DEF a, L
<1>9. /\ SubSeq(W, a, L) \in Seq(Bufs)
      /\ Len(SubSeq(W, a, L)) = IF a <= L THEN L - a + 1 ELSE 0
      /\ \A i \in 1 .. L - a + 1 : SubSeq(W, a, L)[i] = W[a + i - 1]
  BY <1>8, SubSeqProperties
<1>10. /\ R = SubSeq(W, a, L)
  BY <1>4 DEF a
<1>11. R \in Seq(Bufs) /\ Len(R) = L - m
  BY <1>1, <1>6, <1>9, <1>10 DEF a
<1>12. ASSUME NEW i \in 1 .. Len(R) PROVE R[i] = W[i + m] /\ buf[R[i]].valid
  <2>1. i \in 1 .. L - a + 1 /\ a + i - 1 = i + m /\ i + m \in 1 .. L /\ i + m > m
    BY <1>1, <1>6, <1>11 DEF a
  <2>2. R[i] = W[i + m]
    BY <1>9, <1>10, <2>1
  <2>3. i + m \notin invalid
    BY <1>3, <1>6, <2>1
  <2> QED
    BY <1>5, <2>1, <2>2, <2>3
<1> QED
  BY <1>6, <1>11, <1>12 DEF L

\* All up to the newest that is not valid are removed, and the rest is a chain.
LEMMA CheckQueues ==
  ASSUME NEW h \in Bufs, DriverInv(h), HandlerInv(h), QueueInv(h), Samples!CheckFiltered
  PROVE  HandlerInv(h)' /\ QueueInv(h)'
<1> DEFINE W == sampling.queue
           R == Samples!RemoveInvalidBufs(W)
           n == Len(adc.saadcQueue)
<1>1. /\ handler.pc = "check" /\ adc' = adc /\ spoiled' = spoiled
      /\ IF buf[handler.out].valid
         THEN /\ sampling' = [sampling EXCEPT !.queue = R]
              /\ handler' = [handler EXCEPT !.pc = "power"]
              /\ late' = IF handler'.pc = "idle" THEN 0 ELSE late
         ELSE /\ sampling' = [sampling EXCEPT !.queue = <<>>]
              /\ handler' = Samples!Idle /\ late' = 0
  BY DEF Samples!CheckFiltered, Samples!Step, Samples!Idle
<1>2. /\ handler \in Handlers /\ spoiled = {} /\ late \in Nat /\ late <= During
      /\ Apart(h, handler.out, handler.touched, late, n)
      /\ ~ (adc.timer /\ handler.out = adc.filling)
  BY <1>1 DEF HandlerInv
<1>3. sampling \in [queue : Seq(Bufs), last : Seqs] /\ W \in Seq(Bufs) /\ n \in Nat
  BY DEF QueueInv, DriverInv, Driver, AdcStates
<1>4. CASE ~ buf[handler.out].valid
  <2>1. handler' = Samples!Idle /\ late' = 0 /\ sampling' = [sampling EXCEPT !.queue = <<>>]
    BY <1>1, <1>4
  <2>2. handler' \in Handlers /\ handler'.pc = "idle"
    BY <2>1, SizesAre DEF Handlers, Samples!Idle, Bufs
  <2>3. HandlerInv(h)'
    BY <1>1, <1>2, <2>1, <2>2, IdleHandles
  <2>4. sampling' \in [queue : Seq(Bufs), last : Seqs] /\ sampling'.queue = <<>>
    <3>1. <<>> \in Seq(Bufs)
      OBVIOUS
    <3> HIDE DEF W
    <3> QED
      BY <1>3, <2>1, <3>1
  <2> QED
    BY <2>3, <2>4 DEF QueueInv
<1>5. CASE buf[handler.out].valid
  <2>1. /\ handler' \in Handlers /\ handler'.pc = "power" /\ handler'.out = handler.out
        /\ handler'.touched = handler.touched /\ late' = late
    BY <1>1, <1>2, <1>5 DEF Handlers
  <2>2. HandlerInv(h)'
    BY <1>1, <1>2, <2>1 DEF HandlerInv
  <2> DEFINE l == Len(R)
             L == Len(W)
             b == W[Len(W)]
  <2> HIDE DEF R
  <2>3. /\ R \in Seq(Bufs) /\ \A i \in 1 .. Len(R) : buf[R[i]].valid
        /\ \E m \in 0 .. Len(W) : Len(R) = Len(W) - m /\ \A i \in 1 .. Len(R) : R[i] = W[i + m]
    <3> HIDE DEF W
    <3>1. R = Samples!RemoveInvalidBufs(W)
      BY DEF R
    <3> QED
      BY <1>3, <3>1, RemoveIs
  <2>4. sampling' \in [queue : Seq(Bufs), last : Seqs] /\ sampling'.queue = R /\ sampling'.last = sampling.last
    BY <1>1, <1>3, <1>5, <2>3
  <2>5. CASE R = <<>>
    BY <2>2, <2>4, <2>5 DEF QueueInv
  <2>6. CASE R # <<>>
    <3> HIDE DEF W
    <3>1. PICK m \in 0 .. Len(W) : Len(R) = Len(W) - m /\ \A i \in 1 .. Len(R) : R[i] = W[i + m]
      BY <2>3
    <3>2. l \in Nat /\ L \in Nat /\ l >= 1 /\ L = l + m /\ m \in Nat /\ W # <<>>
      <4>1. l \in Nat /\ l # 0 /\ L \in Nat
        BY <1>3, <2>3, <2>6
      <4>2. l = L - m /\ m \in 0 .. L
        BY <3>1
      <4>3. W = <<>> => L = 0
        OBVIOUS
      <4> HIDE DEF l, L
      <4> QED
        BY <4>1, <4>2, <4>3
    <3>3. Chain(W)
      BY <3>2 DEF QueueInv, W
    <3>4. R[l] = b /\ \A i \in 0 .. l - 1 : R[l - i] = Back(b, i)
      <4>1. ASSUME NEW i \in 0 .. l - 1 PROVE R[l - i] = Back(b, i)
        <5> DEFINE j == l - i
        <5>1. j \in 1 .. l /\ i \in 0 .. L - 1 /\ j + m = L - i
          <6> HIDE DEF l, L
          <6> QED
            BY <3>2
        <5> HIDE DEF j
        <5>2. R[j] = W[j + m]
          BY <3>1, <5>1
        <5>3. W[L - i] = Back(b, i)
          BY <3>3, <5>1 DEF Chain
        <5> QED
          BY <5>1, <5>2, <5>3 DEF j
      <4>2. l \in 1 .. Len(R) /\ l + m = L
        <5> HIDE DEF L
        <5>1. l \in 1 .. l
          <6> HIDE DEF l
          <6> QED
            BY <3>2
        <5> QED
          BY <3>2, <5>1
      <4>3. R[l] = W[l + m]
        BY <3>1, <4>2
      <4> HIDE DEF l
      <4> QED
        BY <4>1, <4>2, <4>3
    <3>5. Chain(R)
      <4>1. l <= NumBuffers
        <5>1. L <= NumBuffers
          BY <3>3 DEF Chain
        <5> HIDE DEF l, L
        <5> QED
          BY <3>2, <5>1, SizesAre
      <4> QED
        BY <2>3, <3>4, <4>1 DEF Chain
    <3>6. PICK g \in Nat : /\ Waiting(h, b, sampling.last, adc.seq, g)
                           /\ Fresh(L, g, n, adc.change, adc.timer, handler.pc, late)
      BY <3>2 DEF QueueInv, W
    <3> DEFINE d == Dist(h, b)
               wait == IF late = 0 /\ adc.timer THEN 1 ELSE 0
               base == Lesser(l - 1, Needed)
               held == Lesser(L - 1, Needed)
    <3>7. base \in Nat /\ base <= l - 1 /\ held \in Nat /\ base <= held
      <4> HIDE DEF l, L
      <4> QED
        BY <3>2, SizesAre DEF Lesser
    <3>8. /\ g <= NumBuffers - 1 - 0 - wait
          /\ adc.change => g <= NumBuffers - 1 - n - held
      BY <1>1, <3>6 DEF Fresh
    <3>9. b \in Bufs
      BY <1>3, <3>2
    <3>10. wait \in 0 .. 1
      OBVIOUS
    <3>11. d \in 0 .. NumBuffers - 1 /\ g = NumBuffers - 1 - d
      <4>1. d \in 0 .. NumBuffers - 1
        BY <3>9, RingIs
      <4> HIDE DEF wait
      <4>2. g < NumBuffers
        BY <3>8, <3>10, SizesAre
      <4>3. d = NumBuffers - 1 - g
        BY <3>6, <4>2 DEF Waiting
      <4> HIDE DEF d
      <4> QED
        BY <4>1, <4>3, SizesAre
    <3>12. ASSUME adc.timer PROVE d >= l
      <4> SUFFICES ASSUME d < l PROVE FALSE
        <5> HIDE DEF d, l
        <5> QED
          BY <3>2, <3>11
      <4>1. d \in 0 .. l - 1 /\ l - d \in 1 .. Len(R)
        <5>1. d \in 0 .. l - 1 /\ l - d \in 1 .. l
          <6> HIDE DEF d, l
          <6> QED
            BY <3>2, <3>11
        <5> QED
          BY <5>1
      <4> DEFINE u == R[l - d]
      <4>2. u = Back(b, d)
        BY <3>4, <4>1
      <4>3. Dist(h, Back(b, d)) = 0
        <5>1. d <= Dist(h, b) /\ Dist(h, b) - d = 0
          BY <3>11
        <5> HIDE DEF d
        <5> QED
          BY <3>9, <3>11, <5>1, BackIs
      <4>4. buf[u].valid
        BY <2>3, <4>1
      <4>5. u \in Bufs
        BY <2>3, <4>1
      <4>6. n >= 1
        <5>1. adc.saadcQueue # <<>> /\ adc.saadcQueue \in Seq(Bufs)
          BY <3>12 DEF DriverInv, Driver, RunsOn, AdcStates
        <5> QED
          BY <5>1
      <4> HIDE DEF u, d
      <4>7. Dist(h, u) >= n
        BY <4>4, <4>5 DEF DriverInv, Driver, Aged
      <4> QED
        BY <1>3, <4>2, <4>3, <4>6, <4>7
    <3>13. ~ adc.timer => adc.change /\ n = 0
      <4>1. ~ adc.timer => adc.change /\ adc.saadcQueue = <<>>
        BY DEF DriverInv, RunsOn
      <4> QED
        BY <4>1
    <3> HIDE DEF l, L, d, base, held, n
    <3>14. g <= NumBuffers - 1 - base - wait
      <4>1. CASE adc.timer
        <5>1. d >= l
          BY <3>12, <4>1
        <5> HIDE DEF wait
        <5> QED
          BY <3>2, <3>7, <3>10, <3>11, <5>1, SizesAre
      <4>2. CASE ~ adc.timer
        <5>1. wait = 0 /\ n = 0 /\ g <= NumBuffers - 1 - n - held
          BY <3>8, <3>13, <4>2
        <5> HIDE DEF wait
        <5> QED
          BY <3>7, <5>1, SizesAre
      <4> QED
        BY <4>1, <4>2
    <3>15. adc.change => g <= NumBuffers - 1 - n - base
      BY <1>3, <3>7, <3>8, SizesAre
    <3>16. Fresh(l, g, n, adc.change, adc.timer, "power", late)
      BY <3>14, <3>15 DEF Fresh, base
    <3> QED
      BY <1>1, <2>1, <2>2, <2>4, <3>4, <3>5, <3>6, <3>16 DEF QueueInv, l, n
  <2> QED
    BY <2>5, <2>6
<1> QED
  BY <1>4, <1>5

LEMMA AppendIs ==
  ASSUME NEW B, NEW q \in Seq(B), NEW x \in B, NEW r, r = Append(q, x)
  PROVE  r \in Seq(B) /\ Len(r) = Len(q) + 1 /\ r[Len(q) + 1] = x /\ \A i \in 1 .. Len(q) : r[i] = q[i]
OBVIOUS

\* One more buffer at the end of the chain, of which the first may have to leave.
LEMMA ChainGrows ==
  ASSUME NEW W, Chain(W), W # <<>>, NEW b \in Bufs, W[Len(W)] = Back(b, 1),
         NEW V, V = IF Len(W) = NumBuffers THEN Tail(W) ELSE W,
         NEW R, R = Append(V, b)
  PROVE  Chain(R) /\ R # <<>> /\ R[Len(R)] = b /\ Len(R) <= Len(W) + 1 /\ Len(R) \in Nat
<1> DEFINE L == Len(W)
           v == Len(V)
           m == L - v
<1>1. W \in Seq(Bufs) /\ L \in Nat /\ L <= NumBuffers /\ L >= 1
  <2>1. W \in Seq(Bufs) /\ L <= NumBuffers
    BY DEF Chain
  <2> QED
    BY <2>1
<1>2. /\ V \in Seq(Bufs) /\ v \in Nat /\ v < NumBuffers /\ m \in 0 .. 1 /\ L = v + m
      /\ \A i \in 1 .. v : V[i] = W[i + m]
  <2>1. CASE L = NumBuffers
    <3> DEFINE T == Tail(W)
    <3>1. T \in Seq(Bufs) /\ Len(T) = L - 1 /\ \A i \in 1 .. L - 1 : T[i] = W[i + 1]
      BY <1>1
    <3>2. V = T
      BY <2>1
    <3> HIDE DEF T, L
    <3>3. v = L - 1
      BY <3>1, <3>2
    <3> HIDE DEF v
    <3>4. v \in Nat /\ v < NumBuffers /\ m = 1 /\ L = v + m
      BY <1>1, <2>1, <3>3, SizesAre
    <3> HIDE DEF m
    <3>5. \A i \in 1 .. v : V[i] = W[i + m]
      BY <3>1, <3>2, <3>3, <3>4
    <3>6. m \in 0 .. 1
      BY <3>4
    <3> QED
      BY <3>1, <3>2, <3>4, <3>5, <3>6
  <2>2. CASE L # NumBuffers
    <3>1. V = W /\ v = L
      BY <2>2
    <3> HIDE DEF v, L
    <3>2. v \in Nat /\ v < NumBuffers /\ m = 0 /\ L = v + m
      BY <1>1, <2>2, <3>1, SizesAre
    <3>3. \A i \in 1 .. v : i + m = i
      BY <3>2
    <3> QED
      BY <1>1, <3>1, <3>2, <3>3
  <2> QED
    BY <2>1, <2>2
<1>4. R \in Seq(Bufs) /\ Len(R) = v + 1 /\ R[v + 1] = b /\ \A i \in 1 .. v : R[i] = V[i]
  <2>1. V \in Seq(Bufs)
    BY <1>2
  <2> QED
    BY <2>1, AppendIs
<1> HIDE DEF v, L, m
<1>5. ASSUME NEW i \in 0 .. Len(R) - 1 PROVE R[Len(R) - i] = Back(b, i)
  <2>1. CASE i = 0
    <3>1. Len(R) - i = v + 1
      BY <1>2, <1>4, <2>1
    <3>2. 0 \in 0 .. NumBuffers - 1
      BY SizesAre
    <3>3. Back(b, 0) = b
      BY <3>2, BackIs
    <3> QED
      BY <1>4, <2>1, <3>1, <3>3
  <2>2. CASE i # 0
    <3> DEFINE j == v + 1 - i
               e == i - 1
    <3>1. /\ j \in 1 .. v /\ j + m = L - e /\ e \in 0 .. L - 1 /\ Len(R) - i = j
          /\ i \in 0 .. NumBuffers - 1 /\ i >= 1
      <4> DEFINE r == Len(R)
      <4>1. r = v + 1 /\ i \in 0 .. r - 1 /\ i # 0
        BY <1>4, <2>2
      <4> HIDE DEF r
      <4>2. /\ j \in 1 .. v /\ j + m = L - e /\ e \in 0 .. L - 1 /\ r - i = j
            /\ i \in 0 .. NumBuffers - 1 /\ i >= 1
        BY <1>2, <4>1, SizesAre
      <4> QED
        BY <4>2 DEF r
    <3>2. Back(Back(b, 1), e) = Back(b, i)
      BY <3>1, BackIs
    <3> HIDE DEF j, e
    <3>3. R[j] = V[j] /\ V[j] = W[j + m]
      BY <1>2, <1>4, <3>1
    <3>4. W[L - e] = Back(W[L], e)
      BY <3>1 DEF Chain, L
    <3>5. W[L] = Back(b, 1)
      BY DEF L
    <3> QED
      BY <3>1, <3>2, <3>3, <3>4, <3>5
  <2> QED
    BY <2>1, <2>2
<1>6. Len(R) <= NumBuffers /\ Len(R) <= L + 1 /\ Len(R) \in Nat /\ Len(R) # 0
  BY <1>2, <1>4, SizesAre
<1>7. R # <<>> /\ R[Len(R)] = b
  BY <1>2, <1>4, <1>6
<1>8. Chain(R)
  <2>1. ASSUME NEW i \in 0 .. Len(R) - 1 PROVE R[Len(R) - i] = Back(R[Len(R)], i)
    BY <1>5, <1>7
  <2> QED
    BY <1>4, <1>6, <2>1 DEF Chain
<1> QED
  BY <1>6, <1>7, <1>8 DEF L

\* A buffer that is processed follows those before it, or they are forgotten.
LEMMA DoneQueues ==
  ASSUME Punctual, NEW h \in Bufs, DriverInv(h), HandlerInv(h), QueueInv(h), Samples!HandleAdcDone
  PROVE  HandlerInv(h)' /\ QueueInv(h)'
<1> DEFINE b == Head(scheduler).buffer
           W == sampling.queue
           Q == IF adc.first \/ ~ Samples!Consecutive(buf[b].seq, sampling.last) THEN <<>> ELSE W
           out == IF Q = <<>> THEN b ELSE Samples!Last(Q)
           fine == buf[b].valid /\ buf[out].valid
           R == Append(IF Len(Q) = NumBuffers THEN Tail(Q) ELSE Q, b)
           n == Len(adc.saadcQueue)
           next == buf[b].seq
           d == Dist(h, b)
           g2 == NumBuffers - 1 - d
<1>1. /\ handler.pc = "idle" /\ spoiled' = spoiled /\ buf' = buf
      /\ sampling' = [queue |-> IF ~ fine THEN <<>> ELSE R, last |-> next]
      /\ handler' = IF fine THEN [Samples!Idle EXCEPT !.pc = "filter", !.out = out] ELSE Samples!Idle
      /\ late' = 0
  BY DEF Samples!HandleAdcDone, Samples!Step
<1>2. handler \in Handlers /\ spoiled = {} /\ late \in Nat /\ late <= Pause
  BY <1>1 DEF HandlerInv
<1>3. /\ adc'.change = adc.change /\ adc'.saadcQueue = adc.saadcQueue /\ adc'.timer = adc.timer
      /\ adc'.seq = adc.seq /\ adc'.filling = adc.filling /\ b \in Bufs
  BY DoneDrives DEF Calls
<1>4. /\ sampling \in [queue : Seq(Bufs), last : Seqs] /\ W \in Seq(Bufs) /\ n \in Nat
      /\ buf \in BufStates /\ next \in Seqs /\ adc.seq \in Seqs
  BY <1>3 DEF QueueInv, DriverInv, Driver, AdcStates, BufStates
<1>5. CASE ~ fine
  <2>1. handler' = Samples!Idle /\ sampling' = [queue |-> <<>>, last |-> next]
    BY <1>1, <1>5
  <2>2. handler' \in Handlers /\ handler'.pc = "idle"
    BY <2>1, SizesAre DEF Handlers, Samples!Idle, Bufs
  <2>3. HandlerInv(h)'
    BY <1>1, <1>2, <2>2, IdleHandles
  <2>4. sampling' \in [queue : Seq(Bufs), last : Seqs] /\ sampling'.queue = <<>>
    <3>1. <<>> \in Seq(Bufs)
      OBVIOUS
    <3> HIDE DEF next
    <3> QED
      BY <1>4, <2>1, <3>1
  <2> QED
    BY <2>3, <2>4 DEF QueueInv
<1>6. CASE fine
  <2>1. sampling' = [queue |-> R, last |-> next] /\ buf[b].valid /\ buf[out].valid
    BY <1>1, <1>6
  <2>2. /\ handler' = [pc |-> "filter", out |-> out, used |-> <<>>, touched |-> {}]
        /\ handler'.pc = "filter" /\ handler'.out = out /\ handler'.touched = {}
    BY <1>1, <1>6 DEF Samples!Idle
  <2>3. out \in Bufs
    <3>1. CASE Q = <<>>
      BY <1>3, <3>1
    <3>2. CASE Q # <<>>
      <4>1. Q = W /\ W # <<>> /\ out = W[Len(W)]
        BY <3>2 DEF Samples!Last
      <4> HIDE DEF W
      <4> QED
        BY <1>4, <4>1
    <3> QED
      BY <3>1, <3>2
  <2>4. Dist(h, out) >= n /\ d >= n
    <3> HIDE DEF out, b, n
    <3> QED
      BY <1>3, <2>1, <2>3 DEF DriverInv, Driver, Aged, n
  <2>5. adc.timer => n >= 1 /\ adc.filling = h
    <3> SUFFICES ASSUME adc.timer PROVE n >= 1 /\ adc.filling = h
      OBVIOUS
    <3>1. adc.saadcQueue # <<>> /\ adc.saadcQueue \in Seq(Bufs) /\ adc.filling = h
      BY DEF DriverInv, Driver, RunsOn, AdcStates
    <3> QED
      BY <3>1
  <2>6. ~ (adc.timer /\ out = adc.filling)
    <3> SUFFICES ASSUME adc.timer, out = adc.filling PROVE FALSE
      OBVIOUS
    <3>1. Dist(h, h) = 0
      BY RingIs
    <3> HIDE DEF out, n
    <3> QED
      BY <1>4, <2>4, <2>5, <3>1
  <2>7. handler' \in Handlers
    <3>1. <<>> \in Seq(Bufs)
      OBVIOUS
    <3> HIDE DEF out
    <3> QED
      BY <2>2, <2>3, <3>1 DEF Handlers
  <2>8. HandlerInv(h)'
    <3>1. Apart(h, out, {}, 0, n)
      BY <2>3, <2>4 DEF Apart
    <3>2. late' = 0 /\ 0 \in Nat /\ 0 <= During /\ spoiled' = {}
      BY <1>1, <1>2, SizesAre
    <3> HIDE DEF out
    <3>3. Apart(h, handler'.out, handler'.touched, late', Len(adc'.saadcQueue))
      BY <1>3, <2>2, <3>1, <3>2
    <3>4. ~ (adc'.timer /\ handler'.out = adc'.filling)
      BY <1>3, <2>2, <2>6
    <3> QED
      BY <2>2, <2>7, <3>2, <3>3, <3>4 DEF HandlerInv
  <2>9. d \in 0 .. NumBuffers - 1 /\ g2 \in Nat /\ NumBuffers - d = 1 + g2 /\ g2 < NumBuffers
    <3>1. d \in 0 .. NumBuffers - 1
      BY <1>3, RingIs
    <3> HIDE DEF d
    <3> QED
      BY <3>1, SizesAre
  <2>10. adc.seq = (next + 1 + g2) % SeqRange
    <3>1. adc.seq = (next + (NumBuffers - d)) % SeqRange
      <4> HIDE DEF b
      <4> QED
        BY <1>3, <2>1 DEF DriverInv, Driver, Aged
    <3>2. next + (NumBuffers - d) = next + 1 + g2
      <4>1. next \in Int
        BY <1>4 DEF Seqs
      <4> HIDE DEF next, d, g2
      <4> QED
        BY <2>9, <4>1
    <3> HIDE DEF next, d, g2
    <3> QED
      BY <3>1, <3>2
  <2>11. Waiting(h, b, next, adc.seq, g2)
    <3>1. d = NumBuffers - 1 - g2
      <4> HIDE DEF d
      <4> QED
        BY <2>9, SizesAre
    <3> HIDE DEF next, g2, b
    <3> QED
      BY <2>9, <2>10, <3>1 DEF Waiting
  <2>12. /\ Chain(R) /\ R # <<>> /\ R[Len(R)] = b /\ Len(R) \in Nat
         /\ adc.change => g2 <= NumBuffers - 1 - n - Lesser(Len(R) - 1, Needed)
    <3>1. CASE Q = <<>>
      <4>1. R = <<b>>
        <5>1. Len(<<>>) # NumBuffers
          BY SizesAre
        <5> HIDE DEF Q, b
        <5>2. R = Append(<<>>, b)
          BY <3>1, <5>1
        <5> HIDE DEF R
        <5> QED
          BY <5>2
      <4> HIDE DEF R, Q
      <4>2. R \in Seq(Bufs) /\ Len(R) = 1 /\ R[1] = b /\ R # <<>>
        BY <1>3, <4>1
      <4>3. 0 \in 0 .. NumBuffers - 1
        BY SizesAre
      <4>4. Back(b, 0) = b
        BY <1>3, <4>3, BackIs
      <4>5. ASSUME NEW i \in 0 .. Len(R) - 1 PROVE R[Len(R) - i] = Back(R[Len(R)], i)
        <5>1. i = 0 /\ Len(R) - i = 1
          BY <4>2
        <5> QED
          BY <4>2, <4>4, <5>1
      <4>6. Chain(R)
        BY <4>2, <4>5, SizesAre DEF Chain
      <4>7. Lesser(Len(R) - 1, Needed) = 0
        BY <4>2, SizesAre DEF Lesser
      <4> HIDE DEF d, n
      <4>8. g2 <= NumBuffers - 1 - n - 0
        BY <1>4, <2>4, <2>9, SizesAre
      <4> QED
        BY <4>2, <4>6, <4>7, <4>8
    <3>2. CASE Q # <<>>
      <4> DEFINE c == W[Len(W)]
                 l == Len(W)
      <4>1. Q = W /\ W # <<>> /\ out = c /\ next = (sampling.last + 1) % SeqRange
        BY <3>2 DEF Samples!Last, Samples!Consecutive
      <4>2. Chain(W)
        BY <4>1 DEF QueueInv
      <4>3. PICK g \in Nat : /\ Waiting(h, c, sampling.last, adc.seq, g)
                             /\ Fresh(l, g, n, adc.change, adc.timer, handler.pc, late)
        BY <4>1 DEF QueueInv
      <4>4. l \in Nat /\ l >= 1
        <5> HIDE DEF W
        <5> QED
          BY <1>4, <4>1
      <4> DEFINE held == Lesser(l - 1, Needed - 1)
      <4>5. /\ g <= NumBuffers - 1 + late
            /\ adc.change => g <= NumBuffers - 1 - n - held
        BY <1>1, <4>3 DEF Fresh
      <4>6. g < SeqRange /\ g2 + 1 < SeqRange
        <5> HIDE DEF g2
        <5> QED
          BY <1>2, <2>9, <4>5, SizesAre DEF Punctual
      <4>7. g = g2 + 1
        <5> DEFINE final2 == sampling.last
                   seq2 == adc.seq
        <5>1. final2 \in Seqs /\ next = (final2 + 1) % SeqRange
          BY <1>4, <4>1
        <5>2. seq2 = (final2 + 1 + g) % SeqRange
          BY <4>3 DEF Waiting
        <5>3. seq2 = (next + 1 + g2) % SeqRange
          BY <2>10
        <5>4. g2 \in Nat
          BY <2>9
        <5> HIDE DEF next, g2, final2, seq2
        <5> QED
          BY <4>6, <5>1, <5>2, <5>3, <5>4, OneLess
      <4>8. held \in Nat
        <5> HIDE DEF l
        <5> QED
          BY <4>4, SizesAre DEF Lesser
      <4>9. g < NumBuffers
        <5>1. adc.change \/ n >= 1
          BY <2>5 DEF DriverInv, RunsOn
        <5> HIDE DEF d, n, held
        <5>2. CASE adc.change
          BY <1>4, <4>5, <4>8, <5>2, SizesAre
        <5>3. CASE n >= 1
          BY <1>4, <2>4, <2>9, <4>7, <5>3, SizesAre
        <5> QED
          BY <5>1, <5>2, <5>3
      <4>10. Dist(h, c) = d - 1
        <5>1. Dist(h, c) = NumBuffers - 1 - g
          BY <4>3, <4>9 DEF Waiting
        <5> HIDE DEF d, c
        <5> QED
          BY <2>9, <4>7, <5>1, SizesAre
      <4>11. c = Back(b, 1)
        <5>1. c \in Bufs
          BY <2>3, <4>1
        <5> HIDE DEF c, b
        <5> QED
          BY <1>3, <4>10, <5>1, BackOne DEF d
      <4> DEFINE V == IF Len(W) = NumBuffers THEN Tail(W) ELSE W
      <4>12. R = Append(V, b) /\ V = IF Len(W) = NumBuffers THEN Tail(W) ELSE W
        BY <4>1
      <4> HIDE DEF R, W, V, b
      <4>13. Chain(R) /\ R # <<>> /\ R[Len(R)] = b /\ Len(R) <= Len(W) + 1 /\ Len(R) \in Nat
        <5>1. b \in Bufs /\ Chain(W) /\ W # <<>> /\ W[Len(W)] = Back(b, 1)
          BY <1>3, <4>1, <4>2, <4>11
        <5> QED
          BY <4>12, <5>1, ChainGrows
      <4> DEFINE r == Len(R)
                 held2 == Lesser(r - 1, Needed)
      <4>14. held2 \in Int /\ held2 <= held + 1
        <5>1. r <= l + 1 /\ r \in Nat
          BY <4>13
        <5> HIDE DEF r, l
        <5> QED
          BY <4>4, <5>1, SizesAre DEF Lesser
      <4> HIDE DEF held, held2, r, l, n, d, g2
      <4>15. adc.change => g2 <= NumBuffers - 1 - n - held2
        BY <1>4, <2>9, <4>5, <4>7, <4>8, <4>14, SizesAre
      <4> QED
        BY <4>13, <4>15 DEF held2, r
    <3> QED
      BY <3>1, <3>2
  <2> HIDE DEF R
  <2>13. Fresh(Len(R), g2, n, adc.change, adc.timer, "filter", 0)
    <3> DEFINE wait == IF 0 = 0 /\ adc.timer THEN 1 ELSE 0
    <3>1. g2 <= NumBuffers - 1 - 0 - wait
      <4>1. wait \in 0 .. 1 /\ (wait = 1 => n >= 1)
        BY <2>5
      <4> HIDE DEF wait, n, d
      <4> QED
        BY <1>4, <2>4, <2>9, <4>1, SizesAre
    <3> HIDE DEF n, g2
    <3> QED
      BY <2>12, <3>1 DEF Fresh
  <2>14. sampling' \in [queue : Seq(Bufs), last : Seqs] /\ sampling'.queue = R /\ sampling'.last = next
    <3>1. R \in Seq(Bufs)
      BY <2>12 DEF Chain
    <3> HIDE DEF next
    <3> QED
      BY <1>4, <2>1, <3>1
  <2> HIDE DEF b, next, g2
  <2>15. QueueInv(h)'
    BY <1>1, <1>3, <2>2, <2>9, <2>11, <2>12, <2>13, <2>14 DEF QueueInv, n
  <2> QED
    BY <2>8, <2>15
<1> QED
  BY <1>5, <1>6

\* The driver, whatever the main loop does and how late.
LEMMA DriverNext ==
  ASSUME NEW h \in Bufs, DriverInv(h), Samples!Next \/ UNCHANGED sampleVars
  PROVE  \E k \in Bufs : DriverInv(k)'
<1>1. CASE Samples!HandleAdcInterrupt
  BY <1>1, InterruptDrives
<1>2. CASE Samples!ChangeChannel
  BY <1>2, ChangeDrives
<1>3. CASE Samples!HandleRestart
  BY <1>3, RestartDrives
<1>4. CASE Samples!HandleAdcDone
  BY <1>4, DoneDrives
<1>5. CASE UNCHANGED <<adc, buf, scheduler>>
  BY <1>5 DEF DriverInv
<1>6. Samples!Filter("filter", "filter2") \/ Samples!Filter("filter2", "check") => UNCHANGED <<adc, buf, scheduler>>
  BY DEF Samples!Filter
<1>7. Samples!CheckFiltered \/ Samples!CalculatePower \/ Samples!Detected => UNCHANGED <<adc, buf, scheduler>>
  BY DEF Samples!CheckFiltered, Samples!CalculatePower, Samples!Detected
<1>8. \A i \in 1 .. Needed - 2 : Samples!Detect(i) => UNCHANGED <<adc, buf, scheduler>>
  BY DEF Samples!Detect
<1> QED
  BY <1>1, <1>2, <1>3, <1>4, <1>5, <1>6, <1>7, <1>8 DEF Samples!Next, Samples!MainLoop, sampleVars

-----------------------------------------------------------------------------
(* The whole.                                                              *)

SamplesInv(h) == DriverInv(h) /\ HandlerInv(h) /\ QueueInv(h)

LEMMA SamplesInit ==
  ASSUME Samples!Init PROVE 0 \in Bufs /\ SamplesInv(0)
<1>1. 0 \in Bufs /\ 0 \in Seqs
  BY SizesAre DEF Bufs, Seqs
<1>2. DriverInv(0)
  BY DriverInit
<1>3. sampling = [queue |-> <<>>, last |-> 0] /\ handler = Samples!Idle /\ spoiled = {} /\ late = 0
  BY DEF Samples!Init
<1>4. <<>> \in Seq(Bufs)
  OBVIOUS
<1>5. QueueInv(0)
  BY <1>1, <1>3, <1>4 DEF QueueInv
<1>6. handler \in Handlers /\ handler.pc = "idle"
  BY <1>1, <1>3, <1>4 DEF Samples!Idle, Handlers
<1>7. HandlerInv(0)
  BY <1>3, <1>6, SizesAre DEF HandlerInv
<1> QED
  BY <1>1, <1>2, <1>5, <1>7 DEF SamplesInv

LEMMA SamplesNext ==
  ASSUME Punctual, NEW h \in Bufs, SamplesInv(h), Samples!Next \/ UNCHANGED sampleVars
  PROVE  \E k \in Bufs : SamplesInv(k)'
<1>1. DriverInv(h) /\ HandlerInv(h) /\ QueueInv(h)
  BY DEF SamplesInv
<1>2. CASE Samples!HandleAdcInterrupt
  BY <1>1, <1>2, InterruptDrives, InterruptHandles, InterruptQueues DEF SamplesInv
<1>3. CASE Samples!ChangeChannel
  BY <1>1, <1>3, ChangeDrives, ChangeQueues DEF SamplesInv
<1>4. CASE Samples!HandleRestart
  BY <1>1, <1>4, RestartDrives, RestartQueues DEF SamplesInv
<1>5. CASE Samples!HandleAdcDone
  BY <1>1, <1>5, DoneDrives, DoneQueues DEF SamplesInv
<1>6. CASE UNCHANGED <<adc, buf, scheduler>> /\ HandlerInv(h)' /\ QueueInv(h)'
  BY <1>1, <1>6 DEF SamplesInv, DriverInv
<1>7. CASE Samples!Filter("filter", "filter2") \/ Samples!Filter("filter2", "check") \/ Samples!CalculatePower
  <2>1. UNCHANGED <<adc, buf, scheduler>>
    BY <1>7 DEF Samples!Filter, Samples!CalculatePower
  <2> QED
    BY <1>1, <1>6, <1>7, <2>1, FilterQueues
<1>8. CASE Samples!CheckFiltered
  <2>1. UNCHANGED <<adc, buf, scheduler>>
    BY <1>8 DEF Samples!CheckFiltered
  <2> QED
    BY <1>1, <1>6, <1>8, <2>1, CheckQueues
<1>9. CASE Samples!Detected
  <2>1. UNCHANGED <<adc, buf, scheduler>>
    BY <1>9 DEF Samples!Detected
  <2> QED
    BY <1>1, <1>6, <1>9, <2>1, DetectedQueues
<1>10. ASSUME NEW i \in 1 .. Needed - 2, Samples!Detect(i) PROVE \E k \in Bufs : SamplesInv(k)'
  <2>1. UNCHANGED <<adc, buf, scheduler>>
    BY <1>10 DEF Samples!Detect
  <2> QED
    BY <1>1, <1>6, <1>10, <2>1, DetectQueues
<1>11. CASE UNCHANGED sampleVars
  BY <1>1, <1>11 DEF sampleVars, SamplesInv, DriverInv, HandlerInv, QueueInv
<1> QED
  BY <1>2, <1>3, <1>4, <1>5, <1>7, <1>8, <1>9, <1>10, <1>11 DEF Samples!Next, Samples!MainLoop

\* The invariant says what SamplingIsReal says.
LEMMA SamplesHold ==
  ASSUME NEW h \in Bufs, SamplesInv(h)
  PROVE  /\ Samples!DriverKnowsBuffers /\ Samples!SamplingGoesOn
         /\ Samples!PowerIsReal /\ Samples!DetectionIsReal
<1>1. DriverInv(h) /\ HandlerInv(h)
  BY DEF SamplesInv
<1>2. Samples!DriverKnowsBuffers /\ Samples!SamplingGoesOn
  BY <1>1, DriverHolds
<1>3. Samples!PowerIsReal
  BY <1>1 DEF Samples!PowerIsReal, HandlerInv, Apart
<1>4. Samples!DetectionIsReal
  <2> SUFFICES ASSUME handler.pc = "compare", \A j \in 1 .. 3 : buf[handler.used[j]].valid
               PROVE  /\ \A j \in 1 .. 3 : handler.used[j] \notin handler.touched \union spoiled
                      /\ buf[handler.used[3]].seq = (buf[handler.used[1]].seq + Needed - 1) % SeqRange
    BY DEF Samples!DetectionIsReal
  <2>1. /\ \A j \in 1 .. 3 : handler.used[j] \in Bufs /\ handler.used[j] \notin handler.touched
        /\ spoiled = {} /\ Dist(h, handler.used[3]) = Dist(h, handler.used[1]) + Needed - 1
    BY <1>1 DEF HandlerInv, Apart
  <2> DEFINE u == handler.used[1]
             v == handler.used[3]
             x == buf[v].seq
             y == buf[u].seq
             z == NumBuffers - Dist(h, v)
             t == y + Needed - 1
  <2>2. u \in Bufs /\ v \in Bufs /\ buf[u].valid /\ buf[v].valid /\ Dist(h, v) = Dist(h, u) + Needed - 1
    BY <2>1
  <2> HIDE DEF u, v
  <2>3. x \in Seqs /\ y \in Seqs
    BY <1>1, <2>2 DEF DriverInv, Driver, BufStates
  <2>4. /\ adc.seq = (x + (NumBuffers - Dist(h, v))) % SeqRange
        /\ adc.seq = (y + (NumBuffers - Dist(h, u))) % SeqRange
    BY <1>1, <2>2 DEF DriverInv, Driver, Aged
  <2>5. z \in Int /\ t \in Int /\ y + (NumBuffers - Dist(h, u)) = t + z
    <3> DEFINE c == Dist(h, u)
               d == Dist(h, v)
    <3>1. \A b \in Bufs : Dist(h, b) \in 0 .. NumBuffers - 1
      BY RingIs
    <3>2. c \in 0 .. NumBuffers - 1 /\ d \in 0 .. NumBuffers - 1
      BY <2>2, <3>1
    <3>3. d = c + Needed - 1
      BY <2>2
    <3> HIDE DEF c, d, y
    <3>4. y \in Int
      BY <2>3, SizesAre DEF Seqs
    <3>5. NumBuffers - d \in Int /\ y + Needed - 1 \in Int /\ y + (NumBuffers - c) = (y + Needed - 1) + (NumBuffers - d)
      BY <3>2, <3>3, <3>4, SizesAre
    <3> QED
      BY <3>5 DEF c, d
  <2> HIDE DEF x, y, z, t
  <2>6. (x + z) % SeqRange = (t + z) % SeqRange
    BY <2>4, <2>5 DEF y, z
  <2>7. SeqRange \in Nat \ {0} /\ x \in 0 .. SeqRange - 1
    BY <2>3, SizesAre DEF Seqs
  <2>8. x = t % SeqRange
    <3> DEFINE n == SeqRange
    <3>1. n \in Nat \ {0} /\ x \in 0 .. n - 1
      BY <2>7
    <3>2. t \in Int /\ z \in Int /\ (x + z) % n = (t + z) % n
      BY <2>5, <2>6
    <3> HIDE DEF n
    <3>3. x \in Int /\ x % n = x
      BY <3>1, SmallRemainder
    <3>4. x % n = t % n
      BY <3>1, <3>2, <3>3, SameSum, Zenon
    <3> QED
      BY <3>3, <3>4 DEF n
  <2>9. buf[v].seq = (buf[u].seq + Needed - 1) % SeqRange
    BY <2>8 DEF x, y, t
  <2>10. buf[handler.used[3]].seq = (buf[handler.used[1]].seq + Needed - 1) % SeqRange
    BY <2>9 DEF u, v
  <2> QED
    BY <2>1, <2>10
<1> QED
  BY <1>2, <1>3, <1>4

\* Whatever the main loop does and however late it is, for any number of buffers and any
\* configuration that changes: the driver knows of each buffer whether the SAADC has it, the
\* one that the interrupt takes for finished is the one that is filled, and there is a next
\* recording, or a restart on the scheduler.
THEOREM SamplingNeverStops ==
  Spec => [](part = "samples" => Samples!DriverKnowsBuffers /\ Samples!SamplingGoesOn)
<1> DEFINE Inv == part = "samples" => \E h \in Bufs : DriverInv(h)
<1>1. Init => Inv
  BY SamplesInit DEF Init, SamplesInv
<1>2. Inv /\ [Next]_vars => Inv'
  <2> SUFFICES ASSUME Inv, [Next]_vars, part' = "samples" PROVE \E k \in Bufs : DriverInv(k)'
    OBVIOUS
  <2>1. part = "samples" /\ \E h \in Bufs : DriverInv(h)
    BY DEF Next, vars
  <2>2. Samples!Next \/ UNCHANGED sampleVars
    BY <2>1 DEF Next, vars
  <2> QED
    BY <2>1, <2>2, DriverNext
<1>3. Inv => (part = "samples" => Samples!DriverKnowsBuffers /\ Samples!SamplingGoesOn)
  BY DriverHolds
<1> QED
  BY <1>1, <1>2, <1>3, PTL DEF Spec

\* And if the main loop keeps up: the power that counts was calculated over one recording,
\* which the filter did not write into while it was made, and a switch that is recognized was
\* seen in recordings that followed each other.
THEOREM RecordingsAreReal ==
  ASSUME Punctual
  PROVE  Spec => []SamplingIsReal
<1> DEFINE Inv == part = "samples" => \E h \in Bufs : SamplesInv(h)
<1>1. Init => Inv
  BY SamplesInit DEF Init
<1>2. Inv /\ [Next]_vars => Inv'
  <2> SUFFICES ASSUME Inv, [Next]_vars, part' = "samples" PROVE \E k \in Bufs : SamplesInv(k)'
    OBVIOUS
  <2>1. part = "samples" /\ \E h \in Bufs : SamplesInv(h)
    BY DEF Next, vars
  <2>2. Samples!Next \/ UNCHANGED sampleVars
    BY <2>1 DEF Next, vars
  <2> QED
    BY <2>1, <2>2, SamplesNext
<1>3. Inv => SamplingIsReal
  BY SamplesHold DEF SamplingIsReal
<1> QED
  BY <1>1, <1>2, <1>3, PTL DEF Spec

=============================================================================
