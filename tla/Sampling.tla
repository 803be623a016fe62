------------------------------ MODULE Sampling ------------------------------
(***************************************************************************)
(* The buffers in which voltage and current are sampled: the ADC driver    *)
(* (cs_ADC), its interrupt, and the processing in the main loop            *)
(* (powerSampleAdcDone() of cs_PowerSampling, detect() of                  *)
(* cs_RecognizeSwitch).  The interrupt takes the oldest buffer for the     *)
(* next recording, whether the main loop is done with it or not; the main  *)
(* loop looks at the flag `valid` before and after it uses a buffer.       *)
(*                                                                         *)
(* A recording takes long compared with an interrupt and short compared    *)
(* with what can hold up the main loop.  The critical regions of the       *)
(* driver are left out: the mask they disable is empty (INT_END and the    *)
(* address of an event have no bit in common).                             *)
(*                                                                         *)
(* External: the SAADC records into `filling`; when that is full it goes   *)
(* on, by PPI, with the buffer its pointer was set to.                     *)
(***************************************************************************)
EXTENDS Naturals, SequencesExt

CONSTANTS NumBuffers,   \* CS_ADC_NUM_BUFFERS
          Needed,       \* _numBuffersRequired of RecognizeSwitch
          SeqRange,      \* the sequence number of a buffer has 8 bits
          SchedulerRoom,  \* done events for which the scheduler has room
          Pause,        \* bound: recordings between two of its handlers
          During,       \* bound: recordings during one of them
          Behind        \* bound: recordings not yet processed when a channel changes

SaadcBuffers == 2                                  \* CS_ADC_NUM_SAADC_BUFFERS
Buffers == 0 .. NumBuffers - 1

VARIABLES
  adc,        \* the driver, with the pointer and the target of the SAADC
  buf,        \* AdcBuffer: per buffer whether it is valid, and its number
  scheduler,  \* what the interrupt has put on the scheduler
  sampling,   \* PowerSampling: _bufferQueue and _lastBufSeqNr
  handler,    \* the handler of the main loop: how far it is, what it uses
  spoiled,    \* buffers into which the filter wrote what does not belong there
  late        \* recordings since the handler began, or the last one ended

samplingVars == <<adc, buf, scheduler, sampling, handler, spoiled, late>>

Idle == [pc |-> "idle", out |-> 0, used |-> <<>>, touched |-> {}]
-----------------------------------------------------------------------------
(* The driver.  d is a record of adc and buf.                              *)

\* Mutant: a buffer that is filled again still counts as valid.
StillValid(d, b) == d.buf

MarkedInvalid(d, b) ==
  IF Contains(d.adc.saadcQueue, b) THEN d.buf ELSE [d.buf EXCEPT ![b].valid = FALSE]

AddBufferToSaadcQueue(d, b) ==
  [adc |-> [d.adc EXCEPT
     !.queue = Tail(@),
     !.saadcQueue = IF Contains(@, b) THEN @ ELSE Append(@, b),
     !.pointer = IF Contains(d.adc.saadcQueue, b) THEN @ ELSE b,
     !.filling = IF d.adc.saadc = "idle" THEN b ELSE @,
     !.saadc = "busy"],
   buf |-> MarkedInvalid(d, b)]

\* The first buffer of the queue, if it is wanted.
FillOnce(d) ==
  IF d.adc.saadc = "stopping" \/ Len(d.adc.saadcQueue) >= SaadcBuffers \/ d.adc.queue = <<>>
  THEN d
  ELSE AddBufferToSaadcQueue(d, Head(d.adc.queue))

\* There is room for SaadcBuffers = 2, which ends the loop.
FillSaadcQueue(d) == FillOnce(FillOnce(d))

PushUnique(queue, b) == IF Contains(queue, b) THEN queue ELSE Append(queue, b)

\* In between, the STOP task makes an interrupt that only sets the state.
Stop(d) ==
  LET pushed[k \in 0 .. Len(d.adc.saadcQueue)] ==
        IF k = 0 THEN d.adc.queue ELSE PushUnique(pushed[k - 1], d.adc.saadcQueue[k])
  IN  [adc |-> [d.adc EXCEPT !.state = "idle", !.timer = FALSE, !.saadc = "idle",
                             !.queue = pushed[Len(d.adc.saadcQueue)], !.saadcQueue = <<>>],
       buf |-> d.buf]

Start(d) ==
  LET f == FillSaadcQueue([adc |-> [d.adc EXCEPT !.change = FALSE], buf |-> d.buf])
  IN  [adc |-> IF Len(f.adc.saadcQueue) < SaadcBuffers
               THEN [f.adc EXCEPT !.state = "waiting"]
               ELSE [f.adc EXCEPT !.state = "busy", !.first = TRUE, !.timer = TRUE],
       buf |-> f.buf]

\* The END interrupt for a full buffer b.
Finish(d, b) ==
  [adc |-> [d.adc EXCEPT !.saadcQueue = Tail(@), !.queue = PushUnique(@, b), !.filling = d.adc.pointer,
                         !.seq = (@ + 1) % SeqRange],
   buf |-> [d.buf EXCEPT ![b] = [valid |-> TRUE, seq |-> d.adc.seq]]]

Done(b) == IF Len(scheduler) < SchedulerRoom THEN <<[type |-> "done", buffer |-> b]>> ELSE <<>>
Restart == [type |-> "restart", buffer |-> 0]

\* The buffers the main loop reads or writes in the handler that runs.
InUse == IF handler.pc = "idle" THEN {} ELSE {handler.out} \union ToSet(handler.used)

\* The SAADC has filled a buffer.  Without another one, sampling stops until
\* the main loop restarts it; that is also how a new configuration is applied.
HandleAdcInterrupt ==
  /\ adc.timer /\ late < IF handler.pc = "idle" THEN Pause ELSE During
  /\ LET b == Head(adc.saadcQueue)
         d == Finish([adc |-> adc, buf |-> buf], b)
         n == IF d.adc.saadcQueue = <<>>
              THEN [adc |-> [d.adc EXCEPT !.timer = FALSE, !.saadc = "stopping"], buf |-> d.buf]
              ELSE IF d.adc.change THEN d ELSE FillSaadcQueue(d)
     IN  /\ adc' = n.adc /\ buf' = n.buf
         /\ scheduler' = scheduler \o Done(b) \o IF n.adc.saadc = "stopping" THEN <<Restart>> ELSE <<>>
         /\ handler' = [handler EXCEPT !.touched = @ \union ({n.adc.filling} \intersect InUse)]
         /\ spoiled' = spoiled \ {n.adc.filling}
  /\ late' = late + 1
  /\ UNCHANGED sampling
-----------------------------------------------------------------------------
(* The main loop.                                                          *)

Step(h) ==
  /\ handler' = h
  /\ late' = IF handler.pc = "idle" \/ h.pc = "idle" THEN 0 ELSE late

ChangeChannel ==
  /\ handler.pc = "idle" /\ ~adc.change
  /\ (adc.seq + SeqRange - sampling.last - 1) % SeqRange <= Behind
  /\ adc' = [adc EXCEPT !.change = TRUE]
  /\ Step(handler)
  /\ UNCHANGED <<buf, scheduler, sampling, spoiled>>

HandleRestart ==
  /\ handler.pc = "idle" /\ scheduler # <<>> /\ Head(scheduler).type = "restart"
  /\ LET d == Start(Stop([adc |-> adc, buf |-> buf])) IN adc' = d.adc /\ buf' = d.buf
  /\ scheduler' = Tail(scheduler)
  /\ Step(handler)
  /\ UNCHANGED <<sampling, spoiled>>

Consecutive(seq, previous) == seq = (previous + 1) % SeqRange

\* _handleAdcDone() and the start of powerSampleAdcDone(): a buffer is filtered
\* into the one before it.
HandleAdcDone ==
  /\ handler.pc = "idle" /\ scheduler # <<>> /\ Head(scheduler).type = "done"
  /\ LET b     == Head(scheduler).buffer
         queue == IF adc.first \/ ~Consecutive(buf[b].seq, sampling.last) THEN <<>> ELSE sampling.queue
         out   == IF queue = <<>> THEN b ELSE Last(queue)
         fine  == buf[b].valid /\ buf[out].valid
     IN  /\ sampling' = [queue |-> IF ~fine THEN <<>>
                                   ELSE Append(IF Len(queue) = NumBuffers THEN Tail(queue) ELSE queue, b),
                         last |-> buf[b].seq]
         /\ Step(IF fine THEN [Idle EXCEPT !.pc = "filter", !.out = out] ELSE Idle)
  /\ adc' = [adc EXCEPT !.first = FALSE]
  /\ scheduler' = Tail(scheduler)
  /\ UNCHANGED <<buf, spoiled>>

\* The samples of one channel are written; the other one follows.
Filter(channel, next) ==
  /\ handler.pc = channel
  /\ spoiled' = IF handler.out \in handler.touched \/ (adc.timer /\ handler.out = adc.filling)
                THEN spoiled \union {handler.out} ELSE spoiled
  /\ Step([handler EXCEPT !.pc = next])
  /\ UNCHANGED <<adc, buf, scheduler, sampling>>

\* The part of the queue after the newest buffer that is not valid.
RemoveInvalidBufs(queue) ==
  LET invalid == {i \in DOMAIN queue : ~buf[queue[i]].valid}
  IN  SubSeq(queue, 1 + (CHOOSE m \in invalid \union {0} : \A i \in invalid : i <= m), Len(queue))

CheckFiltered ==
  /\ handler.pc = "check"
  /\ IF buf[handler.out].valid
     THEN /\ sampling' = [sampling EXCEPT !.queue = RemoveInvalidBufs(@)]
          /\ Step([handler EXCEPT !.pc = "power"])
     ELSE /\ sampling' = [sampling EXCEPT !.queue = <<>>]
          /\ Step(Idle)
  /\ UNCHANGED <<adc, buf, scheduler, spoiled>>

\* calculatePower() has read the samples; its results count if the buffer is
\* still valid.  Then the buffers are compared, to see if the power was
\* interrupted in the one at position i from the first.
CalculatePower ==
  /\ handler.pc = "power"
  /\ Step([handler EXCEPT !.pc = "look"])
  /\ UNCHANGED <<adc, buf, scheduler, sampling, spoiled>>

Detect(i) ==
  /\ handler.pc = "look"
  /\ LET queue == sampling.queue
         used  == <<queue[Len(queue) - Needed], queue[Len(queue) - Needed + i], queue[Len(queue) - 1]>>
     IN  Step(IF Len(queue) < Needed + 1 \/ \E j \in 1 .. 3 : ~buf[used[j]].valid
              THEN Idle ELSE [Idle EXCEPT !.pc = "compare", !.used = used])
  /\ UNCHANGED <<adc, buf, scheduler, sampling, spoiled>>

Detected ==
  /\ handler.pc = "compare"
  /\ Step(Idle)
  /\ UNCHANGED <<adc, buf, scheduler, sampling, spoiled>>
-----------------------------------------------------------------------------
\* init() of the driver and its first start().
Init ==
  /\ LET fresh == [adc |-> [state |-> "idle", saadc |-> "idle", queue |-> [i \in 1 .. NumBuffers |-> i - 1],
                            saadcQueue |-> <<>>, first |-> FALSE, change |-> FALSE, timer |-> FALSE,
                            seq |-> 1, pointer |-> 0, filling |-> 0],
                   buf |-> [b \in Buffers |-> [valid |-> FALSE, seq |-> 0]]]
         d     == Start(fresh)
     IN  adc = d.adc /\ buf = d.buf
  /\ scheduler = <<>>
  /\ sampling = [queue |-> <<>>, last |-> 0]
  /\ handler = Idle
  /\ spoiled = {}
  /\ late = 0

MainLoop ==
  \/ HandleRestart \/ HandleAdcDone
  \/ Filter("filter", "filter2") \/ Filter("filter2", "check")
  \/ CheckFiltered \/ CalculatePower \/ Detected
  \/ \E i \in 1 .. Needed - 2 : Detect(i)

Next == HandleAdcInterrupt \/ ChangeChannel \/ MainLoop
-----------------------------------------------------------------------------
(* Properties.                                                             *)

\* Sampling goes on: however the configuration changes and how late the main
\* loop is, there is a next recording, or a restart on the scheduler; a start()
\* that does not find its buffers would wait for ever (fillSaadcQueue(),
\* _restart()).
SamplingGoesOn == adc.timer \/ Contains(scheduler, Restart)

\* Every buffer is in one of the two queues of the driver, and the SAADC fills
\* the one that the interrupt will take for finished (addBufferToSaadcQueue()).
DriverKnowsBuffers ==
  /\ \A b \in Buffers : Contains(adc.queue, b) # Contains(adc.saadcQueue, b)
  /\ adc.timer => adc.filling = Head(adc.saadcQueue)

\* The power that counts, and with it the soft fuse, was calculated over one
\* recording, and not one the filter wrote into while it was made
\* (calculatePower()).
PowerIsReal ==
  handler.pc = "power" /\ buf[handler.out].valid =>
    handler.out \notin handler.touched /\ handler.out \notin spoiled

\* A switch that is recognized was seen in recordings that followed each other
\* and did not change meanwhile (detect() of RecognizeSwitch).
DetectionIsReal ==
  handler.pc = "compare" /\ (\A j \in 1 .. 3 : buf[handler.used[j]].valid) =>
    /\ \A j \in 1 .. 3 : handler.used[j] \notin handler.touched \union spoiled
    /\ buf[handler.used[3]].seq = (buf[handler.used[1]].seq + Needed - 1) % SeqRange
=============================================================================
