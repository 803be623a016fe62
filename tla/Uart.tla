--------------------------------- MODULE Uart --------------------------------
(***************************************************************************)
(* Reading messages over UART (cs_UartHandler.cpp): the interrupt puts     *)
(* bytes together to a message, in one buffer; the main loop handles the   *)
(* message in that buffer, and meanwhile nothing is read.  At the other    *)
(* end is a host that can stop in the middle of a message, and a line that *)
(* loses bytes.                                                            *)
(*                                                                         *)
(* A message on the line is the start byte, two bytes of size, and that    *)
(* many bytes; of these, those that are special are flipped and come after *)
(* an escape.  The checksum is abstracted: a message is right if it is one *)
(* that a host sends.  Left out: what a message says, and encryption.      *)
(***************************************************************************)
EXTENDS Naturals, Sequences

CONSTANTS Messages,        \* what a host sends: sequences of bytes
          RxBufferSize,    \* UART_RX_BUFFER_SIZE
          CutAfterEscape,  \* whether a host stops right after an escape byte
          SchedulerFills   \* whether the scheduler can be almost full

VARIABLES
  reader,   \* UartHandler: _readBusy, _startedReading, _escapeNextByte, _sizeToRead, _readBuffer
  scheduled,  \* handle_msg is on the scheduler
  task,     \* how far the main loop is with a message
  line,     \* what the host is sending: the bytes left, what comes next, the message if
            \* nothing was lost yet; and whether an escape arrived last
  due       \* the message that arrived whole and is not handled yet

uartVars == <<reader, scheduled, task, line, due>>

Start == 10                                     \* UART_START_BYTE
Escape == 11                                    \* UART_ESCAPE_BYTE
Special == {Start, Escape}
Flip(byte) == byte + 10                         \* UART_ESCAPE_FLIP_MASK
UnFlip(byte) == IF byte >= 20 THEN byte - 10 ELSE byte + 30

\* The host sends the start byte, and each byte of the size and the message: when
\* it is special, an escape and then the flipped byte.
OnLine(message) == <<Len(message), 0>> \o message
Escapes == line.next = "byte" /\ Head(line.left) \in Special

NextByte ==
  CASE line.next = "start"   -> Start
    [] line.next = "byte"    -> IF Escapes THEN Escape ELSE Head(line.left)
    [] line.next = "flipped" -> Flip(Head(line.left))

LeftAfter == IF line.next = "start" \/ Escapes THEN line.left ELSE Tail(line.left)
NextAfter == IF Escapes THEN "flipped" ELSE "byte"

\* resetReadBuf()
Fresh(r) == [r EXCEPT !.started = FALSE, !.escape = FALSE, !.toRead = 0, !.buffer = <<>>]

Init ==
  /\ reader = [busy |-> FALSE, started |-> FALSE, escape |-> FALSE, toRead |-> 0, buffer |-> <<>>]
  /\ scheduled = FALSE
  /\ task = "idle"
  /\ line = [left |-> <<>>, next |-> "start", whole |-> <<>>, escape |-> FALSE]
  /\ due = <<>>
-----------------------------------------------------------------------------
(* onRead(), in the interrupt.                                             *)

Size(buffer) == IF buffer[2] = 0 THEN buffer[1] ELSE RxBufferSize + 1

\* The second half: a byte of the size or of the message.
Store(r, byte) ==
  LET s == [r EXCEPT !.escape = FALSE, !.buffer = Append(@, IF r.escape THEN UnFlip(byte) ELSE byte)]
  IN  IF s.toRead # 0 THEN [s EXCEPT !.busy = Len(s.buffer) >= s.toRead]
      ELSE IF Len(s.buffer) < 2 THEN s
      ELSE IF Size(s.buffer) \notin 1 .. RxBufferSize THEN Fresh(s)
      ELSE [s EXCEPT !.toRead = Size(s.buffer), !.buffer = <<>>]

OnRead(r, byte) ==
  IF r.busy THEN r
  ELSE CASE byte \in Special /\ r.escape              -> Fresh(r)
         [] byte = Start /\ ~r.escape                 -> [Fresh(r) EXCEPT !.started = TRUE]
         [] byte # Start /\ ~r.started                -> r
         [] byte = Escape /\ ~r.escape /\ r.started   -> [r EXCEPT !.escape = TRUE]
         [] byte \notin Special /\ r.started          -> Store(r, byte)

\* A message that does not fit on the scheduler is forgotten.
Read(byte) ==
  /\ reader' = OnRead(reader, byte)
  /\ IF reader'.busy /\ ~reader.busy
     THEN \E fits \in {TRUE, ~SchedulerFills} : scheduled' = fits
     ELSE UNCHANGED scheduled
-----------------------------------------------------------------------------
(* The host and the line.                                                  *)

Begin(message) ==
  /\ line.left = <<>> \/ CutAfterEscape \/ ~line.escape
  /\ line' = [left |-> OnLine(message), next |-> "start", escape |-> line.escape,
              whole |-> IF Len(message) <= RxBufferSize THEN message ELSE <<>>]
  /\ UNCHANGED <<reader, scheduled, task, due>>

\* What comes while the previous message is being handled is not expected to
\* be read.
Send ==
  /\ line.left # <<>>
  /\ Read(NextByte)
  /\ LET whole == IF reader.busy THEN <<>> ELSE line.whole
     IN  /\ line' = [left |-> LeftAfter, next |-> NextAfter, whole |-> whole, escape |-> Escapes]
         /\ due' = IF LeftAfter = <<>> /\ whole # <<>> THEN whole ELSE due
  /\ UNCHANGED task

\* A flipped byte that is lost leaves the escape before it as the last byte.
Lose ==
  /\ line.left # <<>>
  /\ LeftAfter = <<>> /\ line.escape => CutAfterEscape
  /\ line' = [left |-> LeftAfter, next |-> NextAfter, whole |-> <<>>, escape |-> line.escape]
  /\ UNCHANGED <<reader, scheduled, task, due>>
-----------------------------------------------------------------------------
(* handleMsg(), in the main loop.                                          *)

HandleMsg ==
  /\ task = "idle" /\ scheduled
  /\ task' = "handling" /\ scheduled' = FALSE
  /\ UNCHANGED <<reader, line, due>>

Reset(from, to) ==
  /\ task = from /\ task' = to
  /\ reader' = Fresh(reader)
  /\ due' = IF reader.busy THEN <<>> ELSE due
  /\ UNCHANGED <<scheduled, line>>

Unblock(from, to) ==
  /\ task = from /\ task' = to
  /\ reader' = [reader EXCEPT !.busy = FALSE]
  /\ UNCHANGED <<scheduled, line, due>>

\* Mutant: reading is allowed again before the buffer is reset.
UnblockThenReset == Unblock("handling", "rest") \/ Reset("rest", "idle")

Finish == Reset("handling", "rest") \/ Unblock("rest", "idle")

Next ==
  \/ \E message \in Messages : Begin(message)
  \/ Send \/ Lose
  \/ HandleMsg \/ Finish
-----------------------------------------------------------------------------
(* Properties.                                                             *)

\* A message of which every byte arrives while none is being handled is
\* handled, whatever was lost or cut off before it (onRead()).
MessageGetsThrough ==
  due # <<>> => reader.busy /\ reader.buffer = due

\* Reading is blocked only while a message is on its way to be handled
\* (handleMsg(): "ALWAYS reset and set readBusy to false").
NeverDeaf == reader.busy => scheduled \/ task # "idle"
=============================================================================
