------------------------------ MODULE Microapp ------------------------------
(***************************************************************************)
(* The microapp of a stone: its binary in flash (cs_MicroappStorage), its  *)
(* state in RAM and in State (cs_Microapp), and the calls into it          *)
(* (callMicroapp() of cs_MicroappController).                              *)
(*                                                                         *)
(* The binary of version v has v chunks of two writes each; a checksum     *)
(* tells whether it is complete.  The main loop runs one handler at a      *)
(* time, also while a call does not return: then the watchdog resets.      *)
(***************************************************************************)
EXTENDS Naturals

CONSTANTS NumChunks,    \* chunks of the largest binary
          AutoEnable,   \* g_AUTO_ENABLE_MICROAPP_ON_BOOT
          Pipelined,    \* whether a command may come while flash is written
          FlashFails    \* whether writes may fail

Versions  == 1 .. NumChunks
Chunks    == 1 .. NumChunks
Parts     == 1 .. 2 * NumChunks
PartsOf(c) == {2 * c - 1, 2 * c}
Erased    == 0

VARIABLES
  binary,      \* what is in flash of the binary
  app,         \* _states
  kept,        \* what State has of it: in RAM and in flash
  started,     \* _started
  call,        \* a call into the microapp, and the flag of it in IPC RAM
  storage,     \* the operation in flash, the chunk and its progress
  host,        \* the last upload, and the answer to it
  guilty       \* history: a call did not return, and no command followed

microappVars == <<binary, app, kept, started, call, storage, host, guilty>>

\* resetState()
ResetState == [enabled |-> FALSE, hasData |-> FALSE, known |-> Erased, passed |-> FALSE,
               didReboot |-> FALSE, exceeded |-> FALSE]
NoChunk    == [version |-> Erased, first |-> 1, size |-> 0, written |-> 0]
IdleStorage == [op |-> "none", part |-> 1, version |-> Erased, chunk |-> NoChunk]
NoUpload   == [version |-> Erased, chunk |-> 1, answer |-> "none"]

Init ==
  /\ binary = [p \in Parts |-> Erased]
  /\ app = ResetState /\ kept = [ram |-> ResetState, flash |-> ResetState]
  /\ started = FALSE /\ call = [active |-> FALSE, flag |-> FALSE]
  /\ storage = IdleStorage /\ host = NoUpload /\ guilty = FALSE
-----------------------------------------------------------------------------
\* The version whose binary is complete: its checksum is right.
IsValid(v) == \A c \in 1 .. v : \A p \in PartsOf(c) : binary[p] = v
Valid      == \E v \in Versions : IsValid(v)

Validates(a) == Valid /\ a.hasData

\* validateApp(): an app that is not the one that is known starts anew.
ValidateApp(a) ==
  LET v == CHOOSE w \in Versions : IsValid(w)
      b == IF a.known = v THEN a ELSE ResetState
  IN CASE ~Valid              -> [a EXCEPT !.passed = FALSE]
       [] Valid /\ ~a.hasData -> a
       [] Validates(a)        -> [b EXCEPT !.known = v, !.passed = TRUE]

CanRunApp(a) == a.enabled /\ a.passed /\ ~a.didReboot /\ ~a.exceeded

\* storeState(): State writes it later.
StoreState(a) == kept' = [kept EXCEPT !.ram = a]
SaveState ==
  /\ kept.flash # kept.ram
  /\ kept' = [kept EXCEPT !.flash = kept.ram]
  /\ UNCHANGED <<binary, app, started, call, storage, host, guilty>>

StartApp(a) == started' = (started \/ CanRunApp(a))

\* A command is handled between calls; a host waits for its answer.
MayCommand == ~call.active /\ (Pipelined \/ storage.op = "none")
-----------------------------------------------------------------------------

\* writeNextChunkPart() and write(): the progress counts, also when flash is
\* busy.
WriteNextPart(s) ==
  LET c == [s EXCEPT !.chunk.written = @ + 1]
  IN IF s.chunk.written >= s.chunk.size THEN [to |-> s, ret |-> "SUCCESS"]
     ELSE IF s.op # "none" THEN [to |-> c, ret |-> "BUSY"]
     ELSE [to |-> [c EXCEPT !.op = "write", !.part = s.chunk.first + s.chunk.written,
                            !.version = s.chunk.version],
           ret |-> "WAIT"]

\* handleUpload() and writeChunk(): into flash that is erased only.
Upload(v, c) ==
  LET free == \A p \in PartsOf(c) : binary[p] = Erased
      s == [storage EXCEPT !.chunk = [version |-> v, first |-> 2 * c - 1, size |-> 2, written |-> 0]]
      w == IF free THEN WriteNextPart(s) ELSE [to |-> storage, ret |-> "WRITE_DISABLED"]
  IN /\ MayCommand /\ c <= v
     /\ storage' = w.to
     /\ host' = [version |-> v, chunk |-> c, answer |-> w.ret]
     /\ app' = [ResetState EXCEPT !.hasData = (w.ret # "BUSY")]
     /\ StoreState(app')
     /\ guilty' = FALSE
     /\ UNCHANGED <<binary, started, call>>

\* A write ends: onFlashWritten().  After a failure, it continues as well.
FlashWritten(ok) ==
  LET s == [storage EXCEPT !.op = "none"]
      w == WriteNextPart(IF ok THEN s ELSE [s EXCEPT !.chunk = NoChunk])
  IN /\ ~call.active
     /\ storage.op = "write"
     /\ ok \/ FlashFails
     /\ binary' = IF ok THEN [binary EXCEPT ![storage.part] = storage.version] ELSE binary
     /\ storage' = IF w.ret = "WAIT" THEN w.to ELSE IdleStorage
     /\ host' = [host EXCEPT !.answer = w.ret]
     /\ UNCHANGED <<app, kept, started, call, guilty>>

\* handleValidate()
Validate ==
  /\ MayCommand
  /\ app' = ValidateApp(app) /\ StoreState(app')
  /\ IF Validates(app) THEN StartApp(app') ELSE UNCHANGED started
  /\ UNCHANGED <<binary, call, storage, host, guilty>>

\* handleEnable(), with resetTestState(): the tests start anew.
Enable ==
  /\ MayCommand /\ app.passed
  /\ app' = [app EXCEPT !.enabled = TRUE, !.hasData = TRUE, !.didReboot = FALSE,
                        !.exceeded = FALSE]
  /\ StoreState(app') /\ StartApp(app')
  /\ guilty' = FALSE
  /\ UNCHANGED <<binary, call, storage, host>>

\* handleDisable()
Disable ==
  /\ MayCommand
  /\ app' = [app EXCEPT !.enabled = FALSE] /\ StoreState(app')
  /\ UNCHANGED <<binary, started, call, storage, host, guilty>>

IsErased == \A p \in Parts : binary[p] = Erased

\* What handleRemove() leaves of the state once the erase was started.
RemovedState(a) == ResetState

\* handleRemove() and erase()
RemoveApp ==
  /\ MayCommand
  /\ host' = NoUpload /\ guilty' = FALSE
  /\ IF storage.op # "none"
     THEN app' = [app EXCEPT !.enabled = FALSE] /\ UNCHANGED <<kept, started, storage>>
     ELSE /\ app' = RemovedState(app) /\ StoreState(app') /\ started' = FALSE
          /\ storage' = IF IsErased THEN storage ELSE [storage EXCEPT !.op = "erase"]
  /\ UNCHANGED <<binary, call>>

\* The pages are erased one by one.
ErasePage ==
  LET p == CHOOSE q \in Parts : binary[q] # Erased /\ \A r \in 1 .. q - 1 : binary[r] = Erased
  IN /\ storage.op = "erase" /\ ~IsErased
     /\ binary' = [binary EXCEPT ![p] = Erased]
     /\ UNCHANGED <<app, kept, started, call, storage, host, guilty>>

EraseDone ==
  /\ ~call.active /\ storage.op = "erase" /\ IsErased
  /\ storage' = [storage EXCEPT !.op = "none"]
  /\ UNCHANGED <<binary, app, kept, started, call, host, guilty>>
-----------------------------------------------------------------------------
\* callMicroapp(): a flag in IPC RAM tells that the microapp is running.
CallBegin ==
  /\ ~call.active /\ CanRunApp(app)
  /\ call' = [active |-> TRUE, flag |-> TRUE]
  /\ UNCHANGED <<binary, app, kept, started, storage, host, guilty>>

\* The microapp yields; when that took too long, it is not called again.
CallEnd(long) ==
  /\ call.active
  /\ call' = [active |-> FALSE, flag |-> FALSE]
  /\ app' = IF long THEN [app EXCEPT !.exceeded = TRUE] ELSE app
  /\ IF long THEN StoreState(app') ELSE UNCHANGED kept
  /\ UNCHANGED <<binary, started, storage, host, guilty>>

\* Mutant: the flag in IPC RAM is not looked at.
ForgetReboot(a, flag) == a

\* updateStateFromOperatingData()
FromOperatingData(a, flag) == [a EXCEPT !.didReboot = flag]

\* loadApps(), at boot
Load(flag) ==
  LET k == [FromOperatingData(kept.flash, flag) EXCEPT !.hasData = ~IsErased]
      a == ValidateApp(k)
      b == IF AutoEnable /\ Validates(k) THEN [a EXCEPT !.enabled = TRUE] ELSE a
  IN /\ app' = b
     /\ kept' = [kept EXCEPT !.ram = b]
     /\ started' = CanRunApp(b)
     /\ call' = [active |-> FALSE, flag |-> flag]
     /\ storage' = IdleStorage /\ host' = NoUpload

\* The watchdog resets a stone that is in a call that does not return; other
\* resets come at any other time.
Reset ==
  /\ Load(call.flag)
  /\ guilty' = (guilty \/ call.active)
  /\ UNCHANGED binary

\* The IPC RAM is lost with the power, and with it what the flag told.
PowerCut ==
  /\ Load(FALSE)
  /\ guilty' = FALSE
  /\ UNCHANGED binary

Next ==
  \/ \E v \in Versions, c \in Chunks : Upload(v, c)
  \/ \E ok \in BOOLEAN : FlashWritten(ok)
  \/ Validate \/ Enable \/ Disable \/ RemoveApp \/ ErasePage \/ EraseDone
  \/ CallBegin \/ (\E long \in BOOLEAN : CallEnd(long))
  \/ SaveState \/ Reset \/ PowerCut

Spec == Init /\ [][Next]_microappVars
-----------------------------------------------------------------------------
AppState == [enabled : BOOLEAN, hasData : BOOLEAN, known : Versions \cup {Erased}, passed : BOOLEAN,
          didReboot : BOOLEAN, exceeded : BOOLEAN]

\* Binary, state and storage have their types.
TypeOK ==
  /\ binary \in [Parts -> Versions \cup {Erased}]
  /\ app \in AppState /\ kept \in [ram : AppState, flash : AppState]
  /\ started \in BOOLEAN /\ call \in [active : BOOLEAN, flag : BOOLEAN]
  /\ storage.op \in {"none", "write", "erase"} /\ storage.part \in Parts
  /\ host.answer \in {"none", "WAIT", "SUCCESS", "BUSY", "WRITE_DISABLED"}
  /\ guilty \in BOOLEAN

\* A microapp is called only while its binary is complete, whatever was
\* uploaded, removed or enabled, and wherever a reset came: also with an erase
\* or a write that was half done and a state that was not saved.
RunsOnlyValid == call.active => started /\ Valid

\* A microapp whose call did not return is not called again after the reset,
\* however often the stone resets, before a host enables or replaces it, or the
\* power is cut.
HangingAppStops == guilty => ~call.active

\* An upload that is answered with a success is in flash.
UploadAnswerIsTrue ==
  host.answer = "SUCCESS" => \A p \in PartsOf(host.chunk) : binary[p] = host.version
=============================================================================
