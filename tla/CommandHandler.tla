--------------------------- MODULE CommandHandler ---------------------------
(***************************************************************************)
(* Commands that take time (cs_CommandHandler.cpp): a handler that answers *)
(* ERR_WAIT_FOR_SUCCESS works on, and its result comes as an event, which  *)
(* goes to whoever asked (_awaitingCommandResult).  Meanwhile all other    *)
(* commands are refused.  The wait ends by a timeout, of which nobody      *)
(* hears, but the work that was begun goes on: writing the flash for a     *)
(* setup or a microapp, the hub that replies over UART.                    *)
(*                                                                         *)
(* Who works on a command is a job here; its result names the type of the  *)
(* command, and nothing else.  Commands that end at once are left out, as  *)
(* are access levels and parsing.                                          *)
(***************************************************************************)
EXTENDS Naturals, FiniteSets

CONSTANTS Types,        \* CTRL_CMD_SETUP, CTRL_CMD_HUB_DATA, CTRL_CMD_MICROAPP_UPLOAD, ...
          Sources,      \* a phone over BLE, a host over UART, and so on
          NoType,       \* CTRL_CMD_NONE
          Timeout,      \* ASYNC_COMMAND_TIMEOUT_MS / TICK_INTERVAL_MS
          MaxJobs,      \* bound: commands that take time
          Several       \* whether a handler takes a command of a type while it still
                        \* works on an earlier one, that timed out

VARIABLES
  awaiting,   \* _awaitingCommandResult
  jobs,       \* those that are worked on
  begun,      \* number of jobs
  answers     \* history: results that were sent, each with whom it went to

commandVars == <<awaiting, jobs, begun, answers>>

Idle == [type |-> NoType, source |-> NoType, countdown |-> 0]

Init ==
  /\ awaiting = Idle
  /\ jobs = {}
  /\ begun = 0
  /\ answers = {}
-----------------------------------------------------------------------------
\* handleCommand(), of a command of which the handler answers WAIT_FOR_SUCCESS;
\* while another is awaited, the answer is ERR_BUSY.
HandleCommand(type, source) ==
  /\ begun < MaxJobs
  /\ Several \/ \A j \in jobs : j.type # type
  /\ awaiting.type = NoType
  /\ begun' = begun + 1
  /\ jobs' = jobs \cup {[number |-> begun', type |-> type, source |-> source]}
  /\ awaiting' = [type |-> type, source |-> source, countdown |-> Timeout]
  /\ UNCHANGED answers

\* CMD_RESOLVE_ASYNC_CONTROL_COMMAND
ResolveAsyncCommand(job) ==
  /\ jobs' = jobs \ {job}
  /\ IF job.type = awaiting.type
     THEN /\ answers' = answers \cup {[job |-> job, to |-> awaiting.source]}
          /\ awaiting' = [awaiting EXCEPT !.type = NoType, !.countdown = 0]
     ELSE UNCHANGED <<answers, awaiting>>
  /\ UNCHANGED begun

\* A result that never comes: the hub is switched off.
Forget(job) ==
  /\ jobs' = jobs \ {job}
  /\ UNCHANGED <<awaiting, begun, answers>>

\* EVT_TICK
Tick ==
  /\ awaiting.countdown > 0
  /\ awaiting' = IF awaiting.countdown = 1
                 THEN [awaiting EXCEPT !.type = NoType, !.countdown = 0]
                 ELSE [awaiting EXCEPT !.countdown = @ - 1]
  /\ UNCHANGED <<jobs, begun, answers>>

Next ==
  \/ \E t \in Types, s \in Sources : HandleCommand(t, s)
  \/ \E j \in jobs : ResolveAsyncCommand(j) \/ Forget(j)
  \/ Tick
-----------------------------------------------------------------------------
(* Properties.                                                             *)

\* A result goes to who gave the command, and to nobody else: also the late one
\* of a command that timed out, when another is awaited (resolveAsyncCommand()).
ResultGoesToAsker == \A a \in answers : a.to = a.job.source

\* No command is refused for ever because one was never answered (EVT_TICK).
WaitEnds == []<>(awaiting.type = NoType)
=============================================================================
