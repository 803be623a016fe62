-------------------------------- MODULE Parts --------------------------------
(***************************************************************************)
(* The components that wait for others, side by side: a behaviour is one   *)
(* of one of them, `part`, and the rest stays as it was.                   *)
(***************************************************************************)
EXTENDS Naturals, FiniteSets

CONSTANTS
  Stones,                                                     \* the stones of a mesh
  NumItems, QueueSize, LateReplies,                           \* MeshUnicast
  NumStones, NumClocks, Reelection, VersionMax,               \* SystemTime
  Settings, Classes, Retries, CutInReset, MaxCuts, MaxCommands,  \* OperationModes
  Places, MaxRecords, PresenceTimeout, Throttles, Uncertain,  \* Presence
  NoStone, MaxUserCommands, MaxLosses,                        \* CrownstoneCentral
  MaxCalls, Toggles,                                          \* Advertiser
  Types, Sources, NoType, CommandTimeout, MaxJobs, Several    \* CommandHandler

ASSUME PartsAssumption ==
  /\ NumItems \in Nat /\ QueueSize \in Nat \ {0}
  /\ NumStones \in Nat \ {0} /\ NumClocks \in Nat /\ NumClocks >= NumStones
  /\ Reelection \in Nat /\ VersionMax \in Nat /\ VersionMax > 1
  /\ Settings # {} /\ "mode" \notin Settings
  /\ IsFiniteSet(Places) /\ MaxRecords \in Nat \ {0} /\ PresenceTimeout \in Nat \ {0}
  /\ Throttles \subseteq Nat /\ Uncertain \in Nat
  /\ NoStone \notin Stones
  /\ NoType \notin Types /\ CommandTimeout \in Nat

VARIABLES
  part,
  target, uni, transfer, heard, outcome,                      \* MeshUnicast
  time, timeAir, clocks,                                      \* SystemTime
  store, running, stored, reset, answer, data, cuts, commands,  \* OperationModes
  near, users, uptime, presenceAir, told,                     \* Presence
  central, user, macRequests, commandsLeft, lossesLeft,       \* CrownstoneCentral
  advertiser, connector, gapEvents, advCalls, advCalm,        \* Advertiser
  awaiting, jobs, begun, answers                              \* CommandHandler

Unicast == INSTANCE MeshUnicast

Clock == INSTANCE SystemTime WITH air <- timeAir, started <- clocks

Modes == INSTANCE OperationModes

Users == INSTANCE Presence WITH Timeout <- PresenceTimeout, records <- users, air <- presenceAir

Links == INSTANCE CrownstoneCentral WITH Commands <- MaxUserCommands, Losses <- MaxLosses

Advertising == INSTANCE Advertiser WITH
  s <- advertiser, central <- connector, gap <- gapEvents, calls <- advCalls, calm <- advCalm

Requests == INSTANCE CommandHandler WITH Timeout <- CommandTimeout

unicastVars   == <<target, uni, transfer, heard, outcome>>
clockVars     == <<time, timeAir, clocks>>
modeVars      == <<store, running, stored, reset, answer, data, cuts, commands>>
userVars      == <<near, users, uptime, presenceAir, told>>
linkVars      == <<central, user, macRequests, commandsLeft, lossesLeft>>
advVars       == <<advertiser, connector, gapEvents, advCalls, advCalm>>
requestVars   == <<awaiting, jobs, begun, answers>>

vars == <<part, unicastVars, clockVars, modeVars, userVars, linkVars, advVars, requestVars>>

Init ==
  /\ part \in {"unicast", "clock", "modes", "users", "links", "advertiser", "requests"}
  /\ Unicast!Init /\ Clock!Init /\ Modes!Init /\ Users!Init /\ Links!Init
  /\ Advertising!Init /\ Requests!Init

Next ==
  /\ UNCHANGED part
  /\ \/ /\ part = "unicast" /\ Unicast!Next
        /\ UNCHANGED <<clockVars, modeVars, userVars, linkVars, advVars, requestVars>>
     \/ /\ part = "clock" /\ Clock!Next
        /\ UNCHANGED <<unicastVars, modeVars, userVars, linkVars, advVars, requestVars>>
     \/ /\ part = "modes" /\ Modes!Next
        /\ UNCHANGED <<unicastVars, clockVars, userVars, linkVars, advVars, requestVars>>
     \/ /\ part = "users" /\ Users!Next
        /\ UNCHANGED <<unicastVars, clockVars, modeVars, linkVars, advVars, requestVars>>
     \/ /\ part = "links" /\ Links!Next
        /\ UNCHANGED <<unicastVars, clockVars, modeVars, userVars, advVars, requestVars>>
     \/ /\ part = "advertiser" /\ Advertising!Next
        /\ UNCHANGED <<unicastVars, clockVars, modeVars, userVars, linkVars, requestVars>>
     \/ /\ part = "requests" /\ Requests!Next
        /\ UNCHANGED <<unicastVars, clockVars, modeVars, userVars, linkVars, advVars>>

\* The fairness of each part, when it is the one that runs.
Fairness ==
  /\ WF_unicastVars(part = "unicast" /\ Unicast!ProcessQueue(TRUE))
  /\ WF_unicastVars(part = "unicast" /\ Unicast!TransferTimeout)
  /\ \A s \in Clock!StoneIds :
       /\ WF_clockVars(part = "clock" /\ Clock!Period(s, Clock!StoneIds \ {s}))
       /\ \A r \in Clock!StoneIds \ {s} : SF_clockVars(part = "clock" /\ Clock!Receive(s, r, FALSE))
  /\ \A k \in Settings \cup {"mode"} : WF_modeVars(part = "modes" /\ Modes!Write(k))
  /\ WF_modeVars(part = "modes" /\ (Modes!DelayedReset \/ Modes!EraseState))
  /\ \A c \in Classes : WF_modeVars(part = "modes" /\ Modes!EraseClass(c))
  /\ \A s \in Stones :
       /\ WF_userVars(part = "users" /\ Users!TickSecond(s))
       /\ \A p \in Places : WF_userVars(part = "users" /\ Users!Lose(s, p))
  /\ WF_linkVars(part = "links" /\ Links!TimerExpires)
  /\ WF_linkVars(part = "links" /\ Links!MeshDisabled)
  /\ WF_linkVars(part = "links" /\ Links!LinkClosed)
  /\ WF_linkVars(part = "links" /\ Links!Watchdog)
  /\ WF_linkVars(part = "links" /\ Links!GapAnswers)
  /\ WF_linkVars(part = "links" /\ Links!GattAnswers)
  /\ WF_advVars(part = "advertiser" /\ Advertising!UpdateServiceData)
  /\ WF_advVars(part = "advertiser" /\ Advertising!Tick)
  /\ WF_advVars(part = "advertiser" /\ Advertising!ConnectWithClearance)
  /\ WF_advVars(part = "advertiser" /\ (Advertising!Connected \/ Advertising!ConnectTimeout \/ Advertising!Drop))
  /\ WF_advVars(part = "advertiser" /\ Advertising!HandleEvent)
  /\ WF_requestVars(part = "requests" /\ Requests!Tick)

Spec == Init /\ [][Next]_vars /\ Fairness
-----------------------------------------------------------------------------
(* The properties of the parts, each explained in its module, with the     *)
(* types of its state.                                                     *)

\* Messages: a success of unicast was received (checkDone() of
\* cs_MeshModelUnicast.cpp), clocks send what a clock can be, and the result of a
\* command goes to who gave it (resolveAsyncCommand() of cs_CommandHandler.cpp).
AckMeansHeard ==
  /\ part = "unicast" => Unicast!TypeOK /\ Unicast!AckMeansHeard
  /\ part = "clock" => Clock!TypeOK
  /\ part = "requests" => Requests!ResultGoesToAsker

\* System time: the clocks of the stones end up the same
\* (onTimeSyncMessageReceive(), syncTimeCoroutineAction() of cs_SystemTime.cpp).
ClocksAgree == part = "clock" => Clock!ClocksAgree

\* Setup and factory reset: a stone in normal mode has its settings, and one in
\* setup mode nothing of before (cs_Setup.cpp, cs_FactoryReset.cpp).
ModesAreTrue == part = "modes" => Modes!TypeOK /\ Modes!NormalMeansConfigured /\ Modes!NothingLeft

\* Presence: the events tell who is present (cs_PresenceHandler.cpp).
EventsTellPresence == part = "users" => Users!TypeOK /\ Users!EventsTellPresence

\* Connections: what the user was told, and the mesh, are as they should be
\* (cs_CrownstoneCentral.cpp, cs_BleCentral.cpp).  Advertising: what is on air is
\* known and is not written, and leaves the link to those who connect
\* (cs_Advertiser.cpp).
ConnectionIsTrue ==
  /\ part = "links" => Links!SessionIsTrue /\ Links!MeshComesBack
  /\ part = "advertiser" =>
       /\ Advertising!BufferOnAirIsKept /\ Advertising!KnowsWhenHandled
       /\ Advertising!LinkIsKeptForCentral

\* Everyone who waits is done at some time.  Unicast and connections: each
\* accepted message ends and each command gets its answer (checkDone() of
\* cs_MeshModelUnicast.cpp, finalizeOperation() of cs_BleCentral.cpp and
\* cs_CrownstoneCentral.cpp).  Setup and factory reset end (onStorageDone(),
\* onClassFactoryResetDone()).  Presence: users who left are forgotten
\* (forwardToMesh, tickSecond()).  The stone can be connected to
\* (updateAdvertisementParams()), and commands are not refused for ever.
EverythingEnds ==
  /\ Unicast!UnicastEnds /\ Links!EveryAnswerComes
  /\ part = "modes" => Modes!SetupEnds /\ Modes!FactoryResetEnds
  /\ Users!PresenceEnds /\ Advertising!ConnectableInTheEnd /\ Requests!WaitEnds
==============================================================================
