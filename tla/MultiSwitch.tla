----------------------------- MODULE MultiSwitch -----------------------------
(***************************************************************************)
(* Switch commands that phones broadcast, for a stone that gets them from  *)
(* several others over the mesh.  A phone advertises its last command and  *)
(* counts its commands.  A stone that scans it claims the phone for a      *)
(* while, ignores the same payload in that time (cs_CommandAdvHandler),    *)
(* and puts the command in its mesh queue in place of an older one for the *)
(* same stone (cs_MultiSwitchHandler, cs_MeshMsgSender,                    *)
(* cs_MeshModelMulticast).  The stone it is for gets the publications of   *)
(* all, repeated and late, and decides which ones to execute               *)
(* (checkAndSetOwner() of cs_SwitchAggregator).                            *)
(***************************************************************************)
EXTENDS Integers

CONSTANTS Phones, Relays,  \* device tokens; the stones between
          NumCommands,     \* bound: commands of each phone
          FirstCount,      \* count of the first command of a phone
          CountMod,        \* the counter has 8 bits
          Transmissions,   \* publications of a message
          AdvClaim,        \* CMD_ADV_CLAIM_TIME_MS in ticks
          OwnerClaim,      \* SWITCH_CLAIM_TIME_MS in ticks
          Linger           \* ticks that copies of a replaced command exist

VARIABLES
  given,    \* number of commands that each phone has given
  stale,    \* ticks since a command was replaced by the next of its phone
  claims,   \* of each relay and phone: the command, and the ticks left
  queue,    \* of each relay: the command for the stone, and publications left
  air,      \* publications that may still arrive
  owner,    \* _source, and _ownerTimeoutCountdown
  last      \* of each phone: the command that was executed last

multiVars == <<given, stale, claims, queue, air, owner, last>>

Commands == UNION {{p} \X (1 .. NumCommands[p]) : p \in Phones}
Nothing  == <<"none", 0>>
NoClaim  == [command |-> Nothing, ticks |-> 0]
Empty    == [command |-> Nothing, left |-> 0]

Init ==
  /\ given = [p \in Phones |-> 0]
  /\ stale = [c \in Commands |-> 0]
  /\ claims = [r \in Relays |-> [p \in Phones |-> NoClaim]]
  /\ queue = [r \in Relays |-> Empty]
  /\ air = {}
  /\ owner = [source |-> Nothing, ticks |-> 0]
  /\ last = [p \in Phones |-> 0]
-----------------------------------------------------------------------------
Count(c) == (FirstCount + c[2] - 1) % CountMod

\* The difference as a signed number.
IsNewer(previous, new) == (new - previous) % CountMod \in 1 .. CountMod \div 2 - 1

\* What others send for a stone, or will.
Copies == air \cup {queue[r].command : r \in Relays}

\* The phone goes on with its next command.  It is never half a round of its counter
\* ahead of one that is on its way.
Give(p) ==
  /\ given[p] < NumCommands[p]
  /\ \A c \in Copies : c[1] = p => given[p] + 1 - c[2] <= CountMod \div 2
  /\ given' = [given EXCEPT ![p] = @ + 1]
  /\ UNCHANGED <<stale, claims, queue, air, owner, last>>

\* handleEncryptedCommandPayload(): a payload that is claimed is similar.  Then
\* sendMultiSwitchItem(): replace what is queued for that stone.
Scan(r, p) ==
  LET c == <<p, given[p]>>
  IN /\ given[p] > 0
     /\ ~(claims[r][p].command = c /\ claims[r][p].ticks > 0)
     /\ claims' = [claims EXCEPT ![r][p] = [command |-> c, ticks |-> AdvClaim]]
     /\ queue' = [queue EXCEPT ![r] = [command |-> c, left |-> Transmissions]]
     /\ UNCHANGED <<given, stale, air, owner, last>>

\* sendMsgFromQueue()
Publish(r) ==
  /\ queue[r].left > 0
  /\ air' = air \cup {queue[r].command}
  /\ queue' = [queue EXCEPT ![r] =
       IF queue[r].left = 1 THEN Empty ELSE [queue[r] EXCEPT !.left = @ - 1]]
  /\ UNCHANGED <<given, stale, claims, owner, last>>

\* Mutant: only the same command again is old.
AcceptsAllOthers(c) ==
  owner.ticks = 0 \/ (owner.source[1] = c[1] /\ Count(owner.source) # Count(c))

\* checkAndSetOwner()
Accepts(c) ==
  owner.ticks = 0 \/ (owner.source[1] = c[1] /\ IsNewer(Count(owner.source), Count(c)))

\* CMD_SWITCH; copies of a publication may follow.
Receive(c, again) ==
  /\ c \in air
  /\ air' = IF again THEN air ELSE air \ {c}
  /\ IF Accepts(c)
     THEN /\ owner' = [source |-> c, ticks |-> OwnerClaim]
          /\ last' = [last EXCEPT ![c[1]] = c[2]]
     ELSE UNCHANGED <<owner, last>>
  /\ UNCHANGED <<given, stale, claims, queue>>

Lose(c) ==
  /\ c \in air /\ air' = air \ {c}
  /\ UNCHANGED <<given, stale, claims, queue, owner, last>>

Replaced == {c \in Commands : c[2] < given[c[1]]}

\* A tick of all stones.  By then, no copy is older than it can get.
Tick ==
  /\ \A c \in Copies \cap Replaced : stale[c] < Linger
  /\ stale' = [c \in Commands |-> IF c \in Replaced /\ stale[c] < Linger THEN stale[c] + 1 ELSE stale[c]]
  /\ claims' = [r \in Relays |-> [p \in Phones |->
       IF claims[r][p].ticks > 1 THEN [claims[r][p] EXCEPT !.ticks = @ - 1] ELSE NoClaim]]
  /\ owner' = IF owner.ticks > 1 THEN [owner EXCEPT !.ticks = @ - 1]
              ELSE [source |-> Nothing, ticks |-> 0]
  /\ UNCHANGED <<given, queue, air, last>>

Next ==
  \/ \E p \in Phones : Give(p) \/ \E r \in Relays : Scan(r, p)
  \/ \E r \in Relays : Publish(r)
  \/ \E c \in Commands : Lose(c) \/ \E again \in BOOLEAN : Receive(c, again)
  \/ Tick

Spec == Init /\ [][Next]_multiVars
-----------------------------------------------------------------------------
\* Claims, queues and counters have their types.
TypeOK ==
  /\ \A p \in Phones : given[p] \in 0 .. NumCommands[p] /\ last[p] \in 0 .. given[p]
  /\ \A c \in Commands : stale[c] \in 0 .. Linger
  /\ air \subseteq Commands
  /\ claims \in [Relays -> [Phones -> [command : Commands \cup {Nothing}, ticks : 0 .. AdvClaim]]]
  /\ queue \in [Relays -> [command : Commands \cup {Nothing}, left : 0 .. Transmissions]]
  /\ owner \in [source : Commands \cup {Nothing}, ticks : 0 .. OwnerClaim]

\* Of one phone, no command is executed after a newer one: whatever relays,
\* repetitions and delays do to their order, with other phones in between, and
\* when the counter wraps around.
NewestWins == [][\A p \in Phones : last'[p] >= last[p]]_multiVars
=============================================================================
