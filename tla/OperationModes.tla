--------------------------- MODULE OperationModes ---------------------------
(***************************************************************************)
(* How a stone gets from setup mode to normal mode and back (cs_Setup,     *)
(* cs_FactoryReset), with the settings in State and the data that other    *)
(* classes have in flash.                                                  *)
(*                                                                         *)
(* Of State the model has what these classes see: set() changes the value  *)
(* in RAM, the write follows, in any order, and is reported by an event.   *)
(* The power may go at any moment: what is not written is lost.            *)
(***************************************************************************)
EXTENDS Naturals

CONSTANTS Settings,      \* what setup stores, other than the operation mode
          Classes,       \* classes with data of their own: microapps, mesh
          Retries,       \* whether a setup command may follow another one
          CutInReset,    \* whether the power may go during a factory reset
          MaxCuts,       \* bound: power cuts
          MaxCommands    \* bound: commands

Values == {1, 2}
Unset  == 0
Mode   == "mode"
ModeValues == {"SETUP", "NORMAL", "FACTORY_RESET"}

VARIABLES
  store,     \* State: RAM, flash, writes that are waiting
  running,   \* the mode the stone was started in
  stored,    \* _successfullyStoredBitmask of Setup
  reset,     \* a delayed reset is coming
  answer,    \* the last answer to a setup command
  data,      \* of each class: whether it has data in flash
  cuts, commands

modeVars == <<store, running, stored, reset, answer, data, cuts, commands>>

Default == [k \in Settings \cup {Mode} |-> IF k = Mode THEN "SETUP" ELSE Unset]

Init ==
  /\ store = [ram |-> Default, flash |-> Default, waiting |-> {}]
  /\ running = "SETUP"
  /\ stored = {} /\ reset = FALSE /\ answer = "none"
  /\ data = [c \in Classes |-> FALSE]
  /\ cuts = 0 /\ commands = 0
-----------------------------------------------------------------------------
(* RAM, flash, bitmask, reset and answer as a record, for the steps of a   *)
(* handler.                                                                *)

Now == [store |-> store, stored |-> stored, reset |-> reset, answer |-> answer]
Become(m) ==
  store' = m.store /\ stored' = m.stored /\ reset' = m.reset /\ answer' = m.answer

Put(m, k, v) ==
  [m EXCEPT !.store.ram[k] = v, !.store.waiting = @ \cup {k}]

\* finalize(): the mode is in flash, or something is wrong.
Finalize(m) ==
  IF m.store.flash[Mode] = "NORMAL" THEN [m EXCEPT !.answer = "SUCCESS", !.reset = TRUE]
  ELSE [m EXCEPT !.answer = "CANCELED"]

\* setNormalMode(): a mode that is normal already counts as written.
SetNormalMode(m) ==
  IF m.store.ram[Mode] = "NORMAL" THEN Finalize(m) ELSE Put(m, Mode, "NORMAL")

WhenAllStored(m) == IF m.stored = Settings THEN SetNormalMode(m) ELSE m

\* Mutant: the mode does not wait for all settings.
AnyStored(m, k) ==
  IF k = Mode THEN IF m.stored = Settings THEN Finalize(m) ELSE m
  ELSE SetNormalMode([m EXCEPT !.stored = @ \cup ({k} \cap Settings)])

\* onStorageDone(), of a setting, of the mode, or of anything else.
OnStorageDone(m, k) ==
  IF k = Mode THEN IF m.stored = Settings THEN Finalize(m) ELSE m
  ELSE WhenAllStored([m EXCEPT !.stored = @ \cup ({k} \cap Settings)])

\* handleCommand(): set all settings.  What has its value already counts as
\* stored.
SetupCommand(values) ==
  LET changed == {k \in Settings : store.ram[k] # values[k]}
      m == [Now EXCEPT !.stored = Settings \ changed, !.answer = "none",
                       !.store.ram = [k \in DOMAIN @ |-> IF k \in changed THEN values[k] ELSE @[k]],
                       !.store.waiting = @ \cup changed]
  IN /\ store.ram[Mode] = "SETUP"
     /\ Retries \/ store.waiting = {}
     /\ commands < MaxCommands /\ commands' = commands + 1
     /\ Become(WhenAllStored(m))
     /\ UNCHANGED <<running, data, cuts>>

\* State writes, and tells it.
Write(k) ==
  LET m == [Now EXCEPT !.store.flash[k] = store.ram[k], !.store.waiting = @ \ {k}]
  IN /\ k \in store.waiting
     /\ Become(OnStorageDone(m, k))
     /\ UNCHANGED <<running, data, cuts, commands>>

\* The write of something else.
WriteOther ==
  /\ stored = Settings
  /\ Become(OnStorageDone(Now, "other"))
  /\ UNCHANGED <<running, data, cuts, commands>>

\* performFactoryReset(), by a command that is only for a stone in normal mode:
\* the reset comes in 2 s, written or not.
PerformFactoryReset ==
  /\ running = "NORMAL"
  /\ commands < MaxCommands /\ commands' = commands + 1
  /\ IF store.ram[Mode] = "FACTORY_RESET" THEN Become([Now EXCEPT !.reset = TRUE])
     ELSE Become([Put(Now, Mode, "FACTORY_RESET") EXCEPT !.reset = TRUE])
  /\ UNCHANGED <<running, data, cuts>>

\* A class of a stone in normal mode stores data.
Use(c) ==
  /\ running = "NORMAL"
  /\ data' = [data EXCEPT ![c] = TRUE]
  /\ UNCHANGED <<store, running, stored, reset, answer, cuts, commands>>

\* The boot: what is in flash is loaded.
Boot ==
  /\ store' = [ram |-> store.flash, flash |-> store.flash, waiting |-> {}]
  /\ running' = store.flash[Mode]
  /\ stored' = {} /\ reset' = FALSE /\ answer' = "none"

DelayedReset == reset /\ Boot /\ UNCHANGED <<data, cuts, commands>>

PowerCut ==
  /\ cuts < MaxCuts /\ cuts' = cuts + 1
  /\ CutInReset \/ running # "FACTORY_RESET"
  /\ Boot
  /\ UNCHANGED <<data, commands>>

AllErased(d) == \A c \in Classes : ~d[c]

\* onClassFactoryResetDone(): the reset comes when all are done.
OnClassDone(erased, d) == erased /\ AllErased(d)

\* A class has erased its data, in factory reset mode.
EraseClass(c) ==
  /\ running = "FACTORY_RESET"
  /\ data[c]
  /\ data' = [data EXCEPT ![c] = FALSE]
  /\ reset' = OnClassDone(store.flash = Default, data')
  /\ UNCHANGED <<store, running, stored, answer, cuts, commands>>

\* State has erased its flash, which has the mode.
EraseState ==
  /\ running = "FACTORY_RESET" /\ store.flash # Default
  /\ store' = [store EXCEPT !.flash = Default, !.waiting = {}]
  /\ reset' = OnClassDone(TRUE, data)
  /\ UNCHANGED <<running, stored, answer, data, cuts, commands>>

Next ==
  \/ \E values \in [Settings -> Values] : SetupCommand(values)
  \/ \E k \in Settings \cup {Mode} : Write(k)
  \/ WriteOther \/ PerformFactoryReset \/ DelayedReset \/ PowerCut \/ EraseState
  \/ \E c \in Classes : Use(c) \/ EraseClass(c)

Spec ==
  /\ Init /\ [][Next]_modeVars
  /\ \A k \in Settings \cup {Mode} : WF_modeVars(Write(k))
  /\ WF_modeVars(DelayedReset) /\ WF_modeVars(EraseState)
  /\ \A c \in Classes : WF_modeVars(EraseClass(c))
-----------------------------------------------------------------------------
\* RAM, flash and the rest have their types.
TypeOK ==
  /\ \A m \in {store.ram, store.flash} :
       m[Mode] \in ModeValues /\ \A k \in Settings : m[k] \in Values \cup {Unset}
  /\ store.waiting \subseteq Settings \cup {Mode}
  /\ running \in ModeValues /\ stored \subseteq Settings
  /\ reset \in BOOLEAN /\ answer \in {"none", "SUCCESS", "CANCELED"}
  /\ data \in [Classes -> BOOLEAN]

\* A stone whose mode in flash is normal has all its settings in flash, those of
\* one command: wherever the power goes, it does not start in normal mode with
\* settings that miss or that are left from an earlier attempt.
NormalMeansConfigured ==
  store.flash[Mode] = "NORMAL" =>
    \A k \in Settings : store.flash[k] # Unset /\ store.flash[k] = store.ram[k]

\* A setup that was accepted ends with the stone in another mode, unless the
\* power goes before: every setting is waited for, and none in vain.  (MaxCuts
\* and MaxCommands bound what may come between, so it is said of the end.)
SetupEnds == []<>(running = "SETUP" => store.waiting = {})

\* A stone in setup mode has nothing of a former owner: the factory reset erased
\* all of it before the stone restarted.
NothingLeft == running = "SETUP" => AllErased(data)

\* A factory reset ends in setup mode.
FactoryResetEnds == (running = "FACTORY_RESET") ~> (running = "SETUP")
=============================================================================
