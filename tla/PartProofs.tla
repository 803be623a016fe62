----------------------------- MODULE PartProofs -----------------------------
(***************************************************************************)
(* Proofs about the components of Parts, for stones, slots, settings,      *)
(* records and commands of any number.                                     *)
(***************************************************************************)
EXTENDS Parts, SequenceFacts, TLAPS

-----------------------------------------------------------------------------
(* Setup and factory reset (OperationModes).                               *)

Keys == Settings \cup {"mode"}
Stored == [ram : [Keys -> Modes!Values \cup Modes!ModeValues \cup {Modes!Unset}],
           flash : [Keys -> Modes!Values \cup Modes!ModeValues \cup {Modes!Unset}],
           waiting : SUBSET Keys]

\* What a handler works on.
Handled == [store : Stored, stored : SUBSET Settings, reset : BOOLEAN,
            answer : {"none", "SUCCESS", "CANCELED"}]

ModesType ==
  /\ store \in Stored /\ stored \in SUBSET Settings /\ reset \in BOOLEAN
  /\ answer \in {"none", "SUCCESS", "CANCELED"}
  /\ running \in Modes!ModeValues /\ data \in [Classes -> BOOLEAN]
  /\ \A m \in {store.ram, store.flash} :
       m["mode"] \in Modes!ModeValues /\ \A k \in Settings : m[k] \in Modes!Values \cup {Modes!Unset}

\* In setup mode: what is stored is in flash, and the mode is normal as soon as
\* all is.
InSetup(m) ==
  /\ m.stored \cap m.store.waiting = {}
  /\ \A k \in m.stored \cup (m.store.waiting \ {"mode"}) : m.store.ram[k] # Modes!Unset
  /\ m.store.ram["mode"] = IF m.stored = Settings THEN "NORMAL" ELSE "SETUP"
  /\ m.store.flash["mode"] \in {"SETUP", m.store.ram["mode"]}

\* In normal mode: only the mode still changes.
InNormal(m) ==
  /\ m.stored = {} /\ m.store.waiting \subseteq {"mode"}
  /\ \A k \in Settings : m.store.ram[k] # Modes!Unset
  /\ m.store.ram["mode"] \in {"NORMAL", "FACTORY_RESET"}
  /\ m.store.flash["mode"] \in {"NORMAL", "FACTORY_RESET"}

\* In factory reset mode: the restart comes when nothing is left.
InReset(m, d) ==
  /\ m.stored = {} /\ m.store.waiting = {}
  /\ m.store.ram["mode"] = "FACTORY_RESET"
  /\ m.store.flash = Modes!Default \/ m.store.flash["mode"] = "FACTORY_RESET"
  /\ m.reset => m.store.flash = Modes!Default /\ Modes!AllErased(d)

\* What does not wait is in flash.
Written(m) == \A k \in Keys \ m.store.waiting : m.store.flash[k] = m.store.ram[k]

ModesInv ==
  /\ ModesType
  /\ running = "SETUP" => InSetup(Modes!Now) /\ Written(Modes!Now) /\ Modes!AllErased(data)
  /\ running = "NORMAL" => InNormal(Modes!Now) /\ Written(Modes!Now)
  /\ running = "FACTORY_RESET" => InReset(Modes!Now, data)

LEMMA ModesInit == Modes!Init => ModesInv
<1> SUFFICES ASSUME Modes!Init PROVE ModesInv
  OBVIOUS
<1>1. "mode" \notin Settings /\ Settings # {}
  BY PartsAssumption
<1>2. /\ Modes!Default["mode"] = "SETUP" /\ \A k \in Settings : Modes!Default[k] = Modes!Unset
      /\ Modes!Default \in [Keys -> Modes!Values \cup Modes!ModeValues \cup {Modes!Unset}]
  BY <1>1 DEF Modes!Default, Modes!Mode, Modes!ModeValues, Keys
<1>3. ModesType
  BY <1>2 DEF ModesType, Stored, Modes!Init, Modes!ModeValues, Modes!Values
<1> QED
  BY <1>1, <1>2, <1>3 DEF ModesInv, InSetup, Written, Modes!Init, Modes!Now, Modes!AllErased

LEMMA Booted ==
  ASSUME ModesInv, Modes!Boot, UNCHANGED data,
         running = "FACTORY_RESET" => reset
  PROVE  ModesInv'
<1>1. "mode" \notin Settings /\ Settings # {}
  BY PartsAssumption
<1>2. /\ Modes!Default["mode"] = "SETUP" /\ \A k \in Settings : Modes!Default[k] = Modes!Unset
  BY <1>1 DEF Modes!Default, Modes!Mode, Keys
<1>3. ModesType'
  BY DEF ModesType, ModesInv, Stored, Modes!Boot, Modes!Mode
<1>4. store' = [ram |-> store.flash, flash |-> store.flash, waiting |-> {}]
      /\ running' = store.flash["mode"] /\ stored' = {} /\ reset' = FALSE
  BY DEF Modes!Boot, Modes!Mode
<1>5. Written(Modes!Now)'
  BY <1>4 DEF Written, Modes!Now
<1>6. CASE running = "SETUP"
  BY <1>1, <1>3, <1>4, <1>5, <1>6 DEF ModesInv, InSetup, InNormal, InReset, Written, Keys,
     Modes!Now, ModesType, Modes!AllErased
<1>7. CASE running = "NORMAL"
  BY <1>1, <1>3, <1>4, <1>5, <1>7 DEF ModesInv, InNormal, InReset, Written, Keys, Modes!Now, ModesType
<1>8. CASE running = "FACTORY_RESET"
  BY <1>1, <1>2, <1>3, <1>4, <1>5, <1>8 DEF ModesInv, InSetup, InReset, Modes!Now, Modes!AllErased
<1> QED
  BY <1>6, <1>7, <1>8 DEF ModesInv, ModesType, Modes!ModeValues

\* The same, before the mode follows.
Configured(m) ==
  /\ m.stored \cap m.store.waiting = {}
  /\ \A k \in m.stored \cup (m.store.waiting \ {"mode"}) : m.store.ram[k] # Modes!Unset
  /\ m.store.ram["mode"] = "SETUP" \/ (m.store.ram["mode"] = "NORMAL" /\ m.stored = Settings)
  /\ m.store.flash["mode"] \in {"SETUP", m.store.ram["mode"]}

\* RAM and flash hold settings and modes where they belong.
WellStored(m) ==
  /\ m \in Handled
  /\ \A f \in {m.store.ram, m.store.flash} :
       f["mode"] \in Modes!ModeValues /\ \A k \in Settings : f[k] \in Modes!Values \cup {Modes!Unset}

LEMMA Finalized ==
  ASSUME NEW m \in Handled
  PROVE  /\ Modes!Finalize(m) \in Handled
         /\ Modes!Finalize(m).store = m.store /\ Modes!Finalize(m).stored = m.stored
BY DEF Modes!Finalize, Handled

LEMMA ModePut ==
  ASSUME NEW m \in Handled, NEW v \in Modes!ModeValues
  PROVE  LET r == Modes!Put(m, "mode", v)
         IN /\ r \in Handled /\ r.stored = m.stored /\ r.reset = m.reset /\ r.answer = m.answer
            /\ r.store.ram["mode"] = v /\ \A k \in Settings : r.store.ram[k] = m.store.ram[k]
            /\ r.store.flash = m.store.flash /\ r.store.waiting = m.store.waiting \cup {"mode"}
<1>1. "mode" \notin Settings
  BY PartsAssumption
<1> QED
  BY <1>1 DEF Modes!Put, Handled, Stored, Keys

LEMMA ModeFollows ==
  ASSUME NEW m, WellStored(m), Configured(m), Written(m)
  PROVE  LET r == Modes!WhenAllStored(m)
         IN WellStored(r) /\ InSetup(r) /\ Written(r)
<1> DEFINE r == Modes!WhenAllStored(m)
<1>1. "mode" \notin Settings /\ "NORMAL" \in Modes!ModeValues
  BY PartsAssumption DEF Modes!ModeValues
<1>2. CASE m.stored # Settings
  BY <1>2 DEF Modes!WhenAllStored, Configured, InSetup
<1>3. CASE m.stored = Settings /\ m.store.ram["mode"] = "NORMAL"
  <2>1. r = Modes!Finalize(m)
    BY <1>3 DEF Modes!WhenAllStored, Modes!SetNormalMode, Modes!Mode
  <2>2. r \in Handled /\ r.store = m.store /\ r.stored = m.stored
    BY <2>1, Finalized DEF WellStored
  <2> QED
    BY <1>3, <2>2 DEF Configured, InSetup, Written, WellStored
<1>4. CASE m.stored = Settings /\ m.store.ram["mode"] = "SETUP"
  <2>1. r = Modes!Put(m, "mode", "NORMAL")
    BY <1>4 DEF Modes!WhenAllStored, Modes!SetNormalMode, Modes!Mode
  <2>2. /\ r \in Handled /\ r.stored = m.stored
        /\ r.store.ram["mode"] = "NORMAL" /\ \A k \in Settings : r.store.ram[k] = m.store.ram[k]
        /\ r.store.flash = m.store.flash /\ r.store.waiting = m.store.waiting \cup {"mode"}
    BY <1>1, <2>1, ModePut DEF WellStored
  <2> HIDE DEF r
  <2>3. WellStored(r)
    BY <1>1, <2>2 DEF WellStored
  <2>4. m.store.waiting \subseteq Keys /\ m.stored \subseteq Settings
    BY DEF WellStored, Handled, Stored
  <2>5. InSetup(r)
    BY <1>1, <1>4, <2>2, <2>4 DEF Configured, InSetup, Keys
  <2>6. Written(r)
    BY <2>2, <2>4 DEF Written, Keys
  <2> QED
    BY <2>3, <2>5, <2>6 DEF r
<1> QED
  BY <1>2, <1>3, <1>4 DEF Configured

\* Of a handler that gives m, in the mode that the stone was started in.
LEMMA Becomes ==
  ASSUME NEW m, WellStored(m), Modes!Become(m), UNCHANGED running, data' \in [Classes -> BOOLEAN],
         ModesInv,
         running = "SETUP" => InSetup(m) /\ Written(m) /\ data' = data,
         running = "NORMAL" => InNormal(m) /\ Written(m),
         running = "FACTORY_RESET" => InReset(m, data')
  PROVE  ModesInv'
<1>1. m = Modes!Now'
  BY DEF WellStored, Handled, Modes!Become, Modes!Now
<1>2. ModesType'
  BY <1>1 DEF ModesType, ModesInv, WellStored, Handled, Modes!Become
<1> QED
  BY <1>1, <1>2 DEF ModesInv, Modes!AllErased

LEMMA NowStored ==
  ASSUME ModesInv
  PROVE  WellStored(Modes!Now)
BY DEF ModesInv, ModesType, WellStored, Handled, Modes!Now

LEMMA SetupCommandStep ==
  ASSUME ModesInv, ~ Retries, NEW values \in [Settings -> Modes!Values],
         Modes!SetupCommand(values)
  PROVE  ModesInv'
<1> DEFINE changed == {k \in Settings : store.ram[k] # values[k]}
           m == [Modes!Now EXCEPT !.stored = Settings \ changed, !.answer = "none",
                   !.store.ram = [k \in DOMAIN @ |-> IF k \in changed THEN values[k] ELSE @[k]],
                   !.store.waiting = @ \cup changed]
<1>1. "mode" \notin Settings
  BY PartsAssumption
<1>2. /\ store.ram["mode"] = "SETUP" /\ store.waiting = {}
      /\ Modes!Become(Modes!WhenAllStored(m)) /\ UNCHANGED <<running, data>>
  BY DEF Modes!SetupCommand, Modes!Mode
<1>3. running = "SETUP"
  BY <1>2 DEF ModesInv, InNormal, InReset, Modes!Now, ModesType, Modes!ModeValues
<1>4. WellStored(Modes!Now) /\ InSetup(Modes!Now) /\ Written(Modes!Now)
  BY <1>3, NowStored DEF ModesInv
<1>5. /\ m \in Handled /\ m.stored = Settings \ changed /\ m.store.waiting = changed
      /\ m.store.flash = store.flash
      /\ \A k \in Keys : m.store.ram[k] = IF k \in changed THEN values[k] ELSE store.ram[k]
  <2>1. /\ store \in Stored /\ changed \subseteq Keys
        /\ Modes!Now = [store |-> store, stored |-> stored, reset |-> reset, answer |-> answer]
        /\ reset \in BOOLEAN
    BY <1>4 DEF WellStored, Handled, Modes!Now, Keys
  <2> DEFINE ram == [k \in DOMAIN store.ram |-> IF k \in changed THEN values[k] ELSE store.ram[k]]
  <2>2. /\ DOMAIN store.ram = Keys
        /\ \A k \in Keys : store.ram[k] \in Modes!Values \cup Modes!ModeValues \cup {Modes!Unset}
    BY <2>1 DEF Stored
  <2>3. ram \in [Keys -> Modes!Values \cup Modes!ModeValues \cup {Modes!Unset}]
    BY <2>2
  <2>4. m = [Modes!Now EXCEPT !.stored = Settings \ changed, !.answer = "none",
                              !.store.ram = ram, !.store.waiting = @ \cup changed]
    BY <2>1
  <2> HIDE DEF m, ram, changed
  <2>5. /\ m \in Handled
        /\ m.store.ram = ram /\ m.store.flash = store.flash /\ m.store.waiting = changed
        /\ m.stored = Settings \ changed
    <3>1. Modes!Now \in Handled /\ Modes!Now.store = store
      BY <1>4, <2>1 DEF WellStored
    <3> HIDE DEF Modes!Now
    <3> QED
      BY <1>2, <2>1, <2>3, <2>4, <3>1 DEF Handled, Stored
  <2>6. \A k \in Keys : ram[k] = IF k \in changed THEN values[k] ELSE store.ram[k]
    BY <2>2 DEF ram
  <2> QED
    BY <2>5, <2>6
<1>6. \A k \in Settings : m.store.ram[k] = values[k]
  BY <1>5 DEF Keys
<1>7. m.store.ram["mode"] = "SETUP" /\ store.flash["mode"] = "SETUP"
  BY <1>1, <1>2, <1>4, <1>5 DEF Keys, InSetup, Modes!Now
<1> HIDE DEF m
<1>8. WellStored(m)
  BY <1>2, <1>4, <1>5, <1>6, <1>7 DEF WellStored, Modes!Now
<1>9. \A k \in Settings : values[k] # Modes!Unset
  BY DEF Modes!Values, Modes!Unset
<1>10. Configured(m)
  BY <1>5, <1>6, <1>7, <1>9 DEF Configured
<1>11. Written(m)
  BY <1>2, <1>4, <1>5 DEF Written, Modes!Now
<1>12. /\ WellStored(Modes!WhenAllStored(m)) /\ InSetup(Modes!WhenAllStored(m))
       /\ Written(Modes!WhenAllStored(m))
  BY <1>8, <1>10, <1>11, ModeFollows
<1>13. data' \in [Classes -> BOOLEAN]
  BY <1>2 DEF ModesInv, ModesType
<1> QED
  BY <1>2, <1>3, <1>12, <1>13, Becomes

\* onStorageDone(), when k is in flash.
LEMMA DoneInSetup ==
  ASSUME NEW m, WellStored(m), InSetup(m), Written(m), NEW k,
         k \in Settings => k \notin m.store.waiting /\ m.store.ram[k] # Modes!Unset
  PROVE  LET r == Modes!OnStorageDone(m, k) IN WellStored(r) /\ InSetup(r) /\ Written(r)
<1>1. CASE k = "mode"
  <2>1. /\ Modes!Finalize(m) \in Handled
        /\ Modes!Finalize(m).store = m.store /\ Modes!Finalize(m).stored = m.stored
    BY Finalized DEF WellStored
  <2> QED
    BY <1>1, <2>1 DEF Modes!OnStorageDone, Modes!Mode, WellStored, InSetup, Written
<1>2. CASE k # "mode"
  <2> DEFINE n == [m EXCEPT !.stored = @ \cup ({k} \cap Settings)]
  <2>1. /\ n \in Handled /\ n.store = m.store /\ n.stored = m.stored \cup ({k} \cap Settings)
        /\ m.stored \subseteq Settings
    BY DEF WellStored, Handled
  <2>2. Modes!OnStorageDone(m, k) = Modes!WhenAllStored(n)
    BY <1>2 DEF Modes!OnStorageDone, Modes!Mode
  <2> HIDE DEF n
  <2>3. WellStored(n) /\ Written(n)
    BY <2>1 DEF WellStored, Written
  <2>4. Configured(n)
    <3>1. n.stored \cap n.store.waiting = {}
      BY <2>1 DEF InSetup
    <3>2. \A j \in n.stored \cup (n.store.waiting \ {"mode"}) : n.store.ram[j] # Modes!Unset
      BY <2>1 DEF InSetup
    <3>3. m.stored = Settings => n.stored = Settings
      BY <2>1
    <3> QED
      BY <2>1, <3>1, <3>2, <3>3 DEF Configured, InSetup
  <2> QED
    BY <2>2, <2>3, <2>4, ModeFollows
<1> QED
  BY <1>1, <1>2

LEMMA WriteStep ==
  ASSUME ModesInv, NEW k \in Keys, Modes!Write(k)
  PROVE  ModesInv'
<1> DEFINE m == [Modes!Now EXCEPT !.store.flash[k] = store.ram[k], !.store.waiting = @ \ {k}]
<1>1. "mode" \notin Settings /\ Settings # {}
  BY PartsAssumption
<1>2. /\ k \in store.waiting /\ Modes!Become(Modes!OnStorageDone(m, k))
      /\ UNCHANGED <<running, data>>
  BY DEF Modes!Write
<1>3. WellStored(Modes!Now) /\ Modes!Now.store = store /\ Modes!Now.stored = stored
  BY NowStored DEF Modes!Now
<1>4. /\ m \in Handled /\ m.stored = stored /\ m.reset = Modes!Now.reset
      /\ m.store.ram = store.ram /\ m.store.waiting = store.waiting \ {k}
      /\ \A j \in Keys : m.store.flash[j] = IF j = k THEN store.ram[k] ELSE store.flash[j]
  <2> HIDE DEF Modes!Now
  <2> QED
    BY <1>3 DEF WellStored, Handled, Stored
<1> HIDE DEF m
<1>5. WellStored(m)
  BY <1>3, <1>4 DEF WellStored, Keys
<1>6. Written(Modes!Now) => Written(m)
  BY <1>3, <1>4 DEF Written
<1>7. data' \in [Classes -> BOOLEAN]
  BY <1>2 DEF ModesInv, ModesType
<1>8. CASE running = "SETUP"
  <2>1. InSetup(Modes!Now) /\ Written(Modes!Now)
    BY <1>8 DEF ModesInv
  <2>2. InSetup(m)
    BY <1>3, <1>4, <2>1 DEF InSetup, Keys
  <2>3. k \in Settings => k \notin m.store.waiting /\ m.store.ram[k] # Modes!Unset
    BY <1>1, <1>2, <1>3, <1>4, <2>1 DEF InSetup
  <2>4. /\ WellStored(Modes!OnStorageDone(m, k)) /\ InSetup(Modes!OnStorageDone(m, k))
        /\ Written(Modes!OnStorageDone(m, k))
    BY <1>5, <1>6, <2>1, <2>2, <2>3, DoneInSetup
  <2> QED
    BY <1>2, <1>7, <1>8, <2>4, Becomes
<1>9. CASE running = "NORMAL"
  <2>1. InNormal(Modes!Now) /\ Written(Modes!Now)
    BY <1>9 DEF ModesInv
  <2>2. k = "mode" /\ m.stored = {}
    BY <1>2, <1>3, <1>4, <2>1 DEF InNormal
  <2>3. Modes!OnStorageDone(m, k) = m
    BY <1>1, <2>2 DEF Modes!OnStorageDone, Modes!Mode
  <2>4. InNormal(m)
    BY <1>3, <1>4, <2>1, <2>2 DEF InNormal, Keys
  <2> QED
    BY <1>2, <1>5, <1>6, <1>7, <1>9, <2>1, <2>3, <2>4, Becomes
<1>10. CASE running = "FACTORY_RESET"
  BY <1>2, <1>3, <1>10 DEF ModesInv, InReset
<1> QED
  BY <1>8, <1>9, <1>10 DEF ModesInv, ModesType, Modes!ModeValues

LEMMA WriteOtherStep ==
  ASSUME ModesInv, Modes!WriteOther
  PROVE  ModesInv'
<1>1. Settings # {} /\ WellStored(Modes!Now) /\ Modes!Now.stored = stored
  BY PartsAssumption, NowStored DEF Modes!Now
<1>2. /\ stored = Settings /\ Modes!Become(Modes!OnStorageDone(Modes!Now, "other"))
      /\ UNCHANGED <<running, data>>
  BY DEF Modes!WriteOther
<1>3. running = "SETUP"
  BY <1>1, <1>2 DEF ModesInv, ModesType, Modes!ModeValues, InNormal, InReset
<1>4. InSetup(Modes!Now) /\ Written(Modes!Now)
  BY <1>3 DEF ModesInv
<1>5. "other" \in Settings => /\ "other" \notin Modes!Now.store.waiting
                             /\ Modes!Now.store.ram["other"] # Modes!Unset
  BY <1>1, <1>2, <1>4 DEF InSetup
<1>6. LET r == Modes!OnStorageDone(Modes!Now, "other")
      IN WellStored(r) /\ InSetup(r) /\ Written(r)
  BY <1>1, <1>4, <1>5, DoneInSetup
<1>7. data' \in [Classes -> BOOLEAN]
  BY <1>2 DEF ModesInv, ModesType
<1> QED
  BY <1>2, <1>3, <1>6, <1>7, Becomes

LEMMA PerformFactoryResetStep ==
  ASSUME ModesInv, Modes!PerformFactoryReset
  PROVE  ModesInv'
<1> DEFINE p == Modes!Put(Modes!Now, "mode", "FACTORY_RESET")
           m == IF store.ram["mode"] = "FACTORY_RESET" THEN [Modes!Now EXCEPT !.reset = TRUE]
                ELSE [p EXCEPT !.reset = TRUE]
<1>1. "mode" \notin Settings
  BY PartsAssumption
<1>2. running = "NORMAL" /\ Modes!Become(m) /\ UNCHANGED <<running, data>>
  BY DEF Modes!PerformFactoryReset, Modes!Mode
<1>3. /\ WellStored(Modes!Now) /\ InNormal(Modes!Now) /\ Written(Modes!Now)
      /\ Modes!Now.store = store
  BY <1>2, NowStored DEF ModesInv, Modes!Now
<1>4. "FACTORY_RESET" \in Modes!ModeValues
  BY DEF Modes!ModeValues
<1>5. /\ p \in Handled /\ p.stored = Modes!Now.stored
      /\ p.store.ram["mode"] = "FACTORY_RESET"
      /\ \A k \in Settings : p.store.ram[k] = store.ram[k]
      /\ p.store.flash = store.flash /\ p.store.waiting = store.waiting \cup {"mode"}
  BY <1>3, <1>4, ModePut DEF WellStored
<1> HIDE DEF p
<1>6. \/ m.store = store \/ m.store = p.store
  BY <1>3, <1>5 DEF WellStored, Handled
<1>7. m \in Handled /\ m.stored = Modes!Now.stored
  <2> HIDE DEF Modes!Now
  <2> QED
    BY <1>3, <1>5 DEF WellStored, Handled
<1> HIDE DEF m
<1>8. WellStored(m)
  BY <1>3, <1>4, <1>5, <1>6, <1>7 DEF WellStored
<1>9. InNormal(m)
  BY <1>3, <1>5, <1>6, <1>7 DEF InNormal
<1>10. Written(m)
  BY <1>3, <1>5, <1>6 DEF Written, Keys
<1>11. data' \in [Classes -> BOOLEAN]
  BY <1>2 DEF ModesInv, ModesType
<1> QED
  BY <1>2, <1>8, <1>9, <1>10, <1>11, Becomes

LEMMA UseStep ==
  ASSUME ModesInv, NEW c \in Classes, Modes!Use(c)
  PROVE  ModesInv'
<1>1. /\ running = "NORMAL" /\ data' = [data EXCEPT ![c] = TRUE]
      /\ UNCHANGED <<store, running, stored, reset, answer>>
  BY DEF Modes!Use
<1>2. Modes!Now' = Modes!Now
  BY <1>1 DEF Modes!Now
<1> QED
  BY <1>1, <1>2 DEF ModesInv, ModesType, InNormal, Written

LEMMA EraseClassStep ==
  ASSUME ModesInv, NEW c \in Classes, Modes!EraseClass(c)
  PROVE  ModesInv'
<1>1. /\ running = "FACTORY_RESET" /\ data' = [data EXCEPT ![c] = FALSE]
      /\ reset' = (store.flash = Modes!Default /\ Modes!AllErased(data'))
      /\ UNCHANGED <<store, running, stored, answer>>
  BY DEF Modes!EraseClass, Modes!OnClassDone
<1>2. InReset(Modes!Now, data)
  BY <1>1 DEF ModesInv
<1>3. InReset(Modes!Now', data')
  BY <1>1, <1>2 DEF InReset, Modes!Now
<1>4. ModesType'
  BY <1>1 DEF ModesInv, ModesType
<1> QED
  BY <1>1, <1>3, <1>4 DEF ModesInv

LEMMA EraseStateStep ==
  ASSUME ModesInv, Modes!EraseState
  PROVE  ModesInv'
<1>1. /\ running = "FACTORY_RESET" /\ reset' = (TRUE /\ Modes!AllErased(data))
      /\ store' = [store EXCEPT !.flash = Modes!Default, !.waiting = {}]
      /\ UNCHANGED <<running, stored, answer, data>>
  BY Zenon DEF Modes!EraseState, Modes!OnClassDone
<1>2. InReset(Modes!Now, data)
  BY <1>1 DEF ModesInv
<1>3. /\ Modes!Default["mode"] = "SETUP" /\ \A k \in Settings : Modes!Default[k] = Modes!Unset
      /\ Modes!Default \in [Keys -> Modes!Values \cup Modes!ModeValues \cup {Modes!Unset}]
  BY PartsAssumption DEF Modes!Default, Modes!Mode, Modes!ModeValues, Keys
<1>4. /\ store' \in Stored /\ store'.ram = store.ram
      /\ store'.flash = Modes!Default /\ store'.waiting = {}
  BY <1>1, <1>3 DEF ModesInv, ModesType, Stored
<1>5. InReset(Modes!Now', data')
  BY <1>1, <1>2, <1>4 DEF InReset, Modes!Now, Modes!AllErased
<1>6. ModesType'
  BY <1>1, <1>3, <1>4 DEF ModesInv, ModesType, Modes!ModeValues, Modes!AllErased
<1> QED
  BY <1>1, <1>5, <1>6 DEF ModesInv

LEMMA ModesNext ==
  ASSUME ModesInv, ~ Retries, ~ CutInReset, Modes!Next
  PROVE  ModesInv'
<1>1. ASSUME NEW values \in [Settings -> Modes!Values], Modes!SetupCommand(values)
      PROVE  ModesInv'
  BY <1>1, SetupCommandStep
<1>2. ASSUME NEW k \in Keys, Modes!Write(k) PROVE ModesInv'
  BY <1>2, WriteStep
<1>3. CASE Modes!DelayedReset
  BY <1>3, Booted DEF Modes!DelayedReset
<1>4. CASE Modes!PowerCut
  BY <1>4, Booted DEF Modes!PowerCut
<1> QED
  BY <1>1, <1>2, <1>3, <1>4, WriteOtherStep, PerformFactoryResetStep, UseStep, EraseClassStep,
     EraseStateStep
  DEF Modes!Next, Modes!Mode, Keys

LEMMA ModesStutter ==
  ASSUME ModesInv, UNCHANGED modeVars
  PROVE  ModesInv'
<1>1. Modes!Now' = Modes!Now
  BY DEF modeVars, Modes!Now
<1> QED
  BY <1>1 DEF modeVars, ModesInv, ModesType, InSetup, InNormal, InReset, Written, Modes!AllErased

LEMMA ModesHold ==
  ASSUME ModesInv
  PROVE  Modes!TypeOK /\ Modes!NormalMeansConfigured /\ Modes!NothingLeft
<1>1. Modes!TypeOK
  BY DEF ModesInv, ModesType, Modes!TypeOK, Modes!Mode, Stored, Keys
<1>2. Modes!NothingLeft
  BY DEF ModesInv, Modes!NothingLeft
<1>3. ASSUME store.flash["mode"] = "NORMAL", NEW k \in Settings
      PROVE  store.flash[k] # Modes!Unset /\ store.flash[k] = store.ram[k]
  <2>1. CASE running = "SETUP"
    BY <1>3, <2>1, PartsAssumption DEF ModesInv, InSetup, Written, Modes!Now, Keys
  <2>2. CASE running = "NORMAL"
    BY <1>3, <2>2, PartsAssumption DEF ModesInv, InNormal, Written, Modes!Now, Keys
  <2>3. CASE running = "FACTORY_RESET"
    BY <1>3, <2>3, PartsAssumption
    DEF ModesInv, InReset, Modes!Now, Modes!Default, Modes!Mode, Keys
  <2> QED
    BY <2>1, <2>2, <2>3 DEF ModesInv, ModesType, Modes!ModeValues
<1> QED
  BY <1>1, <1>2, <1>3 DEF Modes!NormalMeansConfigured, Modes!Mode

-----------------------------------------------------------------------------
(* Commands that take time (CommandHandler).                               *)

Ticks == 0 .. CommandTimeout
Awaits == [type : Types \cup {NoType}, source : Sources \cup {NoType}, countdown : Ticks]

\* Of each type at most one job works, and what is awaited was asked for by the
\* source of the job of its type.
RequestsInv ==
  /\ awaiting \in Awaits
  /\ jobs \subseteq [number : Nat, type : Types, source : Sources] /\ begun \in Nat
  /\ \A i, j \in jobs : i.type = j.type => i = j
  /\ \A j \in jobs : j.type = awaiting.type => j.source = awaiting.source
  /\ Requests!ResultGoesToAsker

LEMMA RequestsInit == Requests!Init => RequestsInv
BY PartsAssumption
DEF Requests!Init, Requests!Idle, RequestsInv, Requests!ResultGoesToAsker, Awaits, Ticks

LEMMA RequestsNext ==
  ASSUME RequestsInv, ~ Several, Requests!Next
  PROVE  RequestsInv'
<1>1. NoType \notin Types /\ 0 \in Ticks /\ CommandTimeout \in Ticks
  BY PartsAssumption DEF Ticks
<1>2. ASSUME NEW t \in Types, NEW s \in Sources, Requests!HandleCommand(t, s)
      PROVE  RequestsInv'
  <2> DEFINE new == [number |-> begun', type |-> t, source |-> s]
  <2>1. /\ \A j \in jobs : j.type # t
        /\ begun' = begun + 1 /\ jobs' = jobs \cup {new}
        /\ awaiting' = [type |-> t, source |-> s, countdown |-> CommandTimeout]
        /\ answers' = answers
    BY <1>2 DEF Requests!HandleCommand
  <2>2. begun' \in Nat /\ new \in [number : Nat, type : Types, source : Sources]
    BY <2>1 DEF RequestsInv
  <2>3. new.type = t /\ new.source = s
    OBVIOUS
  <2> HIDE DEF new
  <2> QED
    BY <1>1, <2>1, <2>2, <2>3 DEF RequestsInv, Requests!ResultGoesToAsker, Awaits
<1>3. ASSUME NEW j \in jobs, Requests!ResolveAsyncCommand(j)
      PROVE  RequestsInv'
  <2>1. CASE j.type = awaiting.type
    <3> DEFINE a == [job |-> j, to |-> awaiting.source]
    <3>1. /\ jobs' = jobs \ {j} /\ answers' = answers \cup {a}
          /\ awaiting' = [awaiting EXCEPT !.type = NoType, !.countdown = 0]
          /\ begun' = begun
      BY <1>3, <2>1 DEF Requests!ResolveAsyncCommand
    <3>2. a.to = a.job.source
      BY <2>1 DEF RequestsInv
    <3>3. Requests!ResultGoesToAsker'
      BY <3>1, <3>2 DEF RequestsInv, Requests!ResultGoesToAsker
    <3>4. awaiting' \in Awaits /\ awaiting'.type = NoType
      BY <1>1, <3>1 DEF RequestsInv, Awaits
    <3> QED
      BY <1>1, <3>1, <3>3, <3>4 DEF RequestsInv
  <2>2. CASE j.type # awaiting.type
    BY <1>3, <2>2 DEF RequestsInv, Requests!ResolveAsyncCommand, Requests!ResultGoesToAsker
  <2> QED
    BY <2>1, <2>2
<1>4. ASSUME NEW j \in jobs, Requests!Forget(j)
      PROVE  RequestsInv'
  BY <1>4 DEF RequestsInv, Requests!Forget, Requests!ResultGoesToAsker
<1>5. ASSUME Requests!Tick
      PROVE  RequestsInv'
  <2>1. UNCHANGED <<jobs, begun, answers>>
    BY <1>5 DEF Requests!Tick
  <2>2. awaiting.countdown - 1 \in Ticks
    BY <1>1, <1>5 DEF RequestsInv, Requests!Tick, Awaits, Ticks
  <2>3. /\ awaiting' \in Awaits
        /\ awaiting'.type \in {awaiting.type, NoType} /\ awaiting'.source = awaiting.source
    BY <1>1, <1>5, <2>2 DEF RequestsInv, Requests!Tick, Awaits
  <2> QED
    BY <1>1, <2>1, <2>3 DEF RequestsInv, Requests!ResultGoesToAsker
<1> QED
  BY <1>2, <1>3, <1>4, <1>5 DEF Requests!Next

LEMMA RequestsStutter ==
  ASSUME RequestsInv, UNCHANGED requestVars
  PROVE  RequestsInv'
BY DEF requestVars, RequestsInv, Requests!ResultGoesToAsker

-----------------------------------------------------------------------------
(* Clocks (SystemTime).                                                    *)

\* The state of a stone, with n clocks started so far.
ClockStates(n) ==
  [clock : 1 .. n, version : 0 .. VersionMax - 1,
   root : Clock!StoneIds \cup {0, Clock!AnyId}, since : 0 .. Reelection, synced : BOOLEAN]

\* What a stone sends is a clock that was started.
Sent(n, s, msg) ==
  /\ msg \in [src : Nat, version : Nat, clock : Nat, to : SUBSET Clock!StoneIds]
  /\ msg.src \in {0, s, Clock!AnyId} /\ msg.version \in 0 .. VersionMax - 1
  /\ msg.to \subseteq Clock!StoneIds \ {s}
  /\ msg.to # {} => msg.clock \in 1 .. n

TimesOf(n, times, airs) ==
  /\ n \in NumStones .. NumClocks
  /\ times \in [Clock!StoneIds -> ClockStates(n)]
  /\ DOMAIN airs = Clock!StoneIds /\ \A s \in Clock!StoneIds : Sent(n, s, airs[s])

ClockInv == TimesOf(clocks, time, timeAir)

LEMMA ClockInit == Clock!Init => ClockInv
<1> SUFFICES ASSUME Clock!Init PROVE ClockInv
  OBVIOUS
<1>1. clocks = NumStones /\ \A s \in Clock!StoneIds : s \in 1 .. NumStones
  BY DEF Clock!Init, Clock!StoneIds
<1>2. \A s \in Clock!StoneIds : Clock!Boot(s) \in ClockStates(clocks)
  BY <1>1, PartsAssumption DEF ClockStates, Clock!Boot
<1>3. \A s \in Clock!StoneIds : Sent(clocks, s, Clock!Silence)
  BY PartsAssumption DEF Sent, Clock!Silence, Clock!AnyId
<1> QED
  BY <1>1, <1>2, <1>3, PartsAssumption DEF ClockInv, TimesOf, Clock!Init

LEMMA NextVersionType ==
  ASSUME NEW v \in 0 .. VersionMax - 1
  PROVE  Clock!NextVersion(v, VersionMax) \in 0 .. VersionMax - 1
BY PartsAssumption DEF Clock!NextVersion

\* One more clock leaves all as it is.
LEMMA MoreClocks ==
  ASSUME ClockInv, clocks < NumClocks
  PROVE  TimesOf(clocks + 1, time, timeAir)
<1>1. NumStones \in Nat /\ NumClocks \in Nat /\ clocks \in Nat
  BY PartsAssumption DEF ClockInv, TimesOf
<1>2. 1 .. clocks \subseteq 1 .. (clocks + 1) /\ clocks + 1 \in NumStones .. NumClocks
  BY <1>1 DEF ClockInv, TimesOf
<1>3. ClockStates(clocks) \subseteq ClockStates(clocks + 1)
  BY <1>2 DEF ClockStates
<1>4. \A s \in Clock!StoneIds : Sent(clocks + 1, s, timeAir[s])
  BY <1>2 DEF Sent, ClockInv, TimesOf
<1> QED
  BY <1>2, <1>3, <1>4 DEF ClockInv, TimesOf

\* A stone that changes its clock.
LEMMA Keeps ==
  ASSUME NEW n, NEW times, NEW airs, TimesOf(n, times, airs), NEW s \in Clock!StoneIds,
         NEW t \in ClockStates(n)
  PROVE  TimesOf(n, [times EXCEPT ![s] = t], airs)
BY DEF TimesOf

\* A stone that sends its clock.
LEMMA Sends ==
  ASSUME NEW n, NEW times, NEW airs, TimesOf(n, times, airs), NEW s \in Clock!StoneIds,
         NEW src \in {0, s}, NEW t \in ClockStates(n), NEW to \in SUBSET (Clock!StoneIds \ {s})
  PROVE  TimesOf(n, times, [airs EXCEPT ![s] =
                              [src |-> src, version |-> t.version, clock |-> t.clock, to |-> to]])
<1> DEFINE msg == [src |-> src, version |-> t.version, clock |-> t.clock, to |-> to]
<1>1. s \in Nat /\ VersionMax \in Nat /\ n \in Nat
  BY PartsAssumption DEF TimesOf, Clock!StoneIds
<1>2. Sent(n, s, msg)
  BY <1>1 DEF Sent, ClockStates
<1> SUFFICES TimesOf(n, times, [airs EXCEPT ![s] = msg])
  OBVIOUS
<1> HIDE DEF msg
<1> QED
  BY <1>2 DEF TimesOf

LEMMA ClockNext ==
  ASSUME ClockInv, Clock!Next
  PROVE  ClockInv'
<1>0. /\ NumStones \in Nat /\ NumClocks \in Nat /\ clocks \in Nat /\ Reelection \in Nat
      /\ VersionMax \in Nat
      /\ time \in [Clock!StoneIds -> ClockStates(clocks)]
  BY PartsAssumption DEF ClockInv, TimesOf
<1>1. ASSUME NEW s \in Clock!StoneIds, NEW to \in SUBSET (Clock!StoneIds \ {s}), Clock!Period(s, to)
      PROVE  ClockInv'
  <2> DEFINE t == Clock!Claim(s, time[s])
             u == [t EXCEPT !.since = IF @ < Reelection THEN @ + 1 ELSE @]
  <2>1. t \in ClockStates(clocks)
    BY <1>0 DEF ClockStates, Clock!Claim
  <2>2. u \in ClockStates(clocks)
    <3>1. t.since \in 0 .. Reelection
      BY <2>1 DEF ClockStates
    <3>2. (IF t.since < Reelection THEN t.since + 1 ELSE t.since) \in 0 .. Reelection
      BY <1>0, <3>1
    <3> HIDE DEF t
    <3> QED
      BY <2>1, <3>2 DEF ClockStates
  <2>3. /\ time' = [time EXCEPT ![s] = u] /\ clocks' = clocks
        /\ timeAir' = [timeAir EXCEPT ![s] =
                         [src |-> s, version |-> t.version, clock |-> t.clock, to |-> to]]
    BY <1>1 DEF Clock!Period, Clock!Send
  <2> HIDE DEF t, u
  <2>4. TimesOf(clocks, time', timeAir)
    BY <2>2, <2>3, Keeps DEF ClockInv
  <2> QED
    BY <2>1, <2>3, <2>4, Sends DEF ClockInv
<1>2. ASSUME NEW s \in Clock!StoneIds, NEW to \in SUBSET (Clock!StoneIds \ {s}),
             Clock!AnswerSyncRequest(s, to)
      PROVE  ClockInv'
  <2>1. /\ time' = time /\ clocks' = clocks
        /\ timeAir' = [timeAir EXCEPT ![s] =
                         [src |-> s, version |-> time[s].version, clock |-> time[s].clock, to |-> to]]
    BY <1>2 DEF Clock!AnswerSyncRequest, Clock!Send
  <2>2. time[s] \in ClockStates(clocks)
    BY <1>0
  <2> QED
    BY <2>1, <2>2, Sends DEF ClockInv
<1>3. ASSUME NEW s \in Clock!StoneIds, NEW to \in SUBSET (Clock!StoneIds \ {s}), NEW toMesh \in BOOLEAN,
             Clock!SetTime(s, toMesh, to)
      PROVE  ClockInv'
  <2> DEFINE t == [time[s] EXCEPT !.clock = clocks + 1, !.root = 0,
                                  !.version = Clock!NextVersion(@, VersionMax)]
  <2>1. /\ clocks < NumClocks /\ clocks' = clocks + 1 /\ time' = [time EXCEPT ![s] = t]
        /\ timeAir' = IF toMesh THEN [timeAir EXCEPT ![s] =
                         [src |-> 0, version |-> t.version, clock |-> t.clock, to |-> to]]
                      ELSE timeAir
    BY <1>3 DEF Clock!SetTime, Clock!Send
  <2>2. TimesOf(clocks + 1, time, timeAir)
    BY <2>1, MoreClocks
  <2>3. time[s] \in ClockStates(clocks + 1) /\ clocks + 1 \in 1 .. (clocks + 1)
    BY <1>0, <2>2 DEF TimesOf
  <2>4. Clock!NextVersion(time[s].version, VersionMax) \in 0 .. VersionMax - 1
    BY <2>3, NextVersionType DEF ClockStates
  <2>5. t \in ClockStates(clocks + 1)
    BY <2>3, <2>4 DEF ClockStates
  <2> HIDE DEF t
  <2>6. TimesOf(clocks + 1, time', timeAir)
    BY <2>1, <2>2, <2>5, Keeps
  <2> QED
    BY <2>1, <2>5, <2>6, Sends DEF ClockInv
<1>4. ASSUME NEW s \in Clock!StoneIds, Clock!RebootTimedOut(s)
      PROVE  ClockInv'
  <2>1. [time[s] EXCEPT !.synced = TRUE] \in ClockStates(clocks)
    BY <1>0 DEF ClockStates
  <2>2. time' = [time EXCEPT ![s] = [time[s] EXCEPT !.synced = TRUE]]
    BY <1>4 DEF Clock!RebootTimedOut
  <2>3. TimesOf(clocks, [time EXCEPT ![s] = [time[s] EXCEPT !.synced = TRUE]], timeAir)
    BY <2>1, Keeps DEF ClockInv
  <2> QED
    BY <1>4, <2>2, <2>3 DEF ClockInv, Clock!RebootTimedOut
<1>5. ASSUME NEW s \in Clock!StoneIds, Clock!Reboot(s)
      PROVE  ClockInv'
  <2>1. clocks < NumClocks /\ clocks' = clocks + 1 /\ UNCHANGED timeAir
        /\ time' = [time EXCEPT ![s] = Clock!Boot(clocks + 1)]
    BY <1>5 DEF Clock!Reboot
  <2>2. Clock!Boot(clocks + 1) \in ClockStates(clocks + 1)
    BY <1>0, PartsAssumption DEF ClockStates, Clock!Boot
  <2> QED
    BY <2>1, <2>2, MoreClocks, Keeps DEF ClockInv
<1>6. ASSUME NEW s \in Clock!StoneIds, NEW r \in Clock!StoneIds, NEW again \in BOOLEAN,
             Clock!Receive(s, r, again)
      PROVE  ClockInv'
  <2> DEFINE msg == timeAir[s]
             t == Clock!OnTimeSyncMessage(r, time[r], msg)
             left == [msg EXCEPT !.to = @ \ {r}]
  <2>1. /\ r \in msg.to /\ time' = [time EXCEPT ![r] = t] /\ clocks' = clocks
        /\ timeAir' = IF again THEN timeAir ELSE [timeAir EXCEPT ![s] = left]
    BY <1>6 DEF Clock!Receive
  <2>2. Sent(clocks, s, msg) /\ time[r] \in ClockStates(clocks)
    BY <1>0 DEF ClockInv, TimesOf
  <2>3. t \in ClockStates(clocks)
    <3> DEFINE adopted == [clock |-> msg.clock, version |-> msg.version, since |-> 0, synced |-> TRUE,
                           root |-> IF r <= msg.src THEN r ELSE msg.src]
    <3>1. adopted.root \in Clock!StoneIds \cup {0, Clock!AnyId} /\ 0 \in 0 .. Reelection
      BY <1>0, <2>2 DEF Sent
    <3>2. msg.clock \in 1 .. clocks /\ msg.version \in 0 .. VersionMax - 1
      BY <2>1, <2>2 DEF Sent
    <3> HIDE DEF msg
    <3>3. adopted \in ClockStates(clocks)
      BY <3>1, <3>2 DEF ClockStates
    <3>4. t \in {time[r], adopted}
      BY DEF Clock!OnTimeSyncMessage
    <3> QED
      BY <2>2, <3>3, <3>4
  <2>4. Sent(clocks, s, left)
    BY <2>2 DEF Sent
  <2> HIDE DEF t, left
  <2>5. TimesOf(clocks, time', timeAir)
    BY <2>1, <2>3, Keeps DEF ClockInv
  <2> QED
    BY <2>1, <2>4, <2>5 DEF ClockInv, TimesOf
<1> QED
  BY <1>1, <1>2, <1>3, <1>4, <1>5, <1>6 DEF Clock!Next

LEMMA ClockStutter ==
  ASSUME ClockInv, UNCHANGED clockVars
  PROVE  ClockInv'
BY DEF clockVars, ClockInv

LEMMA ClockHolds == ClockInv => Clock!TypeOK
<1> SUFFICES ASSUME ClockInv PROVE Clock!TypeOK
  OBVIOUS
<1>1. /\ clocks \in NumStones .. NumClocks
      /\ \A s \in Clock!StoneIds : time[s] \in ClockStates(clocks) /\ Sent(clocks, s, timeAir[s])
  BY DEF ClockInv, TimesOf
<1> QED
  BY <1>1 DEF Clock!TypeOK, ClockStates, Sent

-----------------------------------------------------------------------------
(* Who is present (Presence).                                              *)

Seconds == 0 .. PresenceTimeout
Records == [Places -> [timeout : Seconds, mesh : Nat]]
Told == [places : SUBSET Places, sphere : {"unknown", "present", "absent"}]

\* What a stone told its listeners fits its records.  It tells nothing of the
\* sphere just after a boot.
Fits(recs, up, t) ==
  /\ recs \in Records /\ Cardinality(Users!Present(recs)) <= MaxRecords
  /\ up \in 0 .. Uncertain /\ t \in Told
  /\ Users!Present(recs) \subseteq t.places
  /\ up < Uncertain => t.sphere = "unknown"
  /\ t.sphere # "unknown" => (t.sphere = "present" <=> Users!Present(recs) # {})

PresenceInv ==
  /\ near \subseteq Places /\ presenceAir \subseteq Stones \X Places
  /\ users \in [Stones -> Records] /\ uptime \in [Stones -> 0 .. Uncertain] /\ told \in [Stones -> Told]
  /\ \A s \in Stones : Fits(users[s], uptime[s], told[s])

LEMMA NothingFits ==
  LET none == [p \in Places |-> Users!NoRecord]
  IN Fits(none, 0, [places |-> {}, sphere |-> "unknown"])
<1> DEFINE none == [p \in Places |-> Users!NoRecord]
<1>1. none \in Records /\ Users!Present(none) = {}
  BY PartsAssumption DEF Records, Seconds, Users!NoRecord, Users!Present
<1>2. Cardinality(Users!Present(none)) <= MaxRecords
  BY <1>1, PartsAssumption, FS_EmptySet
<1> QED
  BY <1>1, <1>2, PartsAssumption DEF Fits, Told

LEMMA PresenceInit == Users!Init => PresenceInv
<1> DEFINE none == [p \in Places |-> Users!NoRecord]
           t == [places |-> {}, sphere |-> "unknown"]
<1>1. Fits(none, 0, t)
  BY NothingFits
<1>2. none \in Records /\ 0 \in 0 .. Uncertain /\ t \in Told
  BY <1>1 DEF Fits
<1> SUFFICES ASSUME Users!Init PROVE PresenceInv
  OBVIOUS
<1>3. /\ users = [s \in Stones |-> none] /\ uptime = [s \in Stones |-> 0] /\ told = [s \in Stones |-> t]
      /\ near = {} /\ presenceAir = {}
  BY DEF Users!Init
<1> HIDE DEF none, t
<1> QED
  BY <1>1, <1>2, <1>3 DEF PresenceInv

\* Of one stone the records, and what it told, become recs and t.
LEMMA StoneChanges ==
  ASSUME PresenceInv, near' \subseteq Places, presenceAir' \subseteq Stones \X Places,
         NEW s \in Stones, NEW recs, NEW up, NEW t, Fits(recs, up, t),
         users' = [users EXCEPT ![s] = recs], uptime' = [uptime EXCEPT ![s] = up],
         told' = [told EXCEPT ![s] = t]
  PROVE  PresenceInv'
<1>1. recs \in Records /\ up \in 0 .. Uncertain /\ t \in Told
  BY DEF Fits
<1>2. users' \in [Stones -> Records] /\ uptime' \in [Stones -> 0 .. Uncertain] /\ told' \in [Stones -> Told]
  BY <1>1 DEF PresenceInv
<1>3. \A x \in Stones : Fits(users'[x], uptime'[x], told'[x])
  BY DEF PresenceInv
<1> QED
  BY <1>2, <1>3 DEF PresenceInv

\* The instance counts as this module does.
LEMMA SameCount == \A S : Users!Cardinality(S) = Cardinality(S)
BY DEF Users!Cardinality, Cardinality

LEMMA PresentFinite ==
  ASSUME NEW recs
  PROVE  /\ IsFiniteSet(Users!Present(recs)) /\ Cardinality(Users!Present(recs)) \in Nat
         /\ Users!Present(recs) \subseteq Places
<1>1. Users!Present(recs) \subseteq Places
  BY DEF Users!Present
<1> QED
  BY <1>1, PartsAssumption, FS_Subset, FS_CardinalityType

LEMMA FewerPresent ==
  ASSUME NEW recs, NEW after, Users!Present(after) \subseteq Users!Present(recs),
         Cardinality(Users!Present(recs)) <= MaxRecords
  PROVE  Cardinality(Users!Present(after)) <= MaxRecords
<1>1. Cardinality(Users!Present(after)) <= Cardinality(Users!Present(recs))
  BY PresentFinite, FS_Subset
<1> QED
  BY <1>1, PresentFinite, PartsAssumption

\* clearOldestRecord() finds a record, so there is room for p.
LEMMA RoomIsMade ==
  ASSUME NEW recs \in Records, NEW p \in Places, Cardinality(Users!Present(recs)) <= MaxRecords
  PROVE  LET r == Users!MakeRoom(recs, p)
         IN /\ r \in Records /\ Users!Present(r) \subseteq Users!Present(recs)
            /\ Cardinality(Users!Present(r) \cup {p}) <= MaxRecords
<1> DEFINE P == Users!Present(recs)
           r == Users!MakeRoom(recs, p)
           old == CHOOSE q \in P : \A x \in P : recs[q].timeout <= recs[x].timeout
<1>1. IsFiniteSet(P) /\ Cardinality(P) \in Nat /\ P \subseteq Places /\ MaxRecords \in Nat \ {0}
  BY PresentFinite, PartsAssumption
<1>2. CASE p \in P
  <2>1. r = recs /\ P \cup {p} = P
    BY <1>2 DEF Users!MakeRoom
  <2> QED
    BY <2>1
<1>3. CASE p \notin P /\ Cardinality(P) # MaxRecords
  <2>1. r = recs
    BY <1>3, SameCount DEF Users!MakeRoom
  <2>2. Cardinality(P \cup {p}) = Cardinality(P) + 1
    BY <1>1, <1>3, FS_AddElement
  <2>3. Cardinality(P \cup {p}) <= MaxRecords
    BY <1>1, <1>3, <2>2
  <2> QED
    BY <2>1, <2>3
<1>4. CASE p \notin P /\ Cardinality(P) = MaxRecords
  <2>1. P # {}
    BY <1>1, <1>4, FS_EmptySet
  <2>2. \A q \in P : recs[q].timeout \in Nat
    BY <1>1, PartsAssumption DEF Records, Seconds
  <2>3. \E q \in P : \A x \in P : recs[q].timeout <= recs[x].timeout
    <3> DEFINE T == {recs[q].timeout : q \in P}
    <3>1. T \in SUBSET Nat /\ T # {}
      BY <2>1, <2>2
    <3>2. PICK t \in T : \A y \in T : t <= y
      BY <3>1, Smallest
    <3> QED
      BY <3>2
  <2>4. old \in P
    BY <2>3
  <2>5. r = [recs EXCEPT ![old] = Users!NoRecord]
    BY <1>4, SameCount DEF Users!MakeRoom
  <2> HIDE DEF old, r
  <2>6. r \in Records /\ Users!Present(r) = P \ {old}
    BY <1>1, <2>4, <2>5, PartsAssumption DEF Records, Seconds, Users!NoRecord, Users!Present
  <2>7. Cardinality(P \ {old}) = Cardinality(P) - 1 /\ IsFiniteSet(P \ {old})
    BY <1>1, <2>4, FS_RemoveElement
  <2>8. Cardinality((P \ {old}) \cup {p}) = Cardinality(P \ {old}) + 1
    BY <1>4, <2>7, FS_AddElement
  <2> QED
    BY <1>1, <1>4, <2>6, <2>7, <2>8 DEF r
<1> QED
  BY <1>2, <1>3, <1>4

\* handlePresenceEvent(), with the records `after` in which p is present.
LEMMA PresenceHandled ==
  ASSUME PresenceInv, NEW s \in Stones, NEW p \in Places, NEW fromMesh \in BOOLEAN,
         NEW throttle \in Throttles, NEW left \in SUBSET (Stones \X Places),
         Users!HandlePresence(s, p, fromMesh, throttle, left), UNCHANGED <<near, uptime>>
  PROVE  PresenceInv'
<1> DEFINE before == users[s]
           recs == Users!MakeRoom(before, p)
           countdown == recs[p].mesh
           new == [timeout |-> PresenceTimeout, mesh |-> IF countdown = 0 THEN throttle ELSE countdown]
           after == [recs EXCEPT ![p] = new]
           t == [places |-> IF p \in Users!Present(before) THEN told[s].places ELSE told[s].places \cup {p},
                 sphere |-> Users!Sphere(s, before, after)]
<1>1. /\ users' = [users EXCEPT ![s] = after] /\ told' = [told EXCEPT ![s] = t]
      /\ presenceAir' = left \cup Users!Forward(s, p, fromMesh, countdown)
  BY DEF Users!HandlePresence
<1>2. presenceAir' \subseteq Stones \X Places
  BY <1>1 DEF Users!Forward
<1>3. Fits(before, uptime[s], told[s])
  BY DEF PresenceInv
<1>4. /\ recs \in Records /\ Users!Present(recs) \subseteq Users!Present(before)
      /\ Cardinality(Users!Present(recs) \cup {p}) <= MaxRecords
  BY <1>3, RoomIsMade DEF Fits
<1> HIDE DEF recs, before
<1>5. new \in [timeout : Seconds, mesh : Nat] /\ new.timeout # 0
  BY <1>4, PartsAssumption DEF Records, Seconds
<1> HIDE DEF new
<1>6. after \in Records /\ Users!Present(after) = Users!Present(recs) \cup {p}
  BY <1>4, <1>5 DEF Records, Users!Present
<1> HIDE DEF after
<1>7. t \in Told
  BY <1>3 DEF Told, Fits, Users!Sphere, before
<1>8. Users!Present(after) \subseteq t.places
  BY <1>3, <1>4, <1>6 DEF Fits
<1>9. t.sphere = Users!Sphere(s, before, after)
  OBVIOUS
<1> HIDE DEF t
<1>10. uptime[s] < Uncertain => t.sphere = "unknown"
  BY <1>3, <1>9, PartsAssumption DEF Fits, Users!Sphere, before
<1>11. t.sphere # "unknown" => (t.sphere = "present" <=> Users!Present(after) # {})
  BY <1>3, <1>6, <1>9, <1>10 DEF Fits, Users!Sphere, before
<1>12. Fits(after, uptime[s], t)
  BY <1>3, <1>4, <1>6, <1>7, <1>8, <1>10, <1>11 DEF Fits
<1>13. uptime' = [uptime EXCEPT ![s] = uptime[s]] /\ near' \subseteq Places
  BY DEF PresenceInv
<1> QED
  BY <1>1, <1>2, <1>12, <1>13, StoneChanges

LEMMA PresenceTicks ==
  ASSUME PresenceInv, NEW s \in Stones, Users!TickSecond(s)
  PROVE  PresenceInv'
<1> DEFINE recs == users[s]
           after == [p \in Places |->
                       IF recs[p].timeout <= 1 THEN Users!NoRecord
                       ELSE [timeout |-> recs[p].timeout - 1, mesh |-> Users!Decrease(recs[p].mesh)]]
           t == [places |-> told[s].places \ (Users!Present(recs) \ Users!Present(after)),
                 sphere |-> Users!Sphere(s, recs, after)]
           up == IF uptime[s] < Uncertain THEN uptime[s] + 1 ELSE uptime[s]
<1>1. /\ users' = [users EXCEPT ![s] = after] /\ told' = [told EXCEPT ![s] = t]
      /\ uptime' = [uptime EXCEPT ![s] = up] /\ UNCHANGED <<near, presenceAir>>
  BY DEF Users!TickSecond, Users!TickedSphere
<1>2. Fits(recs, uptime[s], told[s])
  BY DEF PresenceInv
<1> HIDE DEF recs
<1>3. \A p \in Places : recs[p].timeout \in Seconds /\ recs[p].mesh \in Nat
  BY <1>2 DEF Fits, Records
<1>4. \A p \in Places : after[p] \in [timeout : Seconds, mesh : Nat]
  BY <1>3, PartsAssumption DEF Seconds, Users!NoRecord, Users!Decrease
<1>5. \A p \in Places : after[p].timeout # 0 => recs[p].timeout # 0
  BY <1>3 DEF Users!NoRecord, Seconds
<1>6. DOMAIN after = Places
  OBVIOUS
<1> HIDE DEF after
<1>7. after \in Records /\ Users!Present(after) \subseteq Users!Present(recs)
  <2>1. after \in Records
    <3>1. after = [p \in Places |-> after[p]]
      BY DEF after
    <3> QED
      BY <1>4, <3>1 DEF Records
  <2> QED
    BY <1>5, <2>1 DEF Users!Present
<1>8. Cardinality(Users!Present(after)) <= MaxRecords
  BY <1>2, <1>7, FewerPresent DEF Fits
<1>9. up \in 0 .. Uncertain /\ (up < Uncertain => uptime[s] < Uncertain)
  BY <1>2, PartsAssumption DEF Fits
<1> HIDE DEF up
<1>10. t \in Told /\ Users!Present(after) \subseteq t.places /\ t.sphere = Users!Sphere(s, recs, after)
  BY <1>2, <1>7 DEF Told, Fits, Users!Sphere, recs
<1> HIDE DEF t
<1>11. up < Uncertain => t.sphere = "unknown"
  BY <1>2, <1>9, <1>10 DEF Fits, Users!Sphere, recs
<1>12. t.sphere # "unknown" => (t.sphere = "present" <=> Users!Present(after) # {})
  BY <1>2, <1>7, <1>10 DEF Fits, Users!Sphere, recs
<1>13. Fits(after, up, t)
  BY <1>7, <1>8, <1>9, <1>10, <1>11, <1>12 DEF Fits
<1>14. near' \subseteq Places /\ presenceAir' \subseteq Stones \X Places
  BY <1>1 DEF PresenceInv
<1> QED
  BY <1>1, <1>13, <1>14, StoneChanges

LEMMA PresenceNext ==
  ASSUME PresenceInv, Users!Next
  PROVE  PresenceInv'
<1>1. ASSUME NEW p \in Places, Users!Walk(p) PROVE PresenceInv'
  BY <1>1 DEF PresenceInv, Users!Walk
<1>2. ASSUME NEW s \in Stones, Users!TickSecond(s) PROVE PresenceInv'
  BY <1>2, PresenceTicks
<1>3. ASSUME NEW s \in Stones, Users!Reset(s) PROVE PresenceInv'
  <2> DEFINE none == [p \in Places |-> Users!NoRecord]
             t == [places |-> {}, sphere |-> "unknown"]
  <2>1. /\ users' = [users EXCEPT ![s] = none] /\ uptime' = [uptime EXCEPT ![s] = 0]
        /\ told' = [told EXCEPT ![s] = t] /\ UNCHANGED <<near, presenceAir>>
    BY <1>3 DEF Users!Reset
  <2>2. Fits(none, 0, t)
    BY NothingFits
  <2> HIDE DEF none, t
  <2>3. near' \subseteq Places /\ presenceAir' \subseteq Stones \X Places
    BY <2>1 DEF PresenceInv
  <2> QED
    BY <2>1, <2>2, <2>3, StoneChanges
<1>4. ASSUME NEW s \in Stones, NEW p \in Places, Users!Lose(s, p) PROVE PresenceInv'
  BY <1>4 DEF PresenceInv, Users!Lose
<1>5. ASSUME NEW s \in Stones, NEW p \in Places, NEW throttle \in Throttles,
             Users!Scan(s, p, throttle)
      PROVE  PresenceInv'
  <2>1. presenceAir \in SUBSET (Stones \X Places)
    BY DEF PresenceInv
  <2>2. Users!HandlePresence(s, p, FALSE, throttle, presenceAir) /\ UNCHANGED <<near, uptime>>
    BY <1>5 DEF Users!Scan
  <2> QED
    BY <2>1, <2>2, PresenceHandled
<1>6. ASSUME NEW s \in Stones, NEW p \in Places, NEW throttle \in Throttles, NEW again \in BOOLEAN,
             Users!Receive(s, p, throttle, again)
      PROVE  PresenceInv'
  <2> DEFINE left == IF again THEN presenceAir ELSE presenceAir \ {<<s, p>>}
  <2>1. left \in SUBSET (Stones \X Places)
    BY DEF PresenceInv
  <2>2. Users!HandlePresence(s, p, TRUE, throttle, left) /\ UNCHANGED <<near, uptime>>
    BY <1>6 DEF Users!Receive
  <2> HIDE DEF left
  <2> QED
    BY <2>1, <2>2, PresenceHandled
<1> QED
  BY <1>1, <1>2, <1>3, <1>4, <1>5, <1>6 DEF Users!Next

LEMMA PresenceStutter ==
  ASSUME PresenceInv, UNCHANGED userVars
  PROVE  PresenceInv'
BY DEF userVars, PresenceInv

LEMMA PresenceHolds == PresenceInv => Users!TypeOK /\ Users!EventsTellPresence
<1> SUFFICES ASSUME PresenceInv PROVE Users!TypeOK /\ Users!EventsTellPresence
  OBVIOUS
<1>1. \A s \in Stones : /\ users[s] \in Records /\ uptime[s] \in 0 .. Uncertain /\ told[s] \in Told
                        /\ Cardinality(Users!Present(users[s])) <= MaxRecords
  BY DEF PresenceInv, Fits
<1>2. /\ users \in [Stones -> Records] /\ uptime \in [Stones -> 0 .. Uncertain]
      /\ told \in [Stones -> Told]
  BY DEF PresenceInv
<1>3. Users!TypeOK
  BY <1>1, <1>2, SameCount DEF Users!TypeOK, PresenceInv, Records, Seconds, Told
<1>4. Users!EventsTellPresence
  BY DEF Users!EventsTellPresence, PresenceInv, Fits
<1> QED
  BY <1>3, <1>4
-----------------------------------------------------------------------------
(* Unicast (MeshUnicast), when replies do not come after the end of their  *)
(* item.                                                                   *)

Item == [id : Unicast!Items, kind : Unicast!Kinds, priority : BOOLEAN] \cup {Unicast!NoItem}
Queue == [slot : [Unicast!Slots -> Item], inProgress : Unicast!Slots \cup {Unicast!None},
          next : Unicast!Slots, status : {"none", "success", "timeout"}, replied : BOOLEAN]

\* What is in progress is what the access layer is transferring.
Transfers(q, moved) ==
  q.inProgress # Unicast!None =>
    q.slot[q.inProgress] # Unicast!NoItem /\ q.slot[q.inProgress].id = moved

Outcomes == [Unicast!Items -> {"none", "SUCCESS", "TIMEOUT", "removed"}]

UnicastInv ==
  /\ \E n \in 0 .. NumItems : target \in [1 .. n -> Stones]
  /\ uni \in Queue /\ transfer \in Unicast!Items \cup {Unicast!NoTransfer} /\ heard \subseteq Unicast!Items
  /\ Transfers(uni, transfer)
  /\ outcome \in Outcomes /\ Unicast!AckMeansHeard

LEMMA SlotNumbers ==
  /\ NumItems \in Nat /\ QueueSize \in Nat \ {0} /\ 0 \in Unicast!Slots
  /\ Unicast!Slots \subseteq Nat /\ Unicast!None \notin Unicast!Slots
BY PartsAssumption DEF Unicast!Slots, Unicast!None

LEMMA UnicastInit == Unicast!Init => UnicastInv
<1> SUFFICES ASSUME Unicast!Init PROVE UnicastInv
  OBVIOUS
<1>1. 0 \in 0 .. NumItems /\ target \in [1 .. 0 -> Stones]
  BY SlotNumbers DEF Unicast!Init
<1>2. uni \in Queue
  BY SlotNumbers DEF Unicast!Init, Queue, Item
<1> QED
  BY <1>1, <1>2 DEF UnicastInv, Unicast!Init, Transfers, Outcomes, Unicast!AckMeansHeard

\* A set of slots has a first one.
LEMMA FirstOf ==
  ASSUME NEW q \in Queue, NEW S \in SUBSET Unicast!Slots, S # {}
  PROVE  Unicast!First(q, S) \in S
<1> DEFINE Far(x) == (x + QueueSize - q.next) % QueueSize
           D == {Far(x) : x \in S}
<1>1. \A x \in Unicast!Slots : Far(x) \in Nat
  BY SlotNumbers DEF Queue, Unicast!Slots
<1>2. D \in SUBSET Nat /\ D # {}
  BY <1>1
<1>3. PICK d \in D : \A y \in D : d <= y
  BY <1>2, Smallest
<1>4. PICK x \in S : d = Far(x)
  BY <1>3
<1>5. \E y \in S : \A z \in S : Far(y) <= Far(z)
  BY <1>3, <1>4
<1> QED
  BY <1>5 DEF Unicast!First

LEMMA ItemsLeave ==
  ASSUME NEW q \in Queue, NEW S
  PROVE  LET r == Unicast!RemQueueItems(q, S)
         IN /\ r \in Queue
            /\ \A x \in Unicast!Slots : r.slot[x] = IF x \in S THEN Unicast!NoItem ELSE q.slot[x]
            /\ r.inProgress = IF q.inProgress \in S THEN Unicast!None ELSE q.inProgress
<1> DEFINE slot == [x \in Unicast!Slots |-> IF x \in S THEN Unicast!NoItem ELSE q.slot[x]]
           now == IF q.inProgress \in S THEN Unicast!None ELSE q.inProgress
           r == Unicast!RemQueueItems(q, S)
<1>1. slot \in [Unicast!Slots -> Item] /\ now \in Unicast!Slots \cup {Unicast!None}
  BY DEF Queue, Item
<1>2. r = [q EXCEPT !.slot = slot, !.inProgress = now]
  BY DEF Unicast!RemQueueItems
<1>3. \A x \in Unicast!Slots : slot[x] = IF x \in S THEN Unicast!NoItem ELSE q.slot[x]
  OBVIOUS
<1>4. now = IF q.inProgress \in S THEN Unicast!None ELSE q.inProgress
  OBVIOUS
<1> HIDE DEF slot, now, r
<1>5. r \in Queue /\ r.slot = slot /\ r.inProgress = now
  BY <1>1, <1>2 DEF Queue
<1> QED
  BY <1>3, <1>4, <1>5 DEF r

\* What sendMsgFromQueue() hands to the access layer, when that is free.
LEMMA NextIsSent ==
  ASSUME NEW q \in Queue, NEW ok
  PROVE  LET r == Unicast!SendMsgFromQueue(q, ok)
         IN /\ r \in Queue /\ r.slot = q.slot
            /\ \/ r.inProgress = q.inProgress
               \/ /\ transfer = Unicast!NoTransfer /\ q.inProgress = Unicast!None
                  /\ r.inProgress \in Unicast!Slots /\ r.slot[r.inProgress] # Unicast!NoItem
<1> DEFINE x == Unicast!GetNextItemInQueue(q)
           r == Unicast!SendMsgFromQueue(q, ok)
           next == (x + 1) % QueueSize
           c == [q EXCEPT !.status = "none", !.replied = FALSE]
           sent == [c EXCEPT !.inProgress = x, !.next = next]
<1>1. CASE ~ Unicast!HasNext(q)
  BY <1>1 DEF Unicast!SendMsgFromQueue
<1>2. c \in Queue /\ c.slot = q.slot /\ c.inProgress = q.inProgress
  BY DEF Queue
<1>3. CASE Unicast!HasNext(q) /\ ~ (ok /\ transfer = Unicast!NoTransfer)
  BY <1>2, <1>3 DEF Unicast!SendMsgFromQueue
<1>4. CASE Unicast!HasNext(q) /\ ok /\ transfer = Unicast!NoTransfer
  <2> DEFINE used == Unicast!Slots \ Unicast!FreeSlots(q)
             high == {y \in used : q.slot[y].priority}
  <2>1. q.inProgress = Unicast!None /\ used # {}
    BY <1>4 DEF Unicast!HasNext, Unicast!FreeSlots
  <2>2. x \in used
    <3>1. used \in SUBSET Unicast!Slots /\ high \in SUBSET Unicast!Slots
      OBVIOUS
    <3>2. high # {} => Unicast!First(q, high) \in high
      BY <3>1, FirstOf
    <3>3. Unicast!First(q, used) \in used
      BY <2>1, <3>1, FirstOf
    <3> QED
      BY <3>2, <3>3 DEF Unicast!GetNextItemInQueue
  <2>3. x \in Unicast!Slots /\ q.slot[x] # Unicast!NoItem
    BY <2>2 DEF Unicast!FreeSlots
  <2>4. next \in Unicast!Slots
    BY <2>3, SlotNumbers DEF Unicast!Slots
  <2>5. r = sent
    BY <1>4 DEF Unicast!SendMsgFromQueue
  <2> HIDE DEF x, next, c
  <2>6. sent \in Queue /\ sent.slot = c.slot /\ sent.inProgress = x
    BY <1>2, <2>3, <2>4 DEF Queue
  <2> QED
    BY <1>2, <1>4, <2>1, <2>3, <2>5, <2>6
<1> QED
  BY <1>1, <1>3, <1>4

\* checkDone(), of the item that is in progress.
LEMMA DoneIsChecked ==
  ASSUME NEW q \in Queue
  PROVE  LET r == Unicast!CheckDone(q)
         IN /\ r \in Queue
            /\ Unicast!Verdict(q) # "none" => r.inProgress = Unicast!None
            /\ Unicast!Verdict(q) = "none" => r = q
<1>1. Unicast!Verdict(q) # "none" => q.inProgress # Unicast!None
  BY DEF Unicast!Verdict
<1> QED
  BY <1>1, ItemsLeave DEF Unicast!CheckDone

LEMMA StatusType ==
  ASSUME NEW q \in Queue, NEW st \in {"success", "timeout"}
  PROVE  /\ Unicast!WithStatus(q, st) \in Queue /\ Unicast!WithReply(q) \in Queue
         /\ Unicast!WithStatus(q, st).slot = q.slot /\ Unicast!WithReply(q).slot = q.slot
         /\ Unicast!WithStatus(q, st).inProgress = q.inProgress
         /\ Unicast!WithReply(q).inProgress = q.inProgress
         /\ q.inProgress # Unicast!None => /\ Unicast!WithStatus(q, st).status = st
                                           /\ Unicast!WithReply(q).replied
                                           /\ Unicast!WithReply(q).status = q.status
BY DEF Unicast!WithStatus, Unicast!WithReply, Queue

\* What is reported: a success only of a message that its stone has received.
LEMMA Reported ==
  ASSUME UnicastInv, NEW q \in Queue, q.slot = uni.slot, q.inProgress = uni.inProgress,
         Unicast!Verdict(q) = "SUCCESS" => transfer \in heard
  PROVE  /\ Unicast!Report(q) \in Outcomes
         /\ \A i \in Unicast!Items : Unicast!Report(q)[i] = "SUCCESS" => i \in heard
<1>1. Unicast!Verdict(q) \in {"none", "SUCCESS", "TIMEOUT"}
  BY DEF Unicast!Verdict
<1>2. CASE Unicast!Verdict(q) = "none"
  BY <1>2 DEF Unicast!Report, UnicastInv, Unicast!AckMeansHeard
<1>3. CASE Unicast!Verdict(q) # "none"
  <2>1. q.inProgress # Unicast!None
    BY <1>3 DEF Unicast!Verdict
  <2>2. q.slot[q.inProgress].id = transfer
    BY <2>1 DEF UnicastInv, Transfers
  <2>3. Unicast!Report(q) = [outcome EXCEPT ![transfer] = Unicast!Verdict(q)]
    BY <1>3, <2>2 DEF Unicast!Report
  <2> QED
    BY <1>1, <1>3, <2>3 DEF UnicastInv, Outcomes, Unicast!AckMeansHeard
<1> QED
  BY <1>2, <1>3

LEMMA CountAccepted ==
  ASSUME NEW n \in 0 .. NumItems, target \in [1 .. n -> Stones]
  PROVE  Unicast!Cardinality(Unicast!Accepted) = n
<1>1. n \in Nat /\ 1 \in Int /\ n \in Int /\ DOMAIN target = 1 .. n
  BY SlotNumbers
<1>2. \A S : Unicast!Cardinality(S) = Cardinality(S)
  BY DEF Unicast!Cardinality, Cardinality
<1>3. Cardinality(1 .. n) = n
  BY <1>1, FS_Interval
<1> QED
  BY <1>1, <1>2, <1>3 DEF Unicast!Accepted

LEMMA AddToQueueStep ==
  ASSUME UnicastInv, NEW s \in Stones, NEW kind \in Unicast!Kinds, NEW priority \in BOOLEAN,
         NEW ok \in BOOLEAN, Unicast!AddToQueue(s, kind, priority, ok)
  PROVE  UnicastInv'
<1> DEFINE id == Unicast!Cardinality(Unicast!Accepted) + 1
           gone == Unicast!Removed(kind)
           r == Unicast!RemQueueItems(uni, gone)
           free == Unicast!First(r, Unicast!FreeSlots(r))
           it == [id |-> id, kind |-> kind, priority |-> priority]
           slot == [r.slot EXCEPT ![free] = it]
           q == [r EXCEPT !.slot = slot]
<1>1. /\ id \in Unicast!Items /\ Unicast!FreeSlots(r) # {}
      /\ target' = [i \in 1 .. id |-> IF i = id THEN s ELSE target[i]]
      /\ uni' = Unicast!SendMsgFromQueue(q, ok)
      /\ transfer' = IF uni'.inProgress # r.inProgress THEN uni'.slot[uni'.inProgress].id ELSE transfer
      /\ outcome' = [i \in Unicast!Items |->
           IF \E x \in gone : uni.slot[x].id = i THEN "removed" ELSE outcome[i]]
      /\ heard' = heard
  BY DEF Unicast!AddToQueue
<1>2. \E n \in 0 .. NumItems : target' \in [1 .. n -> Stones]
  <2>1. PICK n \in 0 .. NumItems : target \in [1 .. n -> Stones]
    BY DEF UnicastInv
  <2>2. id = n + 1 /\ id \in 0 .. NumItems /\ n \in Nat
    BY <1>1, <2>1, CountAccepted, SlotNumbers DEF Unicast!Items
  <2> HIDE DEF id
  <2>3. \A i \in 1 .. id : i # id => i \in 1 .. n
    BY <2>2
  <2>4. \A i \in 1 .. id : (IF i = id THEN s ELSE target[i]) \in Stones
    BY <2>1, <2>3
  <2>5. target' \in [1 .. id -> Stones]
    BY <1>1, <2>4
  <2> QED
    BY <2>2, <2>5
<1>3. outcome' \in Outcomes /\ Unicast!AckMeansHeard'
  BY <1>1 DEF UnicastInv, Outcomes, Unicast!AckMeansHeard
<1> HIDE DEF id, gone
<1>4. /\ r \in Queue /\ uni \in Queue
      /\ \A x \in Unicast!Slots : r.slot[x] = IF x \in gone THEN Unicast!NoItem ELSE uni.slot[x]
      /\ r.inProgress = IF uni.inProgress \in gone THEN Unicast!None ELSE uni.inProgress
  BY ItemsLeave DEF UnicastInv
<1> HIDE DEF r
<1>5. free \in Unicast!Slots /\ r.slot[free] = Unicast!NoItem
  <2>1. Unicast!FreeSlots(r) \in SUBSET Unicast!Slots
    BY DEF Unicast!FreeSlots
  <2>2. free \in Unicast!FreeSlots(r)
    BY <1>1, <1>4, <2>1, FirstOf
  <2> QED
    BY <2>2 DEF Unicast!FreeSlots
<1> HIDE DEF free
<1>6. it \in Item /\ it # Unicast!NoItem /\ it.id = id
  <2>1. id # 0
    BY <1>1, SlotNumbers DEF Unicast!Items
  <2> QED
    BY <1>1, <2>1 DEF Item, Unicast!NoItem
<1> HIDE DEF it
<1>7. slot \in [Unicast!Slots -> Item] /\ \A x \in Unicast!Slots : slot[x] = IF x = free THEN it ELSE r.slot[x]
  BY <1>4, <1>5, <1>6 DEF Queue
<1> HIDE DEF slot
<1>8. q \in Queue /\ q.slot = slot /\ q.inProgress = r.inProgress
  BY <1>4, <1>7 DEF Queue
<1> HIDE DEF q
<1>9. /\ uni' \in Queue /\ uni'.slot = slot
      /\ \/ uni'.inProgress = r.inProgress
         \/ uni'.inProgress \in Unicast!Slots /\ uni'.slot[uni'.inProgress] # Unicast!NoItem
  BY <1>1, <1>8, NextIsSent
<1>10. CASE uni'.inProgress = r.inProgress
  <2>1. transfer' = transfer
    BY <1>1, <1>10
  <2>2. ASSUME uni'.inProgress # Unicast!None
        PROVE  /\ uni'.slot[uni'.inProgress] # Unicast!NoItem
               /\ uni'.slot[uni'.inProgress].id = transfer
    <3>1. /\ uni'.inProgress = uni.inProgress /\ uni.inProgress \notin gone
          /\ uni.inProgress \in Unicast!Slots
      BY <1>4, <1>10, <2>2 DEF Queue
    <3>2. uni.slot[uni.inProgress] # Unicast!NoItem /\ uni.slot[uni.inProgress].id = transfer
      BY <2>2, <3>1 DEF UnicastInv, Transfers
    <3>3. r.slot[uni.inProgress] = uni.slot[uni.inProgress] /\ uni.inProgress # free
      BY <1>4, <1>5, <3>1, <3>2
    <3> QED
      BY <1>7, <1>9, <3>1, <3>2, <3>3
  <2> QED
    BY <1>2, <1>3, <1>1, <1>9, <2>1, <2>2 DEF UnicastInv, Transfers
<1>11. CASE uni'.inProgress # r.inProgress
  <2>1. uni'.inProgress \in Unicast!Slots /\ uni'.slot[uni'.inProgress] # Unicast!NoItem
    BY <1>9, <1>11
  <2>2. transfer' = uni'.slot[uni'.inProgress].id
    BY <1>1, <1>11
  <2>3. uni'.slot[uni'.inProgress].id \in Unicast!Items
    BY <1>9, <2>1 DEF Queue, Item
  <2> QED
    BY <1>2, <1>3, <1>1, <1>9, <2>1, <2>2, <2>3 DEF UnicastInv, Transfers
<1> QED
  BY <1>10, <1>11

LEMMA ProcessQueueStep ==
  ASSUME UnicastInv, NEW ok \in BOOLEAN, Unicast!ProcessQueue(ok)
  PROVE  UnicastInv'
<1>1. /\ uni.inProgress = Unicast!None /\ uni' = Unicast!SendMsgFromQueue(uni, ok)
      /\ transfer' = Unicast!Transferring(uni') /\ UNCHANGED <<target, heard, outcome>>
  BY DEF Unicast!ProcessQueue, Unicast!HasNext
<1>2. /\ uni' \in Queue
      /\ \/ uni'.inProgress = Unicast!None
         \/ uni'.inProgress \in Unicast!Slots /\ uni'.slot[uni'.inProgress] # Unicast!NoItem
  BY <1>1, NextIsSent DEF UnicastInv
<1>3. uni'.inProgress = Unicast!None => transfer' = transfer
  BY <1>1 DEF Unicast!Transferring
<1>4. uni'.inProgress # Unicast!None =>
        transfer' = uni'.slot[uni'.inProgress].id /\ uni'.slot[uni'.inProgress].id \in Unicast!Items
  BY <1>1, <1>2 DEF Unicast!Transferring, Queue, Item
<1>5. Transfers(uni', transfer') /\ transfer' \in Unicast!Items \cup {Unicast!NoTransfer}
  BY <1>2, <1>3, <1>4 DEF Transfers, UnicastInv
<1> QED
  BY <1>1, <1>2, <1>5 DEF UnicastInv, Unicast!AckMeansHeard

\* The items that end do so because of the transfer.
LEMMA HandleReplyStep ==
  ASSUME UnicastInv, ~ LateReplies, NEW i \in Unicast!Items, Unicast!HandleReply(i)
  PROVE  UnicastInv'
<1> DEFINE a == Unicast!WithStatus(uni, "success")
           c == Unicast!CheckDone(a)
           b == Unicast!WithReply(c)
<1>1. i \in heard /\ transfer = i /\ i # Unicast!NoTransfer
  BY SlotNumbers DEF Unicast!HandleReply, Unicast!Items, Unicast!NoTransfer
<1>2. /\ transfer' = Unicast!NoTransfer /\ uni' = Unicast!CheckDone(b)
      /\ outcome' = IF Unicast!Verdict(a) # "none" THEN Unicast!Report(a) ELSE Unicast!Report(b)
      /\ UNCHANGED <<target, heard>>
  BY <1>1 DEF Unicast!HandleReply
<1>3. /\ a \in Queue /\ a.slot = uni.slot /\ a.inProgress = uni.inProgress
      /\ a.inProgress # Unicast!None => a.status = "success"
  BY StatusType DEF UnicastInv
<1> HIDE DEF a
<1>4. /\ c \in Queue /\ (Unicast!Verdict(a) # "none" => c.inProgress = Unicast!None)
      /\ (Unicast!Verdict(a) = "none" => c = a)
  BY <1>3, DoneIsChecked
<1> HIDE DEF c
<1>5. /\ b \in Queue /\ b.slot = c.slot /\ b.inProgress = c.inProgress
      /\ b.inProgress # Unicast!None => b.replied /\ b.status = c.status
  BY <1>4, StatusType
<1> HIDE DEF b
<1>6. uni' \in Queue /\ uni'.inProgress = Unicast!None
  <2>1. uni' \in Queue /\ (Unicast!Verdict(b) # "none" => uni'.inProgress = Unicast!None)
        /\ (Unicast!Verdict(b) = "none" => uni' = b)
    BY <1>2, <1>5, DoneIsChecked
  <2>2. Unicast!Verdict(b) = "none" => b.inProgress = Unicast!None
    BY <1>3, <1>4, <1>5 DEF Unicast!Verdict
  <2> QED
    BY <2>1, <2>2
<1>7. /\ outcome' \in Outcomes
      /\ \A j \in Unicast!Items : outcome'[j] = "SUCCESS" => j \in heard
  BY <1>1, <1>2, <1>3, <1>4, <1>5, Reported
<1> QED
  BY <1>2, <1>6, <1>7 DEF UnicastInv, Transfers, Unicast!AckMeansHeard

LEMMA TransferTimeoutStep ==
  ASSUME UnicastInv, Unicast!TransferTimeout
  PROVE  UnicastInv'
<1> DEFINE a == Unicast!WithStatus(uni, "timeout")
<1>1. /\ transfer' = Unicast!NoTransfer /\ uni' = Unicast!CheckDone(a)
      /\ outcome' = Unicast!Report(a) /\ UNCHANGED <<target, heard>>
  BY DEF Unicast!TransferTimeout
<1>2. /\ a \in Queue /\ a.slot = uni.slot /\ a.inProgress = uni.inProgress
      /\ a.inProgress # Unicast!None => a.status = "timeout"
  BY StatusType DEF UnicastInv
<1> HIDE DEF a
<1>3. Unicast!Verdict(a) \in {"none", "TIMEOUT"}
      /\ (Unicast!Verdict(a) = "none" => a.inProgress = Unicast!None)
  BY <1>2 DEF Unicast!Verdict
<1>4. uni' \in Queue /\ uni'.inProgress = Unicast!None
  BY <1>1, <1>2, <1>3, DoneIsChecked
<1>5. /\ outcome' \in Outcomes
      /\ \A j \in Unicast!Items : outcome'[j] = "SUCCESS" => j \in heard
  BY <1>1, <1>2, <1>3, Reported
<1> QED
  BY <1>1, <1>4, <1>5 DEF UnicastInv, Transfers, Unicast!AckMeansHeard

LEMMA UnicastNext ==
  ASSUME UnicastInv, ~ LateReplies, Unicast!Next
  PROVE  UnicastInv'
<1>1. ASSUME Unicast!Hear PROVE UnicastInv'
  BY <1>1 DEF UnicastInv, Unicast!Hear, Unicast!AckMeansHeard
<1> QED
  BY <1>1, AddToQueueStep, ProcessQueueStep, HandleReplyStep, TransferTimeoutStep DEF Unicast!Next

LEMMA UnicastStutter ==
  ASSUME UnicastInv, UNCHANGED unicastVars
  PROVE  UnicastInv'
BY DEF unicastVars, UnicastInv, Unicast!AckMeansHeard

LEMMA UnicastHolds == UnicastInv => Unicast!TypeOK /\ Unicast!AckMeansHeard
<1> SUFFICES ASSUME UnicastInv PROVE Unicast!TypeOK
  BY DEF UnicastInv
<1>1. PICK n \in 0 .. NumItems : target \in [1 .. n -> Stones]
  BY DEF UnicastInv
<1>2. Unicast!Accepted \subseteq Unicast!Items /\ \A i \in Unicast!Accepted : target[i] \in Stones
  BY <1>1, SlotNumbers DEF Unicast!Accepted, Unicast!Items
<1> QED
  BY <1>2 DEF UnicastInv, Queue, Item, Outcomes, Unicast!TypeOK

-----------------------------------------------------------------------------
(* Connections (CrownstoneCentral, BleCentral).                            *)

Someone == Stones \cup {NoStone}
EventTypes == {"connect_result", "discovery_result", "read_result", "write_result", "connect", "write", "disconnected"}
Returns == {"SUCCESS", "BUSY", "WRONG_STATE", "WRONG_OPERATION", "WRONG_PARAMETER", "UNSPECIFIED", "TIMEOUT",
         "CANCELED", "GATT_ERROR"}
Happened == [type : EventTypes, ret : Returns]
EventLists == {<< >>} \cup {<<e>> : e \in Happened}
ResultLists == {<< >>} \cup {<<r>> : r \in Happened} \cup {<<r, q>> : r, q \in Happened}
Steps == {"none", "get_address", "connect", "discover", "enable_notifications", "session_key",
          "session_data", "write", "receive_result"}
Central ==
  [op : Links!Operations, address : Someone, link : Someone, closing : BOOLEAN, gap : Someone,
   gatt : {"none", "mtu", "discovery", "read", "write"}, mesh : {"on", "stopping", "off"},
   connectable : BOOLEAN, event : EventLists,
   csOp : {"none", "connect", "write"}, csStep : Steps, stone : Someone, timer : BOOLEAN,
   results : ResultLists]
User == [awaits : {"none", "connect", "write", "disconnect"}, target : Someone, session : Someone,
         spoilt : BOOLEAN]

LEMMA CentralAtFirst ==
  LET c == Links!Fields(Links!BleIdle, Links!CsIdle)
  IN /\ c \in Central /\ c.op = "none" /\ c.link = NoStone /\ c.gap = NoStone /\ c.mesh = "on"
     /\ ~ c.closing /\ c.gatt = "none" /\ c.event = << >> /\ c.csOp = "none" /\ c.results = << >>
<1> DEFINE c == Links!Fields(Links!BleIdle, Links!CsIdle)
           ble == DOMAIN Links!BleIdle
           cs == DOMAIN Links!CsIdle
<1>1. /\ ble = {"op", "address", "link", "closing", "gap", "gatt", "mesh", "connectable", "event"}
      /\ cs = {"csOp", "csStep", "stone", "timer", "results"}
  BY DEF Links!BleIdle, Links!CsIdle
<1>2. c = [x \in ble \cup cs |-> IF x \in cs THEN Links!CsIdle[x] ELSE Links!BleIdle[x]]
  BY DEF Links!Fields
<1>3. DOMAIN c = ble \cup cs
  BY <1>2
<1> HIDE DEF c
<1>4. /\ c.op = "none" /\ c.address = NoStone /\ c.link = NoStone /\ c.closing = FALSE
      /\ c.gap = NoStone /\ c.gatt = "none" /\ c.mesh = "on" /\ c.connectable = TRUE /\ c.event = << >>
      /\ c.csOp = "none" /\ c.csStep = "none" /\ c.stone = NoStone /\ c.timer = FALSE
      /\ c.results = << >>
  BY <1>1, <1>2 DEF Links!BleIdle, Links!CsIdle
<1>5. c = [op |-> c.op, address |-> c.address, link |-> c.link, closing |-> c.closing, gap |-> c.gap,
           gatt |-> c.gatt, mesh |-> c.mesh, connectable |-> c.connectable, event |-> c.event,
           csOp |-> c.csOp, csStep |-> c.csStep, stone |-> c.stone, timer |-> c.timer,
           results |-> c.results]
  BY <1>1, <1>2, <1>3
<1>6. "none" \in Links!Operations /\ NoStone \in Someone /\ << >> \in EventLists /\ << >> \in ResultLists
      /\ "none" \in Steps
  BY DEF Steps, Links!Operations, Someone, EventLists, ResultLists
<1>7. c = [op |-> "none", address |-> NoStone, link |-> NoStone, closing |-> FALSE, gap |-> NoStone,
           gatt |-> "none", mesh |-> "on", connectable |-> TRUE, event |-> << >>, csOp |-> "none",
           csStep |-> "none", stone |-> NoStone, timer |-> FALSE, results |-> << >>]
  BY <1>4, <1>5
<1>8. c \in Central
  BY <1>6, <1>7 DEF Central
<1> QED
  BY <1>4, <1>8 DEF c

LEMMA SendIs ==
  ASSUME NEW c \in Central, NEW type \in EventTypes, NEW ret \in Returns
  PROVE  LET r == Links!Send(c, type, ret)
         IN /\ r \in Central /\ r.op = "none" /\ r.event = <<[type |-> type, ret |-> ret]>>
            /\ r.link = c.link /\ r.closing = c.closing /\ r.gap = c.gap /\ r.gatt = c.gatt
            /\ r.address = c.address /\ r.stone = c.stone /\ r.csOp = c.csOp /\ r.csStep = c.csStep
            /\ r.results = c.results
            /\ r.mesh = IF type = "connect_result" THEN "on" ELSE c.mesh
<1> DEFINE mesh == IF type = "connect_result" THEN "on" ELSE c.mesh
           connectable == c.connectable \/ type = "disconnected" \/ (type = "connect_result" /\ ret # "SUCCESS")
           event == <<[type |-> type, ret |-> ret]>>
           r == Links!Send(c, type, ret)
<1>1. mesh \in {"on", "stopping", "off"} /\ mesh = IF type = "connect_result" THEN "on" ELSE c.mesh
  BY DEF Central
<1>2. connectable \in BOOLEAN
  BY DEF Central
<1>3. event \in EventLists /\ "none" \in Links!Operations
  BY DEF Happened, EventLists, Links!Operations
<1>4. r = [[c EXCEPT !.mesh = mesh, !.connectable = connectable] EXCEPT !.op = "none", !.event = event]
  BY DEF Links!Send, Links!OthersOn
<1>5. event = <<[type |-> type, ret |-> ret]>>
  OBVIOUS
<1> HIDE DEF mesh, connectable, event, r
<1>6. r.mesh = mesh /\ r.event = event
  BY <1>4 DEF Central
<1>7. r \in Central
  BY <1>1, <1>2, <1>3, <1>4 DEF Central
<1>8. /\ r.op = "none" /\ r.link = c.link /\ r.closing = c.closing /\ r.gap = c.gap /\ r.gatt = c.gatt
      /\ r.address = c.address /\ r.stone = c.stone /\ r.csOp = c.csOp /\ r.csStep = c.csStep
      /\ r.results = c.results
  BY <1>4 DEF Central
<1> QED
  BY <1>1, <1>5, <1>6, <1>7, <1>8 DEF r

BleSame(r, c) ==
  /\ r.link = c.link /\ r.closing = c.closing /\ r.gap = c.gap /\ r.gatt = c.gatt
  /\ r.address = c.address
CsSame(r, c) == r.stone = c.stone /\ r.csOp = c.csOp /\ r.csStep = c.csStep /\ r.results = c.results

Joins(c) == c.op \in {"clearance", "connect"}
Proceeds(c) == c.op \in {"discovery", "read", "write"}

OneEvent(type, ret) == <<[type |-> type, ret |-> ret]>>

LEMMA FinalizeBleIs ==
  ASSUME NEW c \in Central, NEW operation \in Links!Operations, NEW ret \in Returns, c.event = << >>
  PROVE  LET r == Links!FinalizeBle(c, operation, ret)
             is == IF c.op = operation THEN ret ELSE "WRONG_STATE"
         IN /\ r \in Central /\ BleSame(r, c) /\ CsSame(r, c) /\ r.op = "none"
            /\ Joins(c) /\ ~ (c.op = "clearance" /\ operation = "clearance") =>
                 r.mesh = "on" /\ r.event = OneEvent("connect_result", is)
            /\ Proceeds(c) => r.mesh = c.mesh /\ r.event = OneEvent(Links!ResultEvent(c.op), is)
            /\ c.op \in {"none", "disconnect"} =>
                 /\ r.mesh = c.mesh
                 /\ r.event = IF operation = "disconnect" THEN OneEvent("disconnected", "SUCCESS") ELSE << >>
            /\ c.op = "clearance" /\ operation = "clearance" => r.mesh = c.mesh /\ r.event = << >>
<1> DEFINE r == Links!FinalizeBle(c, operation, ret)
           is == IF c.op = operation THEN ret ELSE "WRONG_STATE"
<1>1. is \in Returns /\ "SUCCESS" \in Returns /\ "WRONG_STATE" \in Returns
  BY DEF Returns
<1>2. /\ "connect_result" \in EventTypes /\ "disconnected" \in EventTypes
      /\ Links!ResultEvent("discovery") = "discovery_result" /\ "discovery_result" \in EventTypes
      /\ Links!ResultEvent("read") = "read_result" /\ "read_result" \in EventTypes
      /\ Links!ResultEvent("write") = "write_result" /\ "write_result" \in EventTypes
      /\ Links!ResultEvent("connect") = "connect_result"
  BY DEF EventTypes, Links!ResultEvent
<1>3. c.op \in Links!Operations
  BY DEF Central
<1>4. CASE Joins(c) /\ ~ (c.op = "clearance" /\ operation = "clearance")
  <2>1. r = Links!Send(c, "connect_result", is)
    BY <1>2, <1>4 DEF Links!FinalizeBle, Joins
  <2> HIDE DEF is, r
  <2>2. r \in Central /\ BleSame(r, c) /\ CsSame(r, c) /\ r.op = "none" /\ r.mesh = "on"
        /\ r.event = OneEvent("connect_result", is)
    BY <1>1, <1>2, <2>1, SendIs DEF BleSame, CsSame, OneEvent
  <2> QED
    BY <1>4, <2>2 DEF Joins, Proceeds, is, r
<1>5. CASE Proceeds(c)
  <2> DEFINE type == Links!ResultEvent(c.op)
  <2>1. r = Links!Send(c, type, is) /\ type \in EventTypes /\ type # "connect_result"
    BY <1>2, <1>5 DEF Links!FinalizeBle, Proceeds
  <2> HIDE DEF is, r, type
  <2>2. r \in Central /\ BleSame(r, c) /\ CsSame(r, c) /\ r.op = "none" /\ r.mesh = c.mesh
        /\ r.event = OneEvent(type, is)
    BY <1>1, <2>1, SendIs DEF BleSame, CsSame, OneEvent
  <2> QED
    BY <1>5, <2>2 DEF Joins, Proceeds, is, r, type
<1>6. CASE c.op \in {"none", "disconnect"} /\ operation = "disconnect"
  <2>1. r = Links!Send(c, "disconnected", "SUCCESS")
    BY <1>6 DEF Links!FinalizeBle
  <2> HIDE DEF r
  <2>2. r \in Central /\ BleSame(r, c) /\ CsSame(r, c) /\ r.op = "none" /\ r.mesh = c.mesh
        /\ r.event = OneEvent("disconnected", "SUCCESS")
    BY <1>1, <1>2, <2>1, SendIs DEF BleSame, CsSame, OneEvent
  <2> QED
    BY <1>6, <2>2 DEF Joins, Proceeds, r
<1>7. CASE \/ c.op \in {"none", "disconnect"} /\ operation # "disconnect"
           \/ c.op = "clearance" /\ operation = "clearance"
  <2>1. r = [c EXCEPT !.op = "none"]
    BY <1>7 DEF Links!FinalizeBle
  <2> HIDE DEF r
  <2>2. "none" \in Links!Operations
    BY DEF Links!Operations
  <2>3. r \in Central /\ BleSame(r, c) /\ CsSame(r, c) /\ r.op = "none" /\ r.mesh = c.mesh
        /\ r.event = c.event
    BY <2>1, <2>2 DEF BleSame, CsSame, Central
  <2> QED
    BY <1>7, <2>3 DEF Joins, Proceeds, r
<1> QED
  BY <1>3, <1>4, <1>5, <1>6, <1>7 DEF Joins, Proceeds, Links!Operations

\* The operation of CrownstoneCentral is over, and the user hears x of it.
Ends(r, c, x) ==
  /\ r \in Central /\ BleSame(r, c) /\ r.op = c.op /\ r.mesh = c.mesh /\ r.event = c.event
  /\ r.stone = c.stone /\ r.csOp = "none"
  /\ r.results = IF c.csOp = "none" THEN << >> ELSE OneEvent(c.csOp, x)

LEMMA FinalizeCsIs ==
  ASSUME NEW c \in Central, NEW operation, NEW ret \in Returns, c.results = << >>
  PROVE  Ends(Links!FinalizeCs(c, operation, ret), c, IF c.csOp = operation THEN ret ELSE "WRONG_STATE")
<1> DEFINE x == IF c.csOp = operation THEN ret ELSE "WRONG_STATE"
           r == Links!FinalizeCs(c, operation, ret)
           news == Append(c.results, [type |-> c.csOp, ret |-> x])
<1>1. x \in Returns /\ "none" \in Steps
  BY DEF Returns, Steps
<1>2. CASE c.csOp = "none"
  <2>1. r = [c EXCEPT !.csStep = "none"]
    BY <1>2 DEF Links!FinalizeCs
  <2> HIDE DEF r
  <2> QED
    BY <1>1, <1>2, <2>1 DEF Ends, BleSame, Central, r
<1>3. CASE c.csOp # "none"
  <2>1. r = [c EXCEPT !.results = news, !.csOp = "none", !.csStep = "none"]
    BY <1>3 DEF Links!FinalizeCs, Links!Tell
  <2>2. news = OneEvent(c.csOp, x)
    BY DEF OneEvent
  <2>3. c.csOp \in EventTypes
    BY <1>3 DEF Central, EventTypes
  <2> HIDE DEF r, x, news
  <2>4. news \in ResultLists
    BY <1>1, <2>2, <2>3 DEF ResultLists, Happened, OneEvent
  <2>5. r \in Central /\ r.results = news
    BY <1>1, <2>1, <2>4 DEF Central
  <2>6. /\ BleSame(r, c) /\ r.op = c.op /\ r.mesh = c.mesh /\ r.event = c.event
        /\ r.stone = c.stone /\ r.csOp = "none"
    BY <2>1 DEF Central, BleSame
  <2> QED
    BY <1>3, <2>2, <2>5, <2>6 DEF Ends, r, x
<1> QED
  BY <1>2, <1>3

Fails(r, c) == \E x \in Returns \ {"SUCCESS"} : Ends(r, c, x)

LEMMA EndStepIs ==
  ASSUME NEW c \in Central, NEW operation, NEW ret \in Returns, c.results = << >>
  PROVE  Fails(Links!EndStep(c, operation, ret), c)
<1> DEFINE y == IF ret # "SUCCESS" THEN ret ELSE "WRONG_OPERATION"
<1>1. y \in Returns \ {"SUCCESS"} /\ {"WRONG_OPERATION", "WRONG_STATE"} \subseteq Returns \ {"SUCCESS"}
  BY DEF Returns
<1>2. CASE c.csOp # operation
  <2>1. Links!EndStep(c, operation, ret) = Links!FinalizeCs(c, operation, "WRONG_OPERATION")
    BY <1>2 DEF Links!EndStep
  <2>2. Ends(Links!EndStep(c, operation, ret), c, "WRONG_STATE")
    BY <1>1, <1>2, <2>1, FinalizeCsIs
  <2> QED
    BY <1>1, <2>2 DEF Fails
<1>3. CASE c.csOp = operation
  <2>1. Links!EndStep(c, operation, ret) = Links!FinalizeCs(c, operation, y)
    BY <1>3 DEF Links!EndStep
  <2> HIDE DEF y
  <2>2. Ends(Links!EndStep(c, operation, ret), c, y)
    BY <1>1, <1>3, <2>1, FinalizeCsIs
  <2> QED
    BY <1>1, <2>2 DEF Fails
<1> QED
  BY <1>2, <1>3

LEMMA FinalizeFails ==
  ASSUME NEW c \in Central, NEW ret \in Returns \ {"SUCCESS"}, NEW operation, c.results = << >>
  PROVE  Fails(Links!FinalizeCs(c, operation, ret), c)
<1>1. "WRONG_STATE" \in Returns \ {"SUCCESS"}
  BY DEF Returns
<1> QED
  BY <1>1, FinalizeCsIs DEF Fails

\* The mesh, the link and the SoftDevice, as far as BleCentral goes.
MakesRoom(c) ==
  /\ c.gap # NoStone => c.op = "connect" /\ c.link = NoStone
  /\ c.op = "clearance" => c.mesh = "stopping" /\ c.link = NoStone
  /\ c.op = "connect" => c.mesh = "off"
  /\ ~ Joins(c) => c.mesh = "on"
  /\ c.link = NoStone => ~ c.closing /\ c.gatt = "none"
  /\ c.closing => c.op \in {"none", "disconnect"}

\* The link is that of stone, and stays.
LinkedTo(c, stone) == c.link = stone /\ ~ c.closing

\* What the user waits for and knows.
UserWaits(c, u) ==
  /\ c.csOp = "connect" =>
       /\ u.awaits = "connect" /\ u.session = NoStone /\ ~ u.spoilt
       /\ u.target = c.stone /\ c.stone # NoStone
  /\ c.csOp = "write" => u.awaits = "write" /\ u.session # NoStone
  /\ c.csOp = "none" =>
       /\ u.awaits \in {"none", "disconnect"}
       /\ u.session # NoStone => LinkedTo(c, u.session) /\ c.op = "none"
  /\ Joins(c) => u.session = NoStone /\ ~ u.spoilt /\ u.awaits \in {"none", "connect"}
  /\ u.awaits = "disconnect" => c.link # NoStone /\ c.closing

Base(c, u) ==
  /\ c \in Central /\ u \in User /\ c.results = << >> /\ MakesRoom(c) /\ UserWaits(c, u)

\* The steps that have been done.
StepsDone(c, u) ==
  /\ c.csOp = "connect" /\ c.csStep = "connect" =>
       \/ c.op = "clearance" /\ c.address = c.stone
       \/ c.op = "connect" /\ (c.gap = c.stone \/ (c.gap = NoStone /\ LinkedTo(c, c.stone)))
  /\ c.csOp = "connect" /\ c.csStep \notin {"get_address", "connect"} => LinkedTo(c, c.stone)
  /\ c.csOp = "write" => LinkedTo(c, u.session) /\ (c.csStep = "receive_result" => c.op = "none")

Good(c, u) == Base(c, u) /\ c.event = << >> /\ StepsDone(c, u)

LinksInv == Good(central, user) /\ macRequests \subseteq Stones

\* What a step leaves, when c and u are what it made of the central and the user.
StaysGood(c, u) == Good([c EXCEPT !.results = << >>], Links!HeardAll(u, c.results))

LEMMA HeardIs ==
  ASSUME NEW u, NEW r
  PROVE  /\ Links!HeardAll(u, << >>) = u
         /\ Links!HeardAll(u, <<r>>) = Links!Heard(u, r)
<1>1. Len(<<r>>) = 1 /\ <<r>>[1] = r /\ <<r>> # << >>
  OBVIOUS
<1>2. Links!HeardAll(u, << >>) = u
  BY DEF Links!HeardAll
<1>3. Links!HeardAll(u, <<r>>) = Links!Heard(u, r)
  BY <1>1 DEF Links!HeardAll
<1> QED
  BY <1>2, <1>3

LEMMA NothingTold ==
  ASSUME NEW c, NEW u, Good(c, u)
  PROVE  StaysGood(c, u)
<1>1. c.results = << >> /\ c \in Central
  BY DEF Good, Base
<1>2. [c EXCEPT !.results = << >>] = c
  BY <1>1 DEF Central
<1> QED
  BY <1>1, <1>2, HeardIs DEF StaysGood

\* An operation that fails leaves nobody waiting.
LEMMA FailureTold ==
  ASSUME NEW c, NEW u, Base(c, u), c.event = << >>, NEW r, Fails(r, c)
  PROVE  StaysGood(r, u)
<1> DEFINE d == [r EXCEPT !.results = << >>]
           v == Links!HeardAll(u, r.results)
<1>1. PICK x \in Returns \ {"SUCCESS"} : Ends(r, c, x)
  BY DEF Fails
<1>2. c \in Central /\ u \in User /\ r \in Central /\ << >> \in ResultLists
  BY <1>1 DEF Base, Ends, ResultLists
<1>3. /\ d \in Central /\ BleSame(d, c) /\ d.op = c.op /\ d.mesh = c.mesh /\ d.event = << >>
      /\ d.stone = c.stone /\ d.csOp = "none" /\ d.results = << >>
  BY <1>1, <1>2 DEF Ends, BleSame, Central
<1> HIDE DEF d
<1>4. /\ v \in User /\ v.awaits \in {"none", "disconnect"} /\ (v.awaits = "disconnect" => v = u)
      /\ v.session # NoStone => c.csOp = "none" /\ v = u
      /\ Joins(c) => ~ v.spoilt
  <2>1. CASE c.csOp = "none"
    <3>1. v = u
      BY <1>1, <2>1, HeardIs DEF Ends
    <3> QED
      BY <1>2, <2>1, <3>1 DEF Base, UserWaits
  <2>2. CASE c.csOp = "connect"
    <3> DEFINE e == [type |-> "connect", ret |-> x]
    <3>0. r.results = <<e>>
      BY <1>1, <2>2 DEF Ends, OneEvent
    <3>1. v = Links!Heard(u, e)
      <4> HIDE DEF e
      <4> QED
        BY <3>0, HeardIs
    <3>2. u.awaits = "connect" /\ ~ u.spoilt
      BY <2>2 DEF Base, UserWaits
    <3>3. v = [u EXCEPT !.awaits = "none", !.session = NoStone]
      BY <1>1, <3>1, <3>2 DEF Links!Heard
    <3> HIDE DEF v
    <3> QED
      BY <1>2, <3>2, <3>3 DEF User, Someone
  <2>3. CASE c.csOp = "write"
    <3> DEFINE e == [type |-> "write", ret |-> x]
    <3>0. r.results = <<e>>
      BY <1>1, <2>3 DEF Ends, OneEvent
    <3>1. v = Links!Heard(u, e)
      <4> HIDE DEF e
      <4> QED
        BY <3>0, HeardIs
    <3>2. u.awaits = "write" /\ ~ Joins(c)
      BY <2>3 DEF Base, UserWaits
    <3>3. v = [u EXCEPT !.awaits = "none", !.spoilt = TRUE, !.session = NoStone]
      BY <1>1, <3>1, <3>2 DEF Links!Heard
    <3> HIDE DEF v
    <3> QED
      BY <1>2, <3>2, <3>3 DEF User, Someone
  <2> QED
    BY <1>2, <2>1, <2>2, <2>3 DEF Central
<1> HIDE DEF v
<1>5. MakesRoom(d)
  BY <1>3 DEF Base, MakesRoom, BleSame, Joins
<1>6. UserWaits(d, v)
  BY <1>3, <1>4 DEF Base, UserWaits, BleSame, LinkedTo, Joins
<1>7. Good(d, v)
  BY <1>3, <1>4, <1>5, <1>6 DEF Good, Base, StepsDone
<1> QED
  BY <1>7 DEF StaysGood, d, v

\* The calls of BleCentral.
LEMMA ProcedureIs ==
  ASSUME NEW c \in Central, NEW op \in {"discovery", "read", "write"}, NEW gattOk
  PROVE  LET a == Links!Procedure(c, op, gattOk)
         IN /\ a.ret \in Returns \cup {"WAIT"} /\ a.ret # "SUCCESS"
            /\ a.ret # "WAIT" => a.c = c
            /\ a.ret = "WAIT" => /\ a.c = [c EXCEPT !.op = op, !.gatt = op]
                                 /\ c.op = "none" /\ c.link # NoStone /\ ~ c.closing
<1>1. /\ "BUSY" \in Returns /\ "WRONG_STATE" \in Returns /\ "UNSPECIFIED" \in Returns
      /\ "WAIT" \notin Returns
  BY DEF Returns
<1> QED
  BY <1>1 DEF Links!Procedure, Links!Answer, Links!Busy, Links!Connected, Central

\* The next step of a connect: BleCentral takes it, or the connect fails.
LEMMA GoesOn ==
  ASSUME NEW c, NEW u, Base(c, u), c.event = << >>, c.csOp = "connect", LinkedTo(c, c.stone),
         NEW op \in {"discovery", "read", "write"}, NEW gattOk,
         NEW step \in Steps \ {"get_address", "connect"}
  PROVE  StaysGood(Links!GoOn(Links!Procedure(c, op, gattOk), step), u)
<1> DEFINE a == Links!Procedure(c, op, gattOk)
           r == Links!GoOn(a, step)
<1>1. c \in Central /\ c.results = << >>
  BY DEF Base
<1>2. /\ a.ret \in Returns \cup {"WAIT"} /\ a.ret # "SUCCESS"
      /\ a.ret # "WAIT" => a.c = c
      /\ a.ret = "WAIT" => /\ a.c = [c EXCEPT !.op = op, !.gatt = op]
                           /\ c.op = "none" /\ c.link # NoStone /\ ~ c.closing
  BY <1>1, ProcedureIs
<1> HIDE DEF a
<1>3. CASE a.ret = "WAIT"
  <2>1. r = [[c EXCEPT !.op = op, !.gatt = op] EXCEPT !.csStep = step]
    BY <1>2, <1>3 DEF Links!GoOn
  <2>2. op \in Links!Operations /\ op \in {"none", "mtu", "discovery", "read", "write"}
    BY DEF Links!Operations
  <2> HIDE DEF r
  <2>3. r \in Central /\ r.op = op /\ r.gatt = op /\ r.csStep = step
    BY <1>1, <2>1, <2>2 DEF Central
  <2>4. /\ r.link = c.link /\ r.closing = c.closing /\ r.gap = c.gap /\ r.mesh = c.mesh
        /\ r.event = c.event /\ r.csOp = c.csOp /\ r.stone = c.stone /\ r.results = c.results
    BY <1>1, <2>1 DEF Central
  <2>5. MakesRoom(r)
    BY <1>2, <1>3, <2>3, <2>4 DEF Base, MakesRoom, Joins
  <2>6. UserWaits(r, u)
    BY <1>2, <1>3, <2>3, <2>4 DEF Base, UserWaits, Joins
  <2>7. StepsDone(r, u)
    BY <2>3, <2>4 DEF StepsDone, LinkedTo
  <2>8. Good(r, u)
    BY <1>1, <2>3, <2>4, <2>5, <2>6, <2>7 DEF Good, Base
  <2> QED
    BY <2>8, NothingTold DEF r, a
<1>4. CASE a.ret # "WAIT"
  <2>1. r = Links!FinalizeCs(c, "connect", a.ret) /\ a.ret \in Returns \ {"SUCCESS"}
    BY <1>2, <1>4 DEF Links!GoOn
  <2>2. Fails(r, c)
    BY <1>1, <2>1, FinalizeFails
  <2> HIDE DEF r
  <2>3. StaysGood(r, u)
    BY <2>2, FailureTold
  <2> QED
    BY <2>3 DEF r, a
<1> QED
  BY <1>3, <1>4 DEF a

\* The last step of a connect: the user is told of the session.
LEMMA ConnectDone ==
  ASSUME NEW c, NEW u, Base(c, u), c.event = << >>, c.op = "none", c.csOp = "connect",
         LinkedTo(c, c.stone)
  PROVE  StaysGood(Links!FinalizeCs(c, "connect", "SUCCESS"), u)
<1> DEFINE r == Links!FinalizeCs(c, "connect", "SUCCESS")
           d == [r EXCEPT !.results = << >>]
           v == Links!HeardAll(u, r.results)
           e == [type |-> "connect", ret |-> "SUCCESS"]
<1>1. c \in Central /\ u \in User /\ c.results = << >> /\ << >> \in ResultLists /\ "SUCCESS" \in Returns
  BY DEF Base, ResultLists, Returns
<1>2. Ends(r, c, "SUCCESS")
  BY <1>1, FinalizeCsIs
<1> HIDE DEF r
<1>3. /\ d \in Central /\ BleSame(d, c) /\ d.op = c.op /\ d.mesh = c.mesh /\ d.event = << >>
      /\ d.stone = c.stone /\ d.csOp = "none" /\ d.results = << >>
  BY <1>1, <1>2 DEF Ends, BleSame, Central
<1>4. r.results = <<e>>
  BY <1>2 DEF Ends, OneEvent
<1>5. v = Links!Heard(u, e)
  <2> HIDE DEF e
  <2> QED
    BY <1>4, HeardIs
<1>6. u.awaits = "connect" /\ ~ u.spoilt /\ u.target = c.stone
  BY DEF Base, UserWaits
<1>7. v = [u EXCEPT !.awaits = "none", !.session = u.target]
  BY <1>5, <1>6 DEF Links!Heard
<1> HIDE DEF d, v
<1>8. v \in User /\ v.awaits = "none" /\ v.session = c.stone
  BY <1>1, <1>6, <1>7 DEF User
<1>9. Good(d, v)
  BY <1>3, <1>8 DEF Good, Base, StepsDone, MakesRoom, UserWaits, BleSame, LinkedTo, Joins
<1> QED
  BY <1>9 DEF StaysGood, d, v, r

\* A result of BleCentral that is about to be dispatched.
Arrives(c, u, type, ret) ==
  /\ Base(c, u) /\ c.op = "none" /\ c.event = OneEvent(type, ret)
  /\ ret = "SUCCESS" =>
       /\ c.csOp = "connect" /\ c.csStep # "get_address" => LinkedTo(c, c.stone)
       /\ c.csOp = "write" => LinkedTo(c, u.session)

LEMMA Taken ==
  ASSUME NEW c \in Central
  PROVE  LET t == [c EXCEPT !.event = << >>]
         IN /\ t \in Central /\ t.event = << >> /\ BleSame(t, c) /\ CsSame(t, c)
            /\ t.op = c.op /\ t.mesh = c.mesh
<1>1. << >> \in EventLists
  BY DEF EventLists
<1> QED
  BY <1>1 DEF Central, BleSame, CsSame

LEMMA Dispatch ==
  ASSUME NEW c, NEW u, NEW type \in {"connect_result", "discovery_result", "read_result", "write_result"},
         NEW ret \in Returns, Arrives(c, u, type, ret), NEW gattOk, NEW setupMode
  PROVE  StaysGood(Links!Dispatched(c, gattOk, setupMode), u)
<1> DEFINE t == [c EXCEPT !.event = << >>]
           event == [type |-> type, ret |-> ret]
           r == Links!Dispatched(c, gattOk, setupMode)
<1>1. c \in Central /\ c.results = << >> /\ c.op = "none"
  BY DEF Arrives, Base
<1>2. /\ t \in Central /\ t.event = << >> /\ BleSame(t, c) /\ CsSame(t, c)
      /\ t.op = c.op /\ t.mesh = c.mesh
  BY <1>1, Taken
<1>3. c.event # << >> /\ Head(c.event) = event
  <2>1. c.event = <<event>>
    BY DEF Arrives, OneEvent
  <2> HIDE DEF event
  <2> QED
    BY <2>1
<1>4. r = CASE type = "connect_result" -> Links!OnConnectResult(t, ret, gattOk)
            [] type = "discovery_result" -> Links!OnDiscoveryResult(t, ret, gattOk)
            [] type = "read_result" -> Links!OnReadResult(t, ret, gattOk)
            [] type = "write_result" -> Links!OnWriteResult(t, ret, gattOk, setupMode)
            [] type = "disconnected" -> Links!OnDisconnected(t)
  BY <1>3 DEF Links!Dispatched
<1> SUFFICES StaysGood(r, u)
  OBVIOUS
<1> HIDE DEF t, r
<1>5. /\ Base(t, u) /\ t.op = "none" /\ t.results = << >>
      /\ ret = "SUCCESS" =>
           /\ t.csOp = "connect" /\ t.csStep # "get_address" => LinkedTo(t, t.stone)
           /\ t.csOp = "write" => LinkedTo(t, u.session)
  BY <1>1, <1>2 DEF Arrives, Base, MakesRoom, UserWaits, LinkedTo, BleSame, CsSame, Joins
<1>6. "WRONG_OPERATION" \in Returns \ {"SUCCESS"}
  BY DEF Returns
<1>7. ASSUME Fails(r, t) PROVE StaysGood(r, u)
  BY <1>2, <1>5, <1>7, FailureTold
<1>8. ASSUME t.csOp = "connect", t.csStep # "get_address", ret = "SUCCESS",
             NEW op \in {"discovery", "read", "write"},
             NEW step \in Steps \ {"get_address", "connect"},
             r = Links!GoOn(Links!Procedure(t, op, gattOk), step)
      PROVE  StaysGood(r, u)
  BY <1>2, <1>5, <1>8, GoesOn
<1>9. {"discover", "enable_notifications", "session_key", "session_data"} \subseteq
        Steps \ {"get_address", "connect"}
  BY DEF Steps
<1>10. CASE type = "connect_result"
  <2>1. r = Links!OnConnectResult(t, ret, gattOk)
    BY <1>4, <1>10
  <2>2. CASE Links!InStep(t, "connect", "connect", ret)
    BY <1>8, <1>9, <2>1, <2>2 DEF Links!OnConnectResult, Links!InStep
  <2>3. CASE ~ Links!InStep(t, "connect", "connect", ret)
    BY <1>2, <1>5, <1>7, <2>1, <2>3, EndStepIs DEF Links!OnConnectResult
  <2> QED
    BY <2>2, <2>3
<1>11. CASE type = "discovery_result"
  <2>1. r = Links!OnDiscoveryResult(t, ret, gattOk)
    BY <1>4, <1>11
  <2>2. CASE Links!InStep(t, "connect", "discover", ret)
    BY <1>8, <1>9, <2>1, <2>2 DEF Links!OnDiscoveryResult, Links!InStep
  <2>3. CASE ~ Links!InStep(t, "connect", "discover", ret)
    BY <1>2, <1>5, <1>7, <2>1, <2>3, EndStepIs DEF Links!OnDiscoveryResult
  <2> QED
    BY <2>2, <2>3
<1>12. CASE type = "read_result"
  <2>1. r = Links!OnReadResult(t, ret, gattOk)
    BY <1>4, <1>12
  <2>2. CASE ret # "SUCCESS"
    <3>1. r = Links!FinalizeCs(t, t.csOp, ret)
      BY <2>1, <2>2 DEF Links!OnReadResult
    <3> QED
      BY <1>2, <1>5, <1>7, <2>2, <3>1, FinalizeFails
  <2>3. CASE Links!InStep(t, "connect", "session_key", ret)
    <3>1. r = Links!GoOn(Links!Procedure(t, "read", gattOk), "session_data")
      BY <2>1, <2>3 DEF Links!OnReadResult, Links!InStep
    <3> QED
      BY <1>8, <1>9, <2>3, <3>1 DEF Links!InStep
  <2>4. CASE Links!InStep(t, "connect", "session_data", ret)
    <3>1. r = Links!FinalizeCs(t, "connect", "SUCCESS")
      BY <2>1, <2>4 DEF Links!OnReadResult, Links!InStep
    <3>2. t.csOp = "connect" /\ LinkedTo(t, t.stone)
      BY <1>5, <2>4 DEF Links!InStep
    <3> QED
      BY <1>2, <1>5, <3>1, <3>2, ConnectDone
  <2>5. CASE /\ ret = "SUCCESS" /\ ~ Links!InStep(t, "connect", "session_key", ret)
             /\ ~ Links!InStep(t, "connect", "session_data", ret)
    <3>1. r = Links!FinalizeCs(t, t.csOp, "WRONG_OPERATION")
      BY <2>1, <2>5 DEF Links!OnReadResult
    <3> QED
      BY <1>2, <1>5, <1>6, <1>7, <3>1, FinalizeFails
  <2> QED
    BY <2>2, <2>3, <2>4, <2>5
<1>13. CASE type = "write_result"
  <2>1. r = Links!OnWriteResult(t, ret, gattOk, setupMode)
    BY <1>4, <1>13
  <2>2. CASE ret # "SUCCESS"
    <3>1. r = Links!FinalizeCs(t, t.csOp, ret)
      BY <2>1, <2>2 DEF Links!OnWriteResult
    <3> QED
      BY <1>2, <1>5, <1>7, <2>2, <3>1, FinalizeFails
  <2>3. CASE Links!InStep(t, "connect", "enable_notifications", ret)
    <3> DEFINE step == IF setupMode THEN "session_key" ELSE "session_data"
    <3>1. r = Links!GoOn(Links!Procedure(t, "read", gattOk), step) /\ step \in {"session_key", "session_data"}
      BY <2>1, <2>3 DEF Links!OnWriteResult, Links!InStep
    <3> HIDE DEF step
    <3> QED
      BY <1>8, <1>9, <2>3, <3>1 DEF Links!InStep
  <2>4. CASE Links!InStep(t, "write", "write", ret)
    <3>1. r = [t EXCEPT !.csStep = "receive_result"]
      BY <2>1, <2>4 DEF Links!OnWriteResult, Links!InStep
    <3>2. "receive_result" \in Steps
      BY DEF Steps
    <3>3. /\ r \in Central /\ BleSame(r, t) /\ r.op = t.op /\ r.mesh = t.mesh /\ r.event = << >>
          /\ r.csOp = t.csOp /\ r.stone = t.stone /\ r.results = << >>
      BY <1>2, <1>5, <3>1, <3>2 DEF Central, BleSame
    <3>4. t.csOp = "write" /\ LinkedTo(t, u.session)
      BY <1>5, <2>4 DEF Links!InStep
    <3>5. Good(r, u)
      BY <1>5, <3>3, <3>4
      DEF Good, Base, StepsDone, MakesRoom, UserWaits, BleSame, LinkedTo, Joins
    <3> QED
      BY <3>5, NothingTold
  <2>5. CASE /\ ret = "SUCCESS" /\ ~ Links!InStep(t, "connect", "enable_notifications", ret)
             /\ ~ Links!InStep(t, "write", "write", ret)
    <3>1. r = Links!FinalizeCs(t, t.csOp, "WRONG_OPERATION")
      BY <2>1, <2>5 DEF Links!OnWriteResult
    <3> QED
      BY <1>2, <1>5, <1>6, <1>7, <3>1, FinalizeFails
  <2> QED
    BY <2>2, <2>3, <2>4, <2>5
<1> QED
  BY <1>10, <1>11, <1>12, <1>13

LEMMA HeardTwo ==
  ASSUME NEW u, NEW e, NEW d, NEW w, w = Links!Heard(u, e)
  PROVE  Links!HeardAll(u, <<e, d>>) = Links!Heard(w, d)
<1>1. Len(<<e, d>>) = 2 /\ <<e, d>>[1] = e /\ <<e, d>>[2] = d /\ <<e, d>> # << >>
  OBVIOUS
<1> QED
  BY <1>1 DEF Links!HeardAll

LEMMA HeadOfOne == \A x : <<x>> # << >> /\ Head(<<x>>) = x
OBVIOUS

LEMMA AppendToFew ==
  ASSUME NEW s, NEW none, NEW x, NEW y, NEW l, s = IF none THEN << >> ELSE <<x>>, l = Append(s, y)
  PROVE  l = IF none THEN <<y>> ELSE <<x, y>>
OBVIOUS

\* onDisconnect(): whatever was going on, nobody waits any more.
LEMMA LossTold ==
  ASSUME NEW c \in Central, NEW u \in User, c.results = << >>,
         c.event = OneEvent("disconnected", "SUCCESS"), c.op = "none", c.mesh = "on", c.gap = NoStone,
         c.link = NoStone, ~ c.closing, c.gatt = "none",
         c.csOp = "connect" => u.awaits = "connect", c.csOp = "write" => u.awaits = "write",
         c.csOp = "none" => u.awaits \in {"none", "disconnect"}, NEW gattOk, NEW setupMode
  PROVE  StaysGood(Links!Dispatched(c, gattOk, setupMode), u)
<1> DEFINE t == [c EXCEPT !.event = << >>]
           f == [t EXCEPT !.stone = NoStone, !.timer = FALSE]
           e == [type |-> c.csOp, ret |-> "CANCELED"]
           d == [type |-> "disconnected", ret |-> "SUCCESS"]
           ended == Links!FinalizeCs(f, t.csOp, "CANCELED")
           r == Links!Dispatched(c, gattOk, setupMode)
           v == Links!HeardAll(u, r.results)
           n == [r EXCEPT !.results = << >>]
<1>1. /\ t \in Central /\ t.event = << >> /\ BleSame(t, c) /\ CsSame(t, c)
      /\ t.op = c.op /\ t.mesh = c.mesh
  BY Taken
<1>2. c.event = <<d>>
  BY DEF OneEvent
<1>3. c.event # << >> /\ Head(c.event) = d
  BY <1>2, HeadOfOne, Zenon
<1>4. r = Links!OnDisconnected(t)
  BY <1>3 DEF Links!Dispatched
<1>5. r = [ended EXCEPT !.results = Append(ended.results, d)]
  <2>1. Links!OnDisconnected(t) = [ended EXCEPT !.results = Append(ended.results, d)]
    BY DEF Links!OnDisconnected
  <2> QED
    BY <1>4, <2>1
<1> HIDE DEF t
<1>6. /\ f \in Central /\ f.event = << >> /\ BleSame(f, t) /\ f.op = t.op /\ f.mesh = t.mesh
      /\ f.csOp = t.csOp /\ f.results = t.results
  BY <1>1 DEF Central, BleSame, Someone
<1> HIDE DEF f
<1>7. "CANCELED" \in Returns /\ "SUCCESS" \in Returns /\ "disconnected" \in EventTypes /\ << >> \in ResultLists
  BY DEF Returns, EventTypes, ResultLists
<1>8. Ends(ended, f, "CANCELED")
  BY <1>1, <1>6, <1>7, FinalizeCsIs DEF CsSame
<1> HIDE DEF ended
<1>9. ended.results = IF c.csOp = "none" THEN << >> ELSE <<e>>
  BY <1>1, <1>6, <1>8 DEF Ends, OneEvent, CsSame
<1>10. ended \in Central
  BY <1>8 DEF Ends
<1>11. r.results = IF c.csOp = "none" THEN <<d>> ELSE <<e, d>>
  <2>1. r.results = Append(ended.results, d)
    BY <1>5, <1>10 DEF Central
  <2> HIDE DEF d, e, r
  <2> QED
    BY <1>9, <2>1, AppendToFew
<1> SUFFICES Good(n, v)
  BY DEF StaysGood
<1>12. /\ n \in Central /\ n.results = << >> /\ n.event = << >> /\ n.op = "none" /\ n.mesh = "on"
       /\ n.gap = NoStone /\ n.link = NoStone /\ ~ n.closing /\ n.gatt = "none" /\ n.csOp = "none"
  <2> DEFINE news == Append(ended.results, d)
  <2>1. n = [[ended EXCEPT !.results = news] EXCEPT !.results = << >>]
    BY <1>5
  <2> HIDE DEF news, n
  <2>2. n = [ended EXCEPT !.results = << >>]
    BY <1>10, <2>1 DEF Central
  <2>3. /\ ended.event = << >> /\ ended.op = "none" /\ ended.mesh = "on"
        /\ ended.gap = NoStone /\ ended.link = NoStone /\ ~ ended.closing /\ ended.gatt = "none"
        /\ ended.csOp = "none"
    BY <1>1, <1>6, <1>8 DEF Ends, BleSame
  <2> QED
    BY <1>7, <1>10, <2>2, <2>3 DEF Central
<1> HIDE DEF n, r
<1>13. v \in User /\ v.awaits = "none" /\ v.session = NoStone /\ ~ v.spoilt
  <2> DEFINE w == IF c.csOp = "none" THEN u ELSE Links!Heard(u, e)
  <2>1. v = Links!Heard(w, d)
    <3>1. CASE c.csOp = "none"
      <4>1. r.results = <<d>> /\ w = u
        BY <1>11, <3>1
      <4> HIDE DEF d, e, w
      <4>2. Links!HeardAll(u, <<d>>) = Links!Heard(u, d)
        BY HeardIs
      <4>3. v = Links!HeardAll(u, <<d>>)
        BY <4>1
      <4> QED
        BY <4>1, <4>2, <4>3
    <3>2. CASE c.csOp # "none"
      <4>1. r.results = <<e, d>> /\ w = Links!Heard(u, e)
        BY <1>11, <3>2
      <4> HIDE DEF d, e, w
      <4>2. Links!HeardAll(u, <<e, d>>) = Links!Heard(w, d)
        BY <4>1, HeardTwo
      <4>3. v = Links!HeardAll(u, <<e, d>>)
        BY <4>1
      <4> QED
        BY <4>1, <4>2, <4>3
    <3> QED
      BY <3>1, <3>2
  <2>2. w \in User /\ w.awaits \in {"none", "disconnect"}
    <3>1. CASE c.csOp = "none"
      BY <3>1
    <3>2. CASE c.csOp = "connect"
      <4>1. w = [u EXCEPT !.awaits = "none", !.session = NoStone]
        BY <3>2 DEF Links!Heard
      <4> HIDE DEF w
      <4> QED
        BY <4>1 DEF User, Someone
    <3>3. CASE c.csOp = "write"
      <4>1. w = [u EXCEPT !.awaits = "none", !.spoilt = TRUE, !.session = NoStone]
        BY <3>3 DEF Links!Heard
      <4> HIDE DEF w
      <4> QED
        BY <4>1 DEF User, Someone
    <3> QED
      BY <3>1, <3>2, <3>3 DEF Central
  <2> HIDE DEF w
  <2>3. v = [w EXCEPT !.session = NoStone, !.spoilt = FALSE,
                      !.awaits = IF w.awaits = "disconnect" THEN "none" ELSE w.awaits]
    BY <2>1 DEF Links!Heard
  <2> HIDE DEF v
  <2> QED
    BY <2>2, <2>3 DEF User, Someone
<1> HIDE DEF v
<1> QED
  BY <1>12, <1>13 DEF Good, Base, StepsDone, MakesRoom, UserWaits, Joins

-----------------------------------------------------------------------------

LEMMA LeavesIt ==
  ASSUME NEW c, NEW u, Links!Become(c, u), StaysGood(c, u), macRequests' \subseteq Stones
  PROVE  LinksInv'
BY DEF Links!Become, StaysGood, LinksInv

LEMMA ConnectStep ==
  ASSUME LinksInv, NEW stone \in Stones, Links!Connect(stone)
  PROVE  LinksInv'
<1> DEFINE c == [central EXCEPT !.csOp = "connect", !.csStep = "get_address",
                                !.stone = stone, !.timer = TRUE]
           u == [user EXCEPT !.awaits = "connect", !.target = stone]
<1>1. /\ user.awaits = "none" /\ ~ user.spoilt /\ user.session = NoStone /\ central.csOp = "none"
      /\ Links!Become(c, u) /\ macRequests' \subseteq Stones
  BY DEF Links!Connect, Links!Command, Links!CsBusy, LinksInv
<1>2. central \in Central /\ user \in User /\ "get_address" \in Steps /\ stone \in Someone /\ stone # NoStone
  BY PartsAssumption DEF LinksInv, Good, Base, Steps, Someone
<1>3. /\ c \in Central /\ BleSame(c, central) /\ c.op = central.op /\ c.mesh = central.mesh
      /\ c.event = central.event /\ c.results = central.results
      /\ c.csOp = "connect" /\ c.csStep = "get_address" /\ c.stone = stone
  BY <1>2 DEF Central, BleSame
<1>4. u \in User /\ u.awaits = "connect" /\ u.target = stone /\ u.session = NoStone /\ ~ u.spoilt
  BY <1>1, <1>2 DEF User
<1> HIDE DEF c, u
<1>5. Good(c, u)
  BY <1>1, <1>2, <1>3, <1>4
  DEF LinksInv, Good, Base, StepsDone, MakesRoom, UserWaits, BleSame, LinkedTo, Joins
<1> QED
  BY <1>1, <1>5, NothingTold, LeavesIt

LEMMA WriteCommandStep ==
  ASSUME LinksInv, NEW gattOk \in BOOLEAN, Links!WriteCommand(gattOk)
  PROVE  LinksInv'
<1> DEFINE a == Links!Procedure(central, "write", gattOk)
           c == [a.c EXCEPT !.csOp = "write", !.csStep = "write"]
           u == [user EXCEPT !.awaits = "write"]
           w == [user EXCEPT !.spoilt = TRUE, !.session = NoStone]
<1>1. /\ user.awaits = "none" /\ ~ user.spoilt /\ user.session # NoStone /\ central.csOp = "none"
      /\ IF a.ret = "WAIT" THEN Links!Become(c, u) ELSE Links!Become(a.c, w)
      /\ macRequests' \subseteq Stones
  BY DEF Links!WriteCommand, Links!Command, Links!CsBusy, LinksInv
<1>2. central \in Central /\ user \in User /\ "write" \in Steps /\ NoStone \in Someone
      /\ "write" \in Links!Operations
  BY DEF LinksInv, Good, Base, Steps, Someone, Links!Operations
<1>3. LinkedTo(central, user.session) /\ central.op = "none"
  BY <1>1 DEF LinksInv, Good, Base, UserWaits
<1>4. /\ a.ret # "WAIT" => a.c = central
      /\ a.ret = "WAIT" => a.c = [central EXCEPT !.op = "write", !.gatt = "write"]
  BY <1>2, ProcedureIs
<1>5. u \in User /\ u.awaits = "write" /\ u.session = user.session /\ u.spoilt = user.spoilt
  BY <1>2 DEF User
<1>6. w \in User /\ w.awaits = "none" /\ w.session = NoStone
  BY <1>1, <1>2 DEF User
<1> HIDE DEF a, u, w
<1>7. CASE a.ret = "WAIT"
  <2>1. c = [[central EXCEPT !.op = "write", !.gatt = "write"] EXCEPT !.csOp = "write", !.csStep = "write"]
    BY <1>4, <1>7
  <2> HIDE DEF c
  <2>2. /\ c \in Central /\ c.op = "write" /\ c.gatt = "write" /\ c.link = central.link
        /\ c.closing = central.closing /\ c.gap = central.gap /\ c.mesh = central.mesh
        /\ c.event = central.event /\ c.results = central.results
        /\ c.csOp = "write" /\ c.csStep = "write"
    BY <1>2, <2>1 DEF Central
  <2>3. Good(c, u)
    BY <1>1, <1>2, <1>3, <1>5, <2>2
    DEF LinksInv, Good, Base, StepsDone, MakesRoom, UserWaits, LinkedTo, Joins
  <2> QED
    BY <1>1, <1>7, <2>3, NothingTold, LeavesIt DEF c
<1>8. CASE a.ret # "WAIT"
  <2>1. Good(central, w)
    BY <1>1, <1>2, <1>3, <1>6
    DEF LinksInv, Good, Base, StepsDone, MakesRoom, UserWaits, LinkedTo, Joins
  <2> QED
    BY <1>1, <1>4, <1>8, <2>1, NothingTold, LeavesIt
<1> QED
  BY <1>7, <1>8

\* The operation in progress fails, whatever it is.
LEMMA FailureStep ==
  ASSUME LinksInv, NEW r, Fails(r, central), Links!Become(r, user), macRequests' \subseteq Stones
  PROVE  LinksInv'
BY FailureTold, LeavesIt DEF LinksInv, Good

LEMMA TimerExpiresStep ==
  ASSUME LinksInv, Links!TimerExpires
  PROVE  LinksInv'
<1> DEFINE c == [central EXCEPT !.timer = FALSE]
           r == Links!FinalizeCs(c, central.csOp, "TIMEOUT")
<1>1. Links!Become(r, user) /\ macRequests' \subseteq Stones
  BY DEF Links!TimerExpires, Links!Quiet, LinksInv
<1>2. central \in Central /\ central.results = << >> /\ "TIMEOUT" \in Returns \ {"SUCCESS"}
  BY DEF LinksInv, Good, Base, Returns
<1>3. /\ c \in Central /\ BleSame(c, central) /\ CsSame(c, central) /\ c.op = central.op
      /\ c.mesh = central.mesh /\ c.event = central.event
  BY <1>2 DEF Central, BleSame, CsSame
<1> HIDE DEF c
<1>4. Fails(r, c)
  BY <1>2, <1>3, FinalizeFails DEF CsSame
<1>5. Fails(r, central)
  BY <1>3, <1>4 DEF Fails, Ends, BleSame, CsSame
<1> QED
  BY <1>1, <1>5, FailureStep

LEMMA NotificationStep ==
  ASSUME LinksInv, NEW ret \in {"SUCCESS", "WRONG_PARAMETER"}, Links!Notification(ret)
  PROVE  LinksInv'
<1> DEFINE r == Links!FinalizeCs(central, "write", ret)
<1>1. /\ central.csOp = "write" /\ central.csStep = "receive_result"
      /\ Links!Become(r, user) /\ macRequests' \subseteq Stones
  BY DEF Links!Notification, Links!Quiet, LinksInv
<1>2. central \in Central /\ user \in User /\ central.results = << >> /\ ret \in Returns
  BY DEF LinksInv, Good, Base, Returns
<1>3. CASE ret # "SUCCESS"
  BY <1>1, <1>2, <1>3, FinalizeFails, FailureStep
<1>4. CASE ret = "SUCCESS"
  <2> DEFINE d == [r EXCEPT !.results = << >>]
             v == Links!HeardAll(user, r.results)
             e == [type |-> "write", ret |-> "SUCCESS"]
  <2>1. Ends(r, central, "SUCCESS") /\ << >> \in ResultLists
    BY <1>1, <1>2, <1>4, FinalizeCsIs DEF ResultLists
  <2> HIDE DEF r
  <2>2. r.results = <<e>>
    BY <1>1, <2>1 DEF Ends, OneEvent
  <2>3. v = Links!Heard(user, e)
    <3> HIDE DEF e
    <3> QED
      BY <2>2, HeardIs
  <2>4. /\ d \in Central /\ BleSame(d, central) /\ d.op = central.op /\ d.mesh = central.mesh
        /\ d.event = << >> /\ d.csOp = "none" /\ d.results = << >>
    BY <2>1 DEF Ends, BleSame, Central, LinksInv, Good
  <2>5. /\ user.awaits = "write" /\ LinkedTo(central, user.session) /\ central.op = "none"
    BY <1>1 DEF LinksInv, Good, Base, UserWaits, StepsDone
  <2>6. v = [user EXCEPT !.awaits = "none", !.spoilt = FALSE, !.session = user.session]
    BY <2>3, <2>5 DEF Links!Heard
  <2> HIDE DEF d, v
  <2>7. v \in User /\ v.awaits = "none" /\ v.session = user.session
    BY <1>2, <2>6 DEF User
  <2>8. Good(d, v)
    BY <2>4, <2>5, <2>7
    DEF LinksInv, Good, Base, StepsDone, MakesRoom, UserWaits, BleSame, LinkedTo, Joins
  <2>9. StaysGood(r, user)
    BY <2>8 DEF StaysGood, d, v
  <2> QED
    BY <1>1, <2>9, LeavesIt DEF r, LinksInv
<1> QED
  BY <1>3, <1>4

LEMMA MacResultStep ==
  ASSUME LinksInv, NEW stone \in Stones, NEW hostConnected \in BOOLEAN,
         Links!MacResult(stone, hostConnected)
  PROVE  LinksInv'
<1> DEFINE stopped == [central EXCEPT !.timer = FALSE]
           result == IF hostConnected THEN Links!Answer(stopped, "WRONG_STATE")
                     ELSE Links!BleConnect(stopped, stone)
           c == IF ~ Links!InStep(central, "connect", "get_address", "SUCCESS")
                THEN Links!EndStep(central, "connect", "SUCCESS")
                ELSE IF stone # central.stone THEN central
                ELSE Links!GoOn(result, "connect")
<1>1. Links!Become(c, user) /\ macRequests' \subseteq Stones
  BY DEF Links!MacResult, LinksInv
<1>2. /\ central \in Central /\ user \in User /\ central.results = << >> /\ central.event = << >>
      /\ Base(central, user) /\ "SUCCESS" \in Returns
      /\ {"WRONG_STATE", "BUSY"} \subseteq Returns \ {"SUCCESS"} /\ "WAIT" \notin Returns
  BY DEF LinksInv, Good, Base, Returns
<1>3. /\ stopped \in Central /\ BleSame(stopped, central) /\ CsSame(stopped, central)
      /\ stopped.op = central.op /\ stopped.mesh = central.mesh /\ stopped.event = central.event
  BY <1>2 DEF Central, BleSame, CsSame
<1>4. CASE ~ Links!InStep(central, "connect", "get_address", "SUCCESS")
  <2>1. c = Links!EndStep(central, "connect", "SUCCESS")
    BY <1>4
  <2>2. Fails(c, central)
    BY <1>2, <2>1, EndStepIs
  <2> HIDE DEF c
  <2> QED
    BY <1>1, <2>2, FailureStep
<1>5. CASE Links!InStep(central, "connect", "get_address", "SUCCESS") /\ stone # central.stone
  <2>1. c = central
    BY <1>5
  <2> HIDE DEF c
  <2> QED
    BY <1>1, <2>1, NothingTold, LeavesIt DEF LinksInv
<1>6. CASE Links!InStep(central, "connect", "get_address", "SUCCESS") /\ stone = central.stone
  <2>1. c = Links!GoOn(result, "connect") /\ central.csOp = "connect"
    BY <1>6 DEF Links!InStep
  <2> HIDE DEF stopped, c
  <2>2. \/ result.ret \in Returns \ {"SUCCESS"} /\ result.c = stopped
        \/ /\ central.op = "none" /\ central.link = NoStone /\ result.ret = "WAIT"
           /\ result.c = [Links!MakeRoom(stopped) EXCEPT !.address = stone, !.op = "clearance"]
    <3>1. CASE hostConnected
      BY <1>2, <3>1 DEF Links!Answer
    <3>2. CASE ~ hostConnected
      <4>1. stopped.op = "none" => stopped.mesh # "off"
        BY <1>2, <1>3 DEF Base, MakesRoom, Joins
      <4> QED
        BY <1>2, <1>3, <3>2, <4>1
        DEF Links!BleConnect, Links!Answer, Links!Busy, Links!Connected, BleSame
    <3> QED
      BY <3>1, <3>2
  <2> HIDE DEF result
  <2>3. CASE result.ret \in Returns \ {"SUCCESS"} /\ result.c = stopped
    <3>1. c = Links!FinalizeCs(stopped, "connect", result.ret)
      BY <1>2, <2>1, <2>3 DEF Links!GoOn
    <3>2. Fails(c, stopped)
      BY <1>2, <1>3, <2>3, <3>1, FinalizeFails DEF CsSame
    <3>3. Fails(c, central)
      BY <1>3, <3>2 DEF Fails, Ends, BleSame, CsSame
    <3> QED
      BY <1>1, <3>3, FailureStep DEF c, result, stopped
  <2>4. CASE /\ central.op = "none" /\ central.link = NoStone /\ result.ret = "WAIT"
             /\ result.c = [Links!MakeRoom(stopped) EXCEPT !.address = stone, !.op = "clearance"]
    <3> DEFINE mesh == IF stopped.mesh = "on" THEN "stopping" ELSE stopped.mesh
    <3>1. Links!MakeRoom(stopped) = [stopped EXCEPT !.mesh = mesh, !.connectable = FALSE]
      BY DEF Links!MakeRoom
    <3>2. mesh = "stopping"
      BY <1>2, <1>3, <2>4 DEF Base, MakesRoom, Joins
    <3> HIDE DEF mesh
    <3>3. c = [[[stopped EXCEPT !.mesh = "stopping", !.connectable = FALSE]
                 EXCEPT !.address = stone, !.op = "clearance"] EXCEPT !.csStep = "connect"]
      BY <2>1, <2>4, <3>1, <3>2 DEF Links!GoOn
    <3>4. "clearance" \in Links!Operations /\ "connect" \in Steps /\ stone \in Someone
      BY DEF Links!Operations, Steps, Someone
    <3>5. c \in Central /\ c.op = "clearance" /\ c.address = stone /\ c.mesh = "stopping"
          /\ c.csStep = "connect"
      BY <1>3, <3>3, <3>4 DEF Central
    <3>6. /\ c.link = stopped.link /\ c.closing = stopped.closing /\ c.gap = stopped.gap
          /\ c.gatt = stopped.gatt /\ c.event = stopped.event /\ c.csOp = stopped.csOp
          /\ c.stone = stopped.stone /\ c.results = stopped.results
      BY <1>3, <3>3 DEF Central
    <3>7. Good(c, user)
      BY <1>2, <1>3, <1>6, <2>1, <2>4, <3>5, <3>6
      DEF Good, Base, StepsDone, MakesRoom, UserWaits, BleSame, CsSame, LinkedTo, Joins
    <3> QED
      BY <1>1, <3>7, NothingTold, LeavesIt DEF c, result, stopped
  <2> QED
    BY <2>2, <2>3, <2>4
<1> QED
  BY <1>4, <1>5, <1>6

LEMMA MacLostStep ==
  ASSUME LinksInv, NEW stone \in Stones, Links!MacLost(stone)
  PROVE  LinksInv'
BY DEF Links!MacLost, LinksInv

\* Without an event, nothing is dispatched.
LEMMA NothingDispatched ==
  ASSUME NEW c, NEW u, Good(c, u), NEW gattOk, NEW setupMode
  PROVE  StaysGood(Links!Dispatched(c, gattOk, setupMode), u)
<1>1. Links!Dispatched(c, gattOk, setupMode) = c
  BY DEF Links!Dispatched, Good
<1> QED
  BY <1>1, NothingTold

LEMMA MeshDisabledStep ==
  ASSUME LinksInv, Links!MeshDisabled
  PROVE  LinksInv'
<1> DEFINE off == [central EXCEPT !.mesh = "off"]
           free == [off EXCEPT !.op = "none"]
           c == [free EXCEPT !.op = "connect", !.gap = central.address]
<1>1. /\ central.mesh = "stopping" /\ macRequests' \subseteq Stones
      /\ Links!Become(Links!Dispatched(Links!OnMeshDisabled(central), TRUE, FALSE), user)
  BY DEF Links!MeshDisabled, Links!Quiet, LinksInv
<1>2. central \in Central /\ user \in User /\ central.event = << >> /\ central.results = << >>
      /\ Good(central, user) /\ Base(central, user)
  BY DEF LinksInv, Good, Base
<1>3. central.op = "clearance" /\ central.link = NoStone /\ central.gap = NoStone
  BY <1>1, <1>2 DEF Base, MakesRoom, Joins
<1>4. off.op = "clearance" /\ free.gap = NoStone
  BY <1>2, <1>3 DEF Central
<1>5. Links!OnMeshDisabled(central) = c
  <2>1. Links!FinalizeBle(off, "clearance", "SUCCESS") = free
    <3> HIDE DEF off
    <3> QED
      BY <1>4 DEF Links!FinalizeBle
  <2>2. Links!OnMeshDisabled(central) = Links!ConnectWithClearance(free, central.address).c
    BY <1>3, <2>1 DEF Links!OnMeshDisabled
  <2> HIDE DEF free
  <2> QED
    BY <1>4, <2>2 DEF Links!ConnectWithClearance, Links!Answer
<1>6. "connect" \in Links!Operations /\ "none" \in Links!Operations
  BY DEF Links!Operations
<1>7. c \in Central /\ c.op = "connect" /\ c.gap = central.address /\ c.mesh = "off"
  BY <1>2, <1>6 DEF Central
<1>8. /\ c.link = central.link /\ c.closing = central.closing /\ c.gatt = central.gatt
      /\ c.event = central.event /\ CsSame(c, central)
  BY <1>2 DEF Central, CsSame
<1> HIDE DEF c, free, off
<1>9. Good(c, user)
  BY <1>2, <1>3, <1>7, <1>8
  DEF Good, Base, StepsDone, MakesRoom, UserWaits, CsSame, LinkedTo, Joins
<1> QED
  BY <1>1, <1>5, <1>9, NothingDispatched, LeavesIt

LEMMA GapConnectedStep ==
  ASSUME LinksInv, NEW gattOk \in BOOLEAN, Links!GapConnected(gattOk)
  PROVE  LinksInv'
<1> DEFINE linked == [central EXCEPT !.link = central.gap, !.gap = NoStone]
           asked == [linked EXCEPT !.gatt = "mtu"]
           r == Links!FinalizeBle(linked, "connect", "SUCCESS")
           c == Links!OnGapConnected(central, gattOk)
<1>1. /\ central.gap # NoStone /\ macRequests' \subseteq Stones
      /\ Links!Become(Links!Dispatched(c, gattOk, FALSE), user)
  BY DEF Links!GapConnected, Links!Quiet, LinksInv
<1>2. central \in Central /\ user \in User /\ central.event = << >> /\ central.results = << >>
      /\ Good(central, user) /\ Base(central, user)
  BY DEF LinksInv, Good, Base
<1>3. central.op = "connect" /\ central.link = NoStone /\ ~ central.closing /\ central.gatt = "none"
      /\ central.mesh = "off"
  BY <1>1, <1>2 DEF Base, MakesRoom
<1>4. c = IF gattOk THEN asked ELSE r
  BY DEF Links!OnGapConnected
<1>5. /\ linked \in Central /\ linked.link = central.gap /\ linked.gap = NoStone
      /\ linked.closing = central.closing /\ linked.gatt = central.gatt /\ linked.op = central.op
      /\ linked.mesh = central.mesh /\ linked.event = central.event /\ CsSame(linked, central)
  BY <1>2 DEF Central, CsSame, Someone
<1> HIDE DEF linked
<1>6. CASE gattOk
  <2>1. /\ asked \in Central /\ asked.link = central.gap /\ asked.gap = NoStone
        /\ asked.closing = central.closing /\ asked.op = central.op /\ asked.gatt = "mtu"
        /\ asked.mesh = central.mesh /\ asked.event = central.event /\ CsSame(asked, central)
    BY <1>5 DEF Central, CsSame
  <2> HIDE DEF asked
  <2>2. Good(asked, user)
    BY <1>1, <1>2, <1>3, <2>1
    DEF Good, Base, StepsDone, MakesRoom, UserWaits, CsSame, LinkedTo, Joins
  <2> HIDE DEF c
  <2> QED
    BY <1>1, <1>4, <1>6, <2>2, NothingDispatched, LeavesIt
<1>7. CASE ~ gattOk
  <2>1. "connect" \in Links!Operations /\ "SUCCESS" \in Returns
    BY DEF Links!Operations, Returns
  <2>2. /\ r \in Central /\ BleSame(r, linked) /\ CsSame(r, linked) /\ r.op = "none"
        /\ r.mesh = "on" /\ r.event = OneEvent("connect_result", "SUCCESS")
    BY <1>2, <1>3, <1>5, <2>1, FinalizeBleIs DEF Joins
  <2> HIDE DEF r
  <2>3. Arrives(r, user, "connect_result", "SUCCESS")
    BY <1>1, <1>2, <1>3, <1>5, <2>2
    DEF Arrives, Good, Base, StepsDone, MakesRoom, UserWaits, CsSame, BleSame, LinkedTo, Joins
  <2> HIDE DEF c
  <2> QED
    BY <1>1, <1>4, <1>7, <2>1, <2>3, Dispatch, LeavesIt
<1> QED
  BY <1>6, <1>7

LEMMA GapTimeoutStep ==
  ASSUME LinksInv, Links!GapTimeout
  PROVE  LinksInv'
<1> DEFINE alone == [central EXCEPT !.gap = NoStone, !.link = NoStone]
           r == Links!FinalizeBle(alone, "connect", "TIMEOUT")
<1>1. /\ central.gap # NoStone /\ macRequests' \subseteq Stones
      /\ Links!Become(Links!Dispatched(r, TRUE, FALSE), user)
  BY DEF Links!GapTimeout, Links!OnGapTimeout, Links!Quiet, LinksInv
<1>2. central \in Central /\ user \in User /\ central.event = << >> /\ central.results = << >>
      /\ Base(central, user)
  BY DEF LinksInv, Good, Base
<1>3. central.op = "connect" /\ central.link = NoStone
  BY <1>1, <1>2 DEF Base, MakesRoom
<1>4. /\ alone \in Central /\ alone.link = NoStone /\ alone.gap = NoStone
      /\ alone.closing = central.closing /\ alone.gatt = central.gatt /\ alone.op = central.op
      /\ alone.mesh = central.mesh /\ alone.event = central.event /\ CsSame(alone, central)
  BY <1>2 DEF Central, CsSame, Someone
<1> HIDE DEF alone
<1>5. "connect" \in Links!Operations /\ "TIMEOUT" \in Returns
  BY DEF Links!Operations, Returns
<1>6. /\ r \in Central /\ BleSame(r, alone) /\ CsSame(r, alone) /\ r.op = "none"
      /\ r.mesh = "on" /\ r.event = OneEvent("connect_result", "TIMEOUT")
  BY <1>2, <1>3, <1>4, <1>5, FinalizeBleIs DEF Joins
<1> HIDE DEF r
<1>7. Arrives(r, user, "connect_result", "TIMEOUT")
  BY <1>2, <1>3, <1>4, <1>6
  DEF Arrives, Base, MakesRoom, UserWaits, CsSame, BleSame, LinkedTo, Joins
<1> QED
  BY <1>1, <1>5, <1>7, Dispatch, LeavesIt

LEMMA GattDoneStep ==
  ASSUME LinksInv, NEW ret \in {"SUCCESS", "GATT_ERROR"}, NEW gattOk \in BOOLEAN,
         NEW setupMode \in BOOLEAN, Links!GattDone(ret, gattOk, setupMode)
  PROVE  LinksInv'
<1> DEFINE done == [central EXCEPT !.gatt = "none"]
           operation == IF central.gatt = "mtu" THEN "connect" ELSE central.gatt
           r == Links!FinalizeBle(done, operation, ret)
           is == IF central.op = operation THEN ret ELSE "WRONG_STATE"
<1>1. /\ central.gatt # "none" /\ macRequests' \subseteq Stones
      /\ Links!Become(Links!Dispatched(r, gattOk, setupMode), user)
  BY DEF Links!GattDone, Links!OnGattDone, Links!Quiet, LinksInv
<1>2. central \in Central /\ user \in User /\ central.event = << >> /\ central.results = << >>
      /\ Good(central, user) /\ Base(central, user)
  BY DEF LinksInv, Good, Base
<1>3. central.link # NoStone /\ central.op # "clearance" /\ central.gap = NoStone
  BY <1>1, <1>2 DEF Base, MakesRoom
<1>4. /\ done \in Central /\ done.gatt = "none" /\ done.link = central.link
      /\ done.gap = central.gap /\ done.closing = central.closing /\ done.op = central.op
      /\ done.mesh = central.mesh /\ done.event = central.event /\ CsSame(done, central)
  BY <1>2 DEF Central, CsSame
<1> HIDE DEF done
<1>5. operation \in Links!Operations /\ operation \notin {"clearance", "disconnect"}
  BY <1>1, <1>2 DEF Central, Links!Operations
<1>6. ret \in Returns /\ is \in Returns
  BY DEF Returns
<1> HIDE DEF operation
<1>7. /\ r \in Central /\ BleSame(r, done) /\ CsSame(r, done) /\ r.op = "none"
      /\ Joins(done) => r.mesh = "on" /\ r.event = OneEvent("connect_result", is)
      /\ Proceeds(done) => r.mesh = done.mesh /\ r.event = OneEvent(Links!ResultEvent(done.op), is)
      /\ done.op \in {"none", "disconnect"} => r.mesh = done.mesh /\ r.event = << >>
  BY <1>2, <1>3, <1>4, <1>5, <1>6, FinalizeBleIs
<1> HIDE DEF r, is
<1>8. CASE Joins(central)
  <2>1. r.mesh = "on" /\ r.event = OneEvent("connect_result", is)
    BY <1>4, <1>7, <1>8 DEF Joins
  <2>2. Arrives(r, user, "connect_result", is)
    BY <1>2, <1>3, <1>4, <1>7, <1>8, <2>1, PartsAssumption
    DEF Arrives, Good, Base, StepsDone, MakesRoom, UserWaits, CsSame, BleSame, LinkedTo, Joins
  <2> QED
    BY <1>1, <1>6, <2>2, Dispatch, LeavesIt
<1>9. CASE Proceeds(central)
  <2> DEFINE type == Links!ResultEvent(central.op)
  <2>1. type \in {"discovery_result", "read_result", "write_result"}
    BY <1>9 DEF Proceeds, Links!ResultEvent
  <2> HIDE DEF type
  <2>2. r.mesh = central.mesh /\ r.event = OneEvent(type, is)
    BY <1>4, <1>7, <1>9 DEF Proceeds, type
  <2>3. Arrives(r, user, type, is)
    BY <1>2, <1>3, <1>4, <1>7, <1>9, <2>2
    DEF Arrives, Good, Base, StepsDone, MakesRoom, UserWaits, CsSame, BleSame, LinkedTo, Joins, Proceeds
  <2> QED
    BY <1>1, <1>6, <2>1, <2>3, Dispatch, LeavesIt
<1>10. CASE central.op \in {"none", "disconnect"}
  <2>1. r.mesh = central.mesh /\ r.event = << >>
    BY <1>4, <1>7, <1>10
  <2>2. Good(r, user)
    BY <1>2, <1>3, <1>4, <1>7, <1>10, <2>1
    DEF Good, Base, StepsDone, MakesRoom, UserWaits, CsSame, BleSame, LinkedTo, Joins
  <2> QED
    BY <1>1, <2>2, NothingDispatched, LeavesIt
<1> QED
  BY <1>2, <1>8, <1>9, <1>10 DEF Central, Links!Operations, Joins, Proceeds

LEMMA DisconnectedStep ==
  ASSUME LinksInv, Links!Disconnected
  PROVE  LinksInv'
<1> DEFINE lost == [central EXCEPT !.link = NoStone, !.closing = FALSE, !.gatt = "none"]
           r == Links!FinalizeBle(lost, "disconnect", "SUCCESS")
<1>1. /\ central.link # NoStone /\ macRequests' \subseteq Stones
      /\ Links!Become(Links!Dispatched(r, TRUE, FALSE), user)
  BY DEF Links!Disconnected, Links!OnGapDisconnected, LinksInv
<1>2. central \in Central /\ user \in User /\ central.event = << >> /\ central.results = << >>
      /\ Base(central, user)
  BY DEF LinksInv, Good, Base
<1>3. central.op # "clearance" /\ central.gap = NoStone
  BY <1>1, <1>2 DEF Base, MakesRoom
<1>4. /\ lost \in Central /\ lost.gatt = "none" /\ lost.link = NoStone
      /\ lost.gap = central.gap /\ ~ lost.closing /\ lost.op = central.op
      /\ lost.mesh = central.mesh /\ lost.event = central.event /\ CsSame(lost, central)
  BY <1>2 DEF Central, CsSame, Someone
<1> HIDE DEF lost
<1>5. "disconnect" \in Links!Operations /\ "SUCCESS" \in Returns /\ "WRONG_STATE" \in Returns
  BY DEF Links!Operations, Returns
<1>6. /\ r \in Central /\ BleSame(r, lost) /\ CsSame(r, lost) /\ r.op = "none"
      /\ Joins(lost) => r.mesh = "on" /\ r.event = OneEvent("connect_result", "WRONG_STATE")
      /\ Proceeds(lost) => r.mesh = lost.mesh /\ r.event = OneEvent(Links!ResultEvent(lost.op), "WRONG_STATE")
      /\ lost.op \in {"none", "disconnect"} => r.mesh = lost.mesh /\ r.event = OneEvent("disconnected", "SUCCESS")
  <2> DEFINE is == IF lost.op = "disconnect" THEN "SUCCESS" ELSE "WRONG_STATE"
  <2>1. Joins(lost) \/ Proceeds(lost) => is = "WRONG_STATE"
    BY DEF Joins, Proceeds
  <2>2. /\ r \in Central /\ BleSame(r, lost) /\ CsSame(r, lost) /\ r.op = "none"
        /\ Joins(lost) => r.mesh = "on" /\ r.event = OneEvent("connect_result", is)
        /\ Proceeds(lost) => r.mesh = lost.mesh /\ r.event = OneEvent(Links!ResultEvent(lost.op), is)
        /\ lost.op \in {"none", "disconnect"} => r.mesh = lost.mesh /\ r.event = OneEvent("disconnected", "SUCCESS")
    BY <1>2, <1>4, <1>5, FinalizeBleIs
  <2> HIDE DEF is, r
  <2> QED
    BY <2>1, <2>2
<1> HIDE DEF r
<1>7. CASE Joins(central)
  <2>1. r.mesh = "on" /\ r.event = OneEvent("connect_result", "WRONG_STATE")
    BY <1>4, <1>6, <1>7 DEF Joins
  <2>2. Arrives(r, user, "connect_result", "WRONG_STATE")
    BY <1>2, <1>3, <1>4, <1>6, <1>7, <2>1
    DEF Arrives, Base, MakesRoom, UserWaits, CsSame, BleSame, LinkedTo, Joins
  <2> QED
    BY <1>1, <1>5, <2>2, Dispatch, LeavesIt
<1>8. CASE Proceeds(central)
  <2> DEFINE type == Links!ResultEvent(central.op)
  <2>1. type \in {"discovery_result", "read_result", "write_result"}
    BY <1>8 DEF Proceeds, Links!ResultEvent
  <2> HIDE DEF type
  <2>2. r.mesh = central.mesh /\ r.event = OneEvent(type, "WRONG_STATE")
    BY <1>4, <1>6, <1>8 DEF Proceeds, type
  <2>3. Arrives(r, user, type, "WRONG_STATE")
    BY <1>2, <1>3, <1>4, <1>6, <1>8, <2>2
    DEF Arrives, Base, MakesRoom, UserWaits, CsSame, BleSame, LinkedTo, Joins, Proceeds
  <2>4. StaysGood(Links!Dispatched(r, TRUE, FALSE), user)
    BY <1>5, <2>1, <2>3, Dispatch
  <2> QED
    BY <1>1, <2>4, LeavesIt
<1>9. CASE central.op \in {"none", "disconnect"}
  <2>1. /\ r.mesh = "on" /\ r.event = OneEvent("disconnected", "SUCCESS") /\ r.gap = NoStone
        /\ r.link = NoStone /\ ~ r.closing /\ r.gatt = "none" /\ r.results = << >>
    BY <1>2, <1>3, <1>4, <1>6, <1>9 DEF Base, MakesRoom, Joins, BleSame, CsSame
  <2>2. /\ r.csOp = "connect" => user.awaits = "connect"
        /\ r.csOp = "write" => user.awaits = "write"
        /\ r.csOp = "none" => user.awaits \in {"none", "disconnect"}
    BY <1>2, <1>4, <1>6 DEF Base, UserWaits, CsSame
  <2>3. StaysGood(Links!Dispatched(r, TRUE, FALSE), user)
    BY <1>2, <1>6, <2>1, <2>2, LossTold
  <2> QED
    BY <1>1, <2>3, LeavesIt
<1> QED
  BY <1>2, <1>7, <1>8, <1>9 DEF Central, Links!Operations, Joins, Proceeds

LEMMA HeardKeeps ==
  ASSUME NEW u \in User, NEW r \in Happened
  PROVE  Links!Heard(u, r) \in User
<1> DEFINE awaits == IF u.awaits = "disconnect" THEN "none" ELSE u.awaits
           news == IF r.ret = "SUCCESS" THEN u.target ELSE NoStone
           kept == IF r.ret = "SUCCESS" THEN u.session ELSE NoStone
           spoilt == r.ret # "SUCCESS"
<1>1. \/ Links!Heard(u, r) = u
      \/ Links!Heard(u, r) = [u EXCEPT !.session = NoStone, !.spoilt = FALSE, !.awaits = awaits]
      \/ Links!Heard(u, r) = [u EXCEPT !.awaits = "none", !.session = news]
      \/ Links!Heard(u, r) = [u EXCEPT !.awaits = "none", !.spoilt = spoilt, !.session = kept]
  BY DEF Links!Heard
<1>2. /\ awaits \in {"none", "connect", "write", "disconnect"} /\ news \in Someone /\ kept \in Someone
      /\ spoilt \in BOOLEAN /\ NoStone \in Someone
  BY DEF User, Someone
<1> HIDE DEF awaits, news, kept, spoilt
<1> QED
  BY <1>1, <1>2 DEF User

LEMMA HeardAllKeeps ==
  ASSUME NEW u \in User, NEW l \in ResultLists
  PROVE  Links!HeardAll(u, l) \in User
<1>1. CASE l = << >>
  BY <1>1, HeardIs
<1>2. CASE \E r \in Happened : l = <<r>>
  <2>1. PICK r \in Happened : l = <<r>>
    BY <1>2
  <2>2. Links!HeardAll(u, <<r>>) = Links!Heard(u, r)
    BY HeardIs
  <2> QED
    BY <2>1, <2>2, HeardKeeps
<1>3. CASE \E r, q \in Happened : l = <<r, q>>
  <2>1. PICK r \in Happened, q \in Happened : l = <<r, q>>
    BY <1>3
  <2> DEFINE w == Links!Heard(u, r)
  <2>2. w \in User
    BY HeardKeeps
  <2>3. Links!HeardAll(u, <<r, q>>) = Links!Heard(w, q)
    BY HeardTwo
  <2> HIDE DEF w
  <2> QED
    BY <2>1, <2>2, <2>3, HeardKeeps
<1> QED
  BY <1>1, <1>2, <1>3 DEF ResultLists

\* An event that finds no operation of CrownstoneCentral changes nothing there.
LEMMA IdleDispatch ==
  ASSUME NEW c \in Central, c.csOp = "none", c.results \in EventLists,
         \/ c.event = << >>
         \/ \E type \in EventTypes \ {"connect", "write"}, ret \in Returns : c.event = OneEvent(type, ret),
         NEW gattOk, NEW setupMode
  PROVE  LET r == Links!Dispatched(c, gattOk, setupMode)
             n == [r EXCEPT !.results = << >>]
         IN /\ r.results \in ResultLists /\ n \in Central /\ n.results = << >> /\ n.event = << >>
            /\ BleSame(n, c) /\ n.op = c.op /\ n.mesh = c.mesh /\ n.csOp = "none"
<1> DEFINE r == Links!Dispatched(c, gattOk, setupMode)
           n == [r EXCEPT !.results = << >>]
           d == [type |-> "disconnected", ret |-> "SUCCESS"]
<1> SUFFICES /\ r.results \in ResultLists /\ n \in Central /\ n.results = << >> /\ n.event = << >>
             /\ BleSame(n, c) /\ n.op = c.op /\ n.mesh = c.mesh /\ n.csOp = "none"
  OBVIOUS
<1>1. << >> \in ResultLists /\ "none" \in Steps /\ NoStone \in Someone
  BY DEF ResultLists, Steps, Someone
<1>2. ASSUME NEW t \in Central, t.event = << >>, BleSame(t, c), t.op = c.op, t.mesh = c.mesh,
             t.csOp = "none", NEW l \in ResultLists, r = [t EXCEPT !.results = l]
      PROVE  /\ r.results \in ResultLists /\ n \in Central /\ n.results = << >> /\ n.event = << >>
             /\ BleSame(n, c) /\ n.op = c.op /\ n.mesh = c.mesh /\ n.csOp = "none"
  <2>1. n = [[t EXCEPT !.results = l] EXCEPT !.results = << >>]
    BY <1>2
  <2>2. r.results = l
    BY <1>2 DEF Central
  <2> HIDE DEF n, r
  <2>3. n = [t EXCEPT !.results = << >>]
    BY <1>2, <2>1 DEF Central
  <2> QED
    BY <1>1, <1>2, <2>2, <2>3 DEF Central, BleSame
<1>3. c.results \in ResultLists /\ c = [c EXCEPT !.results = c.results]
  BY DEF Central
<1>4. CASE c.event = << >>
  <2>1. r = c
    BY <1>4 DEF Links!Dispatched
  <2> HIDE DEF r, n
  <2> QED
    BY <1>2, <1>3, <1>4, <2>1 DEF BleSame
<1>5. ASSUME NEW type \in EventTypes \ {"connect", "write"}, NEW ret \in Returns,
             c.event = OneEvent(type, ret)
      PROVE  /\ r.results \in ResultLists /\ n \in Central /\ n.results = << >> /\ n.event = << >>
             /\ BleSame(n, c) /\ n.op = c.op /\ n.mesh = c.mesh /\ n.csOp = "none"
  <2> DEFINE t == [c EXCEPT !.event = << >>]
             e == [type |-> type, ret |-> ret]
             s == [t EXCEPT !.csStep = "none"]
             f == [t EXCEPT !.stone = NoStone, !.timer = FALSE]
             g == [f EXCEPT !.csStep = "none"]
             l == Append(c.results, d)
  <2>1. c.event = <<e>>
    BY <1>5 DEF OneEvent
  <2>2. c.event # << >> /\ Head(c.event) = e
    BY <2>1, HeadOfOne, Zenon
  <2>3. /\ t \in Central /\ t.event = << >> /\ BleSame(t, c) /\ CsSame(t, c)
        /\ t.op = c.op /\ t.mesh = c.mesh
    BY Taken
  <2>4. r = CASE type = "connect_result" -> Links!OnConnectResult(t, ret, gattOk)
              [] type = "discovery_result" -> Links!OnDiscoveryResult(t, ret, gattOk)
              [] type = "read_result" -> Links!OnReadResult(t, ret, gattOk)
              [] type = "write_result" -> Links!OnWriteResult(t, ret, gattOk, setupMode)
              [] type = "disconnected" -> Links!OnDisconnected(t)
    <3>1. e.type = type /\ e.ret = ret
      OBVIOUS
    <3> HIDE DEF e
    <3> QED
      BY <2>2, <3>1 DEF Links!Dispatched
  <2> HIDE DEF t, r
  <2>5. CASE type # "disconnected"
    <3>1. t.csOp = "none"
      BY <2>3 DEF CsSame
    <3>2. r = s
      <4>1. \A operation, x : /\ Links!FinalizeCs(t, operation, x) = s
                              /\ Links!EndStep(t, operation, x) = s
        BY <3>1 DEF Links!FinalizeCs, Links!EndStep
      <4>2. \A operation, step, x : operation \in {"connect", "write"} => ~ Links!InStep(t, operation, step, x)
        BY <3>1 DEF Links!InStep
      <4> HIDE DEF s
      <4> QED
        BY <1>5, <2>4, <2>5, <4>1, <4>2
        DEF EventTypes, Links!OnConnectResult, Links!OnDiscoveryResult, Links!OnReadResult, Links!OnWriteResult
    <3>3. /\ s \in Central /\ s.event = << >> /\ BleSame(s, c) /\ s.op = c.op /\ s.mesh = c.mesh
          /\ s.csOp = "none" /\ s.results = c.results
      BY <1>1, <2>3, <3>1 DEF Central, BleSame, CsSame
    <3> HIDE DEF s
    <3>4. s = [s EXCEPT !.results = c.results]
      BY <3>3 DEF Central
    <3> QED
      BY <1>2, <1>3, <3>2, <3>3, <3>4
  <2>6. CASE type = "disconnected"
    <3>1. r = Links!OnDisconnected(t)
      BY <2>4, <2>6
    <3>2. /\ f \in Central /\ f.event = << >> /\ BleSame(f, c) /\ f.op = c.op /\ f.mesh = c.mesh
          /\ f.csOp = "none" /\ f.results = c.results /\ t.csOp = "none"
      BY <1>1, <2>3 DEF Central, BleSame, CsSame
    <3>3. Links!OnDisconnected(t) =
            [Links!FinalizeCs(f, t.csOp, "CANCELED") EXCEPT
               !.results = Append(Links!FinalizeCs(f, t.csOp, "CANCELED").results, d)]
      BY DEF Links!OnDisconnected
    <3> HIDE DEF f, d
    <3>4. Links!FinalizeCs(f, t.csOp, "CANCELED") = g
      BY <3>2 DEF Links!FinalizeCs
    <3>5. /\ g \in Central /\ g.event = << >> /\ BleSame(g, c) /\ g.op = c.op /\ g.mesh = c.mesh
          /\ g.csOp = "none" /\ g.results = c.results
      BY <1>1, <3>2 DEF Central, BleSame
    <3> HIDE DEF g
    <3>6. r = [g EXCEPT !.results = l]
      BY <3>1, <3>3, <3>4, <3>5
    <3>7. l \in ResultLists
      <4>1. d \in Happened
        BY DEF d, Happened, EventTypes, Returns
      <4> DEFINE none == c.results = << >>
      <4>2. PICK x \in Happened : c.results = IF none THEN << >> ELSE <<x>>
        BY <4>1 DEF EventLists
      <4> HIDE DEF none
      <4>3. l = Append(c.results, d)
        OBVIOUS
      <4> HIDE DEF l
      <4>4. l = IF none THEN <<d>> ELSE <<x, d>>
        BY <4>2, <4>3, AppendToFew
      <4> QED
        BY <4>1, <4>4 DEF ResultLists
    <3> HIDE DEF l
    <3> QED
      BY <1>2, <3>5, <3>6, <3>7
  <2> QED
    BY <2>5, <2>6
<1> HIDE DEF r, n
<1> QED
  BY <1>4, <1>5

LEMMA EndSessionStep ==
  ASSUME LinksInv, Links!EndSession
  PROVE  LinksInv'
<1> DEFINE canceled == Links!FinalizeCs(central, central.csOp, "CANCELED")
           free == IF Links!Busy(canceled) THEN Links!FinalizeBle(canceled, canceled.op, "CANCELED")
                   ELSE canceled
           ended == [free EXCEPT !.op = "disconnect", !.closing = TRUE]
           result == Links!BleDisconnect(canceled)
           c == Links!Dispatched(result.c, TRUE, FALSE)
           n == [c EXCEPT !.results = << >>]
           u == Links!HeardAll(user, c.results)
           awaits == IF result.ret = "WAIT" THEN "disconnect" ELSE "none"
           v == [u EXCEPT !.session = NoStone, !.spoilt = FALSE, !.awaits = awaits]
<1>1. /\ \/ user.awaits = "none" /\ (user.session # NoStone \/ user.spoilt)
         \/ user.awaits = "write"
      /\ central' = n /\ user' = v /\ macRequests' \subseteq Stones
  BY DEF Links!EndSession, LinksInv
<1>2. /\ central \in Central /\ user \in User /\ central.event = << >> /\ central.results = << >>
      /\ Base(central, user) /\ "CANCELED" \in Returns /\ "disconnect" \in Links!Operations
  BY DEF LinksInv, Good, Base, Returns, Links!Operations
<1>3. ~ Joins(central) /\ central.csOp \in {"none", "write"}
  BY <1>1, <1>2 DEF Base, UserWaits, Central
<1>4. Ends(canceled, central, "CANCELED")
  BY <1>2, FinalizeCsIs
<1> HIDE DEF canceled
<1>5. canceled.results \in EventLists
  <2>1. {"connect", "write"} \subseteq EventTypes
    BY DEF EventTypes
  <2> QED
    BY <1>2, <1>3, <1>4, <2>1 DEF Ends, EventLists, Happened, OneEvent
<1>6. canceled \in Central /\ canceled.event = << >> /\ canceled.csOp = "none" /\ BleSame(canceled, central)
      /\ canceled.op = central.op /\ canceled.mesh = central.mesh
  BY <1>2, <1>4 DEF Ends
<1>7. /\ free \in Central /\ BleSame(free, central) /\ free.csOp = "none" /\ free.op = "none"
      /\ free.results = canceled.results /\ free.mesh = central.mesh
      /\ \/ free.event = << >>
         \/ \E type \in EventTypes \ {"connect", "write"}, ret \in Returns : free.event = OneEvent(type, ret)
  <2>1. CASE canceled.op = "none"
    BY <1>6, <2>1 DEF Links!Busy
  <2>2. CASE canceled.op # "none"
    <3> DEFINE r == Links!FinalizeBle(canceled, canceled.op, "CANCELED")
    <3>1. free = r
      BY <2>2 DEF Links!Busy
    <3>2. canceled.op \in {"disconnect", "discovery", "read", "write"} /\ canceled.op \in Links!Operations
      BY <1>3, <1>6, <2>2 DEF Central, Joins, Links!Operations
    <3>3. /\ r \in Central /\ BleSame(r, canceled) /\ CsSame(r, canceled) /\ r.op = "none"
          /\ Proceeds(canceled) => r.mesh = canceled.mesh /\ r.event = OneEvent(Links!ResultEvent(canceled.op), "CANCELED")
          /\ canceled.op = "disconnect" => r.mesh = canceled.mesh /\ r.event = OneEvent("disconnected", "SUCCESS")
      BY <1>2, <1>6, <3>2, FinalizeBleIs
    <3>4. /\ Proceeds(canceled) => Links!ResultEvent(canceled.op) \in EventTypes \ {"connect", "write"}
          /\ "disconnected" \in EventTypes \ {"connect", "write"} /\ "SUCCESS" \in Returns
      BY DEF Proceeds, Links!ResultEvent, EventTypes, Returns
    <3> HIDE DEF r, free
    <3>5. Proceeds(canceled) \/ canceled.op = "disconnect"
      BY <3>2 DEF Proceeds
    <3>6. \E type \in EventTypes \ {"connect", "write"}, ret \in Returns : r.event = OneEvent(type, ret)
      BY <1>2, <3>3, <3>4, <3>5
    <3>7. /\ r \in Central /\ BleSame(r, central) /\ r.csOp = "none" /\ r.op = "none"
          /\ r.results = canceled.results /\ r.mesh = central.mesh
      BY <1>6, <3>3, <3>5 DEF BleSame, CsSame
    <3> QED
      BY <3>1, <3>6, <3>7
  <2> QED
    BY <2>1, <2>2
<1> HIDE DEF free
<1>8. /\ ended \in Central /\ ended.link = free.link /\ ended.closing /\ ended.gap = free.gap
      /\ ended.gatt = free.gatt /\ ended.csOp = "none" /\ ended.op = "disconnect"
      /\ ended.results = free.results /\ ended.mesh = free.mesh /\ ended.event = free.event
  BY <1>2, <1>7 DEF Central
<1> HIDE DEF ended
<1>9. \/ result.ret = "SUCCESS" /\ result.c = free
      \/ result.ret = "WAIT" /\ result.c = ended /\ free.link # NoStone
  BY DEF Links!BleDisconnect, Links!Answer, Links!Connected, free, ended
<1> HIDE DEF result
<1>10. /\ result.c \in Central /\ result.c.csOp = "none" /\ result.c.results \in EventLists
       /\ \/ result.c.event = << >>
          \/ \E type \in EventTypes \ {"connect", "write"}, ret \in Returns :
               result.c.event = OneEvent(type, ret)
  BY <1>5, <1>7, <1>8, <1>9
<1>11. /\ c.results \in ResultLists /\ n \in Central /\ n.results = << >> /\ n.event = << >>
       /\ BleSame(n, result.c) /\ n.op = result.c.op /\ n.mesh = result.c.mesh /\ n.csOp = "none"
  BY <1>10, IdleDispatch
<1> HIDE DEF c, n
<1>12. u \in User
  BY <1>2, <1>11, HeardAllKeeps
<1> HIDE DEF u
<1>13. awaits \in {"none", "disconnect"} /\ (awaits = "disconnect" => result.ret = "WAIT")
  OBVIOUS
<1> HIDE DEF awaits
<1>14. v \in User /\ v.session = NoStone /\ ~ v.spoilt /\ v.awaits = awaits
  BY <1>12, <1>13 DEF User, Someone
<1> HIDE DEF v
<1>15. /\ n.link = central.link /\ n.gap = central.gap /\ n.gatt = central.gatt /\ n.mesh = central.mesh
       /\ \/ result.ret = "SUCCESS" /\ n.closing = central.closing /\ n.op = "none"
          \/ result.ret = "WAIT" /\ n.closing /\ n.op = "disconnect" /\ n.link # NoStone
  BY <1>7, <1>8, <1>9, <1>11 DEF BleSame
<1>16. Good(n, v)
  BY <1>2, <1>3, <1>11, <1>13, <1>14, <1>15
  DEF Good, Base, StepsDone, MakesRoom, UserWaits, Joins
<1> QED
  BY <1>1, <1>16 DEF LinksInv

LEMMA LinksInit ==
  ASSUME Links!Init
  PROVE  LinksInv
<1>1. /\ central = Links!Fields(Links!BleIdle, Links!CsIdle) /\ macRequests = {}
      /\ user = [awaits |-> "none", target |-> NoStone, session |-> NoStone, spoilt |-> FALSE]
  BY DEF Links!Init
<1>2. /\ central \in Central /\ central.op = "none" /\ central.link = NoStone /\ central.gap = NoStone
      /\ central.mesh = "on" /\ ~ central.closing /\ central.gatt = "none" /\ central.event = << >>
      /\ central.csOp = "none" /\ central.results = << >>
  BY <1>1, CentralAtFirst
<1>3. user \in User /\ user.awaits = "none" /\ user.session = NoStone /\ ~ user.spoilt
  BY <1>1 DEF User, Someone
<1> QED
  BY <1>1, <1>2, <1>3 DEF LinksInv, Good, Base, StepsDone, MakesRoom, UserWaits, Joins

LEMMA LinksNext ==
  ASSUME LinksInv, Links!Next
  PROVE  LinksInv'
<1>1. CASE \E stone \in Stones : Links!Connect(stone) \/ Links!MacLost(stone)
  BY <1>1, ConnectStep, MacLostStep
<1>2. CASE \E stone \in Stones, hostConnected \in BOOLEAN : Links!MacResult(stone, hostConnected)
  BY <1>2, MacResultStep
<1>3. CASE Links!EndSession
  BY <1>3, EndSessionStep
<1>4. CASE Links!TimerExpires
  BY <1>4, TimerExpiresStep
<1>5. CASE Links!MeshDisabled
  BY <1>5, MeshDisabledStep
<1>6. CASE Links!GapAnswers
  BY <1>6, GapTimeoutStep, GapConnectedStep DEF Links!GapAnswers
<1>7. CASE Links!GattAnswers
  BY <1>7, GattDoneStep DEF Links!GattAnswers
<1>8. CASE Links!LinkClosed \/ Links!LinkLost \/ Links!Watchdog
  BY <1>8, DisconnectedStep DEF Links!LinkClosed, Links!LinkLost, Links!Watchdog
<1>9. CASE \E gattOk \in BOOLEAN : Links!WriteCommand(gattOk)
  BY <1>9, WriteCommandStep
<1>10. CASE \E ret \in {"SUCCESS", "WRONG_PARAMETER"} : Links!Notification(ret)
  BY <1>10, NotificationStep
<1> QED
  BY <1>1, <1>2, <1>3, <1>4, <1>5, <1>6, <1>7, <1>8, <1>9, <1>10 DEF Links!Next

LEMMA LinksStutter ==
  ASSUME LinksInv, UNCHANGED linkVars
  PROVE  LinksInv'
BY DEF LinksInv, linkVars

LEMMA LinksHold == LinksInv => Links!SessionIsTrue /\ Links!MeshComesBack
<1> SUFFICES ASSUME LinksInv PROVE Links!SessionIsTrue /\ Links!MeshComesBack
  OBVIOUS
<1>1. Base(central, user) /\ StepsDone(central, user) /\ central \in Central
  BY DEF LinksInv, Good, Base
<1>2. Links!MeshComesBack
  BY <1>1 DEF Links!MeshComesBack, Base, MakesRoom, Joins
<1>3. Links!SessionIsTrue
  BY <1>1 DEF Links!SessionIsTrue, Base, UserWaits, StepsDone, LinkedTo, Central
<1> QED
  BY <1>2, <1>3

-----------------------------------------------------------------------------
(* Advertising (Advertiser).                                               *)

AdvTypes == {"connectable", "plain"}
BufferNumbers == 0 .. 2
Adverts ==
  [want : BOOLEAN, on : BOOLEAN, nextTick : BOOLEAN, handle : BOOLEAN, type : AdvTypes,
   isConnectable : BOOLEAN, changed : BOOLEAN, data : BufferNumbers, inUse : SUBSET BufferNumbers,
   conn : BOOLEAN, air : BOOLEAN, airType : AdvTypes, airData : BufferNumbers, link : BOOLEAN,
   outgoing : BOOLEAN, connecting : BOOLEAN]

\* The one buffer that may be marked is that of the advertisement.
DataIsMarked(t) ==
  /\ t.handle /\ t.inUse \subseteq {t.data} \ {0}
  /\ t.air => t.airData = t.data /\ t.data \in t.inUse \cup {0}

SameLink(r, t) == r.link = t.link /\ r.outgoing = t.outgoing /\ r.connecting = t.connecting
SameAir(r, t) ==
  r.on = t.on /\ r.air = t.air /\ r.airType = t.airType /\ r.airData = t.airData /\ r.inUse = t.inUse

\* What a call of the Advertiser leaves as it should be.
Steady(r, t) ==
  /\ r \in Adverts /\ SameLink(r, t) /\ r.conn = t.conn
  /\ (t.on <=> t.air) => (r.on <=> r.air)
  /\ t.on /\ ~ t.air => r.on /\ ~ r.air
  /\ DataIsMarked(t) => DataIsMarked(r)

LEMMA MarkedIs ==
  ASSUME NEW b \in BufferNumbers, NEW B \in SUBSET BufferNumbers
  PROVE  /\ Advertising!Marked(B, b) \in SUBSET BufferNumbers
         /\ B \subseteq {b} \ {0} => Advertising!Marked(B, b) = {b} \ {0}
BY DEF Advertising!Marked

LEMMA StartIs ==
  ASSUME NEW t \in Adverts
  PROVE  LET r == Advertising!Start(t)
         IN /\ r \in Adverts /\ r.want /\ SameLink(r, t) /\ r.conn = t.conn /\ r.data = t.data
            /\ r.type = t.type /\ r.isConnectable = t.isConnectable
            /\ t.on \/ t.air => SameAir(r, t) /\ r.handle = t.handle
            /\ ~ t.on /\ ~ t.air =>
                 /\ (r.on <=> r.air) /\ r.handle
                 /\ r.on => /\ r.airType = t.type /\ r.airData = t.data
                            /\ r.inUse = Advertising!Marked(t.inUse, t.data)
                 /\ ~ r.on => r.inUse = t.inUse
                 /\ ~ t.link /\ ~ t.connecting => r.on
<1> DEFINE r == Advertising!Start(t)
           w == [t EXCEPT !.want = TRUE]
           c == [w EXCEPT !.handle = TRUE, !.changed = FALSE, !.airType = t.type, !.airData = t.data]
           u == [c EXCEPT !.on = TRUE, !.air = TRUE, !.inUse = Advertising!Marked(c.inUse, t.data)]
<1>1. \/ (t.on \/ t.air) /\ r = w
      \/ ~ t.on /\ ~ t.air /\ (t.link \/ t.connecting) /\ r = c
      \/ ~ t.on /\ ~ t.air /\ r = u
  BY DEF Advertising!Start
<1> HIDE DEF r
<1>2. w \in Adverts /\ w.want /\ SameLink(w, t) /\ w.conn = t.conn /\ w.data = t.data
      /\ w.type = t.type /\ w.isConnectable = t.isConnectable /\ SameAir(w, t) /\ w.handle = t.handle
  BY DEF Adverts, SameLink, SameAir
<1> HIDE DEF w
<1>3. /\ c \in Adverts /\ c.want /\ SameLink(c, t) /\ c.conn = t.conn /\ c.data = t.data
      /\ c.type = t.type /\ c.isConnectable = t.isConnectable
      /\ c.on = t.on /\ c.air = t.air /\ c.inUse = t.inUse /\ c.handle
      /\ c.airType = t.type /\ c.airData = t.data
  <2>1. t.type \in AdvTypes /\ t.data \in BufferNumbers
    BY DEF Adverts
  <2>2. c \in Adverts
    BY <1>2, <2>1 DEF Adverts
  <2>3. /\ c.want /\ SameLink(c, t) /\ c.conn = t.conn /\ c.data = t.data
        /\ c.type = t.type /\ c.isConnectable = t.isConnectable
        /\ c.on = t.on /\ c.air = t.air /\ c.inUse = t.inUse
    BY <1>2 DEF Adverts, SameLink, SameAir
  <2>4. c.handle /\ c.airType = t.type /\ c.airData = t.data
    BY <1>2 DEF Adverts
  <2> QED
    BY <2>2, <2>3, <2>4
<1> HIDE DEF c
<1> DEFINE marked == Advertising!Marked(c.inUse, t.data)
<1>4. marked \in SUBSET BufferNumbers /\ marked = Advertising!Marked(t.inUse, t.data)
  BY <1>3, MarkedIs DEF Adverts
<1> HIDE DEF marked
<1>5. u = [c EXCEPT !.on = TRUE, !.air = TRUE, !.inUse = marked]
  BY DEF marked
<1> HIDE DEF u
<1>6. /\ u \in Adverts /\ u.want /\ SameLink(u, t) /\ u.conn = t.conn /\ u.data = t.data
      /\ u.type = t.type /\ u.isConnectable = t.isConnectable /\ u.handle
      /\ u.on /\ u.air /\ u.airType = t.type /\ u.airData = t.data /\ u.inUse = marked
  <2>1. u \in Adverts
    BY <1>3, <1>4, <1>5 DEF Adverts
  <2>2. /\ u.want = c.want /\ u.conn = c.conn /\ u.data = c.data /\ SameLink(u, c)
        /\ u.type = c.type /\ u.isConnectable = c.isConnectable /\ u.handle = c.handle
    BY <1>3, <1>5 DEF Adverts, SameLink
  <2>3. u.on /\ u.air /\ u.airType = c.airType /\ u.airData = c.airData /\ u.inUse = marked
    BY <1>3, <1>5 DEF Adverts
  <2> QED
    BY <1>3, <2>1, <2>2, <2>3 DEF SameLink
<1>7. CASE (t.on \/ t.air) /\ r = w
  BY <1>2, <1>7 DEF r
<1>8. CASE ~ t.on /\ ~ t.air /\ (t.link \/ t.connecting) /\ r = c
  BY <1>3, <1>8 DEF r
<1>9. CASE ~ t.on /\ ~ t.air /\ r = u
  BY <1>4, <1>6, <1>9 DEF r
<1> QED
  BY <1>1, <1>7, <1>8, <1>9

LEMMA StartKeeps ==
  ASSUME NEW t \in Adverts
  PROVE  Steady(Advertising!Start(t), t)
<1> DEFINE r == Advertising!Start(t)
<1>1. /\ r \in Adverts /\ SameLink(r, t) /\ r.conn = t.conn /\ r.data = t.data
      /\ t.on \/ t.air => SameAir(r, t) /\ r.handle = t.handle
      /\ ~ t.on /\ ~ t.air =>
           /\ (r.on <=> r.air) /\ r.handle
           /\ r.on => r.airData = t.data /\ r.inUse = Advertising!Marked(t.inUse, t.data)
           /\ ~ r.on => r.inUse = t.inUse
  BY StartIs
<1>2. t.data \in BufferNumbers /\ t.inUse \in SUBSET BufferNumbers
  BY DEF Adverts
<1> HIDE DEF r
<1>3. ASSUME DataIsMarked(t) PROVE DataIsMarked(r)
  <2>1. t.inUse \subseteq {t.data} \ {0} => Advertising!Marked(t.inUse, t.data) = {t.data} \ {0}
    BY <1>2, MarkedIs
  <2> QED
    BY <1>1, <1>3, <2>1 DEF DataIsMarked, SameAir
<1> QED
  BY <1>1, <1>3 DEF Steady, SameAir, r

LEMMA StopIs ==
  ASSUME NEW t \in Adverts
  PROVE  LET r == Advertising!Stop(t)
         IN /\ r \in Adverts /\ ~ r.want /\ SameLink(r, t) /\ r.conn = t.conn /\ r.data = t.data
            /\ r.type = t.type /\ r.isConnectable = t.isConnectable /\ r.handle = t.handle
            /\ ~ (t.on /\ t.air) => SameAir(r, t)
            /\ t.on /\ t.air => ~ r.on /\ ~ r.air /\ r.inUse = t.inUse \ {t.data}
<1> DEFINE r == Advertising!Stop(t)
           inUse == t.inUse \ {t.data}
<1>1. inUse \in SUBSET BufferNumbers
  BY DEF Adverts
<1>2. CASE t.on /\ t.air
  <2>1. r = [t EXCEPT !.want = FALSE, !.on = FALSE, !.air = FALSE, !.inUse = inUse]
    BY <1>2 DEF Advertising!Stop
  <2> HIDE DEF r, inUse
  <2>2. r \in Adverts
    BY <1>1, <2>1 DEF Adverts
  <2>3. /\ ~ r.want /\ SameLink(r, t) /\ r.conn = t.conn /\ r.data = t.data
        /\ r.type = t.type /\ r.isConnectable = t.isConnectable /\ r.handle = t.handle
        /\ ~ r.on /\ ~ r.air /\ r.inUse = inUse
    BY <2>1 DEF Adverts, SameLink
  <2> QED
    BY <1>2, <2>2, <2>3 DEF r, inUse
<1>3. CASE ~ (t.on /\ t.air)
  <2>1. r = [t EXCEPT !.want = FALSE]
    BY <1>3 DEF Advertising!Stop
  <2> HIDE DEF r
  <2>2. r \in Adverts
    BY <2>1 DEF Adverts
  <2>3. /\ ~ r.want /\ SameLink(r, t) /\ r.conn = t.conn /\ r.data = t.data
        /\ r.type = t.type /\ r.isConnectable = t.isConnectable /\ r.handle = t.handle /\ SameAir(r, t)
    BY <2>1 DEF Adverts, SameLink, SameAir
  <2> QED
    BY <1>3, <2>2, <2>3 DEF r
<1> QED
  BY <1>2, <1>3

LEMMA StopKeeps ==
  ASSUME NEW t \in Adverts
  PROVE  Steady(Advertising!Stop(t), t)
<1> DEFINE r == Advertising!Stop(t)
<1>1. /\ r \in Adverts /\ SameLink(r, t) /\ r.conn = t.conn /\ r.data = t.data /\ r.handle = t.handle
      /\ ~ (t.on /\ t.air) => SameAir(r, t)
      /\ t.on /\ t.air => ~ r.on /\ ~ r.air /\ r.inUse = t.inUse \ {t.data}
  BY StopIs
<1> HIDE DEF r
<1> QED
  BY <1>1 DEF Steady, SameAir, DataIsMarked, r

LEMMA SteadyTwice ==
  ASSUME NEW r, NEW q, NEW t, Steady(q, t), Steady(r, q)
  PROVE  Steady(r, t)
BY DEF Steady, SameLink

LEMMA RestartKeeps ==
  ASSUME NEW t \in Adverts
  PROVE  Steady(Advertising!RestartAdvertising(t), t)
<1> DEFINE q == Advertising!Stop(t)
<1>1. q \in Adverts /\ Steady(q, t)
  BY StopIs, StopKeeps
<1> HIDE DEF q
<1>2. Steady(Advertising!Start(q), q)
  BY <1>1, StartKeeps
<1>3. Advertising!RestartAdvertising(t) = Advertising!Start(q)
  BY DEF Advertising!RestartAdvertising, q
<1> QED
  BY <1>1, <1>2, <1>3, SteadyTwice

\* A restart is on air again, with the type that was set.
LEMMA RestartIs ==
  ASSUME NEW t \in Adverts, t.on <=> t.air, ~ t.connecting, ~ t.link
  PROVE  LET r == Advertising!RestartAdvertising(t)
         IN r.want /\ r.on /\ r.airType = t.type /\ r.type = t.type /\ r.isConnectable = t.isConnectable
<1> DEFINE q == Advertising!Stop(t)
           r == Advertising!Start(q)
<1>1. /\ q \in Adverts /\ q.type = t.type /\ q.isConnectable = t.isConnectable /\ ~ q.on /\ ~ q.air
      /\ ~ q.link /\ ~ q.connecting
  BY StopIs DEF SameAir, SameLink, Adverts
<1> HIDE DEF q
<1>2. r.want /\ r.on /\ r.airType = q.type /\ r.type = q.type /\ r.isConnectable = q.isConnectable
  BY <1>1, StartIs
<1> QED
  BY <1>1, <1>2 DEF Advertising!RestartAdvertising, q

LEMMA SetParamsIs ==
  ASSUME NEW t \in Adverts, NEW connectable \in BOOLEAN
  PROVE  LET r == Advertising!SetParams(t, connectable)
         IN /\ Steady(r, t) /\ SameAir(r, t) /\ r.want = t.want /\ r.isConnectable = connectable
            /\ r.type = IF connectable THEN "connectable" ELSE "plain"
<1> DEFINE r == Advertising!SetParams(t, connectable)
           type == IF connectable THEN "connectable" ELSE "plain"
<1>1. type \in AdvTypes /\ type = IF connectable THEN "connectable" ELSE "plain"
  BY DEF AdvTypes
<1>2. r = [t EXCEPT !.type = type, !.isConnectable = connectable]
  BY DEF Advertising!SetParams
<1> HIDE DEF type, r
<1>3. r \in Adverts /\ r.type = type /\ r.isConnectable = connectable
  BY <1>1, <1>2 DEF Adverts
<1>4. /\ SameLink(r, t) /\ SameAir(r, t) /\ r.want = t.want /\ r.conn = t.conn /\ r.handle = t.handle
      /\ r.data = t.data
  BY <1>2 DEF Adverts, SameLink, SameAir
<1> QED
  BY <1>1, <1>3, <1>4 DEF Steady, SameAir, DataIsMarked, r

\* What is on air, in the absence of a connection that stopped it.
WantsAir(t) == t.want => t.on
Plain(t) == t.type = "plain" /\ ~ t.isConnectable /\ (t.on => t.airType = "plain")
Reserved(t) == WantsAir(t) /\ (t.on => t.airType = "plain")

LEMMA UpdateParamsIs ==
  ASSUME NEW t \in Adverts
  PROVE  LET r == Advertising!UpdateAdvertisementParams(t)
         IN /\ Steady(r, t)
            /\ /\ ~ t.link /\ ~ t.connecting /\ (t.on <=> t.air)
               /\ WantsAir(t) \/ (~ t.isConnectable /\ ~ t.conn)
               => WantsAir(r)
<1> DEFINE r == Advertising!UpdateAdvertisementParams(t)
           connectable == ~ t.conn
           changed == t.changed \/ (connectable /\ ~ t.isConnectable)
           u == [t EXCEPT !.changed = TRUE]
           v == Advertising!SetParams(u, connectable)
           calm == /\ ~ t.link /\ ~ t.connecting /\ (t.on <=> t.air)
                   /\ WantsAir(t) \/ (~ t.isConnectable /\ ~ t.conn)
<1> SUFFICES Steady(r, t) /\ (calm => WantsAir(r))
  OBVIOUS
<1>1. r = IF changed /\ (t.on \/ t.want) THEN Advertising!RestartAdvertising(v) ELSE t
  BY DEF Advertising!UpdateAdvertisementParams
<1>2. CASE changed /\ (t.on \/ t.want)
  <2>1. /\ u \in Adverts /\ SameLink(u, t) /\ SameAir(u, t) /\ u.conn = t.conn /\ u.handle = t.handle
        /\ u.data = t.data
    BY DEF Adverts, SameLink, SameAir
  <2>2. Steady(u, t)
    <3> HIDE DEF u
    <3> QED
      BY <2>1 DEF Steady, SameAir, DataIsMarked
  <2> HIDE DEF u
  <2>3. connectable \in BOOLEAN
    BY DEF Adverts
  <2> HIDE DEF connectable
  <2>4. Steady(v, u) /\ SameAir(v, u)
    BY <2>1, <2>3, SetParamsIs
  <2>5. v \in Adverts
    BY <2>4 DEF Steady
  <2> HIDE DEF v
  <2>6. Steady(v, t)
    BY <2>2, <2>4, SteadyTwice
  <2>7. Steady(Advertising!RestartAdvertising(v), v)
    BY <2>5, RestartKeeps
  <2>8. Steady(r, t)
    BY <1>1, <1>2, <2>6, <2>7, SteadyTwice
  <2>9. ASSUME calm PROVE WantsAir(r)
    <3>1. ~ v.link /\ ~ v.connecting /\ (v.on <=> v.air)
      BY <2>1, <2>4, <2>9 DEF Steady, SameLink, SameAir
    <3>2. Advertising!RestartAdvertising(v).on
      BY <2>5, <3>1, RestartIs
    <3> QED
      BY <1>1, <1>2, <3>2 DEF WantsAir
  <2> QED
    BY <2>8, <2>9
<1>3. CASE ~ (changed /\ (t.on \/ t.want))
  <2>1. r = t
    BY <1>1, <1>3
  <2>2. Steady(t, t)
    BY DEF Steady, SameLink
  <2>3. calm => WantsAir(t)
    BY <1>3 DEF WantsAir
  <2> QED
    BY <2>1, <2>2, <2>3
<1> QED
  BY <1>2, <1>3

\* A free buffer, unless both are marked.
LEMMA FreeBufferIs ==
  ASSUME NEW t \in Adverts
  PROVE  LET b == Advertising!FreeBuffer(t)
         IN b \in BufferNumbers /\ (DataIsMarked(t) => b # 0 /\ b \notin t.inUse)
BY DEF Advertising!FreeBuffer, BufferNumbers, DataIsMarked

\* Advertising that starts, when it was off or is on already.
LEMMA StartOrdered ==
  ASSUME NEW t \in Adverts, t.air => t.on
  PROVE  LET r == Advertising!Start(t)
         IN /\ r.type = t.type /\ r.isConnectable = t.isConnectable /\ r.want
            /\ t.on => r.on /\ r.airType = t.airType
            /\ r.on => r.airType \in {t.airType, t.type}
            /\ Plain(t) => Plain(r)
<1> DEFINE r == Advertising!Start(t)
<1>1. /\ r \in Adverts /\ r.want /\ r.type = t.type /\ r.isConnectable = t.isConnectable
      /\ t.on \/ t.air => SameAir(r, t)
      /\ ~ t.on /\ ~ t.air => (r.on => r.airType = t.type)
  BY StartIs
<1> HIDE DEF r
<1>2. t.on => r.on /\ r.airType = t.airType
  BY <1>1 DEF SameAir
<1>3. r.on => r.airType \in {t.airType, t.type}
  BY <1>1 DEF SameAir
<1>4. Plain(t) => Plain(r)
  BY <1>1, <1>2 DEF Plain
<1> QED
  BY <1>1, <1>2, <1>3, <1>4 DEF r

LEMMA UpdateDataIs ==
  ASSUME NEW t \in Adverts, t.air => t.on, DataIsMarked(t)
  PROVE  LET r == Advertising!UpdateAdvertisementData(t)
         IN /\ Steady(r, t) /\ (Plain(t) => Plain(r)) /\ (WantsAir(t) => WantsAir(r))
            /\ Reserved(t) => Reserved(r)
<1> DEFINE r == Advertising!UpdateAdvertisementData(t)
           b == Advertising!FreeBuffer(t)
           inUse == Advertising!Marked(t.inUse \ {t.data}, b)
           n == [t EXCEPT !.data = b, !.airData = b, !.inUse = inUse]
<1> SUFFICES /\ Steady(r, t) /\ (Plain(t) => Plain(r)) /\ (WantsAir(t) => WantsAir(r))
             /\ Reserved(t) => Reserved(r)
  OBVIOUS
<1>1. b \in BufferNumbers /\ b # 0 /\ b \notin t.inUse /\ (t.air => b # t.airData)
  BY FreeBufferIs DEF DataIsMarked
<1>2. Advertising!WithData(t, b) = n
  BY DEF Advertising!WithData, DataIsMarked
<1>3. r = IF ~ t.on /\ t.want THEN Advertising!Start(n) ELSE n
  <2> HIDE DEF b, n
  <2> QED
    BY <1>1, <1>2 DEF Advertising!UpdateAdvertisementData, b
<1> HIDE DEF b, r
<1>4. inUse = {b}
  BY <1>1 DEF Advertising!Marked, DataIsMarked
<1>5. inUse \in SUBSET BufferNumbers
  BY <1>1, <1>4
<1> HIDE DEF inUse
<1>6. n \in Adverts /\ n.data = b /\ n.airData = b /\ n.inUse = inUse
  BY <1>1, <1>5 DEF Adverts
<1>7. /\ SameLink(n, t) /\ n.conn = t.conn /\ n.on = t.on /\ n.air = t.air /\ n.airType = t.airType
      /\ n.handle = t.handle /\ n.want = t.want /\ n.type = t.type /\ n.isConnectable = t.isConnectable
  BY DEF Adverts, SameLink
<1> HIDE DEF n
<1>8. Steady(n, t)
  BY <1>1, <1>4, <1>6, <1>7 DEF Steady, DataIsMarked
<1>9. /\ Plain(t) => Plain(n)
      /\ WantsAir(t) => WantsAir(n)
      /\ Reserved(t) => Reserved(n)
  BY <1>7 DEF Plain, WantsAir, Reserved
<1>10. CASE ~ t.on /\ t.want
  <2>1. r = Advertising!Start(n)
    BY <1>3, <1>10
  <2>2. Steady(r, t)
    BY <1>6, <1>8, <2>1, StartKeeps, SteadyTwice
  <2>3. n.air => n.on
    BY <1>7
  <2>4. Plain(n) => Plain(r)
    BY <1>6, <2>1, <2>3, StartOrdered
  <2> QED
    BY <1>9, <1>10, <2>2, <2>4 DEF WantsAir, Reserved
<1>11. CASE ~ (~ t.on /\ t.want)
  BY <1>3, <1>8, <1>9, <1>11
<1> QED
  BY <1>10, <1>11

LEMMA OnConnectIs ==
  ASSUME NEW t \in Adverts, NEW buffer, ~ t.air
  PROVE  LET r == Advertising!OnConnect(t, buffer)
         IN /\ r \in Adverts /\ SameLink(r, t) /\ r.conn /\ ~ r.on /\ ~ r.air /\ Plain(r)
            /\ DataIsMarked(t) => DataIsMarked(r)
<1> DEFINE r == Advertising!OnConnect(t, buffer)
           p == Advertising!SetParams(t, FALSE)
           inUse == p.inUse \ {buffer}
           nextTick == p.nextTick \/ t.want
<1>1. /\ p \in Adverts /\ SameLink(p, t) /\ SameAir(p, t) /\ (DataIsMarked(t) => DataIsMarked(p))
      /\ ~ p.isConnectable /\ p.type = "plain"
  BY SetParamsIs DEF Steady
<1>2. r = [p EXCEPT !.conn = TRUE, !.on = FALSE, !.inUse = inUse, !.nextTick = nextTick]
  BY DEF Advertising!OnConnect
<1> HIDE DEF p, r
<1>3. nextTick \in BOOLEAN /\ inUse \in SUBSET BufferNumbers
  BY <1>1 DEF Adverts
<1> HIDE DEF nextTick
<1>4. r.inUse \subseteq p.inUse
  BY <1>1, <1>2 DEF Adverts
<1> HIDE DEF inUse
<1>5. r \in Adverts
  BY <1>1, <1>2, <1>3 DEF Adverts
<1>6. /\ SameLink(r, p) /\ r.conn = TRUE /\ r.on = FALSE /\ r.air = p.air /\ r.data = p.data
      /\ r.handle = p.handle /\ r.isConnectable = p.isConnectable /\ r.type = p.type
  BY <1>1, <1>2 DEF Adverts, SameLink
<1>7. DataIsMarked(t) => DataIsMarked(r)
  BY <1>1, <1>4, <1>6 DEF DataIsMarked, SameAir
<1> QED
  BY <1>1, <1>5, <1>6, <1>7 DEF Plain, SameLink, SameAir, r

AdvEventTypes == {"connect", "out", "mtu", "timeout", "disconnect", "end"}
AdvEvents == [type : AdvEventTypes, buffer : BufferNumbers]
Ups == {"connect", "out"}
Downs == {"disconnect", "end"}
Tells(e) == e.type \in Ups \cup Downs

\* What Stack knows of the link is what it was before the events that wait.
LinkIsTold(t, q) ==
  \A i \in 0 .. Len(q) :
    /\ i = 0 \/ Tells(q[i])
    /\ \A j \in i + 1 .. Len(q) : ~ Tells(q[j])
    => (t.link <=> IF i = 0 THEN t.conn ELSE q[i].type \in Ups)

\* Advertising was stopped by a connection of which one event tells.
AirIsTold(t, q) ==
  \/ (t.on <=> t.air) /\ \A i \in 1 .. Len(q) : q[i].type # "connect"
  \/ /\ t.on /\ ~ t.air
     /\ \E i \in 1 .. Len(q) :
          q[i].type = "connect" /\ \A j \in 1 .. Len(q) : q[j].type = "connect" => j = i

AllTold(t, q) ==
  t \in Adverts /\ q \in Seq(AdvEvents) /\ DataIsMarked(t) /\ LinkIsTold(t, q) /\ AirIsTold(t, q)

NoneIn(q) == Len(q) = 0
One(q, k) == Len(q) = 1 /\ q[1].type = k
Two(q, k, l) == Len(q) = 2 /\ q[1].type = k /\ q[2].type = l

LEMMA Unposted ==
  ASSUME NEW t, NEW q, AllTold(t, q), NEW r, Steady(r, t)
  PROVE  AllTold(r, q)
<1>1. LinkIsTold(r, q)
  BY DEF AllTold, Steady, SameLink, LinkIsTold
<1>2. AirIsTold(r, q)
  BY DEF AllTold, Steady, AirIsTold
<1> QED
  BY <1>1, <1>2 DEF AllTold, Steady

LEMMA Posted ==
  ASSUME NEW t, NEW q, AllTold(t, q), NEW r \in Adverts, DataIsMarked(r), r.conn = t.conn, NEW e \in AdvEvents,
         e.type \in Ups => r.link, e.type \in Downs => ~ r.link, ~ Tells(e) => r.link = t.link,
         e.type = "connect" => t.air /\ r.on /\ ~ r.air,
         e.type # "connect" => r.on = t.on /\ r.air = t.air
  PROVE  /\ AllTold(r, Append(q, e))
         /\ NoneIn(q) => One(Append(q, e), e.type)
         /\ \A k : One(q, k) => Two(Append(q, e), k, e.type)
<1> DEFINE p == Append(q, e)
           n == Len(q)
<1>1. q \in Seq(AdvEvents) /\ n \in Nat
  BY LenProperties DEF AllTold
<1>2. p \in Seq(AdvEvents) /\ Len(p) = n + 1 /\ p[n + 1] = e /\ \A i \in 1 .. n : p[i] = q[i]
  BY <1>1, AppendProperties
<1> HIDE DEF p
<1>3. LinkIsTold(r, p)
  <2> SUFFICES ASSUME NEW i \in 0 .. n + 1, i = 0 \/ Tells(p[i]), \A j \in i + 1 .. n + 1 : ~ Tells(p[j])
               PROVE  r.link <=> IF i = 0 THEN r.conn ELSE p[i].type \in Ups
    BY <1>2 DEF LinkIsTold
  <2>1. CASE i = n + 1
    BY <1>1, <1>2, <2>1 DEF Tells, Ups, Downs
  <2>2. CASE i # n + 1
    <3>1. i \in 0 .. n /\ n + 1 \in i + 1 .. n + 1
      BY <1>1, <2>2
    <3>2. ~ Tells(e)
      BY <1>2, <3>1
    <3>3. (i = 0 \/ Tells(q[i])) /\ \A j \in i + 1 .. n : ~ Tells(q[j])
      BY <1>1, <1>2, <3>1
    <3>4. t.link <=> IF i = 0 THEN t.conn ELSE q[i].type \in Ups
      BY <3>1, <3>3 DEF AllTold, LinkIsTold
    <3> QED
      BY <1>1, <1>2, <3>1, <3>2, <3>4
  <2> QED
    BY <2>1, <2>2
<1>4. AirIsTold(r, p)
  <2>1. CASE e.type = "connect"
    <3>1. r.on /\ ~ r.air /\ \A i \in 1 .. n : q[i].type # "connect"
      BY <2>1 DEF AllTold, AirIsTold
    <3>2. n + 1 \in 1 .. n + 1 /\ \A j \in 1 .. n + 1 : p[j].type = "connect" => j = n + 1
      BY <1>1, <1>2, <3>1
    <3> QED
      BY <1>2, <2>1, <3>1, <3>2 DEF AirIsTold
  <2>2. CASE e.type # "connect"
    <3>1. CASE (t.on <=> t.air) /\ \A i \in 1 .. n : q[i].type # "connect"
      <4>1. \A i \in 1 .. n + 1 : p[i].type # "connect"
        BY <1>1, <1>2, <2>2, <3>1
      <4> QED
        BY <1>2, <2>2, <3>1, <4>1 DEF AirIsTold
    <3>2. CASE t.on /\ ~ t.air /\ \E i \in 1 .. n :
                 q[i].type = "connect" /\ \A j \in 1 .. n : q[j].type = "connect" => j = i
      <4>1. PICK i \in 1 .. n : q[i].type = "connect" /\ \A j \in 1 .. n : q[j].type = "connect" => j = i
        BY <3>2
      <4>2. i \in 1 .. n + 1 /\ p[i].type = "connect"
            /\ \A j \in 1 .. n + 1 : p[j].type = "connect" => j = i
        BY <1>1, <1>2, <2>2, <4>1
      <4> QED
        BY <1>2, <2>2, <3>2, <4>2 DEF AirIsTold
    <3> QED
      BY <3>1, <3>2 DEF AllTold, AirIsTold
  <2> QED
    BY <2>1, <2>2
<1>5. NoneIn(q) => One(p, e.type)
  BY <1>2 DEF NoneIn, One
<1>6. \A k : One(q, k) => Two(p, k, e.type)
  BY <1>2 DEF One, Two
<1> QED
  BY <1>2, <1>3, <1>4, <1>5, <1>6 DEF AllTold, p

LEMMA EventTaken ==
  ASSUME NEW t, NEW q, AllTold(t, q), q # << >>, NEW r \in Adverts, DataIsMarked(r), SameLink(r, t),
         r.conn <=> IF Tells(Head(q)) THEN Head(q).type \in Ups ELSE t.conn,
         Head(q).type = "connect" => ~ r.on /\ ~ r.air,
         Head(q).type # "connect" => /\ (t.on <=> t.air) => (r.on <=> r.air)
                                     /\ t.on /\ ~ t.air => r.on /\ ~ r.air
  PROVE  /\ AllTold(r, Tail(q)) /\ ~ NoneIn(q)
         /\ \A k : One(q, k) => NoneIn(Tail(q)) /\ Head(q).type = k
         /\ \A k, l : Two(q, k, l) => One(Tail(q), l) /\ Head(q).type = k
<1> DEFINE p == Tail(q)
           n == Len(p)
           h == Head(q)
<1>1. q \in Seq(AdvEvents)
  BY DEF AllTold
<1>2. p \in Seq(AdvEvents) /\ n = Len(q) - 1 /\ \A i \in 1 .. n : p[i] = q[i + 1]
  BY <1>1, HeadTailProperties
<1>3. h = q[1] /\ Len(q) \in Nat /\ n \in Nat /\ Len(q) = n + 1
  BY <1>1, <1>2, LenProperties
<1> HIDE DEF p, h
<1>4. LinkIsTold(r, p)
  <2> SUFFICES ASSUME NEW i \in 0 .. n, i = 0 \/ Tells(p[i]), \A j \in i + 1 .. n : ~ Tells(p[j])
               PROVE  r.link <=> IF i = 0 THEN r.conn ELSE p[i].type \in Ups
    BY DEF LinkIsTold
  <2>1. \A j \in i + 2 .. n + 1 : ~ Tells(q[j])
    <3> SUFFICES ASSUME NEW j \in i + 2 .. n + 1 PROVE ~ Tells(q[j])
      OBVIOUS
    <3>1. j - 1 \in i + 1 .. n /\ j - 1 \in 1 .. n /\ (j - 1) + 1 = j
      BY <1>3
    <3> QED
      BY <1>2, <3>1
  <2>2. r.link = t.link
    BY DEF SameLink
  <2>3. CASE i # 0 \/ Tells(h)
    <3>1. i + 1 \in 0 .. Len(q) /\ i + 1 # 0 /\ (i + 1) + 1 = i + 2
      BY <1>3
    <3>2. Tells(q[i + 1])
      BY <1>2, <1>3, <2>3
    <3>3. t.link <=> q[i + 1].type \in Ups
      BY <1>3, <2>1, <3>1, <3>2 DEF AllTold, LinkIsTold
    <3> QED
      BY <1>2, <1>3, <2>2, <2>3, <3>3 DEF h
  <2>4. CASE i = 0 /\ ~ Tells(h)
    <3>1. \A j \in 1 .. Len(q) : ~ Tells(q[j])
      BY <1>3, <2>1, <2>4
    <3>2. t.link <=> t.conn
      BY <1>3, <3>1 DEF AllTold, LinkIsTold
    <3> QED
      BY <2>2, <2>4, <3>2 DEF h
  <2> QED
    BY <2>3, <2>4
<1>5. AirIsTold(r, p)
  <2>1. CASE h.type = "connect"
    <3>1. \A i \in 1 .. n : p[i].type # "connect"
      BY <1>2, <1>3, <2>1 DEF AllTold, AirIsTold
    <3> QED
      BY <2>1, <3>1 DEF AirIsTold, h
  <2>2. CASE h.type # "connect"
    <3>1. CASE (t.on <=> t.air) /\ \A i \in 1 .. Len(q) : q[i].type # "connect"
      <4>1. \A i \in 1 .. n : p[i].type # "connect"
        BY <1>2, <1>3, <3>1
      <4> QED
        BY <2>2, <3>1, <4>1 DEF AirIsTold, h
    <3>2. CASE t.on /\ ~ t.air /\ \E i \in 1 .. Len(q) :
                 q[i].type = "connect" /\ \A j \in 1 .. Len(q) : q[j].type = "connect" => j = i
      <4>1. PICK i \in 1 .. Len(q) :
              q[i].type = "connect" /\ \A j \in 1 .. Len(q) : q[j].type = "connect" => j = i
        BY <3>2
      <4>2. i - 1 \in 1 .. n /\ (i - 1) + 1 = i
        BY <1>3, <2>2, <4>1
      <4>3. p[i - 1].type = "connect"
        BY <1>2, <4>1, <4>2
      <4>4. \A j \in 1 .. n : p[j].type = "connect" => j = i - 1
        BY <1>2, <1>3, <4>1
      <4> QED
        BY <2>2, <3>2, <4>2, <4>3, <4>4 DEF AirIsTold, h
    <3> QED
      BY <3>1, <3>2 DEF AllTold, AirIsTold
  <2> QED
    BY <2>1, <2>2
<1>6. /\ \A k : One(q, k) => NoneIn(p) /\ h.type = k
      /\ \A k, l : Two(q, k, l) => One(p, l) /\ h.type = k
  BY <1>2, <1>3 DEF One, Two, NoneIn
<1> QED
  BY <1>2, <1>3, <1>4, <1>5, <1>6 DEF AllTold, NoneIn, p, h

\* As long as nothing is commanded in between, there is one connection at a time:
\* none, one that came, or one that was asked for.
Idle(t, q) == NoneIn(q) /\ ~ t.link /\ WantsAir(t)
Incoming(t, q) ==
  \/ NoneIn(q) /\ t.link /\ ~ t.outgoing /\ Plain(t)
  \/ One(q, "connect") /\ t.link /\ ~ t.outgoing
  \/ Two(q, "connect", "disconnect") /\ ~ t.link
  \/ One(q, "disconnect") /\ ~ t.link /\ Plain(t)
Outgoing(t, c, q) ==
  /\ Reserved(t)
  /\ \/ c = "clearance" /\ NoneIn(q) /\ ~ t.link /\ ~ t.connecting
     \/ c = "connecting" /\ NoneIn(q) /\ ~ t.link /\ t.connecting
     \/ c = "connecting" /\ One(q, "timeout") /\ ~ t.link /\ ~ t.connecting
     \/ c = "connecting" /\ t.link /\ t.outgoing /\ ~ t.connecting /\ (One(q, "out") \/ One(q, "mtu"))
     \/ /\ c = "connecting" /\ ~ t.link /\ ~ t.connecting
        /\ Two(q, "out", "end") \/ Two(q, "mtu", "end")
     \/ c = "connected" /\ ~ t.connecting /\ t.link /\ t.outgoing /\ NoneIn(q)
     \/ c = "connected" /\ ~ t.connecting /\ ~ t.link /\ One(q, "end")
Orderly(t, c, q) ==
  \/ c = "idle" /\ ~ t.connecting /\ (Idle(t, q) \/ Incoming(t, q))
  \/ Outgoing(t, c, q)

AdvertInv ==
  /\ AllTold(advertiser, gapEvents)
  /\ advCalm => Orderly(advertiser, connector, gapEvents)

LEMMA AirMeansOn ==
  ASSUME NEW t, NEW q, AllTold(t, q)
  PROVE  /\ t.air => t.on
         /\ NoneIn(q) => (t.on <=> t.air)
         /\ q # << >> => Head(q) \in AdvEvents /\ Head(q) = q[1]
         /\ NoneIn(q) <=> q = << >>
<1>1. q \in Seq(AdvEvents) /\ Len(q) \in Nat /\ (q = << >> <=> Len(q) = 0)
  BY EmptySeq, LenProperties DEF AllTold
<1>2. q # << >> => Head(q) \in AdvEvents /\ Head(q) = q[1]
  BY <1>1, HeadTailProperties
<1>3. NoneIn(q) => 1 .. Len(q) = {}
  BY DEF NoneIn
<1> QED
  BY <1>1, <1>2, <1>3 DEF AllTold, AirIsTold, NoneIn

LEMMA OrderlyKept ==
  ASSUME NEW t, NEW c, NEW q, Orderly(t, c, q), NEW r, SameLink(r, t),
         Plain(t) => Plain(r), WantsAir(t) => WantsAir(r), Reserved(t) => Reserved(r)
  PROVE  Orderly(r, c, q)
BY DEF Orderly, Idle, Incoming, Outgoing, SameLink

\* A call that finds no connection, in calm.
LEMMA CalmCall ==
  ASSUME AdvertInv, Advertising!Call
  PROVE  advCalm' => /\ Idle(advertiser, gapEvents) /\ ~ advertiser.connecting /\ connector = "idle"
                     /\ (advertiser.on <=> advertiser.air)
<1>1. advCalm' => /\ advCalm /\ ~ advertiser.link /\ gapEvents = << >> /\ connector = "idle"
                  /\ ~ advertiser.connecting
  BY DEF Advertising!Call, Advertising!Quiet
<1>2. NoneIn(gapEvents) => (advertiser.on <=> advertiser.air)
  BY AirMeansOn DEF AdvertInv
<1>3. gapEvents = << >> => NoneIn(gapEvents)
  BY AirMeansOn DEF AdvertInv
<1> QED
  BY <1>1, <1>2, <1>3 DEF AdvertInv, Orderly, Idle, Incoming, Outgoing, One, Two, NoneIn

LEMMA EnableStep ==
  ASSUME AdvertInv, NEW enable \in BOOLEAN, Advertising!EnableAdvertisement(enable)
  PROVE  AdvertInv'
<1> DEFINE t == advertiser
           r == advertiser'
<1>1. /\ Advertising!Call /\ r = (IF enable THEN Advertising!Start(t) ELSE Advertising!Stop(t))
      /\ connector' = connector /\ gapEvents' = gapEvents
  BY DEF Advertising!EnableAdvertisement
<1>2. t \in Adverts /\ AllTold(t, gapEvents)
  BY DEF AdvertInv, AllTold
<1>3. Steady(r, t)
  BY <1>1, <1>2, StartKeeps, StopKeeps
<1>4. AllTold(r, gapEvents)
  BY <1>2, <1>3, Unposted
<1>5. advCalm' => /\ Idle(t, gapEvents) /\ ~ t.connecting /\ connector = "idle" /\ (t.on <=> t.air)
  BY <1>1, CalmCall
<1>6. ASSUME advCalm' PROVE WantsAir(r)
  <2>1. CASE enable
    <3>1. /\ t.on \/ t.air => SameAir(r, t)
          /\ ~ t.on /\ ~ t.air => (~ t.link /\ ~ t.connecting => r.on)
      BY <1>1, <1>2, <2>1, StartIs
    <3> QED
      BY <1>5, <1>6, <3>1 DEF WantsAir, Idle, SameAir
  <2>2. CASE ~ enable
    <3>1. ~ r.want
      BY <1>1, <1>2, <2>2, StopIs
    <3> QED
      BY <3>1 DEF WantsAir
  <2> QED
    BY <2>1, <2>2
<1>7. advCalm' => Orderly(r, connector, gapEvents)
  BY <1>3, <1>5, <1>6 DEF Orderly, Idle, Steady, SameLink
<1> QED
  BY <1>1, <1>4, <1>7 DEF AdvertInv

LEMMA SetIntervalStep ==
  ASSUME AdvertInv, Advertising!SetAdvertisingInterval
  PROVE  AdvertInv'
<1> DEFINE t == advertiser
           u == [t EXCEPT !.type = "connectable"]
           r == advertiser'
<1>1. /\ Advertising!Call /\ r = Advertising!UpdateAdvertisementParams(u)
      /\ connector' = connector /\ gapEvents' = gapEvents
  BY DEF Advertising!SetAdvertisingInterval
<1>2. t \in Adverts /\ AllTold(t, gapEvents)
  BY DEF AdvertInv, AllTold
<1>3. /\ u \in Adverts /\ SameLink(u, t) /\ SameAir(u, t) /\ u.conn = t.conn /\ u.handle = t.handle
      /\ u.data = t.data /\ u.want = t.want
  BY <1>2 DEF Adverts, AdvTypes, SameLink, SameAir
<1> HIDE DEF u
<1>4. Steady(u, t)
  BY <1>3 DEF Steady, SameAir, DataIsMarked
<1>5. /\ Steady(r, u)
      /\ ~ u.link /\ ~ u.connecting /\ (u.on <=> u.air) /\ WantsAir(u) => WantsAir(r)
  BY <1>1, <1>3, UpdateParamsIs
<1>6. Steady(r, t)
  BY <1>4, <1>5, SteadyTwice
<1>7. AllTold(r, gapEvents)
  BY <1>2, <1>6, Unposted
<1>8. advCalm' => /\ Idle(t, gapEvents) /\ ~ t.connecting /\ connector = "idle" /\ (t.on <=> t.air)
  BY <1>1, CalmCall
<1>9. advCalm' => WantsAir(r)
  BY <1>3, <1>5, <1>8 DEF Idle, SameLink, SameAir, WantsAir
<1>10. advCalm' => Orderly(r, connector, gapEvents)
  BY <1>6, <1>8, <1>9 DEF Orderly, Idle, Steady, SameLink
<1> QED
  BY <1>1, <1>7, <1>10 DEF AdvertInv

LEMMA UpdateServiceDataStep ==
  ASSUME AdvertInv, Advertising!UpdateServiceData
  PROVE  AdvertInv'
<1> DEFINE t == advertiser
           r == advertiser'
<1>1. /\ r = Advertising!UpdateAdvertisementData(t)
      /\ connector' = connector /\ gapEvents' = gapEvents /\ advCalm' = advCalm
  BY DEF Advertising!UpdateServiceData
<1>2. t \in Adverts /\ AllTold(t, gapEvents) /\ DataIsMarked(t)
  BY DEF AdvertInv, AllTold
<1>3. t.air => t.on
  BY <1>2, AirMeansOn
<1>4. /\ Steady(r, t) /\ (Plain(t) => Plain(r)) /\ (WantsAir(t) => WantsAir(r))
      /\ Reserved(t) => Reserved(r)
  BY <1>1, <1>2, <1>3, UpdateDataIs
<1>5. AllTold(r, gapEvents)
  BY <1>2, <1>4, Unposted
<1>6. advCalm => Orderly(r, connector, gapEvents)
  BY <1>4, OrderlyKept DEF AdvertInv, Steady
<1> QED
  BY <1>1, <1>5, <1>6 DEF AdvertInv

LEMMA TickStep ==
  ASSUME AdvertInv, Advertising!Tick
  PROVE  AdvertInv'
<1> DEFINE t == advertiser
           u == [t EXCEPT !.nextTick = FALSE]
           r == advertiser'
<1>1. /\ r = (IF t.want THEN Advertising!Start(u) ELSE u)
      /\ connector' = connector /\ gapEvents' = gapEvents /\ advCalm' = advCalm
  BY DEF Advertising!Tick
<1>2. t \in Adverts /\ AllTold(t, gapEvents)
  BY DEF AdvertInv, AllTold
<1>3. /\ u \in Adverts /\ SameLink(u, t) /\ SameAir(u, t) /\ u.conn = t.conn /\ u.handle = t.handle
      /\ u.data = t.data /\ u.want = t.want /\ u.type = t.type /\ u.isConnectable = t.isConnectable
  BY <1>2 DEF Adverts, SameLink, SameAir
<1> HIDE DEF u
<1>4. Steady(u, t) /\ (Plain(t) => Plain(u)) /\ (WantsAir(t) => WantsAir(u)) /\ (Reserved(t) => Reserved(u))
  BY <1>3 DEF Steady, SameAir, DataIsMarked, Plain, WantsAir, Reserved
<1>5. u.air => u.on
  BY <1>2, <1>3, AirMeansOn DEF SameAir
<1>6. /\ Steady(r, t) /\ (Plain(t) => Plain(r)) /\ (WantsAir(t) => WantsAir(r))
      /\ Reserved(t) => Reserved(r)
  <2>1. CASE t.want
    <3>1. r = Advertising!Start(u)
      BY <1>1, <2>1
    <3>2. Steady(r, t)
      BY <1>3, <1>4, <3>1, StartKeeps, SteadyTwice
    <3>3. (u.on => r.on /\ r.airType = u.airType) /\ (Plain(u) => Plain(r))
      BY <1>3, <1>5, <3>1, StartOrdered
    <3> QED
      BY <1>3, <1>4, <2>1, <3>2, <3>3 DEF WantsAir, Reserved
  <2>2. CASE ~ t.want
    BY <1>1, <1>4, <2>2
  <2> QED
    BY <2>1, <2>2
<1>7. AllTold(r, gapEvents)
  BY <1>2, <1>6, Unposted
<1>8. advCalm => Orderly(r, connector, gapEvents)
  BY <1>6, OrderlyKept DEF AdvertInv, Steady
<1> QED
  BY <1>1, <1>7, <1>8 DEF AdvertInv

LEMMA ConnectOutgoingStep ==
  ASSUME AdvertInv, Advertising!ConnectOutgoing
  PROVE  AdvertInv'
<1> DEFINE t == advertiser
           u == Advertising!SetParams(t, FALSE)
           r == advertiser'
<1>1. /\ Advertising!Call /\ r = (IF t.on THEN Advertising!RestartAdvertising(u) ELSE t)
      /\ connector' = "clearance" /\ gapEvents' = gapEvents
  BY DEF Advertising!ConnectOutgoing
<1>2. t \in Adverts /\ AllTold(t, gapEvents)
  BY DEF AdvertInv, AllTold
<1>3. Steady(u, t) /\ SameAir(u, t) /\ u.type = "plain" /\ u \in Adverts
  BY <1>2, SetParamsIs DEF Steady
<1> HIDE DEF u
<1>4. Steady(r, t)
  <2>1. CASE t.on
    BY <1>1, <1>3, <2>1, RestartKeeps, SteadyTwice
  <2>2. CASE ~ t.on
    BY <1>1, <1>2, <2>2 DEF Steady, SameLink
  <2> QED
    BY <2>1, <2>2
<1>5. AllTold(r, gapEvents)
  BY <1>2, <1>4, Unposted
<1>6. advCalm' => /\ Idle(t, gapEvents) /\ ~ t.connecting /\ (t.on <=> t.air)
  BY <1>1, CalmCall
<1>7. ASSUME advCalm' PROVE Reserved(r)
  <2>1. CASE t.on
    <3>1. ~ u.link /\ ~ u.connecting /\ (u.on <=> u.air)
      BY <1>3, <1>6, <1>7 DEF Idle, Steady, SameLink, SameAir
    <3>2. r.on /\ r.airType = "plain"
      BY <1>1, <1>3, <2>1, <3>1, RestartIs
    <3> QED
      BY <3>2 DEF Reserved, WantsAir
  <2>2. CASE ~ t.on
    BY <1>1, <1>6, <1>7, <2>2 DEF Idle, Reserved
  <2> QED
    BY <2>1, <2>2
<1>8. advCalm' => Orderly(r, "clearance", gapEvents)
  BY <1>4, <1>6, <1>7 DEF Orderly, Outgoing, Idle, Steady, SameLink
<1> QED
  BY <1>1, <1>5, <1>8 DEF AdvertInv

LEMMA ClearanceStep ==
  ASSUME AdvertInv, Advertising!ConnectWithClearance
  PROVE  AdvertInv'
<1> DEFINE t == advertiser
           taken == t.link \/ t.connecting \/ (t.air /\ t.airType = "connectable")
           connecting == t.connecting \/ ~ taken
           r == advertiser'
<1>1. /\ r = [t EXCEPT !.connecting = connecting] /\ connector = "clearance"
      /\ connector' = (IF taken THEN "idle" ELSE "connecting")
      /\ gapEvents' = gapEvents /\ advCalm' = advCalm
  BY DEF Advertising!ConnectWithClearance
<1>2. t \in Adverts /\ AllTold(t, gapEvents)
  BY DEF AdvertInv, AllTold
<1>3. connecting \in BOOLEAN
  BY <1>2 DEF Adverts
<1> HIDE DEF connecting
<1>4. /\ r \in Adverts /\ r.link = t.link /\ r.outgoing = t.outgoing /\ r.connecting = connecting
      /\ r.conn = t.conn /\ r.on = t.on /\ r.air = t.air /\ r.airType = t.airType
      /\ r.airData = t.airData /\ r.inUse = t.inUse /\ r.data = t.data /\ r.handle = t.handle
      /\ r.want = t.want
  BY <1>1, <1>2, <1>3 DEF Adverts
<1>5. AllTold(r, gapEvents)
  BY <1>2, <1>4 DEF AllTold, LinkIsTold, AirIsTold, DataIsMarked
<1>6. ASSUME advCalm PROVE Orderly(r, connector', gapEvents)
  <2>1. Reserved(t) /\ NoneIn(gapEvents) /\ ~ t.link /\ ~ t.connecting
    BY <1>1, <1>6 DEF AdvertInv, Orderly, Outgoing
  <2>2. ~ taken
    BY <1>2, <2>1, AirMeansOn DEF Reserved
  <2>3. connector' = "connecting" /\ r.connecting
    BY <1>1, <1>4, <2>2 DEF connecting
  <2>4. Reserved(r)
    BY <1>4, <2>1 DEF Reserved, WantsAir
  <2> QED
    BY <1>4, <2>1, <2>3, <2>4 DEF Orderly, Outgoing
<1> QED
  BY <1>1, <1>5, <1>6 DEF AdvertInv

LEMMA CancelConnectStep ==
  ASSUME AdvertInv, Advertising!CancelConnect
  PROVE  AdvertInv'
<1>1. /\ Advertising!Call /\ advertiser' = Advertising!UpdateAdvertisementParams(advertiser)
      /\ connector = "connecting" /\ gapEvents' = gapEvents
  BY DEF Advertising!CancelConnect
<1>2. ~ advCalm'
  BY <1>1, CalmCall
<1>3. advertiser \in Adverts /\ AllTold(advertiser, gapEvents)
  BY DEF AdvertInv, AllTold
<1>4. Steady(advertiser', advertiser)
  BY <1>1, <1>3, UpdateParamsIs
<1> QED
  BY <1>1, <1>2, <1>3, <1>4, Unposted DEF AdvertInv

LEMMA AcceptStep ==
  ASSUME AdvertInv, Advertising!Accept
  PROVE  AdvertInv'
<1> DEFINE t == advertiser
           q == gapEvents
           e == [type |-> "connect", buffer |-> t.airData]
           r == advertiser'
<1>1. /\ r = [t EXCEPT !.link = TRUE, !.outgoing = FALSE, !.air = FALSE]
      /\ t.air /\ t.airType = "connectable"
      /\ connector' = connector /\ gapEvents' = Append(q, e) /\ advCalm' = advCalm
  BY DEF Advertising!Accept, Advertising!Post, Advertising!Event
<1>2. t \in Adverts /\ AllTold(t, q) /\ DataIsMarked(t)
  BY DEF AdvertInv, AllTold
<1>3. /\ r \in Adverts /\ r.link /\ ~ r.outgoing /\ ~ r.air
      /\ r.conn = t.conn /\ r.on = t.on /\ r.inUse = t.inUse /\ r.data = t.data
      /\ r.handle = t.handle /\ r.connecting = t.connecting
  BY <1>1, <1>2 DEF Adverts
<1>4. e \in AdvEvents /\ e.type = "connect"
  BY <1>2 DEF AdvEvents, AdvEventTypes, Adverts
<1> HIDE DEF e
<1>5. t.on /\ DataIsMarked(r)
  BY <1>1, <1>2, <1>3, AirMeansOn DEF DataIsMarked
<1>6. AllTold(r, Append(q, e)) /\ (NoneIn(q) => One(Append(q, e), "connect"))
  <2>1. "connect" \in Ups /\ "connect" \notin Downs /\ Tells(e)
    BY <1>4 DEF Ups, Downs, Tells
  <2> QED
    BY <1>1, <1>2, <1>3, <1>4, <1>5, <2>1, Posted
<1>7. ASSUME advCalm PROVE Orderly(r, connector, Append(q, e))
  <2>1. ~ Plain(t) /\ ~ Reserved(t)
    BY <1>1, <1>5 DEF Plain, Reserved
  <2>2. ~ One(q, "connect") /\ ~ Two(q, "connect", "disconnect")
    BY <1>1, <1>2 DEF AllTold, AirIsTold, One, Two
  <2>3. connector = "idle" /\ ~ t.connecting /\ NoneIn(q)
    BY <1>7, <2>1, <2>2 DEF AdvertInv, Orderly, Idle, Incoming, Outgoing
  <2> QED
    BY <1>3, <1>6, <2>3 DEF Orderly, Incoming
<1> QED
  BY <1>1, <1>6, <1>7 DEF AdvertInv

LEMMA ConnectedStep ==
  ASSUME AdvertInv, Advertising!Connected
  PROVE  AdvertInv'
<1> DEFINE t == advertiser
           q == gapEvents
           e == [type |-> "out", buffer |-> 0]
           r == advertiser'
<1>1. /\ r = [t EXCEPT !.connecting = FALSE, !.link = TRUE, !.outgoing = TRUE] /\ t.connecting
      /\ connector' = connector /\ gapEvents' = Append(q, e) /\ advCalm' = advCalm
  BY DEF Advertising!Connected, Advertising!Post, Advertising!Event
<1>2. t \in Adverts /\ AllTold(t, q) /\ DataIsMarked(t)
  BY DEF AdvertInv, AllTold
<1>3. /\ r \in Adverts /\ r.link /\ r.outgoing /\ ~ r.connecting /\ SameAir(r, t)
      /\ r.conn = t.conn /\ r.data = t.data /\ r.handle = t.handle /\ r.want = t.want
  BY <1>1, <1>2 DEF Adverts, SameAir
<1>4. e \in AdvEvents /\ e.type = "out"
  BY DEF AdvEvents, AdvEventTypes, BufferNumbers
<1> HIDE DEF e
<1>5. DataIsMarked(r)
  BY <1>2, <1>3 DEF DataIsMarked, SameAir
<1>6. AllTold(r, Append(q, e)) /\ (NoneIn(q) => One(Append(q, e), "out"))
  <2>1. "out" \in Ups /\ "out" \notin Downs /\ Tells(e)
    BY <1>4 DEF Ups, Downs, Tells
  <2> QED
    BY <1>1, <1>2, <1>3, <1>4, <1>5, <2>1, Posted DEF SameAir
<1>7. ASSUME advCalm PROVE Orderly(r, connector, Append(q, e))
  <2>1. connector = "connecting" /\ NoneIn(q) /\ Reserved(t)
    BY <1>1, <1>7 DEF AdvertInv, Orderly, Outgoing
  <2>2. Reserved(r)
    BY <1>3, <2>1 DEF Reserved, WantsAir, SameAir
  <2> QED
    BY <1>3, <1>6, <2>1, <2>2 DEF Orderly, Outgoing
<1> QED
  BY <1>1, <1>6, <1>7 DEF AdvertInv

LEMMA ConnectTimeoutStep ==
  ASSUME AdvertInv, Advertising!ConnectTimeout
  PROVE  AdvertInv'
<1> DEFINE t == advertiser
           q == gapEvents
           e == [type |-> "timeout", buffer |-> 0]
           r == advertiser'
<1>1. /\ r = [t EXCEPT !.connecting = FALSE] /\ t.connecting
      /\ connector' = connector /\ gapEvents' = Append(q, e) /\ advCalm' = advCalm
  BY DEF Advertising!ConnectTimeout, Advertising!Post, Advertising!Event
<1>2. t \in Adverts /\ AllTold(t, q) /\ DataIsMarked(t)
  BY DEF AdvertInv, AllTold
<1>3. /\ r \in Adverts /\ r.link = t.link /\ ~ r.connecting /\ SameAir(r, t)
      /\ r.conn = t.conn /\ r.data = t.data /\ r.handle = t.handle /\ r.want = t.want
  BY <1>1, <1>2 DEF Adverts, SameAir
<1>4. e \in AdvEvents /\ e.type = "timeout"
  BY DEF AdvEvents, AdvEventTypes, BufferNumbers
<1> HIDE DEF e
<1>5. DataIsMarked(r)
  BY <1>2, <1>3 DEF DataIsMarked, SameAir
<1>6. AllTold(r, Append(q, e)) /\ (NoneIn(q) => One(Append(q, e), "timeout"))
  <2>1. "timeout" \notin Ups /\ "timeout" \notin Downs
    BY DEF Ups, Downs
  <2> QED
    BY <1>1, <1>2, <1>3, <1>4, <1>5, <2>1, Posted DEF SameAir
<1>7. ASSUME advCalm PROVE Orderly(r, connector, Append(q, e))
  <2>1. connector = "connecting" /\ NoneIn(q) /\ Reserved(t) /\ ~ t.link
    BY <1>1, <1>7 DEF AdvertInv, Orderly, Outgoing
  <2>2. Reserved(r)
    BY <1>3, <2>1 DEF Reserved, WantsAir, SameAir
  <2> QED
    BY <1>3, <1>6, <2>1, <2>2 DEF Orderly, Outgoing
<1> QED
  BY <1>1, <1>6, <1>7 DEF AdvertInv

LEMMA DropStep ==
  ASSUME AdvertInv, Advertising!Drop
  PROVE  AdvertInv'
<1> DEFINE t == advertiser
           q == gapEvents
           type == IF t.outgoing THEN "end" ELSE "disconnect"
           e == [type |-> type, buffer |-> 0]
           r == advertiser'
<1>1. /\ r = [t EXCEPT !.link = FALSE] /\ t.link
      /\ connector' = connector /\ gapEvents' = Append(q, e) /\ advCalm' = advCalm
  BY DEF Advertising!Drop, Advertising!Post, Advertising!Event
<1>2. t \in Adverts /\ AllTold(t, q) /\ DataIsMarked(t)
  BY DEF AdvertInv, AllTold
<1>3. /\ r \in Adverts /\ ~ r.link /\ r.connecting = t.connecting /\ r.outgoing = t.outgoing /\ SameAir(r, t)
      /\ r.conn = t.conn /\ r.data = t.data /\ r.handle = t.handle /\ r.want = t.want
      /\ r.type = t.type /\ r.isConnectable = t.isConnectable
  BY <1>1, <1>2 DEF Adverts, SameAir
<1>4. e \in AdvEvents /\ e.type = type /\ type # "connect" /\ type \in Downs /\ type \notin Ups
  BY DEF AdvEvents, AdvEventTypes, BufferNumbers, Downs, Ups
<1> HIDE DEF e
<1>5. DataIsMarked(r)
  BY <1>2, <1>3 DEF DataIsMarked, SameAir
<1>6. /\ AllTold(r, Append(q, e)) /\ (NoneIn(q) => One(Append(q, e), type))
      /\ \A k : One(q, k) => Two(Append(q, e), k, type)
  <2>1. Tells(e)
    BY <1>4 DEF Tells
  <2> QED
    BY <1>1, <1>2, <1>3, <1>4, <1>5, <2>1, Posted DEF SameAir
<1>7. ASSUME advCalm PROVE Orderly(r, connector, Append(q, e))
  <2>1. (Plain(t) => Plain(r)) /\ (Reserved(t) => Reserved(r))
    BY <1>3 DEF Reserved, WantsAir, SameAir, Plain
  <2>2. Orderly(t, connector, q)
    BY <1>7 DEF AdvertInv
  <2>3. CASE connector = "idle" /\ ~ t.connecting /\ ~ t.outgoing /\
             ((NoneIn(q) /\ Plain(t)) \/ One(q, "connect"))
    BY <1>3, <1>6, <2>1, <2>3 DEF Orderly, Incoming
  <2>4. CASE /\ Reserved(t) /\ t.outgoing /\ ~ t.connecting
             /\ \/ connector = "connecting" /\ (One(q, "out") \/ One(q, "mtu"))
                \/ connector = "connected" /\ NoneIn(q)
    BY <1>3, <1>6, <2>1, <2>4 DEF Orderly, Outgoing
  <2> QED
    BY <1>1, <2>2, <2>3, <2>4 DEF Orderly, Idle, Incoming, Outgoing
<1> QED
  BY <1>1, <1>6, <1>7 DEF AdvertInv

\* Stack hears that there is a connection, or none any more.
LEMMA ConnIs ==
  ASSUME NEW t \in Adverts, NEW b \in BOOLEAN
  PROVE  LET u == [t EXCEPT !.conn = b]
         IN /\ u \in Adverts /\ SameLink(u, t) /\ SameAir(u, t) /\ u.conn = b /\ u.data = t.data
            /\ u.handle = t.handle /\ u.want = t.want /\ u.type = t.type
            /\ u.isConnectable = t.isConnectable
BY DEF Adverts, SameLink, SameAir

LEMMA OneOther ==
  ASSUME NEW t, NEW q, AllTold(t, q), NEW k, k # "connect", One(q, k)
  PROVE  t.on <=> t.air
BY DEF AllTold, AirIsTold, One

\* The event of a connection.
LEMMA OnConnectStep ==
  ASSUME AdvertInv, Advertising!HandleEvent, Head(gapEvents).type = "connect"
  PROVE  AdvertInv'
<1> DEFINE t == advertiser
           q == gapEvents
           h == Head(q)
           r == advertiser'
<1>1. /\ q # << >> /\ r = Advertising!OnConnect(t, h.buffer) /\ connector' = connector
      /\ gapEvents' = Tail(q) /\ advCalm' = advCalm
  BY DEF Advertising!HandleEvent
<1>2. t \in Adverts /\ AllTold(t, q) /\ DataIsMarked(t)
  BY DEF AdvertInv, AllTold
<1>3. ~ t.air
  <2>1. 1 \in 1 .. Len(q) /\ q[1].type = "connect"
    <3>1. q \in Seq(AdvEvents) /\ h = q[1]
      BY <1>1, <1>2, AirMeansOn DEF AllTold
    <3> QED
      BY <1>1, <3>1, LenProperties, EmptySeq
  <2> QED
    BY <1>2, <2>1 DEF AllTold, AirIsTold
<1>4. /\ r \in Adverts /\ SameLink(r, t) /\ r.conn /\ ~ r.on /\ ~ r.air /\ Plain(r) /\ DataIsMarked(r)
  BY <1>1, <1>2, <1>3, OnConnectIs
<1>5. Tells(h) /\ h.type \in Ups
  BY DEF Tells, Ups
<1>6. /\ AllTold(r, Tail(q)) /\ ~ NoneIn(q)
      /\ \A k : One(q, k) => NoneIn(Tail(q)) /\ h.type = k
      /\ \A k, l : Two(q, k, l) => One(Tail(q), l) /\ h.type = k
  BY <1>1, <1>2, <1>4, <1>5, EventTaken
<1>7. ASSUME advCalm PROVE Orderly(r, connector, Tail(q))
  <2>1. /\ connector = "idle" /\ ~ t.connecting
        /\ \/ One(q, "connect") /\ t.link /\ ~ t.outgoing
           \/ Two(q, "connect", "disconnect") /\ ~ t.link
    BY <1>6, <1>7 DEF AdvertInv, Orderly, Idle, Incoming, Outgoing
  <2> QED
    BY <1>4, <1>6, <2>1 DEF Orderly, Incoming, SameLink
<1> QED
  BY <1>1, <1>6, <1>7 DEF AdvertInv

\* The event of a connection that was asked for; the MTU is asked for when it is
\* still there.
LEMMA OnOutgoingStep ==
  ASSUME AdvertInv, Advertising!HandleEvent, Head(gapEvents).type = "out"
  PROVE  AdvertInv'
<1> DEFINE t == advertiser
           q == gapEvents
           h == Head(q)
           u == [t EXCEPT !.conn = TRUE]
           e == [type |-> "mtu", buffer |-> 0]
           r == advertiser'
<1>1. /\ q # << >> /\ advCalm' = advCalm
      /\ t.link /\ t.outgoing => /\ gapEvents' = Append(Tail(q), e) /\ r = u /\ connector' = connector
      /\ ~ (t.link /\ t.outgoing) => gapEvents' = Tail(q) /\ Advertising!FinishConnect(u)
  BY DEF Advertising!HandleEvent, Advertising!Event
<1>2. t \in Adverts /\ AllTold(t, q) /\ DataIsMarked(t)
  BY DEF AdvertInv, AllTold
<1>3. /\ u \in Adverts /\ SameLink(u, t) /\ SameAir(u, t) /\ u.conn /\ u.data = t.data
      /\ u.handle = t.handle /\ u.want = t.want
  BY <1>2, ConnIs
<1> HIDE DEF u
<1>4. Steady(r, u)
  <2>1. r = u \/ r = Advertising!UpdateAdvertisementParams(u)
    BY <1>1 DEF Advertising!FinishConnect, Advertising!Finalize, Advertising!OnDisconnect
  <2>2. Steady(u, u)
    BY <1>3 DEF Steady, SameLink
  <2> QED
    BY <1>3, <2>1, <2>2, UpdateParamsIs
<1>5. DataIsMarked(u)
  BY <1>2, <1>3 DEF DataIsMarked, SameAir
<1>6. /\ r \in Adverts /\ SameLink(r, t) /\ r.conn /\ DataIsMarked(r)
      /\ (t.on <=> t.air) => (r.on <=> r.air)
      /\ t.on /\ ~ t.air => r.on /\ ~ r.air
  BY <1>3, <1>4, <1>5 DEF Steady, SameLink, SameAir
<1>7. Tells(h) /\ h.type \in Ups
  BY DEF Tells, Ups
<1>8. /\ AllTold(r, Tail(q)) /\ ~ NoneIn(q)
      /\ \A k : One(q, k) => NoneIn(Tail(q)) /\ h.type = k
      /\ \A k, l : Two(q, k, l) => One(Tail(q), l) /\ h.type = k
  BY <1>1, <1>2, <1>6, <1>7, EventTaken
<1>9. CASE t.link /\ t.outgoing
  <2>1. e \in AdvEvents /\ e.type = "mtu"
    BY DEF AdvEvents, AdvEventTypes, BufferNumbers
  <2> HIDE DEF e
  <2>2. "mtu" \notin Ups /\ "mtu" \notin Downs
    BY DEF Ups, Downs
  <2>3. AllTold(r, Append(Tail(q), e)) /\ (NoneIn(Tail(q)) => One(Append(Tail(q), e), "mtu"))
    BY <1>6, <1>8, <2>1, <2>2, Posted
  <2>4. ASSUME advCalm PROVE Orderly(r, connector, Append(Tail(q), e))
    <3>1. connector = "connecting" /\ ~ t.connecting /\ Reserved(t) /\ One(q, "out")
      BY <1>8, <1>9, <2>4 DEF AdvertInv, Orderly, Idle, Incoming, Outgoing
    <3>2. Reserved(r) /\ SameLink(r, t)
      BY <1>1, <1>3, <1>9, <3>1 DEF Reserved, WantsAir, SameAir
    <3> QED
      BY <1>8, <1>9, <2>3, <3>1, <3>2 DEF Orderly, Outgoing, SameLink
  <2> QED
    BY <1>1, <1>9, <2>3, <2>4 DEF AdvertInv
<1>10. CASE ~ (t.link /\ t.outgoing)
  <2>1. ASSUME advCalm PROVE Orderly(r, connector', Tail(q))
    <3>1. connector = "connecting" /\ ~ t.connecting /\ ~ t.link /\ Reserved(t) /\ Two(q, "out", "end")
      BY <1>8, <1>10, <2>1 DEF AdvertInv, Orderly, Idle, Incoming, Outgoing
    <3>2. r = u /\ connector' = "connected"
      BY <1>1, <1>10, <3>1 DEF Advertising!FinishConnect, Advertising!Finalize
    <3>3. Reserved(r) /\ SameLink(r, t)
      BY <1>3, <3>1, <3>2 DEF Reserved, WantsAir, SameAir
    <3> QED
      BY <1>8, <3>1, <3>2, <3>3 DEF Orderly, Outgoing, SameLink
  <2> QED
    BY <1>1, <1>8, <1>10, <2>1 DEF AdvertInv
<1> QED
  BY <1>9, <1>10

\* Events that do not tell of the link.
LEMMA OnResultStep ==
  ASSUME AdvertInv, Advertising!HandleEvent, Head(gapEvents).type \in {"mtu", "timeout"}
  PROVE  AdvertInv'
<1> DEFINE t == advertiser
           q == gapEvents
           h == Head(q)
           r == advertiser'
<1>1. /\ q # << >> /\ advCalm' = advCalm /\ gapEvents' = Tail(q)
      /\ h.type = "mtu" => Advertising!FinishConnect(t)
      /\ h.type = "timeout" => IF connector \in {"clearance", "connecting"} THEN Advertising!Finalize(t, TRUE)
                               ELSE r = t /\ connector' = connector
  BY DEF Advertising!HandleEvent
<1>2. t \in Adverts /\ AllTold(t, q) /\ DataIsMarked(t)
  BY DEF AdvertInv, AllTold
<1>3. Steady(r, t)
  <2>1. r = t \/ r = Advertising!UpdateAdvertisementParams(t)
    BY <1>1 DEF Advertising!FinishConnect, Advertising!Finalize, Advertising!OnDisconnect
  <2>2. Steady(t, t)
    BY <1>2 DEF Steady, SameLink
  <2> QED
    BY <1>2, <2>1, <2>2, UpdateParamsIs
<1>4. ~ Tells(h) /\ h.type # "connect"
  BY DEF Tells, Ups, Downs
<1>5. /\ AllTold(r, Tail(q)) /\ ~ NoneIn(q)
      /\ \A k : One(q, k) => NoneIn(Tail(q)) /\ h.type = k
      /\ \A k, l : Two(q, k, l) => One(Tail(q), l) /\ h.type = k
  <2>1. /\ r \in Adverts /\ SameLink(r, t) /\ DataIsMarked(r) /\ r.conn = t.conn
        /\ (t.on <=> t.air) => (r.on <=> r.air)
        /\ t.on /\ ~ t.air => r.on /\ ~ r.air
    BY <1>2, <1>3 DEF Steady
  <2> QED
    BY <1>1, <1>2, <1>4, <2>1, EventTaken
<1>6. ASSUME advCalm PROVE Orderly(r, connector', Tail(q))
  <2>1. CASE h.type = "mtu"
    <3>1. /\ connector = "connecting" /\ ~ t.connecting /\ Reserved(t)
          /\ \/ One(q, "mtu") /\ t.link /\ t.outgoing
             \/ Two(q, "mtu", "end") /\ ~ t.link
      BY <1>5, <1>6, <2>1 DEF AdvertInv, Orderly, Idle, Incoming, Outgoing
    <3>2. r = t /\ connector' = "connected"
      BY <1>1, <2>1, <3>1 DEF Advertising!FinishConnect, Advertising!Finalize
    <3> QED
      BY <1>5, <3>1, <3>2 DEF Orderly, Outgoing
  <2>2. CASE h.type = "timeout"
    <3>1. /\ connector = "connecting" /\ ~ t.connecting /\ ~ t.link /\ Reserved(t) /\ One(q, "timeout")
      BY <1>5, <1>6, <2>2 DEF AdvertInv, Orderly, Idle, Incoming, Outgoing
    <3>2. r = Advertising!UpdateAdvertisementParams(t) /\ connector' = "idle"
      BY <1>1, <2>2, <3>1 DEF Advertising!Finalize, Advertising!OnDisconnect
    <3>3. t.on <=> t.air
      BY <1>2, <3>1, OneOther
    <3>4. WantsAir(r)
      BY <1>2, <3>1, <3>2, <3>3, UpdateParamsIs DEF Reserved
    <3> QED
      BY <1>3, <1>5, <3>1, <3>2, <3>4 DEF Orderly, Idle, Steady, SameLink
  <2> QED
    BY <2>1, <2>2
<1> QED
  BY <1>1, <1>5, <1>6 DEF AdvertInv

\* The end of a connection, of either kind.
LEMMA OnEndStep ==
  ASSUME AdvertInv, Advertising!HandleEvent, Head(gapEvents).type \in Downs
  PROVE  AdvertInv'
<1> DEFINE t == advertiser
           q == gapEvents
           h == Head(q)
           u == [t EXCEPT !.conn = FALSE]
           r == advertiser'
<1>1. /\ q # << >> /\ advCalm' = advCalm /\ gapEvents' = Tail(q)
      /\ r = Advertising!UpdateAdvertisementParams(u)
      /\ connector' = IF h.type = "end" THEN "idle" ELSE connector
  BY DEF Advertising!HandleEvent, Advertising!Finalize, Advertising!OnDisconnect, Downs
<1>2. t \in Adverts /\ AllTold(t, q) /\ DataIsMarked(t)
  BY DEF AdvertInv, AllTold
<1>3. /\ u \in Adverts /\ SameLink(u, t) /\ SameAir(u, t) /\ ~ u.conn /\ u.data = t.data
      /\ u.handle = t.handle /\ u.want = t.want /\ u.isConnectable = t.isConnectable
  BY <1>2, ConnIs
<1> HIDE DEF u
<1>4. /\ Steady(r, u)
      /\ /\ ~ u.link /\ ~ u.connecting /\ (u.on <=> u.air)
         /\ WantsAir(u) \/ (~ u.isConnectable /\ ~ u.conn)
         => WantsAir(r)
  BY <1>1, <1>3, UpdateParamsIs
<1>5. DataIsMarked(u)
  BY <1>2, <1>3 DEF DataIsMarked, SameAir
<1>6. /\ r \in Adverts /\ SameLink(r, t) /\ ~ r.conn /\ DataIsMarked(r)
      /\ (t.on <=> t.air) => (r.on <=> r.air)
      /\ t.on /\ ~ t.air => r.on /\ ~ r.air
  BY <1>3, <1>4, <1>5 DEF Steady, SameLink, SameAir
<1>7. Tells(h) /\ h.type \notin Ups /\ h.type # "connect"
  BY DEF Tells, Ups, Downs
<1>8. /\ AllTold(r, Tail(q)) /\ ~ NoneIn(q)
      /\ \A k : One(q, k) => NoneIn(Tail(q)) /\ h.type = k
      /\ \A k, l : Two(q, k, l) => One(Tail(q), l) /\ h.type = k
  BY <1>1, <1>2, <1>6, <1>7, EventTaken
<1>9. ASSUME advCalm PROVE Orderly(r, connector', Tail(q))
  <2>1. /\ ~ t.connecting /\ ~ t.link
        /\ \/ connector = "idle" /\ One(q, "disconnect") /\ Plain(t) /\ h.type = "disconnect"
           \/ connector = "connected" /\ One(q, "end") /\ Reserved(t) /\ h.type = "end"
    BY <1>8, <1>9 DEF AdvertInv, Orderly, Idle, Incoming, Outgoing, Downs
  <2>2. t.on <=> t.air
    BY <1>2, <2>1, OneOther
  <2>3. WantsAir(r)
    BY <1>3, <1>4, <2>1, <2>2 DEF Plain, Reserved, WantsAir, SameLink, SameAir
  <2> QED
    BY <1>1, <1>6, <1>8, <2>1, <2>3 DEF Orderly, Idle, SameLink
<1> QED
  BY <1>1, <1>8, <1>9 DEF AdvertInv

LEMMA HandleEventStep ==
  ASSUME AdvertInv, Advertising!HandleEvent
  PROVE  AdvertInv'
<1>1. gapEvents # << >> /\ AllTold(advertiser, gapEvents)
  BY DEF Advertising!HandleEvent, AdvertInv
<1>2. Head(gapEvents).type \in {"connect", "out", "mtu", "timeout"} \cup Downs
  BY <1>1, AirMeansOn DEF AdvEvents, AdvEventTypes, Downs
<1> QED
  BY <1>2, OnConnectStep, OnOutgoingStep, OnResultStep, OnEndStep

LEMMA AdvertInit ==
  ASSUME Advertising!Init
  PROVE  AdvertInv
<1> DEFINE t == [want |-> FALSE, on |-> FALSE, nextTick |-> FALSE, handle |-> FALSE,
                 type |-> "connectable", isConnectable |-> FALSE, changed |-> FALSE, data |-> 0,
                 inUse |-> {}, conn |-> FALSE, air |-> FALSE, airType |-> "plain", airData |-> 0,
                 link |-> FALSE, outgoing |-> FALSE, connecting |-> FALSE]
           r == advertiser
<1>1. r = Advertising!Start(t) /\ connector = "idle" /\ gapEvents = << >>
  BY DEF Advertising!Init
<1>2. /\ t \in Adverts /\ ~ t.on /\ ~ t.air /\ ~ t.link /\ ~ t.connecting /\ ~ t.conn /\ t.data = 0
      /\ t.inUse = {}
  BY DEF Adverts, AdvTypes, BufferNumbers
<1> HIDE DEF t
<1>3. /\ r \in Adverts /\ SameLink(r, t) /\ r.conn = t.conn /\ r.data = t.data /\ r.on /\ r.air /\ r.handle
      /\ r.airData = t.data /\ r.inUse = Advertising!Marked(t.inUse, t.data)
  BY <1>1, <1>2, StartIs
<1>4. Advertising!Marked(t.inUse, t.data) = {}
  BY <1>2 DEF Advertising!Marked
<1>5. DataIsMarked(r) /\ ~ r.link /\ ~ r.conn /\ ~ r.connecting
  BY <1>2, <1>3, <1>4 DEF DataIsMarked, SameLink
<1>6. gapEvents \in Seq(AdvEvents) /\ Len(gapEvents) = 0
  BY <1>1
<1>7. AllTold(r, gapEvents)
  BY <1>3, <1>5, <1>6 DEF AllTold, LinkIsTold, AirIsTold
<1>8. Orderly(r, connector, gapEvents)
  BY <1>1, <1>3, <1>5, <1>6 DEF Orderly, Idle, NoneIn, WantsAir
<1> QED
  BY <1>7, <1>8 DEF AdvertInv

LEMMA AdvertNext ==
  ASSUME AdvertInv, Advertising!Next
  PROVE  AdvertInv'
BY EnableStep, SetIntervalStep, UpdateServiceDataStep, TickStep, ConnectOutgoingStep, ClearanceStep,
   CancelConnectStep, AcceptStep, ConnectedStep, ConnectTimeoutStep, DropStep, HandleEventStep
DEF Advertising!Next

LEMMA AdvertStutter ==
  ASSUME AdvertInv, UNCHANGED advVars
  PROVE  AdvertInv'
BY DEF AdvertInv, advVars

LEMMA AdvertHolds ==
  AdvertInv => /\ Advertising!BufferOnAirIsKept /\ Advertising!KnowsWhenHandled
               /\ Advertising!LinkIsKeptForCentral
<1> SUFFICES ASSUME AdvertInv
             PROVE  /\ Advertising!BufferOnAirIsKept /\ Advertising!KnowsWhenHandled
                    /\ Advertising!LinkIsKeptForCentral
  OBVIOUS
<1> DEFINE t == advertiser
<1>1. AllTold(t, gapEvents) /\ t \in Adverts /\ DataIsMarked(t)
  BY DEF AdvertInv, AllTold
<1>2. Advertising!BufferOnAirIsKept
  <2>1. t.air => t.airData \in t.inUse \cup {0}
    BY <1>1 DEF DataIsMarked
  <2>2. IsFiniteSet({t.data}) /\ Cardinality({t.data}) = 1
    BY FS_Singleton
  <2>3. Cardinality(t.inUse) <= 1 /\ Cardinality(t.inUse) \in Nat
    BY <1>1, <2>2, FS_Subset, FS_CardinalityType DEF DataIsMarked
  <2>4. Advertising!Cardinality(t.inUse) = Cardinality(t.inUse)
    BY DEF Advertising!Cardinality, Cardinality
  <2> QED
    BY <2>1, <2>3, <2>4 DEF Advertising!BufferOnAirIsKept
<1>3. Advertising!KnowsWhenHandled
  <2>1. ASSUME gapEvents = << >> PROVE (t.on <=> t.air) /\ (t.conn <=> t.link)
    <3>1. NoneIn(gapEvents) /\ (t.on <=> t.air)
      BY <1>1, <2>1, AirMeansOn
    <3>2. Len(gapEvents) = 0 /\ 0 \in 0 .. 0 /\ 0 + 1 .. 0 = {}
      BY <3>1 DEF NoneIn
    <3>3. LinkIsTold(t, gapEvents)
      BY <1>1 DEF AllTold
    <3>4. t.link <=> t.conn
      BY <3>2, <3>3 DEF LinkIsTold
    <3> QED
      BY <3>1, <3>4
  <2> QED
    BY <1>1, <2>1 DEF Advertising!KnowsWhenHandled, Adverts
<1>4. Advertising!LinkIsKeptForCentral
  <2> SUFFICES ASSUME advCalm, connector = "clearance", ~ t.link, gapEvents = << >>
               PROVE  ~ (t.air /\ t.airType = "connectable")
    BY DEF Advertising!LinkIsKeptForCentral
  <2>1. Reserved(t)
    BY DEF AdvertInv, Orderly, Outgoing
  <2> QED
    BY <1>1, <2>1, AirMeansOn DEF Reserved
<1> QED
  BY <1>2, <1>3, <1>4

-----------------------------------------------------------------------------
(* The theorems: each part keeps its invariant while it runs, and while    *)
(* another does.                                                           *)

\* A stone in normal mode has all its settings in flash, and one in setup mode
\* has nothing of its former owner, when a set of settings is not given again
\* while it is stored, and no factory reset is cut by the power (the two
\* switches of OperationModes).
THEOREM ModesStayTrue ==
  ASSUME ~ Retries, ~ CutInReset
  PROVE  Spec => []ModesAreTrue
<1> DEFINE Inv == part = "modes" => ModesInv
<1>1. Init => Inv
  BY ModesInit DEF Init
<1>2. Inv /\ [Next]_vars => Inv'
  <2> SUFFICES ASSUME Inv, [Next]_vars, part' = "modes" PROVE ModesInv'
    OBVIOUS
  <2>1. part = "modes" /\ ModesInv
    BY DEF Next, vars
  <2>2. Modes!Next \/ UNCHANGED modeVars
    BY <2>1 DEF Next, vars
  <2> QED
    BY <2>1, <2>2, ModesNext, ModesStutter
<1>3. Inv => ModesAreTrue
  BY ModesHold DEF ModesAreTrue
<1> QED
  BY <1>1, <1>2, <1>3, PTL DEF Spec

\* The events of the presence handler tell who is present, for any stones,
\* places and records: also when the oldest record makes room for a new one.
THEOREM PresenceIsTold == Spec => []EventsTellPresence
<1> DEFINE Inv == part = "users" => PresenceInv
<1>1. Init => Inv
  BY PresenceInit DEF Init
<1>2. Inv /\ [Next]_vars => Inv'
  <2> SUFFICES ASSUME Inv, [Next]_vars, part' = "users" PROVE PresenceInv'
    OBVIOUS
  <2>1. part = "users" /\ PresenceInv
    BY DEF Next, vars
  <2>2. Users!Next \/ UNCHANGED userVars
    BY <2>1 DEF Next, vars
  <2> QED
    BY <2>1, <2>2, PresenceNext, PresenceStutter
<1>3. Inv => EventsTellPresence
  BY PresenceHolds DEF EventsTellPresence
<1> QED
  BY <1>1, <1>2, <1>3, PTL DEF Spec

\* A unicast that is reported as a success was received by its stone, a clock
\* that is sent was once set or started, and the result of a command goes to who
\* gave it: when replies do not come after the end of their item, and a handler
\* does not take a command of a type while it still works on one.
THEOREM AcksAreMeant ==
  ASSUME ~ LateReplies, ~ Several
  PROVE  Spec => []AckMeansHeard
<1> DEFINE Inv == /\ part = "unicast" => UnicastInv
                  /\ part = "clock" => ClockInv
                  /\ part = "requests" => RequestsInv
<1>1. Init => Inv
  BY UnicastInit, ClockInit, RequestsInit DEF Init
<1>2. Inv /\ [Next]_vars => Inv'
  <2> SUFFICES ASSUME Inv, [Next]_vars PROVE Inv'
    OBVIOUS
  <2>1. part' = part
    BY DEF Next, vars
  <2>2. CASE part = "unicast"
    <3>1. Unicast!Next \/ UNCHANGED unicastVars
      BY <2>2 DEF Next, vars
    <3> QED
      BY <2>1, <2>2, <3>1, UnicastNext, UnicastStutter
  <2>3. CASE part = "clock"
    <3>1. Clock!Next \/ UNCHANGED clockVars
      BY <2>3 DEF Next, vars
    <3> QED
      BY <2>1, <2>3, <3>1, ClockNext, ClockStutter
  <2>4. CASE part = "requests"
    <3>1. Requests!Next \/ UNCHANGED requestVars
      BY <2>4 DEF Next, vars
    <3> QED
      BY <2>1, <2>4, <3>1, RequestsNext, RequestsStutter
  <2> QED
    BY <2>1, <2>2, <2>3, <2>4
<1>3. Inv => AckMeansHeard
  BY UnicastHolds, ClockHolds DEF AckMeansHeard, RequestsInv
<1> QED
  BY <1>1, <1>2, <1>3, PTL DEF Spec

\* Whoever is told of a connection has it, and the mesh comes back after it; and
\* the Advertiser knows what is on air and who is connected once it has handled
\* the events, does not write in the buffer on air, and leaves the link to those
\* who connect: for any stones, switches of the parts and numbers of calls.
THEOREM ConnectionsAreTrue == Spec => []ConnectionIsTrue
<1> DEFINE Inv == /\ part = "links" => LinksInv
                  /\ part = "advertiser" => AdvertInv
<1>1. Init => Inv
  BY LinksInit, AdvertInit DEF Init
<1>2. Inv /\ [Next]_vars => Inv'
  <2> SUFFICES ASSUME Inv, [Next]_vars PROVE Inv'
    OBVIOUS
  <2>1. part' = part
    BY DEF Next, vars
  <2>2. CASE part = "links"
    <3>1. Links!Next \/ UNCHANGED linkVars
      BY <2>2 DEF Next, vars
    <3> QED
      BY <2>1, <2>2, <3>1, LinksNext, LinksStutter
  <2>3. CASE part = "advertiser"
    <3>1. Advertising!Next \/ UNCHANGED advVars
      BY <2>3 DEF Next, vars
    <3> QED
      BY <2>1, <2>3, <3>1, AdvertNext, AdvertStutter
  <2> QED
    BY <2>1, <2>2, <2>3
<1>3. Inv => ConnectionIsTrue
  BY LinksHold, AdvertHolds DEF ConnectionIsTrue
<1> QED
  BY <1>1, <1>2, <1>3, PTL DEF Spec

=============================================================================
