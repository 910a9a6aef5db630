----------------------------- MODULE ConfigStore -----------------------------
(***************************************************************************)
(* The A/B configuration store: two 40-byte slot records on the NOR flash, *)
(* the CFG (slot, generation) pair in RAM, the persisted part of REGS, the *)
(* CTRL_QUEUE that carries CfgSave and CfgEraseAll to the storage task,    *)
(* and power loss or reset at any flash operation.                         *)
(*                                                                         *)
(* cfg_save and cfg_erase_all contain no await, so no other task runs      *)
(* while one is in progress: front-end actions need pc = "idle".  A reset  *)
(* can still hit between, or inside, any two flash operations.             *)
(***************************************************************************)
EXTENDS Integers, Sequences

CONSTANTS
  Cfg,          \* the values of IoCfg
  Defaults,     \* IoCfg::defaults()
  Junk,         \* a flash field that is erased, half programmed or unreadable
  CtrlCap,      \* capacity of CTRL_QUEUE (4 in the code)
  MaxRequests   \* bound: control requests issued in a behaviour

ASSUME ConfigAssumption ==
  /\ Defaults \in Cfg
  /\ Junk \notin Cfg /\ Junk \notin Nat /\ Junk \notin Nat \X Cfg
  /\ CtrlCap \in Nat \ {0} /\ MaxRequests \in Nat

VARIABLES
  flash,      \* slot -> the three separately written parts of its record
  cfgSlot,    \* CFG.0: the active slot, or "none"
  cfgGen,     \* CFG.1: the active generation
  regs,       \* the persisted part of REGS, as an IoCfg value
  ctrl,       \* CTRL_QUEUE
  pc,         \* where the storage task stands inside a control command
  rec,        \* the record cfg_save is writing, and its target slot
  reqs,       \* control requests issued so far (bounded by MaxRequests)
  \* history variables
  committed,  \* config of the last completed save, erase or boot
  unsure,     \* configs whose save started after that and did not complete
  saved,      \* every config a save was started for
  wiping,     \* an erase-all started and neither completed nor was superseded
  want        \* config a client was last told is saved, or Junk once a later
              \* write, erase, flash error or reset has withdrawn it

store == <<flash, cfgSlot, cfgGen, pc, rec>>
ghosts == <<committed, unsure, saved, wiping, want>>
vars == <<flash, cfgSlot, cfgGen, regs, ctrl, pc, rec, reqs, ghosts>>

Slot == {"A", "B"}
Blank == [hdr |-> Junk, body |-> Junk, crc |-> Junk]
NoRec == [tgt |-> "A", gen |-> 0, cfg |-> Defaults]
Saving == {"save_erase", "save_hdr", "save_body", "save_crc"}
Wiping == {"wipe_a", "wipe_b"}

-----------------------------------------------------------------------------
(* The record codec and the boot-time choice between the slots.            *)

\* decode_record: magic and length come with the header, and the CRC must be
\* that of the header and body found in the slot.
Valid(r) ==
  /\ r.hdr # Junk
  /\ r.body # Junk
  /\ r.crc = <<r.hdr, r.body>>

\* Mutant of BootSlot: the lower generation wins.
BootSlotOldest(f) ==
  IF Valid(f["A"]) /\ (Valid(f["B"]) => f["A"].hdr <= f["B"].hdr) THEN "A"
  ELSE IF Valid(f["B"]) THEN "B" ELSE "none"

\* boot_config_load: the valid slot of the higher generation, A on a tie.
BootSlot(f) ==
  IF Valid(f["A"]) /\ (Valid(f["B"]) => f["A"].hdr >= f["B"].hdr) THEN "A"
  ELSE IF Valid(f["B"]) THEN "B" ELSE "none"

BootGen(f) == IF BootSlot(f) = "none" THEN 0 ELSE f[BootSlot(f)].hdr

BootCfg(f) == IF BootSlot(f) = "none" THEN Defaults ELSE f[BootSlot(f)].body

\* Mutant of Target: the active slot is overwritten in place.
TargetInPlace(slot) == IF slot = "none" THEN "A" ELSE slot

\* cfg_save writes the slot that is not active; A when none is.
Target(slot) == IF slot = "A" THEN "B" ELSE "A"

NextGen(gen) == gen + 1

\* Mutant of RegsToCfg: the configuration loaded at boot is saved again.
RegsToCfgStale == BootCfg(flash)

\* regs_to_cfg: the thirteen persisted registers, as they are now.
RegsToCfg == regs

-----------------------------------------------------------------------------
Init ==
  /\ flash = [s \in Slot |-> Blank]
  /\ cfgSlot = "none" /\ cfgGen = 0
  /\ regs = Defaults
  /\ ctrl = <<>>
  /\ pc = "idle" /\ rec = NoRec
  /\ reqs = 0
  /\ committed = Defaults /\ unsure = {} /\ saved = {}
  /\ wiping = FALSE /\ want = Junk

-----------------------------------------------------------------------------
(* Front ends: Modbus, UDP, CAN, web and shell.                            *)

\* try_send(..).ok(): a full control lane drops the command silently.
TrySend(cmd) == ctrl' = IF Len(ctrl) < CtrlCap THEN Append(ctrl, cmd) ELSE ctrl

\* A configuration register is written without asking for a save.
WriteRegs(c) ==
  /\ pc = "idle" /\ c # regs
  /\ regs' = c
  /\ want' = Junk
  /\ UNCHANGED <<store, ctrl, reqs, committed, unsure, saved, wiping>>

\* SET_IP / SET_MODBUS and the CONFIG_SAVE register: the registers are (or
\* already were) set, the save is queued and the client gets its OK.
SetAndSave(c) ==
  /\ pc = "idle" /\ reqs < MaxRequests
  /\ reqs' = reqs + 1
  /\ regs' = c
  /\ TrySend("CfgSave")
  /\ want' = c
  /\ UNCHANGED <<store, committed, unsure, saved, wiping>>

\* FACTORY_RESET confirmed, or the shell's `factory`.
FactoryReset ==
  /\ pc = "idle" /\ reqs < MaxRequests
  /\ reqs' = reqs + 1
  /\ TrySend("CfgEraseAll")
  /\ want' = Junk
  /\ UNCHANGED <<store, regs, committed, unsure, saved, wiping>>

-----------------------------------------------------------------------------
(* The storage task.                                                       *)

\* Mutant of StartSave: the command is received and ignored.
StartSaveIgnored ==
  /\ pc = "idle" /\ ctrl # <<>> /\ Head(ctrl) = "CfgSave"
  /\ ctrl' = Tail(ctrl)
  /\ UNCHANGED <<store, regs, reqs, ghosts>>

\* cfg_save up to its first flash operation: REGS and CFG are read now, when
\* the command is processed, not when it was queued.
StartSave ==
  /\ pc = "idle" /\ ctrl # <<>> /\ Head(ctrl) = "CfgSave"
  /\ ctrl' = Tail(ctrl)
  /\ rec' = [tgt |-> Target(cfgSlot), gen |-> NextGen(cfgGen), cfg |-> RegsToCfg]
  /\ pc' = "save_erase"
  /\ unsure' = unsure \union {RegsToCfg}
  /\ saved' = saved \union {RegsToCfg}
  /\ UNCHANGED <<flash, cfgSlot, cfgGen, regs, reqs, committed, wiping, want>>

StartErase ==
  /\ pc = "idle" /\ ctrl # <<>> /\ Head(ctrl) = "CfgEraseAll"
  /\ ctrl' = Tail(ctrl)
  /\ pc' = "wipe_a"
  /\ want' = Junk
  /\ wiping' = TRUE
  /\ UNCHANGED <<flash, cfgSlot, cfgGen, regs, rec, reqs, committed, unsure, saved>>

Put(slot, part, v) == flash' = [flash EXCEPT ![slot][part] = v]

\* One `&&` operand of cfg_save that succeeds and leads to the next one.
SaveStep(here, next, write) ==
  /\ pc = here
  /\ write
  /\ pc' = next
  /\ UNCHANGED <<cfgSlot, cfgGen, rec, regs, ctrl, reqs, ghosts>>

SaveErase == SaveStep("save_erase", "save_hdr", flash' = [flash EXCEPT ![rec.tgt] = Blank])
SaveHdr == SaveStep("save_hdr", "save_body", Put(rec.tgt, "hdr", rec.gen))
SaveBody == SaveStep("save_body", "save_crc", Put(rec.tgt, "body", rec.cfg))

\* The last operand: the record becomes valid and CFG follows it.
SaveCrc ==
  /\ pc = "save_crc"
  /\ Put(rec.tgt, "crc", <<rec.gen, rec.cfg>>)
  /\ cfgSlot' = rec.tgt /\ cfgGen' = rec.gen
  /\ pc' = "idle" /\ rec' = NoRec
  /\ committed' = rec.cfg /\ unsure' = {}
  /\ wiping' = FALSE
  /\ UNCHANGED <<regs, ctrl, reqs, saved, want>>

\* What a flash operation that returns Err may have done to the slot: nothing
\* (write enable or SPI failed), all of it (the busy poll timed out on a chip
\* that finished later), or part of it.
AfterErr ==
  LET old == flash[rec.tgt] IN
  CASE pc = "save_erase" -> {old, Blank}
    [] pc = "save_hdr"   -> {old, [old EXCEPT !.hdr = rec.gen]}
    [] pc = "save_body"  -> {old, [old EXCEPT !.body = rec.cfg]}
    [] pc = "save_crc"   -> {old, [old EXCEPT !.crc = <<rec.gen, rec.cfg>>]}

\* An operand fails: the rest is skipped and CFG keeps its old value.
SaveFails ==
  /\ pc \in Saving
  /\ \E r \in AfterErr : flash' = [flash EXCEPT ![rec.tgt] = r]
  /\ pc' = "idle" /\ rec' = NoRec
  /\ want' = Junk
  /\ UNCHANGED <<cfgSlot, cfgGen, regs, ctrl, reqs, committed, unsure, saved, wiping>>

\* cfg_erase_all, first operand.
WipeA ==
  /\ pc = "wipe_a"
  /\ flash' = [flash EXCEPT !["A"] = Blank]
  /\ pc' = "wipe_b"
  /\ UNCHANGED <<cfgSlot, cfgGen, rec, regs, ctrl, reqs, ghosts>>

\* Second operand: both slots are blank, CFG and REGS go back to factory.
WipeB ==
  /\ pc = "wipe_b"
  /\ flash' = [flash EXCEPT !["B"] = Blank]
  /\ cfgSlot' = "none" /\ cfgGen' = 0
  /\ regs' = Defaults
  /\ pc' = "idle"
  /\ committed' = Defaults /\ unsure' = {} /\ wiping' = FALSE
  /\ UNCHANGED <<rec, ctrl, reqs, saved, want>>

\* An erase fails: CFG and REGS are left as they were.
WipeFails ==
  /\ pc \in Wiping
  /\ LET s == IF pc = "wipe_a" THEN "A" ELSE "B"
     IN  \E r \in {flash[s], Blank} : flash' = [flash EXCEPT ![s] = r]
  /\ pc' = "idle"
  /\ UNCHANGED <<cfgSlot, cfgGen, rec, regs, ctrl, reqs, ghosts>>

\* Reset or power loss, then boot_config_load: RAM and queue are gone.
Reboot ==
  /\ cfgSlot' = BootSlot(flash) /\ cfgGen' = BootGen(flash)
  /\ regs' = BootCfg(flash)
  /\ ctrl' = <<>>
  /\ pc' = "idle" /\ rec' = NoRec
  /\ committed' = BootCfg(flash) /\ unsure' = {} /\ wiping' = FALSE
  /\ want' = Junk
  /\ UNCHANGED <<flash, reqs, saved>>

StorageTask ==
  \/ StartSave \/ SaveErase \/ SaveHdr \/ SaveBody \/ SaveCrc \/ SaveFails
  \/ StartErase \/ WipeA \/ WipeB \/ WipeFails

Next ==
  \/ \E c \in Cfg : WriteRegs(c) \/ SetAndSave(c)
  \/ FactoryReset
  \/ StorageTask
  \/ Reboot

Spec == Init /\ [][Next]_vars

\* The executor polls the storage task whenever a command is queued, and the
\* task never waits inside a command.
FairSpec == Spec /\ WF_vars(StorageTask)

-----------------------------------------------------------------------------
(* Properties.                                                             *)

RecordType ==
  [hdr : Nat \union {Junk}, body : Cfg \union {Junk}, crc : (Nat \X Cfg) \union {Junk}]

\* Every variable has its type.
TypeOK ==
  /\ flash \in [Slot -> RecordType]
  /\ cfgSlot \in Slot \union {"none"} /\ cfgGen \in Nat
  /\ regs \in Cfg
  /\ ctrl \in Seq({"CfgSave", "CfgEraseAll"}) /\ Len(ctrl) <= CtrlCap
  /\ pc \in {"idle"} \union Saving \union Wiping
  /\ rec \in [tgt : Slot, gen : Nat, cfg : Cfg]
  /\ reqs \in 0..MaxRequests
  /\ committed \in Cfg /\ unsure \subseteq Cfg /\ saved \subseteq Cfg
  /\ wiping \in BOOLEAN /\ want \in Cfg \union {Junk}

\* Unless a factory erase was cut short, a reset at any instant (inside a save
\* included, after any number of failed saves) makes boot_config_load load the
\* last committed configuration or one whose save was under way since.
DurableConfig == ~wiping => BootCfg(flash) \in {committed} \union unsure

\* Even a factory erase that was cut short between its two slots leaves a
\* configuration some save wrote, or the defaults: no half-written record is
\* ever loaded.
NoTornConfig == BootCfg(flash) \in saved \union {Defaults}

\* CFG, the RAM copy that chooses the next target slot, agrees with the flash:
\* the active slot holds the committed record under CFG's generation, and no
\* other loadable record outranks the generation the next save will use.
CfgMatchesFlash ==
  /\ cfgSlot \in Slot /\ ~wiping =>
       /\ Valid(flash[cfgSlot])
       /\ flash[cfgSlot].hdr = cfgGen
       /\ flash[cfgSlot].body = committed
  /\ \A s \in Slot \ {Target(cfgSlot)} : Valid(flash[s]) => flash[s].hdr < cfgGen + 1

\* Two loadable records never carry the same generation, so the tie rule of
\* boot_config_load never decides.
NoGenerationTie ==
  Valid(flash["A"]) /\ Valid(flash["B"]) => flash["A"].hdr # flash["B"].hdr

\* Saves may be dropped by a full CTRL_QUEUE and still none is lost: once the
\* control lane is drained, what a client was last told is saved is committed,
\* because the queued saves read REGS when they run (`want` is withdrawn by a
\* later register write, a factory erase, a flash error and a reset).
DrainedMeansSaved == ctrl = <<>> /\ pc = "idle" /\ want # Junk => committed = want

\* And the lane does drain: an acknowledged save reaches the flash.
AckedSaveCommitted == \A c \in Cfg : want = c ~> (committed = c \/ want # c)

-----------------------------------------------------------------------------
(* What the store implements: see ConfigRegister.                          *)
Register == INSTANCE ConfigRegister WITH durable <- BootCfg(flash)

\* The slots, generations and torn writes implement a register whose durable
\* value changes in one step.
RegisterSpec == Register!Spec

=============================================================================
