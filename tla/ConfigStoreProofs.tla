-------------------------- MODULE ConfigStoreProofs --------------------------
(***************************************************************************)
(* Proofs about ConfigStore, for every set of configurations and every     *)
(* queue capacity.  IInv is the inductive invariant: it says, beyond the   *)
(* properties, which field of the target slot each step of a save has      *)
(* already written and how the two generations relate to CFG's.            *)
(***************************************************************************)
EXTENDS ConfigStore, TLAPS

\* Every loadable record holds a config some save was started for.
RecordsSaved == \A s \in Slot : Valid(flash[s]) => flash[s].body \in saved

\* The active slot, when loadable, is the committed record; it is loadable
\* unless a factory erase was cut short.  With no active slot, B is blank.
ActiveRecord ==
  /\ cfgSlot \in Slot =>
       /\ ~wiping => Valid(flash[cfgSlot])
       /\ Valid(flash[cfgSlot]) => flash[cfgSlot].hdr = cfgGen /\ flash[cfgSlot].body = committed
  /\ cfgSlot = "none" => ~Valid(flash["B"]) /\ cfgGen = 0 /\ committed = Defaults

\* The other slot is older, or holds a save that did not complete.
PeerRecord ==
  LET p == flash[Target(cfgSlot)] IN
  Valid(p) => p.hdr < cfgGen \/ (p.hdr = cfgGen + 1 /\ p.body \in unsure)

\* What a save in progress has computed and already written.
SaveProgress ==
  /\ pc \in Saving =>
       /\ rec.tgt = Target(cfgSlot) /\ rec.gen = cfgGen + 1 /\ rec.cfg = regs
       /\ regs \in unsure /\ regs \in saved
  /\ pc = "save_hdr" => flash[rec.tgt] = Blank
  /\ pc = "save_body" => flash[rec.tgt] = [hdr |-> rec.gen, body |-> Junk, crc |-> Junk]
  /\ pc = "save_crc" => flash[rec.tgt] = [hdr |-> rec.gen, body |-> rec.cfg, crc |-> Junk]

WipeProgress ==
  /\ pc \in Wiping => wiping /\ want = Junk
  /\ pc = "wipe_b" => flash["A"] = Blank

\* What the client was told: `want` is what REGS hold until it is withdrawn.
WantProgress ==
  /\ want # Junk => want = regs
  /\ DrainedMeansSaved

IInv ==
  /\ TypeOK /\ RecordsSaved /\ ActiveRecord /\ PeerRecord
  /\ SaveProgress /\ WipeProgress /\ WantProgress

-----------------------------------------------------------------------------
(* Type correctness.                                                       *)

USE DEF Slot, Blank, NoRec, Saving, Wiping, store, ghosts

LEMMA BootTypes ==
  ASSUME ConfigAssumption, flash \in [Slot -> RecordType]
  PROVE  /\ BootSlot(flash) \in Slot \union {"none"}
         /\ BootGen(flash) \in Nat
         /\ BootCfg(flash) \in Cfg
  BY DEF ConfigAssumption, RecordType, Valid, BootSlot, BootGen, BootCfg

LEMMA EmptyLane ==
  ASSUME ConfigAssumption
  PROVE  <<>> \in Seq({"CfgSave", "CfgEraseAll"}) /\ Len(<<>>) <= CtrlCap
<1>1. Len(<<>>) = 0
  OBVIOUS
<1>2. <<>> \in Seq({"CfgSave", "CfgEraseAll"})
  OBVIOUS
<1>3. QED
  BY <1>1, <1>2 DEF ConfigAssumption

LEMMA TypeStep == TypeOK /\ [Next]_vars => TypeOK'
<1> SUFFICES ASSUME TypeOK, [Next]_vars PROVE TypeOK'
  OBVIOUS
<1> USE ConfigAssumption DEF ConfigAssumption, TypeOK, RecordType
<1>1. ASSUME NEW c \in Cfg, WriteRegs(c) PROVE TypeOK'
  BY <1>1 DEF WriteRegs
<1>2. ASSUME NEW c \in Cfg, SetAndSave(c) PROVE TypeOK'
  BY <1>2 DEF SetAndSave, TrySend
<1>3. CASE FactoryReset
  BY <1>3 DEF FactoryReset, TrySend
<1>4. CASE StartSave
  BY <1>4 DEF StartSave, Target, NextGen, RegsToCfg
<1>5. CASE SaveErase
  BY <1>5 DEF SaveErase, SaveStep
<1>6. CASE SaveHdr
  BY <1>6 DEF SaveHdr, SaveStep, Put
<1>7. CASE SaveBody
  BY <1>7 DEF SaveBody, SaveStep, Put
<1>8. CASE SaveCrc
  <2>1. flash' \in [Slot -> RecordType]
    BY <1>8 DEF SaveCrc, Put
  <2>2. cfgSlot' \in Slot \union {"none"} /\ cfgGen' \in Nat /\ committed' \in Cfg
    BY <1>8 DEF SaveCrc
  <2>3. rec' \in [tgt : Slot, gen : Nat, cfg : Cfg]
    BY <1>8 DEF SaveCrc
  <2>4. pc' \in {"idle"} /\ unsure' \subseteq Cfg /\ wiping' \in BOOLEAN
    BY <1>8, Zenon DEF SaveCrc
  <2>5. UNCHANGED <<regs, ctrl, reqs, saved, want>>
    BY <1>8 DEF SaveCrc
  <2> QED BY <2>1, <2>2, <2>3, <2>4, <2>5
<1>9. CASE SaveFails
  BY <1>9, SMTT(40), ZenonT(20) DEF SaveFails, AfterErr
<1>10. CASE StartErase
  BY <1>10 DEF StartErase
<1>11. CASE WipeA
  BY <1>11 DEF WipeA
<1>12. CASE WipeB
  BY <1>12, Zenon DEF WipeB
<1>13. CASE WipeFails
  BY <1>13 DEF WipeFails
<1>14. CASE Reboot
  BY <1>14, BootTypes, EmptyLane, Zenon DEF Reboot
<1>15. CASE UNCHANGED vars
  BY <1>15 DEF vars
<1>16. QED
  BY SMTT(40), ZenonT(20), <1>1, <1>2, <1>3, <1>4, <1>5, <1>6, <1>7, <1>8, <1>9, <1>10, <1>11,
     <1>12, <1>13, <1>14, <1>15 DEF Next, StorageTask

LEMMA TypeInit == Init => TypeOK
<1> SUFFICES ASSUME Init PROVE TypeOK
  OBVIOUS
<1> USE ConfigAssumption DEF Init, ConfigAssumption
<1>1. flash \in [Slot -> RecordType]
  BY DEF RecordType
<1>2. ctrl \in Seq({"CfgSave", "CfgEraseAll"}) /\ Len(ctrl) <= CtrlCap
  BY EmptyLane
<1>3. rec \in [tgt : Slot, gen : Nat, cfg : Cfg] /\ reqs \in 0..MaxRequests
  OBVIOUS
<1>4. /\ cfgSlot \in Slot \union {"none"} /\ cfgGen \in Nat /\ regs \in Cfg
      /\ pc \in {"idle"} \union Saving \union Wiping
      /\ committed \in Cfg /\ unsure \subseteq Cfg /\ saved \subseteq Cfg
      /\ wiping \in BOOLEAN /\ want \in Cfg \union {Junk}
  BY Zenon
<1>5. QED
  BY <1>1, <1>2, <1>3, <1>4 DEF TypeOK

\* Every reachable state of the store has its type, the bound on CTRL_QUEUE
\* included.
THEOREM TypeCorrect == Spec => []TypeOK
  BY TypeInit, TypeStep, PTL DEF Spec

-----------------------------------------------------------------------------
(* The inductive invariant.                                                *)

LEMMA GenerationsDiffer == IInv => NoGenerationTie
  BY DEF IInv, TypeOK, RecordType, ActiveRecord, PeerRecord, NoGenerationTie, Valid, Target

LEMMA BootOutranksPeer ==
  ASSUME flash \in [Slot -> RecordType], NoGenerationTie, ConfigAssumption
  PROVE  Valid(flash[Target(BootSlot(flash))]) =>
           flash[Target(BootSlot(flash))].hdr < BootGen(flash)
<1> SUFFICES ASSUME Valid(flash[Target(BootSlot(flash))])
             PROVE  flash[Target(BootSlot(flash))].hdr < BootGen(flash)
  OBVIOUS
<1>1. \A s \in Slot : Valid(flash[s]) => flash[s].hdr \in Nat
  BY DEF RecordType, Valid
<1>2. CASE BootSlot(flash) = "A"
  <2>1. Valid(flash["B"]) /\ Valid(flash["A"]) /\ flash["A"].hdr >= flash["B"].hdr
    BY <1>2 DEF BootSlot, Target
  <2>2. QED
    BY <1>1, <1>2, <2>1 DEF BootGen, Target, NoGenerationTie
<1>3. CASE BootSlot(flash) = "B"
  <2>1. Valid(flash["A"]) /\ Valid(flash["B"]) /\ ~(flash["A"].hdr >= flash["B"].hdr)
    BY <1>3 DEF BootSlot, Target
  <2>2. QED
    BY <1>1, <1>3, <2>1 DEF BootGen, Target
<1>4. CASE BootSlot(flash) = "none"
  BY <1>4 DEF BootSlot, Target
<1>5. QED
  BY <1>2, <1>3, <1>4 DEF BootSlot

LEMMA IInvStep == IInv /\ [Next]_vars => IInv'
<1> SUFFICES ASSUME IInv, [Next]_vars PROVE IInv'
  OBVIOUS
<1>t. TypeOK'
  BY TypeStep DEF IInv
<1> USE <1>t, ConfigAssumption DEF ConfigAssumption, TypeOK, RecordType, Valid, Target,
    IInv, RecordsSaved, ActiveRecord, PeerRecord, SaveProgress, WipeProgress, WantProgress,
    DrainedMeansSaved
<1>1. ASSUME NEW c \in Cfg, WriteRegs(c) PROVE IInv'
  BY <1>1, SMTT(40), ZenonT(20) DEF WriteRegs
<1>2. ASSUME NEW c \in Cfg, SetAndSave(c) PROVE IInv'
  BY <1>2, SMTT(40), ZenonT(20) DEF SetAndSave, TrySend
<1>3. CASE FactoryReset
  BY <1>3, SMTT(40), ZenonT(20) DEF FactoryReset, TrySend
<1>4. CASE StartSave
  BY <1>4, SMTT(40), ZenonT(20) DEF StartSave, NextGen, RegsToCfg
<1>5. CASE SaveErase
  BY <1>5, SMTT(40), ZenonT(20) DEF SaveErase, SaveStep
<1>6. CASE SaveHdr
  BY <1>6, SMTT(40), ZenonT(20) DEF SaveHdr, SaveStep, Put
<1>7. CASE SaveBody
  BY <1>7, SMTT(40), ZenonT(20) DEF SaveBody, SaveStep, Put
<1>8. CASE SaveCrc
  BY <1>8, SMTT(40), ZenonT(20) DEF SaveCrc, Put
<1>9. CASE SaveFails
  BY <1>9, SMTT(40), ZenonT(20) DEF SaveFails, AfterErr
<1>10. CASE StartErase
  BY <1>10, SMTT(40), ZenonT(20) DEF StartErase
<1>11. CASE WipeA
  BY <1>11, SMTT(40), ZenonT(20) DEF WipeA
<1>12. CASE WipeB
  BY <1>12, SMTT(40), ZenonT(20) DEF WipeB
<1>13. CASE WipeFails
  BY <1>13, SMTT(40), ZenonT(20) DEF WipeFails
<1>14. CASE Reboot
  <2>1. flash' = flash /\ saved' = saved /\ NoGenerationTie
    BY <1>14, GenerationsDiffer DEF Reboot
  <2>2. RecordsSaved'
    BY <2>1, SMTT(40), ZenonT(20)
  <2>3. SaveProgress' /\ WipeProgress' /\ WantProgress'
    BY <1>14, SMTT(40), ZenonT(20) DEF Reboot
  <2>4. /\ cfgSlot' = BootSlot(flash) /\ cfgGen' = BootGen(flash)
        /\ committed' = BootCfg(flash)
    BY <1>14, SMTT(40), ZenonT(20) DEF Reboot
  <2>5. ActiveRecord'
    BY <2>1, <2>4, Zenon DEF BootSlot, BootGen, BootCfg
  <2>6. PeerRecord'
    BY <2>1, <2>4, BootOutranksPeer, SMTT(40), ZenonT(20)
  <2>7. QED
    BY <2>2, <2>3, <2>5, <2>6, Zenon
<1>15. CASE UNCHANGED vars
  BY <1>15 DEF vars
<1>16. QED
  BY Zenon, <1>1, <1>2, <1>3, <1>4, <1>5, <1>6, <1>7, <1>8, <1>9, <1>10, <1>11,
     <1>12, <1>13, <1>14, <1>15 DEF Next, StorageTask

LEMMA IInvInit == Init => IInv
<1> SUFFICES ASSUME Init PROVE IInv
  OBVIOUS
<1>1. TypeOK
  BY TypeInit
<1>2. RecordsSaved /\ ActiveRecord /\ PeerRecord
  BY DEF Init, RecordsSaved, ActiveRecord, PeerRecord, Valid, Target
<1>3. SaveProgress /\ WipeProgress /\ WantProgress
  BY DEF Init, SaveProgress, WipeProgress, WantProgress, DrainedMeansSaved
<1>4. QED
  BY <1>1, <1>2, <1>3 DEF IInv

LEMMA IInvHolds == Spec => []IInv
  BY IInvInit, IInvStep, PTL DEF Spec

LEMMA IInvImplies ==
  IInv => DurableConfig /\ NoTornConfig /\ CfgMatchesFlash /\ DrainedMeansSaved
<1> SUFFICES ASSUME IInv PROVE DurableConfig /\ NoTornConfig /\ CfgMatchesFlash /\ DrainedMeansSaved
  BY SMTT(40), ZenonT(20)
<1> USE ConfigAssumption DEF ConfigAssumption, IInv, TypeOK, RecordType, Valid, Target,
    RecordsSaved, ActiveRecord, PeerRecord
<1>1. DurableConfig
  BY SMTT(40), ZenonT(20) DEF DurableConfig, BootSlot, BootCfg
<1>2. NoTornConfig
  BY DEF NoTornConfig, BootSlot, BootCfg
<1>3. CfgMatchesFlash
  BY DEF CfgMatchesFlash
<1>4. QED
  BY <1>1, <1>2, <1>3 DEF WantProgress

\* A reset at any instant loads the last committed configuration or one whose
\* save was under way, unless a factory erase was cut short.
THEOREM Durable == Spec => []DurableConfig
  BY IInvHolds, IInvImplies, PTL

\* No half-written record is ever loaded, a cut-short factory erase included.
THEOREM NothingTorn == Spec => []NoTornConfig
  BY IInvHolds, IInvImplies, PTL

\* The RAM copy CFG always describes the flash, so that a save never targets
\* the slot holding the committed record.
THEOREM RamAgrees == Spec => []CfgMatchesFlash
  BY IInvHolds, IInvImplies, PTL

\* The tie rule of boot_config_load never decides.
THEOREM NoTie == Spec => []NoGenerationTie
  BY IInvHolds, GenerationsDiffer, PTL

\* Dropping a save on a full CTRL_QUEUE loses nothing: when the lane is drained
\* the last acknowledged configuration is committed.
THEOREM NoSaveLost == Spec => []DrainedMeansSaved
  BY IInvHolds, IInvImplies, PTL

-----------------------------------------------------------------------------
(* The store implements ConfigRegister, with durable <- BootCfg(flash).    *)

\* Rewriting a slot that is not loadable before or after changes no boot.
LEMMA InvalidSlotIrrelevant ==
  ASSUME NEW f \in [Slot -> RecordType], NEW s \in Slot, NEW r \in RecordType,
         ~Valid(f[s]), ~Valid(r)
  PROVE  BootCfg([f EXCEPT ![s] = r]) = BootCfg(f)
<1>1. CASE s = "A"
  BY <1>1 DEF BootCfg, BootSlot
<1>2. CASE s = "B"
  BY <1>2 DEF BootCfg, BootSlot
<1>3. QED
  BY <1>1, <1>2

\* With the target slot blank, the committed record is what boots.
LEMMA CommittedBoots ==
  ASSUME ConfigAssumption, IInv, ~wiping
  PROVE  BootCfg([flash EXCEPT ![Target(cfgSlot)] = Blank]) = committed
<1>1. ~Valid(Blank)
  BY DEF Valid
<1>2. CASE cfgSlot = "none"
  BY <1>1, <1>2 DEF IInv, TypeOK, ActiveRecord, Target, BootCfg, BootSlot
<1>3. CASE cfgSlot \in Slot
  BY <1>1, <1>3 DEF IInv, TypeOK, ActiveRecord, Target, BootCfg, BootSlot
<1>4. QED
  BY <1>2, <1>3 DEF IInv, TypeOK

\* A complete record in the target slot outranks the active one.
LEMMA NewRecordBoots ==
  ASSUME ConfigAssumption, IInv, NEW r \in RecordType, Valid(r), r.hdr = cfgGen + 1
  PROVE  BootCfg([flash EXCEPT ![Target(cfgSlot)] = r]) = r.body
<1>1. cfgGen \in Nat /\ flash \in [Slot -> RecordType]
  BY DEF IInv, TypeOK
<1>2. CASE cfgSlot = "none"
  BY <1>1, <1>2 DEF IInv, ActiveRecord, Target, BootCfg, BootSlot
<1>3. CASE cfgSlot = "A"
  BY <1>1, <1>3 DEF IInv, ActiveRecord, Target, BootCfg, BootSlot
<1>4. CASE cfgSlot = "B"
  BY <1>1, <1>4 DEF IInv, ActiveRecord, Target, BootCfg, BootSlot
<1>5. QED
  BY <1>2, <1>3, <1>4 DEF IInv, TypeOK

\* Blanking a slot leaves a saved configuration or the defaults.
LEMMA BlankingLeavesSaved ==
  ASSUME IInv, NEW s \in Slot
  PROVE  BootCfg([flash EXCEPT ![s] = Blank]) \in saved \union {Defaults}
<1>1. ~Valid(Blank)
  BY DEF Valid
<1>2. CASE s = "A"
  BY <1>1, <1>2 DEF IInv, TypeOK, RecordsSaved, BootCfg, BootSlot
<1>3. CASE s = "B"
  BY <1>1, <1>3 DEF IInv, TypeOK, RecordsSaved, BootCfg, BootSlot
<1>4. QED
  BY <1>2, <1>3

\* What erasing the target slot of a save does to the register.
LEMMA TargetErased ==
  ASSUME ConfigAssumption, IInv, flash' = [flash EXCEPT ![Target(cfgSlot)] = Blank],
         UNCHANGED <<regs, committed, saved, wiping>>
  PROVE  Register!Next
<1>1. CASE wiping
  <2>1. BootCfg(flash)' \in saved \union {Defaults}
    BY BlankingLeavesSaved DEF Target, BootCfg, BootSlot
  <2>2. QED
    BY <1>1, <2>1 DEF Register!Next, Register!PartialErase
<1>2. CASE ~wiping
  <2>1. BootCfg(flash)' = committed
    BY <1>2, CommittedBoots DEF BootCfg, BootSlot
  <2>2. QED
    BY <1>2, <2>1 DEF Register!Next, Register!UndoUnreported
<1>3. QED
  BY <1>1, <1>2

LEMMA RegisterStep == IInv /\ [Next]_vars => [Register!Next]_(Register!vars)
<1> SUFFICES ASSUME IInv, [Next]_vars PROVE [Register!Next]_(Register!vars)
  OBVIOUS
<1> USE ConfigAssumption
<1>a. flash \in [Slot -> RecordType] /\ cfgSlot \in Slot \union {"none"}
  BY DEF IInv, TypeOK
<1>b. ASSUME flash' = flash PROVE BootCfg(flash)' = BootCfg(flash)
  BY <1>b DEF BootCfg, BootSlot
<1>c. rec.tgt \in Slot /\ rec.gen \in Nat /\ rec.cfg \in Cfg
  BY DEF IInv, TypeOK
<1>d. IInv'
  BY IInvStep
<1>1. ASSUME NEW c \in Cfg, WriteRegs(c) \/ SetAndSave(c) PROVE Register!Next
  BY <1>1, <1>b DEF WriteRegs, SetAndSave, Register!Next, Register!Write
<1>2. CASE FactoryReset
  BY <1>2, <1>b DEF FactoryReset, Register!vars
<1>3. CASE StartSave
  BY <1>3, <1>b DEF StartSave, RegsToCfg, Register!Next, Register!BeginSave
<1>4. CASE SaveErase
  BY <1>4, TargetErased, Zenon DEF SaveErase, SaveStep, IInv, SaveProgress
<1>5. CASE SaveHdr \/ SaveBody
  <2>1. flash' = [flash EXCEPT ![rec.tgt] = flash'[rec.tgt]]
    BY <1>5, <1>a, <1>c DEF SaveHdr, SaveBody, SaveStep, Put
  <2>2. ~Valid(flash[rec.tgt]) /\ ~Valid(flash'[rec.tgt])
    <3>1. \/ flash[rec.tgt] = Blank
          \/ flash[rec.tgt] = [hdr |-> rec.gen, body |-> Junk, crc |-> Junk]
      BY <1>5 DEF SaveHdr, SaveBody, SaveStep, IInv, SaveProgress
    <3>2. \/ flash'[rec.tgt] = [hdr |-> rec.gen, body |-> Junk, crc |-> Junk]
          \/ flash'[rec.tgt] = [hdr |-> rec.gen, body |-> rec.cfg, crc |-> Junk]
      BY <1>5, <1>d DEF SaveHdr, SaveBody, SaveStep, IInv, SaveProgress
    <3>3. QED
      BY <1>c, <3>1, <3>2 DEF Valid, ConfigAssumption
  <2>3. flash'[rec.tgt] \in RecordType
    BY <1>c, <1>d DEF IInv, TypeOK
  <2>4. BootCfg(flash)' = BootCfg(flash)
    BY <1>a, <1>c, <2>1, <2>2, <2>3, InvalidSlotIrrelevant DEF BootCfg, BootSlot
  <2>5. QED
    BY <1>5, <2>4 DEF SaveHdr, SaveBody, SaveStep, Register!vars
<1>6. ASSUME pc = "save_crc", Put(rec.tgt, "crc", <<rec.gen, rec.cfg>>)
      PROVE  BootCfg(flash)' = regs
  <2> DEFINE r == [hdr |-> rec.gen, body |-> rec.cfg, crc |-> <<rec.gen, rec.cfg>>]
  <2>1. flash[rec.tgt] = [hdr |-> rec.gen, body |-> rec.cfg, crc |-> Junk]
    BY <1>6 DEF IInv, SaveProgress
  <2>2. flash' = [flash EXCEPT ![rec.tgt] = r]
    <3>1. [flash[rec.tgt] EXCEPT !["crc"] = <<rec.gen, rec.cfg>>] = r
      BY <2>1
    <3>2. flash' = [flash EXCEPT ![rec.tgt] = [flash[rec.tgt] EXCEPT !["crc"] = <<rec.gen, rec.cfg>>]]
      BY <1>6, <1>a, <1>c DEF Put
    <3>3. QED
      BY <3>1, <3>2, Zenon
  <2>3. r \in RecordType /\ Valid(r)
    <3>1. rec.gen # Junk /\ rec.cfg # Junk
      BY <1>c DEF ConfigAssumption
    <3>2. <<rec.gen, rec.cfg>> \in Nat \X Cfg
      BY <1>c
    <3>3. r \in RecordType
      BY <1>c, <3>2 DEF RecordType
    <3>4. QED
      BY <3>1, <3>3 DEF Valid
  <2>4. rec.tgt = Target(cfgSlot) /\ rec.gen = cfgGen + 1 /\ rec.cfg = regs
    BY <1>6 DEF IInv, SaveProgress
  <2>5. BootCfg([flash EXCEPT ![Target(cfgSlot)] = r]) = r.body
    <3> HIDE DEF r
    <3> r.hdr = cfgGen + 1
      BY <2>4 DEF r
    <3> QED
      BY <2>3, NewRecordBoots
  <2>6. QED
    BY <2>2, <2>4, <2>5 DEF BootCfg, BootSlot
<1>7. CASE SaveCrc
  <2>1. BootCfg(flash)' = regs /\ rec.cfg = regs
    BY <1>7, <1>6 DEF SaveCrc, IInv, SaveProgress
  <2>2. QED
    BY <1>7, <2>1 DEF SaveCrc, Register!Next, Register!Save
<1>8. CASE SaveFails
  <2>1. UNCHANGED <<regs, committed, saved, wiping>>
    BY <1>8 DEF SaveFails
  <2>2. PICK r \in AfterErr : flash' = [flash EXCEPT ![rec.tgt] = r]
    BY <1>8, Zenon DEF SaveFails
  <2>3. CASE r = flash[rec.tgt]
    BY <1>a, <1>b, <1>c, <2>1, <2>2, <2>3 DEF Register!vars
  <2>4. CASE pc = "save_erase" /\ r = Blank
    BY <2>1, <2>2, <2>4, TargetErased, Zenon DEF IInv, SaveProgress
  <2>5. CASE /\ pc \in {"save_hdr", "save_body"}
             /\ r \in {[flash[rec.tgt] EXCEPT !.hdr = rec.gen], [flash[rec.tgt] EXCEPT !.body = rec.cfg]}
    <3>1. flash[rec.tgt] \in RecordType /\ flash[rec.tgt].crc = Junk
      BY <1>a, <1>c, <2>5 DEF IInv, SaveProgress
    <3>2. ~Valid(flash[rec.tgt]) /\ ~Valid(r) /\ r \in RecordType
      BY <1>c, <2>5, <3>1 DEF Valid, RecordType, ConfigAssumption
    <3>3. BootCfg(flash)' = BootCfg(flash)
      BY <1>a, <1>c, <2>2, <3>2, InvalidSlotIrrelevant DEF BootCfg, BootSlot
    <3>4. QED
      BY <2>1, <3>3 DEF Register!vars
  <2>6. CASE pc = "save_crc" /\ r = [flash[rec.tgt] EXCEPT !.crc = <<rec.gen, rec.cfg>>]
    <3>1. Put(rec.tgt, "crc", <<rec.gen, rec.cfg>>)
      BY <1>a, <1>c, <2>2, <2>6, Zenon DEF Put
    <3>2. QED
      BY <1>6, <2>1, <2>6, <3>1 DEF Register!Next, Register!UnreportedSave
  <2>7. QED
    BY <1>8, <2>3, <2>4, <2>5, <2>6 DEF SaveFails, AfterErr
<1>10. CASE StartErase
  BY <1>10, <1>b DEF StartErase, Register!Next, Register!BeginErase
<1>11. CASE WipeA \/ WipeFails
  <2>1. wiping /\ UNCHANGED <<regs, committed, saved, wiping>>
    BY <1>11 DEF WipeA, WipeFails, IInv, WipeProgress
  <2>2. PICK s \in Slot : flash' = flash \/ flash' = [flash EXCEPT ![s] = Blank]
    BY <1>11, <1>a DEF WipeA, WipeFails
  <2>3. CASE flash' = flash
    BY <1>b, <2>1, <2>3 DEF Register!vars
  <2>4. CASE flash' = [flash EXCEPT ![s] = Blank]
    <3>1. BootCfg(flash)' \in saved \union {Defaults}
      BY <2>4, BlankingLeavesSaved DEF BootCfg, BootSlot
    <3>2. QED
      BY <2>1, <3>1 DEF Register!Next, Register!PartialErase
  <2>5. QED
    BY <2>2, <2>3, <2>4
<1>12. CASE WipeB
  <2>1. flash["A"] = Blank /\ wiping
    BY <1>12 DEF WipeB, IInv, WipeProgress
  <2>2. BootCfg(flash)' = Defaults
    BY <1>12, <1>a, <2>1 DEF WipeB, BootCfg, BootSlot, Valid
  <2>3. QED
    BY <1>12, <2>1, <2>2 DEF WipeB, Register!Next, Register!Erase
<1>14. CASE Reboot
  BY <1>14, <1>b DEF Reboot, Register!Next, Register!Reboot
<1>15. CASE UNCHANGED vars
  BY <1>15, <1>b DEF vars, Register!vars
<1>16. QED
  BY <1>1, <1>2, <1>3, <1>4, <1>5, <1>7, <1>8, <1>10, <1>11, <1>12, <1>14, <1>15
     DEF Next, StorageTask

\* The A/B slots with their generations, torn writes and failing operations
\* implement the one-step register of ConfigRegister.
THEOREM Implements == Spec => RegisterSpec
<1>1. Init => Register!Init
  BY DEF Init, Register!Init, BootCfg, BootSlot, Valid
<1>2. QED
  BY <1>1, IInvHolds, RegisterStep, PTL DEF Spec, RegisterSpec, Register!Spec

=============================================================================
