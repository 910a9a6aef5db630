--------------------------- MODULE ConfigRegister ---------------------------
(***************************************************************************)
(* What the configuration store promises its clients: a register file      *)
(* (regs) beside one durable value, the one the next boot loads.  A save   *)
(* replaces the durable value in one step; a save that reports an error    *)
(* may have replaced it or not; only a factory erase may, while it is      *)
(* under way, bring back an earlier saved value.                           *)
(***************************************************************************)
CONSTANTS Cfg, Defaults

VARIABLES
  regs,       \* the running configuration
  durable,    \* what a reset at this instant would load
  committed,  \* what the last completed operation made durable
  saved,      \* every value a save was started for
  wiping      \* a factory erase is incomplete

vars == <<regs, durable, committed, saved, wiping>>

Init ==
  /\ regs = Defaults /\ durable = Defaults /\ committed = Defaults
  /\ saved = {} /\ wiping = FALSE

Write == regs' \in Cfg /\ UNCHANGED <<durable, committed, saved, wiping>>

BeginSave == saved' = saved \union {regs} /\ UNCHANGED <<regs, durable, committed, wiping>>

\* The save takes effect and is reported.
Save ==
  /\ durable' = regs /\ committed' = regs /\ wiping' = FALSE
  /\ UNCHANGED <<regs, saved>>

\* The save takes effect although it is reported as failed...
UnreportedSave == durable' = regs /\ UNCHANGED <<regs, committed, saved, wiping>>

\* ...and is undone when the next save reuses its slot.
UndoUnreported == ~wiping /\ durable' = committed /\ UNCHANGED <<regs, committed, saved, wiping>>

BeginErase == wiping' = TRUE /\ UNCHANGED <<regs, durable, committed, saved>>

\* Part of an incomplete factory erase, or of a save that follows one.
PartialErase ==
  /\ wiping
  /\ durable' \in saved \union {Defaults}
  /\ UNCHANGED <<regs, committed, saved, wiping>>

Erase ==
  /\ wiping
  /\ regs' = Defaults /\ durable' = Defaults /\ committed' = Defaults
  /\ wiping' = FALSE
  /\ UNCHANGED saved

\* A reset loads the durable value and changes nothing durable.
Reboot ==
  /\ regs' = durable /\ committed' = durable /\ wiping' = FALSE
  /\ UNCHANGED <<durable, saved>>

Next ==
  \/ Write \/ BeginSave \/ Save \/ UnreportedSave \/ UndoUnreported
  \/ BeginErase \/ PartialErase \/ Erase \/ Reboot

Spec == Init /\ [][Next]_vars
=============================================================================
