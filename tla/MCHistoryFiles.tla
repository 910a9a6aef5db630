---------------------------- MODULE MCHistoryFiles ----------------------------
(* Small instances of HistoryFiles for TLC.                                *)
EXTENDS HistoryFiles

\* The behaviours in which the clock is never set back.
ForwardSpec == Init /\ [][Next /\ clock' >= clock]_vars
=============================================================================
