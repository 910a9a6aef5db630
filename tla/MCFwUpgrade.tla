----------------------------- MODULE MCFwUpgrade -----------------------------
(* Small instances of FwUpgrade.                                           *)
EXTENDS FwUpgrade
=============================================================================
