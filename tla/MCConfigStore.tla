--------------------------- MODULE MCConfigStore ---------------------------
(* Small instances of ConfigStore for TLC.                                 *)
EXTENDS ConfigStore
=============================================================================
