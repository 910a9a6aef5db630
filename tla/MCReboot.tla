------------------------------ MODULE MCReboot ------------------------------
(* Instances of Reboot whose uptime passes the wrap of now_ms.              *)
EXTENDS Reboot
=============================================================================
