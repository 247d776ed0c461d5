----------------------------- MODULE MCLogSwitch ------------------------------
(* Two operations, three clients, one fault.                                *)
EXTENDS LogSwitch
=============================================================================
