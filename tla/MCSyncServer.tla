----------------------------- MODULE MCSyncServer -----------------------------
(* A mirror with two operations and two ids, small sessions, three of them. *)
EXTENDS SyncServer
=============================================================================
