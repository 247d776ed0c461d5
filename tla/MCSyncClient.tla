----------------------------- MODULE MCSyncClient -----------------------------
(* One source with two ids and a few operations; everything may fail.       *)
EXTENDS SyncClient
=============================================================================
