---------------------------- MODULE MCSyncSession -----------------------------
(* One source and one mirror, two operations, a few crashes.                *)
EXTENDS SyncSession
=============================================================================
