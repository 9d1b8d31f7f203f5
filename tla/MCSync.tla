------------------------------- MODULE MCSync -------------------------------
(* Small instances of SyncService.                                         *)
EXTENDS SyncService

CONSTANTS d1, p1, p2, u1, u2, h1, h2
=============================================================================
