--------------------------- MODULE MCSyncService ---------------------------
(* A small instance of the synchronization service, whose calls run and leave. *)
EXTENDS SyncService

CONSTANTS c1, c2

Leaving == [c \in Calls |-> {"sync", "disconnect"}]
=============================================================================
