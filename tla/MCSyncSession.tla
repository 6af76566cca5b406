--------------------------- MODULE MCSyncSession ---------------------------
(* Instance of SyncSession: three processes of one host, one of whose pids *)
(* is used again, and one of another host that shares the directory.       *)
EXTENDS SyncSession

CONSTANTS a1, a2, a3, b1

TwoHosts == [p \in Proc |-> IF p = b1 THEN "B" ELSE "A"]
OneReused == [p \in Proc |-> IF p = a1 THEN 2 ELSE 1]
=============================================================================
