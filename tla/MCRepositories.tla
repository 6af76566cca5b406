--------------------------- MODULE MCRepositories ---------------------------
(* Two accounts, two clock readings per millisecond, all workloads. *)
EXTENDS Repositories

MCWorkloads == {"records", "children", "chats", "registry"}

MCUsers == {Me, Other}
=============================================================================
