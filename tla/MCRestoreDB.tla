---------------------------- MODULE MCRestoreDB ----------------------------
(* Instances of RestoreDB: commands are interchangeable. *)
EXTENDS RestoreDB, TLC

Symmetry == Permutations(Proc)
=============================================================================
