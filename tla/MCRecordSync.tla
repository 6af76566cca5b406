---------------------------- MODULE MCRecordSync ----------------------------
(* Instances of RecordSync: devices, and figure names, are interchangeable. *)
EXTENDS RecordSync, TLC

Symmetry == Permutations(Device) \cup Permutations(Figure)
=============================================================================
