---------------------------- MODULE MCRecordLock ----------------------------
(* Instances of Lab7's model for TLC. *)
EXTENDS RecordLockProperties, TLC

Symmetry == Permutations(Procs)
=============================================================================
