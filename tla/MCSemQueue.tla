----------------------------- MODULE MCSemQueue -----------------------------
(* Instances of lab5-1.c's model for TLC. *)
EXTENDS SemQueueProperties

\* Threads of one role are interchangeable; liveness runs do not use it.
Symmetry == Permutations(Producers) \cup Permutations(Consumers)
=============================================================================
