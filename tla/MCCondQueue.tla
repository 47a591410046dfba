---------------------------- MODULE MCCondQueue ----------------------------
(* Instances of lab5-2.c's model for TLC. *)
EXTENDS CondQueueProperties, TLC

\* Threads of one role are interchangeable; liveness runs do not use it.
Symmetry == Permutations(Producers) \cup Permutations(Consumers)
=============================================================================
