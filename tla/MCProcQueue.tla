---------------------------- MODULE MCProcQueue ----------------------------
(* Instances of Lab4's model for TLC. *)
EXTENDS ProcQueueProperties, TLC

\* Processes of one role are interchangeable; liveness runs do not use it.
Symmetry == Permutations(Producers) \cup Permutations(Consumers)
=============================================================================
