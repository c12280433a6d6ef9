---------------------------- MODULE MCPriorities ----------------------------
(* Instances of Priorities for TLC: the symmetry of the threads.           *)
EXTENDS Priorities, TLC

WorkerSymmetry == Permutations(Workers)
=============================================================================
