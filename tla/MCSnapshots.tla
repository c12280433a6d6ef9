---------------------------- MODULE MCSnapshots ----------------------------
(* Instances of Snapshots for TLC: the symmetry of the threads.            *)
EXTENDS Snapshots, TLC

WorkerSymmetry == Permutations(Workers)
=============================================================================
