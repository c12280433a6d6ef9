----------------------------- MODULE MCAccounts -----------------------------
(* Instances of Accounts for TLC: the symmetry of the threads, and the      *)
(* offset of the server's local clock.                                      *)
EXTENDS Accounts, TLC

WorkerSymmetry == Permutations(Workers)

West == -1
Asuncion == -4
=============================================================================
