------------------------------ MODULE MCNetwork ------------------------------
(* Network for TLC: threads are interchangeable.                           *)
EXTENDS Network, TLC

Symmetry == Permutations(Workers)
=============================================================================
