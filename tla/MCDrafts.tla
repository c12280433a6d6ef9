------------------------------ MODULE MCDrafts ------------------------------
(* Instance of Drafts for TLC.                                             *)
EXTENDS Drafts, TLC

Symmetry == Permutations(Workers) \cup Permutations(Users)
=============================================================================
