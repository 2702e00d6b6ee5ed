------------------------------ MODULE MCLClass ------------------------------
(* LClass for TLC: every arrangement of a few nodes in two threads' lists. *)
EXTENDS LClass, TLC

Symmetry == Permutations(Threads)
=============================================================================
