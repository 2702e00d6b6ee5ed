----------------------------- MODULE MCMutator ------------------------------
(* Mutator for TLC: bounded instances, threads are interchangeable.        *)
EXTENDS Mutator, TLC

Symmetry == Permutations(Threads)
=============================================================================
