-------------------------- MODULE MCNMethodSweeper --------------------------
(* Instances of NMethodSweeper for TLC *)
EXTENDS NMethodSweeper, TLC

CONSTANTS t1, t2

Symmetry == Permutations(Threads)
=============================================================================
