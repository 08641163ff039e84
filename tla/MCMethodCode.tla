---------------------------- MODULE MCMethodCode ----------------------------
(* Instances of MethodCode for TLC *)
EXTENDS MethodCode, TLC

CONSTANTS t1, t2

Symmetry == Permutations(Threads)

\* All settings of the flags
AllFlags == [tiered : BOOLEAN, unloading : BOOLEAN]
=============================================================================
