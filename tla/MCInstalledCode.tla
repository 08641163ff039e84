--------------------------- MODULE MCInstalledCode ---------------------------
(* Instances of InstalledCode for TLC *)
EXTENDS InstalledCode, TLC

CONSTANTS t1, t2, w1, w2

Symmetry == Permutations(Threads)
=============================================================================
