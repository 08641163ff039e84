---------------------------- MODULE MCSafepoint ----------------------------
(* Instances of Safepoint for TLC.                                         *)
EXTENDS Safepoint

CONSTANTS t1, t2

Requests(n1, n2) == [t \in JavaThreads |-> IF t = t1 THEN n1 ELSE n2]

\* Two requests that contend; a cleanup, with fences
RequestsOrCleanup ==
    [UseMembar : {FALSE}, requests : {Requests(1, 1)}, cleanups : {0}]
        \cup [UseMembar : {TRUE}, requests : {Requests(0, 0)}, cleanups : {1}]
=============================================================================
