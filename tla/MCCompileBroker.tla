-------------------------- MODULE MCCompileBroker --------------------------
(* Instances of CompileBroker for TLC *)
EXTENDS CompileBroker

CONSTANTS m1, m2, c1, main

\* The default command line; the tiered policy; no flushing, and an agent
ThreeCommandLines ==
    {[tiered |-> FALSE, flushing |-> TRUE, agent |-> FALSE],
     [tiered |-> TRUE, flushing |-> TRUE, agent |-> FALSE],
     [tiered |-> FALSE, flushing |-> FALSE, agent |-> TRUE]}
=============================================================================
