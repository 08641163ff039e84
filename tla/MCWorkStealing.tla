--------------------------- MODULE MCWorkStealing ---------------------------
(* Instances of WorkStealing for TLC.                                      *)
EXTENDS WorkStealing

CONSTANTS w1, w2, w3

\* Two workers, enough tasks to overflow a queue, queues that wrap around or not;
\* and two thieves after the tasks of one worker
TwoAndThree ==
    [active : {{w1, w2}}, tasks : {4}, start : {0, N - 1}]
        \cup [active : {{w1, w2, w3}}, tasks : {2}, start : {N - 1}]

\* The tags are enough, as the proofs take them to be
ASSUME InstanceAssumption == TagsSuffice
=============================================================================
