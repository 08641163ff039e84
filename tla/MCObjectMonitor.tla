--------------------------- MODULE MCObjectMonitor ---------------------------
(* Instances of ObjectMonitor for TLC.                                     *)
EXTENDS ObjectMonitor

CONSTANTS t1, t2, t3

None == [t \in Threads |-> 0]
Once == [t \in Threads |-> 1]
Quiet == [enters |-> None, waits |-> None, interrupt |-> {}, suspend |-> {}]

\* Three threads compete for the lock
Contention == [Quiet EXCEPT !.enters = Once]

\* Two threads; one waits, is interrupted and is suspended
WaitNotify == [Quiet EXCEPT !.enters = [None EXCEPT ![t1] = 1, ![t2] = 1],
                            !.waits = [None EXCEPT ![t1] = 1],
                            !.interrupt = {t1}, !.suspend = {t1}]

\* Two threads compete again and again
Twice == [Quiet EXCEPT !.enters = [None EXCEPT ![t1] = 2, ![t2] = 2]]

\* Two waiters and a thread that notifies
TwoWaiters == [Quiet EXCEPT !.enters = Once,
                            !.waits = [Once EXCEPT ![t3] = 0]]

Usual == {Contention, WaitNotify, Twice}
Waits == {WaitNotify}
=============================================================================
