----------------------------- MODULE JavaMonitor -----------------------------
(***************************************************************************)
(* What a monitor promises to Java code: one thread at a time is inside,   *)
(* it may enter again and must exit as often, a thread that waits gives    *)
(* the lock up and comes back with the depth it had, and it comes back     *)
(* only after it has left the wait set: notified, interrupted, timed out   *)
(* or woken for no reason.                                                 *)
(***************************************************************************)
EXTENDS Naturals

CONSTANT Threads

VARIABLES inside,   \* threads that hold the lock and run Java code
          depth,    \* how often the one inside has entered
          waiting,  \* the wait set
          woken,    \* threads that left the wait set and not yet wait()
          saved     \* depth of a thread when it called wait()

vars == <<inside, depth, waiting, woken, saved>>

Init ==
    /\ inside = {}
    /\ depth = 0
    /\ waiting = {}
    /\ woken = {}
    /\ saved = [t \in Threads |-> 0]

Enter(t) ==
    /\ inside = {}
    /\ t \notin waiting \cup woken
    /\ inside' = {t}
    /\ depth' = 1
    /\ UNCHANGED <<waiting, woken, saved>>

EnterAgain(t) ==
    /\ inside = {t}
    /\ depth' = depth + 1
    /\ UNCHANGED <<inside, waiting, woken, saved>>

Exit(t) ==
    /\ inside = {t}
    /\ depth' = depth - 1
    /\ inside' = IF depth = 1 THEN {} ELSE inside
    /\ UNCHANGED <<waiting, woken, saved>>

Wait(t) ==
    /\ inside = {t}
    /\ inside' = {}
    /\ depth' = 0
    /\ waiting' = waiting \cup {t}
    /\ saved' = [saved EXCEPT ![t] = depth]
    /\ UNCHANGED woken

\* A waiter leaves the wait set: the thread inside notifies it, or it gives up
Leave(t) ==
    /\ t \in waiting
    /\ waiting' = waiting \ {t}
    /\ woken' = woken \cup {t}
    /\ UNCHANGED <<inside, depth, saved>>

NotifyAll(t) ==
    /\ inside = {t}
    /\ waiting' = {}
    /\ woken' = woken \cup waiting
    /\ UNCHANGED <<inside, depth, saved>>

WaitReturns(t) ==
    /\ inside = {}
    /\ t \in woken
    /\ inside' = {t}
    /\ depth' = saved[t]
    /\ woken' = woken \ {t}
    /\ saved' = [saved EXCEPT ![t] = 0]
    /\ UNCHANGED waiting

Next == \E t \in Threads :
            \/ Enter(t)
            \/ EnterAgain(t)
            \/ Exit(t)
            \/ Wait(t)
            \/ Leave(t)
            \/ NotifyAll(t)
            \/ WaitReturns(t)

Spec == Init /\ [][Next]_vars
=============================================================================
