---------------------------- MODULE ObjectMonitor ----------------------------
(***************************************************************************)
(* The inflated monitor of one Java object: enter, exit, wait, notify and  *)
(* notifyAll, with the exit that compiled code inlines.  Two lists hold    *)
(* the threads that want the lock: cxq, which a thread joins with a CAS,   *)
(* and EntryList, which only the owner touches.  An exiting thread does    *)
(* not hand the lock over: it frees it and wakes an heir, which competes   *)
(* with any thread that comes by.                                          *)
(*                                                                         *)
(* Every step makes at most one access that the other threads can notice   *)
(* (a CAS, a store, or a load that decides), the ones under _WaitSetLock   *)
(* and the owner's on its own lists taken together.  The code puts a fence *)
(* between a store and the load that must not overtake it, so the steps    *)
(* are interleaved as they stand.  The tunables have their defaults:       *)
(* Knob_ExitPolicy 0, Knob_QMode 0, Knob_MoveNotifyee 2, SyncFlags 0.      *)
(***************************************************************************)
EXTENDS Naturals, Sequences, SequencesExt, FiniteSets

CONSTANTS Threads,      \* Java threads that use the object
          Programs,     \* what they do: bounds on the calls of enter and wait of
                        \* each, and the ones interrupted or suspended, once
          NoThread      \* NULL

ASSUME MonitorAssumption ==
    /\ Programs \subseteq [enters : [Threads -> Nat], waits : [Threads -> Nat],
                            interrupt : SUBSET Threads, suspend : SUBSET Threads]
    /\ NoThread \notin Threads

VARIABLES
    owner,        \* _owner
    recursions,   \* _recursions
    succ,         \* _succ: the heir presumptive
    responsible,  \* _Responsible: the thread that parks with a time limit
    cxq,          \* _cxq: threads that arrived, the last one first
    entry,        \* _EntryList
    waitset,      \* _WaitSet
    node,         \* per thread: TState and _notified of its ObjectWaiter
    permit,       \* threads whose ParkEvent is set
    interrupted,  \* threads with the interrupted flag
    asks,         \* interrupts and suspensions still to come
    th            \* per thread: program counter and locals

lists == <<cxq, entry, waitset, node>>
lock == <<owner, recursions>>
hints == <<succ, responsible>>
outside == <<interrupted, asks>>
vars == <<owner, recursions, succ, responsible, cxq, entry, waitset, node,
          permit, interrupted, asks, th>>

\* The places a thread can be at.  Java code: idle, owns, iex (an
\* InterruptedException was thrown).  The others are in the monitor's code.
Spinning == {"spin", "spinset", "spintry"}
Queueing == {"elect", "try", "choose", "timed", "untimed", "woken", "clear", "rtry",
             "rpark", "rwoken"}
Acquired == {"owns", "iex", "unlink", "pivot", "acquired", "waited",
             "wait", "notifylink"}
Exiting == {"fastexit", "drop10", "dropsucc", "recheck", "exit", "drop", "check",
            "checksucc", "reacquire", "heir", "epilog", "unpark"}
Waiting == {"waiting", "waitpark", "dequeue", "reenter"}
Places == {"idle", "push", "suspended"} \cup Spinning \cup Queueing \cup Acquired
              \cup Exiting \cup Waiting

\* frame: the Java call the thread is in; then: where exit returns to; after:
\* where a spin that fails goes; saved: wait's save; was: WasNotified; timed:
\* wait has a time limit; enters, waits: calls it
\* may still make
Locals == [pc : Places, frame : {"enter", "wait", "reenter"},
           then : {"idle", "waiting", "suspended"}, after : {"push", "clear", "rpark"},
           heir : Threads \cup {NoThread}, saved : Nat, was : BOOLEAN, timed : BOOLEAN,
           enters : Nat, waits : Nat]

quiet == [pc |-> "idle", frame |-> "enter", then |-> "idle", after |-> "push",
          heir |-> NoThread, saved |-> 0, was |-> FALSE, timed |-> FALSE,
          enters |-> 0, waits |-> 0]

Init ==
    /\ owner = NoThread
    /\ recursions = 0
    /\ succ = NoThread
    /\ responsible = NoThread
    /\ cxq = <<>>
    /\ entry = <<>>
    /\ waitset = <<>>
    /\ node = [t \in Threads |-> [state |-> "RUN", notified |-> FALSE]]
    /\ permit = {}
    /\ interrupted = {}
    /\ \E p \in Programs :
          /\ asks = [interrupt |-> p.interrupt, suspend |-> p.suspend]
          /\ th = [t \in Threads |-> [quiet EXCEPT !.enters = p.enters[t],
                                                  !.waits = p.waits[t]]]

At(t, l) == th[t].pc = l
Goto(t, l) == th' = [th EXCEPT ![t].pc = l]

\* exit returns to its caller
Return(t) == th' = [th EXCEPT ![t].pc = th[t].then, ![t].then = "idle",
                              ![t].heir = NoThread]

\* if (_succ == Self) _succ = NULL
Resign(t) == succ' = IF succ = t THEN NoThread ELSE succ

-----------------------------------------------------------------------------
(* Spinning: TrySpin_VaryDuration                                          *)

\* The lock is free and the CAS takes it
SpinAcquires(t) ==
    /\ At(t, "spin")
    /\ owner = NoThread
    /\ owner' = t
    /\ Resign(t)
    /\ Goto(t, IF th[t].after = "push" THEN "acquired" ELSE "unlink")
    /\ UNCHANGED <<recursions, responsible, lists, permit, outside>>

\* A spinner that finds no successor makes itself one: a load, then a store
SpinSeesNoSucc(t) ==
    /\ At(t, "spin")
    /\ succ = NoThread
    /\ Goto(t, "spinset")
    /\ UNCHANGED <<lock, hints, lists, permit, outside>>

SpinSetSucc(t) ==
    /\ At(t, "spinset")
    /\ succ' = t
    /\ Goto(t, "spin")
    /\ UNCHANGED <<lock, responsible, lists, permit, outside>>

\* The spinner gives up; if it was the successor it must look once more
SpinAbort(t) ==
    /\ At(t, "spin")
    /\ Resign(t)
    /\ Goto(t, IF succ = t THEN "spintry" ELSE th[t].after)
    /\ UNCHANGED <<lock, responsible, lists, permit, outside>>

SpinLastTry(t) ==
    /\ At(t, "spintry")
    /\ owner' = IF owner = NoThread THEN t ELSE owner
    /\ Goto(t, IF owner # NoThread THEN th[t].after
               ELSE IF th[t].after = "push" THEN "acquired" ELSE "unlink")
    /\ UNCHANGED <<recursions, hints, lists, permit, outside>>

Spin(t) == \/ SpinAcquires(t)
           \/ SpinSeesNoSucc(t)
           \/ SpinSetSucc(t)
           \/ SpinAbort(t)
           \/ SpinLastTry(t)

-----------------------------------------------------------------------------
(* enter and EnterI                                                        *)

\* A call of enter: the CAS on _owner, a recursive enter, or the slow path,
\* whose spins before the push are taken as one
Enter(t) ==
    /\ th[t].pc \in {"idle", "owns"}
    /\ th[t].enters > 0
    /\ owner' = IF owner = NoThread THEN t ELSE owner
    /\ recursions' = IF owner = t THEN recursions + 1 ELSE recursions
    /\ th' = [th EXCEPT ![t].pc = IF owner \in {NoThread, t} THEN "owns" ELSE "spin",
                        ![t].frame = "enter",
                        ![t].after = "push",
                        ![t].enters = @ - 1]
    /\ UNCHANGED <<hints, lists, permit, outside>>

\* EnterI resets the event and pushes its node on cxq
Push(t) ==
    /\ At(t, "push")
    /\ permit' = permit \ {t}
    /\ cxq' = <<t>> \o cxq
    /\ node' = [node EXCEPT ![t] = [state |-> "CXQ", notified |-> FALSE]]
    /\ Goto(t, IF cxq = <<>> THEN "elect" ELSE "try")
    /\ UNCHANGED <<lock, hints, entry, waitset, outside>>

\* The CAS of the push failed: EnterI tries the lock and pushes again
PushFails(t) ==
    /\ At(t, "push")
    /\ owner = NoThread
    /\ owner' = t
    /\ permit' = permit \ {t}
    /\ Goto(t, "acquired")
    /\ UNCHANGED <<recursions, hints, lists, outside>>

\* Mutant: no thread parks with a time limit
ElectNobody(t) ==
    /\ At(t, "elect")
    /\ Goto(t, "try")
    /\ UNCHANGED <<lock, hints, lists, permit, outside>>

\* The first thread to queue becomes responsible if nobody is; the load of
\* _EntryList and the compare-and-swap are one step
Elect(t) ==
    /\ At(t, "elect")
    /\ responsible' = IF entry = <<>> /\ responsible = NoThread THEN t ELSE responsible
    /\ Goto(t, "try")
    /\ UNCHANGED <<lock, succ, lists, permit, outside>>

\* TryLock of a queued thread, before it parks and after it was woken
TryLock(t) ==
    /\ th[t].pc \in {"try", "woken", "rtry", "rwoken"}
    /\ owner' = IF owner = NoThread THEN t ELSE owner
    /\ th' = [th EXCEPT ![t].pc = CASE owner = NoThread -> "unlink"
                                    [] owner # NoThread /\ @ = "try" -> "choose"
                                    [] owner # NoThread /\ @ = "rwoken" -> "clear"
                                    [] OTHER -> "spin",
                        ![t].after = IF th[t].pc = "rtry" THEN "rpark" ELSE "clear"]
    /\ UNCHANGED <<recursions, hints, lists, permit, outside>>

\* The responsible thread parks with a time limit
ChoosePark(t) ==
    /\ At(t, "choose")
    /\ Goto(t, IF responsible = t THEN "timed" ELSE "untimed")
    /\ UNCHANGED <<lock, hints, lists, permit, outside>>

\* park returns: the event is set
Park(t) ==
    /\ th[t].pc \in {"timed", "untimed", "rpark"}
    /\ t \in permit
    /\ permit' = permit \ {t}
    /\ Goto(t, IF At(t, "rpark") THEN "rwoken" ELSE "woken")
    /\ UNCHANGED <<lock, hints, lists, outside>>

ParkTimesOut(t) ==
    /\ At(t, "timed")
    /\ Goto(t, "woken")
    /\ UNCHANGED <<lock, hints, lists, permit, outside>>

\* ReenterI: the thread was suspended while it was parked
ReenterSuspended(t) ==
    /\ At(t, "rwoken")
    /\ t \in asks.suspend
    /\ asks' = [asks EXCEPT !.suspend = @ \ {t}]
    /\ Resign(t)
    /\ UNCHANGED <<lock, responsible, lists, permit, interrupted, th>>

\* After a futile wakeup the thread is no longer the successor; it tries again
Clear(t) ==
    /\ At(t, "clear")
    /\ Resign(t)
    /\ Goto(t, IF th[t].frame = "reenter" THEN "rtry" ELSE "try")
    /\ UNCHANGED <<lock, responsible, lists, permit, outside>>

\* The list without the node of t, which is on it
Unlinked(list, t) == RemoveAt(list, CHOOSE i \in 1..Len(list) : list[i] = t)

\* UnlinkAfterAcquire by the new owner, from the list its node is on
UnlinkAfterAcquire(t) ==
    /\ At(t, "unlink")
    /\ entry' = IF node[t].state = "ENTER" THEN Unlinked(entry, t) ELSE entry
    /\ cxq' = IF node[t].state = "CXQ" THEN Unlinked(cxq, t) ELSE cxq
    /\ node' = [node EXCEPT ![t].state = "RUN"]
    /\ Resign(t)
    /\ Goto(t, IF th[t].frame = "reenter" THEN "waited" ELSE "pivot")
    /\ UNCHANGED <<lock, responsible, waitset, permit, outside>>

\* The end of EnterI: the owner is no longer responsible
Pivot(t) ==
    /\ At(t, "pivot")
    /\ responsible' = IF responsible = t THEN NoThread ELSE responsible
    /\ Goto(t, "acquired")
    /\ UNCHANGED <<lock, succ, lists, permit, outside>>

\* enter returns, to Java or to wait
EnterReturns(t) ==
    /\ At(t, "acquired")
    /\ th' = [th EXCEPT ![t].pc = IF th[t].frame = "wait" THEN "waited" ELSE "owns",
                        ![t].after = "push"]
    /\ UNCHANGED <<lock, hints, lists, permit, outside>>

\* The thread was suspended while it waited for the lock: it gives it back
EnterSuspended(t) ==
    /\ At(t, "acquired")
    /\ t \in asks.suspend
    /\ asks' = [asks EXCEPT !.suspend = @ \ {t}]
    /\ recursions' = 0
    /\ succ' = NoThread
    /\ th' = [th EXCEPT ![t].pc = "exit", ![t].then = "suspended"]
    /\ UNCHANGED <<owner, responsible, lists, permit, interrupted>>

\* It is resumed and calls EnterI again
Resumed(t) ==
    /\ At(t, "suspended")
    /\ th' = [th EXCEPT ![t].pc = "spin", ![t].after = "push"]
    /\ UNCHANGED <<lock, hints, lists, permit, outside>>

EnterI(t) == \/ Push(t)
             \/ PushFails(t)
             \/ Elect(t)
             \/ TryLock(t)
             \/ ChoosePark(t)
             \/ Park(t)
             \/ ParkTimesOut(t)
             \/ ReenterSuspended(t)
             \/ Clear(t)
             \/ UnlinkAfterAcquire(t)
             \/ Pivot(t)
             \/ EnterReturns(t)
             \/ EnterSuspended(t)
             \/ Resumed(t)

-----------------------------------------------------------------------------
(* The exit that compiled code inlines: MacroAssembler::fast_unlock        *)

\* A recursive exit, or the start of one that frees the lock: in compiled
\* code, or in the runtime
Exit(t) ==
    /\ th[t].pc \in {"owns", "iex"}
    /\ \/ /\ recursions > 0
          /\ recursions' = recursions - 1
          /\ Goto(t, "owns")
       \/ /\ recursions = 0
          /\ \E l \in {"fastexit", "exit"} :
                 th' = [th EXCEPT ![t].pc = l, ![t].then = "idle"]
          /\ UNCHANGED recursions
    /\ UNCHANGED <<owner, hints, lists, permit, outside>>

\* No thread is queued, or a successor is known, or the runtime must look
FastExit(t) ==
    /\ At(t, "fastexit")
    /\ Goto(t, CASE cxq = <<>> /\ entry = <<>> -> "drop10"
                 [] succ = NoThread /\ ~(cxq = <<>> /\ entry = <<>>) -> "exit"
                 [] OTHER -> "dropsucc")
    /\ UNCHANGED <<lock, hints, lists, permit, outside>>

\* The 1-0 exit: a store frees the lock, and nobody looks at cxq again
Drop10(t) ==
    /\ At(t, "drop10")
    /\ owner' = NoThread
    /\ Return(t)
    /\ UNCHANGED <<recursions, hints, lists, permit, outside>>

\* The lock is freed in the presence of a successor, which must still be there
DropSucc(t) ==
    /\ At(t, "dropsucc")
    /\ owner' = NoThread
    /\ Goto(t, "recheck")
    /\ UNCHANGED <<recursions, hints, lists, permit, outside>>

\* Mutant: a lock freed for a successor is left to it
RecheckNot(t) ==
    /\ At(t, "recheck")
    /\ Return(t)
    /\ UNCHANGED <<lock, hints, lists, permit, outside>>

\* The load of _succ and the compare-and-swap of _owner are one step
Recheck(t) ==
    /\ At(t, "recheck")
    /\ IF succ = NoThread /\ owner = NoThread
       THEN owner' = t /\ Goto(t, "exit")
       ELSE owner' = owner /\ Return(t)
    /\ UNCHANGED <<recursions, hints, lists, permit, outside>>

FastUnlock(t) == FastExit(t) \/ Drop10(t) \/ DropSucc(t) \/ Recheck(t)

-----------------------------------------------------------------------------
(* ObjectMonitor::exit                                                     *)

\* The outermost exit takes the time limit away from the responsible thread
ExitBegin(t) ==
    /\ At(t, "exit")
    /\ responsible' = NoThread
    /\ Goto(t, "drop")
    /\ UNCHANGED <<lock, succ, lists, permit, outside>>

Drop(t) ==
    /\ At(t, "drop")
    /\ owner' = NoThread
    /\ Goto(t, "check")
    /\ UNCHANGED <<recursions, hints, lists, permit, outside>>

\* Simple egress: nobody is queued, or somebody is about to take the lock.  The two
\* lists are read in one step: threads move from _cxq to _EntryList under the lock
\* only, so whoever empties _cxq between the two loads has the lock and will check
Check(t) ==
    /\ At(t, "check")
    /\ IF cxq = <<>> /\ entry = <<>> THEN Return(t) ELSE Goto(t, "checksucc")
    /\ UNCHANGED <<lock, hints, lists, permit, outside>>

CheckSucc(t) ==
    /\ At(t, "checksucc")
    /\ IF succ # NoThread THEN Return(t) ELSE Goto(t, "reacquire")
    /\ UNCHANGED <<lock, hints, lists, permit, outside>>

\* Mutant: the lock is taken back with a store
ReacquireBlind(t) ==
    /\ At(t, "reacquire")
    /\ owner' = t
    /\ Goto(t, "heir")
    /\ UNCHANGED <<recursions, hints, lists, permit, outside>>

\* Complex egress: the lock is taken back to wake an heir, unless it is gone
Reacquire(t) ==
    /\ At(t, "reacquire")
    /\ owner' = IF owner = NoThread THEN t ELSE owner
    /\ IF owner = NoThread THEN Goto(t, "heir") ELSE Return(t)
    /\ UNCHANGED <<recursions, hints, lists, permit, outside>>

\* The heir is the head of EntryList; an empty one is filled from cxq first,
\* and then the successor is looked at again
ChooseHeir(t) ==
    /\ At(t, "heir")
    /\ \/ /\ entry # <<>>
          /\ th' = [th EXCEPT ![t].pc = "epilog", ![t].heir = Head(entry)]
          /\ succ' = Head(entry)
          /\ UNCHANGED <<cxq, entry, node>>
       \/ /\ entry = <<>> /\ cxq = <<>>
          /\ Goto(t, "drop")
          /\ UNCHANGED <<succ, cxq, entry, node>>
       \/ /\ entry = <<>> /\ cxq # <<>>
          /\ entry' = cxq
          /\ cxq' = <<>>
          /\ node' = [u \in Threads |-> IF u \in Range(cxq)
                                        THEN [node[u] EXCEPT !.state = "ENTER"]
                                        ELSE node[u]]
          /\ IF succ # NoThread
             THEN Goto(t, "drop") /\ succ' = succ
             ELSE /\ th' = [th EXCEPT ![t].pc = "epilog", ![t].heir = Head(cxq)]
                  /\ succ' = Head(cxq)
    /\ UNCHANGED <<lock, responsible, waitset, permit, outside>>

\* ExitEpilog, with _succ set: the lock is freed, then the heir is unparked
Epilog(t) ==
    /\ At(t, "epilog")
    /\ owner' = NoThread
    /\ Goto(t, "unpark")
    /\ UNCHANGED <<recursions, hints, lists, permit, outside>>

Unpark(t) ==
    /\ At(t, "unpark")
    /\ permit' = permit \cup {th[t].heir}
    /\ Return(t)
    /\ UNCHANGED <<lock, hints, lists, outside>>

SlowExit(t) == \/ ExitBegin(t)
               \/ Drop(t)
               \/ Check(t)
               \/ CheckSucc(t)
               \/ Reacquire(t)
               \/ ChooseHeir(t)
               \/ Epilog(t)
               \/ Unpark(t)

-----------------------------------------------------------------------------
(* wait, notify, notifyAll                                                 *)

\* A call of wait: a pending interrupt is thrown at once
WaitCall(t, timed) ==
    /\ At(t, "owns")
    /\ th[t].waits > 0
    /\ th' = [th EXCEPT ![t].pc = IF t \in interrupted THEN "owns" ELSE "wait",
                        ![t].timed = timed,
                        ![t].waits = @ - 1]
    /\ interrupted' = interrupted \ {t}
    /\ UNCHANGED <<lock, hints, lists, permit, asks>>

\* The event is reset, the node joins the wait set and the lock is freed
WaitAdd(t) ==
    /\ At(t, "wait")
    /\ permit' = permit \ {t}
    /\ waitset' = Append(waitset, t)
    /\ node' = [node EXCEPT ![t] = [state |-> "WAIT", notified |-> FALSE]]
    /\ responsible' = NoThread
    /\ recursions' = 0
    /\ th' = [th EXCEPT ![t].pc = "exit", ![t].then = "waiting",
                        ![t].saved = recursions]
    /\ UNCHANGED <<owner, succ, cxq, entry, outside>>

\* Mutant: the interrupted flag is not looked at after the event was reset
WaitDecideBlind(t) ==
    /\ At(t, "waiting")
    /\ Goto(t, IF node[t].notified THEN "dequeue" ELSE "waitpark")
    /\ UNCHANGED <<lock, hints, lists, permit, outside>>

\* It parks unless it was interrupted or notified meanwhile
WaitDecide(t) ==
    /\ At(t, "waiting")
    /\ Goto(t, IF t \in interrupted \/ node[t].notified THEN "dequeue" ELSE "waitpark")
    /\ UNCHANGED <<lock, hints, lists, permit, outside>>

\* park returns: the event is set, or the time limit has passed.  A thread that was
\* suspended meanwhile (1561) takes its next step when it is resumed
WaitPark(t) ==
    /\ At(t, "waitpark")
    /\ t \in permit \/ th[t].timed
    /\ permit' = permit \ {t}
    /\ Goto(t, "dequeue")
    /\ UNCHANGED <<lock, hints, lists, outside>>

\* _WaitSetLock is held by a notifier
WaitSetLocked == \E u \in Threads : At(u, "notifylink")

\* Mutant: TState is not looked at again under the lock
DequeueUnchecked(t) ==
    /\ At(t, "dequeue")
    /\ ~WaitSetLocked
    /\ waitset' = Remove(waitset, t)
    /\ node' = [node EXCEPT ![t].state = "RUN"]
    /\ Goto(t, "reenter")
    /\ UNCHANGED <<lock, hints, cxq, entry, permit, outside>>

\* A node still in the wait set is removed, under _WaitSetLock
Dequeue(t) ==
    /\ At(t, "dequeue")
    /\ \/ /\ node[t].state = "WAIT"
          /\ ~WaitSetLocked
          /\ waitset' = Unlinked(waitset, t)
          /\ node' = [node EXCEPT ![t].state = "RUN"]
       \/ /\ node[t].state # "WAIT"
          /\ UNCHANGED <<waitset, node>>
    /\ Goto(t, "reenter")
    /\ UNCHANGED <<lock, hints, cxq, entry, permit, outside>>

\* WasNotified is read, and the lock is entered as a newcomer or, when a
\* notifier has queued the node, from the queue
WaitReenter(t) ==
    /\ At(t, "reenter")
    /\ Resign(t)
    /\ th' = [th EXCEPT ![t].was = node[t].notified,
                        ![t].pc = IF node[t].state = "RUN" THEN "spin" ELSE "rtry",
                        ![t].after = "push",
                        ![t].frame = IF node[t].state = "RUN" THEN "wait" ELSE "reenter"]
    /\ UNCHANGED <<lock, responsible, lists, permit, outside>>

\* wait returns, or throws if it was interrupted and not notified
WaitReturns(t) ==
    /\ At(t, "waited")
    /\ recursions' = th[t].saved
    /\ LET throws == ~th[t].was /\ t \in interrupted
       IN /\ interrupted' = IF throws THEN interrupted \ {t} ELSE interrupted
          /\ th' = [th EXCEPT ![t].pc = IF throws THEN "iex" ELSE "owns",
                              ![t].frame = "enter", ![t].after = "push",
                              ![t].saved = 0, ![t].was = FALSE, ![t].timed = FALSE]
    /\ UNCHANGED <<owner, hints, lists, permit, asks>>

Wait(t) == \/ \E timed \in BOOLEAN : WaitCall(t, timed)
           \/ WaitAdd(t)
           \/ WaitDecide(t)
           \/ WaitPark(t)
           \/ Dequeue(t)
           \/ WaitReenter(t)
           \/ WaitReturns(t)

\* notify takes the first waiter off the wait set and stores its TState ...
Notify(t) ==
    /\ At(t, "owns")
    /\ waitset # <<>>
    /\ waitset' = Tail(waitset)
    /\ node' = [node EXCEPT ![Head(waitset)].state = "ENTER"]
    /\ th' = [th EXCEPT ![t].pc = "notifylink", ![t].heir = Head(waitset)]
    /\ UNCHANGED <<lock, hints, cxq, entry, permit, outside>>

\* ... then _notified, and links it into EntryList, or cxq if that is not empty
NotifyLink(t) ==
    LET w == th[t].heir IN
    /\ At(t, "notifylink")
    /\ entry' = IF entry = <<>> THEN <<w>> ELSE entry
    /\ cxq' = IF entry = <<>> THEN cxq ELSE <<w>> \o cxq
    /\ node' = [node EXCEPT ![w] = [state |-> IF entry = <<>> THEN "ENTER" ELSE "CXQ",
                                    notified |-> TRUE]]
    /\ th' = [th EXCEPT ![t].pc = "owns", ![t].heir = NoThread]
    /\ UNCHANGED <<lock, hints, waitset, permit, outside>>

\* notifyAll stores _notified first, and pushes every waiter on cxq
NotifyAll(t) ==
    /\ At(t, "owns")
    /\ waitset # <<>>
    /\ waitset' = <<>>
    /\ cxq' = Reverse(waitset) \o cxq
    /\ node' = [u \in Threads |-> IF u \in Range(waitset)
                                  THEN [state |-> "CXQ", notified |-> TRUE]
                                  ELSE node[u]]
    /\ UNCHANGED <<lock, hints, entry, permit, outside, th>>

\* os::interrupt: the flag, then the event
Interrupt(t) ==
    /\ t \in asks.interrupt
    /\ asks' = [asks EXCEPT !.interrupt = @ \ {t}]
    /\ interrupted' = interrupted \cup {t}
    /\ permit' = permit \cup {t}
    /\ UNCHANGED <<lock, hints, lists, th>>

-----------------------------------------------------------------------------
Step(t) == \/ Enter(t)
           \/ Spin(t)
           \/ EnterI(t)
           \/ Exit(t)
           \/ FastUnlock(t)
           \/ SlowExit(t)
           \/ Wait(t)
           \/ Notify(t)
           \/ NotifyLink(t)
           \/ NotifyAll(t)

Next == \E t \in Threads : Step(t) \/ Interrupt(t)

Spec == Init /\ [][Next]_vars

\* A thread that can run does run, parks with a time limit end, and a thread
\* that owns the lock exits
FairSpec == Spec /\ \A t \in Threads : WF_vars(Step(t))

-----------------------------------------------------------------------------
(* Properties                                                              *)

Queued == Range(cxq) \cup Range(entry)

\* Every variable has its type
TypeOK ==
    /\ owner \in Threads \cup {NoThread}
    /\ recursions \in Nat
    /\ succ \in Threads \cup {NoThread}
    /\ responsible \in Threads \cup {NoThread}
    /\ cxq \in Seq(Threads) /\ entry \in Seq(Threads) /\ waitset \in Seq(Threads)
    /\ node \in [Threads -> [state : {"RUN", "CXQ", "ENTER", "WAIT"}, notified : BOOLEAN]]
    /\ permit \subseteq Threads
    /\ interrupted \subseteq Threads
    /\ asks \in [interrupt : SUBSET Threads, suspend : SUBSET Threads]
    /\ th \in [Threads -> Locals]

\* "A thread appears on at most one monitor list -- cxq, EntryList or WaitSet
\* -- at any one time", and the one its TState names; the node that notify
\* moves is on none
OnOneList ==
    /\ \A t \in Threads :
          LET moving == \E u \in Threads : At(u, "notifylink") /\ th[u].heir = t
              places(s) == Cardinality({i \in DOMAIN s : s[i] = t})
          IN /\ places(cxq) = IF node[t].state = "CXQ" THEN 1 ELSE 0
             /\ places(entry) = IF node[t].state = "ENTER" /\ ~moving THEN 1 ELSE 0
             /\ places(waitset) = IF node[t].state = "WAIT" THEN 1 ELSE 0

\* A thread that will act on the lock without being woken by another
Awake(t) ==
    \/ th[t].pc \in (Places \ {"idle", "untimed", "rpark", "waitpark"})
    \/ th[t].pc \in {"untimed", "rpark", "waitpark"} /\ t \in permit

\* A free lock with threads queued for it is never abandoned: some thread is
\* awake in the monitor's code, or parked with a time limit
NotStranded == owner = NoThread /\ Queued # {} => \E t \in Threads : Awake(t)

\* An interrupted waiter does not sleep on
InterruptWakes ==
    \A t \in interrupted : At(t, "waitpark") => t \in permit

\* "Monitor notify has precedence over thread interrupt": a waiter that was
\* notified does not throw InterruptedException
NotifyPrecedesInterrupt == \A t \in Threads : At(t, "iex") => ~node[t].notified

\* The Java code between an enter and its exit, and wait up to its release
Inside == {t \in Threads : th[t].pc \in {"owns", "iex", "wait", "notifylink"}}

\* Threads in a call of wait that have given the lock up
InWait == {t \in Threads : \/ th[t].then = "waiting"
                           \/ th[t].pc \in Waiting
                           \/ th[t].frame # "enter"}

Java == INSTANCE JavaMonitor WITH
            inside <- Inside,
            depth <- IF Inside = {} THEN 0 ELSE recursions + 1,
            waiting <- {t \in Threads : node[t].state = "WAIT"},
            woken <- {t \in InWait : node[t].state # "WAIT"},
            saved <- [t \in Threads |-> IF t \in InWait THEN th[t].saved + 1 ELSE 0]

\* The lists, the hints, the spinning and the exits that take the lock back
\* implement the monitor of the Java language
ImplementsJavaMonitor == Java!Spec

\* A queued thread gets the lock, whoever barges in and whatever exit the
\* owners use
QueuedAcquires == \A t \in Threads : t \in Queued ~> owner = t
=============================================================================
