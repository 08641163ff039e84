------------------------------ MODULE Safepoint ------------------------------
(***************************************************************************)
(* Safepoints: how the VM thread stops the Java threads to run a VM        *)
(* operation.  It announces the safepoint and looks at the state of every  *)
(* thread; a thread checks for the safepoint at each change of state, by a *)
(* store to its state and a load of _state with no fence between them.     *)
(* The store may sit in the processor's store buffer: either the thread    *)
(* fences (UseMembar), or the VM thread makes all the buffers drain.       *)
(*                                                                         *)
(* Also the requests: VMThread::execute queues an operation and waits, the *)
(* VM thread runs all that are queued in one safepoint and wakes the       *)
(* callers.                                                                *)
(***************************************************************************)
EXTENDS Naturals, Sequences, SequencesExt, FiniteSets

CONSTANTS JavaThreads,
          VMThread,
          MaxBuffer,    \* bound on the stores in a store buffer
          Setups,       \* values of UseMembar, with bounds on the operations that the
                        \* threads request and on the safepoints nobody requested
          NoThread

ASSUME SafepointAssumption ==
    /\ VMThread \notin JavaThreads
    /\ NoThread \notin JavaThreads \cup {VMThread}
    /\ IsFiniteSet(JavaThreads)
    /\ MaxBuffer \in Nat \ {0}
    /\ Setups \subseteq [UseMembar : BOOLEAN, requests : [JavaThreads -> Nat], cleanups : Nat]

VARIABLES
    sync,           \* SafepointSynchronize::_state
    armed,          \* the polling page is unreadable, the interpreter polls
    waiting,        \* _waiting_to_block
    type,           \* per thread: ThreadSafepointState::_type
    state,          \* per thread: _thread_state, in memory
    buffer,         \* per thread: its stores to _thread_state still on the way
    setup,          \* the member of Setups
    Threads_lock, Safepoint_lock, VMOperationRequest_lock,  \* their holders
    queue,          \* VMOperationQueue: the callers of the operations
    started,        \* per thread: _vm_operation_started_count
    completed,      \* per thread: _vm_operation_completed_count
    jt,             \* per Java thread: program counter and locals
    vm              \* the VM thread: program counter and locals

locks == <<Threads_lock, Safepoint_lock, VMOperationRequest_lock>>
ops == <<queue, started, completed>>
memory == <<state, buffer, setup>>
safepoint == <<sync, armed, waiting, type>>
vars == <<sync, armed, waiting, type, state, buffer, setup, Threads_lock,
          Safepoint_lock, VMOperationRequest_lock, queue, started, completed, jt, vm>>

\* The states a thread can be in between two transitions, and on the way
States == {"in_Java", "in_vm", "in_native", "blocked"}
Trans == {"in_vm_trans", "in_native_trans", "blocked_trans"}

\* A thread at l, outside a transition
Outside(l) == [pc |-> l, to |-> "none", then |-> "none", saved |-> "none"]

Init ==
    /\ sync = "not_synchronized"
    /\ armed = FALSE
    /\ waiting = 0
    /\ type = [t \in JavaThreads |-> "running"]
    /\ state = [t \in JavaThreads |-> "in_Java"]
    /\ buffer = [t \in JavaThreads |-> <<>>]
    /\ setup \in Setups
    /\ Threads_lock = NoThread
    /\ Safepoint_lock = NoThread
    /\ VMOperationRequest_lock = NoThread
    /\ queue = <<>>
    /\ started = [t \in JavaThreads |-> 0]
    /\ completed = [t \in JavaThreads |-> 0]
    /\ jt = [t \in JavaThreads |-> Outside("java")]
    /\ vm = [pc |-> "loop", ops |-> <<>>, flush |-> {}, cleanups |-> 0]

At(t, l) == jt[t].pc = l
Goto(t, l) == jt' = [jt EXCEPT ![t].pc = l]

VMAt(l) == vm.pc = l
VMGoto(l) == vm' = [vm EXCEPT !.pc = l]

-----------------------------------------------------------------------------
(* Stores to a thread's own state                                          *)

\* What the thread itself sees
Own(t) == IF buffer[t] = <<>> THEN state[t] ELSE Last(buffer[t])

Store(t, s) ==
    /\ Len(buffer[t]) < MaxBuffer
    /\ buffer' = [buffer EXCEPT ![t] = Append(@, s)]
    /\ UNCHANGED <<state, setup>>

\* A store with a fence after it, or a step with an atomic instruction
StoreFence(t, s) ==
    /\ state' = [state EXCEPT ![t] = s]
    /\ buffer' = [buffer EXCEPT ![t] = <<>>]
    /\ UNCHANGED setup

\* The oldest store reaches memory
Drain(t) ==
    /\ buffer[t] # <<>>
    /\ state' = [state EXCEPT ![t] = Head(buffer[t])]
    /\ buffer' = [buffer EXCEPT ![t] = Tail(@)]
    /\ UNCHANGED <<safepoint, setup, locks, ops, jt, vm>>

-----------------------------------------------------------------------------
(* ThreadStateTransition                                                   *)

\* transition_from_java: from Java into the VM or native code, no check
LeaveJava(t, l, s) ==
    /\ At(t, "java")
    /\ Store(t, s)
    /\ Goto(t, l)
    /\ UNCHANGED <<safepoint, locks, ops, vm>>

trans(s) == CASE s = "in_vm" -> "in_vm_trans"
              [] s = "in_native" -> "in_native_trans"
              [] s = "blocked" -> "blocked_trans"

\* The first half of a transition to state s, after which the thread is at l
Transition(t, s, l) ==
    /\ IF setup.UseMembar THEN StoreFence(t, trans(Own(t))) ELSE Store(t, trans(Own(t)))
    /\ jt' = [jt EXCEPT ![t] = [pc |-> "trans", to |-> s, then |-> l, saved |-> "none"]]
    /\ UNCHANGED <<safepoint, ops, vm>>

\* Code in the VM returns to Java, goes on to native code, or blocks
LeaveVM(t) ==
    /\ At(t, "vm")
    /\ \E p \in {<<"in_Java", "java">>, <<"in_native", "native">>, <<"blocked", "blocked">>} :
          Transition(t, p[1], p[2])
    /\ UNCHANGED locks

\* Native code returns to Java or calls into the VM
LeaveNative(t) ==
    /\ At(t, "native")
    /\ \E p \in {<<"in_Java", "java">>, <<"in_vm", "vm">>} : Transition(t, p[1], p[2])
    /\ UNCHANGED locks

\* What the thread was blocked on is over
Unblock(t) ==
    /\ At(t, "blocked")
    /\ Transition(t, "in_vm", "vm")
    /\ UNCHANGED locks

\* The second half: do_call_back() is loaded
CheckSafepoint(t) ==
    /\ At(t, "trans")
    /\ Goto(t, CASE sync = "not_synchronized" -> "finish"
                 [] sync # "not_synchronized" /\ Own(t) = "in_vm_trans" -> "block"
                 [] sync # "not_synchronized" /\ Own(t) # "in_vm_trans" -> "blockout")
    /\ UNCHANGED <<safepoint, memory, locks, ops, vm>>

FinishTransition(t) ==
    /\ At(t, "finish")
    /\ Store(t, jt[t].to)
    /\ jt' = [jt EXCEPT ![t] = Outside(@.then)]
    /\ UNCHANGED <<safepoint, locks, ops, vm>>

-----------------------------------------------------------------------------
(* SafepointSynchronize::block                                             *)

\* block() remembers the state it was called in, and pretends that the
\* thread is in the VM while it takes Safepoint_lock
PretendInVM(t) ==
    /\ Store(t, "in_vm")
    /\ jt' = [jt EXCEPT ![t].pc = "blocklock", ![t].saved = Own(t)]
    /\ UNCHANGED <<safepoint, locks, ops, vm>>

\* A thread in compiled code polls: handle_polling_page_exception
Poll(t) == At(t, "java") /\ armed /\ PretendInVM(t)

Block(t) == At(t, "block") /\ PretendInVM(t)

\* Mutant: the VM thread is not woken
CallBackSilently(t) ==
    /\ At(t, "blocklock")
    /\ Safepoint_lock = NoThread
    /\ waiting' = IF sync = "synchronizing" THEN waiting - 1 ELSE waiting
    /\ StoreFence(t, "blocked")
    /\ Goto(t, "blocked_safepoint")
    /\ UNCHANGED <<sync, armed, type, locks, ops, vm>>

\* Under Safepoint_lock: the thread is counted, the last one wakes the VM
\* thread, and it is blocked from here on
CallBack(t) ==
    /\ At(t, "blocklock")
    /\ Safepoint_lock = NoThread
    /\ waiting' = IF sync = "synchronizing" THEN waiting - 1 ELSE waiting
    /\ IF sync = "synchronizing" /\ waiting' = 0 /\ VMAt("waiting")
       THEN VMGoto("notified") ELSE UNCHANGED vm
    /\ StoreFence(t, "blocked")
    /\ Goto(t, "blocked_safepoint")
    /\ UNCHANGED <<sync, armed, type, locks, ops>>

\* Mutant: such a thread is counted here, and by the VM thread too
BlockOutsideCounted(t) ==
    /\ At(t, "blockout")
    /\ type[t] # "call_back"
    /\ Store(t, "blocked")
    /\ waiting' = IF sync = "synchronizing" THEN waiting - 1 ELSE waiting
    /\ jt' = [jt EXCEPT ![t].pc = "blocked_safepoint", ![t].saved = Own(t)]
    /\ UNCHANGED <<sync, armed, type, locks, ops, vm>>

\* A thread that comes from native code or from a blocked state does not call
\* back: the code has a fatal error if it should have
BlockOutside(t) ==
    /\ At(t, "blockout")
    /\ type[t] # "call_back"
    /\ Store(t, "blocked")
    /\ jt' = [jt EXCEPT ![t].pc = "blocked_safepoint", ![t].saved = Own(t)]
    /\ UNCHANGED <<safepoint, locks, ops, vm>>

\* It waits for Threads_lock, which the VM thread holds during the whole
\* safepoint, and restores its state
Restarted(t) ==
    /\ At(t, "blocked_safepoint")
    /\ Threads_lock = NoThread
    /\ StoreFence(t, jt[t].saved)
    /\ jt' = [jt EXCEPT ![t].pc = IF jt[t].saved = "in_Java" THEN "java" ELSE "finish",
                        ![t].saved = "none"]
    /\ UNCHANGED <<safepoint, locks, ops, vm>>

-----------------------------------------------------------------------------
(* VMThread::execute, in a Java thread                                     *)

\* The operation is queued, under VMOperationQueue_lock
Request(t) ==
    /\ At(t, "vm")
    /\ started[t] < setup.requests[t]
    /\ started' = [started EXCEPT ![t] = @ + 1]
    /\ queue' = Append(queue, t)
    /\ Goto(t, "reqlock")
    /\ UNCHANGED <<safepoint, memory, locks, completed, vm>>

\* Monitor::lock: at once, or blocked meanwhile
RequestLock(t) ==
    /\ At(t, "reqlock")
    /\ \/ /\ VMOperationRequest_lock = NoThread
          /\ VMOperationRequest_lock' = t
          /\ Goto(t, "reqcheck")
          /\ UNCHANGED <<safepoint, memory, Threads_lock, Safepoint_lock, ops, vm>>
       \/ /\ VMOperationRequest_lock # NoThread
          /\ Transition(t, "blocked", "reqblocked")
          /\ UNCHANGED locks

\* It gets the lock and then leaves the blocked state, which may take a safepoint
RequestLocked(t) ==
    /\ jt[t].pc \in {"reqblocked", "reqnotified"}
    /\ VMOperationRequest_lock = NoThread
    /\ VMOperationRequest_lock' = t
    /\ Transition(t, "in_vm", "reqcheck")
    /\ UNCHANGED <<Threads_lock, Safepoint_lock>>

\* Not done: Monitor::wait changes the state with the lock still held
RequestCheck(t) ==
    /\ At(t, "reqcheck")
    /\ completed[t] < started[t]
    /\ Transition(t, "blocked", "reqwait")
    /\ UNCHANGED locks

RequestWait(t) ==
    /\ At(t, "reqwait")
    /\ VMOperationRequest_lock' = NoThread
    /\ Goto(t, "reqwaiting")
    /\ UNCHANGED <<safepoint, memory, Threads_lock, Safepoint_lock, ops, vm>>

RequestDone(t) ==
    /\ At(t, "reqcheck")
    /\ completed[t] = started[t]
    /\ VMOperationRequest_lock' = NoThread
    /\ Goto(t, "vm")
    /\ UNCHANGED <<safepoint, memory, Threads_lock, Safepoint_lock, ops, vm>>

-----------------------------------------------------------------------------
(* VMThread::loop                                                          *)

\* The first operation is taken, and after a wait all that are queued
TakeOperation ==
    /\ VMAt("loop")
    /\ \E n \in {1, Len(queue)} :
          /\ n \in 1..Len(queue)
          /\ vm' = [vm EXCEPT !.pc = "begin", !.ops = SubSeq(queue, 1, n)]
          /\ queue' = SubSeq(queue, n + 1, Len(queue))
    /\ UNCHANGED <<safepoint, memory, locks, started, completed, jt>>

\* The wait timed out and a cleanup is due
Cleanup ==
    /\ VMAt("loop")
    /\ vm.cleanups < setup.cleanups
    /\ vm' = [vm EXCEPT !.pc = "begin", !.cleanups = @ + 1]
    /\ UNCHANGED <<safepoint, memory, locks, ops, jt>>

\* evaluate_operation: the caller must not touch the operation any more
EvaluateOperation ==
    /\ VMAt("synchronized")
    /\ vm.ops # <<>>
    /\ completed' = [completed EXCEPT ![Head(vm.ops)] = @ + 1]
    /\ vm' = [vm EXCEPT !.ops = Tail(@), !.pc = IF Len(vm.ops) = 1 THEN "drain" ELSE @]
    /\ UNCHANGED <<safepoint, memory, locks, queue, started, jt>>

\* What was queued in the meantime is run in the same safepoint
DrainQueue ==
    /\ VMAt("drain")
    /\ vm' = [vm EXCEPT !.ops = queue, !.pc = IF queue = <<>> THEN "end" ELSE "synchronized"]
    /\ queue' = <<>>
    /\ UNCHANGED <<safepoint, memory, locks, started, completed, jt>>

CleanupDone ==
    /\ VMAt("synchronized")
    /\ vm.ops = <<>>
    /\ VMGoto("endcleanup")
    /\ UNCHANGED <<safepoint, memory, locks, ops, jt>>

\* Mutant: the lock is not taken
NotifyRequestersUnlocked ==
    /\ VMAt("notify")
    /\ jt' = [t \in JavaThreads |->
                 IF At(t, "reqwaiting") THEN [jt[t] EXCEPT !.pc = "reqnotified"] ELSE jt[t]]
    /\ VMGoto("loop")
    /\ UNCHANGED <<safepoint, memory, locks, ops>>

NotifyRequesters ==
    /\ VMAt("notify")
    /\ VMOperationRequest_lock = NoThread
    /\ jt' = [t \in JavaThreads |->
                 IF At(t, "reqwaiting") THEN [jt[t] EXCEPT !.pc = "reqnotified"] ELSE jt[t]]
    /\ VMGoto("loop")
    /\ UNCHANGED <<safepoint, memory, locks, ops>>

-----------------------------------------------------------------------------
(* SafepointSynchronize::begin and end                                     *)

\* Mutant: the fence of the VM thread is taken to be enough
AnnounceUnserialized ==
    /\ VMAt("begin")
    /\ Threads_lock = NoThread /\ Safepoint_lock = NoThread
    /\ Threads_lock' = VMThread /\ Safepoint_lock' = VMThread
    /\ waiting' = Cardinality(JavaThreads)
    /\ sync' = "synchronizing"
    /\ VMGoto("serialize")
    /\ UNCHANGED <<armed, type, memory, VMOperationRequest_lock, ops, jt>>

\* Threads_lock and Safepoint_lock are taken, the count is set, and the
\* safepoint is announced
Announce ==
    /\ VMAt("begin")
    /\ Threads_lock = NoThread /\ Safepoint_lock = NoThread
    /\ Threads_lock' = VMThread /\ Safepoint_lock' = VMThread
    /\ waiting' = Cardinality(JavaThreads)
    /\ sync' = "synchronizing"
    /\ vm' = [vm EXCEPT !.pc = "serialize", !.flush = IF setup.UseMembar THEN {} ELSE JavaThreads]
    /\ UNCHANGED <<armed, type, memory, VMOperationRequest_lock, ops, jt>>

\* os::serialize_thread_states: the change of the page's protection interrupts
\* the processors, one after the other, and their buffers drain
Serialize(t) ==
    /\ VMAt("serialize")
    /\ t \in vm.flush
    /\ StoreFence(t, Own(t))
    /\ vm' = [vm EXCEPT !.flush = @ \ {t}]
    /\ UNCHANGED <<safepoint, locks, ops, jt>>

\* The interpreter and compiled code are made to poll
Arm ==
    /\ VMAt("serialize")
    /\ vm.flush = {}
    /\ armed' = TRUE
    /\ VMGoto("spin")
    /\ UNCHANGED <<sync, waiting, type, memory, locks, ops, jt>>

\* ThreadSafepointState::examine_state_of_thread, roll_forward
Examine(t) ==
    /\ VMAt("spin")
    /\ type[t] = "running"
    /\ \/ /\ state[t] \in {"in_native", "blocked"}
          /\ type' = [type EXCEPT ![t] = "at_safepoint"]
          /\ waiting' = waiting - 1
       \/ /\ state[t] = "in_vm"
          /\ type' = [type EXCEPT ![t] = "call_back"]
          /\ UNCHANGED waiting
    /\ UNCHANGED <<sync, armed, memory, locks, ops, jt, vm>>

\* No thread is still running: those in the VM have to call back
SpinDone ==
    /\ VMAt("spin")
    /\ \A t \in JavaThreads : type[t] # "running"
    /\ VMGoto("wait")
    /\ UNCHANGED <<safepoint, memory, locks, ops, jt>>

WaitForThreads ==
    /\ VMAt("wait")
    /\ waiting > 0
    /\ Safepoint_lock' = NoThread
    /\ VMGoto("waiting")
    /\ UNCHANGED <<safepoint, memory, Threads_lock, VMOperationRequest_lock, ops, jt>>

WokenUp ==
    /\ VMAt("notified")
    /\ Safepoint_lock = NoThread
    /\ Safepoint_lock' = VMThread
    /\ VMGoto("wait")
    /\ UNCHANGED <<safepoint, memory, Threads_lock, VMOperationRequest_lock, ops, jt>>

Synchronized ==
    /\ VMAt("wait")
    /\ waiting = 0
    /\ sync' = "synchronized"
    /\ Safepoint_lock' = NoThread
    /\ VMGoto("synchronized")
    /\ UNCHANGED <<armed, waiting, type, memory, Threads_lock, VMOperationRequest_lock, ops, jt>>

\* end: the poll is disarmed, and under Safepoint_lock the state is reset, the
\* threads are marked as running and Threads_lock is freed
End ==
    /\ vm.pc \in {"end", "endcleanup"}
    /\ \/ /\ armed
          /\ armed' = FALSE
          /\ UNCHANGED <<sync, type, Threads_lock, vm>>
       \/ /\ ~armed
          /\ Safepoint_lock = NoThread
          /\ sync' = "not_synchronized"
          /\ type' = [t \in JavaThreads |-> "running"]
          /\ Threads_lock' = NoThread
          /\ VMGoto(IF VMAt("end") THEN "notify" ELSE "loop")
          /\ UNCHANGED armed
    /\ UNCHANGED <<waiting, memory, Safepoint_lock, VMOperationRequest_lock, ops, jt>>

-----------------------------------------------------------------------------
\* What a thread does by itself, and may never do
Choose(t) ==
    \/ LeaveJava(t, "vm", "in_vm")
    \/ LeaveJava(t, "native", "in_native")
    \/ LeaveNative(t)
    \/ Unblock(t)
    \/ Request(t)

\* What a thread goes on to do: code in the VM runs to its end, compiled code
\* polls in every loop
Continue(t) ==
    \/ LeaveVM(t) \/ CheckSafepoint(t) \/ FinishTransition(t)
    \/ Poll(t) \/ Block(t) \/ CallBack(t) \/ BlockOutside(t) \/ Restarted(t)
    \/ RequestLock(t) \/ RequestLocked(t) \/ RequestCheck(t) \/ RequestWait(t) \/ RequestDone(t)

RunVMThread ==
    \/ TakeOperation \/ EvaluateOperation \/ DrainQueue \/ CleanupDone \/ NotifyRequesters
    \/ Announce \/ Arm \/ SpinDone \/ WaitForThreads \/ WokenUp \/ Synchronized \/ End
    \/ \E t \in JavaThreads : Serialize(t) \/ Examine(t)

Next ==
    \/ \E t \in JavaThreads : Choose(t) \/ Continue(t) \/ Drain(t)
    \/ RunVMThread
    \/ Cleanup

Spec == Init /\ [][Next]_vars

FairSpec ==
    /\ Spec
    /\ \A t \in JavaThreads : WF_vars(Continue(t)) /\ WF_vars(Drain(t))
    /\ WF_vars(RunVMThread)

-----------------------------------------------------------------------------
(* Properties                                                              *)

JavaLocals ==
    [pc : {"java", "vm", "native", "blocked", "trans", "finish", "block", "blocklock", "blockout",
           "blocked_safepoint", "reqlock", "reqblocked", "reqcheck", "reqwait", "reqwaiting",
           "reqnotified"},
     to : States \cup {"none"},
     then : {"none", "java", "vm", "native", "blocked", "reqblocked", "reqcheck", "reqwait"},
     saved : {"none", "in_Java"} \cup Trans]

VMLocals ==
    [pc : {"loop", "begin", "serialize", "spin", "wait", "waiting", "notified", "synchronized",
           "drain", "end", "endcleanup", "notify"},
     ops : Seq(JavaThreads), flush : SUBSET JavaThreads, cleanups : Nat]

\* Every variable has its type; in particular _waiting_to_block is never counted
\* down below zero (safepoint.cpp:647, "sanity check")
TypeOK ==
    /\ sync \in {"not_synchronized", "synchronizing", "synchronized"}
    /\ armed \in BOOLEAN
    /\ waiting \in 0..Cardinality(JavaThreads)
    /\ type \in [JavaThreads -> {"running", "at_safepoint", "call_back"}]
    /\ state \in [JavaThreads -> States \cup Trans]
    /\ buffer \in [JavaThreads -> Seq(States \cup Trans)]
    /\ setup \in Setups
    /\ Threads_lock \in {VMThread, NoThread}
    /\ Safepoint_lock \in {VMThread, NoThread}
    /\ VMOperationRequest_lock \in JavaThreads \cup {NoThread}
    /\ queue \in Seq(JavaThreads)
    /\ started \in [JavaThreads -> Nat]
    /\ completed \in [JavaThreads -> Nat]
    /\ jt \in [JavaThreads -> JavaLocals]
    /\ vm \in VMLocals

\* At a safepoint no thread runs Java code or code of the VM, and none has
\* passed its check and is about to: whatever was in the store buffers
\* (safepoint.cpp:99 begin, interfaceSupport.hpp:133 transition)
SafepointExclusive ==
    sync = "synchronized" =>
        \A t \in JavaThreads :
            ~ (jt[t].pc \in {"java", "vm", "finish", "block", "blocklock", "reqlock", "reqcheck"})

\* The VM thread never waits for a call back from a thread that is outside the
\* VM, which would not give it: block() has a fatal error for this, "Deadlock
\* in safepoint code" (safepoint.cpp:686)
CallBackOwed ==
    \A t \in JavaThreads : type[t] = "call_back" => ~ (jt[t].pc \in {"native", "blocked", "blockout"})

\* A safepoint that is announced is reached (safepoint.cpp:99 begin)
SafepointReached == sync = "synchronizing" ~> sync = "synchronized"

\* A thread that requests an operation is told that it is done: the wakeup is
\* not lost and the locks that threads hold at a safepoint do not stop the VM
\* thread (vmThread.cpp:589 execute, 571 loop)
ExecuteReturns ==
    \A t \in JavaThreads : completed[t] < started[t] ~> At(t, "vm") /\ completed[t] = started[t]
=============================================================================
