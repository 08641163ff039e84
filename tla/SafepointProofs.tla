-------------------------- MODULE SafepointProofs --------------------------
(***************************************************************************)
(* For every number of Java threads, every length of the store buffers and *)
(* with or without fences (UseMembar): at a safepoint no thread runs Java  *)
(* code or code of the VM, and the VM thread waits for no thread that will *)
(* not call back.                                                          *)
(***************************************************************************)
EXTENDS Safepoint, FiniteSetTheorems, TLAPS

USE SafepointAssumption

-----------------------------------------------------------------------------
(* The inductive invariant                                                 *)

\* Thread t's state is s in memory, or will be when its buffer drains
Visible(t, s) == state[t] = s \/ \E i \in 1..Len(buffer[t]) : buffer[t][i] = s

\* The program points outside the VM, where a safepoint need not wait for the
\* thread, and those in the VM from which it calls back
OutPcs == {"native", "blocked", "reqblocked", "reqwait", "reqwaiting", "reqnotified",
           "blockout", "blocked_safepoint"}
InPcs == {"vm", "reqlock", "reqcheck", "block", "blocklock"}
Stopped(t) == \/ jt[t].pc \in OutPcs
              \/ jt[t].pc = "trans" /\ Own(t) \in {"in_native_trans", "blocked_trans"}
Owing(t) == \/ jt[t].pc \in InPcs
            \/ jt[t].pc = "trans" /\ Own(t) = "in_vm_trans"

\* A transition's target state belongs to the point where the thread goes on
Targets == {<<"in_Java", "java">>, <<"in_vm", "vm">>, <<"in_native", "native">>,
            <<"blocked", "blocked">>, <<"blocked", "reqblocked">>, <<"blocked", "reqwait">>,
            <<"in_vm", "reqcheck">>}
Target(t) == <<jt[t].to, jt[t].then>> \in Targets

\* The state a thread has stored last is that of the code it runs
OwnStateMatches(t) ==
    LET pc == jt[t].pc IN
    /\ pc = "java" => Own(t) = "in_Java"
    /\ pc = "native" => Own(t) = "in_native"
    /\ pc \in {"vm", "reqlock", "reqcheck", "blocklock"} => Own(t) = "in_vm"
    /\ pc \in OutPcs \ {"native", "blockout"} => Own(t) = "blocked"
    /\ pc = "block" => Own(t) = "in_vm_trans"
    /\ pc = "blockout" => Own(t) \in {"in_native_trans", "blocked_trans"}
    /\ pc \in {"trans", "finish"} => Own(t) \in Trans

\* A thread within a transition knows where to go on
TransitionTarget(t) ==
    LET pc == jt[t].pc IN
    /\ pc \in {"trans", "finish", "block", "blockout"} => Target(t)
    /\ pc \in {"blocklock", "blocked_safepoint"} =>
          jt[t].saved = "in_Java" \/ (jt[t].saved \in Trans /\ Target(t))

\* With UseMembar a transition's first store is in memory when _state is loaded
FencedAtCheck(t) == setup.UseMembar /\ jt[t].pc = "trans" => buffer[t] = <<>>

\* The VM thread's view of t is not older than the announcement of the safepoint
Serialized(t) == setup.UseMembar \/ (sync # "not_synchronized" /\ t \notin vm.flush)

\* Such a view is not misleading: a thread that is, or will be, seen outside the
\* VM stays there, and one that is seen in the VM calls back
ViewSound(t) ==
    Serialized(t) =>
        /\ Visible(t, "in_native") \/ Visible(t, "blocked") => Stopped(t)
        /\ Visible(t, "in_vm") => Owing(t)

ThreadsInv ==
    \A t \in JavaThreads : /\ OwnStateMatches(t) /\ TransitionTarget(t)
                           /\ FencedAtCheck(t) /\ ViewSound(t)

\* The VM thread's program counter tells who holds the locks
Idling == {"loop", "begin", "notify"}
Waiting == {"waiting", "notified"}
Stopping == {"serialize", "spin", "wait"} \cup Waiting
Operating == {"synchronized", "drain", "end", "endcleanup"}
PhaseInv ==
    /\ vm.pc \in Idling <=> sync = "not_synchronized"
    /\ vm.pc \in Stopping <=> sync = "synchronizing"
    /\ vm.pc \in Operating <=> sync = "synchronized"
    /\ sync = "not_synchronized" <=> Threads_lock = NoThread
    /\ Safepoint_lock = VMThread <=> vm.pc \in {"serialize", "spin", "wait"}
    /\ vm.flush # {} => vm.pc = "serialize"

\* What the VM thread has found out about a thread is so
TypeSound(t) ==
    /\ type[t] # "running" => vm.pc \notin Idling \cup {"serialize"}
    /\ type[t] = "running" => vm.pc \in Idling \cup {"serialize", "spin"}
    /\ type[t] = "at_safepoint" => Stopped(t)
    /\ type[t] = "call_back" => Owing(t) \/ jt[t].pc = "blocked_safepoint"

\* _waiting_to_block counts the threads that have not been seen outside the VM
\* and have not called back
Awaited == {t \in JavaThreads :
               type[t] = "running" \/ (type[t] = "call_back" /\ jt[t].pc # "blocked_safepoint")}
CountInv ==
    /\ vm.pc \in Stopping => waiting = Cardinality(Awaited)
    /\ vm.pc \in Operating => Awaited = {}

IInv ==
    /\ TypeOK /\ ThreadsInv /\ PhaseInv
    /\ \A t \in JavaThreads : TypeSound(t)
    /\ CountInv
-----------------------------------------------------------------------------
(* Store buffers                                                           *)

AllStates == States \cup Trans

\* A store is seen by the thread itself at once and by others some time later
LEMMA StoreEffect ==
  ASSUME TypeOK, NEW t \in JavaThreads, NEW s \in AllStates, Store(t, s)
  PROVE  /\ state' = state /\ setup' = setup /\ buffer' \in [JavaThreads -> Seq(AllStates)]
         /\ Own(t)' = s /\ \A x : Visible(t, x)' <=> Visible(t, x) \/ x = s
         /\ \A u \in JavaThreads : u # t =>
               /\ buffer'[u] = buffer[u] /\ Own(u)' = Own(u)
               /\ \A x : Visible(u, x)' <=> Visible(u, x)
<1>0. buffer \in [JavaThreads -> Seq(AllStates)] /\ buffer[t] \in Seq(AllStates)
  BY DEF TypeOK, AllStates
<1>1. state' = state /\ setup' = setup /\ buffer' = [buffer EXCEPT ![t] = Append(buffer[t], s)]
  BY DEF Store
<1>2. buffer' \in [JavaThreads -> Seq(AllStates)] /\ buffer'[t] = Append(buffer[t], s)
  BY <1>0, <1>1
<1>3. /\ buffer'[t] \in Seq(AllStates) /\ Len(buffer'[t]) = Len(buffer[t]) + 1
      /\ buffer'[t][Len(buffer[t]) + 1] = s
      /\ \A i \in 1..Len(buffer[t]) : buffer'[t][i] = buffer[t][i]
  BY <1>0, <1>2
<1>4. Own(t)' = s
  BY <1>3 DEF Own, Last
<1>5. ASSUME NEW x PROVE Visible(t, x)' <=> Visible(t, x) \/ x = s
  BY <1>0, <1>1, <1>3 DEF Visible
<1>6. ASSUME NEW u \in JavaThreads, u # t
      PROVE  /\ buffer'[u] = buffer[u] /\ Own(u)' = Own(u)
             /\ \A x : Visible(u, x)' <=> Visible(u, x)
  BY <1>0, <1>1, <1>6 DEF Own, Visible
<1> QED
  BY <1>1, <1>2, <1>4, <1>5, <1>6

\* A store with a fence leaves nothing in the buffer
LEMMA StoreFenceEffect ==
  ASSUME TypeOK, NEW t \in JavaThreads, NEW s \in AllStates, StoreFence(t, s)
  PROVE  /\ state' \in [JavaThreads -> AllStates] /\ setup' = setup
         /\ buffer' \in [JavaThreads -> Seq(AllStates)] /\ buffer'[t] = <<>>
         /\ Own(t)' = s /\ \A x : Visible(t, x)' <=> x = s
         /\ \A u \in JavaThreads : u # t =>
               /\ buffer'[u] = buffer[u] /\ Own(u)' = Own(u)
               /\ \A x : Visible(u, x)' <=> Visible(u, x)
<1>0. buffer \in [JavaThreads -> Seq(AllStates)] /\ state \in [JavaThreads -> AllStates]
  BY DEF TypeOK, AllStates
<1>1. /\ state' = [state EXCEPT ![t] = s] /\ buffer' = [buffer EXCEPT ![t] = <<>>]
      /\ setup' = setup
  BY DEF StoreFence
<1>2. /\ state' \in [JavaThreads -> AllStates] /\ buffer' \in [JavaThreads -> Seq(AllStates)]
      /\ state'[t] = s /\ buffer'[t] = <<>>
  BY <1>0, <1>1
<1>3. Own(t)' = s /\ \A x : Visible(t, x)' <=> x = s
  BY <1>2 DEF Own, Visible
<1>4. ASSUME NEW u \in JavaThreads, u # t
      PROVE  /\ buffer'[u] = buffer[u] /\ Own(u)' = Own(u)
             /\ \A x : Visible(u, x)' <=> Visible(u, x)
  BY <1>0, <1>1, <1>4 DEF Own, Visible
<1> QED
  BY <1>1, <1>2, <1>3, <1>4

\* Draining shows nothing that was not on the way, and the thread does not notice
LEMMA DrainEffect ==
  ASSUME TypeOK, NEW t \in JavaThreads, Drain(t)
  PROVE  /\ state' \in [JavaThreads -> AllStates] /\ setup' = setup
         /\ buffer' \in [JavaThreads -> Seq(AllStates)] /\ buffer[t] # <<>>
         /\ \A u \in JavaThreads : /\ u # t => buffer'[u] = buffer[u]
                                   /\ Own(u)' = Own(u)
                                   /\ \A x : Visible(u, x)' => Visible(u, x)
<1>0. /\ buffer \in [JavaThreads -> Seq(AllStates)] /\ state \in [JavaThreads -> AllStates]
      /\ buffer[t] \in Seq(AllStates) /\ buffer[t] # <<>>
  BY DEF TypeOK, AllStates, Drain
<1>1. /\ state' = [state EXCEPT ![t] = Head(buffer[t])]
      /\ buffer' = [buffer EXCEPT ![t] = Tail(buffer[t])] /\ setup' = setup
  BY DEF Drain
<1>2. /\ state'[t] = buffer[t][1] /\ Len(buffer[t]) \in Nat \ {0} /\ buffer[t][1] \in AllStates
      /\ buffer'[t] \in Seq(AllStates) /\ Len(buffer'[t]) = Len(buffer[t]) - 1
      /\ \A i \in 1..Len(buffer'[t]) : buffer'[t][i] = buffer[t][i + 1]
  BY <1>0, <1>1
<1>3. state' \in [JavaThreads -> AllStates] /\ buffer' \in [JavaThreads -> Seq(AllStates)]
  BY <1>0, <1>1, <1>2
<1>4. Own(t)' = Own(t)
  <2>1. CASE Len(buffer[t]) = 1
    <3>1. buffer'[t] = <<>>
      BY <1>2, <2>1
    <3> QED
      BY <1>0, <1>2, <2>1, <3>1 DEF Own, Last
  <2>2. CASE Len(buffer[t]) # 1
    <3>1. buffer'[t] # <<>>
      <4>1. Len(buffer'[t]) # 0
        BY <1>2, <2>2
      <4> QED
        BY <4>1
    <3> QED
      BY <1>0, <1>2, <2>2, <3>1 DEF Own, Last
  <2> QED
    BY <2>1, <2>2
<1>5. ASSUME NEW x, Visible(t, x)' PROVE Visible(t, x)
  BY <1>2, <1>5 DEF Visible
<1>6. ASSUME NEW u \in JavaThreads, u # t
      PROVE  /\ buffer'[u] = buffer[u] /\ Own(u)' = Own(u)
             /\ \A x : Visible(u, x)' => Visible(u, x)
  BY <1>0, <1>1, <1>6 DEF Own, Visible
<1> QED
  BY <1>0, <1>1, <1>3, <1>4, <1>5, <1>6
-----------------------------------------------------------------------------
(* Steps of a Java thread                                                  *)

ThreadSound(t) == /\ OwnStateMatches(t) /\ TransitionTarget(t) /\ FencedAtCheck(t)
                  /\ ViewSound(t) /\ TypeSound(t)

\* What a step of t leaves alone
OnlyThread(t) ==
    /\ \A u \in JavaThreads : u # t =>
          /\ jt'[u] = jt[u] /\ buffer'[u] = buffer[u] /\ Own(u)' = Own(u)
          /\ \A x : Visible(u, x)' => Visible(u, x)
    /\ UNCHANGED <<sync, armed, type, setup, Threads_lock, Safepoint_lock>>

\* What is known of the other threads stays true, also when the VM thread is woken
LEMMA OtherThreads ==
  ASSUME IInv, NEW t \in JavaThreads, OnlyThread(t), ThreadSound(t)', vm'.flush = vm.flush,
         vm'.pc = vm.pc \/ (vm.pc = "waiting" /\ vm'.pc = "notified")
  PROVE  ThreadsInv' /\ \A u \in JavaThreads : TypeSound(u)'
<1> ThreadsInv /\ \A u \in JavaThreads : TypeSound(u)
  BY DEF IInv
<1>1. ASSUME NEW u \in JavaThreads, u # t PROVE ThreadSound(u)'
  <2>1. OwnStateMatches(u)' /\ TransitionTarget(u)' /\ FencedAtCheck(u)'
    BY <1>1 DEF ThreadsInv, OnlyThread, OwnStateMatches, TransitionTarget, Target, FencedAtCheck
  <2>2. (Stopped(u)' <=> Stopped(u)) /\ (Owing(u)' <=> Owing(u))
    BY <1>1 DEF OnlyThread, Stopped, Owing
  <2>3. ViewSound(u)'
    BY <1>1, <2>2 DEF ThreadsInv, OnlyThread, ViewSound, Serialized
  <2>4. TypeSound(u)'
    BY <1>1, <2>2 DEF OnlyThread, TypeSound, Idling
  <2> QED
    BY <2>1, <2>3, <2>4 DEF ThreadSound
<1> QED
  BY <1>1 DEF ThreadsInv, ThreadSound

\* The VM thread stays where it is, and goes on to wait for the same threads
LEMMA ThreadStep ==
  ASSUME IInv, TypeOK', NEW t \in JavaThreads, OnlyThread(t), ThreadSound(t)',
         UNCHANGED <<waiting, vm>>,
         vm.pc \in Idling \/ ((t \in Awaited)' <=> t \in Awaited)
  PROVE  IInv'
<1> PhaseInv /\ CountInv
  BY DEF IInv
<1>1. ThreadsInv' /\ \A u \in JavaThreads : TypeSound(u)'
  BY OtherThreads
<1>2. PhaseInv'
  BY DEF PhaseInv, OnlyThread
<1>3. CountInv'
  <2>1. CASE vm.pc \in Idling
    BY <2>1 DEF CountInv, Idling, Stopping, Waiting, Operating
  <2>2. CASE (t \in Awaited)' <=> t \in Awaited
    <3>1. Awaited' = Awaited
      BY <2>2 DEF Awaited, OnlyThread
    <3> QED
      BY <3>1 DEF CountInv
  <2> QED
    BY <2>1, <2>2
<1> QED
  BY <1>1, <1>2, <1>3 DEF IInv

\* Types of the variables after a step of t
LEMMA ThreadTypes ==
  ASSUME TypeOK, NEW t \in JavaThreads, OnlyThread(t), UNCHANGED <<waiting, ops, vm>>,
         state' \in [JavaThreads -> AllStates], buffer' \in [JavaThreads -> Seq(AllStates)],
         VMOperationRequest_lock' \in JavaThreads \cup {NoThread},
         NEW l \in JavaLocals, jt' = [jt EXCEPT ![t] = l]
  PROVE  TypeOK'
  BY DEF TypeOK, OnlyThread, ops, AllStates

\* The first half of a transition
LEMMA TransitionStep ==
  ASSUME IInv, NEW t \in JavaThreads, NEW s, NEW l, <<s, l>> \in Targets, Transition(t, s, l),
         jt[t].pc \notin {"java", "trans", "finish", "block", "blockout", "blocklock", "blocked_safepoint"},
         UNCHANGED <<Threads_lock, Safepoint_lock>>,
         VMOperationRequest_lock' \in JavaThreads \cup {NoThread}
  PROVE  IInv'
<1> TypeOK /\ ThreadsInv /\ PhaseInv /\ (\A u \in JavaThreads : TypeSound(u)) /\ CountInv
  BY DEF IInv
<1>0. \/ jt[t].pc \in {"vm", "reqlock", "reqcheck"} /\ Own(t) = "in_vm"
      \/ jt[t].pc = "native" /\ Own(t) = "in_native"
      \/ jt[t].pc \in OutPcs \ {"native", "blockout", "blocked_safepoint"} /\ Own(t) = "blocked"
  <2>1. jt[t] \in JavaLocals
    BY DEF TypeOK
  <2>2. jt[t].pc \in {"vm", "native", "blocked", "reqlock", "reqblocked", "reqcheck", "reqwait",
                      "reqwaiting", "reqnotified"}
    BY <2>1 DEF JavaLocals
  <2> QED
    BY <2>2 DEF ThreadsInv, OwnStateMatches, OutPcs
<1>1. /\ trans(Own(t)) \in Trans /\ trans(Own(t)) \in AllStates
      /\ trans(Own(t)) = "in_vm_trans" <=> Own(t) = "in_vm"
  BY <1>0 DEF trans, Trans, AllStates
<1>2. /\ jt' = [jt EXCEPT ![t] = [pc |-> "trans", to |-> s, then |-> l, saved |-> "none"]]
      /\ UNCHANGED <<sync, armed, waiting, type, ops, vm>>
  BY DEF Transition, safepoint
<1>3. [pc |-> "trans", to |-> s, then |-> l, saved |-> "none"] \in JavaLocals
  BY DEF Targets, JavaLocals, States
<1>4. /\ state' \in [JavaThreads -> AllStates] /\ buffer' \in [JavaThreads -> Seq(AllStates)]
      /\ setup' = setup
      /\ Own(t)' = trans(Own(t)) /\ \A x : Visible(t, x)' => Visible(t, x) \/ x = trans(Own(t))
      /\ setup.UseMembar => buffer'[t] = <<>> /\ \A x : Visible(t, x)' => x = trans(Own(t))
      /\ \A u \in JavaThreads : u # t =>
               /\ buffer'[u] = buffer[u] /\ Own(u)' = Own(u)
               /\ \A x : Visible(u, x)' => Visible(u, x)
  <2>1. CASE setup.UseMembar
    <3>1. StoreFence(t, trans(Own(t)))
      BY <2>1 DEF Transition
    <3> QED
      BY <1>1, <2>1, <3>1, StoreFenceEffect
  <2>2. CASE ~setup.UseMembar
    <3>1. Store(t, trans(Own(t)))
      BY <2>2 DEF Transition
    <3> QED
      BY <1>1, <2>2, <3>1, StoreEffect DEF TypeOK, AllStates
  <2> QED
    BY <2>1, <2>2
<1>5. OnlyThread(t)
  BY <1>2, <1>4 DEF OnlyThread, TypeOK
<1>6. TypeOK'
  BY <1>2, <1>3, <1>4, <1>5, ThreadTypes
<1>7. jt'[t].pc = "trans" /\ <<jt'[t].to, jt'[t].then>> \in Targets
  BY <1>2 DEF TypeOK
<1>8. /\ Stopped(t)' <=> Own(t) # "in_vm"
      /\ Owing(t)' <=> Own(t) = "in_vm"
  BY <1>0, <1>1, <1>4, <1>7 DEF Stopped, Owing, OutPcs, InPcs, trans
<1>9. ThreadSound(t)'
  <2>1. OwnStateMatches(t)' /\ TransitionTarget(t)' /\ FencedAtCheck(t)'
    BY <1>1, <1>4, <1>7 DEF OwnStateMatches, TransitionTarget, Target, FencedAtCheck, OutPcs
  <2>2. /\ Stopped(t) <=> Own(t) # "in_vm"
        /\ Owing(t) <=> Own(t) = "in_vm"
    BY <1>0 DEF Stopped, Owing, OutPcs, InPcs
  <2>3. ViewSound(t)'
    BY <1>1, <1>2, <1>4, <1>8, <2>2 DEF ThreadsInv, ViewSound, Serialized, Trans
  <2>4. TypeSound(t)'
    BY <1>0, <1>2, <1>8, <2>2 DEF TypeSound, OutPcs
  <2> QED
    BY <2>1, <2>3, <2>4 DEF ThreadSound
<1>10. (t \in Awaited)' <=> t \in Awaited
  BY <1>0, <1>2, <1>7 DEF Awaited, OutPcs
<1> QED
  BY <1>2, <1>5, <1>6, <1>9, <1>10, ThreadStep

\* A step of t without a store
LEMMA PureStep ==
  ASSUME IInv, NEW t \in JavaThreads, NEW l \in JavaLocals, jt' = [jt EXCEPT ![t] = l],
         UNCHANGED <<safepoint, memory, Threads_lock, Safepoint_lock, vm>>, 
         VMOperationRequest_lock' \in JavaThreads \cup {NoThread},
         UNCHANGED ops \/ TypeOK',
         ThreadSound(t)', (t \in Awaited)' <=> t \in Awaited
  PROVE  IInv'
<1>1. TypeOK /\ jt \in [JavaThreads -> JavaLocals]
  BY DEF IInv, TypeOK
<1>2. OnlyThread(t)
  BY <1>1 DEF OnlyThread, safepoint, memory, Own, Visible
<1>3. TypeOK'
  BY <1>1, <1>2, ThreadTypes DEF safepoint, memory, TypeOK, AllStates
<1> QED
  BY <1>2, <1>3, ThreadStep DEF safepoint

\* A step of t with a store, fenced or not
LEMMA StoringStep ==
  ASSUME IInv, NEW t \in JavaThreads, NEW s \in AllStates, Store(t, s) \/ StoreFence(t, s),
         NEW l \in JavaLocals, jt' = [jt EXCEPT ![t] = l], UNCHANGED <<safepoint, locks, ops, vm>>,
         ThreadSound(t)', vm.pc \in Idling \/ ((t \in Awaited)' <=> t \in Awaited)
  PROVE  IInv'
<1>1. TypeOK /\ jt \in [JavaThreads -> JavaLocals] /\ state \in [JavaThreads -> AllStates]
  BY DEF IInv, TypeOK, AllStates
<1>2. /\ state' \in [JavaThreads -> AllStates] /\ buffer' \in [JavaThreads -> Seq(AllStates)]
      /\ setup' = setup
      /\ \A u \in JavaThreads : u # t =>
               /\ buffer'[u] = buffer[u] /\ Own(u)' = Own(u)
               /\ \A x : Visible(u, x)' => Visible(u, x)
  <2>1. CASE Store(t, s)
    BY <1>1, <2>1, StoreEffect
  <2>2. CASE StoreFence(t, s)
    BY <1>1, <2>2, StoreFenceEffect
  <2> QED
    BY <2>1, <2>2
<1>3. OnlyThread(t)
  BY <1>1, <1>2 DEF OnlyThread, safepoint, locks
<1>4. TypeOK'
  BY <1>1, <1>2, <1>3, ThreadTypes DEF safepoint, locks, TypeOK
<1> QED
  BY <1>3, <1>4, ThreadStep DEF safepoint

\* From Java into the VM or into native code
LEMMA LeaveJavaInvariant ==
  ASSUME IInv, NEW t \in JavaThreads, NEW l, NEW s, LeaveJava(t, l, s),
         <<l, s>> \in {<<"vm", "in_vm">>, <<"native", "in_native">>}
  PROVE  IInv'
<1> TypeOK /\ ThreadsInv /\ PhaseInv /\ (\A u \in JavaThreads : TypeSound(u))
  BY DEF IInv
<1>0. s \in AllStates /\ jt[t] \in JavaLocals /\ jt \in [JavaThreads -> JavaLocals]
  BY DEF AllStates, States, TypeOK
<1>1. /\ Store(t, s) /\ UNCHANGED <<safepoint, locks, ops, vm>>
      /\ jt' = [jt EXCEPT ![t] = [jt[t] EXCEPT !.pc = l]] /\ jt[t].pc = "java"
  BY DEF LeaveJava, At, Goto
<1>2. [jt[t] EXCEPT !.pc = l] \in JavaLocals /\ jt'[t].pc = l
  BY <1>0, <1>1 DEF JavaLocals
<1>3. /\ Own(t)' = s /\ \A x : Visible(t, x)' <=> Visible(t, x) \/ x = s
      /\ setup' = setup
  BY <1>0, <1>1, StoreEffect
<1>4. ~Stopped(t) /\ ~Owing(t) /\ (Stopped(t)' <=> l = "native") /\ (Owing(t)' <=> l = "vm")
  BY <1>1, <1>2 DEF Stopped, Owing, OutPcs, InPcs
<1>5. ThreadSound(t)'
  <2>1. OwnStateMatches(t)' /\ TransitionTarget(t)' /\ FencedAtCheck(t)'
    BY <1>2, <1>3 DEF OwnStateMatches, TransitionTarget, FencedAtCheck, OutPcs
  <2>2. ViewSound(t)'
    BY <1>1, <1>3, <1>4 DEF ThreadsInv, ViewSound, Serialized, safepoint
  <2>3. TypeSound(t)'
    BY <1>1, <1>4 DEF TypeSound, safepoint
  <2> QED
    BY <2>1, <2>2, <2>3 DEF ThreadSound
<1>6. (t \in Awaited)' <=> t \in Awaited
  BY <1>1, <1>2 DEF Awaited, safepoint
<1> QED
  BY <1>0, <1>1, <1>2, <1>5, <1>6, StoringStep

\* do_call_back() is loaded: a thread that sees no safepoint is not serialized, or
\* fenced, and then nothing is visible but the state of its transition
LEMMA CheckSafepointInvariant ==
  ASSUME IInv, NEW t \in JavaThreads, CheckSafepoint(t)
  PROVE  IInv'
<1> TypeOK /\ ThreadsInv /\ PhaseInv /\ (\A u \in JavaThreads : TypeSound(u))
  BY DEF IInv
<1>0. jt[t] \in JavaLocals /\ jt \in [JavaThreads -> JavaLocals] /\ jt[t].pc = "trans"
  BY DEF CheckSafepoint, At, TypeOK
<1> DEFINE l == CASE sync = "not_synchronized" -> "finish"
                  [] sync # "not_synchronized" /\ Own(t) = "in_vm_trans" -> "block"
                  [] sync # "not_synchronized" /\ Own(t) # "in_vm_trans" -> "blockout"
<1>1. /\ UNCHANGED <<safepoint, memory, locks, ops, vm>>
      /\ jt' = [jt EXCEPT ![t] = [jt[t] EXCEPT !.pc = l]]
  BY DEF CheckSafepoint, Goto
<1>2. \/ sync = "not_synchronized" /\ l = "finish"
      \/ sync # "not_synchronized" /\ Own(t) = "in_vm_trans" /\ l = "block"
      \/ sync # "not_synchronized" /\ Own(t) # "in_vm_trans" /\ l = "blockout"
  OBVIOUS
<1> HIDE DEF l
<1>3. [jt[t] EXCEPT !.pc = l] \in JavaLocals
  BY <1>0, <1>2 DEF JavaLocals
<1>4. jt'[t].pc = l /\ jt'[t].to = jt[t].to /\ jt'[t].then = jt[t].then
  BY <1>0, <1>1 DEF JavaLocals
<1>5. /\ Own(t)' = Own(t) /\ Own(t) \in Trans
      /\ Visible(t, "in_vm")' <=> Visible(t, "in_vm")
      /\ Visible(t, "in_native")' <=> Visible(t, "in_native")
      /\ Visible(t, "blocked")' <=> Visible(t, "blocked")
  BY <1>0, <1>1 DEF memory, Own, Visible, ThreadsInv, OwnStateMatches
<1>6. ThreadSound(t)'
  <2>1. OwnStateMatches(t)' /\ TransitionTarget(t)' /\ FencedAtCheck(t)'
    BY <1>0, <1>2, <1>4, <1>5
       DEF OwnStateMatches, TransitionTarget, Target, FencedAtCheck, OutPcs, Trans, ThreadsInv
  <2>2. CASE sync = "not_synchronized"
    <3>1. TypeSound(t)'
      BY <1>1, <2>2 DEF TypeSound, safepoint, PhaseInv
    <3>2. setup.UseMembar => /\ ~Visible(t, "in_vm")
                             /\ ~Visible(t, "in_native") /\ ~Visible(t, "blocked")
      <4>1. setup.UseMembar => buffer[t] = <<>> /\ state[t] \in Trans
        BY <1>0, <1>5 DEF ThreadsInv, FencedAtCheck, Own
      <4> QED
        BY <4>1 DEF Visible, Trans
    <3>3. ViewSound(t)'
      BY <1>1, <1>5, <2>2, <3>2 DEF ViewSound, Serialized, safepoint, memory
    <3> QED
      BY <2>1, <3>1, <3>3 DEF ThreadSound
  <2>3. CASE sync # "not_synchronized"
    <3>1. (Stopped(t)' <=> Stopped(t)) /\ (Owing(t)' <=> Owing(t))
      BY <1>0, <1>2, <1>4, <1>5, <2>3 DEF Stopped, Owing, OutPcs, InPcs, Trans
    <3>2. ViewSound(t)'
      BY <1>1, <1>5, <3>1 DEF ThreadsInv, ViewSound, Serialized, safepoint, memory
    <3>3. TypeSound(t)'
      BY <1>0, <1>1, <3>1 DEF TypeSound, safepoint
    <3> QED
      BY <2>1, <3>2, <3>3 DEF ThreadSound
  <2> QED
    BY <2>2, <2>3
<1>7. (t \in Awaited)' <=> t \in Awaited
  BY <1>0, <1>1, <1>2, <1>4 DEF Awaited, safepoint
<1>8. VMOperationRequest_lock' \in JavaThreads \cup {NoThread}
  BY <1>1 DEF locks, TypeOK
<1> QED
  BY <1>1, <1>3, <1>6, <1>7, <1>8, PureStep DEF locks

\* The second half of a transition: the thread enters the code of its new state
LEMMA FinishTransitionInvariant ==
  ASSUME IInv, NEW t \in JavaThreads, FinishTransition(t)
  PROVE  IInv'
<1> TypeOK /\ ThreadsInv /\ PhaseInv /\ (\A u \in JavaThreads : TypeSound(u))
  BY DEF IInv
<1>0. jt \in [JavaThreads -> JavaLocals] /\ jt[t].pc = "finish" /\ Target(t)
  BY DEF FinishTransition, At, TypeOK, ThreadsInv, TransitionTarget
<1>1. jt[t].to \in AllStates /\ Outside(jt[t].then) \in JavaLocals
  BY <1>0 DEF Target, Targets, AllStates, States, Outside, JavaLocals
<1>2. /\ Store(t, jt[t].to) /\ UNCHANGED <<safepoint, locks, ops, vm>>
      /\ jt' = [jt EXCEPT ![t] = Outside(jt[t].then)]
  BY DEF FinishTransition
<1>3. jt'[t].pc = jt[t].then
  BY <1>0, <1>2 DEF Outside
<1>4. /\ Own(t)' = jt[t].to /\ \A x : Visible(t, x)' <=> Visible(t, x) \/ x = jt[t].to
      /\ setup' = setup
  BY <1>1, <1>2, StoreEffect
<1>5. /\ ~Stopped(t) /\ ~Owing(t)
      /\ jt[t].to \in {"in_native", "blocked"} => Stopped(t)'
      /\ jt[t].to = "in_vm" => Owing(t)'
  BY <1>0, <1>3 DEF Stopped, Owing, OutPcs, InPcs, Target, Targets
<1>6. ThreadSound(t)'
  <2>1. OwnStateMatches(t)' /\ TransitionTarget(t)' /\ FencedAtCheck(t)'
    BY <1>0, <1>3, <1>4
       DEF OwnStateMatches, TransitionTarget, FencedAtCheck, OutPcs, Target, Targets
  <2>2. ViewSound(t)'
    BY <1>2, <1>4, <1>5 DEF ThreadsInv, ViewSound, Serialized, safepoint
  <2>3. TypeSound(t)'
    BY <1>2, <1>5, <1>0 DEF TypeSound, safepoint
  <2> QED
    BY <2>1, <2>2, <2>3 DEF ThreadSound
<1>7. (t \in Awaited)' <=> t \in Awaited
  BY <1>0, <1>2, <1>3 DEF Awaited, safepoint, Target, Targets
<1> QED
  BY <1>1, <1>2, <1>6, <1>7, StoringStep

\* block() in a thread from Java code or from the VM: it claims to be in the VM
LEMMA PretendInVMInvariant ==
  ASSUME IInv, NEW t \in JavaThreads, jt[t].pc \in {"java", "block"}, PretendInVM(t)
  PROVE  IInv'
<1> TypeOK /\ ThreadsInv /\ PhaseInv /\ (\A u \in JavaThreads : TypeSound(u))
  BY DEF IInv
<1>0. /\ jt \in [JavaThreads -> JavaLocals] /\ jt[t] \in JavaLocals
      /\ jt[t].pc = "java" => Own(t) = "in_Java"
      /\ jt[t].pc = "block" => Own(t) = "in_vm_trans" /\ Target(t)
  BY DEF TypeOK, ThreadsInv, OwnStateMatches, TransitionTarget
<1> DEFINE l == [jt[t] EXCEPT !.pc = "blocklock", !.saved = Own(t)]
<1>1. "in_vm" \in AllStates /\ l \in JavaLocals
  BY <1>0 DEF AllStates, States, JavaLocals, Trans
<1>2. Store(t, "in_vm") /\ UNCHANGED <<safepoint, locks, ops, vm>> /\ jt' = [jt EXCEPT ![t] = l]
  BY DEF PretendInVM
<1>3. /\ jt'[t].pc = "blocklock" /\ jt'[t].saved = Own(t)
      /\ jt'[t].to = jt[t].to /\ jt'[t].then = jt[t].then
  BY <1>0, <1>2 DEF JavaLocals
<1> HIDE DEF l
<1>4. /\ Own(t)' = "in_vm" /\ \A x : Visible(t, x)' <=> Visible(t, x) \/ x = "in_vm"
      /\ setup' = setup
  BY <1>1, <1>2, StoreEffect
<1>5. ~Stopped(t) /\ ~Stopped(t)' /\ Owing(t)'
  BY <1>3 DEF Stopped, Owing, OutPcs, InPcs
<1>6. ThreadSound(t)'
  <2>1. OwnStateMatches(t)' /\ FencedAtCheck(t)'
    BY <1>3, <1>4 DEF OwnStateMatches, FencedAtCheck, OutPcs
  <2>2. TransitionTarget(t)'
    BY <1>0, <1>3 DEF TransitionTarget, Target, Trans
  <2>3. ViewSound(t)'
    BY <1>2, <1>4, <1>5 DEF ThreadsInv, ViewSound, Serialized, safepoint
  <2>4. TypeSound(t)'
    BY <1>2, <1>5 DEF TypeSound, safepoint
  <2> QED
    BY <2>1, <2>2, <2>3, <2>4 DEF ThreadSound
<1>7. (t \in Awaited)' <=> t \in Awaited
  BY <1>2, <1>3 DEF Awaited, safepoint
<1> QED
  BY <1>1, <1>2, <1>6, <1>7, StoringStep

\* A thread from outside the VM blocks without a call back
LEMMA BlockOutsideInvariant ==
  ASSUME IInv, NEW t \in JavaThreads, BlockOutside(t)
  PROVE  IInv'
<1> TypeOK /\ ThreadsInv /\ PhaseInv /\ (\A u \in JavaThreads : TypeSound(u))
  BY DEF IInv
<1>0. /\ jt \in [JavaThreads -> JavaLocals] /\ jt[t] \in JavaLocals
      /\ jt[t].pc = "blockout" /\ type[t] # "call_back"
      /\ Own(t) \in {"in_native_trans", "blocked_trans"} /\ Target(t)
  BY DEF BlockOutside, At, TypeOK, ThreadsInv, OwnStateMatches, TransitionTarget
<1> DEFINE l == [jt[t] EXCEPT !.pc = "blocked_safepoint", !.saved = Own(t)]
<1>1. "blocked" \in AllStates /\ l \in JavaLocals
  BY <1>0 DEF AllStates, States, JavaLocals, Trans
<1>2. Store(t, "blocked") /\ UNCHANGED <<safepoint, locks, ops, vm>> /\ jt' = [jt EXCEPT ![t] = l]
  BY DEF BlockOutside
<1>3. /\ jt'[t].pc = "blocked_safepoint" /\ jt'[t].saved = Own(t)
      /\ jt'[t].to = jt[t].to /\ jt'[t].then = jt[t].then
  BY <1>0, <1>2 DEF JavaLocals
<1> HIDE DEF l
<1>4. /\ Own(t)' = "blocked" /\ \A x : Visible(t, x)' <=> Visible(t, x) \/ x = "blocked"
      /\ setup' = setup
  BY <1>1, <1>2, StoreEffect
<1>5. Stopped(t) /\ ~Owing(t) /\ Stopped(t)' /\ ~Owing(t)'
  BY <1>0, <1>3 DEF Stopped, Owing, OutPcs, InPcs
<1>6. ThreadSound(t)'
  <2>1. OwnStateMatches(t)' /\ FencedAtCheck(t)'
    BY <1>3, <1>4 DEF OwnStateMatches, FencedAtCheck, OutPcs
  <2>2. TransitionTarget(t)'
    BY <1>0, <1>3 DEF TransitionTarget, Target, Trans
  <2>3. ViewSound(t)'
    BY <1>2, <1>4, <1>5 DEF ThreadsInv, ViewSound, Serialized, safepoint
  <2>4. TypeSound(t)'
    BY <1>2, <1>3, <1>5 DEF TypeSound, safepoint
  <2> QED
    BY <2>1, <2>2, <2>3, <2>4 DEF ThreadSound
<1>7. (t \in Awaited)' <=> t \in Awaited
  BY <1>0, <1>2, <1>3 DEF Awaited, safepoint
<1> QED
  BY <1>1, <1>2, <1>6, <1>7, StoringStep

\* The thread goes on after the safepoint, in the state it was stopped in
LEMMA RestartedInvariant ==
  ASSUME IInv, NEW t \in JavaThreads, Restarted(t)
  PROVE  IInv'
<1> TypeOK /\ ThreadsInv /\ PhaseInv /\ (\A u \in JavaThreads : TypeSound(u))
  BY DEF IInv
<1>0. /\ jt \in [JavaThreads -> JavaLocals] /\ jt[t] \in JavaLocals
      /\ jt[t].pc = "blocked_safepoint" /\ vm.pc \in Idling /\ sync = "not_synchronized"
      /\ jt[t].saved = "in_Java" \/ (jt[t].saved \in Trans /\ Target(t))
  BY DEF Restarted, At, TypeOK, ThreadsInv, TransitionTarget, PhaseInv
<1> DEFINE s == jt[t].saved
           pc == IF s = "in_Java" THEN "java" ELSE "finish"
           l == [jt[t] EXCEPT !.pc = pc, !.saved = "none"]
<1>1. s \in AllStates /\ l \in JavaLocals
  BY <1>0 DEF AllStates, States, JavaLocals
<1>2. /\ StoreFence(t, s) /\ UNCHANGED <<safepoint, locks, ops, vm>>
      /\ jt' = [jt EXCEPT ![t] = l]
  BY DEF Restarted
<1>3. jt'[t].pc = pc /\ jt'[t].to = jt[t].to /\ jt'[t].then = jt[t].then
  BY <1>0, <1>2 DEF JavaLocals
<1> HIDE DEF l
<1>4. Own(t)' = s /\ (\A x : Visible(t, x)' <=> x = s) /\ setup' = setup
  BY <1>1, <1>2, StoreFenceEffect
<1>5. ThreadSound(t)'
  <2>1. OwnStateMatches(t)' /\ FencedAtCheck(t)'
    BY <1>0, <1>3, <1>4 DEF OwnStateMatches, FencedAtCheck, OutPcs, Trans
  <2>2. TransitionTarget(t)'
    BY <1>0, <1>3 DEF TransitionTarget, Target, Trans
  <2>3. ViewSound(t)'
    BY <1>0, <1>4 DEF ViewSound, Trans
  <2>4. TypeSound(t)'
    BY <1>0, <1>2 DEF TypeSound, safepoint
  <2> QED
    BY <2>1, <2>2, <2>3, <2>4 DEF ThreadSound
<1> QED
  BY <1>0, <1>1, <1>2, <1>5, StoringStep

\* A thread that requests an operation, or waits for it, stays in its state
LEMMA RequestStep ==
  ASSUME IInv, NEW t \in JavaThreads, NEW l, Goto(t, l),
         UNCHANGED <<safepoint, memory, Threads_lock, Safepoint_lock, vm>>,
         VMOperationRequest_lock' \in JavaThreads \cup {NoThread},
         UNCHANGED ops \/ /\ queue' \in Seq(JavaThreads) /\ started' \in [JavaThreads -> Nat]
                          /\ completed' = completed,
         {jt[t].pc, l} \subseteq {"vm", "reqlock", "reqcheck"} \/ {jt[t].pc, l} \subseteq {"reqwait", "reqwaiting"}
  PROVE  IInv'
<1> TypeOK /\ ThreadsInv /\ PhaseInv /\ (\A u \in JavaThreads : TypeSound(u))
  BY DEF IInv
<1>0. jt \in [JavaThreads -> JavaLocals] /\ jt[t] \in JavaLocals
  BY DEF TypeOK
<1>1. [jt[t] EXCEPT !.pc = l] \in JavaLocals
  BY <1>0 DEF JavaLocals
<1>2. jt' = [jt EXCEPT ![t] = [jt[t] EXCEPT !.pc = l]] /\ jt'[t].pc = l
  BY <1>0 DEF Goto, JavaLocals
<1>3. /\ Own(t)' = Own(t)
      /\ Visible(t, "in_vm")' <=> Visible(t, "in_vm")
      /\ Visible(t, "in_native")' <=> Visible(t, "in_native")
      /\ Visible(t, "blocked")' <=> Visible(t, "blocked")
  BY DEF memory, Own, Visible
<1>4. (Stopped(t)' <=> Stopped(t)) /\ (Owing(t)' <=> Owing(t))
  BY <1>2 DEF Stopped, Owing, OutPcs, InPcs
<1>5. ThreadSound(t)'
  <2>1. OwnStateMatches(t)' /\ TransitionTarget(t)' /\ FencedAtCheck(t)'
    BY <1>2, <1>3 DEF ThreadsInv, OwnStateMatches, TransitionTarget, FencedAtCheck, OutPcs
  <2>2. ViewSound(t)'
    BY <1>3, <1>4 DEF ThreadsInv, ViewSound, Serialized, safepoint, memory
  <2>3. TypeSound(t)'
    BY <1>2, <1>4 DEF TypeSound, safepoint
  <2> QED
    BY <2>1, <2>2, <2>3 DEF ThreadSound
<1>6. (t \in Awaited)' <=> t \in Awaited
  BY <1>2 DEF Awaited, safepoint
<1>7. UNCHANGED ops \/ TypeOK'
  BY <1>0, <1>1, <1>2 DEF TypeOK, safepoint, memory
<1> QED
  BY <1>1, <1>2, <1>5, <1>6, <1>7, PureStep

\* VMThread::execute: queue the operation, take the lock, wait, return
LEMMA RequestInvariant ==
  ASSUME IInv, NEW t \in JavaThreads,
         Request(t) \/ RequestLock(t) \/ RequestLocked(t) \/ RequestCheck(t) \/ RequestWait(t)
             \/ RequestDone(t)
  PROVE  IInv'
<1> TypeOK
  BY DEF IInv
<1>0. VMOperationRequest_lock \in JavaThreads \cup {NoThread}
  BY DEF TypeOK
<1>1. CASE Request(t)
  <2>1. queue' \in Seq(JavaThreads) /\ started' \in [JavaThreads -> Nat] /\ completed' = completed
    BY <1>1 DEF Request, TypeOK
  <2>2. /\ Goto(t, "reqlock") /\ jt[t].pc = "vm"
        /\ UNCHANGED <<safepoint, memory, Threads_lock, Safepoint_lock, VMOperationRequest_lock, vm>>
    BY <1>1 DEF Request, At, locks
  <2> QED
    BY <1>0, <2>1, <2>2, RequestStep
<1>2. CASE RequestLock(t)
  <2>1. CASE VMOperationRequest_lock = NoThread
    <3>1. /\ Goto(t, "reqcheck") /\ jt[t].pc = "reqlock" /\ VMOperationRequest_lock' = t
          /\ UNCHANGED <<safepoint, memory, Threads_lock, Safepoint_lock, ops, vm>>
      BY <1>2, <2>1 DEF RequestLock, At
    <3> QED
      BY <3>1, RequestStep
  <2>2. CASE VMOperationRequest_lock # NoThread
    <3>1. Transition(t, "blocked", "reqblocked") /\ UNCHANGED locks /\ jt[t].pc = "reqlock"
      BY <1>2, <2>2 DEF RequestLock, At
    <3>2. <<"blocked", "reqblocked">> \in Targets
      BY DEF Targets
    <3> QED
      BY <1>0, <3>1, <3>2, TransitionStep DEF locks
  <2> QED
    BY <2>1, <2>2
<1>3. CASE RequestLocked(t)
  <2>1. /\ Transition(t, "in_vm", "reqcheck") /\ jt[t].pc \in {"reqblocked", "reqnotified"}
        /\ VMOperationRequest_lock' = t /\ UNCHANGED <<Threads_lock, Safepoint_lock>>
    BY <1>3 DEF RequestLocked
  <2>2. <<"in_vm", "reqcheck">> \in Targets
    BY DEF Targets
  <2> QED
    BY <2>1, <2>2, TransitionStep
<1>4. CASE RequestCheck(t)
  <2>1. Transition(t, "blocked", "reqwait") /\ UNCHANGED locks /\ jt[t].pc = "reqcheck"
    BY <1>4 DEF RequestCheck, At
  <2>2. <<"blocked", "reqwait">> \in Targets
    BY DEF Targets
  <2> QED
    BY <1>0, <2>1, <2>2, TransitionStep DEF locks
<1>5. CASE RequestWait(t)
  <2>1. /\ Goto(t, "reqwaiting") /\ jt[t].pc = "reqwait" /\ VMOperationRequest_lock' = NoThread
        /\ UNCHANGED <<safepoint, memory, Threads_lock, Safepoint_lock, ops, vm>>
    BY <1>5 DEF RequestWait, At
  <2> QED
    BY <2>1, RequestStep
<1>6. CASE RequestDone(t)
  <2>1. /\ Goto(t, "vm") /\ jt[t].pc = "reqcheck" /\ VMOperationRequest_lock' = NoThread
        /\ UNCHANGED <<safepoint, memory, Threads_lock, Safepoint_lock, ops, vm>>
    BY <1>6 DEF RequestDone, At
  <2> QED
    BY <2>1, RequestStep
<1> QED
  BY <1>1, <1>2, <1>3, <1>4, <1>5, <1>6

\* A transition out of the VM, out of native code or out of a blocked state
LEMMA LeaveInvariant ==
  ASSUME IInv, NEW t \in JavaThreads, LeaveVM(t) \/ LeaveNative(t) \/ Unblock(t)
  PROVE  IInv'
<1>1. VMOperationRequest_lock \in JavaThreads \cup {NoThread}
  BY DEF IInv, TypeOK
<1>2. PICK p \in Targets : Transition(t, p[1], p[2])
  BY DEF LeaveVM, LeaveNative, Unblock, Targets
<1>3. <<p[1], p[2]>> \in Targets /\ UNCHANGED locks /\ jt[t].pc \in {"vm", "native", "blocked"}
  BY <1>2 DEF LeaveVM, LeaveNative, Unblock, Targets, At
<1> QED
  BY <1>1, <1>2, <1>3, TransitionStep DEF locks

\* A store reaches memory
LEMMA DrainInvariant ==
  ASSUME IInv, NEW t \in JavaThreads, Drain(t)
  PROVE  IInv'
<1> TypeOK /\ ThreadsInv /\ \A u \in JavaThreads : TypeSound(u)
  BY DEF IInv
<1>1. UNCHANGED <<safepoint, setup, locks, ops, jt, vm>>
  BY DEF Drain
<1>2. /\ state' \in [JavaThreads -> AllStates] /\ buffer' \in [JavaThreads -> Seq(AllStates)]
      /\ buffer[t] # <<>>
      /\ \A u \in JavaThreads : /\ u # t => buffer'[u] = buffer[u]
                                /\ Own(u)' = Own(u)
                                /\ \A x : Visible(u, x)' => Visible(u, x)
  BY DrainEffect
<1>3. OnlyThread(t)
  BY <1>1, <1>2 DEF OnlyThread, safepoint, locks
<1>4. TypeOK'
  BY <1>1, <1>2 DEF TypeOK, safepoint, locks, ops, AllStates
<1>5. (Stopped(t)' <=> Stopped(t)) /\ (Owing(t)' <=> Owing(t))
  BY <1>1, <1>2 DEF Stopped, Owing
<1>6. ThreadSound(t)'
  <2>1. OwnStateMatches(t)' /\ TransitionTarget(t)' /\ FencedAtCheck(t)'
    BY <1>1, <1>2 DEF ThreadsInv, OwnStateMatches, TransitionTarget, Target, FencedAtCheck
  <2>2. ViewSound(t)'
    BY <1>1, <1>2, <1>5 DEF ThreadsInv, ViewSound, Serialized, safepoint
  <2>3. TypeSound(t)'
    BY <1>1, <1>5 DEF TypeSound, safepoint
  <2> QED
    BY <2>1, <2>2, <2>3 DEF ThreadSound
<1>7. (t \in Awaited)' <=> t \in Awaited
  BY <1>1 DEF Awaited, safepoint
<1> QED
  BY <1>1, <1>3, <1>4, <1>6, <1>7, ThreadStep DEF safepoint

\* The count of the threads to wait for is one of finitely many
LEMMA AwaitedCount ==
  /\ IsFiniteSet(Awaited) /\ Cardinality(Awaited) \in 0..Cardinality(JavaThreads)
  /\ Cardinality(Awaited) = 0 <=> Awaited = {}
  /\ \A t \in Awaited : Cardinality(Awaited \ {t}) = Cardinality(Awaited) - 1
<1>1. Awaited \subseteq JavaThreads
  BY DEF Awaited
<1>2. IsFiniteSet(Awaited) /\ Cardinality(Awaited) <= Cardinality(JavaThreads)
  BY <1>1, FS_Subset
<1>3. Cardinality(Awaited) \in Nat /\ Cardinality(JavaThreads) \in Nat
  BY <1>2, FS_CardinalityType
<1>4. Cardinality(Awaited) = 0 <=> Awaited = {}
  BY <1>2, FS_EmptySet
<1>5. \A t \in Awaited : Cardinality(Awaited \ {t}) = Cardinality(Awaited) - 1
  BY <1>2, FS_RemoveElement
<1> QED
  BY <1>2, <1>3, <1>4, <1>5

\* Safepoint_lock is free only when no thread is left to be examined, so a thread
\* that calls back while the VM thread synchronizes is one it waits for
LEMMA CallBackInvariant ==
  ASSUME IInv, NEW t \in JavaThreads, CallBack(t)
  PROVE  IInv'
<1> TypeOK /\ ThreadsInv /\ PhaseInv /\ (\A u \in JavaThreads : TypeSound(u)) /\ CountInv
  BY DEF IInv
<1>0. /\ jt \in [JavaThreads -> JavaLocals] /\ jt[t] \in JavaLocals /\ vm \in VMLocals
      /\ jt[t].pc = "blocklock" /\ Safepoint_lock = NoThread
      /\ jt[t].saved = "in_Java" \/ (jt[t].saved \in Trans /\ Target(t))
  BY DEF CallBack, At, TypeOK, ThreadsInv, TransitionTarget
<1>1. /\ StoreFence(t, "blocked") /\ UNCHANGED <<sync, armed, type, locks, ops>>
      /\ jt' = [jt EXCEPT ![t] = [jt[t] EXCEPT !.pc = "blocked_safepoint"]]
      /\ waiting' = IF sync = "synchronizing" THEN waiting - 1 ELSE waiting
  BY DEF CallBack, Goto
<1>2. /\ vm' \in VMLocals /\ vm'.flush = vm.flush
      /\ vm' = vm \/ (vm.pc = "waiting" /\ vm'.pc = "notified" /\ sync = "synchronizing")
  <2>1. vm' = vm \/ (vm.pc = "waiting" /\ sync = "synchronizing" /\ vm' = [vm EXCEPT !.pc = "notified"])
    BY DEF CallBack, VMAt, VMGoto
  <2>2. [vm EXCEPT !.pc = "notified"] \in VMLocals
    BY <1>0 DEF VMLocals
  <2> QED
    BY <1>0, <2>1, <2>2 DEF VMLocals
<1>3. /\ jt' \in [JavaThreads -> JavaLocals] /\ jt'[t].pc = "blocked_safepoint"
      /\ jt'[t].saved = jt[t].saved /\ jt'[t].to = jt[t].to /\ jt'[t].then = jt[t].then
      /\ \A u \in JavaThreads : u # t => jt'[u] = jt[u]
  <2>1. [jt[t] EXCEPT !.pc = "blocked_safepoint"] \in JavaLocals
    BY <1>0 DEF JavaLocals
  <2> QED
    BY <1>0, <1>1, <2>1 DEF JavaLocals
<1>4. /\ state' \in [JavaThreads -> AllStates] /\ buffer' \in [JavaThreads -> Seq(AllStates)]
      /\ setup' = setup /\ Own(t)' = "blocked" /\ \A x : Visible(t, x)' <=> x = "blocked"
      /\ \A u \in JavaThreads : u # t => /\ buffer'[u] = buffer[u] /\ Own(u)' = Own(u)
                                         /\ \A x : Visible(u, x)' <=> Visible(u, x)
  <2>1. "blocked" \in AllStates
    BY DEF AllStates, States
  <2> QED
    BY <1>1, <2>1, StoreFenceEffect
<1>5. OnlyThread(t)
  BY <1>1, <1>3, <1>4 DEF OnlyThread, locks
<1>6. Stopped(t)' /\ ~Stopped(t)
  BY <1>0, <1>3 DEF Stopped, OutPcs
<1>7. ThreadSound(t)'
  <2>1. OwnStateMatches(t)' /\ FencedAtCheck(t)'
    BY <1>3, <1>4 DEF OwnStateMatches, FencedAtCheck, OutPcs
  <2>2. TransitionTarget(t)'
    BY <1>0, <1>3 DEF TransitionTarget, Target, Trans
  <2>3. ViewSound(t)'
    BY <1>4, <1>6 DEF ViewSound
  <2>4. TypeSound(t)'
    BY <1>1, <1>2, <1>3, <1>6 DEF TypeSound, Idling
  <2> QED
    BY <2>1, <2>2, <2>3, <2>4 DEF ThreadSound
<1>8. ThreadsInv' /\ \A u \in JavaThreads : TypeSound(u)'
  BY <1>2, <1>5, <1>7, OtherThreads
<1>9. PhaseInv'
  BY <1>1, <1>2 DEF PhaseInv, locks, Idling, Stopping, Waiting, Operating
<1>10. CASE sync = "synchronizing"
  <2>1. vm.pc \in Waiting
    BY <1>0, <1>10 DEF PhaseInv, Stopping, Waiting
  <2>2. type[t] = "call_back" /\ t \in Awaited
    BY <1>0, <1>6, <2>1 DEF TypeSound, Waiting, Idling, TypeOK, Awaited
  <2>3. Awaited' = Awaited \ {t}
    BY <1>1, <1>3, <2>2 DEF Awaited
  <2>4. waiting = Cardinality(Awaited) /\ Cardinality(Awaited') = Cardinality(Awaited) - 1
    BY <2>1, <2>2, <2>3, AwaitedCount DEF CountInv, Stopping
  <2>5. waiting' = Cardinality(Awaited') /\ waiting' \in 0..Cardinality(JavaThreads)
    <3>1. Cardinality(Awaited) \in 0..Cardinality(JavaThreads) /\ Cardinality(Awaited) # 0
      BY <2>2, AwaitedCount
    <3>2. Cardinality(JavaThreads) \in Nat
      BY FS_CardinalityType
    <3> QED
      BY <1>1, <1>10, <2>4, <3>1, <3>2
  <2>6. TypeOK'
    BY <1>1, <1>2, <1>3, <1>4, <2>5 DEF TypeOK, locks, ops, AllStates
  <2>7. CountInv'
    BY <1>2, <2>1, <2>5 DEF CountInv, Waiting, Operating
  <2> QED
    BY <1>8, <1>9, <2>6, <2>7 DEF IInv
<1>11. CASE sync = "not_synchronized"
  <2>1. TypeOK'
    BY <1>1, <1>2, <1>3, <1>4, <1>11 DEF TypeOK, locks, ops, AllStates
  <2>2. CountInv'
    BY <1>2, <1>11 DEF CountInv, PhaseInv, Idling, Stopping, Waiting, Operating
  <2> QED
    BY <1>8, <1>9, <2>1, <2>2 DEF IInv
<1>12. CASE sync = "synchronized"
  <2>1. vm.pc \in Operating
    BY <1>12 DEF PhaseInv
  <2>2. type[t] = "call_back"
    BY <1>6, <2>1 DEF TypeSound, Operating, Idling, TypeOK
  <2> QED
    BY <1>0, <2>1, <2>2 DEF CountInv, Awaited
<1> QED
  BY <1>10, <1>11, <1>12 DEF TypeOK

-----------------------------------------------------------------------------
(* Steps of the VM thread                                                  *)

\* The VM thread changes no thread: their invariant holds if it does not take a
\* view for serialized that it has not made so
LEMMA ThreadsUnchanged ==
  ASSUME IInv, UNCHANGED <<memory, jt>>, \A t \in JavaThreads : Serialized(t)' => Serialized(t)
  PROVE  /\ ThreadsInv'
         /\ \A t \in JavaThreads : (Stopped(t)' <=> Stopped(t)) /\ (Owing(t)' <=> Owing(t))
<1> ThreadsInv
  BY DEF IInv
<1>1. ASSUME NEW t \in JavaThreads
      PROVE  /\ Own(t)' = Own(t) /\ (Stopped(t)' <=> Stopped(t)) /\ (Owing(t)' <=> Owing(t))
             /\ Visible(t, "in_vm")' <=> Visible(t, "in_vm")
             /\ Visible(t, "in_native")' <=> Visible(t, "in_native")
             /\ Visible(t, "blocked")' <=> Visible(t, "blocked")
  BY DEF memory, Own, Visible, Stopped, Owing
<1>2. ASSUME NEW t \in JavaThreads
      PROVE  OwnStateMatches(t)' /\ TransitionTarget(t)' /\ FencedAtCheck(t)' /\ ViewSound(t)'
  <2>1. OwnStateMatches(t)' /\ TransitionTarget(t)' /\ FencedAtCheck(t)'
    BY <1>1 DEF ThreadsInv, OwnStateMatches, TransitionTarget, Target, FencedAtCheck, memory
  <2>2. ViewSound(t)'
    BY <1>1 DEF ThreadsInv, ViewSound
  <2> QED
    BY <2>1, <2>2
<1> QED
  BY <1>1, <1>2 DEF ThreadsInv

\* Steps of VMThread::loop between two safepoints or within one
LEMMA LoopStep ==
  ASSUME IInv, TypeOK', UNCHANGED <<safepoint, memory, locks, jt>>, vm'.flush = vm.flush,
         {vm.pc, vm'.pc} \subseteq Idling \/ {vm.pc, vm'.pc} \subseteq Operating
  PROVE  IInv'
<1> PhaseInv /\ (\A u \in JavaThreads : TypeSound(u)) /\ CountInv
  BY DEF IInv
<1>1. \A t \in JavaThreads : Serialized(t)' => Serialized(t)
  BY DEF Serialized, safepoint, memory
<1>2. ThreadsInv' /\ \A t \in JavaThreads : (Stopped(t)' <=> Stopped(t)) /\ (Owing(t)' <=> Owing(t))
  BY <1>1, ThreadsUnchanged
<1>3. \A t \in JavaThreads : TypeSound(t)'
  BY <1>2 DEF TypeSound, safepoint, Idling, Operating
<1>4. PhaseInv'
  BY DEF PhaseInv, safepoint, locks, Idling, Stopping, Waiting, Operating
<1>5. CountInv'
  BY DEF CountInv, Awaited, safepoint, Idling, Stopping, Waiting, Operating
<1> QED
  BY <1>2, <1>3, <1>4, <1>5 DEF IInv

\* The operations of a safepoint are taken, evaluated and taken again until none
\* is queued
LEMMA OperationInvariant ==
  ASSUME IInv, TakeOperation \/ Cleanup \/ EvaluateOperation \/ DrainQueue \/ CleanupDone
  PROVE  IInv'
<1> TypeOK
  BY DEF IInv
<1>0. vm \in VMLocals /\ vm.ops \in Seq(JavaThreads) /\ vm.cleanups \in Nat /\ queue \in Seq(JavaThreads)
  BY DEF TypeOK, VMLocals
<1>1. CASE TakeOperation
  <2>1. PICK n \in 1..Len(queue) :
          /\ vm' = [vm EXCEPT !.pc = "begin", !.ops = SubSeq(queue, 1, n)]
          /\ queue' = SubSeq(queue, n + 1, Len(queue))
    BY <1>1 DEF TakeOperation
  <2>2. /\ SubSeq(queue, 1, n) \in Seq(JavaThreads)
        /\ SubSeq(queue, n + 1, Len(queue)) \in Seq(JavaThreads)
    BY <1>0, <2>1
  <2>3. vm' \in VMLocals /\ vm'.flush = vm.flush /\ vm'.pc = "begin" /\ vm.pc = "loop"
    BY <1>0, <1>1, <2>1, <2>2 DEF VMLocals, TakeOperation, VMAt
  <2>4. UNCHANGED <<safepoint, memory, locks, started, completed, jt>>
    BY <1>1 DEF TakeOperation
  <2>5. TypeOK'
    BY <2>1, <2>2, <2>3, <2>4 DEF TypeOK, safepoint, memory, locks
  <2> QED
    BY <2>3, <2>4, <2>5, LoopStep DEF Idling
<1>2. CASE Cleanup
  <2>1. vm' \in VMLocals /\ vm'.flush = vm.flush /\ vm'.pc = "begin" /\ vm.pc = "loop"
    <3>1. vm' = [vm EXCEPT !.pc = "begin", !.cleanups = vm.cleanups + 1] /\ vm.pc = "loop"
      BY <1>2 DEF Cleanup, VMAt
    <3>2. vm.cleanups + 1 \in Nat
      BY <1>0
    <3> QED
      BY <1>0, <3>1, <3>2 DEF VMLocals
  <2>2. UNCHANGED <<safepoint, memory, locks, ops, jt>>
    BY <1>2 DEF Cleanup
  <2>3. TypeOK'
    BY <2>1, <2>2 DEF TypeOK, safepoint, memory, locks, ops
  <2> QED
    BY <2>1, <2>2, <2>3, LoopStep DEF Idling
<1>3. CASE EvaluateOperation
  <2>1. Tail(vm.ops) \in Seq(JavaThreads) /\ Head(vm.ops) \in JavaThreads
    BY <1>0, <1>3 DEF EvaluateOperation
  <2>2. /\ vm' \in VMLocals /\ vm'.flush = vm.flush
        /\ vm'.pc \in {"drain", "synchronized"} /\ vm.pc = "synchronized"
    BY <1>0, <1>3, <2>1 DEF VMLocals, EvaluateOperation, VMAt
  <2>3. completed' \in [JavaThreads -> Nat]
    <3>1. completed \in [JavaThreads -> Nat]
      BY DEF TypeOK
    <3>2. completed' = [completed EXCEPT ![Head(vm.ops)] = completed[Head(vm.ops)] + 1]
      BY <1>3 DEF EvaluateOperation
    <3> QED
      BY <2>1, <3>1, <3>2
  <2>4. UNCHANGED <<safepoint, memory, locks, queue, started, jt>>
    BY <1>3 DEF EvaluateOperation
  <2>5. TypeOK'
    BY <2>2, <2>3, <2>4 DEF TypeOK, safepoint, memory, locks
  <2> QED
    BY <2>2, <2>4, <2>5, LoopStep DEF Operating
<1>4. CASE DrainQueue
  <2>1. /\ vm' \in VMLocals /\ vm'.flush = vm.flush
        /\ vm'.pc \in {"end", "synchronized"} /\ vm.pc = "drain"
    BY <1>0, <1>4 DEF VMLocals, DrainQueue, VMAt
  <2>2. queue' \in Seq(JavaThreads) /\ UNCHANGED <<safepoint, memory, locks, started, completed, jt>>
    BY <1>4 DEF DrainQueue
  <2>3. TypeOK'
    BY <2>1, <2>2 DEF TypeOK, safepoint, memory, locks
  <2> QED
    BY <2>1, <2>2, <2>3, LoopStep DEF Operating
<1>5. CASE CleanupDone
  <2>1. vm' \in VMLocals /\ vm'.flush = vm.flush /\ vm'.pc = "endcleanup" /\ vm.pc = "synchronized"
    BY <1>0, <1>5 DEF VMLocals, CleanupDone, VMAt, VMGoto
  <2>2. UNCHANGED <<safepoint, memory, locks, ops, jt>>
    BY <1>5 DEF CleanupDone
  <2>3. TypeOK'
    BY <2>1, <2>2 DEF TypeOK, safepoint, memory, locks, ops
  <2> QED
    BY <2>1, <2>2, <2>3, LoopStep DEF Operating
<1> QED
  BY <1>1, <1>2, <1>3, <1>4, <1>5

\* The callers are woken between two safepoints; they stay blocked until they have
\* the lock
LEMMA NotifyRequestersInvariant ==
  ASSUME IInv, NotifyRequesters
  PROVE  IInv'
<1> TypeOK /\ ThreadsInv /\ PhaseInv /\ (\A u \in JavaThreads : TypeSound(u)) /\ CountInv
  BY DEF IInv
<1>0. /\ vm.pc = "notify" /\ vm' = [vm EXCEPT !.pc = "loop"]
      /\ UNCHANGED <<safepoint, memory, locks, ops>>
  BY DEF NotifyRequesters, VMAt, VMGoto
<1>1. vm' \in VMLocals /\ vm'.pc = "loop" /\ vm'.flush = vm.flush
  <2>1. vm \in VMLocals
    BY DEF TypeOK
  <2> QED
    BY <1>0, <2>1 DEF VMLocals
<1>2. ASSUME NEW t \in JavaThreads
      PROVE  /\ jt'[t] \in JavaLocals
             /\ \/ jt'[t] = jt[t]
                \/ jt[t].pc = "reqwaiting" /\ jt'[t].pc = "reqnotified"
             /\ jt'[t].to = jt[t].to /\ jt'[t].then = jt[t].then /\ jt'[t].saved = jt[t].saved
  <2>1. jt[t] \in JavaLocals
    BY DEF TypeOK
  <2>2. jt'[t] = IF jt[t].pc = "reqwaiting" THEN [jt[t] EXCEPT !.pc = "reqnotified"] ELSE jt[t]
    BY DEF NotifyRequesters, At
  <2> QED
    BY <2>1, <2>2 DEF JavaLocals
<1>3. jt' \in [JavaThreads -> JavaLocals]
  BY <1>2 DEF NotifyRequesters
<1>4. TypeOK'
  BY <1>0, <1>1, <1>3 DEF TypeOK, safepoint, memory, locks, ops
<1>5. ASSUME NEW t \in JavaThreads PROVE ThreadSound(t)'
  <2>1. /\ Own(t)' = Own(t)
        /\ Visible(t, "in_vm")' <=> Visible(t, "in_vm")
        /\ Visible(t, "in_native")' <=> Visible(t, "in_native")
        /\ Visible(t, "blocked")' <=> Visible(t, "blocked")
    BY <1>0 DEF memory, Own, Visible
  <2>2. (Stopped(t)' <=> Stopped(t)) /\ (Owing(t)' <=> Owing(t))
    BY <1>2, <2>1 DEF Stopped, Owing, OutPcs, InPcs
  <2>3. OwnStateMatches(t)' /\ TransitionTarget(t)' /\ FencedAtCheck(t)'
    BY <1>0, <1>2, <2>1
       DEF ThreadsInv, OwnStateMatches, TransitionTarget, Target, FencedAtCheck, OutPcs, memory
  <2>4. ViewSound(t)'
    BY <1>0, <1>1, <2>1, <2>2 DEF ThreadsInv, ViewSound, Serialized, safepoint, memory
  <2>5. TypeSound(t)'
    BY <1>0, <1>1, <2>2 DEF TypeSound, safepoint, Idling
  <2> QED
    BY <2>3, <2>4, <2>5 DEF ThreadSound
<1>6. PhaseInv' /\ CountInv'
  BY <1>0, <1>1 DEF PhaseInv, CountInv, safepoint, locks, Idling, Stopping, Waiting, Operating
<1> QED
  BY <1>4, <1>5, <1>6 DEF IInv, ThreadsInv, ThreadSound

\* begin: all threads count as running, and no view of them as serialized unless
\* the threads fence
LEMMA AnnounceInvariant ==
  ASSUME IInv, Announce
  PROVE  IInv'
<1> TypeOK /\ PhaseInv /\ (\A u \in JavaThreads : TypeSound(u))
  BY DEF IInv
<1>0. /\ vm.pc = "begin" /\ sync' = "synchronizing" /\ waiting' = Cardinality(JavaThreads)
      /\ Threads_lock' = VMThread /\ Safepoint_lock' = VMThread
      /\ UNCHANGED <<armed, type, memory, VMOperationRequest_lock, ops, jt>>
  BY DEF Announce, VMAt
<1>1. /\ vm' \in VMLocals /\ vm'.pc = "serialize"
      /\ vm'.flush = IF setup.UseMembar THEN {} ELSE JavaThreads
  <2>1. vm \in VMLocals
    BY DEF TypeOK
  <2> QED
    BY <2>1 DEF VMLocals, Announce
<1>2. Cardinality(JavaThreads) \in Nat
  BY FS_CardinalityType
<1>3. TypeOK'
  BY <1>0, <1>1, <1>2 DEF TypeOK, memory, ops
<1>4. ThreadsInv' /\ \A t \in JavaThreads : (Stopped(t)' <=> Stopped(t)) /\ (Owing(t)' <=> Owing(t))
  <2>1. \A t \in JavaThreads : Serialized(t)' => Serialized(t)
    BY <1>0, <1>1 DEF Serialized, memory
  <2> QED
    BY <1>0, <2>1, ThreadsUnchanged
<1>5. \A t \in JavaThreads : type[t] = "running"
  BY <1>0 DEF TypeSound, Idling
<1>6. \A t \in JavaThreads : TypeSound(t)'
  BY <1>0, <1>1, <1>5 DEF TypeSound, Idling
<1>7. PhaseInv'
  BY <1>0, <1>1 DEF PhaseInv, Idling, Stopping, Waiting, Operating
<1>8. CountInv'
  <2>1. Awaited' = JavaThreads
    BY <1>0, <1>5 DEF Awaited
  <2> QED
    BY <1>0, <1>1, <2>1 DEF CountInv, Operating
<1> QED
  BY <1>3, <1>4, <1>6, <1>7, <1>8 DEF IInv

\* os::serialize_thread_states: what is visible of t is its state now
LEMMA SerializeInvariant ==
  ASSUME IInv, NEW t \in JavaThreads, Serialize(t)
  PROVE  IInv'
<1> TypeOK /\ ThreadsInv /\ PhaseInv /\ (\A u \in JavaThreads : TypeSound(u)) /\ CountInv
  BY DEF IInv
<1>0. /\ vm.pc = "serialize" /\ StoreFence(t, Own(t)) /\ UNCHANGED <<safepoint, locks, ops, jt>>
      /\ vm' = [vm EXCEPT !.flush = vm.flush \ {t}]
  BY DEF Serialize, VMAt
<1>1. vm' \in VMLocals /\ vm'.pc = "serialize" /\ vm'.flush = vm.flush \ {t}
  <2>1. vm \in VMLocals
    BY DEF TypeOK
  <2> QED
    BY <1>0, <2>1 DEF VMLocals
<1>2. Own(t) \in AllStates
  <2>1. state[t] \in AllStates /\ buffer[t] \in Seq(AllStates)
    BY DEF TypeOK, AllStates
  <2> QED
    BY <2>1 DEF Own, Last
<1>3. /\ state' \in [JavaThreads -> AllStates] /\ buffer' \in [JavaThreads -> Seq(AllStates)]
      /\ setup' = setup /\ buffer'[t] = <<>>
      /\ Own(t)' = Own(t) /\ \A x : Visible(t, x)' <=> x = Own(t)
      /\ \A u \in JavaThreads : u # t =>
               /\ buffer'[u] = buffer[u] /\ Own(u)' = Own(u)
               /\ \A x : Visible(u, x)' <=> Visible(u, x)
  BY <1>0, <1>2, StoreFenceEffect
<1>4. TypeOK'
  BY <1>0, <1>1, <1>3 DEF TypeOK, safepoint, locks, ops, AllStates
<1>5. ASSUME NEW u \in JavaThreads PROVE ThreadSound(u)'
  <2>1. Own(u)' = Own(u) /\ (Stopped(u)' <=> Stopped(u)) /\ (Owing(u)' <=> Owing(u))
    BY <1>0, <1>3 DEF Stopped, Owing
  <2>2. OwnStateMatches(u)' /\ TransitionTarget(u)' /\ FencedAtCheck(u)'
    BY <1>0, <1>3, <2>1 DEF ThreadsInv, OwnStateMatches, TransitionTarget, Target, FencedAtCheck
  <2>3. TypeSound(u)'
    BY <1>0, <1>1, <2>1 DEF TypeSound, safepoint
  <2>4. CASE u # t
    <3>1. ViewSound(u)'
      BY <1>0, <1>1, <1>3, <2>1, <2>4 DEF ThreadsInv, ViewSound, Serialized, safepoint
    <3> QED
      BY <2>2, <2>3, <3>1 DEF ThreadSound
  <2>5. CASE u = t
    <3>1. /\ Own(t) \in {"in_native", "blocked"} => Stopped(t)
          /\ Own(t) = "in_vm" => Owing(t)
      <4>1. jt[t] \in JavaLocals
        BY DEF TypeOK
      <4> QED
        BY <4>1 DEF ThreadsInv, OwnStateMatches, Stopped, Owing, OutPcs, InPcs, Trans, JavaLocals
    <3>2. ViewSound(u)'
      BY <1>3, <2>1, <2>5, <3>1 DEF ViewSound
    <3> QED
      BY <2>2, <2>3, <3>2 DEF ThreadSound
  <2> QED
    BY <2>4, <2>5
<1>6. PhaseInv'
  BY <1>0, <1>1 DEF PhaseInv, safepoint, locks, Idling, Stopping, Waiting, Operating
<1>7. CountInv'
  BY <1>0, <1>1 DEF CountInv, Awaited, safepoint, Operating
<1> QED
  BY <1>4, <1>5, <1>6, <1>7 DEF IInv, ThreadsInv, ThreadSound

\* The rest of begin up to the wait: the views are serialized when threads are
\* examined, and every one is, before the VM thread releases Safepoint_lock
LEMMA ExamineInvariant ==
  ASSUME IInv, NEW t \in JavaThreads, Examine(t)
  PROVE  IInv'
<1> TypeOK /\ ThreadsInv /\ PhaseInv /\ (\A u \in JavaThreads : TypeSound(u)) /\ CountInv
  BY DEF IInv
<1>0. /\ vm.pc = "spin" /\ type[t] = "running" /\ sync = "synchronizing"
      /\ UNCHANGED <<sync, armed, memory, locks, ops, jt, vm>>
  BY DEF Examine, VMAt, PhaseInv, Stopping
<1>1. ThreadsInv' /\ \A u \in JavaThreads : (Stopped(u)' <=> Stopped(u)) /\ (Owing(u)' <=> Owing(u))
  <2>1. \A u \in JavaThreads : Serialized(u)' => Serialized(u)
    BY <1>0 DEF Serialized, memory
  <2> QED
    BY <1>0, <2>1, ThreadsUnchanged
<1>2. PhaseInv'
  BY <1>0 DEF PhaseInv, locks
<1>3. Serialized(t) /\ t \in Awaited /\ waiting = Cardinality(Awaited)
  BY <1>0 DEF Serialized, PhaseInv, Awaited, CountInv, Stopping
<1>4. Cardinality(JavaThreads) \in Nat
  BY FS_CardinalityType
<1>5. CASE state[t] \in {"in_native", "blocked"}
  <2>1. type' = [type EXCEPT ![t] = "at_safepoint"] /\ waiting' = waiting - 1
    BY <1>5 DEF Examine
  <2>2. Stopped(t)
    BY <1>3, <1>5 DEF ThreadsInv, ViewSound, Visible
  <2>3. type' \in [JavaThreads -> {"running", "at_safepoint", "call_back"}]
    BY <2>1 DEF TypeOK
  <2>4. \A u \in JavaThreads : TypeSound(u)'
    BY <1>0, <1>1, <2>1, <2>2 DEF TypeSound, TypeOK, Idling
  <2>5. Awaited' = Awaited \ {t}
    BY <1>0, <2>1 DEF Awaited, TypeOK
  <2>6. /\ Cardinality(Awaited') = Cardinality(Awaited) - 1
        /\ Cardinality(Awaited) \in 0..Cardinality(JavaThreads) /\ Cardinality(Awaited) # 0
    BY <1>3, <2>5, AwaitedCount
  <2>7. waiting' = Cardinality(Awaited') /\ waiting' \in 0..Cardinality(JavaThreads)
    BY <1>3, <1>4, <2>1, <2>6
  <2>8. TypeOK'
    BY <1>0, <2>3, <2>7 DEF TypeOK, memory, locks, ops
  <2>9. CountInv'
    BY <1>0, <2>7 DEF CountInv, Operating
  <2> QED
    BY <1>1, <1>2, <2>4, <2>8, <2>9 DEF IInv
<1>6. CASE state[t] = "in_vm"
  <2>1. type' = [type EXCEPT ![t] = "call_back"] /\ waiting' = waiting
    BY <1>6 DEF Examine
  <2>2. Owing(t)
    BY <1>3, <1>6 DEF ThreadsInv, ViewSound, Visible
  <2>3. type' \in [JavaThreads -> {"running", "at_safepoint", "call_back"}]
    BY <2>1 DEF TypeOK
  <2>4. \A u \in JavaThreads : TypeSound(u)'
    BY <1>0, <1>1, <2>1, <2>2 DEF TypeSound, TypeOK, Idling
  <2>5. Awaited' = Awaited
    BY <1>0, <2>1, <2>2 DEF Awaited, TypeOK, Owing, InPcs
  <2>6. TypeOK'
    BY <1>0, <2>1, <2>3 DEF TypeOK, memory, locks, ops
  <2>7. CountInv'
    BY <1>0, <2>1, <2>5 DEF CountInv
  <2> QED
    BY <1>1, <1>2, <2>4, <2>6, <2>7 DEF IInv
<1> QED
  BY <1>5, <1>6 DEF Examine

\* Between the announcement and the synchronized state the VM thread waits, wakes
\* and looks at the count; when that is zero no thread is awaited
LEMMA SynchronizeInvariant ==
  ASSUME IInv, Arm \/ SpinDone \/ WaitForThreads \/ WokenUp \/ Synchronized
  PROVE  IInv'
<1> TypeOK /\ PhaseInv /\ (\A u \in JavaThreads : TypeSound(u)) /\ CountInv
  BY DEF IInv
<1> DEFINE Frame == UNCHANGED <<waiting, type, memory, Threads_lock, VMOperationRequest_lock, ops, jt>>
           Moved(from, to) == /\ vm.pc = from /\ vm' = [vm EXCEPT !.pc = to]
                              /\ sync' = IF to = "synchronized" THEN to ELSE sync
                              /\ Safepoint_lock' = IF to \in {"spin", "wait"} THEN VMThread ELSE NoThread
           Steps == \/ Moved("serialize", "spin")
                    \/ Moved("spin", "wait") /\ (\A t \in JavaThreads : type[t] # "running")
                    \/ Moved("wait", "waiting")
                    \/ Moved("notified", "wait")
                    \/ Moved("wait", "synchronized") /\ waiting = 0
<1>0. Frame /\ Steps /\ vm.flush = {} /\ armed' \in BOOLEAN
  <2>1. CASE Arm
    <3>1. vm.pc = "serialize" /\ vm' = [vm EXCEPT !.pc = "spin"]
      BY <2>1 DEF Arm, VMAt, VMGoto
    <3>2. vm.flush = {} /\ armed' \in BOOLEAN
      BY <2>1, <3>1 DEF Arm, safepoint, PhaseInv, TypeOK
    <3>3. /\ sync' = sync
          /\ Safepoint_lock' = VMThread
      BY <2>1, <3>1 DEF Arm, safepoint, locks, PhaseInv
    <3>4. Frame
      BY <2>1 DEF Arm, safepoint, locks
    <3> QED
      BY <3>1, <3>2, <3>3, <3>4
  <2>2. CASE SpinDone
    <3>1. vm.pc = "spin" /\ vm' = [vm EXCEPT !.pc = "wait"] /\ (\A t \in JavaThreads : type[t] # "running")
      BY <2>2 DEF SpinDone, VMAt, VMGoto
    <3>2. vm.flush = {} /\ armed' \in BOOLEAN
      BY <2>2, <3>1 DEF SpinDone, safepoint, PhaseInv, TypeOK
    <3>3. /\ sync' = sync
          /\ Safepoint_lock' = VMThread
      BY <2>2, <3>1 DEF SpinDone, safepoint, locks, PhaseInv
    <3>4. Frame
      BY <2>2 DEF SpinDone, safepoint, locks
    <3> QED
      BY <3>1, <3>2, <3>3, <3>4
  <2>3. CASE WaitForThreads
    <3>1. vm.pc = "wait" /\ vm' = [vm EXCEPT !.pc = "waiting"]
      BY <2>3 DEF WaitForThreads, VMAt, VMGoto
    <3>2. vm.flush = {} /\ armed' \in BOOLEAN
      BY <2>3, <3>1 DEF WaitForThreads, safepoint, PhaseInv, TypeOK
    <3>3. /\ sync' = sync
          /\ Safepoint_lock' = NoThread
      BY <2>3, <3>1 DEF WaitForThreads, safepoint, locks, PhaseInv
    <3>4. Frame
      BY <2>3 DEF WaitForThreads, safepoint, locks
    <3> QED
      BY <3>1, <3>2, <3>3, <3>4
  <2>4. CASE WokenUp
    <3>1. vm.pc = "notified" /\ vm' = [vm EXCEPT !.pc = "wait"]
      BY <2>4 DEF WokenUp, VMAt, VMGoto
    <3>2. vm.flush = {} /\ armed' \in BOOLEAN
      BY <2>4, <3>1 DEF WokenUp, safepoint, PhaseInv, TypeOK
    <3>3. /\ sync' = sync
          /\ Safepoint_lock' = VMThread
      BY <2>4, <3>1 DEF WokenUp, safepoint, locks, PhaseInv
    <3>4. Frame
      BY <2>4 DEF WokenUp, safepoint, locks
    <3> QED
      BY <3>1, <3>2, <3>3, <3>4
  <2>5. CASE Synchronized
    <3>1. vm.pc = "wait" /\ vm' = [vm EXCEPT !.pc = "synchronized"] /\ waiting = 0
      BY <2>5 DEF Synchronized, VMAt, VMGoto
    <3>2. vm.flush = {} /\ armed' \in BOOLEAN
      BY <2>5, <3>1 DEF Synchronized, safepoint, PhaseInv, TypeOK
    <3>3. /\ sync' = "synchronized"
          /\ Safepoint_lock' = NoThread
      BY <2>5, <3>1 DEF Synchronized, safepoint, locks, PhaseInv
    <3>4. Frame
      BY <2>5 DEF Synchronized, safepoint, locks
    <3> QED
      BY <3>1, <3>2, <3>3, <3>4
  <2> QED
    BY <2>1, <2>2, <2>3, <2>4, <2>5
<1>1. /\ vm' \in VMLocals /\ vm'.flush = vm.flush
      /\ vm.pc \in {"serialize", "spin", "wait", "notified"}
      /\ \/ vm.pc = "serialize" /\ vm'.pc = "spin"
         \/ vm.pc = "spin" /\ vm'.pc = "wait" /\ (\A t \in JavaThreads : type[t] # "running")
         \/ vm.pc = "wait" /\ vm'.pc = "waiting"
         \/ vm.pc = "notified" /\ vm'.pc = "wait"
         \/ vm.pc = "wait" /\ vm'.pc = "synchronized" /\ waiting = 0
  <2>1. vm \in VMLocals
    BY DEF TypeOK
  <2> QED
    BY <1>0, <2>1 DEF VMLocals
<1>2. /\ sync' = IF vm'.pc = "synchronized" THEN "synchronized" ELSE sync
      /\ Safepoint_lock' = IF vm'.pc \in {"spin", "wait"} THEN VMThread ELSE NoThread
  <2>1. ASSUME NEW from, NEW to, Moved(from, to)
        PROVE  /\ sync' = IF vm'.pc = "synchronized" THEN "synchronized" ELSE sync
               /\ Safepoint_lock' = IF vm'.pc \in {"spin", "wait"} THEN VMThread ELSE NoThread
    <3>1. vm'.pc = to
      BY <2>1 DEF TypeOK, VMLocals
    <3> QED
      BY <2>1, <3>1
  <2> HIDE DEF Moved
  <2> QED
    BY <1>0, <2>1
<1>3. sync = "synchronizing" /\ waiting = Cardinality(Awaited)
  BY <1>1 DEF PhaseInv, CountInv, Stopping, Waiting
<1>4. ThreadsInv' /\ \A t \in JavaThreads : (Stopped(t)' <=> Stopped(t)) /\ (Owing(t)' <=> Owing(t))
  <2>1. \A t \in JavaThreads : Serialized(t)' => Serialized(t)
    BY <1>0, <1>1, <1>3 DEF Serialized, memory
  <2> QED
    BY <1>0, <2>1, ThreadsUnchanged
<1>5. \A t \in JavaThreads : type[t] = "running" => vm'.pc = "spin"
  BY <1>1 DEF TypeSound, Idling
<1>6. TypeOK'
  BY <1>0, <1>1, <1>2 DEF TypeOK, memory, ops
<1>7. \A t \in JavaThreads : TypeSound(t)'
  BY <1>0, <1>1, <1>4, <1>5 DEF TypeSound, Idling
<1>8. PhaseInv'
  BY <1>0, <1>1, <1>2, <1>3 DEF PhaseInv, Idling, Stopping, Waiting, Operating
<1>9. CountInv'
  <2>1. Awaited' = Awaited /\ (waiting = 0 => Awaited = {})
    BY <1>0, <1>3, AwaitedCount DEF Awaited
  <2> QED
    BY <1>0, <1>1, <1>3, <2>1 DEF CountInv, Operating
<1> QED
  BY <1>4, <1>6, <1>7, <1>8, <1>9 DEF IInv

\* end: the threads are running again before Threads_lock lets them go
LEMMA EndInvariant ==
  ASSUME IInv, End
  PROVE  IInv'
<1> TypeOK /\ PhaseInv /\ (\A u \in JavaThreads : TypeSound(u)) /\ CountInv
  BY DEF IInv
<1>0. /\ vm.pc \in {"end", "endcleanup"} /\ vm.flush = {} /\ sync = "synchronized"
      /\ UNCHANGED <<waiting, memory, Safepoint_lock, VMOperationRequest_lock, ops, jt>>
  BY DEF End, PhaseInv, Operating
<1>1. CASE armed
  <2>1. armed' = FALSE /\ UNCHANGED <<sync, type, Threads_lock, vm>>
    BY <1>1 DEF End
  <2>2. TypeOK'
    BY <1>0, <2>1 DEF TypeOK, memory, ops
  <2>3. \A t \in JavaThreads : Serialized(t)' => Serialized(t)
    BY <1>0, <2>1 DEF Serialized, memory
  <2>4. ThreadsInv' /\ \A t \in JavaThreads : (Stopped(t)' <=> Stopped(t)) /\ (Owing(t)' <=> Owing(t))
    BY <1>0, <2>3, ThreadsUnchanged
  <2>5. \A t \in JavaThreads : TypeSound(t)'
    BY <1>0, <2>1, <2>4 DEF TypeSound
  <2>6. PhaseInv' /\ CountInv'
    BY <1>0, <2>1 DEF PhaseInv, CountInv, Awaited
  <2> QED
    BY <2>2, <2>4, <2>5, <2>6 DEF IInv
<1>2. CASE ~armed
  <2>1. /\ sync' = "not_synchronized" /\ type' = [t \in JavaThreads |-> "running"]
        /\ Threads_lock' = NoThread /\ armed' = armed
        /\ vm' = [vm EXCEPT !.pc = IF vm.pc = "end" THEN "notify" ELSE "loop"]
    BY <1>2 DEF End, VMAt, VMGoto
  <2>2. vm' \in VMLocals /\ vm'.flush = {} /\ vm'.pc \in {"notify", "loop"}
    <3>1. vm \in VMLocals
      BY DEF TypeOK
    <3> QED
      BY <1>0, <2>1, <3>1 DEF VMLocals
  <2>3. TypeOK'
    BY <1>0, <2>1, <2>2 DEF TypeOK, memory, ops
  <2>4. \A t \in JavaThreads : Serialized(t)' => Serialized(t)
    BY <1>0, <2>1 DEF Serialized, memory
  <2>5. ThreadsInv'
    BY <1>0, <2>4, ThreadsUnchanged
  <2>6. \A t \in JavaThreads : TypeSound(t)'
    BY <2>1, <2>2 DEF TypeSound, Idling
  <2>7. PhaseInv' /\ CountInv'
    BY <1>0, <2>1, <2>2 DEF PhaseInv, CountInv, Idling, Stopping, Waiting, Operating
  <2> QED
    BY <2>3, <2>5, <2>6, <2>7 DEF IInv
<1> QED
  BY <1>1, <1>2

-----------------------------------------------------------------------------
(* The theorems                                                            *)

\* The initial state: no safepoint, all threads run Java code
LEMMA InitInvariant == Init => IInv
<1> SUFFICES ASSUME Init PROVE IInv
  OBVIOUS
<1> USE DEF Init
<1>0. Outside("java") \in JavaLocals /\ Outside("java").pc = "java"
  BY DEF Outside, JavaLocals
<1>1. [pc |-> "loop", ops |-> <<>>, flush |-> {}, cleanups |-> 0] \in VMLocals
  BY DEF VMLocals
<1>2. Cardinality(JavaThreads) \in Nat
  BY FS_CardinalityType
<1>3. armed \in BOOLEAN
  BY Zenon
<1>4. TypeOK
  BY <1>0, <1>1, <1>2, <1>3 DEF TypeOK, States
<1>5. ASSUME NEW t \in JavaThreads
      PROVE  /\ jt[t].pc = "java" /\ Own(t) = "in_Java"
             /\ ~Visible(t, "in_native") /\ ~Visible(t, "blocked") /\ ~Visible(t, "in_vm")
  BY <1>0 DEF Own, Visible
<1>6. ThreadsInv
  BY <1>5 DEF ThreadsInv, OwnStateMatches, TransitionTarget, FencedAtCheck, ViewSound, OutPcs
<1>7. \A t \in JavaThreads : TypeSound(t)
  BY DEF TypeSound, Idling
<1>8. PhaseInv /\ CountInv
  BY DEF PhaseInv, CountInv, Idling, Stopping, Waiting, Operating
<1> QED
  BY <1>4, <1>6, <1>7, <1>8 DEF IInv

\* A step that changes no variable
LEMMA StutterInvariant ==
  ASSUME IInv, UNCHANGED vars
  PROVE  IInv'
<1>1. TypeOK'
  BY DEF IInv, vars, TypeOK
<1>2. \A t \in JavaThreads : Serialized(t)' => Serialized(t)
  BY DEF vars, Serialized
<1>3. ThreadsInv' /\ \A t \in JavaThreads : (Stopped(t)' <=> Stopped(t)) /\ (Owing(t)' <=> Owing(t))
  BY <1>2, ThreadsUnchanged DEF vars, memory
<1>4. \A t \in JavaThreads : TypeSound(t)'
  BY <1>3 DEF IInv, vars, TypeSound
<1>5. PhaseInv' /\ CountInv'
  BY DEF IInv, vars, PhaseInv, CountInv, Awaited
<1> QED
  BY <1>1, <1>3, <1>4, <1>5 DEF IInv

\* Every step of the Java threads, their store buffers and the VM thread preserves
\* the inductive invariant
LEMMA NextInvariant == IInv /\ [Next]_vars => IInv'
<1> SUFFICES ASSUME IInv, [Next]_vars PROVE IInv'
  OBVIOUS
<1>1. ASSUME NEW t \in JavaThreads, Choose(t) PROVE IInv'
  BY <1>1, LeaveJavaInvariant, LeaveInvariant, RequestInvariant DEF Choose
<1>2. ASSUME NEW t \in JavaThreads, Continue(t) PROVE IInv'
  <2>1. CASE Poll(t) \/ Block(t)
    BY <2>1, PretendInVMInvariant DEF Poll, Block, At
  <2>2. CASE LeaveVM(t) \/ CheckSafepoint(t) \/ FinishTransition(t)
    BY <2>2, LeaveInvariant, CheckSafepointInvariant, FinishTransitionInvariant
  <2>3. CASE CallBack(t) \/ BlockOutside(t) \/ Restarted(t)
    BY <2>3, CallBackInvariant, BlockOutsideInvariant, RestartedInvariant
  <2>4. CASE RequestLock(t) \/ RequestLocked(t) \/ RequestCheck(t) \/ RequestWait(t) \/ RequestDone(t)
    BY <2>4, RequestInvariant
  <2> QED
    BY <1>2, <2>1, <2>2, <2>3, <2>4 DEF Continue
<1>3. ASSUME NEW t \in JavaThreads, Drain(t) PROVE IInv'
  BY <1>3, DrainInvariant
<1>4. CASE RunVMThread
  BY <1>4, OperationInvariant, NotifyRequestersInvariant, AnnounceInvariant, SerializeInvariant,
     ExamineInvariant, SynchronizeInvariant, EndInvariant DEF RunVMThread
<1>5. CASE Cleanup
  BY <1>5, OperationInvariant
<1>6. CASE UNCHANGED vars
  BY <1>6, StutterInvariant
<1> QED
  BY <1>1, <1>2, <1>3, <1>4, <1>5, <1>6 DEF Next

\* The inductive invariant holds in every reachable state
THEOREM Invariance == Spec => []IInv
<1>1. Init => IInv
  BY InitInvariant
<1>2. IInv /\ [Next]_vars => IInv'
  BY NextInvariant
<1> QED
  BY <1>1, <1>2, PTL DEF Spec

\* Every variable keeps its type: _waiting_to_block is never counted below zero
THEOREM TypeCorrect == Spec => []TypeOK
<1>1. IInv => TypeOK
  BY DEF IInv
<1> QED
  BY <1>1, Invariance, PTL

\* At a safepoint no thread runs Java code or code of the VM, or is about to,
\* whatever is in the store buffers
THEOREM Exclusion == Spec => []SafepointExclusive
<1>1. ASSUME IInv PROVE SafepointExclusive
  <2> SUFFICES ASSUME sync = "synchronized", NEW t \in JavaThreads
               PROVE  ~ (jt[t].pc \in {"java", "vm", "finish", "block", "blocklock", "reqlock", "reqcheck"})
    BY DEF SafepointExclusive
  <2>1. vm.pc \in Operating /\ Awaited = {}
    BY <1>1 DEF IInv, PhaseInv, CountInv
  <2>2. type[t] = "at_safepoint" \/ jt[t].pc = "blocked_safepoint"
    BY <1>1, <2>1 DEF IInv, Awaited, TypeOK
  <2> QED
    BY <1>1, <2>2 DEF IInv, TypeSound, Stopped, OutPcs
<1> QED
  BY <1>1, Invariance, PTL

\* The VM thread never waits for a call back from a thread outside the VM: block()
\* does not reach its fatal error
THEOREM CallBacksOwed == Spec => []CallBackOwed
<1>1. IInv => CallBackOwed
  BY DEF IInv, TypeSound, Owing, InPcs, CallBackOwed
<1> QED
  BY <1>1, Invariance, PTL
=============================================================================
