---------------------------- MODULE InstalledCode ----------------------------
(***************************************************************************)
(* The link between an nmethod and the Java object (InstalledCode,         *)
(* HotSpotNmethod) that stands for it: CompilerToVM.installCode,           *)
(* invalidateInstalledCode and executeInstalledCode, racing with each      *)
(* other, with deoptimization, with the collector and with the sweeper.    *)
(*                                                                         *)
(* The sweeper is abstracted to what NMethodSweeper guarantees: code       *)
(* becomes a zombie only after two markings of the stacks found it not     *)
(* entrant and off the stacks, and is flushed two markings later at the    *)
(* earliest.  The code is not OSR code.                                    *)
(* Critical sections under Patching_lock are single steps.                 *)
(***************************************************************************)
EXTENDS Naturals

CONSTANTS N,                \* capacity of the code cache, in nmethods
          Wrappers,         \* InstalledCode objects
          DefaultWrappers,  \* those with HotSpotNmethod.isDefault
          Threads,          \* Java threads using the JVMCI
          CompilerThreads   \* those that install for a CompileTask (env # NULL)

ASSUME InstalledAssumption ==
    /\ N \in Nat \ {0}
    /\ DefaultWrappers \subseteq Wrappers
    /\ CompilerThreads \subseteq Threads
    /\ 0 \notin Wrappers

Slots == 1..N
NULL == 0

VARIABLES
    state,      \* _state of every slot
    age,        \* markings since the state changed, up to 2
    wrapper,    \* wrapper[n]: _jvmci_installed_code, or NULL
    marked,     \* nmethods marked for deoptimization
    act,        \* nmethods with an activation on a stack
    aim,        \* the nmethod the sweeper is about to make a zombie, or NULL
    address,    \* InstalledCode.address of every wrapper
    entry,      \* InstalledCode.entryPoint, as the nmethod it lies in
    th,         \* per thread: program counter and locals
    vm          \* "running", or how the VM went down

vars == <<state, age, wrapper, marked, act, aim, address, entry, th, vm>>

Alive(n) == state[n] \in {"in_use", "not_entrant"}

\* A thread's locals: the wrapper it works on, the nmethod it has installed,
\* the nmethod it read from address, and the operation to go on with
idle == [pc |-> "idle", w |-> NULL, new |-> NULL, old |-> NULL]

\* Mutant: the code that is being installed is not locked
LockedByInvalidation(n) ==
    \E t \in Threads : th[t].old = n /\ th[t].pc \in {"check", "deopt", "unlink"}

\* nmethodLockers: a CompileTask locks the code it installs
\* (CompileTask::set_code), invalidate_installed_code locks what it invalidates
Locked(n) ==
    \E t \in Threads : \/ th[t].new = n /\ t \in CompilerThreads
                       \/ th[t].old = n /\ th[t].pc \in {"check", "deopt", "unlink"}

\* The thread is blocked, or between two VM calls
SafePcs == {"idle", "deopt", "exec", "enter"}
AtSafepoint == \A t \in Threads : th[t].pc \in SafePcs

Init ==
    /\ state = [n \in Slots |-> "free"]
    /\ age = [n \in Slots |-> 0]
    /\ wrapper = [n \in Slots |-> NULL]
    /\ marked = {}
    /\ act = {}
    /\ aim = NULL
    /\ address = [w \in Wrappers |-> NULL]
    /\ entry = [w \in Wrappers |-> NULL]
    /\ th = [t \in Threads |-> idle]
    /\ vm = "running"

-----------------------------------------------------------------------------
(* State changes of an nmethod and what they do to its wrapper             *)

\* nmethod::maybe_invalidate_installed_code for every n of a set that moves
\* to state s: the fields of the wrappers afterwards
Linked(w, S) == address[w] \in S /\ wrapper[address[w]] = w
AddressAfter(S, s) ==
    [w \in Wrappers |-> IF Linked(w, S) /\ s # "not_entrant" THEN NULL ELSE address[w]]
EntryAfter(S) ==
    [w \in Wrappers |-> IF Linked(w, S) THEN NULL ELSE entry[w]]

\* make_not_entrant_or_zombie and make_unloaded
Become(S, s) ==
    /\ state' = [n \in Slots |-> IF n \in S THEN s ELSE state[n]]
    /\ address' = AddressAfter(S, s)
    /\ entry' = EntryAfter(S)

\* make_not_entrant by an uncommon trap, by reprofile, for a newer version or
\* (at a safepoint) because a dependency failed.  Code that is not published
\* yet runs only if its Method already refers to it, that is for a default
\* wrapper
MakeNotEntrant(n) ==
    /\ state[n] = "in_use"
    /\ \/ AtSafepoint
       \/ \A t \in Threads : th[t].new = n => th[t].w \in DefaultWrappers
    /\ Become({n}, "not_entrant")
    /\ age' = [age EXCEPT ![n] = 0]
    /\ UNCHANGED <<wrapper, marked, act, aim, th, vm>>

\* process_nmethod: the sweeper finds code that it may make a zombie, and then
\* waits for CompiledIC_lock.  can_convert_to_zombie's lock check is not
\* repeated after the wait
SweeperAim(n) ==
    /\ aim = NULL
    /\ \/ state[n] = "not_entrant" /\ age[n] = 2
       \/ state[n] = "unloaded"
    /\ ~Locked(n)
    /\ aim' = n
    /\ UNCHANGED <<state, age, wrapper, marked, act, address, entry, th, vm>>

MakeZombie ==
    /\ aim # NULL
    /\ Become({aim}, "zombie")
    /\ age' = [age EXCEPT ![aim] = 0]
    /\ wrapper' = [wrapper EXCEPT ![aim] = NULL]
    /\ aim' = NULL
    /\ UNCHANGED <<marked, act, th, vm>>

Flush(n) ==
    /\ state[n] = "zombie"
    /\ age[n] = 2
    /\ ~Locked(n)
    /\ state' = [state EXCEPT ![n] = "free"]
    /\ age' = [age EXCEPT ![n] = 0]
    /\ marked' = marked \ {n}
    /\ UNCHANGED <<wrapper, act, aim, address, entry, th, vm>>

-----------------------------------------------------------------------------
(* Safepoints                                                              *)

\* mark_active_nmethods when it starts a new sweep
Aged == [n \in Slots |->
            CASE state[n] = "not_entrant" -> IF n \in act THEN 0
                                             ELSE IF age[n] = 0 THEN 1 ELSE 2
              [] state[n] = "zombie" -> IF age[n] = 0 THEN 1 ELSE 2
              [] OTHER -> 0]

Safepoint ==
    /\ AtSafepoint
    /\ age' = Aged
    /\ UNCHANGED <<state, wrapper, marked, act, aim, address, entry, th, vm>>

\* VM_Deoptimize::doit: every marked nmethod that is alive becomes not entrant,
\* and the thread that asked for it goes on
VMDeoptimize(t) ==
    LET S == {n \in marked : state[n] = "in_use"}
    IN  /\ th[t].pc = "deopt"
        /\ AtSafepoint
        /\ Become(S, "not_entrant")
        /\ age' = [n \in Slots |-> IF n \in S THEN 0 ELSE age[n]]
        /\ th' = [th EXCEPT ![t].pc = "unlink"]
        /\ UNCHANGED <<wrapper, marked, act, aim, vm>>

\* A collection that finds another oop of n dead.  installCode holds the
\* HotSpotCompiledCode, and with it the oops, of the code it installs
GCUnload(n) ==
    /\ AtSafepoint
    /\ Alive(n)
    /\ n \notin act
    /\ \A t \in Threads : th[t].new # n
    /\ Become({n}, "unloaded")
    /\ age' = [age EXCEPT ![n] = 0]
    /\ wrapper' = [wrapper EXCEPT ![n] = NULL]
    /\ UNCHANGED <<marked, act, aim, th, vm>>

\* A collection that finds wrapper w dead: code with a default wrapper loses
\* the link, other code is unloaded (nmethod::do_unloading).  w then stands
\* for a new Java object
GCWrapper(w) ==
    LET S == {n \in Slots : wrapper[n] = w /\ Alive(n)}
    IN  /\ AtSafepoint
        /\ \A t \in Threads : th[t].w # w
        /\ S \cap act = {}
        /\ state' = [n \in Slots |-> IF n \in S /\ w \notin DefaultWrappers
                                     THEN "unloaded" ELSE state[n]]
        /\ age' = [n \in Slots |-> IF state'[n] = "unloaded" THEN 0 ELSE age[n]]
        /\ wrapper' = [n \in Slots |-> IF wrapper[n] = w THEN NULL ELSE wrapper[n]]
        /\ address' = [address EXCEPT ![w] = NULL]
        /\ entry' = [entry EXCEPT ![w] = NULL]
        /\ UNCHANGED <<marked, act, aim, th, vm>>

-----------------------------------------------------------------------------
(* CompilerToVM.installCode                                                *)

\* JVMCIEnv::register_method: the nmethod exists and names its wrapper
InstallRegister(t, w, n) ==
    /\ th[t] = idle
    /\ state[n] = "free"
    /\ state' = [state EXCEPT ![n] = "in_use"]
    /\ wrapper' = [wrapper EXCEPT ![n] = w]
    /\ th' = [th EXCEPT ![t] = [pc |-> "read", w |-> w, new |-> n, old |-> NULL]]
    /\ UNCHANGED <<age, marked, act, aim, address, entry, vm>>

\* Under Patching_lock the fields of the wrapper are set
InstallPublish(t) ==
    LET l == th[t] IN
    /\ l.pc = "publish"
    /\ address' = [address EXCEPT ![l.w] = l.new]
    /\ entry' = [entry EXCEPT ![l.w] = l.new]
    /\ th' = [th EXCEPT ![t] = idle]
    /\ UNCHANGED <<state, age, wrapper, marked, act, aim, vm>>

-----------------------------------------------------------------------------
(* nmethod::invalidate_installed_code, on its own or before InstallPublish *)

InvalidateBegin(t, w) ==
    /\ th[t] = idle
    /\ th' = [th EXCEPT ![t] = [pc |-> "read", w |-> w, new |-> NULL, old |-> NULL]]
    /\ UNCHANGED <<state, age, wrapper, marked, act, aim, address, entry, vm>>

\* The operation is over: installCode goes on to publish its code
Invalidated(t) == IF th[t].new = NULL THEN idle
                  ELSE [th[t] EXCEPT !.pc = "publish", !.old = NULL]

\* Mutant: the early return is missing
InvalidateReadAnyway(t) ==
    /\ th[t].pc = "read"
    /\ th' = [th EXCEPT ![t] = [@ EXCEPT !.pc = "lock", !.old = address[th[t].w]]]
    /\ UNCHANGED <<state, age, wrapper, marked, act, aim, address, entry, vm>>

\* address is read without a lock; NULL means there is nothing to do
InvalidateRead(t) ==
    LET a == address[th[t].w] IN
    /\ th[t].pc = "read"
    /\ th' = [th EXCEPT ![t] = IF a = NULL THEN Invalidated(t)
                               ELSE [@ EXCEPT !.pc = "lock", !.old = a]]
    /\ UNCHANGED <<state, age, wrapper, marked, act, aim, address, entry, vm>>

\* nmethodLocker::lock_nmethod: "cannot lock a zombie method" is fatal
InvalidateLock(t) ==
    /\ th[t].pc = "lock"
    /\ IF state[th[t].old] = "zombie"
       THEN vm' = "guarantee failed" /\ UNCHANGED th
       ELSE th' = [th EXCEPT ![t].pc = "check"] /\ UNCHANGED vm
    /\ UNCHANGED <<state, age, wrapper, marked, act, aim, address, entry>>

\* Mutant: code that is already marked needs no VM_Deoptimize
InvalidateCheckOnce(t) ==
    LET n == th[t].old IN
    /\ th[t].pc = "check"
    /\ IF Alive(n) /\ n \notin marked
       THEN marked' = marked \cup {n} /\ th' = [th EXCEPT ![t].pc = "deopt"]
       ELSE UNCHANGED marked /\ th' = [th EXCEPT ![t].pc = "unlink"]
    /\ UNCHANGED <<state, age, wrapper, act, aim, address, entry, vm>>

\* Live code is marked and a VM_Deoptimize requested
InvalidateCheck(t) ==
    LET n == th[t].old IN
    /\ th[t].pc = "check"
    /\ IF Alive(n)
       THEN marked' = marked \cup {n} /\ th' = [th EXCEPT ![t].pc = "deopt"]
       ELSE UNCHANGED marked /\ th' = [th EXCEPT ![t].pc = "unlink"]
    /\ UNCHANGED <<state, age, wrapper, act, aim, address, entry, vm>>

\* Under Patching_lock the link is broken if it is still the same.  The entry
\* point is left alone: make_not_entrant is relied on to clear it
InvalidateUnlink(t) ==
    LET l == th[t] IN
    /\ l.pc = "unlink"
    /\ address' = [address EXCEPT ![l.w] = IF @ = l.old THEN NULL ELSE @]
    /\ th' = [th EXCEPT ![t] = Invalidated(t)]
    /\ UNCHANGED <<state, age, wrapper, marked, act, aim, entry, vm>>

-----------------------------------------------------------------------------
(* CompilerToVM.executeInstalledCode                                       *)

\* address is read; NULL throws InvalidInstalledCodeException
ExecuteRead(t, w) ==
    /\ th[t] = idle
    /\ address[w] # NULL
    /\ th' = [th EXCEPT ![t] = [pc |-> "exec", w |-> w, new |-> NULL, old |-> address[w]]]
    /\ UNCHANGED <<state, age, wrapper, marked, act, aim, address, entry, vm>>

\* JavaCalls::call_helper: alternative_target->is_alive() or an exception.
\* What it reads from a flushed nmethod is undefined
ExecuteCheck(t) ==
    /\ th[t].pc = "exec"
    /\ \/ /\ Alive(th[t].old) \/ state[th[t].old] = "free"
          /\ th' = [th EXCEPT ![t].pc = "enter"]
       \/ /\ ~Alive(th[t].old)
          /\ th' = [th EXCEPT ![t] = idle]
    /\ UNCHANGED <<state, age, wrapper, marked, act, aim, address, entry, vm>>

\* After the transition to Java the verified entry point is called.  Code that
\* is not entrant jumps to handle_wrong_method; reclaimed code is no longer there
ExecuteEnter(t) ==
    LET n == th[t].old IN
    /\ th[t].pc = "enter"
    /\ th' = [th EXCEPT ![t] = idle]
    /\ act' = IF state[n] = "in_use" THEN act \cup {n} ELSE act
    /\ vm' = IF state[n] = "free" THEN "called flushed code" ELSE vm
    /\ UNCHANGED <<aim, state, age, wrapper, marked, address, entry>>

\* The last activation of n returns
Return(n) ==
    /\ n \in act
    /\ act' = act \ {n}
    /\ UNCHANGED <<aim, state, age, wrapper, marked, address, entry, th, vm>>

-----------------------------------------------------------------------------
Begin(t) == \E w \in Wrappers : \/ \E n \in Slots : InstallRegister(t, w, n)
                                \/ InvalidateBegin(t, w)
                                \/ ExecuteRead(t, w)
Continue(t) == \/ InvalidateRead(t) \/ InvalidateLock(t) \/ InvalidateCheck(t)
               \/ VMDeoptimize(t) \/ InvalidateUnlink(t) \/ InstallPublish(t)
               \/ ExecuteCheck(t) \/ ExecuteEnter(t)
CodeStep == \E n \in Slots : MakeNotEntrant(n) \/ SweeperAim(n) \/ Flush(n)
                             \/ GCUnload(n) \/ Return(n)

\* Nothing happens after the VM has gone down
Running == vm = "running"

Next ==
    \/ \E t \in Threads : Running /\ Begin(t)
    \/ \E t \in Threads : Running /\ Continue(t)
    \/ Running /\ CodeStep
    \/ Running /\ MakeZombie
    \/ Running /\ Safepoint
    \/ \E w \in Wrappers : Running /\ GCWrapper(w)

Spec == Init /\ [][Next]_vars

-----------------------------------------------------------------------------
(* Properties                                                              *)

Locals == [pc : {"idle", "read", "lock", "check", "deopt", "unlink", "publish", "exec", "enter"},
           w : Wrappers \cup {NULL}, new : Slots \cup {NULL}, old : Slots \cup {NULL}]

\* Every variable has its type, and a thread that works on an nmethod has one
TypeOK ==
    /\ state \in [Slots -> {"free", "in_use", "not_entrant", "zombie", "unloaded"}]
    /\ age \in [Slots -> 0..2]
    /\ wrapper \in [Slots -> Wrappers \cup {NULL}]
    /\ marked \subseteq Slots
    /\ act \subseteq Slots
    /\ aim \in Slots \cup {NULL}
    /\ address \in [Wrappers -> Slots \cup {NULL}]
    /\ entry \in [Wrappers -> Slots \cup {NULL}]
    /\ th \in [Threads -> Locals]
    /\ \A t \in Threads : th[t].pc \notin {"idle", "read", "publish"} => th[t].old \in Slots
    /\ vm \in {"running", "guarantee failed", "called flushed code"}

\* InstalledCode.isAlive: a wrapper whose address is set names code that
\* exists, is alive and points back to it, so that the sweeper will break the
\* link before it flushes the code (maybe_invalidate_installed_code)
LinkedCodeAlive ==
    \A w \in Wrappers : address[w] # NULL =>
        Alive(address[w]) /\ wrapper[address[w]] = w

\* InstalledCode.invalidate: when it returns, the code that it found cannot be
\* entered any more, whoever else was deoptimizing or reinstalling it
InvalidateStopsEntry ==
    [][\A t \in Threads : th[t].pc = "unlink" /\ th'[t].pc # "unlink" =>
           /\ state[th[t].old] # "in_use"
           /\ address'[th[t].w] # th[t].old]_vars

\* nmethodLocker::lock_nmethod's guarantee never fails
NoGuaranteeFailure == vm # "guarantee failed"

\* InstalledCode.isValid: code that a wrapper presents as valid for invocation
\* exists
ValidCodeAlive == \A w \in Wrappers : entry[w] # NULL => Alive(entry[w])

\* Breaking the link makes it safe to flush the code: no thread calls into it
NoCallIntoFlushedCode == vm # "called flushed code"
=============================================================================
