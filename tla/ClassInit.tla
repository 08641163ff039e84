----------------------------- MODULE ClassInit -----------------------------
(***************************************************************************)
(* Linking and initialisation of classes (InstanceKlass::initialize_impl). *)
(* Several threads initialise classes of one hierarchy; the one that finds *)
(* a class not initialised runs its initialiser, after those of its super  *)
(* class and of its superinterfaces with default methods, and the others   *)
(* wait on the class's init_lock until it is done or has failed.           *)
(*                                                                         *)
(* The calls are recursive: a thread has a stack of frames, the innermost  *)
(* first.  A frame is at a program point pc of the function for class k,   *)
(* with a loop counter i.  What happens under init_lock is one step: there *)
(* the code calls nothing but wait.                                        *)
(***************************************************************************)
EXTENDS Naturals, Sequences, FiniteSets

CONSTANTS Classes,
          Super,        \* super(), or None
          Interfaces,   \* local_interfaces(), in order
          Declares,     \* interfaces that declare default methods
          HasDefaults,  \* those and what inherits from them
          Uses,         \* the classes that a static initialiser initialises
          Failing,      \* classes whose static initialiser may throw
          Unverifiable, \* classes whose verification may fail
          Threads,
          MaxCalls,     \* bound on the classes that a thread asks for
          None

Elements(s) == {s[i] : i \in DOMAIN s}
Parents(k) == (IF Super[k] = None THEN {} ELSE {Super[k]}) \cup Elements(Interfaces[k])

ASSUME ClassInitAssumption ==
    /\ IsFiniteSet(Classes) /\ None \notin Classes \cup Threads
    /\ Super \in [Classes -> Classes \cup {None}]
    /\ Interfaces \in [Classes -> Seq(Classes)]
    /\ Uses \in [Classes -> Seq(Classes)]
    /\ Failing \cup Unverifiable \cup Declares \subseteq Classes
    /\ HasDefaults = {k \in Classes : k \in Declares \/ Parents(k) \cap HasDefaults # {}}
    /\ MaxCalls \in Nat

VARIABLES
    state,       \* per class: _init_state
    init_thread, \* per class: _init_thread
    stack,       \* per thread: its frames
    pending,     \* per thread: an exception is pending
    calls,       \* per thread: calls made
    ran,         \* history, per class: how often the static initialiser was run
    returned,    \* history, per thread: classes it may use
    vm           \* "running", or why it stopped

history == <<calls, ran, returned>>
vars == <<state, init_thread, stack, pending, calls, ran, returned, vm>>

Order == <<"loaded", "linked", "being_initialized", "fully_initialized", "initialization_error">>
rank(s) == CHOOSE i \in DOMAIN Order : Order[i] = s
is_linked(k) == state[k] # "loaded"

Init ==
    /\ state = [k \in Classes |-> "loaded"]
    /\ init_thread = [k \in Classes |-> None]
    /\ stack = [t \in Threads |-> <<>>]
    /\ pending = [t \in Threads |-> FALSE]
    /\ calls = [t \in Threads |-> 0]
    /\ ran = [k \in Classes |-> 0]
    /\ returned = [t \in Threads |-> {}]
    /\ vm = "running"

-----------------------------------------------------------------------------
(* Frames                                                                  *)

At(t, l) == stack[t] # <<>> /\ Head(stack[t]).pc = l
Top(t) == Head(stack[t])
Frame(k, l) == [k |-> k, pc |-> l, i |-> 1]

\* The stack of t with its innermost frame at l; the same in the next round of
\* its loop; a stack with initialize(k) called from there, which returns at once
\* if the class is initialised; the stack when the innermost frame has returned
MoveTo(t, l) == <<[Top(t) EXCEPT !.pc = l]>> \o Tail(stack[t])
NextIn(t, l) == <<[Top(t) EXCEPT !.pc = l, !.i = @ + 1]>> \o Tail(stack[t])
CallInit(k, s) == IF state[k] = "fully_initialized" THEN s ELSE <<Frame(k, "link")>> \o s
Popped(t) == Tail(stack[t])

Goto(t, s) == stack' = [stack EXCEPT ![t] = s]

\* initialize() of the innermost frame returns normally, or throws
Return(t) ==
    /\ Goto(t, Popped(t))
    /\ returned' = [returned EXCEPT ![t] = @ \cup {Top(t).k}]

Throw(t) ==
    /\ Goto(t, Popped(t))
    /\ pending' = [pending EXCEPT ![t] = TRUE]

\* The init_lock of a class is cleared when the class gets its last state
HasInitLock(k) == state[k] \notin {"fully_initialized", "initialization_error"}

\* Mutant: nobody is told
SetStateSilently(t, k, s, st) ==
    /\ state' = [state EXCEPT ![k] = s]
    /\ Goto(t, st)
    /\ UNCHANGED vm

\* set_initialization_state_and_notify: the class changes to state s, and the
\* threads that wait for it go on; t goes on with stack st.  If init_lock has been
\* cleared, t may have read it before and goes on as well; else there is no lock,
\* and set_init_state fails its assertion or notify_all uses a null object.
SetStateAndNotify(t, k, s, st) ==
    /\ state' = [state EXCEPT ![k] = s]
    /\ \/ /\ stack' = [u \in Threads |->
                         CASE u = t -> st
                           [] u # t /\ At(u, "wait") /\ Top(u).k = k -> MoveTo(u, "lock")
                           [] OTHER -> stack[u]]
          /\ UNCHANGED vm
       \/ /\ ~ HasInitLock(k)
          /\ vm' = IF rank(state[k]) < rank(s) THEN "null lock" ELSE "illegal transition"
          /\ UNCHANGED stack

-----------------------------------------------------------------------------
(* initialize, link_class                                                  *)

Initialize(t, k) ==
    /\ vm = "running"
    /\ stack[t] = <<>>
    /\ calls[t] < MaxCalls
    /\ calls' = [calls EXCEPT ![t] = @ + 1]
    /\ pending' = [pending EXCEPT ![t] = FALSE]
    /\ state[k] # "fully_initialized"
    /\ Goto(t, CallInit(k, <<>>))
    /\ UNCHANGED <<state, init_thread, ran, returned, vm>>

Ancestors[k \in Classes] == Parents(k) \cup UNION {Ancestors[p] : p \in Parents(k)}

\* Classes that are linked first are linked, in any order the hierarchy allows
LinkClass(t) ==
    /\ At(t, "link")
    /\ ~ is_linked(Top(t).k)
    /\ \E u \in Ancestors[Top(t).k] \cup {Top(t).k} :
          /\ ~ is_linked(u)
          /\ \A p \in Parents(u) : is_linked(p) /\ state[p] # "initialization_error"
          /\ \/ /\ state' = [state EXCEPT ![u] = "linked"]
                /\ UNCHANGED <<stack, pending>>
             \/ /\ u \in Unverifiable
                /\ Throw(t)
                /\ UNCHANGED state
    /\ UNCHANGED <<init_thread, history, vm>>

\* NoClassDefFoundError: a class to be linked first is erroneous
LinkErroneous(t) ==
    /\ At(t, "link")
    /\ ~ is_linked(Top(t).k)
    /\ \E u \in Ancestors[Top(t).k] \cup {Top(t).k} :
          ~ is_linked(u) /\ \E p \in Parents(u) : state[p] = "initialization_error"
    /\ Throw(t)
    /\ UNCHANGED <<state, init_thread, history, vm>>

Linked(t) ==
    /\ At(t, "link")
    /\ is_linked(Top(t).k)
    /\ Goto(t, MoveTo(t, "lock"))
    /\ UNCHANGED <<state, init_thread, pending, history, vm>>

-----------------------------------------------------------------------------
(* initialize_impl, steps 1 to 6: under init_lock                          *)

Other(t) == state[Top(t).k] = "being_initialized" /\ init_thread[Top(t).k] # t

\* Step 2: another thread is at it
Wait(t) ==
    /\ At(t, "lock")
    /\ Other(t)
    /\ Goto(t, MoveTo(t, "wait"))
    /\ UNCHANGED <<state, init_thread, pending, history, vm>>

\* Mutant: a class that anybody is initialising counts as initialised
AlreadyInitializing(t) ==
    /\ At(t, "lock")
    /\ state[Top(t).k] \in {"fully_initialized", "being_initialized"}
    /\ Return(t)
    /\ UNCHANGED <<state, init_thread, pending, calls, ran, vm>>

\* Steps 3 and 4: the class is initialised, or this thread is at it
Already(t) ==
    /\ At(t, "lock")
    /\ \/ state[Top(t).k] = "fully_initialized"
       \/ state[Top(t).k] = "being_initialized" /\ init_thread[Top(t).k] = t
    /\ Return(t)
    /\ UNCHANGED <<state, init_thread, pending, calls, ran, vm>>

\* Step 5: NoClassDefFoundError
Erroneous(t) ==
    /\ At(t, "lock")
    /\ state[Top(t).k] = "initialization_error"
    /\ Throw(t)
    /\ UNCHANGED <<state, init_thread, history, vm>>

\* Mutant: the states before and during the initialisation are not told apart
BeginTwice(t) ==
    /\ At(t, "lock")
    /\ state[Top(t).k] \in {"linked", "being_initialized"}
    /\ state' = [state EXCEPT ![Top(t).k] = "being_initialized"]
    /\ init_thread' = [init_thread EXCEPT ![Top(t).k] = t]
    /\ Goto(t, MoveTo(t, "super"))
    /\ UNCHANGED <<pending, history, vm>>

\* Step 6
Begin(t) ==
    /\ At(t, "lock")
    /\ state[Top(t).k] = "linked"
    /\ state' = [state EXCEPT ![Top(t).k] = "being_initialized"]
    /\ init_thread' = [init_thread EXCEPT ![Top(t).k] = t]
    /\ Goto(t, MoveTo(t, "super"))
    /\ UNCHANGED <<pending, history, vm>>

-----------------------------------------------------------------------------
(* Step 7 and superinterfaces                                              *)

\* Mutant: a super class that is being initialised is left to the one at it
InitializeSuperUnstarted(t) ==
    /\ At(t, "super")
    /\ LET sup == Super[Top(t).k]
           here == MoveTo(t, "super_done")
       IN  Goto(t, IF sup = None THEN here
                   ELSE IF rank(state[sup]) < 3 THEN CallInit(sup, here) ELSE here)
    /\ UNCHANGED <<state, init_thread, pending, history, vm>>

\* Super is given for classes only, not for interfaces
InitializeSuper(t) ==
    /\ At(t, "super")
    /\ LET sup == Super[Top(t).k]
           here == MoveTo(t, "super_done")
       IN  Goto(t, IF sup = None THEN here ELSE CallInit(sup, here))
    /\ UNCHANGED <<state, init_thread, pending, history, vm>>

\* The super class failed, and so does this one
SuperFailed(t) ==
    /\ At(t, "super_done")
    /\ pending[t]
    /\ SetStateAndNotify(t, Top(t).k, "initialization_error", Popped(t))
    /\ UNCHANGED <<init_thread, pending, history>>

SuperDone(t) ==
    /\ At(t, "super_done")
    /\ ~ pending[t]
    /\ LET here == MoveTo(t, "interfaces_done")
       IN  Goto(t, IF Top(t).k \in HasDefaults THEN <<Frame(Top(t).k, "loop")>> \o here ELSE here)
    /\ UNCHANGED <<state, init_thread, pending, history, vm>>

Interface(t) == Interfaces[Top(t).k][Top(t).i]

\* initialize_super_interfaces(k): the next interface, its superinterfaces first
InterfaceLoop(t) ==
    /\ At(t, "loop")
    /\ Goto(t, CASE Top(t).i > Len(Interfaces[Top(t).k]) -> Popped(t)
                 [] Top(t).i <= Len(Interfaces[Top(t).k]) ->
                      LET iface == Interface(t)
                          here == MoveTo(t, "supers_done")
                      IN  CASE state[iface] = "fully_initialized" -> NextIn(t, "loop")
                            [] iface \in HasDefaults /\ state[iface] # "fully_initialized" ->
                                 <<Frame(iface, "loop")>> \o here
                            [] OTHER -> here)
    /\ UNCHANGED <<state, init_thread, pending, history, vm>>

InterfaceInit(t) ==
    /\ At(t, "supers_done")
    /\ LET here == MoveTo(t, "interface_done")
       IN  Goto(t, IF ~ pending[t] /\ Interface(t) \in Declares
                   THEN CallInit(Interface(t), here) ELSE here)
    /\ UNCHANGED <<state, init_thread, pending, history, vm>>

InterfaceDone(t) ==
    /\ At(t, "interface_done")
    /\ ~ pending[t]
    /\ Goto(t, NextIn(t, "loop"))
    /\ UNCHANGED <<state, init_thread, pending, history, vm>>

\* The interface failed: so does the class whose interfaces these are
InterfaceFailed(t) ==
    /\ At(t, "interface_done")
    /\ pending[t]
    /\ SetStateAndNotify(t, Top(t).k, "initialization_error", Popped(t))
    /\ UNCHANGED <<init_thread, pending, history>>

\* The exception goes on to the caller of initialize_impl
InterfacesFailed(t) ==
    /\ At(t, "interfaces_done")
    /\ pending[t]
    /\ Goto(t, Popped(t))
    /\ UNCHANGED <<state, init_thread, pending, history, vm>>

-----------------------------------------------------------------------------
(* Steps 8 to 11                                                           *)

CallInitializer(t) ==
    /\ At(t, "interfaces_done")
    /\ ~ pending[t]
    /\ ran' = [ran EXCEPT ![Top(t).k] = @ + 1]
    /\ Goto(t, MoveTo(t, "clinit"))
    /\ UNCHANGED <<state, init_thread, pending, calls, returned, vm>>

\* The static initialiser uses another class
UseClass(t) ==
    /\ At(t, "clinit")
    /\ ~ pending[t]
    /\ Top(t).i <= Len(Uses[Top(t).k])
    /\ Goto(t, CallInit(Uses[Top(t).k][Top(t).i], NextIn(t, "clinit")))
    /\ UNCHANGED <<state, init_thread, pending, history, vm>>

\* Step 9
Initialized(t) ==
    /\ At(t, "clinit")
    /\ ~ pending[t]
    /\ Top(t).i > Len(Uses[Top(t).k])
    /\ SetStateAndNotify(t, Top(t).k, "fully_initialized", Popped(t))
    /\ returned' = [returned EXCEPT ![t] = @ \cup {Top(t).k}]
    /\ UNCHANGED <<init_thread, pending, calls, ran>>

\* Steps 10 and 11: it threw an exception, or a class it uses did
InitializerThrew(t) ==
    /\ At(t, "clinit")
    /\ pending[t] \/ Top(t).k \in Failing
    /\ SetStateAndNotify(t, Top(t).k, "initialization_error", Popped(t))
    /\ pending' = [pending EXCEPT ![t] = TRUE]
    /\ UNCHANGED <<init_thread, history>>

-----------------------------------------------------------------------------
Step(t) ==
    /\ vm = "running"
    /\ \/ LinkClass(t) \/ LinkErroneous(t) \/ Linked(t)
       \/ Wait(t) \/ Already(t) \/ Erroneous(t) \/ Begin(t)
       \/ InitializeSuper(t) \/ SuperFailed(t) \/ SuperDone(t)
       \/ InterfaceLoop(t) \/ InterfaceInit(t) \/ InterfaceDone(t) \/ InterfaceFailed(t)
       \/ InterfacesFailed(t)
       \/ CallInitializer(t) \/ UseClass(t) \/ Initialized(t) \/ InitializerThrew(t)

Next == \E t \in Threads : Step(t) \/ \E k \in Classes : Initialize(t, k)

Spec == Init /\ [][Next]_vars
FairSpec == Spec /\ \A t \in Threads : WF_vars(Step(t))

-----------------------------------------------------------------------------
(* Properties                                                              *)

\* Every variable has its type
TypeOK ==
    /\ state \in [Classes -> Elements(Order)]
    /\ init_thread \in [Classes -> Threads \cup {None}]
    /\ \A t \in Threads : \A f \in Elements(stack[t]) :
          /\ f.k \in Classes
          /\ f.i \in 1..(IF f.pc = "clinit" THEN Len(Uses[f.k]) ELSE Len(Interfaces[f.k])) + 1
    /\ pending \in [Threads -> BOOLEAN]
    /\ calls \in [Threads -> 0..MaxCalls]
    /\ ran \in [Classes -> Nat]
    /\ returned \in [Threads -> SUBSET Classes]
    /\ vm \in {"running", "null lock", "illegal transition"}

\* A static initialiser is run once, whatever threads and failures there are
\* (instanceKlass.cpp:842 initialize_impl)
RunOnce == \A k \in Classes : ran[k] <= 1

\* An interface that initialize_super_interfaces may have marked for a class that
\* implements it, because an interface that it extends has failed (828)
MayBeMarked(k) ==
    /\ \E j \in Classes : k \in Elements(Interfaces[j])
    /\ \E p \in Elements(Interfaces[k]) : state[p] = "initialization_error"

\* A thread that got past the initialisation of a class may use it: it is
\* initialised, or this thread is at it (instanceKlass.cpp:572); an interface that
\* extends a failed one may be marked later
UsableWhenReturned ==
    \A t \in Threads : \A k \in returned[t] :
        state[k] = "fully_initialized" \/ init_thread[k] = t \/ MayBeMarked(k)

\* A static initialiser runs only when the super class, and the interfaces with
\* default methods, are initialised or being initialised by the same thread
\* (instanceKlass.cpp:902, 804), with the same exception
SupersFirst ==
    \A t \in Threads : \A f \in Elements(stack[t]) :
        f.pc = "clinit" =>
            \A p \in Parents(f.k) :
                p = Super[f.k] \/ p \in Declares =>
                    \/ state[p] = "fully_initialized"
                    \/ state[p] = "being_initialized" /\ init_thread[p] = t
                    \/ MayBeMarked(p)

\* The state of a class only makes progress: the assertion "illegal state
\* transition" holds (instanceKlass.cpp:3562)
LegalTransitions == vm # "illegal transition"

\* Whoever finds init_lock cleared does without it: nobody notifies a null
\* object (instanceKlass.cpp:523, 990)
ClearedLockUnused == vm # "null lock"

\* Threads wait in a circle, each for a class that the next one is initialising;
\* the Java language allows this
CircularWait ==
    \E S \in SUBSET Threads \ {{}} :
        \A t \in S : At(t, "wait") /\ init_thread[Top(t).k] \in S

\* A thread that asks for a class is not left waiting, whoever fails or marks the
\* class (instanceKlass.cpp:857, 985)
InitializeReturns ==
    \A t \in Threads : stack[t] # <<>> ~> stack[t] = <<>> \/ CircularWait \/ vm # "running"
=============================================================================
