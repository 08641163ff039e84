--------------------------- MODULE NMethodSweeper ---------------------------
(***************************************************************************)
(* The life of compiled code (class nmethod) and the sweeper that reclaims *)
(* it (class NMethodSweeper), with everything that can hold on to code:    *)
(* activations on thread stacks, inline caches of other compiled code, and *)
(* the nmethod locks of VM code.                                           *)
(*                                                                         *)
(* A slot is an address of the code cache; a flushed slot is reused by a   *)
(* later compilation.  Every nmethod has one call site, its inline cache.  *)
(*                                                                         *)
(* age[n] is traversal_count() - _stack_traversal_mark, cut off at 2: the  *)
(* code only ever asks whether mark + 1 < traversals.  It is kept at 0 for *)
(* code that is not not_entrant, whose mark is never read.                 *)
(***************************************************************************)
EXTENDS Integers, FiniteSets

CONSTANTS N,                    \* capacity of the code cache, in nmethods
          Threads,              \* Java threads that resolve calls
          NmethodSweepFraction  \* invocations a full sweep is spread over

ASSUME CacheAssumption == N \in Nat \ {0}
ASSUME FractionAssumption == NmethodSweepFraction \in Nat \ {0}

Slots == 1..N
NULL == 0

VARIABLES
    state,      \* _state of every slot; "free" is not allocated
    age,        \* passes since the nmethod was last marked as seen on stack
    reclaim,    \* zombies the sweeper has marked for reclamation
    osr,        \* slots that hold OSR nmethods
    ic,         \* ic[c]: the nmethod the call site of c is bound to, or NULL
    act,        \* nmethods that have an activation on some stack
    res,        \* per thread: an nmethodLocker, or a call being resolved
    current,    \* NMethodSweeper::_current
    next,       \* the nmethod after _current, read before processing it
    seen,       \* NMethodSweeper::_seen
    todo,       \* iterations left of this invocation
    fractions,  \* NMethodSweeper::_sweep_fractions_left
    spc,        \* where the sweeping thread is
    freed,      \* freed_memory > 0 in this invocation
    stopped     \* !CompileBroker::should_compile_new_jobs()

codeVars  == <<state, age, reclaim, osr>>
sweepVars == <<current, next, seen, todo, fractions, spc, freed>>
vars == <<state, age, reclaim, osr, ic, act, res, current, next, seen, todo,
          fractions, spc, freed, stopped>>

States == {"free", "in_use", "not_entrant", "zombie", "unloaded"}

\* nmethod::is_alive()
Alive(n) == state[n] \in {"in_use", "not_entrant"}

Allocated == {n \in Slots : state[n] # "free"}

idle == [pc |-> "idle", site |-> NULL, callee |-> NULL]

\* nmethod::is_locked_by_vm(): a thread holds an nmethodLocker on n
LockedBy(t, n) == n \in {res[t].site, res[t].callee}
Locked(n) == \E t \in Threads : LockedBy(t, n)

\* Some thread holds CompiledIC_lock to bind a call site
ICLocked == \E t \in Threads : res[t].pc = "patch"

\* CodeCache::first_nmethod() and CodeCache::next_nmethod(n)
First(S) == IF S = {} THEN NULL ELSE CHOOSE n \in S : \A m \in S : n <= m
NextNMethod(n) == First({m \in Allocated : m > n})

Init ==
    /\ state = [n \in Slots |-> "free"]
    /\ age = [n \in Slots |-> 0]
    /\ reclaim = {}
    /\ osr = {}
    /\ ic = [n \in Slots |-> NULL]
    /\ act = {}
    /\ res = [t \in Threads |-> idle]
    /\ current = NULL
    /\ next = NULL
    /\ seen = 0
    /\ todo = 0
    /\ fractions = 0
    /\ spc = "idle"
    /\ freed = FALSE
    /\ stopped = FALSE

-----------------------------------------------------------------------------
(* Compilation and execution                                               *)

\* nmethod::new_nmethod: the compiled code is placed in a free slot
NewNMethod(n, isOsr) ==
    /\ state[n] = "free"
    /\ state' = [state EXCEPT ![n] = "in_use"]
    /\ osr' = IF isOsr THEN osr \cup {n} ELSE osr \ {n}
    /\ ic' = [ic EXCEPT ![n] = NULL]
    /\ UNCHANGED <<age, reclaim, act, res, sweepVars, stopped>>

\* A thread calls n through its verified (or OSR) entry point
Enter(n) ==
    /\ state[n] = "in_use"
    /\ act' = act \cup {n}
    /\ UNCHANGED <<codeVars, ic, res, sweepVars, stopped>>

\* The last activation of n returns or is unwound; a frame whose call is
\* being resolved does not return
Return(n) ==
    /\ n \in act
    /\ \A t \in Threads : res[t].site # n
    /\ act' = act \ {n}
    /\ UNCHANGED <<codeVars, ic, res, sweepVars, stopped>>

\* make_not_entrant_or_zombie(not_entrant), under Patching_lock
MakeNotEntrant(n) ==
    /\ state[n] = "in_use"
    /\ state' = [state EXCEPT ![n] = "not_entrant"]
    /\ age' = [age EXCEPT ![n] = 0]
    /\ UNCHANGED <<reclaim, osr, ic, act, res, sweepVars, stopped>>

-----------------------------------------------------------------------------
(* nmethod locks and call resolution                                       *)

\* Mutant: an nmethod is locked without knowing that it is alive
LockUnchecked(t, n) ==
    /\ res[t] = idle
    /\ state[n] # "free"
    /\ res' = [res EXCEPT ![t] = [pc |-> "hold", site |-> NULL, callee |-> n]]
    /\ UNCHANGED <<codeVars, ic, act, sweepVars, stopped>>

\* nmethodLocker: VM code pins an nmethod that it knows to be alive
LockNMethod(t, n) ==
    /\ res[t] = idle
    /\ Alive(n)
    /\ res' = [res EXCEPT ![t] = [pc |-> "hold", site |-> NULL, callee |-> n]]
    /\ UNCHANGED <<codeVars, ic, act, sweepVars, stopped>>

UnlockNMethod(t) ==
    /\ res[t].pc = "hold"
    /\ res' = [res EXCEPT ![t] = idle]
    /\ UNCHANGED <<codeVars, ic, act, sweepVars, stopped>>

\* resolve_sub_helper, first half: caller c and callee n are locked and the
\* thread waits for CompiledIC_lock
ResolveBegin(t, c, n) ==
    /\ res[t] = idle
    /\ c \in act
    /\ state[n] = "in_use"
    /\ n \notin osr
    /\ res' = [res EXCEPT ![t] = [pc |-> "resolve", site |-> c, callee |-> n]]
    /\ UNCHANGED <<codeVars, ic, act, sweepVars, stopped>>

\* CompiledIC_lock is acquired.  The site is bound only if the callee is
\* still in use and the site is still clean; it is not if the callee's Method
\* was redefined or has other code by now
ResolveCheck(t) ==
    /\ res[t].pc = "resolve"
    /\ ~ICLocked
    /\ \/ /\ state[res[t].callee] = "in_use"
          /\ ic[res[t].site] = NULL
          /\ res' = [res EXCEPT ![t] = [@ EXCEPT !.pc = "patch"]]
       \/ res' = [res EXCEPT ![t] = idle]
    /\ UNCHANGED <<codeVars, ic, act, sweepVars, stopped>>

\* set_to_monomorphic / CompiledStaticCall::set, then every lock is released
ResolvePatch(t) ==
    /\ res[t].pc = "patch"
    /\ ic' = [ic EXCEPT ![res[t].site] = res[t].callee]
    /\ res' = [res EXCEPT ![t] = idle]
    /\ UNCHANGED <<codeVars, act, sweepVars, stopped>>

\* reresolve_call_site: a call that hit the wrong method cleans its site
CleanCallSite(c) ==
    /\ c \in act
    /\ ic[c] # NULL
    /\ ~ICLocked
    /\ ic' = [ic EXCEPT ![c] = NULL]
    /\ UNCHANGED <<codeVars, act, res, sweepVars, stopped>>

-----------------------------------------------------------------------------
(* Safepoints.  No thread is between the check and the binding of a call   *)
(* site, and the sweeper is not between its loop and the end of its        *)
(* invocation.                                                             *)

\* Mutant: the last invocation is bounded like the others
LoopCondBounded == todo > 0 /\ current # NULL

\* The condition of sweep_code_cache's loop; the last invocation visits all
LoopCond == (todo > 0 \/ fractions = 1) /\ current # NULL
AtSafepoint == ~ICLocked /\ ~(spc = "loop" /\ ~LoopCond)

\* Mutant: the marking misses the activations
MarkActivationsBlind ==
    [n \in Slots |-> IF state[n] # "not_entrant" THEN 0
                     ELSE IF age[n] = 0 THEN 1 ELSE 2]

\* Mutant: code without an activation never gets old enough
MarkActivationsOnce ==
    [n \in Slots |-> IF state[n] # "not_entrant" \/ n \in act THEN 0 ELSE 1]

\* MarkActivationClosure over all stacks, after _traversals += 1
MarkActivations ==
    [n \in Slots |-> IF state[n] # "not_entrant" \/ n \in act THEN 0
                     ELSE IF age[n] = 0 THEN 1 ELSE 2]

\* Mutant: what is left of the last sweep's invocations is kept
MarkActiveKeepsFractions ==
    IF current = NULL
    THEN /\ age' = MarkActivations
         /\ current' = First(Allocated)
         /\ seen' = 0
         /\ fractions' = fractions + NmethodSweepFraction
    ELSE UNCHANGED <<age, current, seen, fractions>>

\* NMethodSweeper::mark_active_nmethods, at the start of every safepoint
MarkActiveNMethods ==
    IF current = NULL
    THEN /\ age' = MarkActivations
         /\ current' = First(Allocated)
         /\ seen' = 0
         /\ fractions' = NmethodSweepFraction
    ELSE UNCHANGED <<age, current, seen, fractions>>

\* A safepoint whose operation leaves the code cache alone
Safepoint ==
    /\ AtSafepoint
    /\ MarkActiveNMethods
    /\ UNCHANGED <<state, reclaim, osr, ic, act, res, next, todo, spc, freed,
                   stopped>>

\* nmethod::cleanup_inline_caches of c, when the code states are st and old is
\* the code in use that its Method no longer refers to
Cleaned(c, st, old) ==
    IF ic[c] # NULL /\ (st[ic[c]] \notin {"free", "in_use"} \/ ic[c] \in old)
    THEN NULL ELSE ic[c]

\* CodeCache::do_unloading and gc_epilogue: the collector unloads the code U
\* whose oops have died.  Activations and the nmethod being swept are roots.
\* Only a transition from in_use requests a cleaning of all inline caches
GCUnload(U, old) ==
    LET st == [n \in Slots |-> IF n \in U THEN "unloaded" ELSE state[n]]
        scanned == IF spc \in {"clean", "zombify"} THEN {current} ELSE {}
    IN  /\ AtSafepoint
        /\ U # {}
        /\ \A n \in U : Alive(n) /\ n \notin act \cup scanned
        /\ MarkActiveNMethods
        /\ state' = st
        /\ ic' = IF \E n \in U : state[n] = "in_use"
                 THEN [c \in Slots |-> IF st[c] \in {"in_use", "not_entrant"}
                                       THEN Cleaned(c, st, old) ELSE ic[c]]
                 ELSE ic
        /\ UNCHANGED <<reclaim, osr, act, res, next, todo, spc, freed, stopped>>

-----------------------------------------------------------------------------
(* The sweeper                                                             *)

\* possibly_sweep up to the loop of sweep_code_cache, by the thread that wins
\* the compare-and-swap of _sweep_started.  While compilation is stopped the
\* whole sweep is done in one invocation
CanSweep == spc = "idle" /\ current # NULL /\ fractions > 0
StartSweep(stop) ==
    LET f == IF stop THEN 1 ELSE fractions
    IN  /\ fractions' = f
        /\ todo' = IF Cardinality(Allocated) > seen
                   THEN (Cardinality(Allocated) - seen) \div f ELSE 0
        /\ freed' = FALSE
        /\ spc' = "loop"
        /\ UNCHANGED <<current, next, seen>>

PossiblySweep ==
    /\ CanSweep
    /\ StartSweep(stopped)
    /\ UNCHANGED <<codeVars, ic, act, res, stopped>>

\* new_nmethod returned NULL: CompileBroker::handle_full_code_cache stops
\* compilation and sweeps if it can
HandleFullCodeCache ==
    /\ Allocated = Slots
    /\ stopped' = TRUE
    /\ IF CanSweep THEN StartSweep(TRUE) ELSE UNCHANGED sweepVars
    /\ UNCHANGED <<codeVars, ic, act, res>>

\* _seen++, _current = next, back to the head of the loop
Advance(nx) ==
    /\ current' = nx
    /\ next' = NULL
    /\ seen' = seen + 1
    /\ todo' = IF todo > 0 THEN todo - 1 ELSE 0
    /\ spc' = "loop"

\* The nmethod needs CompiledIC_lock: the next one is remembered
Await(pc) ==
    /\ spc' = pc
    /\ next' = NextNMethod(current)
    /\ UNCHANGED <<current, seen, todo>>

\* process_nmethod, up to the acquisition of CompiledIC_lock
SweepVisit ==
    LET n == current IN
    /\ spc = "loop"
    /\ LoopCond
    /\ \/ /\ Locked(n)
          /\ IF Alive(n) THEN Await("clean") ELSE Advance(NextNMethod(n))
          /\ UNCHANGED <<state, age, reclaim>>
       \/ /\ ~Locked(n) /\ state[n] = "zombie"
          /\ IF n \in reclaim
             THEN Await("release") /\ UNCHANGED reclaim
             ELSE Advance(NextNMethod(n)) /\ reclaim' = reclaim \cup {n}
          /\ UNCHANGED <<state, age>>
       \/ /\ ~Locked(n) /\ state[n] = "not_entrant"
          /\ Await(IF age[n] = 2 THEN "zombify" ELSE "clean")
          /\ UNCHANGED <<state, age, reclaim>>
       \/ /\ ~Locked(n) /\ state[n] = "unloaded"
          /\ Await(IF n \in osr THEN "release" ELSE "zombify")
          /\ UNCHANGED <<state, age, reclaim>>
       \/ /\ ~Locked(n) /\ state[n] = "in_use"
          /\ Await("clean")
          /\ \/ UNCHANGED <<state, age>>
             \/ /\ n \notin osr       \* cold code is made not entrant
                /\ state' = [state EXCEPT ![n] = "not_entrant"]
                /\ age' = [age EXCEPT ![n] = 0]
          /\ UNCHANGED reclaim
    /\ UNCHANGED <<osr, ic, act, res, fractions, freed, stopped>>

\* Mutant: only code that is in use has its call site cleaned
SweepCleanInUse(old) ==
    /\ spc = "clean"
    /\ ~ICLocked
    /\ ic' = [ic EXCEPT ![current] = IF state[current] = "in_use"
                                     THEN Cleaned(current, state, old) ELSE @]
    /\ Advance(next)
    /\ UNCHANGED <<codeVars, act, res, fractions, freed, stopped>>

\* cleanup_inline_caches of the visited nmethod
SweepClean(old) ==
    /\ spc = "clean"
    /\ ~ICLocked
    /\ ic' = [ic EXCEPT ![current] = Cleaned(current, state, old)]
    /\ Advance(next)
    /\ UNCHANGED <<codeVars, act, res, fractions, freed, stopped>>

\* make_zombie of the visited nmethod; an unloaded one is cleaned first
SweepZombify(old) ==
    /\ spc = "zombify"
    /\ ~ICLocked
    /\ ic' = [ic EXCEPT ![current] = IF state[current] = "unloaded"
                                     THEN Cleaned(current, state, old) ELSE @]
    /\ state' = [state EXCEPT ![current] = "zombie"]
    /\ age' = [age EXCEPT ![current] = 0]
    /\ Advance(next)
    /\ UNCHANGED <<reclaim, osr, act, res, fractions, freed, stopped>>

\* release_nmethod and nmethod::flush: the slot is free again
SweepRelease ==
    /\ spc = "release"
    /\ ~ICLocked
    /\ state' = [state EXCEPT ![current] = "free"]
    /\ reclaim' = reclaim \ {current}
    /\ osr' = osr \ {current}
    /\ freed' = TRUE
    /\ Advance(next)
    /\ UNCHANGED <<age, ic, act, res, fractions, stopped>>

\* Mutant: only the last invocation of a sweep restarts compilation
SweepDoneRestartsLast ==
    /\ spc = "loop"
    /\ ~LoopCond
    /\ fractions' = fractions - 1
    /\ stopped' = (stopped /\ ~(freed /\ fractions = 1))
    /\ todo' = 0
    /\ freed' = FALSE
    /\ spc' = "idle"
    /\ UNCHANGED <<codeVars, ic, act, res, current, next, seen>>

\* The end of sweep_code_cache and of possibly_sweep
SweepDone ==
    /\ spc = "loop"
    /\ ~LoopCond
    /\ fractions' = fractions - 1
    /\ stopped' = (stopped /\ ~freed)
    /\ todo' = 0
    /\ freed' = FALSE
    /\ spc' = "idle"
    /\ UNCHANGED <<codeVars, ic, act, res, current, next, seen>>

-----------------------------------------------------------------------------
Compile == (\E n \in Slots, b \in BOOLEAN : NewNMethod(n, b)) \/ HandleFullCodeCache
Execute == \E n \in Slots : Enter(n) \/ Return(n) \/ MakeNotEntrant(n) \/ CleanCallSite(n)
Resolve == \E t \in Threads :
              \/ \E n \in Slots : LockNMethod(t, n)
              \/ \E c, n \in Slots : ResolveBegin(t, c, n)
              \/ UnlockNMethod(t) \/ ResolveCheck(t) \/ ResolvePatch(t)
Collect == \E U, old \in SUBSET Slots : GCUnload(U, old)
Sweep   == \/ PossiblySweep \/ SweepVisit \/ SweepRelease \/ SweepDone
           \/ \E old \in SUBSET Slots : SweepClean(old) \/ SweepZombify(old)

Next == Compile \/ Execute \/ Resolve \/ Safepoint \/ Collect \/ Sweep

Spec == Init /\ [][Next]_vars

\* A thread that holds CompiledIC_lock releases it.  A requested safepoint
\* stops threads from taking the lock again, and the sweeping thread is
\* granted it in the end: both are enabled again and again, hence SF
Fairness ==
    /\ SF_vars(Sweep)
    /\ SF_vars(Safepoint)
    /\ \A t \in Threads : WF_vars(ResolvePatch(t))

FairSpec == Spec /\ Fairness

-----------------------------------------------------------------------------
(* Properties                                                              *)

\* Every variable has its type
TypeOK ==
    /\ state \in [Slots -> States]
    /\ age \in [Slots -> 0..2]
    /\ reclaim \subseteq Slots
    /\ osr \subseteq Slots
    /\ ic \in [Slots -> Slots \cup {NULL}]
    /\ act \subseteq Slots
    /\ res \in [Threads -> [pc : {"idle", "hold", "resolve", "patch"},
                            site : Slots \cup {NULL}, callee : Slots \cup {NULL}]]
    /\ current \in Slots \cup {NULL}
    /\ next \in Slots \cup {NULL}
    /\ seen \in Nat
    /\ todo \in Nat
    /\ fractions \in 0..NmethodSweepFraction
    /\ spc \in {"idle", "loop", "clean", "zombify", "release"}
    /\ freed \in BOOLEAN
    /\ stopped \in BOOLEAN

\* Code with an activation on a stack is alive: it was neither unloaded, nor
\* made a zombie, nor flushed (can_convert_to_zombie's two traversals)
NoActivationInDeadCode == \A n \in act : Alive(n)

\* A call site of live code is never bound to flushed code, nor to the code
\* that later reuses its slot (process_nmethod: "When we have seen a zombie
\* method twice, we know that there are no inline caches that refer to it")
NoCallIntoFlushedCode ==
    \A c \in Slots : Alive(c) /\ ic[c] # NULL => state[ic[c]] # "free"

\* An nmethod that VM code has locked is not flushed (nmethod::flush)
LockedNotFlushed == \A n \in Slots : Locked(n) => state[n] # "free"

\* The sweeper's cursor never dangles, and a sweep that has not visited all
\* code still has an invocation left (mark_active_nmethods' and
\* sweep_code_cache's asserts)
CursorValid ==
    /\ current # NULL => state[current] # "free" /\ fractions > 0
    /\ next # NULL => state[next] # "free"

\* An nmethod that VM code has locked does not become a zombie (_lock_count)
LockedNotZombified ==
    [][\A n \in Slots : Locked(n) /\ state'[n] = "zombie" => state[n] = "zombie"]_vars

\* Code that is dead, or not entrant, and that stays off the stacks and
\* unlocked is eventually flushed
DeadCodeReclaimed ==
    \A n \in Slots :
        <>[](n \notin act /\ ~Locked(n)) =>
            (state[n] \in {"not_entrant", "unloaded", "zombie"} ~> state[n] = "free")

\* Compilation that a full code cache stopped is started again if there is
\* such code (sweep_code_cache: it is restarted only by a sweep that freed
\* memory)
CompilationResumes ==
    \A n \in Slots :
        <>[](n \notin act /\ ~Locked(n)) =>
            (stopped /\ state[n] \in {"not_entrant", "unloaded", "zombie"} ~> ~stopped)

-----------------------------------------------------------------------------
(* The inductive invariant behind the four safety properties               *)

\* Code on a stack is alive and, if it is not entrant, was seen by the last
\* marking
ActivationsFresh ==
    \A n \in act : Alive(n) /\ (state[n] = "not_entrant" => age[n] = 0)

\* What a thread between two steps of a resolution relies on
ThreadsPinned ==
    \A t \in Threads :
        /\ res[t].pc = "idle" => res[t] = idle
        /\ res[t].pc # "idle" => res[t].callee # NULL /\ state[res[t].callee] # "free"
        /\ res[t].pc = "hold" => res[t].site = NULL
        /\ res[t].pc \in {"resolve", "patch"} =>
               res[t].site \in act /\ res[t].callee \notin osr
        /\ res[t].pc = "patch" =>
               \/ state[res[t].callee] = "in_use"
               \/ state[res[t].callee] = "not_entrant" /\ age[res[t].callee] = 0

\* The decision the sweeper took before it waited is still right
SweeperDecided ==
    /\ spc \in {"clean", "zombify", "release"} => current # NULL
    /\ spc = "clean" => Alive(current)
    /\ spc = "zombify" => \/ state[current] = "not_entrant" /\ age[current] = 2
                          \/ state[current] = "unloaded" /\ current \notin osr
    /\ spc = "release" => /\ ~Locked(current)
                          /\ \/ state[current] = "zombie" /\ current \in reclaim
                             \/ state[current] = "unloaded" /\ current \in osr

ReclaimedDead == \A n \in reclaim : state[n] = "zombie" /\ ~Locked(n)

CursorInSweep ==
    /\ spc # "idle" => fractions > 0
    /\ next # NULL => spc \in {"clean", "zombify", "release"} /\ current < next

\* c lies behind n in the sweep: it was not visited since n was marked for
\* reclamation
Pending(c, n) ==
    IF current = NULL THEN c < n
    ELSE IF current <= n THEN current <= c /\ c < n
    ELSE c < n \/ current <= c

CallSitesPending ==
    \A c \in Slots : Alive(c) /\ ic[c] # NULL =>
        /\ state[ic[c]] # "free"
        /\ ic[c] \notin osr
        /\ ic[c] \in reclaim => Pending(c, ic[c])

\* The slots the sweeper skips were free when it computed next
SkippedFresh ==
    spc \in {"clean", "zombify", "release"} =>
        \A m \in Slots : current < m /\ (next = NULL \/ m < next) =>
            /\ state[m] # "zombie"
            /\ Alive(m) => ic[m] \notin reclaim

IInv ==
    /\ TypeOK
    /\ ActivationsFresh
    /\ ThreadsPinned
    /\ SweeperDecided
    /\ ReclaimedDead
    /\ CursorInSweep
    /\ CursorValid
    /\ CallSitesPending
    /\ SkippedFresh

=============================================================================
