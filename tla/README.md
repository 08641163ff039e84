# Verification of the JVMCI VM: compiled code, and the concurrency under it

The repository is HotSpot (JDK 8) with the JVM Compiler Interface: a VM in which
compiled code (`nmethod`s) is produced by C1, C2 or a compiler written in Java,
runs, is deoptimized, loses its objects to the collector, and is reclaimed while
everything else goes on. This project models that life cycle, which is where the
JVMCI additions meet the oldest concurrency of the VM, and then the protocols it
stands on: compile requests, safepoints, monitors, class initialisation and the
work stealing of the collectors. Paths below are relative
to `src/src/share/vm` unless they start with `jvmci/`.

## 1. Inventory

| Component | State | Operations | Interacts with | What makes it correct |
|---|---|---|---|---|
| **NMethodSweeper** (`runtime/sweeper.cpp`) | `_current`, `_seen`, `_sweep_fractions_left`, `_traversals`, `_sweep_started` | `mark_active_nmethods` at safepoints; `possibly_sweep`, `process_nmethod` by any compiling thread | safepoints, locks, nmethod states, CompileBroker | referenced code is never reclaimed; dead code is, in the end |
| **nmethod** (`code/nmethod.cpp`) | `_state`, `_lock_count`, traversal mark, `_method`, `_jvmci_installed_code` | `make_not_entrant`, `make_zombie`, `make_unloaded`, `flush`, `cleanup_inline_caches`, `nmethodLocker` | all others | transitions keep every link consistent |
| **CodeCache** (`code/codeCache.cpp`) | heap of blobs | allocate, iterate, `gc_epilogue` | sweeper, GC | iteration survives concurrent changes |
| **Call resolution** (`runtime/sharedRuntime.cpp`, `code/compiledIC.cpp`) | call sites | `resolve_sub_helper`, `reresolve_call_site` | sweeper (cleans sites), `Method` | a site is never bound to reclaimed code |
| **Method entry points** (`oops/method.cpp`) | `_code`, `_from_compiled_entry`, `_from_interpreted_entry` | `set_code`, `clear_code` | installation, deoptimization, unloading | no lost and no dangling entry point |
| **Installed code** (`jvmci/jvmciCompilerToVM.cpp`, `jvmci/jvmciEnv.cpp`, `InstalledCode.java`) | `address`, `entryPoint`, the nmethod's back link | `installCode`, `invalidateInstalledCode`, `executeInstalledCode` | nmethod states, VM_Deoptimize, GC | `isAlive`, `isValid` and `invalidate` mean what they say |
| **CompileBroker** (`compiler/compileBroker.cpp`) | queues, stop/run switch | enqueue, wait, `handle_full_code_cache` | sweeper, JVMCI compiler | requests are served once; compilation resumes |
| **JVMCI compiler** (`jvmci/jvmciCompiler.cpp`, `jvmciRuntime.cpp`) | bootstrap flags, runtime object | `bootstrap`, `compile_method` | compile queue | bootstrap ends |
| **Speculation log** (`HotSpotSpeculationLog.java`) | last failure, failures, reasons | `maySpeculate`, `speculate`, `collectFailedSpeculations` | deoptimization, installation, GC | wrong speculations stop being made |
| **Safepoints, VM thread** (`runtime/safepoint.cpp`, `vmThread.cpp`) | synchronisation state, operation queue | begin, end, block, execute | all threads | all stopped, none lost |
| **Monitors** (`runtime/objectMonitor.cpp`, `synchronizer.cpp`, `biasedLocking.cpp`) | owner, `_cxq`, `_EntryList`, `_succ`, wait set | enter, exit, wait, notify, inflate, deflate, revoke | safepoints, parking | exclusion, no stranded thread |
| **GC support** (`utilities/taskqueue.hpp`, `memory/gcLocker.cpp`, `suspendibleThreadSet.cpp`) | deque `_bottom`/`_age`, terminator count, critical count | push, pop, steal, offer termination | GC workers | no task lost or run twice |
| **Class initialisation** (`oops/instanceKlass.cpp`) | init state, init thread | `initialize_impl` | monitors | one initialiser, waiters wake |
| Tiered policy, collectors' heaps, C1/C2, interpreter, class files, serviceability agent, JVMTI, JFR | | | | listed in `PROJECT.json` as not modelled, with the reason |

Hard to test, and so the target of the properties (the full list, with lines, is
`hazards` in `PROJECT.json`): decisions taken before a blocking lock and carried
out after it (`process_nmethod`, `resolve_sub_helper`, `call_helper`); two
critical sections under different locks that write the same words (`set_code`
under `Compile_lock`, `clear_code` under `Patching_lock`); raw `nmethod*` read
from a Java field without a lock; an iteration whose next element is read before
the lock is given up; a sweep spread over several invocations by different
threads; compilation that is stopped and has to be started again.

## 2. Modules

* `NMethodSweeper` – the core. Instances in `MCNMethodSweeper`.
* `MethodCode` – the entry points of one Java method, store by store, and the
  two reads of a call resolution. Instances in `MCMethodCode`.
* `InstalledCode` – the JVMCI link between Java objects and nmethods. Instances
  in `MCInstalledCode`.
* `CompileBroker` – requests, the compile queue, the recycling of tasks, and the
  JVMCI bootstrap on top. Instances in `MCCompileBroker`.
* `SpeculationLog` – the log of one method against compilations, deoptimization
  and unloading.
* `Safepoint` – how Java threads are stopped, over store buffers, and how VM
  operations are requested. Instances in `MCSafepoint`.
* `ObjectMonitor` – enter, exit, wait and notify, access by access; it implements
  the abstract `JavaMonitor`. Instances in `MCObjectMonitor`.
* `WorkStealing` – the task queues of the parallel collector and its termination
  protocol. Instances in `MCWorkStealing`.
* `ClassInit` – linking and initialisation of classes. Instances in `MCClassInit`.

The proofs about a module `M` are in `MProofs` (section 4), those about `SpeculationLog` in
`InstalledCodeProofs`, which extends both models of the JVMCI; `SpeculationLog` therefore
shares no name with `InstalledCode` (`LogInit`, `LogNext`, `Runners`, ...).

The first three take a safepoint as one step that is enabled when every thread is
at a safe place; `Safepoint` is about how that comes true (`SafepointExclusive`).
`ClassInit` takes `init_lock` as a Java monitor, which is what `JavaMonitor` says
and `ObjectMonitor` implements.

A definition called `Mutant: ...` is a deliberately wrong version of the one
after it; no specification uses it. TLC must find the property named in
`PROJECT.json` violated when it replaces the right one.

### NMethodSweeper

A slot of `1..N` is an address of the code cache, in the order in which
`CodeCache::next_nmethod` goes through it; a flushed slot may be reused at once.

| Variable | Code |
|---|---|
| `state`, `reclaim`, `osr` | `_state`, `_marked_for_reclamation`, `is_osr_method()` |
| `age` | `_traversals - _stack_traversal_mark`, cut off at 2; `can_convert_to_zombie` only asks for `mark + 1 < traversals` |
| `ic` | the destination of the nmethod's one call site |
| `act` | nmethods with an activation on some stack |
| `res` | per thread: an `nmethodLocker`, or the locals of `resolve_sub_helper` |
| `current`, `seen`, `fractions`, `todo`, `next`, `spc`, `freed` | the sweeper's statics and the locals of `sweep_code_cache` |
| `stopped` | `!CompileBroker::should_compile_new_jobs()` |

Actions follow the code's blocking points. `process_nmethod` takes its decision
in `SweepVisit`, then waits for `CompiledIC_lock`; `SweepClean`, `SweepZombify`
and `SweepRelease` are what it does afterwards, and anything, a safepoint
included, may happen in between. `resolve_sub_helper` is `ResolveBegin` (locks,
first reads), `ResolveCheck` (lock acquired, states checked again) and
`ResolvePatch`. At a safepoint nobody is between `ResolveCheck` and
`ResolvePatch`, nor the sweeper between the end of its loop and the end of its
invocation: those stretches contain no poll. The compare-and-swap of
`_sweep_started` makes the sweeper one process whoever runs it.
`handle_full_code_cache` and the `possibly_sweep` of `register_method` are
`HandleFullCodeCache` and `PossiblySweep`.

Left to nondeterminism: when to sweep (`_should_sweep`, time and state-change
heuristics), which code is cold (hotness counters), which code in use is no longer
its Method's code (`old`), whether a callee was redefined. Left out: JVMTI's
`zombie_ok` locks, megamorphic and transitional inline caches, native wrappers,
statistics. A callee that is not locked when its call is bound (see
`MethodCode`) is outside this module.

### MethodCode

One Method; its versions are the slots. `set_code` and `clear_code` are three
stores each, one step per store. `Compile_lock` excludes installers from each
other, `Patching_lock` excludes the transitions from each other, and nothing
excludes the two groups. The sweeper is the same protocol as above, reduced to
one visit per slot and a caller that is visited last; activations are left out,
which only makes reclamation earlier. `flags.tiered` decides whether an
installer makes the old code not entrant first; `flags.unloading` whether collections
may unload code. `CommandLines` is the set of settings a run starts from.

### InstalledCode

Threads run `installCode`, `invalidateInstalledCode` and `executeInstalledCode`
on a few wrappers; a critical section under `Patching_lock` is one step. The
sweeper is reduced to what `NMethodSweeper` establishes: zombies only after two
markings off the stacks, flushed at the earliest two markings later, locks
tested before the wait only. `DefaultWrappers` are `HotSpotNmethod`s with
`isDefault`: the collector drops the link to a dead one and unloads the code of
the others. `CompilerThreads` install for a `CompileTask`, which locks the new
code; the passing run has only such threads, because the link is not safe
otherwise: while `installCode` waits for the deoptimization of the old code, new
code that no task has locked can die before it is published. Reading a flushed
nmethod gives either answer. The VM may go down (`vm`), so deadlock is not checked.

### CompileBroker

| Variable | Code |
|---|---|
| `task` | the `CompileTask` objects: on the free list or not, method, blocking, `_has_waiter`, `_is_complete`, `_jvmci_compiler_thread` |
| `queue`, `size` | `CompileQueue`, from `_first`; `_size` |
| `queued` | methods with the `queued_for_compilation` bit |
| `results` | compilations with code, or found not compilable |
| `mode` | `_should_compile_new_jobs` |
| `flags` | `TieredCompilation`, `UseCodeCacheFlushing`, a JVMTI agent is there |
| `ct`, `req`, `boot`, `handled` | locals of the compiler threads, of `compile_method` and of `bootstrap`; `_bootstrap_compilation_request_handled` |

`compile_method` is three steps: the unlocked tests (`CompileMethod`), the test of
the queued bit under the queue's lock (`ReadQueued`), the test of the result,
`create_compile_task` and the queue's `add` (`AddTask`). Between the last two only
the holder of the lock can add, but code can be installed and bits cleared: both
happen without it. A blocking request waits in `Progress`, `WaitTimeout` or
`WaitDone`; a compiler thread may be `Block`ed on a monitor that the waiting thread
owns, because the compiler is Java code. `Get` selects a task as
`CompilationPolicy::select_task_helper` (without tiers) or the tiered policy does,
which may find stale tasks; `PurgeStale` completes those outside the lock.
`CompleteTask` is the destructor of `CompileTaskWrapper`. `PublishResult` is a result
that does not come from a task: `installCode` called by Java code, `doNotInlineOrCompile`,
or a method that deoptimization makes not compilable, at any time; so a task in the queue
may well be for a compilation that has a result. Left out: the queue of C1,
compile commands, compile ids, replay, logging.

### SpeculationLog

One method, its log, a few compilations and threads that run the code. A
compilation is `StartCompilation`, the two halves of `collectFailedSpeculations`
(the VM writes `lastFailed` without the log's monitor, so its test, its use and its
reset are separate steps), then `MaySpeculate`, the test of `speculations` outside the
monitor (`ReadSpeculations`), the one inside (`MakeSpeculations`) and `Register`, which reads
the field again, for each reason, then `Install` or `Bailout`. Two compilations of one
method are possible: a standard one and an OSR one, or one that Java code started. The
history field `dropped` says that another compilation has set `speculations` to null after
this one registered a reason. `Fail` is a guard that fails,
`RecordFailure` the store of the reason, `UncommonTrap` what the deoptimization
does with the code. `Unload` is a collection: reasons embedded in code are weak,
the log holds the strong references, and code dies with a reason it embeds.

### Safepoint

`state` is a thread's `_thread_state` in memory and `buffer` its stores that are
still on the way (`MaxBuffer` bounds them). `interfaceSupport.hpp` changes state by
a store, an optional fence and a load of `SafepointSynchronize::_state`: `Transition`,
`CheckSafepoint`, `FinishTransition`. Without `UseMembar` the VM thread makes every
buffer drain (`Serialize`), and the test of a thread between store and load is what
could go wrong. `Announce`, `Arm`, `Examine`, `SpinDone`, `WaitForThreads`,
`Synchronized` and `End` are `begin` and `end`; `PretendInVM`, `Block`, `CallBack`, `BlockOutside` and
`Restarted` are `block`. `Request...` is `VMThread::execute` with the transitions
that taking and waiting for `VMOperationRequest_lock` implies; `TakeOperation`,
`EvaluateOperation`, `DrainQueue`, `NotifyRequesters` and `Cleanup` are `VMThread::loop`.
Left out: threads that start or end, external suspension, operations that need no
safepoint, the queue of medium priority, compiled native wrappers' own code.

### ObjectMonitor and JavaMonitor

One inflated monitor. Every step makes at most one access another thread can
notice; what is done under `_WaitSetLock`, and by the owner on `_EntryList`, is taken
together. Three steps merge two loads, or a load and a compare-and-swap (`Check`, `Recheck`,
`Elect`): what changes between the two is changed by a thread that has the lock or takes it,
and that thread looks after the queue when it exits. A suspended thread is one that does
not take its next step; the suspension after the park in `wait` (`objectMonitor.cpp:1561`)
is such a pause before `Dequeue`. A thread's `pc` follows `enter`, `TrySpin_VaryDuration`, `EnterI`, `ReenterI`,
`exit`, `ExitEpilog`, `wait`, `notify` and `notifyAll`; `FastExit`, `Drop10`, `DropSucc`
and `Recheck` are the exit that compiled code inlines on x86, with `Drop10` the
"1-0" exit that does not look back. `_succ` and `_Responsible` are modelled as they
are used: hints that suppress wake-ups, and the one thread that parks with a time
limit. `Programs` says how often each thread enters and waits, and who is interrupted
or suspended.

`JavaMonitor` is what Java code may rely on: one thread inside, with its depth;
a waiter comes back with the depth it had, and only after it has left the wait
set. `ImplementsJavaMonitor` is its specification under the mapping `Java`: *inside*
is running Java code (or the body of `wait`/`notify` before it lets go), the depth
is `_recursions + 1`, the wait set is `TState = TS_WAIT`. A thread that holds
`_owner` while it exits, unlinks or takes the lock back is not inside.

Left out: stack locks, inflation and deflation, biased locking, JVMTI events, the
illegal-monitor-state checks, tunables that are not at their default, and the
fences, which are where the code needs them, so that steps interleave.

### WorkStealing

Indices are taken modulo `N` and the tag modulo `TagRange`; `age` is one word that
is read and swapped as one. `Push`, `PopLocal` to `PopLost` are the owner's steps,
`StealAge` to `StealCas` a thief's, each with one visible access. `Processed` ends a
task, `Push` creates new ones while it runs; a full queue sends them to `overflow`.
A worker that drains takes from its queue or its overflow stack, in any order: this
includes the nested loops of `PSPromotionManager::drain_stacks_depth`, which look at the
overflow stack at the end only (`Drained`). The outer loop is that of `StealTask::do_it`;
`Offer`, `CheckOffered`, `Peek` and `Withdraw` are `offer_termination`. A steal that
finds nothing may be followed by another one or by an offer: the number of attempts
is left open. `Phases` gives the active workers, the bound on tasks and the position
the queues have from earlier phases.

### ClassInit

A thread has a stack of frames of `initialize_impl` and `initialize_super_interfaces`,
because static initialisers and hierarchies make the calls recursive. What happens
under `init_lock` is one step. `LinkClass` links one class after its parents.
`SetStateAndNotify` is `set_initialization_state_and_notify`, which also clears `init_lock`.
A class that is given its last state a second time has no lock any more (`HasInitLock`). A
thread that read the lock before it was cleared goes on; one that did not stops the VM
(`vm`), in `set_init_state` if the transition is illegal, otherwise in `notify_all`, which
uses a null object. A product build, which has no assertions, stops there in both cases.

## 3. Runs

| Run | Question | Answer |
|---|---|---|
| `sweeper` | Can code be reclaimed that a stack, a call site, a VM lock or the sweeper itself still refers to? Is dead code flushed in the end, and compilation restarted after a full cache? | No; yes, if it stays off the stacks and unlocked; yes, if there is such code |
| `installed_code` | Do `address` and the nmethod agree, and does `invalidate` stop all entries, with two threads racing? | Yes |
| `installed_execute` | Is it safe to flush once the link is broken? | **No**: `executeInstalledCode` holds a raw pointer over safepoints |
| `method_code` | Do `set_code`, `clear_code`, unloading and resolution leave Method and bound calls consistent, for all flags? | Yes; the compiled entry only where nothing is unloaded |
| `compile_broker` | Is each task recycled once and each method queued once, whatever times out? Does a queued bit have a task, do waiters return, does the bootstrap end? | Yes; yes without breakpoints, without tiers, and if the queue runs dry |
| `object_monitor` | Does the monitor keep what Java is promised, and does every queued thread get the lock? | Yes |
| `object_monitor_notify` | Has notify precedence over an interrupt? | **No**: `_notified` is stored after `TState` |
| `work_stealing` | Is every task done once, and does the phase end, not before? | Yes |
| `safepoint` | Is nobody running at a safepoint, is it always reached, does every requester return? | Yes |
| `speculation_log` | With two compilations at a time, is the log there to record a failure, and do wrong speculations stop? | Yes, unless one compilation collects a failure while the other is between registration and installation; yes |
| `class_init` | Do initialisers run once and in order, is a class usable when `initialize` returns, and does everybody who waits go on? | Yes; the second and third except for interfaces marked for a failed superinterface; the last unless the VM stops at such a marking |
| `class_init_interface` | Are the state transitions of a class legal? | **No**: an interface between a class and a failing superinterface is marked twice |

`findings` in `PROJECT.json` quotes the line of the repository that each violated
property states.

**Known violations without a run.** These properties are defined in the modules and
do not hold; adding one to the module's cfg reproduces the behaviour.

* `LockedNotZombified` (`NMethodSweeper`): `process_nmethod` tests the lock count, then
  waits for `CompiledIC_lock`; code locked meanwhile becomes a zombie, against
  `nmethod.hpp:226` "is not made into a zombie". It is still not flushed.
* `ValidCodeAlive` (`InstalledCode`): `installCode` publishes `entryPoint` unchecked, so
  `isValid()` can stay true for dead code.
* `EntryNotFlushedEver` (`MethodCode`): `make_unloaded` compares `_code` only, so that the
  compiled entry can survive the unloading of its nmethod (`nmethod.cpp:1487`).
* `SiteNotFlushed` (`MethodCode`): a resolution that finds the callee only at its second
  read of `_code` binds the call to code it has not locked (`sharedRuntime.cpp:1337`).
* `NotSpeculatedAgain` (`SpeculationLog`): a compilation can rely on a reason that
  failed before it began, because `lastFailed` holds one reason
  (`SpeculationLog.java:27` says it should not). `DeoptimizationsEnd` shows that this does
  not go on for ever.
* `NoGuaranteeFailure` (`InstalledCode`): `invalidate_installed_code` reads `address`
  (`nmethod.cpp:3590`) and locks the nmethod later; the sweeper can make it a zombie in
  between, and the guarantee "cannot lock a zombie method" fails (`nmethod.cpp:2860`).
* `ReasonsHeld` (`SpeculationLog`): `collectFailedSpeculations` sets `speculations` to null
  while the code that embeds the reasons is still the current code;
  `HotSpotSpeculationLog.java:41` says "Strong references to all reasons embedded in the
  current nmethod".
* `ClearedLockUnused` (`ClassInit`): a superinterface initialises the interface that extends
  it and then throws; that interface, initialised and without `init_lock`, is marked as
  erroneous (`instanceKlass.cpp:828`), and `notify_all` is called on a null object. The comment
  at `instanceKlass.cpp:523` says of racing threads that find no lock "they all check for
  initialized state after getting the lock and return"; this caller does not check. One
  thread is enough. With two, one that read `init_lock` before it was cleared
  marks the interface and the VM goes on with an initialised interface that has become
  erroneous; this is the exception `MayBeMarked` in `UsableWhenReturned` and
  `SupersFirst`, which do not hold without it.
* `QueuedHasTask` (`CompileBroker`): a task for a method with breakpoints is skipped
  and its queued bit stays set (`compileBroker.cpp:2021`).

**Bounds.** Two slots are enough for a caller and a callee, for a sweep that is
half done, for both orders of visit, for self-calls, for a full cache and for
reuse of a slot while the other is alive; three slots exceed 13 million states
and are covered by the proofs. `NmethodSweepFraction = 2` has a first and a last
invocation. The run `sweeper` has one thread, for liveness; with two threads, which
contend for `CompiledIC_lock`, the safety properties hold in 1,038,948 states. In
`method_code` and `installed_code` two threads give contention for `Compile_lock` and
`Patching_lock`; two wrappers, one default and one not, cover both treatments by the
collector. `seen` and `todo` are bounded by the sweep itself; the only cut-off is
`age <= 2`, which is exact.

`compile_broker`: two methods, one of them in the bootstrap set,
one compiler thread and two tasks, under three command lines: the default, the tiered
policy, and an agent that sets breakpoints. They make queues with a stale and a fresh task,
a waiter that gives up before, during and after its compilation, and OSR requests. One Java
thread runs the bootstrap and then asks twice; the compiler asks too, which gives two
requesters. The safety properties were run separately with two Java threads that
ask once (3,859,088 states) and twice (6,292,432), and with three tasks (812,912).
`object_monitor` has three programs: three threads
that enter once, two that enter twice, and a waiter that is interrupted and suspended
beside a thread that notifies; three threads with a waiter, an interrupt and a
suspension (7.6 million states) and `TwoWaiters`, with a notifier (6.4 million), were
run separately for the safety properties.
`work_stealing`: queues of four slots hold two elements, so four tasks overflow and
wrap around; three workers are needed for two thieves at the last element. `TagRange = 8`
cannot wrap within one stalled CAS of a phase, as the 32 bits of the code do not in practice.
`safepoint`: two threads and two requests, which the queue can drain in one or two safepoints,
without membars, and a cleanup with them; both kinds of membar with requests were run
separately (1,210,000 states). A buffer of two stores holds a state and its
transition. `speculation_log`: two reasons, both wrong, and two compilations
that overlap in every way. There is one thread, since threads that run the code meet only in
`lastFailed`; it loses a failure too, because code may be kept after a trap. `class_init`: a
class, its super class, an interface, its superinterface, and a second class that implements
both; failures in each branch, a class that cannot be verified, and a superinterface whose
initialiser uses the interface that extends it. Two threads, with two calls each, meet at every
class, and interfaces are marked that are untouched, in the hands of the other thread,
or initialised. Three threads with one call each were run separately for the safety properties
(842,074 states).

**Fairness.** *NMethodSweeper.* `WF(ResolvePatch)`: a thread that holds
`CompiledIC_lock` there runs straight to its release. `SF(Sweep)`: compiler
threads call `possibly_sweep` on every turn of their loop, also while compilation
is stopped (they wake up every five seconds), the time heuristic turns
`_should_sweep` on, and the mutex is granted in the end; other threads may hold
the lock again and again, hence strong fairness. `SF(Safepoint)`: the VM thread
looks for a reason for a safepoint periodically and a requested safepoint stops
threads from re-entering the code that makes it wait. That safepoints keep
happening is an assumption on the environment: `VMThread::loop` forces one only
if cleanup is needed. Neither compilation, execution, collections nor returns
from activations are assumed fair.

*CompileBroker.* Requests, waiters (whose waits have a time limit) and the bootstrap
loop are scheduled; a compiler thread gets on with its work although the queue's lock
and the monitors it needs come and go (strong fairness), and a compilation that is not
blocked for ever ends. Nothing is assumed of deoptimization, the code cache or
shutdown. With tiers, `WaitersReturn` is not claimed: the policy may prefer other tasks.
*ObjectMonitor, ClassInit, Safepoint.* A thread inside the code of the VM takes its next
step; for a monitor this includes Java code leaving it, a time limit that runs out and
a suspended thread being resumed. Store buffers drain. No thread has to enter, wait,
request or go to native code. Static initialisers end. Threads that wait for each other's classes in a circle,
which the Java language allows to deadlock, are excepted in `InitializeReturns`
(`CircularWait`).
*WorkStealing.* Active workers are scheduled; strong fairness of `Offer` says that a
worker that finds nothing to steal over and over gives up after a number of attempts.
*SpeculationLog.* A failure that is pending is recorded; `DeoptimizationsEnd` assumes in
its own statement that the method is compiled again and again.

Deadlock is not checked where the system may stop: when the VM went down
(`InstalledCode`, `ClassInit`), when all programs have run (`ObjectMonitor`, `ClassInit`), when compilation is
shut down (`CompileBroker`), or when nothing is left to speculate on.

## 4. Proofs

The runs check small instances; the theorems hold for every value of the
constants that the named assumption of the module admits. Each module of proofs
has an inductive invariant `IInv`, one lemma per action that it is preserved, and a
theorem per property. No property below is inductive by itself, apart from types.

| Module | For every | Theorems |
|---|---|---|
| `NMethodSweeperProofs` | size of the cache, set of threads, sweep fraction | `TypeCorrect`, `ActivationsSafe` (`NoActivationInDeadCode`), `CallSitesSafe` (`NoCallIntoFlushedCode`), `LocksSafe` (`LockedNotFlushed`), `CursorSafe` (`CursorValid`) |
| `MethodCodeProofs` | number of versions, set of threads, set of command lines | `TypeCorrect`, `EntryPointsAgree` (`CodeIsEntered`), `CodeSafe` (`CodeNotFlushed`), `EntrySafe` (`EntryNotFlushed`), `PinnedSiteSafe` (`PinnedSiteNotFlushed`) |
| `InstalledCodeProofs` | size of the cache, sets of wrappers and threads; all code installed for `CompileTask`s | `TypeCorrect`, `LinksSafe` (`LinkedCodeAlive`), `InvalidationSafe` (`InvalidateStopsEntry`, an action property) |
| `InstalledCodeProofs`, about `SpeculationLog` | sets of reasons, threads and compilations | `LogTypeCorrect`, `FailuresRecorded` (`LogAttached`) |
| `CompileBrokerProofs` | sets of methods, Java threads and compiler threads, number of tasks and attempts | `TypeCorrect`, `RecyclingSafe` (`TaskRecycledOnce`), `QueuedOnce` (`OneTaskPerMethod`), `BitsMatchTasks` (`QueuedWillBeCleared`) |
| `SafepointProofs` | finite set of Java threads, length of the store buffers, with and without fences | `TypeCorrect`, `Exclusion` (`SafepointExclusive`), `CallBacksOwed` (`CallBackOwed`) |
| `ObjectMonitorProofs` | set of threads, number of calls of `enter` and `wait` of each, interrupts and suspensions | `TypeCorrect`, `ListsCorrect` (`OnOneList`), `NobodyStranded` (`NotStranded`), `InterruptsWake` (`InterruptWakes`), `JavaMonitorImplemented` (`ImplementsJavaMonitor`, a refinement) |
| `WorkStealingProofs` | finite set of workers, size of the queues, set of phases with tags enough for their tasks | `TypeCorrect` whatever the tags; `TasksOnce` (`EachTaskOnce`), `TerminatesAtEnd` (`TerminatesLast`) |
| `ClassInitProofs` | finite hierarchy, set of threads, pattern of uses and failures | `RunsOnce` (`RunOnce`); without default methods also `ReturnedSafe` (`UsableWhenReturned`), `SuperClassesFirst` (`SupersFirst`), `TransitionsLegal` (`LegalTransitions` and `ClearedLockUnused`) |

**Hypotheses.** The assumptions on constants (`CacheAssumption`, `MethodCodeAssumption`,
...) say that bounds are positive, that the null values are not members of the sets they
are added to, and that sets which are counted are finite; TLC evaluates them in
every run. Three of the modules need more for some theorems, and each hypothesis is where the code needs
it: `CompilerThreads = Threads` in `InstalledCode` (a link to code that no task locks
can dangle, section 2); `HasDefaults = {}` in `ClassInit` (an interface that another thread, or
the same one, has initialised can be put into the error state: `ClearedLockUnused` among the
known violations); and `TagsSuffice` in `WorkStealing`: a phase has at most half as many tasks as the tag has values. Without it
a tag may come round while a thief is between its load of the age and its
compare-and-swap, which then succeeds wrongly; the code relies on the width of the tag. The tag
has 32 bits where an age has 64, so that phases of 2^31 tasks are covered, and 16 where
an age has 32, so that 2^15 are. TLC evaluates the hypothesis on the instance of `work_stealing`.

**NMethodSweeper.**

* `ActivationsFresh` adds that not entrant code on a stack has `age = 0`. A
  zombie needs `age = 2`, not entrant code cannot be entered, so code that is old
  enough cannot be on a stack, and cannot get there while the sweeper waits.
* `ThreadsPinned` says what a resolving thread may rely on: the caller is on its
  stack, the callee is not flushed and not OSR code, and between check and patch
  the callee is in use or freshly not entrant.
* `SweeperDecided` says that the decision of `SweepVisit` is still right when the
  lock is granted; for `release`, that nobody can have locked a zombie.
* `CallSitesPending` is the heart of it. "When we have seen a zombie method twice,
  we know that there are no inline caches that refer to it" becomes: if a live
  caller `c` is bound to code `n` marked for reclamation, then the cursor has not
  passed `c` since `n` was marked (`Pending(c, n)`). When the cursor is back at
  `n`, no such `c` is left.
* `SkippedFresh` covers code compiled between the cursor and the remembered
  `next`: the sweep will skip it, and it may be bound to nothing that is marked.
* `CursorInSweep`, `ReclaimedDead`, `CursorValid` and `TypeOK` complete it. Lemmas on
  `First` and `NextNMethod` rest on well-foundedness of the naturals.

**MethodCode.** The argument is about what a half-done `set_code` or `clear_code`
leaves behind. `EntryFollowsCode`: while `_code` is set and nobody clears it, the
other two words agree with it except for the stores that `set_code` still owes;
`CodeStored`: once `set_code` has stored `_code`, only NULL can replace it.
`InstalledAlive` and `InstalledPrivate` say that until then no other thread can name the new
code, and that the sweeper has not aged it. `LocksExclusive` is what
`Compile_lock` and `Patching_lock` give. `EntryAlive` and `PinnedSiteCleaned` bound how long
an entry point or a pinned call can name a zombie: until the clearing, or the
visit of the caller in the same sweep.

**InstalledCode.** `NewCodeKept`: code between its registration and its publication is
alive, names its wrapper, and the sweeper is not after it. `OldCodeKept`: what an
invalidation has read from `address` can die before it is locked, but is at most a
fresh zombie, which is not flushed before the next safepoint. `AimDecided`: the
sweeper's decision is still right when it gets the lock.

**CompileBroker.** A task is in exactly one place (`PlacesExclusive`: queue,
compiler thread, or a list of stale tasks), and where it is decides whether it is
free or complete (`PlacedInUse`, `OthersDone`). `WaiterKnown` says that a task knows whether
somebody waits for it, which is what its two possible recyclers test; after
`free_all` (shutdown) that is given up. `LockHeld` carries the test of the queued bit over to
the `add`, `PendingQueued` and `SizeCounts` relate tasks to bits and to the counter. The
lemmas about `Without`, which takes tasks out of the queue, show by a least
counterexample that these tasks go, the others stay, and none appears twice.

**Safepoint.** The VM thread sees a thread's state late. `Visible(t, s)` says that `s` is in
memory or in the buffer, and `ViewSound` that, once the view is `Serialized` (fences, or
the buffer was drained after the announcement), a visible `in_native` or `blocked`
belongs to a thread that stays outside the VM, and a visible `in_vm` to one that will call
back. `FencedAtCheck` is what `UseMembar` adds. `TypeSound` carries over to the
`ThreadSafepointState`s what the VM thread has concluded, and `CountInv` says that
`_waiting_to_block` is the number of threads it still waits for, so that the
countdown of `block()` reaches zero exactly when all have stopped.

**ObjectMonitor.** The invariant has four parts.

* `LockInv`: `_owner` is the thread whose place is between taking the lock and freeing it
  (`Owned`), `_recursions` is 0 unless that thread is in Java code (`Unnested`), and
  what a place says of the call the thread is in (`LocalsSound`).
* `ListInv`: a node is on the list that its `TState` names, once (`ListsSound`), except the
  one that `notify` is moving (`MovingSound`), and a thread whose node is queued wants
  the lock or is a waiter that was notified (`NodesSound`). Lemmas on constants say what
  a push, an unlink, a drained cxq and the reversed wait set hold.
* `CareInv` is why nobody is stranded. `LockHandedOn`: if the lock is free and threads are
  queued, then there is a successor, or a thread that will try the lock before it sleeps
  (`Tries`), one that has freed the lock and has still to look (`Checking`), or one that will
  unpark an heir (`Wakes`). Each of these hands the care on: `SuccSound` says that the
  successor is awake, has its event set or will have, and resigns before it sleeps;
  `HeirSound`, that the heir is chosen from EntryList by the owner. The 1-0 exit looks at the
  queues before it frees the lock and not after it, so threads can queue in between:
  `FastSound` says that the first of them is responsible, or is about to elect itself, and
  `ResponsibleSound` that a responsible thread never parks without a time limit.
* `InterruptWakes` is inductive with the types.

The refinement goes action by action: a step of t changes the Java monitor's variables
only through the place, the call and the node of t (`Views`); the `...Unseen` lemmas show
which steps leave them alone, the `...Seen` lemmas which action of `JavaMonitor` the
others are. `notify` and a waiter that gives up are both `Leave`; the lock that is
taken back by an exit is not seen, because nobody is inside and `_recursions` is 0.

**SpeculationLog.** The reasons a compilation has registered are in the log's collection
(`Registering`) unless another one has dropped it, so the code that is installed has the log or
is known to have lost it (`CodeHasLog`), and so is every activation of it (`ActHasLog`), also
after the code is gone. The second test of `speculations` in `speculate`, inside the monitor, is
what keeps two compilations from replacing each other's collection. `LogTypeCorrect` includes that
null is never added to the failed speculations although `lastFailed` is read twice:
the VM only ever stores reasons (`Collecting`).

**WorkStealing.** The property counts places; the invariant names them. `SlotTask`, `StackTask` and
`ClaimTask` give the task in each slot of a queue, on each position of an overflow stack and
in the hands of each worker, and `Unique` says that each task that exists is in exactly one
of them or was finished once. The lemmas `SlotToClaim`, `StackToClaim`, `ClaimToDone`, `NewInSlot` and
`NewOnStack` are about such tables alone and cover every way a task moves.

* Which slots are in use depends on where the owner is. `Gap` is the distance of bottom from top;
  `Count` is one more while the owner has lowered bottom and does not know yet whether it gets
  the element, and a gap of N - 1 is an empty queue. `Known` is what the owner may rely on at each
  step of a pop: the gap can shrink under its hands to 0 and then to N - 1, but while it is
  at its compare-and-swap the age is either the one it has read or the next.
* `Stealing` is what a thief may rely on: what it has read from a queue was right, and is still
  right if the age has not changed. Two facts keep it so. An age that changes is a later one
  (`Before` orders ages by tag and top; each step shows `Kept`), and while it does not change the
  first element stays and is not written over, because the owner pushes at least one slot away
  from it.
* Ages are ordered only while tags do not wrap around. `TagUsed` bounds the tag of a queue by the
  tasks that are not in it (`Out`): a task that leaves takes at most two tags with it, one when top
  wraps around and one when the owner finds the queue empty; `Owed` is the second one between
  the steal and the owner's store. Tasks never come back, so `TagsSuffice` leaves a tag for
  every step (`TagLeft`). Tags are only compared and counted, so a phase that starts with
  another tag than 0 behaves in the same way.
* `Offers` counts the workers that have offered and not withdrawn; if one has left, all active ones
  are idle, their queues and overflow stacks are empty (`Known`), and `Unique` leaves only
  finished tasks. A stale size or a late peek can make a worker withdraw for nothing, never stay
  away from work.

**ClassInit.** For every hierarchy: at most one frame of all stacks is in steps 7 to
11 for a class (`OneInitializes`), such a class has left the states before
initialisation (`Begun`), and its static initialiser has not run before step 8
(`NotRunYet`). Without default methods, `NInv` adds for each stack: frames in steps
7 to 11 and classes that the thread is initialising belong together (`HeldBy`,
`HasFrames`); only steps 7 and 8 call (`CallsIn`); an exception is pending only where it is
tested (`TestedIn`); the super class of a frame beyond step 7 is initialised, or a caller
initialises it (`ReadyIn`); and classes returned to a thread are usable by it (`UsableBy`).
Calls and returns change stacks by their innermost frame only; lemmas on
constants (`Mapped`) state this once for all actions.

**Checked first.** Each inductive invariant was checked with TLC as an invariant before
it was proved: `NMethodSweeper` on the instance of `sweeper`, `MethodCode` on 745,101 states,
`Safepoint` on 321,357, `ObjectMonitor` on 118,820 and on the 10,907,993 of two waiters and a
notifier with an interrupt and a suspension, `InstalledCode` on 1,130,793, `CompileBroker` on the 3,859,088
of two Java threads that ask once, `WorkStealing` on the 68,291 of its run,
`SpeculationLog` on the 3,136,382 states of `speculation_log`, `ClassInit`
on the 340,312 of `class_init`, and `NInv` on 505,897 states of a chain of three
classes that use each other in a circle.

**Only model-checked.** Liveness, in all modules: fairness and `ENABLED` are outside the
prover's reach. These are `DeadCodeReclaimed`, `CompilationResumes`, `WaitersReturn`, `BootstrapEnds`,
`QueuedAcquires`, `PhaseEnds`, `SafepointReached`, `ExecuteReturns`, `DeoptimizationsEnd` and
`InitializeReturns`. `ClassInit`: `UsableWhenReturned` and `SupersFirst` in hierarchies with
default methods, where they have the exception `MayBeMarked`. All other invariants and action properties of the passing runs are proved.

## 5. Plan

Done: all modules above and the safety proofs of all of them. Left: `ClassInit` with default
methods, where the invariant has to say which interfaces can still be marked.

**Not modelled**, with the reasons: code generation in C1, C2 and Shark (translation,
no protocol); the interpreter, class files and the verifier (parsing); the collectors'
heaps (their marking and evacuation depend on object graphs too large for the bounds
at which their races happen); stack locks, inflation and biased locking (they need
the object header's encodings and safepoints together, a project of its own on top of
`ObjectMonitor` and `Safepoint`); the GC locker and the suspendible thread set (two
counters under one lock); serviceability, JVMTI and JFR (debugging interfaces). The
share of the repository that is mapped is small for this reason: most of its lines are
compilers, collectors and platform code.
