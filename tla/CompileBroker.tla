---------------------------- MODULE CompileBroker ----------------------------
(***************************************************************************)
(* The queue of compilation requests to the JVMCI compiler: requests by    *)
(* Java threads, which may wait for the result, and by the compiler, which *)
(* is itself Java code; the compiler threads; the recycling of CompileTask *)
(* objects; and JVMCICompiler::bootstrap, which fills the queue and waits  *)
(* until it is empty.                                                      *)
(*                                                                         *)
(* A compilation is a pair <<m, osr>>, but a Method has one queued bit.    *)
(* The task lock and CompileTaskAlloc_lock protect single steps.  The      *)
(* queue's lock is held from ReadQueued to AddTask.                        *)
(***************************************************************************)
EXTENDS Naturals, Sequences, SequencesExt, FiniteSets

CONSTANTS Methods,       \* methods that are requested
          BootMethods,   \* those that bootstrap requests: they have no loops
          Compilers,     \* JVMCI compiler threads
          Requesters,    \* Java threads
          Main,          \* the Java thread that runs bootstrap
          MaxTasks,      \* bound on the CompileTask objects
          Attempts,      \* JVMCI_COMPILATION_PROGRESS_WAIT_ATTEMPTS
          CommandLines,  \* settings of the flags
          NoTask, NoThread, NoMethod

ASSUME BrokerAssumption ==
    /\ BootMethods \subseteq Methods
    /\ Main \in Requesters
    /\ Requesters \cap Compilers = {}
    /\ MaxTasks \in Nat \ {0}
    /\ Attempts \in Nat \ {0}
    /\ CommandLines \subseteq [tiered : BOOLEAN, flushing : BOOLEAN, agent : BOOLEAN]
    /\ NoTask \notin 1..MaxTasks
    /\ NoThread \notin Requesters \cup Compilers
    /\ NoMethod \notin Methods

Tasks == 1..MaxTasks
Threads == Requesters \cup Compilers

VARIABLES
    task,       \* the CompileTask objects
    queue,      \* CompileQueue: the list from _first
    size,       \* CompileQueue::_size
    queued,     \* methods with the queued_for_compilation bit
    results,    \* compilations with a definitive result: code, or not compilable
    mode,       \* CompileBroker::_should_compile_new_jobs
    flags,      \* TieredCompilation, UseCodeCacheFlushing, a JVMTI agent is loaded
    ct,         \* compiler threads: program counter and locals
    req,        \* per thread: a compile_method call
    boot,       \* bootstrap: program counter, methods to do, the size read
    handled     \* _bootstrap_compilation_request_handled

vars == <<task, queue, size, queued, results, mode, flags, ct, req, boot, handled>>

TaskObjects == [free : BOOLEAN, m : Methods \cup {NoMethod}, osr : BOOLEAN, blocking : BOOLEAN,
                waiter : BOOLEAN, complete : BOOLEAN, by : Compilers \cup {NoThread}]
CompilerLocals == [pc : {"loop", "start", "compile", "clear", "complete", "exited"},
                   task : Tasks \cup {NoTask}, purge : SUBSET Tasks,
                   on : Requesters \cup {NoThread}]
RequestLocals == [pc : {"idle", "lock", "locked", "wait"}, m : Methods \cup {NoMethod},
                  osr : BOOLEAN, task : Tasks \cup {NoTask}, tries : 0..(Attempts - 1),
                  moved : BOOLEAN]

freeTask == [free |-> TRUE, m |-> NoMethod, osr |-> FALSE, blocking |-> FALSE,
             waiter |-> FALSE, complete |-> FALSE, by |-> NoThread]

\* task: the one being compiled; purge: stale tasks to complete; on: the
\* Java thread that owns the monitor this compiler thread is blocked on
looping == [pc |-> "loop", task |-> NoTask, purge |-> {}, on |-> NoThread]

\* tries: progress_wait_attempts; moved: methods_compiled has changed since
noRequest == [pc |-> "idle", m |-> NoMethod, osr |-> FALSE, task |-> NoTask,
              tries |-> 0, moved |-> FALSE]

Init ==
    /\ task = [k \in Tasks |-> freeTask]
    /\ queue = <<>>
    /\ size = 0
    /\ queued = {}
    /\ results = {}
    /\ mode = "run"
    /\ flags \in CommandLines
    /\ ct = [c \in Compilers |-> looping]
    /\ req = [t \in Threads |-> noRequest]
    /\ boot = [pc |-> "enqueue", todo |-> BootMethods, qsize |-> 0]
    /\ handled = FALSE

\* JVMCICompiler::is_bootstrapping()
Bootstrapping == boot.pc # "done"

QueueLocked == \E t \in Threads : req[t].pc = "locked"

\* is_compilation_disabled_forever()
Disabled == mode = "shutdown"

-----------------------------------------------------------------------------
(* CompileBroker::compile_method                                           *)

\* A Java thread, or the Java code of the compiler, requests a compilation;
\* the request survives the unlocked tests
CompileMethod(t, m, osr) ==
    /\ req[t].pc = "idle"
    /\ t \in Compilers => ct[t].pc = "compile" /\ ct[t].on = NoThread
    /\ t = Main => ~Bootstrapping
    /\ osr => m \notin BootMethods
    /\ mode = "run"
    /\ <<m, osr>> \notin results
    /\ m \notin queued
    /\ req' = [req EXCEPT ![t] = [noRequest EXCEPT !.pc = "lock", !.m = m, !.osr = osr]]
    /\ UNCHANGED <<task, queue, size, queued, results, mode, flags, ct, boot, handled>>

\* CompileTask::allocate: a recycled task, or a new one up to MaxTasks
FreeTasks == {k \in Tasks : task[k].free}
Allocate == CHOOSE k \in FreeTasks : \A j \in FreeTasks : k <= j

\* Mutant: only the unlocked test looks at the queued bit
ReadQueuedNot(t) ==
    /\ req[t].pc = "lock"
    /\ ~QueueLocked
    /\ FreeTasks # {}
    /\ req' = [req EXCEPT ![t].pc = "locked"]
    /\ UNCHANGED <<task, queue, size, queued, results, mode, flags, ct, boot, handled>>

\* compile_method_base takes the queue's lock and reads the queued bit
ReadQueued(t) ==
    /\ req[t].pc = "lock"
    /\ ~QueueLocked
    /\ FreeTasks # {}
    /\ req' = [req EXCEPT ![t] = IF req[t].m \in queued THEN noRequest
                                 ELSE [@ EXCEPT !.pc = "locked"]]
    /\ UNCHANGED <<task, queue, size, queued, results, mode, flags, ct, boot, handled>>

\* CompileTask::initialize
NewTask(k, t, blocking) ==
    [task EXCEPT ![k] = [freeTask EXCEPT !.free = FALSE, !.m = req[t].m, !.osr = req[t].osr,
                                         !.blocking = blocking, !.waiter = TRUE]]

\* CompileQueue::add
Add(k) ==
    /\ queue' = Append(queue, k)
    /\ size' = size + 1

\* Then it reads the result, and adds a task.  Requests of the compiler are
\* never blocking, nor those made while loading or initialising a class
AddTask(t, blocking) ==
    LET k == Allocate IN
    /\ req[t].pc = "locked"
    /\ blocking => t \in Requesters
    /\ IF <<req[t].m, req[t].osr>> \in results
       THEN /\ req' = [req EXCEPT ![t] = noRequest]
            /\ UNCHANGED <<task, queue, size, queued>>
       ELSE /\ task' = NewTask(k, t, blocking)
            /\ Add(k)
            /\ queued' = queued \cup {req[t].m}
            /\ req' = [req EXCEPT ![t] = IF blocking THEN [@ EXCEPT !.pc = "wait", !.task = k]
                                         ELSE noRequest]
    /\ UNCHANGED <<results, mode, flags, ct, boot, handled>>

-----------------------------------------------------------------------------
(* wait_for_jvmci_completion                                               *)

\* Mutant: a compiler thread that has the task makes progress even if blocked
ProgressIfStarted(r) ==
    LET k == req[r].task IN
    IF task[k].by # NoThread THEN TRUE ELSE req[r].moved

\* A compiler thread that is not blocked makes progress; while the task is
\* queued, completed compilations are progress
Progress(r) ==
    LET k == req[r].task IN
    IF task[k].by # NoThread THEN ct[task[k].by].on = NoThread ELSE req[r].moved

\* A timeslice has passed without notification: the thread goes on waiting, or
\* gives up and leaves the task to the compiler thread
WaitTimeout(r) ==
    LET k == req[r].task IN
    /\ req[r].pc = "wait"
    /\ ~task[k].complete /\ ~Disabled
    /\ IF Progress(r)
       THEN /\ req' = [req EXCEPT ![r].tries = 0,
                                  ![r].moved = IF task[k].by = NoThread THEN FALSE ELSE @]
            /\ UNCHANGED task
       ELSE IF req[r].tries + 1 < Attempts
       THEN req' = [req EXCEPT ![r].tries = @ + 1] /\ UNCHANGED task
       ELSE /\ req' = [req EXCEPT ![r] = noRequest]
            /\ task' = [task EXCEPT ![k].waiter = FALSE]
    /\ UNCHANGED <<queue, size, queued, results, mode, flags, ct, boot, handled>>

\* The task is complete, and the waiter recycles it, or compilation is disabled
WaitDone(r) ==
    LET k == req[r].task IN
    /\ req[r].pc = "wait"
    /\ task[k].complete \/ Disabled
    /\ req' = [req EXCEPT ![r] = noRequest]
    /\ task' = [task EXCEPT ![k] = IF @.complete THEN freeTask
                                   ELSE [@ EXCEPT !.waiter = FALSE]]
    /\ UNCHANGED <<queue, size, queued, results, mode, flags, ct, boot, handled>>

-----------------------------------------------------------------------------
(* Compiler threads                                                        *)

\* Tasks of the queue that some Java thread waits for
BlockingOf(S) == {k \in S : task[k].blocking}

\* CompilationPolicy::select_task: the first blocking task, or the first.  The
\* tiered policy selects by event rate and drops stale tasks behind the first
Selectable(k, stale) ==
    LET S == ToSet(queue) \ stale
        C == IF BlockingOf(S) = {} THEN S ELSE BlockingOf(S)
    IN  /\ k \in C
        /\ IF flags.tiered THEN Head(queue) \notin stale
           ELSE stale = {} /\ queue[CHOOSE i \in DOMAIN queue :
                                        /\ queue[i] \in C
                                        /\ \A j \in 1..(i - 1) : queue[j] \notin C] = k

\* CompileQueue::remove of the tasks in S, from the list q
Without(q, S) ==
    LET F[i \in 0..Len(q)] == IF i = 0 THEN <<>>
                              ELSE IF q[i] \in S THEN F[i - 1] ELSE Append(F[i - 1], q[i])
    IN  F[Len(q)]

\* CompileQueue::get
Get(c, k, stale) ==
    /\ ct[c].pc = "loop"
    /\ ~Disabled
    /\ ~QueueLocked
    /\ queue # <<>>
    /\ stale \subseteq ToSet(queue)
    /\ Selectable(k, stale)
    /\ queue' = Without(queue, stale \cup {k})
    /\ size' = size - 1 - Cardinality(stale)
    /\ queued' = queued \ {task[j].m : j \in stale}
    /\ ct' = [ct EXCEPT ![c] = [@ EXCEPT !.pc = "start", !.task = k, !.purge = stale]]
    /\ UNCHANGED <<task, results, mode, flags, req, boot, handled>>

\* Mutant: the compiler thread recycles every task
CompletedAlwaysFreed(k) == freeTask

\* ~CompileTaskWrapper: task k is complete.  The waiter recycles it if there
\* still is one
Completed(k) ==
    IF task[k].blocking /\ task[k].waiter
    THEN [task[k] EXCEPT !.complete = TRUE, !.by = NoThread]
    ELSE freeTask

\* purge_stale_tasks completes the tasks that select_task has dropped
PurgeStale(c, k) ==
    /\ ct[c].pc = "start"
    /\ k \in ct[c].purge
    /\ task' = [task EXCEPT ![k] = Completed(k)]
    /\ ct' = [ct EXCEPT ![c].purge = @ \ {k}]
    /\ UNCHANGED <<queue, size, queued, results, mode, flags, req, boot, handled>>

\* CompileTaskWrapper, and the tests of compiler_thread_loop
StartTask(c) ==
    LET k == ct[c].task IN
    /\ ct[c].pc = "start"
    /\ ct[c].purge = {}
    /\ task' = IF task[k].blocking THEN [task EXCEPT ![k].by = c] ELSE task
    /\ \/ /\ mode = "run"
          /\ ct' = [ct EXCEPT ![c].pc = "compile"]
          /\ UNCHANGED queued
       \/ /\ mode # "run"
          /\ ct' = [ct EXCEPT ![c].pc = "complete"]
          /\ queued' = queued \ {task[k].m}
    /\ UNCHANGED <<queue, size, results, mode, flags, req, boot, handled>>

\* The method has a breakpoint: it is not compiled
SkipBreakpoint(c) ==
    LET k == ct[c].task IN
    /\ flags.agent
    /\ ct[c].pc = "start"
    /\ ct[c].purge = {}
    /\ task' = IF task[k].blocking THEN [task EXCEPT ![k].by = c] ELSE task
    /\ ct' = [ct EXCEPT ![c].pc = "complete"]
    /\ UNCHANGED <<queue, size, queued, results, mode, flags, req, boot, handled>>

\* The compiler needs a monitor that a waiting Java thread owns, until that
\* thread goes on
Block(c, r) ==
    /\ ct[c].pc = "compile"
    /\ ct[c].on = NoThread
    /\ req[c].pc = "idle"
    /\ req[r].pc = "wait"
    /\ ct' = [ct EXCEPT ![c].on = r]
    /\ UNCHANGED <<task, queue, size, queued, results, mode, flags, req, boot, handled>>

Unblock(c) ==
    /\ ct[c].on # NoThread
    /\ req[ct[c].on].pc = "idle"
    /\ ct' = [ct EXCEPT ![c].on = NoThread]
    /\ UNCHANGED <<task, queue, size, queued, results, mode, flags, req, boot, handled>>

\* Mutant: only successful compilations count as handled
CompileReportsSuccess(c, outcome) ==
    LET k == ct[c].task IN
    /\ ct[c].pc = "compile"
    /\ ct[c].on = NoThread
    /\ req[c].pc = "idle"
    /\ ct' = [ct EXCEPT ![c].pc = "clear"]
    /\ IF Bootstrapping /\ task[k].osr
       THEN outcome = "retry" /\ UNCHANGED <<results, req, handled>>
       ELSE /\ results' = IF outcome = "retry" THEN results
                          ELSE results \cup {<<task[k].m, task[k].osr>>}
            /\ req' = IF outcome # "code" THEN req
                      ELSE [t \in Threads |-> IF req[t].pc = "wait"
                                              THEN [req[t] EXCEPT !.moved = TRUE] ELSE req[t]]
            /\ handled' = (handled \/ (Bootstrapping /\ outcome = "code"))
    /\ UNCHANGED <<task, queue, size, queued, mode, flags, boot>>

\* JVMCICompiler::compile_method: code is installed, or the method fails for
\* good, or for now; OSR requests are ignored during bootstrap
Compile(c, outcome) ==
    LET k == ct[c].task IN
    /\ ct[c].pc = "compile"
    /\ ct[c].on = NoThread
    /\ req[c].pc = "idle"
    /\ ct' = [ct EXCEPT ![c].pc = "clear"]
    /\ IF Bootstrapping /\ task[k].osr
       THEN outcome = "retry" /\ UNCHANGED <<results, req, handled>>
       ELSE /\ results' = IF outcome = "retry" THEN results
                          ELSE results \cup {<<task[k].m, task[k].osr>>}
            /\ req' = IF outcome # "code" THEN req
                      ELSE [t \in Threads |-> IF req[t].pc = "wait"
                                              THEN [req[t] EXCEPT !.moved = TRUE] ELSE req[t]]
            /\ handled' = (handled \/ Bootstrapping)
    /\ UNCHANGED <<task, queue, size, queued, mode, flags, boot>>

\* Mutant: the bit is left to whoever installs the code
ClearQueuedNot(c) ==
    /\ ct[c].pc = "clear"
    /\ ct' = [ct EXCEPT ![c].pc = "complete"]
    /\ UNCHANGED <<task, queue, size, queued, results, mode, flags, req, boot, handled>>

\* The end of invoke_compiler_on_method clears the bit, without a lock
ClearQueued(c) ==
    /\ ct[c].pc = "clear"
    /\ queued' = queued \ {task[ct[c].task].m}
    /\ ct' = [ct EXCEPT ![c].pc = "complete"]
    /\ UNCHANGED <<task, queue, size, results, mode, flags, req, boot, handled>>

CompleteTask(c) ==
    LET k == ct[c].task IN
    /\ ct[c].pc = "complete"
    /\ task' = [task EXCEPT ![k] = Completed(k)]
    /\ ct' = [ct EXCEPT ![c] = looping]
    /\ UNCHANGED <<queue, size, queued, results, mode, flags, req, boot, handled>>

-----------------------------------------------------------------------------
(* The state of the code cache                                             *)

\* handle_full_code_cache, by a compiler thread between two tasks or when it
\* cannot install its code
FullCodeCache(c) ==
    /\ ct[c].pc \in {"loop", "compile"}
    /\ ct[c].on = NoThread
    /\ mode = "run"
    /\ mode' = IF flags.flushing THEN "stop" ELSE "shutdown"
    /\ UNCHANGED <<task, queue, size, queued, results, flags, ct, req, boot, handled>>

\* The sweeper has freed memory
Resume ==
    /\ mode = "stop"
    /\ mode' = "run"
    /\ UNCHANGED <<task, queue, size, queued, results, flags, ct, req, boot, handled>>

\* Code is made not entrant: the method may be compiled again
Deoptimize(r) ==
    /\ r \in results
    /\ results' = results \ {r}
    /\ UNCHANGED <<task, queue, size, queued, mode, flags, ct, req, boot, handled>>

\* A result that is not the outcome of the compilation's own task, which may be
\* queued: code is installed outside a task, or the method is made not
\* compilable by the compiler's Java code or because it trapped too often
PublishResult(r) ==
    /\ r \notin results
    /\ results' = results \cup {r}
    /\ UNCHANGED <<task, queue, size, queued, mode, flags, ct, req, boot, handled>>

\* shutdown_compiler_runtime: the last compiler thread to leave recycles the
\* queued tasks (free_all), whose waiters it notifies
ShutDown(c) ==
    /\ Disabled
    /\ ct[c].pc = "loop"
    /\ ct' = [ct EXCEPT ![c].pc = "exited"]
    /\ IF \A d \in Compilers \ {c} : ct[d].pc = "exited"
       THEN /\ ~QueueLocked
            /\ task' = [k \in Tasks |-> IF k \in ToSet(queue) THEN freeTask ELSE task[k]]
            /\ queue' = <<>>
       ELSE UNCHANGED <<task, queue>>
    /\ UNCHANGED <<size, queued, results, mode, flags, req, boot, handled>>

-----------------------------------------------------------------------------
(* JVMCICompiler::bootstrap                                                *)

\* compile_method for the next method of java.lang.Object
BootRequest(m) ==
    /\ boot.pc = "enqueue"
    /\ req[Main].pc = "idle"
    /\ m \in boot.todo
    /\ boot' = [boot EXCEPT !.todo = @ \ {m}]
    /\ req' = IF mode = "run" /\ <<m, FALSE>> \notin results /\ m \notin queued
              THEN [req EXCEPT ![Main] = [noRequest EXCEPT !.pc = "lock", !.m = m]] ELSE req
    /\ UNCHANGED <<task, queue, size, queued, results, mode, flags, ct, handled>>

\* The thread has slept and reads the size of the queue
BootPoll ==
    /\ boot.pc = "sleep" \/ (boot.pc = "enqueue" /\ boot.todo = {})
    /\ req[Main].pc = "idle"
    /\ boot' = [boot EXCEPT !.pc = "check", !.qsize = size]
    /\ UNCHANGED <<task, queue, size, queued, results, mode, flags, ct, req, handled>>

\* The conditions of both loops
BootCheck ==
    /\ boot.pc = "check"
    /\ boot' = [boot EXCEPT !.pc = IF handled /\ boot.qsize = 0 THEN "done" ELSE "sleep",
                            !.qsize = 0]
    /\ UNCHANGED <<task, queue, size, queued, results, mode, flags, ct, req, handled>>

-----------------------------------------------------------------------------
Outcomes == {"code", "never", "retry"}

Request(t) ==
    \/ \E m \in Methods, osr \in BOOLEAN : CompileMethod(t, m, osr)
    \/ ReadQueued(t)
    \/ \E b \in BOOLEAN : AddTask(t, b)

Wait(r) == WaitTimeout(r) \/ WaitDone(r)

Work(c) ==
    \/ \E k \in Tasks, stale \in SUBSET Tasks : Get(c, k, stale)
    \/ \E k \in Tasks : PurgeStale(c, k)
    \/ StartTask(c) \/ SkipBreakpoint(c) \/ Unblock(c)
    \/ ClearQueued(c) \/ CompleteTask(c) \/ ShutDown(c)

Bootstrap == (\E m \in BootMethods : BootRequest(m)) \/ BootPoll \/ BootCheck

Next ==
    \/ \E t \in Threads : Request(t)
    \/ \E r \in Requesters : Wait(r)
    \/ \E c \in Compilers :
          \/ Work(c) \/ FullCodeCache(c)
          \/ \E r \in Requesters : Block(c, r)
          \/ \E o \in Outcomes : Compile(c, o)
    \/ Resume
    \/ \E r \in Methods \X BOOLEAN : Deoptimize(r) \/ PublishResult(r)
    \/ Bootstrap

Spec == Init /\ [][Next]_vars

\* Timers run out, threads are scheduled, and a compilation that is not blocked
\* for ever ends.  Nothing is assumed of deoptimization or of the code cache
Fairness ==
    /\ \A t \in Threads : WF_vars(ReadQueued(t) \/ \E b \in BOOLEAN : AddTask(t, b))
    /\ \A r \in Requesters : WF_vars(Wait(r))
    /\ \A c \in Compilers : SF_vars(Work(c)) /\ SF_vars(\E o \in Outcomes : Compile(c, o))
    /\ WF_vars(Bootstrap)

FairSpec == Spec /\ Fairness

-----------------------------------------------------------------------------
(* Properties                                                              *)

\* Every variable has its type
TypeOK ==
    /\ task \in [Tasks -> TaskObjects]
    /\ queue \in Seq(Tasks)
    /\ size \in Nat
    /\ queued \subseteq Methods
    /\ results \subseteq Methods \X BOOLEAN
    /\ mode \in {"run", "stop", "shutdown"}
    /\ flags \in CommandLines
    /\ ct \in [Compilers -> CompilerLocals]
    /\ req \in [Threads -> RequestLocals]
    /\ boot \in [pc : {"enqueue", "sleep", "check", "done"}, todo : SUBSET BootMethods,
                 qsize : Nat]
    /\ handled \in BOOLEAN

\* Who will still look at task k: the queue, a compiler thread, a waiter
InQueue(k) == k \in ToSet(queue)
AtCompiler(k) == \E c \in Compilers : ct[c].task = k \/ k \in ct[c].purge
Awaited(k) == \E r \in Requesters : req[r].task = k

\* A CompileTask is recycled exactly when the last of them is done with it,
\* whichever of the waiter's time-out and the completion comes first: no thread
\* uses a recycled task, and none is leaked (wait_for_completion: "we know that
\* no one else will be using this CompileTask; we can free it").  Once
\* compilation is disabled, free_all recycles tasks that waiters still hold
TaskRecycledOnce ==
    \A k \in Tasks : IF Disabled THEN task[k].free => ~(InQueue(k) \/ AtCompiler(k))
                     ELSE task[k].free <=> ~(InQueue(k) \/ AtCompiler(k) \/ Awaited(k))

\* The tasks whose method still counts as queued
Pending == {k \in Tasks : \/ InQueue(k)
                          \/ \E c \in Compilers : ct[c].task = k
                                                  /\ ct[c].pc \in {"start", "compile", "clear"}}

\* "a method cannot be queued for compilation more than once" (14012000): no
\* two tasks for one method are queued or being compiled
OneTaskPerMethod == \A j, k \in Pending : task[j].m = task[k].m => j = k

\* "<0, 1> : in compile queue, but not yet compiled": a method whose bit is set
\* has a task (after free_all there are no tasks, and no more requests)
QueuedHasTask == ~Disabled => queued = {task[k].m : k \in Pending}

\* The same if no breakpoints are set: the method will not be refused for ever
QueuedWillBeCleared == ~flags.agent => QueuedHasTask

\* A Java thread that waits for a compilation goes on, even if the compiler is
\* blocked on a monitor that this thread, or another waiting one, owns (the
\* tiered policy may prefer other tasks for ever)
WaitersReturn ==
    \A r \in Requesters : ~flags.tiered /\ req[r].pc = "wait" ~> req[r].pc # "wait"

\* Bootstrap ends if compilation is not stopped, no breakpoint keeps a method
\* from being compiled, the queue runs dry, and no method of java.lang.Object
\* gets a result in another way before the first request is handled: if all of
\* them had one, there would be no request and the inner loop would not end
BootstrapEnds ==
    /\ [](mode = "run") /\ ~flags.agent /\ <>[](size = 0)
    /\ [](~handled => \A m \in BootMethods : <<m, FALSE>> \notin results)
    => <>(boot.pc = "done")
=============================================================================
