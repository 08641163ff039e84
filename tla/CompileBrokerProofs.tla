------------------------ MODULE CompileBrokerProofs ------------------------
(***************************************************************************)
(* For every number of Java threads, compiler threads, methods and tasks:  *)
(* a CompileTask is recycled exactly when nobody will use it any more, a   *)
(* method is queued once, no task is queued for a compilation that has a   *)
(* result, and the queued bit is set for queued methods only.              *)
(***************************************************************************)
EXTENDS CompileBroker, WellFoundedInduction, FiniteSetTheorems, TLAPS

-----------------------------------------------------------------------------
(* The inductive invariant                                                 *)

\* One thread at most holds the queue's lock; what it read is still so
LockHeld ==
    /\ \A t, u \in Threads : req[t].pc = "locked" /\ req[u].pc = "locked" => t = u
    /\ \A t \in Threads : req[t].pc = "locked" => req[t].m \notin queued /\ FreeTasks # {}

\* A thread has a task while it waits, and a request while it does anything
RequestSound(t) ==
    /\ req[t].pc = "wait" => req[t].task \in Tasks
    /\ req[t].pc # "wait" => req[t].task = NoTask
    /\ req[t].pc \in {"lock", "locked"} => req[t].m \in Methods

\* A compiler thread has a task, and stale ones to complete before it
CompilerSound(c) ==
    /\ ct[c].pc \notin {"loop", "exited"} => ct[c].task \in Tasks
    /\ ct[c].pc \in {"loop", "exited"} => ct[c].task = NoTask
    /\ ct[c].pc # "start" => ct[c].purge = {}

Holds(c, k) == ct[c].task = k \/ k \in ct[c].purge

\* A task is in one place of the queue, or at one compiler thread
PlacesExclusive ==
    /\ \A i, j \in 1..Len(queue) : queue[i] = queue[j] => i = j
    /\ \A c \in Compilers : ct[c].task \notin ct[c].purge
    /\ \A k \in Tasks : \A c \in Compilers : Holds(c, k) => ~InQueue(k)
    /\ \A k \in Tasks : \A c, d \in Compilers : Holds(c, k) /\ Holds(d, k) => c = d

\* A task in one of these places is neither free nor complete, and has a method
PlacedInUse ==
    \A k \in Tasks : InQueue(k) \/ AtCompiler(k) =>
        ~task[k].free /\ ~task[k].complete /\ task[k].m \in Methods

\* Until free_all, a task in no such place is complete or free
OthersDone ==
    ~Disabled => \A k \in Tasks : ~task[k].free /\ ~InQueue(k) /\ ~AtCompiler(k) =>
                                     task[k].complete /\ task[k].blocking /\ task[k].waiter

\* Until free_all, the task knows whether a thread waits for it
WaiterKnown ==
    ~Disabled =>
        /\ \A k \in Tasks : Awaited(k) <=> ~task[k].free /\ task[k].blocking /\ task[k].waiter
        /\ \A r, s \in Requesters : req[r].task # NoTask /\ req[r].task = req[s].task => r = s

\* The method of a pending task has its bit set
PendingQueued == \A k \in Pending : task[k].m \in queued

\* CompileQueue::_size counts the tasks of the queue, until free_all
SizeCounts == ~Disabled => size = Len(queue)

RequestsSound == \A t \in Threads : RequestSound(t)
CompilersSound == \A c \in Compilers : CompilerSound(c) /\ req[c].pc # "wait"

IInv ==
    /\ TypeOK
    /\ LockHeld
    /\ RequestsSound
    /\ CompilersSound
    /\ PlacesExclusive
    /\ PlacedInUse
    /\ OthersDone
    /\ WaiterKnown
    /\ PendingQueued
    /\ SizeCounts
    /\ OneTaskPerMethod
    /\ QueuedWillBeCleared

-----------------------------------------------------------------------------
(* Facts about the operators of the model                                  *)

\* The less-than relation on Nat, as a set of pairs
LessThan == {ss \in Nat \X Nat : ss[1] < ss[2]}

\* The order of CompileTask objects, and of places in the queue, is well founded
LEMMA LessThanWellFounded == IsWellFoundedOn(LessThan, Nat)
  BY NatLessThanWellFounded, Zenon DEF OpToRel, LessThan

\* A nonempty set of them has a least element: allocate finds a free task
LEMMA LeastExists ==
  ASSUME NEW S, S \subseteq Nat, S # {}
  PROVE  \E n \in S : \A m \in S : n <= m
<1>1. PICK x \in S : \A y \in S : ~ (<<y, x>> \in LessThan)
  BY LessThanWellFounded, WFMin
<1>2. ASSUME NEW y \in S PROVE x <= y
  <2>1. x \in Nat /\ y \in Nat
    BY <1>2
  <2>2. <<y, x>> \in Nat \X Nat /\ <<y, x>>[1] = y /\ <<y, x>>[2] = x
    BY <2>1
  <2>3. ~(<<y, x>> \in LessThan)
    BY <1>1, <1>2
  <2> QED
    BY <2>1, <2>2, <2>3 DEF LessThan
<1> QED
  BY <1>2

\* CompileTask::allocate returns a free task
LEMMA AllocateFree ==
  ASSUME FreeTasks # {}
  PROVE  Allocate \in FreeTasks
<1>1. FreeTasks \subseteq Nat
  BY BrokerAssumption DEF FreeTasks, Tasks
<1>2. \E k \in FreeTasks : \A j \in FreeTasks : k <= j
  BY <1>1, LeastExists
<1> QED
  BY <1>2 DEF Allocate

\* What CompileQueue::add makes of the list q
LEMMA AppendTask ==
  ASSUME NEW q \in Seq(Tasks), NEW k \in Tasks
  PROVE  /\ Append(q, k) \in Seq(Tasks)
         /\ Len(q) \in Nat /\ Len(Append(q, k)) = Len(q) + 1
         /\ \A i \in 1..Len(q) : Append(q, k)[i] = q[i]
         /\ Append(q, k)[Len(q) + 1] = k
         /\ ToSet(Append(q, k)) = ToSet(q) \cup {k}
<1> DEFINE p == Append(q, k)
<1>1. /\ p \in Seq(Tasks)
      /\ Len(q) \in Nat /\ Len(p) = Len(q) + 1
      /\ \A i \in 1..Len(q) : p[i] = q[i]
      /\ p[Len(q) + 1] = k
      /\ DOMAIN p = 1..Len(p) /\ DOMAIN q = 1..Len(q)
  OBVIOUS
<1> HIDE DEF p
<1>2. \A i \in 1..Len(p) : i \in 1..Len(q) \/ i = Len(q) + 1
  BY <1>1
<1>3. \A x \in ToSet(p) : x \in ToSet(q) \cup {k}
  BY <1>1, <1>2 DEF ToSet
<1>4. \A i \in 1..Len(q) : i \in 1..Len(p)
  BY <1>1
<1>5. \A x \in ToSet(q) : x \in ToSet(p)
  BY <1>1, <1>4 DEF ToSet
<1>6. Len(q) + 1 \in 1..Len(p)
  BY <1>1
<1>7. k \in ToSet(p)
  BY <1>1, <1>6 DEF ToSet
<1>8. ToSet(p) = ToSet(q) \cup {k}
  BY <1>3, <1>5, <1>7
<1> QED
  BY <1>1, <1>8 DEF p

\* What removal has made of the first i tasks of the queue
KeptUpTo(q, S, f) ==
    [i \in 0..Len(q) |-> IF i = 0 THEN <<>>
                         ELSE IF q[i] \in S THEN f[i - 1] ELSE Append(f[i - 1], q[i])]

\* The recursive function in Without exists
LEMMA KeptExists ==
  ASSUME NEW q \in Seq(Tasks), NEW S
  PROVE  \E f : f = KeptUpTo(q, S, f)
<1> DEFINE Step(f, i) == IF i = 0 THEN <<>>
                         ELSE IF q[i] \in S THEN f[i - 1] ELSE Append(f[i - 1], q[i])
           Upto(n) == \E f : f = [i \in 0..n |-> Step(f, i)]
           Bad == {n \in Nat : ~Upto(n)}
<1>1. Upto(0)
  <2> DEFINE z == [i \in 0..0 |-> <<>>]
  <2>1. z = [i \in 0..0 |-> Step(z, i)]
    OBVIOUS
  <2> QED
    BY <2>1
<1>2. ASSUME NEW n \in Nat, Upto(n) PROVE Upto(n + 1)
  <2>1. PICK f : f = [i \in 0..n |-> Step(f, i)]
    BY <1>2
  <2> DEFINE g == [i \in 0..(n + 1) |-> IF i <= n THEN f[i] ELSE Step(f, i)]
  <2> HIDE DEF Step
  <2>2. \A i \in 0..n : f[i] = Step(f, i) /\ g[i] = f[i]
    <3>1. \A i \in 0..n : f[i] = Step(f, i)
      BY <2>1
    <3>2. \A i \in 0..n : i \in 0..(n + 1) /\ i <= n
      OBVIOUS
    <3> QED
      BY <3>1, <3>2
  <2>3. ASSUME NEW i \in 0..(n + 1) PROVE g[i] = Step(f, i)
    <3>1. i \in 0..n \/ ~(i <= n)
      OBVIOUS
    <3> QED
      BY <2>2, <3>1
  <2>a. g = [i \in 0..(n + 1) |-> g[i]]
    OBVIOUS
  <2> HIDE DEF g
  <2>4. ASSUME NEW i \in 0..(n + 1) PROVE Step(f, i) = Step(g, i)
    <3>1. i = 0 \/ i - 1 \in 0..n
      BY <2>4
    <3>2. i = 0 \/ g[i - 1] = f[i - 1]
      BY <2>2, <3>1
    <3> QED
      BY <3>2 DEF Step
  <2>5. \A i \in 0..(n + 1) : g[i] = Step(g, i)
    BY <2>3, <2>4
  <2>6. g = [i \in 0..(n + 1) |-> Step(g, i)]
    BY <2>a, <2>5
  <2> QED
    BY <2>6
<1> HIDE DEF Upto
<1>3. Bad = {}
  <2> SUFFICES ASSUME Bad # {} PROVE FALSE
    OBVIOUS
  <2>1. PICK n \in Bad : \A m \in Bad : n <= m
    BY LeastExists
  <2>2. n # 0
    BY <1>1
  <2>3. n - 1 \in Nat /\ n - 1 \notin Bad
    BY <2>1, <2>2
  <2>4. Upto(n - 1)
    BY <2>3
  <2>5. Upto((n - 1) + 1)
    BY <2>3, <2>4, <1>2
  <2>6. (n - 1) + 1 = n
    OBVIOUS
  <2> QED
    BY <2>5, <2>6
<1>4. Upto(Len(q))
  BY <1>3
<1> QED
  BY <1>4, Zenon DEF Upto, KeptUpTo

\* Removal from the queue keeps the other tasks, each once, and the queue shrinks
\* by the number of tasks removed
LEMMA WithoutTasks ==
  ASSUME NEW q \in Seq(Tasks), NEW S, S \subseteq ToSet(q),
         \A i, j \in 1..Len(q) : q[i] = q[j] => i = j
  PROVE  /\ Without(q, S) \in Seq(Tasks)
         /\ ToSet(Without(q, S)) = ToSet(q) \ S
         /\ \A i, j \in 1..Len(Without(q, S)) : Without(q, S)[i] = Without(q, S)[j] => i = j
         /\ IsFiniteSet(S)
         /\ Len(Without(q, S)) = Len(q) - Cardinality(S)
<1> DEFINE F == CHOOSE f : f = KeptUpTo(q, S, f)
<1>1. F = KeptUpTo(q, S, F)
  BY KeptExists, Zenon
<1>2. Without(q, S) = F[Len(q)]
  BY DEF Without, KeptUpTo
<1> HIDE DEF F
<1> DEFINE FirstTasks(n) == {q[i] : i \in 1..n}
           Good(n) == /\ F[n] \in Seq(Tasks)
                      /\ ToSet(F[n]) = FirstTasks(n) \ S
                      /\ \A i, j \in 1..Len(F[n]) : F[n][i] = F[n][j] => i = j
                      /\ IsFiniteSet(S \cap FirstTasks(n))
                      /\ Len(F[n]) = n - Cardinality(S \cap FirstTasks(n))
           Bad == {n \in 0..Len(q) : ~Good(n)}
<1>3. Len(q) \in Nat /\ \A i \in 1..Len(q) : q[i] \in Tasks
  OBVIOUS
<1>4. Good(0)
  <2>1. F[0] = <<>>
    BY <1>1, <1>3 DEF KeptUpTo
  <2>2. FirstTasks(0) = {} /\ S \cap FirstTasks(0) = {}
    OBVIOUS
  <2>3. IsFiniteSet({}) /\ Cardinality({}) = 0
    BY FS_EmptySet
  <2>4. ToSet(F[0]) = {}
    BY <2>1 DEF ToSet
  <2>5. F[0] \in Seq(Tasks) /\ Len(F[0]) = 0
    BY <2>1
  <2>6. \A i, j \in 1..Len(F[0]) : F[0][i] = F[0][j] => i = j
    BY <2>5
  <2>7. ToSet(F[0]) = FirstTasks(0) \ S
    BY <2>2, <2>4
  <2> HIDE DEF FirstTasks
  <2>8. IsFiniteSet(S \cap FirstTasks(0)) /\ Len(F[0]) = 0 - Cardinality(S \cap FirstTasks(0))
    <3>1. IsFiniteSet(S \cap FirstTasks(0)) /\ Cardinality(S \cap FirstTasks(0)) = 0
      BY <2>2, <2>3, Zenon
    <3> QED
      BY <3>1, <2>5
  <2> QED
    BY <2>5, <2>6, <2>7, <2>8, Zenon
<1>5. ASSUME NEW n \in 0..Len(q), n # 0, Good(n - 1) PROVE Good(n)
  <2>1. n \in 1..Len(q) /\ n - 1 \in Nat /\ q[n] \in Tasks
    BY <1>3, <1>5
  <2>2. F[n] = IF q[n] \in S THEN F[n - 1] ELSE Append(F[n - 1], q[n])
    BY <1>1, <1>5 DEF KeptUpTo
  <2>3. FirstTasks(n) = FirstTasks(n - 1) \cup {q[n]} /\ q[n] \notin FirstTasks(n - 1)
    <3>1. \A i \in 1..n : i \in 1..(n - 1) \/ i = n
      BY <2>1
    <3>2. \A i \in 1..(n - 1) : i \in 1..n /\ i # n /\ i \in 1..Len(q)
      BY <2>1
    <3>3. q[n] \notin FirstTasks(n - 1)
      BY <3>2, <2>1
    <3> QED
      BY <3>1, <3>2, <3>3, <2>1
  <2> HIDE DEF FirstTasks
  <2>4. CASE q[n] \in S
    <3>1. S \cap FirstTasks(n) = (S \cap FirstTasks(n - 1)) \cup {q[n]} /\ q[n] \notin S \cap FirstTasks(n - 1)
      BY <2>3, <2>4
    <3>2. /\ IsFiniteSet(S \cap FirstTasks(n))
          /\ Cardinality(S \cap FirstTasks(n)) = Cardinality(S \cap FirstTasks(n - 1)) + 1
      <4>1. IsFiniteSet(S \cap FirstTasks(n - 1))
        BY <1>5
      <4> HIDE DEF Good
      <4>2. /\ IsFiniteSet((S \cap FirstTasks(n - 1)) \cup {q[n]})
            /\ Cardinality((S \cap FirstTasks(n - 1)) \cup {q[n]})
                 = IF q[n] \in S \cap FirstTasks(n - 1) THEN Cardinality(S \cap FirstTasks(n - 1))
                   ELSE Cardinality(S \cap FirstTasks(n - 1)) + 1
        BY <4>1, FS_AddElement, Zenon
      <4> QED
        BY <3>1, <4>2
    <3>3. Cardinality(S \cap FirstTasks(n - 1)) \in Nat
      BY <1>5, FS_CardinalityType
    <3>4. F[n] = F[n - 1]
      BY <2>2, <2>4
    <3>5. FirstTasks(n) \ S = FirstTasks(n - 1) \ S
      BY <2>3, <2>4
    <3>6. Len(F[n]) = n - Cardinality(S \cap FirstTasks(n))
      BY <3>2, <3>3, <3>4, <2>1, <1>5
    <3> QED
      BY <3>2, <3>4, <3>5, <3>6, <1>5
  <2>5. CASE q[n] \notin S
    <3>1. S \cap FirstTasks(n) = S \cap FirstTasks(n - 1)
      BY <2>3, <2>5
    <3>2. Cardinality(S \cap FirstTasks(n - 1)) \in Nat
      BY <1>5, FS_CardinalityType
    <3>3. F[n] = Append(F[n - 1], q[n])
      BY <2>2, <2>5
    <3>4. /\ F[n] \in Seq(Tasks) /\ Len(F[n]) = Len(F[n - 1]) + 1
          /\ \A i \in 1..Len(F[n - 1]) : F[n][i] = F[n - 1][i]
          /\ F[n][Len(F[n - 1]) + 1] = q[n]
          /\ Len(F[n - 1]) \in Nat
          /\ ToSet(F[n]) = ToSet(F[n - 1]) \cup {q[n]}
      <4>1. F[n - 1] \in Seq(Tasks)
        BY <1>5
      <4> HIDE DEF Good
      <4> QED
        BY <3>3, <2>1, <4>1, AppendTask
    <3>5. \A i \in 1..Len(F[n]) : i \in 1..Len(F[n - 1]) \/ i = Len(F[n - 1]) + 1
      BY <3>4
    <3>6. \A i \in 1..Len(F[n - 1]) : F[n - 1][i] \in ToSet(F[n - 1])
      BY <1>5 DEF ToSet
    <3>8. ToSet(F[n]) = FirstTasks(n) \ S
      BY <3>4, <2>3, <2>5, <1>5
    <3>9. \A i \in 1..Len(F[n - 1]) : F[n][i] # q[n]
      BY <3>4, <3>6, <1>5, <2>3
    <3>10. \A i, j \in 1..Len(F[n]) : F[n][i] = F[n][j] => i = j
      BY <3>4, <3>5, <3>9, <1>5
    <3>11. Len(F[n]) = n - Cardinality(S \cap FirstTasks(n))
      <4>1. Len(F[n - 1]) = (n - 1) - Cardinality(S \cap FirstTasks(n - 1))
        BY <1>5
      <4> HIDE DEF Good
      <4>2. Cardinality(S \cap FirstTasks(n)) = Cardinality(S \cap FirstTasks(n - 1))
        BY <3>1
      <4> QED
        BY <4>2, <3>2, <3>4, <4>1, <2>1
    <3> QED
      BY <3>1, <3>4, <3>8, <3>10, <3>11, <1>5
  <2> QED
    BY <2>4, <2>5
<1> HIDE DEF Good
<1>6. Bad = {}
  <2> SUFFICES ASSUME Bad # {} PROVE FALSE
    OBVIOUS
  <2>1. Bad \subseteq Nat
    BY <1>3
  <2>2. PICK n \in Bad : \A m \in Bad : n <= m
    BY <2>1, LeastExists
  <2>3. n # 0 /\ n \in 0..Len(q)
    BY <1>4
  <2>4. n - 1 \in 0..Len(q) /\ ~(n <= n - 1)
    BY <2>3, <1>3
  <2>5. n - 1 \notin Bad
    BY <2>2, <2>4
  <2> QED
    BY <2>3, <2>4, <2>5, <1>5
<1>7. Good(Len(q))
  BY <1>3, <1>6
<1>8. FirstTasks(Len(q)) = ToSet(q) /\ S \cap FirstTasks(Len(q)) = S
  BY DEF ToSet
<1> HIDE DEF FirstTasks
<1> QED
  BY <1>2, <1>7, <1>8 DEF Good

-----------------------------------------------------------------------------
(* Types                                                                   *)

\* What is assumed of the constants
LEMMA Consts ==
  /\ NoTask \notin Tasks /\ NoThread \notin Threads /\ NoMethod \notin Methods
  /\ Requesters \subseteq Threads /\ Compilers \subseteq Threads
  /\ Requesters \cap Compilers = {} /\ Main \in Requesters
  /\ BootMethods \subseteq Methods
  /\ \A t \in Threads : t \in Requesters \/ t \in Compilers
BY BrokerAssumption DEF Tasks, Threads

\* The fields of a record
LEMMA RequestType ==
  ASSUME NEW x \in RequestLocals
  PROVE  /\ x.pc \in {"idle", "lock", "locked", "wait"} /\ x.m \in Methods \cup {NoMethod}
         /\ x.osr \in BOOLEAN /\ x.task \in Tasks \cup {NoTask}
         /\ x.tries \in 0..(Attempts - 1) /\ x.moved \in BOOLEAN
BY DEF RequestLocals

LEMMA CompilerType ==
  ASSUME NEW x \in CompilerLocals
  PROVE  /\ x.pc \in {"loop", "start", "compile", "clear", "complete", "exited"}
         /\ x.task \in Tasks \cup {NoTask} /\ x.purge \subseteq Tasks
         /\ x.on \in Requesters \cup {NoThread}
BY DEF CompilerLocals

LEMMA TaskType ==
  ASSUME NEW x \in TaskObjects
  PROVE  /\ x.free \in BOOLEAN /\ x.m \in Methods \cup {NoMethod} /\ x.osr \in BOOLEAN
         /\ x.blocking \in BOOLEAN /\ x.waiter \in BOOLEAN /\ x.complete \in BOOLEAN
         /\ x.by \in Compilers \cup {NoThread}
BY DEF TaskObjects

\* The initial records have their types
LEMMA InitialRecords ==
  /\ freeTask \in TaskObjects
  /\ looping \in CompilerLocals
  /\ noRequest \in RequestLocals
<1>1. 0 \in 0..(Attempts - 1)
  BY BrokerAssumption
<1> QED
  BY <1>1 DEF freeTask, looping, noRequest, TaskObjects, CompilerLocals, RequestLocals

\* The types of the variables
LEMMA Types ==
  ASSUME TypeOK
  PROVE  /\ task \in [Tasks -> TaskObjects] /\ queue \in Seq(Tasks)
         /\ size \in Nat /\ queued \subseteq Methods /\ results \subseteq Methods \X BOOLEAN
         /\ mode \in {"run", "stop", "shutdown"} /\ flags \in CommandLines
         /\ ct \in [Compilers -> CompilerLocals] /\ req \in [Threads -> RequestLocals]
         /\ handled \in BOOLEAN
         /\ \A k \in Tasks : task[k] \in TaskObjects
         /\ \A c \in Compilers : ct[c] \in CompilerLocals
         /\ \A t \in Threads : req[t] \in RequestLocals
BY DEF TypeOK

\* The tasks of the queue are tasks
LEMMA QueueTasks ==
  ASSUME TypeOK, NEW k, InQueue(k)
  PROVE  k \in Tasks
BY DEF TypeOK, InQueue, ToSet

-----------------------------------------------------------------------------
(* What a step leaves alone                                                *)

\* The queue and the tasks at the compiler threads
KeepsPlaces ==
    /\ queue' = queue
    /\ \A c \in Compilers : ct'[c].task = ct[c].task /\ ct'[c].purge = ct[c].purge

\* Task k, but for the compiler thread it knows
KeepsTask(k) ==
    /\ task'[k].free = task[k].free /\ task'[k].complete = task[k].complete
    /\ task'[k].m = task[k].m /\ task'[k].osr = task[k].osr
    /\ task'[k].blocking = task[k].blocking /\ task'[k].waiter = task[k].waiter
KeepsTasks == \A k \in Tasks : KeepsTask(k)

\* Who waits for which task
KeepsWaiters == \A t \in Requesters : req'[t].task = req[t].task

\* Thread t's request, but for how long it has waited
KeepsRequest(t) == req'[t].pc = req[t].pc /\ req'[t].m = req[t].m /\ req'[t].task = req[t].task
KeepsRequests == \A t \in Threads : KeepsRequest(t)

\* Compilation stays disabled
StaysDisabled == Disabled => Disabled'

LEMMA PlacesFrame ==
  ASSUME KeepsPlaces
  PROVE  /\ \A k : InQueue(k)' <=> InQueue(k)
         /\ \A c \in Compilers : \A k : Holds(c, k)' <=> Holds(c, k)
         /\ \A k : AtCompiler(k)' <=> AtCompiler(k)
BY DEF KeepsPlaces, InQueue, Holds, AtCompiler

LEMMA AwaitedFrame ==
  ASSUME KeepsWaiters
  PROVE  \A k : Awaited(k)' <=> Awaited(k)
BY DEF KeepsWaiters, Awaited

\* A compiler thread has the tasks it holds
LEMMA AtCompilerHolds ==
  \A k : AtCompiler(k) <=> \E c \in Compilers : Holds(c, k)
BY DEF AtCompiler, Holds

LEMMA PlacesKept ==
  ASSUME PlacesExclusive, KeepsPlaces
  PROVE  PlacesExclusive'
<1>1. /\ \A k : InQueue(k)' <=> InQueue(k)
      /\ \A c \in Compilers : \A k : Holds(c, k)' <=> Holds(c, k)
  BY PlacesFrame
<1> QED
  BY <1>1 DEF PlacesExclusive, KeepsPlaces

\* A step that changes neither the places of tasks nor who waits for them
LEMMA Quiet ==
  ASSUME PlacesExclusive, PlacedInUse, OthersDone, WaiterKnown,
         KeepsPlaces, KeepsTasks, KeepsWaiters, StaysDisabled
  PROVE  PlacesExclusive' /\ PlacedInUse' /\ OthersDone' /\ WaiterKnown'
<1>1. /\ \A k : InQueue(k)' <=> InQueue(k)
      /\ \A k : AtCompiler(k)' <=> AtCompiler(k)
      /\ \A k : Awaited(k)' <=> Awaited(k)
  BY PlacesFrame, AwaitedFrame
<1>2. PlacesExclusive'
  BY PlacesKept
<1>3. PlacedInUse'
  BY <1>1 DEF PlacedInUse, KeepsTasks, KeepsTask
<1>4. OthersDone'
  BY <1>1 DEF OthersDone, KeepsTasks, KeepsTask, StaysDisabled
<1>5. WaiterKnown'
  BY <1>1 DEF WaiterKnown, KeepsTasks, KeepsTask, KeepsWaiters, StaysDisabled
<1> QED
  BY <1>2, <1>3, <1>4, <1>5

\* The lock protects what its holder has read
LEMMA LockKept ==
  ASSUME LockHeld, FreeTasks \subseteq FreeTasks', queued' \subseteq queued,
         \A t \in Threads : req'[t].pc = "locked" =>
             req[t].pc = "locked" /\ req'[t].m = req[t].m
  PROVE  LockHeld'
BY DEF LockHeld

LEMMA FreeKept ==
  ASSUME KeepsTasks
  PROVE  FreeTasks' = FreeTasks
BY DEF FreeTasks, KeepsTasks, KeepsTask

LEMMA RequestsKept ==
  ASSUME RequestsSound, KeepsRequests
  PROVE  RequestsSound'
BY DEF RequestsSound, RequestSound, KeepsRequests, KeepsRequest

\* The tasks D are no longer pending, and their bits have been cleared; or no bit
\* has, after a breakpoint or free_all
LEMMA BitsKept ==
  ASSUME PendingQueued, OneTaskPerMethod, QueuedWillBeCleared, StaysDisabled, flags' = flags,
         NEW D, D \subseteq Pending, Pending' = Pending \ D,
         \A k \in Pending' : task'[k].m = task[k].m /\ task'[k].osr = task[k].osr,
         \/ queued' = queued \ {task[j].m : j \in D}
         \/ queued' = queued /\ (flags.agent \/ Disabled)
  PROVE  PendingQueued' /\ OneTaskPerMethod' /\ QueuedWillBeCleared'
<1>1. \A k \in Pending' : k \in Pending /\ k \notin D /\ task'[k].m = task[k].m
  OBVIOUS
<1>2. OneTaskPerMethod'
  BY <1>1 DEF OneTaskPerMethod
<1>3. PendingQueued'
  BY <1>1 DEF OneTaskPerMethod, PendingQueued
<1>4. QueuedWillBeCleared'
  <2> SUFFICES ASSUME ~flags.agent, ~Disabled, ~Disabled'
               PROVE  queued' = {task'[k].m : k \in Pending'}
    BY DEF QueuedWillBeCleared, QueuedHasTask, StaysDisabled
  <2>1. queued' = queued \ {task[j].m : j \in D}
    OBVIOUS
  <2>2. queued = {task[k].m : k \in Pending}
    BY DEF QueuedWillBeCleared, QueuedHasTask
  <2>3. ASSUME NEW x \in queued' PROVE x \in {task'[k].m : k \in Pending'}
    <3>1. PICK k \in Pending : x = task[k].m
      BY <2>1, <2>2, <2>3
    <3>2. k \notin D
      BY <2>1, <3>1, <2>3
    <3> QED
      BY <3>1, <3>2
  <2>4. ASSUME NEW k \in Pending' PROVE task'[k].m \in queued'
    BY <1>3 DEF PendingQueued
  <2> QED
    BY <2>3, <2>4
<1> QED
  BY <1>2, <1>3, <1>4

LEMMA BitsSame ==
  ASSUME PendingQueued, OneTaskPerMethod, QueuedWillBeCleared, StaysDisabled, flags' = flags,
         Pending' = Pending, queued' = queued,
         \A k \in Pending : task'[k].m = task[k].m /\ task'[k].osr = task[k].osr
  PROVE  PendingQueued' /\ OneTaskPerMethod' /\ QueuedWillBeCleared'
<1>1. PICK D : D = {}
  OBVIOUS
<1>2. D \subseteq Pending /\ Pending' = Pending \ D /\ queued' = queued \ {task[j].m : j \in D}
  BY <1>1
<1>3. \A k \in Pending' : task'[k].m = task[k].m /\ task'[k].osr = task[k].osr
  OBVIOUS
<1> QED
  BY <1>2, <1>3, BitsKept

Working == {"start", "compile", "clear"}

LEMMA PendingKept ==
  ASSUME KeepsPlaces, \A c \in Compilers : ct'[c].pc \in Working <=> ct[c].pc \in Working
  PROVE  Pending' = Pending
<1>1. \A k : InQueue(k)' <=> InQueue(k)
  BY PlacesFrame
<1> QED
  BY <1>1 DEF Pending, KeepsPlaces, Working

-----------------------------------------------------------------------------
(* Requests                                                                *)

BootLocals == [pc : {"enqueue", "sleep", "check", "done"}, todo : SUBSET BootMethods, qsize : Nat]

\* Only requests and the bootstrap go on
LEMMA OnlyRequests ==
  ASSUME IInv, UNCHANGED <<task, queue, size, queued, results, mode, flags, ct, handled>>,
         req' \in [Threads -> RequestLocals], boot' \in BootLocals,
         KeepsWaiters, LockHeld', RequestsSound', \A c \in Compilers : req'[c].pc # "wait"
  PROVE  IInv'
<1>1. KeepsPlaces /\ KeepsTasks /\ StaysDisabled
  BY DEF KeepsPlaces, KeepsTasks, KeepsTask, StaysDisabled, Disabled
<1>2. PlacesExclusive' /\ PlacedInUse' /\ OthersDone' /\ WaiterKnown'
  BY <1>1, Quiet DEF IInv
<1>3. TypeOK'
  BY DEF IInv, TypeOK, BootLocals
<1>4. CompilersSound'
  BY DEF IInv, CompilersSound, CompilerSound
<1>5. SizeCounts'
  BY DEF IInv, SizeCounts, Disabled
<1>6. Pending' = Pending /\ \A k : InQueue(k)' <=> InQueue(k)
  BY <1>1, PendingKept, PlacesFrame
<1>7. PendingQueued' /\ OneTaskPerMethod' /\ QueuedWillBeCleared'
  BY <1>6 DEF IInv, PendingQueued, OneTaskPerMethod, QueuedWillBeCleared,
              QueuedHasTask, Disabled
<1> QED
  BY <1>2, <1>3, <1>4, <1>5, <1>7 DEF IInv

LEMMA BootType ==
  ASSUME TypeOK
  PROVE  boot \in BootLocals
BY DEF TypeOK, BootLocals

\* Thread t begins a request, takes the lock or gives the request up
LEMMA RequestMoves ==
  ASSUME IInv, NEW t \in Threads, NEW x \in RequestLocals,
         UNCHANGED <<task, queue, size, queued, results, mode, flags, ct, handled>>,
         boot' \in BootLocals, req' = [req EXCEPT ![t] = x],
         req[t].pc # "wait", x.pc # "wait", x.task = NoTask,
         x.pc \in {"lock", "locked"} => x.m \in Methods,
         x.pc = "locked" => ~QueueLocked /\ x.m \notin queued /\ FreeTasks # {}
  PROVE  IInv'
<1>1. req \in [Threads -> RequestLocals]
  BY Types DEF IInv
<1>2. /\ req' \in [Threads -> RequestLocals] /\ req'[t] = x
      /\ \A u \in Threads : u # t => req'[u] = req[u]
  BY <1>1
<1>3. KeepsWaiters
  <2>1. req[t].task = NoTask
    BY DEF IInv, RequestsSound, RequestSound
  <2> QED
    BY <1>2, <2>1, Consts DEF KeepsWaiters
<1>4. LockHeld'
  <2>1. FreeTasks' = FreeTasks
    BY DEF FreeTasks
  <2> QED
    BY <1>2, <2>1 DEF IInv, LockHeld, QueueLocked
<1>5. RequestsSound'
  BY <1>2 DEF IInv, RequestsSound, RequestSound
<1>6. \A c \in Compilers : req'[c].pc # "wait"
  BY <1>2, Consts DEF IInv, CompilersSound
<1> QED
  BY <1>2, <1>3, <1>4, <1>5, <1>6, OnlyRequests

LEMMA CompileMethodStep ==
  ASSUME IInv, NEW t \in Threads, NEW m \in Methods, NEW osr \in BOOLEAN,
         CompileMethod(t, m, osr)
  PROVE  IInv'
<1> DEFINE x == [noRequest EXCEPT !.pc = "lock", !.m = m, !.osr = osr]
<1>1. x \in RequestLocals /\ x.pc = "lock" /\ x.m = m /\ x.task = NoTask
  BY InitialRecords DEF RequestLocals, noRequest
<1>2. boot' \in BootLocals
  BY BootType DEF IInv, CompileMethod
<1>3. req[t].pc # "wait" /\ req' = [req EXCEPT ![t] = x]
  BY DEF CompileMethod
<1> HIDE DEF x
<1> QED
  BY <1>1, <1>2, <1>3, RequestMoves DEF CompileMethod

LEMMA ReadQueuedStep ==
  ASSUME IInv, NEW t \in Threads, ReadQueued(t)
  PROVE  IInv'
<1> DEFINE x == IF req[t].m \in queued THEN noRequest ELSE [req[t] EXCEPT !.pc = "locked"]
<1>1. req[t] \in RequestLocals /\ req[t].task = NoTask /\ req[t].m \in Methods
  BY Types DEF IInv, ReadQueued, RequestsSound, RequestSound
<1>2. /\ x \in RequestLocals /\ x.task = NoTask /\ x.pc \in {"idle", "locked"}
      /\ x.pc = "locked" => x.m = req[t].m /\ x.m \notin queued
  BY <1>1, InitialRecords DEF RequestLocals, noRequest
<1>3. boot' \in BootLocals
  BY BootType DEF IInv, ReadQueued
<1>4. req[t].pc # "wait" /\ req' = [req EXCEPT ![t] = x] /\ ~QueueLocked /\ FreeTasks # {}
  BY DEF ReadQueued
<1> HIDE DEF x
<1> QED
  BY <1>1, <1>2, <1>3, <1>4, RequestMoves DEF ReadQueued

LEMMA BootRequestStep ==
  ASSUME IInv, NEW m \in BootMethods, BootRequest(m)
  PROVE  IInv'
<1> DEFINE x == IF mode = "run" /\ <<m, FALSE>> \notin results /\ m \notin queued
                THEN [noRequest EXCEPT !.pc = "lock", !.m = m] ELSE req[Main]
<1>0. Main \in Threads /\ m \in Methods
  BY Consts
<1>1. req[Main] \in RequestLocals /\ req[Main].task = NoTask /\ req[Main].pc = "idle"
  BY <1>0, Types DEF IInv, BootRequest, RequestsSound, RequestSound
<1>2. /\ x \in RequestLocals /\ x.task = NoTask /\ x.pc \in {"idle", "lock"}
      /\ x.pc = "lock" => x.m = m
  BY <1>0, <1>1, InitialRecords DEF RequestLocals, noRequest
<1>3. boot' \in BootLocals
  <2>1. boot \in BootLocals
    BY BootType DEF IInv
  <2> QED
    BY <2>1 DEF BootLocals, BootRequest
<1>4. req' = [req EXCEPT ![Main] = x]
  <2>1. req \in [Threads -> RequestLocals]
    BY Types DEF IInv
  <2> QED
    BY <2>1, <1>0 DEF BootRequest
<1> HIDE DEF x
<1> QED
  BY <1>0, <1>1, <1>2, <1>3, <1>4, RequestMoves DEF BootRequest

LEMMA NothingMoves ==
  ASSUME IInv, UNCHANGED <<task, queue, size, queued, results, mode, flags, ct, req, handled>>,
         boot' \in BootLocals
  PROVE  IInv'
<1>1. KeepsWaiters /\ KeepsRequests /\ RequestsSound'
  BY DEF IInv, KeepsWaiters, KeepsRequests, KeepsRequest, RequestsSound, RequestSound
<1>2. LockHeld'
  BY DEF IInv, LockHeld, FreeTasks
<1>3. req' \in [Threads -> RequestLocals] /\ \A c \in Compilers : req'[c].pc # "wait"
  BY Types DEF IInv, CompilersSound
<1> QED
  BY <1>1, <1>2, <1>3, OnlyRequests

LEMMA BootPollStep ==
  ASSUME IInv, BootPoll \/ BootCheck
  PROVE  IInv'
<1>1. boot \in BootLocals /\ size \in Nat
  BY BootType, Types DEF IInv
<1>2. BootPoll => boot' \in BootLocals
  BY <1>1 DEF BootLocals, BootPoll
<1>3. ASSUME BootCheck PROVE boot' \in BootLocals
  <2>1. PICK l \in {"done", "sleep"} : boot' = [boot EXCEPT !.pc = l, !.qsize = 0]
    BY <1>3, Zenon DEF BootCheck
  <2> QED
    BY <2>1, <1>1 DEF BootLocals
<1> QED
  BY <1>2, <1>3, NothingMoves DEF BootPoll, BootCheck

\* The next task is added to the queue
LEMMA AddTaskStep ==
  ASSUME IInv, NEW t \in Threads, NEW b \in BOOLEAN, AddTask(t, b)
  PROVE  IInv'
<1> DEFINE m == req[t].m
           osr == req[t].osr
<1>1. /\ req \in [Threads -> RequestLocals] /\ task \in [Tasks -> TaskObjects]
      /\ req[t] \in RequestLocals /\ req[t].pc = "locked" /\ queue \in Seq(Tasks)
      /\ osr \in BOOLEAN
  BY Types, RequestType DEF IInv, AddTask
<1>2. m \in Methods /\ m \notin queued /\ FreeTasks # {} /\ req[t].task = NoTask
  BY <1>1 DEF IInv, LockHeld, RequestsSound, RequestSound
<1>3. PICK k \in Tasks : k = Allocate /\ task[k].free
  BY <1>2, AllocateFree DEF FreeTasks
<1>4. CASE <<m, osr>> \in results
  <2>1. req' = [req EXCEPT ![t] = noRequest]
    BY <1>4 DEF AddTask
  <2>2. UNCHANGED <<task, queue, size, queued, results, mode, flags, ct, boot, handled>>
    BY <1>4 DEF AddTask
  <2>3. boot' \in BootLocals
    BY <2>2, BootType DEF IInv
  <2>4. noRequest \in RequestLocals /\ noRequest.pc = "idle" /\ noRequest.task = NoTask
    BY InitialRecords DEF noRequest
  <2> QED
    BY <2>1, <2>2, <2>3, <2>4, <1>1, RequestMoves
<1>5. CASE <<m, osr>> \notin results
  <2> DEFINE new == [freeTask EXCEPT !.free = FALSE, !.m = m, !.osr = osr,
                                     !.blocking = b, !.waiter = TRUE]
             x == IF b THEN [req[t] EXCEPT !.pc = "wait", !.task = k] ELSE noRequest
  <2>1. /\ new \in TaskObjects /\ ~new.free /\ new.m = m /\ new.osr = osr /\ new.blocking = b
        /\ new.waiter /\ ~new.complete
    BY <1>1, <1>2, InitialRecords DEF TaskObjects, freeTask
  <2>2. /\ x \in RequestLocals
        /\ x.pc = "wait" => b /\ x.task = k
        /\ x.pc # "wait" => ~b /\ x.pc = "idle" /\ x.task = NoTask
        /\ x.pc \in {"wait", "idle"}
    BY <1>1, <1>3, InitialRecords DEF RequestLocals, noRequest
  <2>3. /\ task' = [task EXCEPT ![k] = new]
        /\ queue' = Append(queue, k) /\ size' = size + 1
        /\ queued' = queued \cup {m}
        /\ req' = [req EXCEPT ![t] = x]
        /\ UNCHANGED <<results, mode, flags, ct, boot, handled>>
        /\ b => t \in Requesters
    BY <1>3, <1>5 DEF AddTask, NewTask, Add
  <2> HIDE DEF new, x
  <2>4. /\ task' \in [Tasks -> TaskObjects] /\ task'[k] = new
        /\ \A j \in Tasks : j # k => task'[j] = task[j]
        /\ req' \in [Threads -> RequestLocals] /\ req'[t] = x
        /\ \A u \in Threads : u # t => req'[u] = req[u]
    BY <2>1, <2>2, <2>3, <1>1, <1>3
  <2>5. /\ queue' \in Seq(Tasks) /\ Len(queue) \in Nat /\ Len(queue') = Len(queue) + 1
        /\ \A i \in 1..Len(queue) : queue'[i] = queue[i]
        /\ queue'[Len(queue) + 1] = k
        /\ ToSet(queue') = ToSet(queue) \cup {k}
    BY <2>3, <1>1, <1>3, AppendTask
  <2>6. ~InQueue(k) /\ ~AtCompiler(k) /\ (~Disabled => ~Awaited(k))
    BY <1>3 DEF IInv, PlacedInUse, WaiterKnown
  <2>7. /\ \A j : InQueue(j)' <=> InQueue(j) \/ j = k
        /\ \A c \in Compilers : \A j : Holds(c, j)' <=> Holds(c, j)
        /\ \A j : AtCompiler(j)' <=> AtCompiler(j)
    BY <2>3, <2>5 DEF InQueue, Holds, AtCompiler
  <2>8. TypeOK'
    <3>1. size' \in Nat /\ queued' \subseteq Methods
      BY <2>3, <1>2, Types DEF IInv
    <3> QED
      BY <2>3, <2>4, <2>5, <3>1 DEF IInv, TypeOK
  <2>9. LockHeld'
    <3>1. \A u \in Threads : req'[u].pc # "locked"
      BY <2>2, <2>4, <1>1 DEF IInv, LockHeld
    <3> QED
      BY <3>1 DEF LockHeld
  <2>10. RequestsSound'
    <3>1. RequestSound(t)'
      BY <2>2, <2>4, <1>3 DEF RequestSound
    <3> QED
      BY <3>1, <2>4 DEF IInv, RequestsSound, RequestSound
  <2>11. CompilersSound'
    <3>1. t \in Compilers => ~b
      BY <2>3, Consts
    <3>2. \A c \in Compilers : req'[c].pc # "wait"
      BY <3>1, <2>2, <2>4, Consts DEF IInv, CompilersSound
    <3> QED
      BY <3>2, <2>3 DEF IInv, CompilersSound, CompilerSound
  <2>12. PlacesExclusive'
    <3>1. \A i, j \in 1..Len(queue') : queue'[i] = queue'[j] => i = j
      <4>1. \A i \in 1..Len(queue') : i \in 1..Len(queue) \/ i = Len(queue) + 1
        BY <2>5
      <4>2. \A i \in 1..Len(queue) : queue[i] # k
        BY <2>6, <1>1 DEF InQueue, ToSet
      <4>3. \A i, j \in 1..Len(queue) : queue[i] = queue[j] => i = j
        BY DEF IInv, PlacesExclusive
      <4> QED
        BY <4>1, <4>2, <4>3, <2>5
    <3>2. \A j \in Tasks : \A c \in Compilers : Holds(c, j)' => ~InQueue(j)'
      BY <2>6, <2>7, AtCompilerHolds DEF IInv, PlacesExclusive
    <3> QED
      BY <3>1, <3>2, <2>3, <2>7 DEF IInv, PlacesExclusive
  <2>13. PlacedInUse'
    BY <2>1, <2>4, <2>7, <1>2 DEF IInv, PlacedInUse
  <2>14. OthersDone'
    BY <2>3, <2>4, <2>7 DEF IInv, OthersDone, Disabled
  <2>15. WaiterKnown'
    <3> SUFFICES ASSUME ~Disabled' PROVE WaiterKnown'
      BY DEF WaiterKnown
    <3>1. ~Disabled
      BY <2>3 DEF Disabled
    <3>2. Awaited(k)' <=> b
      <4>1. ASSUME b PROVE Awaited(k)'
        <5>1. t \in Requesters /\ req'[t].task = k
          BY <4>1, <2>2, <2>3, <2>4
        <5> QED
          BY <5>1 DEF Awaited
      <4>2. ~b => req'[t].task # k
        BY <2>2, <2>4, <1>3, Consts
      <4>3. \A u \in Requesters : u # t => req'[u].task # k
        BY <2>4, <2>6, <3>1, Consts DEF Awaited
      <4>4. ASSUME ~b PROVE ~Awaited(k)'
        BY <4>4, <4>2, <4>3 DEF Awaited
      <4> QED
        BY <4>1, <4>4, Zenon
    <3>3. \A j \in Tasks : j # k => (Awaited(j)' <=> Awaited(j))
      <4>1. \A j \in Tasks : j # k => req'[t].task # j /\ req[t].task # j
        BY <2>2, <2>4, <1>2, Consts
      <4> QED
        BY <4>1, <2>4, Consts DEF Awaited
    <3>4. \A r, s \in Requesters : req'[r].task # NoTask /\ req'[r].task = req'[s].task => r = s
      <4>1. \A u \in Requesters : u # t => req'[u].task = req[u].task /\ req[u].task # k
        BY <2>4, <2>6, <3>1, Consts DEF Awaited
      <4>2. req'[t].task \in {k, NoTask}
        BY <2>2, <2>4
      <4>3. \A r, s \in Requesters : req[r].task # NoTask /\ req[r].task = req[s].task => r = s
        BY <3>1 DEF IInv, WaiterKnown
      <4> QED
        BY <4>1, <4>2, <4>3
    <3>5. ASSUME NEW j \in Tasks
          PROVE  Awaited(j)' <=> ~task'[j].free /\ task'[j].blocking /\ task'[j].waiter
      <4>1. CASE j = k
        <5>1. ~task'[k].free /\ task'[k].waiter /\ (task'[k].blocking <=> b)
          BY <2>1, <2>4
        <5> QED
          BY <4>1, <5>1, <3>2, Zenon
      <4>2. CASE j # k
        <5>1. task'[j] = task[j]
          BY <4>2, <2>4
        <5>2. Awaited(j) <=> ~task[j].free /\ task[j].blocking /\ task[j].waiter
          BY <3>1 DEF IInv, WaiterKnown
        <5> QED
          BY <4>2, <5>1, <5>2, <3>3, Zenon
      <4> QED
        BY <4>1, <4>2
    <3> QED
      BY <3>4, <3>5 DEF WaiterKnown
  <2>16. Pending' = Pending \cup {k}
    BY <2>3, <2>7, <1>3 DEF Pending
  <2>17. k \notin Pending
    BY <2>6 DEF Pending, AtCompiler
  <2>18. \A j \in Pending : task'[j] = task[j] /\ j \in Tasks
    BY <2>4, <2>17 DEF Pending
  <2>19. PendingQueued' /\ OneTaskPerMethod'
    BY <2>1, <2>3, <2>4, <2>16, <2>18, <1>2 DEF IInv, PendingQueued, OneTaskPerMethod
  <2>21. QueuedWillBeCleared'
    BY <2>1, <2>3, <2>4, <2>16, <2>18
       DEF IInv, QueuedWillBeCleared, QueuedHasTask, Disabled
  <2>22. SizeCounts'
    BY <2>3, <2>5, Types DEF IInv, SizeCounts, Disabled
  <2> QED
    BY <2>8, <2>9, <2>10, <2>11, <2>12, <2>13, <2>14, <2>15, <2>19, <2>21, <2>22 DEF IInv
<1> QED
  BY <1>4, <1>5

-----------------------------------------------------------------------------
(* Waiting                                                                 *)

\* Thread r stops waiting for task k: it gives the task up, or recycles it
LEMMA StopsWaiting ==
  ASSUME IInv, NEW r \in Requesters, NEW k \in Tasks, req[r].pc = "wait", req[r].task = k,
         req' = [req EXCEPT ![r] = noRequest], NEW x \in TaskObjects,
         task' = [task EXCEPT ![k] = x],
         UNCHANGED <<queue, size, queued, results, mode, flags, ct, boot, handled>>,
         \/ x.free /\ ~x.complete /\ task[k].complete
         \/ /\ x = [task[k] EXCEPT !.waiter = FALSE]
            /\ ~task[k].complete
  PROVE  IInv'
<1>1. /\ req \in [Threads -> RequestLocals] /\ task \in [Tasks -> TaskObjects]
      /\ task[k] \in TaskObjects /\ r \in Threads
  BY Types, Consts DEF IInv
<1>2. noRequest \in RequestLocals /\ noRequest.pc = "idle" /\ noRequest.task = NoTask
  BY InitialRecords DEF noRequest
<1>3. /\ task' \in [Tasks -> TaskObjects] /\ task'[k] = x
      /\ \A j \in Tasks : j # k => task'[j] = task[j]
      /\ req' \in [Threads -> RequestLocals] /\ req'[r].pc = "idle" /\ req'[r].task = NoTask
      /\ \A u \in Threads : u # r => req'[u] = req[u]
  BY <1>1, <1>2
<1>4. \/ x.free /\ ~x.complete /\ task[k].complete
      \/ /\ x.free = task[k].free /\ x.complete = task[k].complete /\ ~x.waiter
         /\ x.m = task[k].m /\ x.osr = task[k].osr /\ ~task[k].complete
  BY <1>1 DEF TaskObjects
<1>5. KeepsPlaces /\ StaysDisabled
  BY DEF KeepsPlaces, StaysDisabled, Disabled
<1>6. /\ \A j : InQueue(j)' <=> InQueue(j)
      /\ \A j : AtCompiler(j)' <=> AtCompiler(j)
      /\ Pending' = Pending
  BY <1>5, PlacesFrame, PendingKept
<1>7. TypeOK'
  BY <1>3 DEF IInv, TypeOK
<1>8. LockHeld'
  <2>1. FreeTasks \subseteq FreeTasks'
    BY <1>3, <1>4 DEF FreeTasks
  <2>2. \A t \in Threads : req'[t].pc = "locked" => req[t].pc = "locked" /\ req'[t].m = req[t].m
    BY <1>3
  <2> QED
    BY <2>1, <2>2, LockKept DEF IInv
<1>9. RequestsSound'
  BY <1>3 DEF IInv, RequestsSound, RequestSound
<1>10. CompilersSound'
  <2>1. \A c \in Compilers : req'[c].pc # "wait"
    BY <1>3, Consts DEF IInv, CompilersSound
  <2> QED
    BY <2>1 DEF IInv, CompilersSound, CompilerSound
<1>11. PlacesExclusive'
  BY <1>5, PlacesKept DEF IInv
<1>12. PlacedInUse'
  <2>1. ASSUME NEW j \in Tasks, InQueue(j) \/ AtCompiler(j)
        PROVE  ~task'[j].free /\ ~task'[j].complete /\ task'[j].m \in Methods
    <3>1. ~task[j].free /\ ~task[j].complete /\ task[j].m \in Methods
      BY <2>1 DEF IInv, PlacedInUse
    <3> QED
      BY <3>1, <1>3, <1>4
  <2> QED
    BY <2>1, <1>6 DEF PlacedInUse
<1>13. Awaited(k)
  BY DEF Awaited
<1>14. OthersDone'
  <2> SUFFICES ASSUME ~Disabled', NEW j \in Tasks,
                      ~task'[j].free, ~InQueue(j), ~AtCompiler(j)
               PROVE  task'[j].complete /\ task'[j].blocking /\ task'[j].waiter
    BY <1>6 DEF OthersDone
  <2>1. ~Disabled
    BY <1>5 DEF StaysDisabled
  <2>2. CASE j = k
    <3>1. ~task[k].free
      BY <1>13, <2>1 DEF IInv, WaiterKnown
    <3>2. task[k].complete
      BY <3>1, <2>1, <2>2 DEF IInv, OthersDone
    <3> QED
      BY <3>2, <2>2, <1>3, <1>4
  <2>3. CASE j # k
    BY <2>1, <2>3, <1>3 DEF IInv, OthersDone
  <2> QED
    BY <2>2, <2>3
<1>15. WaiterKnown'
  <2> SUFFICES ASSUME ~Disabled' PROVE WaiterKnown'
    BY DEF WaiterKnown
  <2>1. ~Disabled
    BY <1>5 DEF StaysDisabled
  <2>2. \A u \in Requesters : u # r => req[u].task # k /\ req'[u].task = req[u].task
    BY <2>1, <1>3, Consts DEF IInv, WaiterKnown
  <2>3. ~Awaited(k)'
    BY <2>2, <1>3, Consts DEF Awaited
  <2>4. \A j \in Tasks : j # k => (Awaited(j)' <=> Awaited(j))
    BY <2>2, <1>3, Consts DEF Awaited
  <2>5. \A u, v \in Requesters : req'[u].task # NoTask /\ req'[u].task = req'[v].task => u = v
    BY <2>1, <2>2, <1>3 DEF IInv, WaiterKnown
  <2>6. task'[k].free \/ ~task'[k].waiter
    BY <1>3, <1>4
  <2>7. ASSUME NEW j \in Tasks
        PROVE  Awaited(j)' <=> ~task'[j].free /\ task'[j].blocking /\ task'[j].waiter
    <3>1. CASE j = k
      BY <3>1, <2>3, <2>6, Zenon
    <3>2. CASE j # k
      <4>1. task'[j] = task[j]
        BY <3>2, <1>3
      <4>2. Awaited(j) <=> ~task[j].free /\ task[j].blocking /\ task[j].waiter
        BY <2>1 DEF IInv, WaiterKnown
      <4> QED
        BY <3>2, <4>1, <4>2, <2>4, Zenon
    <3> QED
      BY <3>1, <3>2
  <2> QED
    BY <2>5, <2>7 DEF WaiterKnown
<1>16. PendingQueued' /\ OneTaskPerMethod' /\ QueuedWillBeCleared'
  <2>1. \A j \in Pending' : task'[j].m = task[j].m /\ task'[j].osr = task[j].osr
    <3>1. \A j \in Pending : j \in Tasks /\ (InQueue(j) \/ AtCompiler(j))
      BY DEF Pending, AtCompiler
    <3>2. \A j \in Pending : ~task[j].complete
      BY <3>1 DEF IInv, PlacedInUse
    <3> QED
      BY <3>1, <3>2, <1>3, <1>4, <1>6
  <2> QED
    BY <2>1, <1>5, <1>6, BitsSame DEF IInv
<1>17. SizeCounts'
  BY DEF IInv, SizeCounts, Disabled
<1> QED
  BY <1>7, <1>8, <1>9, <1>10, <1>11, <1>12, <1>14, <1>15, <1>16, <1>17 DEF IInv

\* A thread goes on waiting
LEMMA WaitsOn ==
  ASSUME IInv, NEW r \in Requesters, NEW x \in RequestLocals,
         x.pc = req[r].pc, x.m = req[r].m, x.task = req[r].task,
         req' = [req EXCEPT ![r] = x],
         UNCHANGED <<task, queue, size, queued, results, mode, flags, ct, boot, handled>>
  PROVE  IInv'
<1>1. req \in [Threads -> RequestLocals] /\ r \in Threads
  BY Types, Consts DEF IInv
<1>2. req' \in [Threads -> RequestLocals] /\ KeepsRequests
  BY <1>1 DEF KeepsRequests, KeepsRequest
<1>3. KeepsWaiters /\ RequestsSound'
  BY <1>2, RequestsKept, Consts DEF IInv, KeepsWaiters, KeepsRequests, KeepsRequest
<1>4. LockHeld'
  BY <1>2 DEF IInv, LockHeld, FreeTasks, KeepsRequests, KeepsRequest
<1>5. \A c \in Compilers : req'[c].pc # "wait"
  BY <1>2, Consts DEF IInv, CompilersSound, KeepsRequests, KeepsRequest
<1>6. boot' \in BootLocals
  BY BootType DEF IInv
<1> QED
  BY <1>2, <1>3, <1>4, <1>5, <1>6, OnlyRequests

LEMMA WaitTimeoutStep ==
  ASSUME IInv, NEW r \in Requesters, WaitTimeout(r)
  PROVE  IInv'
<1>1. /\ req[r] \in RequestLocals /\ r \in Threads /\ req[r].tries \in 0..(Attempts - 1)
      /\ req[r].moved \in BOOLEAN
  BY Types, RequestType, Consts DEF IInv
<1>2. PICK k \in Tasks : k = req[r].task
  BY <1>1 DEF IInv, WaitTimeout, RequestsSound, RequestSound
<1>3. CASE Progress(r)
  <2> DEFINE x == [req[r] EXCEPT !.tries = 0,
                                 !.moved = IF task[k].by = NoThread THEN FALSE ELSE @]
  <2>1. req' = [req EXCEPT ![r] = x] /\ UNCHANGED task
    BY <1>1, <1>2, <1>3, Types DEF WaitTimeout, IInv
  <2>2. 0 \in 0..(Attempts - 1)
    BY BrokerAssumption
  <2>3. /\ x \in RequestLocals /\ x.pc = req[r].pc /\ x.m = req[r].m
        /\ x.task = req[r].task
    BY <1>1, <2>2 DEF RequestLocals
  <2> HIDE DEF x
  <2> QED
    BY <2>1, <2>3, WaitsOn DEF WaitTimeout
<1>4. CASE ~Progress(r) /\ req[r].tries + 1 < Attempts
  <2> DEFINE x == [req[r] EXCEPT !.tries = @ + 1]
  <2>1. req' = [req EXCEPT ![r] = x] /\ UNCHANGED task
    BY <1>4 DEF WaitTimeout
  <2>2. req[r].tries + 1 \in 0..(Attempts - 1)
    BY <1>1, <1>4, BrokerAssumption
  <2>3. /\ x \in RequestLocals /\ x.pc = req[r].pc /\ x.m = req[r].m
        /\ x.task = req[r].task
    BY <1>1, <2>2 DEF RequestLocals
  <2> HIDE DEF x
  <2> QED
    BY <2>1, <2>3, WaitsOn DEF WaitTimeout
<1>5. CASE ~Progress(r) /\ ~(req[r].tries + 1 < Attempts)
  <2> DEFINE x == [task[k] EXCEPT !.waiter = FALSE]
  <2>1. task[k] \in TaskObjects
    BY Types DEF IInv
  <2>2. x \in TaskObjects
    BY <2>1 DEF TaskObjects
  <2>3. req' = [req EXCEPT ![r] = noRequest] /\ task' = [task EXCEPT ![k] = x]
    BY <1>2, <1>5 DEF WaitTimeout
  <2>4. ~task[k].complete /\ req[r].pc = "wait"
    BY <1>2 DEF WaitTimeout
  <2>5. UNCHANGED <<queue, size, queued, results, mode, flags, ct, boot, handled>>
    BY DEF WaitTimeout
  <2> QED
    BY <1>2, <2>2, <2>3, <2>4, <2>5, StopsWaiting
<1> QED
  BY <1>3, <1>4, <1>5

LEMMA WaitDoneStep ==
  ASSUME IInv, NEW r \in Requesters, WaitDone(r)
  PROVE  IInv'
<1>1. r \in Threads /\ req[r].pc = "wait"
  BY Consts DEF WaitDone
<1>2. PICK k \in Tasks : k = req[r].task
  BY <1>1 DEF IInv, RequestsSound, RequestSound
<1> DEFINE x == IF task[k].complete THEN freeTask ELSE [task[k] EXCEPT !.waiter = FALSE]
<1>3. task[k] \in TaskObjects
  BY Types DEF IInv
<1>4. x \in TaskObjects
  BY <1>3, InitialRecords DEF TaskObjects
<1>5. req' = [req EXCEPT ![r] = noRequest] /\ task' = [task EXCEPT ![k] = x]
  BY <1>2 DEF WaitDone
<1>6. UNCHANGED <<queue, size, queued, results, mode, flags, ct, boot, handled>>
  BY DEF WaitDone
<1>7. \/ x.free /\ ~x.complete /\ task[k].complete
      \/ x = [task[k] EXCEPT !.waiter = FALSE] /\ ~task[k].complete
  BY DEF freeTask
<1> HIDE DEF x
<1> QED
  BY <1>1, <1>2, <1>4, <1>5, <1>6, <1>7, StopsWaiting

-----------------------------------------------------------------------------
(* Compiler threads                                                        *)

\* Compiler threads go on with the tasks they have
LEMMA CompilersMove ==
  ASSUME IInv, KeepsPlaces, KeepsTasks, KeepsRequests,
         task' \in [Tasks -> TaskObjects], ct' \in [Compilers -> CompilerLocals],
         req' \in [Threads -> RequestLocals], queued' \subseteq queued,
         results' \subseteq Methods \X BOOLEAN, handled' \in BOOLEAN,
         UNCHANGED <<size, mode, flags, boot>>,
         \A c \in Compilers : CompilerSound(c)',
         PendingQueued', OneTaskPerMethod', QueuedWillBeCleared'
  PROVE  IInv'
<1>1. StaysDisabled /\ KeepsWaiters
  BY Consts DEF StaysDisabled, Disabled, KeepsWaiters, KeepsRequests, KeepsRequest
<1>2. PlacesExclusive' /\ PlacedInUse' /\ OthersDone' /\ WaiterKnown'
  BY <1>1, Quiet DEF IInv
<1>3. TypeOK'
  BY DEF IInv, TypeOK, KeepsPlaces
<1>4. LockHeld'
  BY FreeKept, LockKept DEF IInv, KeepsRequests, KeepsRequest
<1>5. RequestsSound'
  BY RequestsKept DEF IInv
<1>6. CompilersSound'
  BY Consts DEF IInv, CompilersSound, KeepsRequests, KeepsRequest
<1>7. SizeCounts'
  BY DEF IInv, SizeCounts, Disabled, KeepsPlaces
<1> QED
  BY <1>2, <1>3, <1>4, <1>5, <1>6, <1>7 DEF IInv

\* Thread c moves on to l with its task
Moves(c, l) ==
    /\ ct' \in [Compilers -> CompilerLocals]
    /\ ct'[c].pc = l /\ ct'[c].task = ct[c].task /\ ct'[c].purge = ct[c].purge
    /\ \A d \in Compilers : d # c => ct'[d] = ct[d]

LEMMA MovesTo ==
  ASSUME TypeOK, NEW c \in Compilers,
         NEW l \in {"start", "compile", "clear", "complete", "exited"},
         ct' = [ct EXCEPT ![c].pc = l]
  PROVE  Moves(c, l)
<1>1. ct \in [Compilers -> CompilerLocals] /\ ct[c] \in CompilerLocals
  BY Types
<1>2. [ct[c] EXCEPT !.pc = l] \in CompilerLocals
  BY <1>1 DEF CompilerLocals
<1>3. ct'[c] = [ct[c] EXCEPT !.pc = l] /\ \A d \in Compilers : d # c => ct'[d] = ct[d]
  BY <1>1
<1>4. ct'[c].pc = l /\ ct'[c].task = ct[c].task /\ ct'[c].purge = ct[c].purge
  BY <1>1, <1>3 DEF CompilerLocals
<1>5. ct' \in [Compilers -> CompilerLocals]
  BY <1>1, <1>2
<1> QED
  BY <1>3, <1>4, <1>5 DEF Moves

LEMMA MovesSound ==
  ASSUME CompilersSound, NEW c \in Compilers, ct[c].pc \notin {"loop", "exited"},
         ct[c].purge = {}, NEW l \in {"compile", "clear", "complete"}, Moves(c, l)
  PROVE  \A d \in Compilers : CompilerSound(d)'
BY DEF CompilersSound, CompilerSound, Moves

LEMMA MovesPlaces ==
  ASSUME NEW c \in Compilers, NEW l, Moves(c, l), queue' = queue
  PROVE  KeepsPlaces
BY DEF Moves, KeepsPlaces

\* The task that c works on is pending; it is c's only
LEMMA WorkingPending ==
  ASSUME IInv, NEW c \in Compilers, ct[c].pc \in Working
  PROVE  /\ ct[c].task \in Tasks /\ ct[c].task \in Pending /\ ~InQueue(ct[c].task)
         /\ \A d \in Compilers : d # c => ct[d].task # ct[c].task
<1>1. ct[c].task \in Tasks
  BY DEF IInv, CompilersSound, CompilerSound, Working
<1>2. Holds(c, ct[c].task)
  BY DEF Holds
<1>3. ~InQueue(ct[c].task)
  BY <1>1, <1>2 DEF IInv, PlacesExclusive
<1>4. ASSUME NEW d \in Compilers, ct[d].task = ct[c].task PROVE d = c
  <2>1. Holds(d, ct[c].task)
    BY <1>4 DEF Holds
  <2> QED
    BY <1>1, <1>2, <2>1 DEF IInv, PlacesExclusive
<1> QED
  BY <1>1, <1>3, <1>4 DEF Pending, Working

\* When c is done with it, the task is not pending any more
LEMMA PendingDropped ==
  ASSUME IInv, NEW c \in Compilers, ct[c].pc \in Working, Moves(c, "complete"), queue' = queue
  PROVE  Pending' = Pending \ {ct[c].task}
<1>1. /\ ct[c].task \in Tasks /\ ~InQueue(ct[c].task)
      /\ \A d \in Compilers : d # c => ct[d].task # ct[c].task
  BY WorkingPending
<1>2. \A k : InQueue(k)' <=> InQueue(k)
  BY MovesPlaces, PlacesFrame
<1>3. \A d \in Compilers : d # c => ct'[d] = ct[d]
  BY DEF Moves
<1>4. ct'[c].pc = "complete"
  BY DEF Moves
<1>5. ASSUME NEW k \in Pending' PROVE k \in Pending \ {ct[c].task}
  BY <1>1, <1>2, <1>3, <1>4, <1>5 DEF Pending
<1>6. ASSUME NEW k \in Pending \ {ct[c].task} PROVE k \in Pending'
  BY <1>2, <1>3, <1>6 DEF Pending
<1> QED
  BY <1>5, <1>6

\* c is done with its task, and has cleared the bit, or the method has a breakpoint
LEMMA DoneWithTask ==
  ASSUME IInv, NEW c \in Compilers, ct[c].pc \in Working, ct[c].purge = {},
         Moves(c, "complete"), KeepsTasks, task' \in [Tasks -> TaskObjects],
         UNCHANGED <<queue, size, results, mode, flags, req, boot, handled>>,
         \/ queued' = queued \ {task[ct[c].task].m}
         \/ queued' = queued /\ flags.agent
  PROVE  IInv'
<1>1. KeepsPlaces /\ KeepsRequests /\ StaysDisabled
  BY MovesPlaces DEF KeepsRequests, KeepsRequest, StaysDisabled, Disabled
<1>2. \A d \in Compilers : CompilerSound(d)'
  BY MovesSound DEF IInv, Working
<1>3. PICK D : D = {ct[c].task}
  OBVIOUS
<1>4. D \subseteq Pending /\ Pending' = Pending \ D
  BY <1>3, WorkingPending, PendingDropped
<1>5. \/ queued' = queued \ {task[j].m : j \in D}
      \/ queued' = queued /\ flags.agent
  BY <1>3
<1>8. \A k \in Pending' : task'[k].m = task[k].m /\ task'[k].osr = task[k].osr
  <2>1. \A k \in Pending' : k \in Tasks
    BY <1>4 DEF Pending
  <2> QED
    BY <2>1 DEF KeepsTasks, KeepsTask
<1>9. PendingQueued' /\ OneTaskPerMethod' /\ QueuedWillBeCleared'
  BY <1>1, <1>4, <1>5, <1>8, BitsKept DEF IInv
<1>10. /\ ct' \in [Compilers -> CompilerLocals] /\ req' \in [Threads -> RequestLocals]
       /\ results' \subseteq Methods \X BOOLEAN /\ handled' \in BOOLEAN
  BY Types DEF IInv, Moves
<1>11. queued' \subseteq queued
  OBVIOUS
<1> QED
  BY <1>1, <1>2, <1>9, <1>10, <1>11, CompilersMove

\* CompileTaskWrapper tells the task who compiles it
LEMMA TaskTaken ==
  ASSUME TypeOK, NEW c \in Compilers, NEW k \in Tasks,
         task' = IF task[k].blocking THEN [task EXCEPT ![k].by = c] ELSE task
  PROVE  KeepsTasks /\ task' \in [Tasks -> TaskObjects]
<1>1. task \in [Tasks -> TaskObjects] /\ task[k] \in TaskObjects
  BY Types
<1>2. [task[k] EXCEPT !.by = c] \in TaskObjects
  BY <1>1 DEF TaskObjects
<1>3. task' \in [Tasks -> TaskObjects]
  BY <1>1, <1>2
<1>4. \A j \in Tasks : j # k => task'[j] = task[j]
  BY <1>1
<1>5. task'[k] = task[k] \/ task'[k] = [task[k] EXCEPT !.by = c]
  BY <1>1
<1>6. KeepsTask(k)
  BY <1>1, <1>5 DEF TaskObjects, KeepsTask
<1> QED
  BY <1>3, <1>4, <1>6 DEF KeepsTasks, KeepsTask

\* c goes on with a task that stays pending
LEMMA GoesOn ==
  ASSUME IInv, NEW c \in Compilers, ct[c].pc \in Working, ct[c].purge = {},
         NEW l \in {"compile", "clear"}, Moves(c, l),
         KeepsTasks, task' \in [Tasks -> TaskObjects],
         KeepsRequests, req' \in [Threads -> RequestLocals],
         results' \subseteq Methods \X BOOLEAN, handled' \in BOOLEAN,
         UNCHANGED <<queue, size, queued, mode, flags, boot>>
  PROVE  IInv'
<1>1. KeepsPlaces /\ StaysDisabled
  BY MovesPlaces DEF StaysDisabled, Disabled
<1>2. \A d \in Compilers : CompilerSound(d)'
  BY MovesSound DEF IInv, Working
<1>3. \A d \in Compilers : ct'[d].pc \in Working <=> ct[d].pc \in Working
  BY DEF Moves, Working
<1>4. Pending' = Pending
  BY <1>1, <1>3, PendingKept
<1>6. \A k \in Pending : task'[k].m = task[k].m /\ task'[k].osr = task[k].osr
  BY DEF KeepsTasks, KeepsTask, Pending
<1>7. PendingQueued' /\ OneTaskPerMethod' /\ QueuedWillBeCleared'
  BY <1>1, <1>4, <1>6, BitsSame DEF IInv
<1>8. ct' \in [Compilers -> CompilerLocals]
  BY DEF Moves
<1> QED
  BY <1>1, <1>2, <1>7, <1>8, CompilersMove

LEMMA StartTaskStep ==
  ASSUME IInv, NEW c \in Compilers, StartTask(c) \/ SkipBreakpoint(c)
  PROVE  IInv'
<1>1. ct[c].pc = "start" /\ ct[c].pc \in Working /\ ct[c].purge = {} /\ TypeOK
  BY DEF StartTask, SkipBreakpoint, Working, IInv
<1>2. PICK k \in Tasks : k = ct[c].task
  BY <1>1, WorkingPending
<1>3. task' = IF task[k].blocking THEN [task EXCEPT ![k].by = c] ELSE task
  BY <1>2 DEF StartTask, SkipBreakpoint
<1>4. KeepsTasks /\ task' \in [Tasks -> TaskObjects]
  BY <1>1, <1>3, TaskTaken
<1>5. CASE StartTask(c) /\ mode = "run"
  <2>1. Moves(c, "compile") /\ queued' = queued
    BY <1>1, <1>5, MovesTo DEF StartTask
  <2>2. UNCHANGED <<queue, size, results, mode, flags, req, boot, handled>>
    BY <1>5 DEF StartTask
  <2>3. /\ req' \in [Threads -> RequestLocals] /\ results' \subseteq Methods \X BOOLEAN
        /\ handled' \in BOOLEAN /\ KeepsRequests
    BY <2>2, Types DEF IInv, KeepsRequests, KeepsRequest
  <2> QED
    BY <1>1, <1>4, <2>1, <2>2, <2>3, GoesOn
<1>6. CASE StartTask(c) /\ mode # "run"
  <2>1. Moves(c, "complete") /\ queued' = queued \ {task[ct[c].task].m}
    BY <1>1, <1>6, MovesTo DEF StartTask
  <2>2. UNCHANGED <<queue, size, results, mode, flags, req, boot, handled>>
    BY <1>6 DEF StartTask
  <2> QED
    BY <1>1, <1>4, <2>1, <2>2, DoneWithTask
<1>7. CASE SkipBreakpoint(c)
  <2>1. Moves(c, "complete") /\ queued' = queued /\ flags.agent
    BY <1>1, <1>7, MovesTo DEF SkipBreakpoint
  <2>2. UNCHANGED <<queue, size, results, mode, flags, req, boot, handled>>
    BY <1>7 DEF SkipBreakpoint
  <2> QED
    BY <1>1, <1>4, <2>1, <2>2, DoneWithTask
<1> QED
  BY <1>5, <1>6, <1>7

LEMMA ClearQueuedStep ==
  ASSUME IInv, NEW c \in Compilers, ClearQueued(c)
  PROVE  IInv'
<1>1. ct[c].pc = "clear" /\ ct[c].pc \in Working /\ TypeOK
  BY DEF ClearQueued, Working, IInv
<1>2. ct[c].purge = {}
  BY <1>1 DEF IInv, CompilersSound, CompilerSound
<1>3. Moves(c, "complete") /\ queued' = queued \ {task[ct[c].task].m}
  BY <1>1, MovesTo DEF ClearQueued
<1>4. UNCHANGED <<task, queue, size, results, mode, flags, req, boot, handled>>
  BY DEF ClearQueued
<1>5. KeepsTasks /\ task' \in [Tasks -> TaskObjects]
  BY <1>4, Types DEF IInv, KeepsTasks, KeepsTask
<1> QED
  BY <1>1, <1>2, <1>3, <1>4, <1>5, DoneWithTask

\* A compilation ends with or without a result
LEMMA CompileStep ==
  ASSUME IInv, NEW c \in Compilers, NEW o \in Outcomes, Compile(c, o)
  PROVE  IInv'
<1>1. ct[c].pc = "compile" /\ ct[c].pc \in Working /\ TypeOK
  BY DEF Compile, Working, IInv
<1>2. ct[c].purge = {}
  BY <1>1 DEF IInv, CompilersSound, CompilerSound
<1>3. Moves(c, "clear")
  BY <1>1, MovesTo DEF Compile
<1>4. UNCHANGED <<task, queue, size, queued, mode, flags, boot>>
  BY DEF Compile
<1>5. KeepsTasks /\ task' \in [Tasks -> TaskObjects]
  BY <1>4, Types DEF IInv, KeepsTasks, KeepsTask
<1>6. PICK k \in Tasks : k = ct[c].task /\ k \in Pending /\ ~InQueue(k)
  BY <1>1, WorkingPending
<1>7. handled' \in BOOLEAN
  <2>1. handled \in BOOLEAN
    BY Types DEF IInv
  <2>2. handled' = handled \/ handled' = (handled \/ Bootstrapping)
    BY DEF Compile
  <2> QED
    BY <2>1, <2>2, Zenon
<1>8. KeepsRequests /\ req' \in [Threads -> RequestLocals]
  <2>1. \/ req' = req
        \/ req' = [t \in Threads |-> IF req[t].pc = "wait"
                                     THEN [req[t] EXCEPT !.moved = TRUE] ELSE req[t]]
    BY DEF Compile
  <2>2. req \in [Threads -> RequestLocals] /\ \A t \in Threads : req[t] \in RequestLocals
    BY Types DEF IInv
  <2>3. \A t \in Threads : /\ [req[t] EXCEPT !.moved = TRUE] \in RequestLocals
                           /\ [req[t] EXCEPT !.moved = TRUE].pc = req[t].pc
                           /\ [req[t] EXCEPT !.moved = TRUE].m = req[t].m
                           /\ [req[t] EXCEPT !.moved = TRUE].task = req[t].task
    BY <2>2 DEF RequestLocals
  <2>4. \A t \in Threads : req'[t] = req[t] \/ req'[t] = [req[t] EXCEPT !.moved = TRUE]
    BY <2>1
  <2>5. KeepsRequests
    BY <2>3, <2>4 DEF KeepsRequests, KeepsRequest
  <2>6. req' \in [Threads -> RequestLocals]
    <3>1. \A t \in Threads : req'[t] \in RequestLocals
      BY <2>2, <2>3, <2>4
    <3>2. req' = [t \in Threads |-> req'[t]]
      BY <2>1, <2>2
    <3> QED
      BY <3>1, <3>2
  <2> QED
    BY <2>5, <2>6
<1>9. results' = results \/ results' = results \cup {<<task[k].m, task[k].osr>>}
  BY <1>6 DEF Compile
<1>10. task[k].m \in Methods /\ task[k].osr \in BOOLEAN
  <2>1. AtCompiler(k)
    BY <1>6 DEF AtCompiler
  <2>2. task[k] \in TaskObjects
    BY Types DEF IInv
  <2> QED
    BY <2>1, <2>2, TaskType DEF IInv, PlacedInUse
<1>11. results' \subseteq Methods \X BOOLEAN
  BY <1>9, <1>10, Types DEF IInv
<1> QED
  BY <1>1, <1>2, <1>3, <1>4, <1>5, <1>7, <1>8, <1>11, GoesOn

\* A compiler thread is blocked, or goes on
LEMMA BlockStep ==
  ASSUME IInv, NEW c \in Compilers, (\E r \in Requesters : Block(c, r)) \/ Unblock(c)
  PROVE  IInv'
<1>1. PICK w \in Requesters \cup {NoThread} : ct' = [ct EXCEPT ![c].on = w]
  BY DEF Block, Unblock
<1>2. UNCHANGED <<task, queue, size, queued, results, mode, flags, req, boot, handled>>
  BY DEF Block, Unblock
<1>3. ct \in [Compilers -> CompilerLocals] /\ ct[c] \in CompilerLocals
  BY Types DEF IInv
<1> DEFINE x == [ct[c] EXCEPT !.on = w]
<1>4. x \in CompilerLocals /\ x.pc = ct[c].pc /\ x.task = ct[c].task /\ x.purge = ct[c].purge
  BY <1>3 DEF CompilerLocals
<1>5. ct' = [ct EXCEPT ![c] = x]
  BY <1>1
<1> HIDE DEF x
<1>6. /\ ct' \in [Compilers -> CompilerLocals]
      /\ \A d \in Compilers : /\ ct'[d].pc = ct[d].pc /\ ct'[d].task = ct[d].task
                              /\ ct'[d].purge = ct[d].purge
  BY <1>3, <1>4, <1>5
<1>7. KeepsPlaces /\ KeepsTasks /\ KeepsRequests /\ StaysDisabled
  BY <1>2, <1>6 DEF KeepsPlaces, KeepsTasks, KeepsTask, KeepsRequests, KeepsRequest,
                    StaysDisabled, Disabled
<1>8. \A d \in Compilers : CompilerSound(d)'
  BY <1>6 DEF IInv, CompilersSound, CompilerSound
<1>9. Pending' = Pending
  BY <1>6, <1>7, PendingKept
<1>12. PendingQueued' /\ OneTaskPerMethod' /\ QueuedWillBeCleared'
  BY <1>2, <1>7, <1>9, BitsSame DEF IInv
<1>13. /\ task' \in [Tasks -> TaskObjects] /\ req' \in [Threads -> RequestLocals]
       /\ results' \subseteq Methods \X BOOLEAN /\ handled' \in BOOLEAN /\ queued' \subseteq queued
  BY <1>2, Types DEF IInv
<1> QED
  BY <1>2, <1>6, <1>7, <1>8, <1>12, <1>13, CompilersMove

\* CompileQueue::get
LEMMA GetStep ==
  ASSUME IInv, NEW c \in Compilers, NEW k \in Tasks, NEW stale \in SUBSET Tasks,
         Get(c, k, stale)
  PROVE  IInv'
<1>1. /\ ct \in [Compilers -> CompilerLocals] /\ ct[c] \in CompilerLocals
      /\ queue \in Seq(Tasks) /\ size \in Nat
  BY Types DEF IInv
<1>2. ct[c].pc = "loop" /\ ct[c].task = NoTask /\ ct[c].purge = {}
  BY DEF IInv, Get, CompilersSound, CompilerSound
<1>3. stale \subseteq ToSet(queue) /\ k \in ToSet(queue) /\ k \notin stale
  BY DEF Get, Selectable, BlockingOf
<1>4. PICK S : S = stale \cup {k}
  OBVIOUS
<1>5. S \subseteq ToSet(queue) /\ \A i, j \in 1..Len(queue) : queue[i] = queue[j] => i = j
  BY <1>3, <1>4 DEF IInv, PlacesExclusive
<1>6. queue' = Without(queue, S)
  BY <1>4 DEF Get
<1>7. /\ queue' \in Seq(Tasks)
      /\ ToSet(queue') = ToSet(queue) \ S
      /\ \A i, j \in 1..Len(queue') : queue'[i] = queue'[j] => i = j
      /\ IsFiniteSet(S)
      /\ Len(queue') = Len(queue) - Cardinality(S)
  BY <1>1, <1>5, <1>6, WithoutTasks
<1>8. /\ size' = size - 1 - Cardinality(stale)
      /\ queued' = queued \ {task[j].m : j \in stale}
      /\ UNCHANGED <<task, results, mode, flags, req, boot, handled>>
      /\ ~Disabled
  BY DEF Get
<1> DEFINE x == [ct[c] EXCEPT !.pc = "start", !.task = k, !.purge = stale]
<1>9. x \in CompilerLocals /\ x.pc = "start" /\ x.task = k /\ x.purge = stale
  BY <1>1 DEF CompilerLocals
<1>10. ct' = [ct EXCEPT ![c] = x]
  BY DEF Get
<1> HIDE DEF x
<1>11. /\ ct' \in [Compilers -> CompilerLocals]
       /\ ct'[c].pc = "start" /\ ct'[c].task = k /\ ct'[c].purge = stale
       /\ \A d \in Compilers : d # c => ct'[d] = ct[d]
  BY <1>1, <1>9, <1>10
<1>12. size' \in Nat /\ SizeCounts'
  <2>1. IsFiniteSet(stale)
    BY <1>4, <1>7, FS_Subset
  <2>2. Cardinality(S) = Cardinality(stale) + 1
    BY <1>3, <1>4, <2>1, FS_AddElement
  <2>3. Cardinality(stale) \in Nat /\ Len(queue) \in Nat /\ Len(queue') \in Nat
    BY <2>1, <1>1, <1>7, FS_CardinalityType
  <2>4. size = Len(queue)
    BY <1>8 DEF IInv, SizeCounts
  <2>5. size' = Len(queue')
    BY <2>2, <2>3, <2>4, <1>7, <1>8
  <2> QED
    BY <2>3, <2>5 DEF SizeCounts
<1>13. TypeOK'
  <2>1. queued' \subseteq Methods
    BY <1>8, Types DEF IInv
  <2> QED
    BY <2>1, <1>7, <1>8, <1>11, <1>12 DEF IInv, TypeOK
<1>14. KeepsTasks /\ KeepsRequests /\ KeepsWaiters /\ StaysDisabled
  BY <1>8 DEF KeepsTasks, KeepsTask, KeepsRequests, KeepsRequest, KeepsWaiters,
              StaysDisabled, Disabled
<1>15. LockHeld'
  BY <1>8, <1>14, FreeKept, LockKept DEF IInv
<1>16. RequestsSound'
  BY <1>14, RequestsKept DEF IInv
<1>17. CompilersSound'
  BY <1>8, <1>11 DEF IInv, CompilersSound, CompilerSound
<1>18. \A j : InQueue(j)' <=> InQueue(j) /\ j # k /\ j \notin stale
  BY <1>4, <1>7 DEF InQueue
<1>19. /\ \A j : Holds(c, j)' <=> j = k \/ j \in stale
       /\ \A d \in Compilers : d # c => \A j : Holds(d, j)' <=> Holds(d, j)
       /\ \A j \in Tasks : ~Holds(c, j)
  BY <1>2, <1>11, Consts DEF Holds
<1>20. InQueue(k) /\ \A j \in stale : InQueue(j)
  BY <1>3 DEF InQueue
<1>21. PlacesExclusive'
  <2>1. \A d \in Compilers : ct'[d].task \notin ct'[d].purge
    BY <1>3, <1>11 DEF IInv, PlacesExclusive
  <2>2. \A j \in Tasks : \A d \in Compilers : Holds(d, j)' => ~InQueue(j)'
    BY <1>18, <1>19 DEF IInv, PlacesExclusive
  <2>3. ASSUME NEW j \in Tasks, NEW d \in Compilers, NEW e \in Compilers,
               Holds(d, j)', Holds(e, j)'
        PROVE  d = e
    <3>1. CASE d # c /\ e # c
      BY <3>1, <2>3, <1>19 DEF IInv, PlacesExclusive
    <3>2. Holds(c, j)' => \A f \in Compilers : f # c => ~Holds(f, j)'
      BY <1>19, <1>20 DEF IInv, PlacesExclusive
    <3> QED
      BY <3>1, <3>2, <2>3
  <2> QED
    BY <2>1, <2>2, <2>3, <1>7 DEF PlacesExclusive
<1>22. \A j \in Tasks : InQueue(j)' \/ AtCompiler(j)' <=> InQueue(j) \/ AtCompiler(j)
  <2>1. ASSUME NEW j \in Tasks PROVE AtCompiler(j)' <=> AtCompiler(j) \/ j = k \/ j \in stale
    BY <1>2, <1>11, Consts DEF AtCompiler
  <2> QED
    BY <2>1, <1>18, <1>20
<1>23. PlacedInUse' /\ OthersDone'
  BY <1>8, <1>22 DEF IInv, PlacedInUse, OthersDone, Disabled
<1>24. WaiterKnown'
  BY <1>8 DEF IInv, WaiterKnown, Awaited, Disabled
<1>25. stale \subseteq Pending
  BY <1>20 DEF Pending
<1>26. Pending' = Pending \ stale
  <2>1. ASSUME NEW j \in Pending' PROVE j \in Pending \ stale
    <3>1. j \in Tasks
      BY <2>1 DEF Pending
    <3>2. CASE InQueue(j)'
      BY <3>1, <3>2, <1>18 DEF Pending
    <3>3. CASE j = k
      BY <3>1, <3>3, <1>3, <1>20 DEF Pending
    <3>4. CASE \E d \in Compilers : d # c /\ ct'[d].task = j /\ ct'[d].pc \in Working
      <4>1. PICK d \in Compilers : d # c /\ ct[d].task = j /\ ct[d].pc \in Working
        BY <3>4, <1>11
      <4>2. Holds(d, j)
        BY <4>1 DEF Holds
      <4>3. ~InQueue(j)
        BY <4>2, <3>1 DEF IInv, PlacesExclusive
      <4> QED
        BY <3>1, <4>1, <4>3, <1>20 DEF Pending, Working
    <3> QED
      BY <2>1, <3>2, <3>3, <3>4, <1>11 DEF Pending, Working
  <2>2. ASSUME NEW j \in Pending \ stale PROVE j \in Pending'
    <3>1. j \in Tasks
      BY <2>2 DEF Pending
    <3>2. CASE j = k
      BY <3>1, <3>2, <1>11 DEF Pending
    <3>3. CASE InQueue(j) /\ j # k
      BY <3>1, <3>3, <2>2, <1>18 DEF Pending
    <3>4. CASE \E d \in Compilers : ct[d].task = j /\ ct[d].pc \in Working
      <4>1. PICK d \in Compilers : d # c /\ ct[d].task = j /\ ct[d].pc \in Working
        BY <3>4, <1>2 DEF Working
      <4>2. ct'[d] = ct[d]
        BY <4>1, <1>11
      <4> QED
        BY <3>1, <4>1, <4>2 DEF Pending, Working
    <3> QED
      BY <2>2, <3>2, <3>3, <3>4 DEF Pending, Working
  <2> QED
    BY <2>1, <2>2
<1>28. PendingQueued' /\ OneTaskPerMethod' /\ QueuedWillBeCleared'
  BY <1>8, <1>14, <1>18, <1>25, <1>26, BitsKept DEF IInv
<1> QED
  BY <1>12, <1>13, <1>15, <1>16, <1>17, <1>21, <1>23, <1>24, <1>28 DEF IInv

\* ~CompileTaskWrapper: c gives task k away
LEMMA CompletesTask ==
  ASSUME IInv, NEW c \in Compilers, NEW k \in Tasks, Holds(c, k), k \notin Pending,
         task' = [task EXCEPT ![k] = Completed(k)],
         ct' \in [Compilers -> CompilerLocals],
         \A d \in Compilers : d # c => ct'[d] = ct[d],
         \A j \in Tasks : Holds(c, j)' <=> Holds(c, j) /\ j # k,
         ct'[c].task \notin ct'[c].purge, CompilerSound(c)', Pending' = Pending,
         UNCHANGED <<queue, size, queued, results, mode, flags, req, boot, handled>>
  PROVE  IInv'
<1>1. task \in [Tasks -> TaskObjects] /\ task[k] \in TaskObjects
  BY Types DEF IInv
<1>2. PICK x : x = Completed(k)
  OBVIOUS
<1>3. AtCompiler(k) /\ ~InQueue(k) /\ ~task[k].free
  <2>1. AtCompiler(k)
    BY AtCompilerHolds
  <2> QED
    BY <2>1 DEF IInv, PlacesExclusive, PlacedInUse
<1>4. x \in TaskObjects
  BY <1>1, <1>2, InitialRecords DEF Completed, TaskObjects
<1>5. \/ /\ task[k].blocking /\ task[k].waiter
         /\ ~x.free /\ x.blocking /\ x.waiter /\ x.complete
      \/ /\ ~(task[k].blocking /\ task[k].waiter)
         /\ x.free
  <2>1. CASE task[k].blocking /\ task[k].waiter
    <3>1. x = [task[k] EXCEPT !.complete = TRUE, !.by = NoThread]
      BY <2>1, <1>2 DEF Completed
    <3>2. x.free = task[k].free /\ x.blocking = task[k].blocking /\ x.waiter = task[k].waiter
          /\ x.complete
      BY <3>1, <1>1 DEF TaskObjects
    <3> QED
      BY <3>2, <2>1, <1>3
  <2>2. CASE ~(task[k].blocking /\ task[k].waiter)
    BY <2>2, <1>2 DEF Completed, freeTask
  <2> QED
    BY <2>1, <2>2
<1>6. /\ task' \in [Tasks -> TaskObjects] /\ task'[k] = x
      /\ \A j \in Tasks : j # k => task'[j] = task[j]
  BY <1>1, <1>2, <1>4
<1>7. KeepsRequests /\ KeepsWaiters /\ StaysDisabled
  BY DEF KeepsRequests, KeepsRequest, KeepsWaiters, StaysDisabled, Disabled
<1>8. TypeOK'
  BY <1>6 DEF IInv, TypeOK
<1>9. LockHeld'
  <2>1. FreeTasks \subseteq FreeTasks'
    BY <1>3, <1>6 DEF FreeTasks
  <2> QED
    BY <2>1, LockKept DEF IInv
<1>10. RequestsSound'
  BY <1>7, RequestsKept DEF IInv
<1>11. CompilersSound'
  BY DEF IInv, CompilersSound, CompilerSound
<1>12. \A j : InQueue(j)' <=> InQueue(j)
  BY DEF InQueue
<1>13. \A d \in Compilers : d # c => \A j : Holds(d, j)' <=> Holds(d, j)
  BY DEF Holds
<1>14. \A d \in Compilers : d # c => ~Holds(d, k)
  BY DEF IInv, PlacesExclusive
<1>15. PlacesExclusive'
  <2>1. \A d \in Compilers : \A j \in Tasks : Holds(d, j)' => Holds(d, j)
    BY <1>13
  <2>2. \A d \in Compilers : ct'[d].task \notin ct'[d].purge
    BY DEF IInv, PlacesExclusive
  <2>3. \A i, j \in 1..Len(queue') : queue'[i] = queue'[j] => i = j
    BY DEF IInv, PlacesExclusive
  <2>4. \A j \in Tasks : \A d \in Compilers : Holds(d, j)' => ~InQueue(j)'
    BY <2>1, <1>12 DEF IInv, PlacesExclusive
  <2>5. \A j \in Tasks : \A d, e \in Compilers : Holds(d, j)' /\ Holds(e, j)' => d = e
    BY <2>1 DEF IInv, PlacesExclusive
  <2> QED
    BY <2>2, <2>3, <2>4, <2>5 DEF PlacesExclusive
<1>16. \A j \in Tasks : AtCompiler(j)' <=> AtCompiler(j) /\ j # k
  <2>1. \A j : AtCompiler(j)' <=> \E d \in Compilers : Holds(d, j)'
    BY DEF AtCompiler, Holds
  <2> QED
    BY <2>1, <1>13, <1>14, AtCompilerHolds
<1>17. PlacedInUse'
  BY <1>3, <1>6, <1>12, <1>16 DEF IInv, PlacedInUse
<1>18. OthersDone'
  <2> SUFFICES ASSUME ~Disabled', NEW j \in Tasks,
                      ~task'[j].free, ~InQueue(j), ~AtCompiler(j)'
               PROVE  task'[j].complete /\ task'[j].blocking /\ task'[j].waiter
    BY <1>12 DEF OthersDone
  <2>1. CASE j = k
    BY <2>1, <1>5, <1>6
  <2>2. CASE j # k
    BY <2>2, <1>6, <1>7, <1>16 DEF IInv, OthersDone, StaysDisabled
  <2> QED
    BY <2>1, <2>2
<1>19. WaiterKnown'
  <2> SUFFICES ASSUME ~Disabled' PROVE WaiterKnown'
    BY DEF WaiterKnown
  <2>1. ~Disabled
    BY <1>7 DEF StaysDisabled
  <2>2. \A j : Awaited(j)' <=> Awaited(j)
    BY <1>7, AwaitedFrame
  <2>3. ASSUME NEW j \in Tasks
        PROVE  Awaited(j)' <=> ~task'[j].free /\ task'[j].blocking /\ task'[j].waiter
    <3>1. Awaited(j) <=> ~task[j].free /\ task[j].blocking /\ task[j].waiter
      BY <2>1 DEF IInv, WaiterKnown
    <3>2. CASE j = k
      <4>1. Awaited(k) <=> task[k].blocking /\ task[k].waiter
        BY <3>1, <3>2, <1>3, Zenon
      <4>2. (~task'[k].free /\ task'[k].blocking /\ task'[k].waiter)
              <=> (task[k].blocking /\ task[k].waiter)
        BY <1>5, <1>6, Zenon
      <4> QED
        BY <3>2, <4>1, <4>2, <2>2, Zenon
    <3>3. CASE j # k
      <4>1. task'[j] = task[j]
        BY <3>3, <1>6
      <4> QED
        BY <3>1, <4>1, <2>2, Zenon
    <3> QED
      BY <3>2, <3>3
  <2>4. \A u, v \in Requesters : req'[u].task # NoTask /\ req'[u].task = req'[v].task => u = v
    BY <2>1 DEF IInv, WaiterKnown
  <2> QED
    BY <2>3, <2>4 DEF WaiterKnown
<1>20. \A j \in Pending : task'[j].m = task[j].m /\ task'[j].osr = task[j].osr
  BY <1>6 DEF Pending
<1>22. PendingQueued' /\ OneTaskPerMethod' /\ QueuedWillBeCleared'
  BY <1>7, <1>12, <1>20, BitsSame DEF IInv
<1>23. SizeCounts'
  BY DEF IInv, SizeCounts, Disabled
<1> QED
  BY <1>8, <1>9, <1>10, <1>11, <1>15, <1>17, <1>18, <1>19, <1>22, <1>23 DEF IInv

LEMMA PurgeStaleStep ==
  ASSUME IInv, NEW c \in Compilers, NEW k \in Tasks, PurgeStale(c, k)
  PROVE  IInv'
<1>1. ct \in [Compilers -> CompilerLocals] /\ ct[c] \in CompilerLocals
  BY Types DEF IInv
<1>2. ct[c].pc = "start" /\ k \in ct[c].purge /\ Holds(c, k)
  BY DEF PurgeStale, Holds
<1> DEFINE x == [ct[c] EXCEPT !.purge = @ \ {k}]
<1>3. x \in CompilerLocals /\ x.pc = ct[c].pc /\ x.task = ct[c].task /\ x.purge = ct[c].purge \ {k}
  BY <1>1 DEF CompilerLocals
<1>4. ct' = [ct EXCEPT ![c] = x] /\ task' = [task EXCEPT ![k] = Completed(k)]
  BY DEF PurgeStale
<1> HIDE DEF x
<1>5. /\ ct' \in [Compilers -> CompilerLocals] /\ ct'[c] = x
      /\ \A d \in Compilers : d # c => ct'[d] = ct[d]
  BY <1>1, <1>3, <1>4
<1>6. ct[c].task # k /\ ct[c].task \notin ct[c].purge
  BY <1>2 DEF IInv, PlacesExclusive
<1>7. k \notin Pending
  <2>1. ~InQueue(k)
    BY <1>2 DEF IInv, PlacesExclusive
  <2>2. ASSUME NEW d \in Compilers, ct[d].task = k PROVE FALSE
    <3>1. Holds(d, k)
      BY <2>2 DEF Holds
    <3>2. d = c
      BY <3>1, <1>2 DEF IInv, PlacesExclusive
    <3> QED
      BY <3>2, <2>2, <1>6
  <2> QED
    BY <2>1, <2>2 DEF Pending
<1>8. \A j \in Tasks : Holds(c, j)' <=> Holds(c, j) /\ j # k
  BY <1>3, <1>5, <1>6 DEF Holds
<1>9. CompilerSound(c)' /\ ct'[c].task \notin ct'[c].purge
  BY <1>2, <1>3, <1>5, <1>6 DEF IInv, CompilersSound, CompilerSound
<1>10. UNCHANGED <<queue, size, queued, results, mode, flags, req, boot, handled>>
  BY DEF PurgeStale
<1>11. Pending' = Pending
  <2>1. \A d \in Compilers : ct'[d].task = ct[d].task /\ ct'[d].pc = ct[d].pc
    BY <1>3, <1>5
  <2>2. \A j : InQueue(j)' <=> InQueue(j)
    BY <1>10 DEF InQueue
  <2> QED
    BY <2>1, <2>2 DEF Pending
<1> QED
  BY <1>2, <1>4, <1>5, <1>7, <1>8, <1>9, <1>10, <1>11, CompletesTask

LEMMA CompleteTaskStep ==
  ASSUME IInv, NEW c \in Compilers, CompleteTask(c)
  PROVE  IInv'
<1>1. ct \in [Compilers -> CompilerLocals] /\ ct[c].pc = "complete"
  BY Types DEF IInv, CompleteTask
<1>2. ct[c].purge = {} /\ ct[c].task \in Tasks
  BY <1>1 DEF IInv, CompilersSound, CompilerSound
<1>3. PICK k \in Tasks : k = ct[c].task /\ Holds(c, k)
  BY <1>2 DEF Holds
<1>4. looping \in CompilerLocals /\ looping.pc = "loop" /\ looping.task = NoTask
      /\ looping.purge = {}
  BY InitialRecords DEF looping
<1>5. ct' = [ct EXCEPT ![c] = looping] /\ task' = [task EXCEPT ![k] = Completed(k)]
  BY <1>3 DEF CompleteTask
<1>6. /\ ct' \in [Compilers -> CompilerLocals] /\ ct'[c] = looping
      /\ \A d \in Compilers : d # c => ct'[d] = ct[d]
  BY <1>1, <1>4, <1>5
<1>7. k \notin Pending
  <2>1. ~InQueue(k)
    BY <1>3 DEF IInv, PlacesExclusive
  <2>2. ASSUME NEW d \in Compilers, ct[d].task = k PROVE d = c
    <3>1. Holds(d, k)
      BY <2>2 DEF Holds
    <3> QED
      BY <3>1, <1>3 DEF IInv, PlacesExclusive
  <2> QED
    BY <2>1, <2>2, <1>1 DEF Pending
<1>8. \A j \in Tasks : Holds(c, j)' <=> Holds(c, j) /\ j # k
  BY <1>2, <1>3, <1>4, <1>6, Consts DEF Holds
<1>9. CompilerSound(c)' /\ ct'[c].task \notin ct'[c].purge
  BY <1>4, <1>6 DEF CompilerSound
<1>10. UNCHANGED <<queue, size, queued, results, mode, flags, req, boot, handled>>
  BY DEF CompleteTask
<1>11. Pending' = Pending
  <2>1. \A j : InQueue(j)' <=> InQueue(j)
    BY <1>10 DEF InQueue
  <2> QED
    BY <2>1, <1>1, <1>4, <1>6 DEF Pending
<1> QED
  BY <1>3, <1>5, <1>6, <1>7, <1>8, <1>9, <1>10, <1>11, CompletesTask

-----------------------------------------------------------------------------
(* The code cache, and shutdown                                            *)

LEMMA ModeStep ==
  ASSUME IInv, \/ \E c \in Compilers : FullCodeCache(c)
               \/ Resume
               \/ \E r \in Methods \X BOOLEAN : Deoptimize(r) \/ PublishResult(r)
  PROVE  IInv'
<1>1. UNCHANGED <<task, queue, size, queued, flags, ct, req, boot, handled>>
  BY DEF FullCodeCache, Resume, Deoptimize, PublishResult
<1>2. results' \subseteq Methods \X BOOLEAN
  BY Types DEF IInv, FullCodeCache, Resume, Deoptimize, PublishResult
<1>3. mode' \in {"run", "stop", "shutdown"} /\ (mode = "shutdown" => mode' = "shutdown")
  BY Types DEF IInv, FullCodeCache, Resume, Deoptimize, PublishResult
<1>4. /\ KeepsPlaces /\ KeepsTasks /\ KeepsWaiters /\ KeepsRequests /\ StaysDisabled
  BY <1>1, <1>3 DEF KeepsPlaces, KeepsTasks, KeepsTask, KeepsWaiters, KeepsRequests,
                    KeepsRequest, StaysDisabled, Disabled
<1>5. PlacesExclusive' /\ PlacedInUse' /\ OthersDone' /\ WaiterKnown'
  BY <1>4, Quiet DEF IInv
<1>6. TypeOK'
  BY <1>1, <1>2, <1>3 DEF IInv, TypeOK
<1>7. LockHeld' /\ RequestsSound'
  BY <1>1, <1>4, FreeKept, LockKept, RequestsKept DEF IInv
<1>8. CompilersSound'
  BY <1>1 DEF IInv, CompilersSound, CompilerSound
<1>9. SizeCounts'
  BY <1>1, <1>4 DEF IInv, SizeCounts, StaysDisabled
<1>10. Pending' = Pending
  BY <1>1, <1>4, PendingKept
<1>13. PendingQueued' /\ OneTaskPerMethod' /\ QueuedWillBeCleared'
  BY <1>1, <1>4, <1>10, BitsSame DEF IInv
<1> QED
  BY <1>5, <1>6, <1>7, <1>8, <1>9, <1>13 DEF IInv

\* free_all recycles the tasks of the queue
LEMMA ShutDownStep ==
  ASSUME IInv, NEW c \in Compilers, ShutDown(c)
  PROVE  IInv'
<1>1. Disabled /\ ct[c].pc = "loop" /\ ct[c].task = NoTask /\ ct[c].purge = {} /\ TypeOK
  BY DEF ShutDown, IInv, CompilersSound, CompilerSound
<1>2. Moves(c, "exited")
  BY <1>1, MovesTo DEF ShutDown
<1>3. UNCHANGED <<size, queued, results, mode, flags, req, boot, handled>>
  BY DEF ShutDown
<1>4. \/ task' = [k \in Tasks |-> IF k \in ToSet(queue) THEN freeTask ELSE task[k]] /\ queue' = <<>>
      \/ task' = task /\ queue' = queue
  BY DEF ShutDown
<1>5. task \in [Tasks -> TaskObjects] /\ freeTask \in TaskObjects /\ freeTask.free
  BY Types, InitialRecords DEF IInv, freeTask
<1>6. /\ task' \in [Tasks -> TaskObjects] /\ queue' \in Seq(Tasks)
      /\ \A k \in Tasks : ~InQueue(k) => task'[k] = task[k]
      /\ \A k \in Tasks : task[k].free => task'[k].free
  <2>1. queue \in Seq(Tasks)
    BY Types DEF IInv
  <2>2. CASE task' = task /\ queue' = queue
    BY <2>1, <2>2, <1>5
  <2>3. CASE task' = [k \in Tasks |-> IF k \in ToSet(queue) THEN freeTask ELSE task[k]]
             /\ queue' = <<>>
    <3>1. \A k \in Tasks : task'[k] = IF k \in ToSet(queue) THEN freeTask ELSE task[k]
      BY <2>3
    <3>2. task' \in [Tasks -> TaskObjects] /\ queue' \in Seq(Tasks)
      BY <2>3, <1>5
    <3> QED
      BY <3>1, <3>2, <1>5 DEF InQueue
  <2> QED
    BY <1>4, <2>2, <2>3
<1>7. /\ \A k : InQueue(k)' => InQueue(k)
      /\ (\A k : ~InQueue(k)') \/ (queue' = queue /\ task' = task)
  BY <1>4 DEF InQueue, ToSet
<1>8. /\ \A d \in Compilers : \A k : Holds(d, k)' <=> Holds(d, k)
      /\ \A k : AtCompiler(k)' <=> AtCompiler(k)
  BY <1>2 DEF Moves, Holds, AtCompiler
<1>9. Disabled'
  BY <1>1, <1>3 DEF Disabled
<1>10. TypeOK'
  BY <1>2, <1>3, <1>6 DEF IInv, TypeOK, Moves
<1>11. KeepsRequests /\ StaysDisabled
  BY <1>3, <1>9 DEF KeepsRequests, KeepsRequest, StaysDisabled
<1>12. LockHeld' /\ RequestsSound'
  <2>1. FreeTasks \subseteq FreeTasks'
    BY <1>6 DEF FreeTasks
  <2> QED
    BY <2>1, <1>3, <1>11, LockKept, RequestsKept DEF IInv
<1>13. CompilersSound'
  BY <1>1, <1>2, <1>3 DEF IInv, CompilersSound, CompilerSound, Moves
<1>14. PlacesExclusive'
  <2>1. \A i, j \in 1..Len(queue') : queue'[i] = queue'[j] => i = j
    BY <1>4 DEF IInv, PlacesExclusive
  <2>2. \A d \in Compilers : ct'[d].task \notin ct'[d].purge
    BY <1>2 DEF IInv, PlacesExclusive, Moves
  <2>3. \A k \in Tasks : \A d \in Compilers : Holds(d, k)' => ~InQueue(k)'
    BY <1>7, <1>8 DEF IInv, PlacesExclusive
  <2>4. \A k \in Tasks : \A d, e \in Compilers : Holds(d, k)' /\ Holds(e, k)' => d = e
    BY <1>8 DEF IInv, PlacesExclusive
  <2> QED
    BY <2>1, <2>2, <2>3, <2>4 DEF PlacesExclusive
<1>15. PlacedInUse'
  <2>1. ASSUME NEW k \in Tasks, InQueue(k)' \/ AtCompiler(k)'
        PROVE  task'[k] = task[k] /\ (InQueue(k) \/ AtCompiler(k))
    <3>1. AtCompiler(k) => ~InQueue(k)
      BY AtCompilerHolds DEF IInv, PlacesExclusive
    <3> QED
      BY <2>1, <3>1, <1>6, <1>7, <1>8
  <2> QED
    BY <2>1 DEF IInv, PlacedInUse
<1>16. OthersDone' /\ WaiterKnown' /\ SizeCounts'
  BY <1>9 DEF OthersDone, WaiterKnown, SizeCounts
<1>17. PICK D : D = Pending \ Pending'
  OBVIOUS
<1>18. \A k \in Pending' : k \in Pending /\ k \in Tasks /\ task'[k] = task[k]
  <2>1. ASSUME NEW k \in Pending' PROVE k \in Pending /\ k \in Tasks /\ task'[k] = task[k]
    <3>1. k \in Tasks
      BY <2>1 DEF Pending
    <3>2. CASE InQueue(k)'
      BY <3>1, <3>2, <1>7 DEF Pending
    <3>3. CASE \E d \in Compilers : ct'[d].task = k /\ ct'[d].pc \in Working
      <4>1. PICK d \in Compilers : ct[d].task = k /\ ct[d].pc \in Working
        BY <3>3, <1>1, <1>2 DEF Moves, Working
      <4>2. Holds(d, k)
        BY <4>1 DEF Holds
      <4>3. ~InQueue(k)
        BY <3>1, <4>2 DEF IInv, PlacesExclusive
      <4> QED
        BY <3>1, <4>1, <4>3, <1>6 DEF Pending, Working
    <3> QED
      BY <2>1, <3>2, <3>3 DEF Pending, Working
  <2> QED
    BY <2>1
<1>19. D \subseteq Pending /\ Pending' = Pending \ D
  BY <1>17, <1>18
<1>21. PendingQueued' /\ OneTaskPerMethod' /\ QueuedWillBeCleared'
  BY <1>1, <1>3, <1>7, <1>11, <1>18, <1>19, BitsKept DEF IInv
<1> QED
  BY <1>10, <1>12, <1>13, <1>14, <1>15, <1>16, <1>21 DEF IInv

-----------------------------------------------------------------------------
(* Theorems                                                                *)

LEMMA Initially == Init => IInv
<1> SUFFICES ASSUME Init PROVE IInv
  OBVIOUS
<1>1. /\ \A k \in Tasks : task[k] = freeTask
      /\ \A c \in Compilers : ct[c] = looping
      /\ \A t \in Threads : req[t] = noRequest
      /\ queue = <<>> /\ size = 0 /\ queued = {} /\ results = {} /\ mode = "run"
  BY DEF Init
<1>2. /\ freeTask.free /\ ~freeTask.blocking /\ ~freeTask.complete
      /\ looping.pc = "loop" /\ looping.task = NoTask /\ looping.purge = {}
      /\ noRequest.pc = "idle" /\ noRequest.task = NoTask
  BY DEF freeTask, looping, noRequest
<1>3. TypeOK
  <2>1. /\ task \in [Tasks -> TaskObjects] /\ ct \in [Compilers -> CompilerLocals]
        /\ req \in [Threads -> RequestLocals]
    BY InitialRecords DEF Init
  <2>2. boot \in [pc : {"enqueue", "sleep", "check", "done"}, todo : SUBSET BootMethods,
                  qsize : Nat]
    BY DEF Init
  <2>3. /\ queue \in Seq(Tasks) /\ size \in Nat /\ queued \subseteq Methods
        /\ results \subseteq Methods \X BOOLEAN /\ mode \in {"run", "stop", "shutdown"}
    BY <1>1
  <2>4. flags \in CommandLines /\ handled \in BOOLEAN
    BY Zenon DEF Init
  <2> QED
    BY <2>1, <2>2, <2>3, <2>4 DEF TypeOK
<1>4. /\ \A k \in Tasks : ~InQueue(k)
      /\ \A k \in Tasks : ~AtCompiler(k)
      /\ \A k \in Tasks : ~Awaited(k)
  BY <1>1, <1>2, Consts DEF InQueue, AtCompiler, Awaited, ToSet
<1>5. Pending = {}
  BY <1>1, <1>2, <1>4 DEF Pending
<1>6. LockHeld /\ RequestsSound /\ CompilersSound
  BY <1>1, <1>2, Consts DEF LockHeld, RequestsSound, RequestSound, CompilersSound, CompilerSound
<1>7. PlacesExclusive
  <2>1. \A i, j \in 1..Len(queue) : queue[i] = queue[j] => i = j
    BY <1>1
  <2>2. \A c \in Compilers : ct[c].task \notin ct[c].purge
    BY <1>1, <1>2
  <2>3. \A k \in Tasks : \A c \in Compilers : ~Holds(c, k)
    BY <1>4, AtCompilerHolds
  <2> QED
    BY <2>1, <2>2, <2>3 DEF PlacesExclusive
<1>8. PlacedInUse /\ OthersDone /\ WaiterKnown
  BY <1>1, <1>2, <1>4, Consts DEF PlacedInUse, OthersDone, WaiterKnown
<1>9. PendingQueued /\ OneTaskPerMethod /\ QueuedWillBeCleared
  BY <1>1, <1>4, <1>5 DEF PendingQueued, OneTaskPerMethod,
                          QueuedWillBeCleared, QueuedHasTask
<1>10. SizeCounts
  BY <1>1 DEF SizeCounts
<1> QED
  BY <1>3, <1>6, <1>7, <1>8, <1>9, <1>10 DEF IInv

LEMMA Inductive == IInv /\ [Next]_vars => IInv'
<1> SUFFICES ASSUME IInv, [Next]_vars PROVE IInv'
  OBVIOUS
<1>1. ASSUME NEW t \in Threads, Request(t) PROVE IInv'
  BY <1>1, CompileMethodStep, ReadQueuedStep, AddTaskStep DEF Request
<1>2. ASSUME NEW r \in Requesters, Wait(r) PROVE IInv'
  BY <1>2, WaitTimeoutStep, WaitDoneStep DEF Wait
<1>3. ASSUME NEW c \in Compilers, Work(c) PROVE IInv'
  BY <1>3, GetStep, PurgeStaleStep, StartTaskStep, BlockStep, ClearQueuedStep,
     CompleteTaskStep, ShutDownStep DEF Work
<1>4. ASSUME NEW c \in Compilers, \E r \in Requesters : Block(c, r) PROVE IInv'
  BY <1>4, BlockStep
<1>5. ASSUME NEW c \in Compilers, NEW o \in Outcomes, Compile(c, o) PROVE IInv'
  BY <1>5, CompileStep
<1>6. ASSUME \/ \E c \in Compilers : FullCodeCache(c)
             \/ Resume
             \/ \E r \in Methods \X BOOLEAN : Deoptimize(r) \/ PublishResult(r)
      PROVE  IInv'
  BY <1>6, ModeStep
<1>7. ASSUME Bootstrap PROVE IInv'
  BY <1>7, BootRequestStep, BootPollStep DEF Bootstrap
<1>8. ASSUME UNCHANGED vars PROVE IInv'
  <2>1. boot' \in BootLocals
    BY <1>8, BootType DEF IInv, vars
  <2> QED
    BY <1>8, <2>1, NothingMoves DEF vars
<1> QED
  BY <1>1, <1>2, <1>3, <1>4, <1>5, <1>6, <1>7, <1>8 DEF Next

\* The invariant holds of every state that the compile broker reaches
THEOREM Invariance == Spec => []IInv
BY Initially, Inductive, PTL DEF Spec

\* No variable leaves its type: CompileQueue::_size does not underflow
THEOREM TypeCorrect == Spec => []TypeOK
<1>1. IInv => TypeOK
  BY DEF IInv
<1> QED
  BY <1>1, Invariance, PTL

\* Whichever of a waiter's time-out and the completion comes first, a CompileTask
\* is recycled when nobody will use it any more, and not before
THEOREM RecyclingSafe == Spec => []TaskRecycledOnce
<1>1. IInv => TaskRecycledOnce
  <2> SUFFICES ASSUME IInv, NEW k \in Tasks
               PROVE  IF Disabled THEN task[k].free => ~(InQueue(k) \/ AtCompiler(k))
                      ELSE task[k].free <=> ~(InQueue(k) \/ AtCompiler(k) \/ Awaited(k))
    BY DEF TaskRecycledOnce
  <2>1. task[k].free => ~(InQueue(k) \/ AtCompiler(k))
    BY DEF IInv, PlacedInUse
  <2>2. ~Disabled /\ task[k].free => ~Awaited(k)
    BY DEF IInv, WaiterKnown
  <2>3. ~Disabled /\ ~task[k].free => InQueue(k) \/ AtCompiler(k) \/ Awaited(k)
    BY DEF IInv, OthersDone, WaiterKnown
  <2>4. task[k].free \in BOOLEAN
    BY Types, TaskType DEF IInv
  <2> QED
    BY <2>1, <2>2, <2>3, <2>4, Zenon
<1> QED
  BY <1>1, Invariance, PTL

\* A method is never queued or compiled twice at a time, however many threads
\* ask for it, with and without the lock
THEOREM QueuedOnce == Spec => []OneTaskPerMethod
<1>1. IInv => OneTaskPerMethod
  BY DEF IInv
<1> QED
  BY <1>1, Invariance, PTL

\* Without breakpoints, the queued bit is set exactly for methods with a task
THEOREM BitsMatchTasks == Spec => []QueuedWillBeCleared
<1>1. IInv => QueuedWillBeCleared
  BY DEF IInv
<1> QED
  BY <1>1, Invariance, PTL
=============================================================================
