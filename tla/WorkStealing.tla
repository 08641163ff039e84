---------------------------- MODULE WorkStealing ----------------------------
(***************************************************************************)
(* The task queues of parallel garbage collection workers: a queue per     *)
(* worker, from one end of which the owner pushes and pops without a lock  *)
(* while the others steal from the other end; an overflow stack; and the   *)
(* termination protocol, in which a worker without work offers to stop and *)
(* withdraws the offer when it sees work.                                  *)
(*                                                                         *)
(* Every step makes one access that other workers can notice.  The code    *)
(* has a fence between a store and a later load that depends on the order, *)
(* and the loads of pop_global stay in order on the processors on which it *)
(* has none between them.                                                  *)
(***************************************************************************)
EXTENDS Naturals, Sequences, SequencesExt, FiniteSets

CONSTANTS Workers,   \* GC worker threads, each with a queue
          First,     \* the worker that finds the root task
          N,         \* slots of a queue, a power of 2
          TagRange,  \* number of values of the tag
          Phases     \* phases: the active workers, a bound on the tasks, and
                     \* the position at which earlier phases left the queues

ASSUME QueueAssumption ==
    /\ First \in Workers
    /\ IsFiniteSet(Workers)
    /\ N \in Nat /\ N > 3
    /\ TagRange \in Nat \ {0}
    /\ Phases \subseteq [active : {S \in SUBSET Workers : First \in S},
                          tasks : Nat \ {0}, start : 0..(N - 1)]

\* A phase has at most half as many tasks as there are tags: 2^31 where an age
\* has 64 bits, 2^15 where it has 32
TagsSuffice == \A p \in Phases : 2 * p.tasks <= TagRange

NoTask == 0
Slots == 0..(N - 1)

VARIABLES
    phase,     \* the phase
    bottom,    \* per queue: _bottom
    age,       \* per queue: _age, top and tag in one word
    elems,     \* per queue: _elems
    overflow,  \* per queue: _overflow_stack
    offered,   \* _offered_termination
    created,   \* number of tasks that exist
    done,      \* how often each task was processed
    wk         \* per worker: program counter and locals

vars == <<phase, bottom, age, elems, overflow, offered, created, done, wk>>
queues == <<phase, bottom, age, elems, overflow>>
work == <<created, done>>

\* Tasks of the phase, and the workers that take part in it
Tasks == 1..phase.tasks
Active == phase.active

-----------------------------------------------------------------------------
(* TaskQueueSuper: indices modulo N                                        *)

increment_index(i) == (i + 1) % N
decrement_index(i) == (i + N - 1) % N
dirty_size(bot, top) == (bot + N - top) % N

\* Bottom one below top means an empty queue
size(bot, top) == IF dirty_size(bot, top) = N - 1 THEN 0 ELSE dirty_size(bot, top)

max_elems == N - 2

\* Age::increment
increment(a) == [top |-> increment_index(a.top),
                 tag |-> IF increment_index(a.top) = 0 THEN (a.tag + 1) % TagRange
                         ELSE a.tag]

-----------------------------------------------------------------------------
noAge == [top |-> 0, tag |-> 0]

\* task: the one popped or stolen, or being pushed; bot, old: localBot and
\* oldAge; from: the queue it steals from; unseen: queues still to peek into
starting == [pc |-> "drain", task |-> NoTask, bot |-> 0,
             old |-> noAge, from |-> First, unseen |-> {}]

Init ==
    /\ phase \in Phases
    /\ bottom = [w \in Workers |-> phase.start]
    /\ age = [w \in Workers |-> [top |-> phase.start, tag |-> 0]]
    /\ elems = [w \in Workers |-> [i \in Slots |-> NoTask]]
    /\ overflow = [w \in Workers |-> <<>>]
    /\ offered = 0
    /\ created = 1
    /\ done = [t \in Tasks |-> 0]
    /\ wk = [w \in Workers |-> IF w = First
                               THEN [starting EXCEPT !.pc = "process", !.task = 1]
                               ELSE starting]

At(w, l) == wk[w].pc = l
Goto(w, l) == wk' = [wk EXCEPT ![w].pc = l]

\* The worker has task t to process
Claim(w, t) == wk' = [wk EXCEPT ![w] = [starting EXCEPT !.pc = "process", !.task = t]]

\* The locals of a pop or a steal that failed are dead
Continue(w, l) == wk' = [wk EXCEPT ![w] = [starting EXCEPT !.pc = l]]

-----------------------------------------------------------------------------
(* Processing a task: GenericTaskQueue::push, OverflowTaskQueue::push      *)

\* Processing finds more work: a task is pushed, on the queue if there is
\* room (a size of N - 1 means empty) and else on the overflow stack
Push(w) ==
    LET n == dirty_size(bottom[w], age[w].top) IN
    /\ At(w, "process")
    /\ created < phase.tasks
    /\ created' = created + 1
    /\ \/ /\ n < max_elems \/ n = N - 1
          /\ elems' = [elems EXCEPT ![w][bottom[w]] = created + 1]
          /\ Goto(w, "pushbottom")
          /\ UNCHANGED overflow
       \/ /\ n = max_elems
          /\ overflow' = [overflow EXCEPT ![w] = <<created + 1>> \o @]
          /\ UNCHANGED <<elems, wk>>
    /\ UNCHANGED <<phase, bottom, age, offered, done>>

\* The element is there before bottom says so
PushBottom(w) ==
    /\ At(w, "pushbottom")
    /\ bottom' = [bottom EXCEPT ![w] = increment_index(@)]
    /\ Goto(w, "process")
    /\ UNCHANGED <<phase, age, elems, overflow, offered, work>>

\* The task is finished, and the worker drains its stacks
Processed(w) ==
    /\ At(w, "process")
    /\ done' = [done EXCEPT ![wk[w].task] = @ + 1]
    /\ Continue(w, "drain")
    /\ UNCHANGED <<queues, offered, created>>

-----------------------------------------------------------------------------
(* drain_stacks_depth: pop_overflow and pop_local, until both stacks are   *)
(* empty.  The inner loops of the code drain one of them at a time; here   *)
(* the worker takes from either, which allows the code's order and others  *)

PopOverflow(w) ==
    /\ At(w, "drain")
    /\ overflow[w] # <<>>
    /\ overflow' = [overflow EXCEPT ![w] = Tail(@)]
    /\ Claim(w, Head(overflow[w]))
    /\ UNCHANGED <<phase, bottom, age, elems, offered, work>>

\* The loop's condition: with work on the overflow stack it goes round again
Drained(w) == IF overflow[w] = <<>> THEN "steal" ELSE "drain"

\* pop_local moves bottom, unless the queue is empty: then it goes stealing if
\* the overflow stack is empty too
PopLocal(w) ==
    /\ At(w, "drain")
    /\ \/ /\ dirty_size(bottom[w], age[w].top) = 0
          /\ overflow[w] = <<>>
          /\ Continue(w, "steal")
          /\ UNCHANGED bottom
       \/ /\ dirty_size(bottom[w], age[w].top) # 0
          /\ bottom' = [bottom EXCEPT ![w] = decrement_index(@)]
          /\ wk' = [wk EXCEPT ![w].pc = "popread", ![w].bot = decrement_index(bottom[w])]
    /\ UNCHANGED <<phase, age, elems, overflow, offered, work>>

\* With another element left no thief can get to this one
PopRead(w) ==
    /\ At(w, "popread")
    /\ IF size(wk[w].bot, age[w].top) > 0
       THEN Claim(w, elems[w][wk[w].bot])
       ELSE wk' = [wk EXCEPT ![w].pc = "popage", ![w].task = elems[w][wk[w].bot]]
    /\ UNCHANGED <<queues, offered, work>>

PopAge(w) ==
    /\ At(w, "popage")
    /\ wk' = [wk EXCEPT ![w].old = age[w],
                        ![w].pc = IF age[w].top = wk[w].bot THEN "popcas" ELSE "popset"]
    /\ UNCHANGED <<queues, offered, work>>

\* Mutant: the tag stays
EmptyAgeSameTag(w) == [top |-> wk[w].bot, tag |-> wk[w].old.tag]

\* The age of the empty queue, with a tag no thief has seen
EmptyAge(w) == [top |-> wk[w].bot, tag |-> (wk[w].old.tag + 1) % TagRange]

\* pop_local_slow: the owner wins the last element ...
PopSlow(w) ==
    /\ At(w, "popcas")
    /\ IF age[w] = wk[w].old
       THEN age' = [age EXCEPT ![w] = EmptyAge(w)] /\ Claim(w, wk[w].task)
       ELSE age' = age /\ Goto(w, "popset")
    /\ UNCHANGED <<phase, bottom, elems, overflow, offered, work>>

\* Mutant: the age is left as the thief made it
PopLostNot(w) ==
    /\ At(w, "popset")
    /\ Continue(w, Drained(w))
    /\ UNCHANGED <<queues, offered, work>>

\* ... or a thief has it, and the owner makes the empty queue canonical
PopLost(w) ==
    /\ At(w, "popset")
    /\ age' = [age EXCEPT ![w] = EmptyAge(w)]
    /\ Continue(w, Drained(w))
    /\ UNCHANGED <<phase, bottom, elems, overflow, offered, work>>

-----------------------------------------------------------------------------
(* steal: pop_global on another worker's queue                             *)

\* steal_best_of_2 takes one of two random queues, by sizes that may be old
StealAge(w) ==
    /\ At(w, "steal")
    /\ \E v \in Workers \ {w} :
          wk' = [wk EXCEPT ![w].pc = "stealbottom", ![w].from = v, ![w].old = age[v]]
    /\ UNCHANGED <<queues, offered, work>>

StealBottom(w) ==
    LET v == wk[w].from IN
    /\ At(w, "stealbottom")
    /\ IF size(bottom[v], wk[w].old.top) = 0
       THEN Continue(w, "steal")
       ELSE Goto(w, "stealread")
    /\ UNCHANGED <<queues, offered, work>>

StealRead(w) ==
    /\ At(w, "stealread")
    /\ wk' = [wk EXCEPT ![w].pc = "stealcas",
                        ![w].task = elems[wk[w].from][wk[w].old.top]]
    /\ UNCHANGED <<queues, offered, work>>

StealCas(w) ==
    LET v == wk[w].from IN
    /\ At(w, "stealcas")
    /\ IF age[v] = wk[w].old
       THEN age' = [age EXCEPT ![v] = increment(@)] /\ Claim(w, wk[w].task)
       ELSE age' = age /\ Continue(w, "steal")
    /\ UNCHANGED <<phase, bottom, elems, overflow, offered, work>>

-----------------------------------------------------------------------------
(* ParallelTaskTerminator::offer_termination                               *)

\* All the attempts to steal have failed
Offer(w) ==
    /\ At(w, "steal")
    /\ offered' = offered + 1
    /\ Continue(w, "check")
    /\ UNCHANGED <<queues, work>>

\* All have offered: it terminates.  Else it looks for work.
CheckOffered(w) ==
    /\ At(w, "check")
    /\ wk' = [wk EXCEPT ![w].pc = IF offered = Cardinality(Active) THEN "done" ELSE "peek",
                        ![w].unseen = IF offered = Cardinality(Active) THEN {} ELSE Workers]
    /\ UNCHANGED <<queues, offered, work>>

\* TaskQueueSet::peek, a queue at a time
Peek(w) ==
    /\ At(w, "peek")
    /\ \/ /\ wk[w].unseen = {}
          /\ Continue(w, "check")
       \/ \E v \in wk[w].unseen :
             IF bottom[v] # age[v].top
             THEN Continue(w, "withdraw")
             ELSE wk' = [wk EXCEPT ![w].unseen = @ \ {v}]
    /\ UNCHANGED <<queues, offered, work>>

\* Mutant: the offer stands while the worker steals
WithdrawNot(w) ==
    /\ At(w, "withdraw")
    /\ Continue(w, "steal")
    /\ UNCHANGED <<queues, offered, work>>

Withdraw(w) ==
    /\ At(w, "withdraw")
    /\ offered' = offered - 1
    /\ Continue(w, "steal")
    /\ UNCHANGED <<queues, work>>

-----------------------------------------------------------------------------
Step(w) == \/ Push(w)
           \/ PushBottom(w)
           \/ Processed(w)
           \/ PopOverflow(w)
           \/ PopLocal(w)
           \/ PopRead(w)
           \/ PopAge(w)
           \/ PopSlow(w)
           \/ PopLost(w)
           \/ StealAge(w)
           \/ StealBottom(w)
           \/ StealRead(w)
           \/ StealCas(w)
           \/ Offer(w)
           \/ CheckOffered(w)
           \/ Peek(w)
           \/ Withdraw(w)

AllDone == \A w \in Active : At(w, "done")

\* The phase is over
Finished == AllDone /\ UNCHANGED vars

Next == Finished \/ \E w \in Active : Step(w)

Spec == Init /\ [][Next]_vars

\* Workers run, and give up stealing after 2 * _n attempts
FairSpec == Spec /\ \A w \in Workers :
    WF_vars(w \in Active /\ Step(w)) /\ SF_vars(w \in Active /\ Offer(w))

-----------------------------------------------------------------------------
(* Properties                                                              *)

\* Every variable has its type
TypeOK ==
    /\ phase \in Phases
    /\ bottom \in [Workers -> Slots]
    /\ age \in [Workers -> [top : Slots, tag : 0..(TagRange - 1)]]
    /\ elems \in [Workers -> [Slots -> Tasks \cup {NoTask}]]
    /\ overflow \in [Workers -> Seq(Tasks)]
    /\ offered \in 0..Cardinality(Active)
    /\ created \in Tasks
    /\ done \in [Tasks -> Nat]
    /\ wk \in [Workers ->
                 [pc : {"drain", "process", "pushbottom", "popread", "popage", "popcas",
                        "popset", "steal", "stealbottom", "stealread", "stealcas",
                        "check", "peek", "withdraw", "done"},
                  task : Tasks \cup {NoTask}, bot : Slots,
                  old : [top : Slots, tag : 0..(TagRange - 1)],
                  from : Workers, unseen : SUBSET Workers]]

\* Tasks that a worker has claimed and not finished
Claimed(w) == IF wk[w].pc \in {"process", "pushbottom"} THEN {wk[w].task} ELSE {}

\* Tasks on w's stacks.  The owner between moving bottom and knowing who
\* gets the element still has it in view.
InQueue(w) ==
    LET n == CASE wk[w].pc \in {"popread", "popage", "popcas"}
                      -> (dirty_size(bottom[w], age[w].top) + 1) % N
               [] wk[w].pc = "popset" -> 0
               [] OTHER -> size(bottom[w], age[w].top)
    IN {elems[w][(age[w].top + i) % N] : i \in 0..(n - 1)}

\* The element that bottom does not cover yet
Pushed(w) == IF At(w, "pushbottom") THEN {elems[w][bottom[w]]} ELSE {}

\* Every task is at one place: on one stack, with one worker, or finished
\* once.  None is lost or processed twice, whatever pops and steals race.
EachTaskOnce ==
    \A t \in Tasks :
        LET places == Cardinality({w \in Workers : t \in InQueue(w)})
                      + Cardinality({w \in Workers : t \in Range(overflow[w])})
                      + Cardinality({w \in Workers : t \in Pushed(w)})
                      + Cardinality({w \in Workers : t \in Claimed(w)})
                      + done[t]
        IN places = IF t <= created THEN 1 ELSE 0

\* A worker leaves the phase only when all the work is done
TerminatesLast ==
    (\E w \in Workers : At(w, "done")) => \A t \in 1..created : done[t] = 1

\* The phase ends
PhaseEnds == <>AllDone
=============================================================================
