------------------------ MODULE ObjectMonitorProofs ------------------------
(***************************************************************************)
(* For every set of threads and every program: a thread is on one list of  *)
(* the monitor at most, a free lock that threads are queued for is not     *)
(* abandoned, an interrupted waiter does not sleep on, and the monitor     *)
(* implements that of the Java language.                                   *)
(***************************************************************************)
EXTENDS ObjectMonitor, FiniteSetTheorems, TLAPS

USE MonitorAssumption

-----------------------------------------------------------------------------
(* The inductive invariant: who owns the lock                              *)

InsidePlaces == {"owns", "iex", "wait", "notifylink"}
Holding == Acquired \cup {"fastexit", "drop10", "dropsucc", "exit", "drop", "heir", "epilog"}
Runtime == {"exit", "drop", "check", "checksucc", "reacquire", "heir", "epilog", "unpark"}
Reentering == {"rtry", "rpark", "rwoken", "clear", "unlink", "waited"}
Entering == (Queueing \ {"rtry", "rpark", "rwoken"}) \cup
            {"push", "suspended", "unlink", "pivot", "acquired", "waited"}

\* A thread at place p has these values of frame (f), then (n) and after (a)
Sound(p, f, n, a) ==
    /\ n # "idle" => p \in Runtime
    /\ n = "waiting" => f = "enter"
    /\ f = "wait" => p \in Spinning \cup Entering \/ n = "suspended"
    /\ f = "reenter" => p \in Spinning \cup Reentering
    /\ p \in {"rtry", "rpark", "rwoken"} => f = "reenter"
    /\ p = "waited" => f # "enter"
    /\ p \in Spinning => (a = "rpark" <=> f = "reenter")

LocalsSound == \A t \in Threads : Sound(th[t].pc, th[t].frame, th[t].then, th[t].after)

\* The owner is the thread that is between taking the lock and freeing it
Owned == \A t \in Threads : th[t].pc \in Holding <=> owner = t

\* Only Java code has the lock more than once
Unnested == recursions # 0 => \E t \in Threads : th[t].pc \in InsidePlaces

-----------------------------------------------------------------------------
(* The lists                                                               *)

Distinct(s) == \A i, j \in 1..Len(s) : s[i] = s[j] => i = j
On(s, t) == \E i \in 1..Len(s) : s[i] = t

\* notify has taken t's node off the wait set and not yet put it into a queue
Moving(t) == \E u \in Threads : th[u].pc = "notifylink" /\ th[u].heir = t

\* A node is on the list its TState names, once
ListsSound ==
    /\ Distinct(cxq) /\ Distinct(entry) /\ Distinct(waitset)
    /\ \A t \in Threads : /\ On(cxq, t) <=> node[t].state = "CXQ"
                          /\ On(entry, t) <=> node[t].state = "ENTER" /\ ~Moving(t)
                          /\ On(waitset, t) <=> node[t].state = "WAIT"

MovingSound ==
    \A t \in Threads : th[t].pc = "notifylink" =>
        th[t].heir \in Threads /\ node[th[t].heir].state = "ENTER"

\* Where a thread is whose node is queued: it wants the lock, or it is a waiter that
\* was notified, perhaps before it has left the exit of wait
QueuedPlace(p, n, a) ==
    \/ p \in Queueing \cup {"unlink", "waiting", "waitpark", "dequeue", "reenter"}
    \/ p \in Spinning /\ a # "push"
    \/ n = "waiting"

NodeSound(s, p, n, a) ==
    /\ s \in {"CXQ", "ENTER"} => QueuedPlace(p, n, a)
    /\ s = "WAIT" => n = "waiting" \/ p \in {"waiting", "waitpark", "dequeue"}

NodesSound == \A t \in Threads : NodeSound(node[t].state, th[t].pc, th[t].then, th[t].after)

-----------------------------------------------------------------------------
(* Nobody is stranded                                                      *)

\* A thread that sleeps soon, or does, unless its event is set
Dozes(t) == \/ th[t].pc \in {"choose", "untimed", "rpark", "waiting", "waitpark", "spin", "spinset"}
            \/ th[t].then = "waiting"

\* A thread that will try to take the lock before it sleeps
Tries(t) ==
    \/ th[t].pc \in {"push", "elect", "try", "timed", "woken", "clear", "rtry", "rwoken",
                     "suspended", "dequeue", "reenter", "spintry"}
    \/ th[t].pc \in {"spin", "spinset"} /\ th[t].after # "rpark"
    \/ th[t].pc = "choose" /\ responsible = t
    \/ t \in permit /\ Dozes(t)

\* A thread in exit that has freed the lock and has still to look at the queues, and
\* one that will wake an heir
Checking == {"check", "checksucc", "reacquire", "recheck"}
Wakes(t) == th[t].pc = "unpark" /\ (Tries(th[t].heir) \/ Dozes(th[t].heir))

\* A free lock that threads are queued for is in somebody's care
LockHandedOn ==
    owner = NoThread /\ (cxq # <<>> \/ entry # <<>>) =>
        succ # NoThread \/ \E t \in Threads : Tries(t) \/ th[t].pc \in Checking \/ Wakes(t)

HeirSound ==
    \A t \in Threads : /\ th[t].pc = "epilog" => th[t].heir \in Threads /\ On(entry, th[t].heir)
                       /\ th[t].pc = "unpark" => th[t].heir \in Threads

\* The successor will look at the lock: it is awake and gives up the role before it
\* sleeps, or its event is set, or will be
SuccPlace(p, n, a) == QueuedPlace(p, n, a) \/ p \in {"spin", "spinset"}
Looking == {"spin", "spinset", "woken", "rwoken", "clear", "unlink", "dequeue", "reenter"}
SuccGood(v) ==
    /\ v \in Threads
    /\ SuccPlace(th[v].pc, th[v].then, th[v].after)
    /\ \/ v \in permit
       \/ \E t \in Threads : th[t].pc \in {"epilog", "unpark"} /\ th[t].heir = v
       \/ th[v].pc \in Looking
SuccSound == succ # NoThread => SuccGood(succ)

\* The responsible thread does not sleep without a time limit
ResponsibleAt(p, f, a) ==
    /\ f # "reenter"
    /\ \/ p \in {"try", "choose", "timed", "woken", "clear", "unlink", "pivot"}
       \/ p \in Spinning /\ a = "clear"
ResponsibleSound ==
    responsible # NoThread =>
        ResponsibleAt(th[responsible].pc, th[responsible].frame, th[responsible].after)

\* Threads that queue after the 1-0 exit has looked have a responsible one
FastSound ==
    \A t \in Threads : th[t].pc = "drop10" =>
        /\ entry = <<>>
        /\ cxq # <<>> => responsible # NoThread \/ \E u \in Threads : th[u].pc = "elect"

\* The inductive invariant
LockInv == TypeOK /\ LocalsSound /\ Owned /\ Unnested
ListInv == ListsSound /\ MovingSound /\ NodesSound
CareInv == LockHandedOn /\ HeirSound /\ SuccSound /\ ResponsibleSound /\ FastSound
IInv == LockInv /\ ListInv /\ CareInv /\ InterruptWakes

-----------------------------------------------------------------------------
(* Steps of one thread                                                     *)

\* Thread t, and no other, has gone on to place p with these locals
Flow(t, p, f, n, a, h, s) ==
    /\ th' \in [Threads -> Locals]
    /\ \A u \in Threads : u # t => th'[u] = th[u]
    /\ th'[t].pc = p /\ th'[t].frame = f /\ th'[t].then = n /\ th'[t].after = a
    /\ th'[t].heir = h /\ th'[t].saved = s

LEMMA FieldTypes ==
  ASSUME TypeOK, NEW t \in Threads
  PROVE  /\ th[t] \in Locals /\ th[t].pc \in Places /\ th[t].frame \in {"enter", "wait", "reenter"}
         /\ th[t].then \in {"idle", "waiting", "suspended"}
         /\ th[t].after \in {"push", "clear", "rpark"}
         /\ th[t].heir \in Threads \cup {NoThread} /\ th[t].saved \in Nat
         /\ th[t].enters \in Nat /\ th[t].waits \in Nat
<1>1. th[t] \in Locals
  BY DEF TypeOK
<1> QED
  BY <1>1 DEF Locals

LEMMA UpdateFlow ==
  ASSUME TypeOK, NEW t \in Threads, NEW r \in Locals, th' = [th EXCEPT ![t] = r]
  PROVE  Flow(t, r.pc, r.frame, r.then, r.after, r.heir, r.saved)
BY DEF TypeOK, Flow

LEMMA GotoFlow ==
  ASSUME TypeOK, NEW t \in Threads, NEW l \in Places, Goto(t, l)
  PROVE  Flow(t, l, th[t].frame, th[t].then, th[t].after, th[t].heir, th[t].saved)
<1> DEFINE r == [th[t] EXCEPT !.pc = l]
<1>1. th[t] \in Locals
  BY DEF TypeOK
<1>2. /\ r \in Locals /\ r.pc = l /\ r.frame = th[t].frame /\ r.then = th[t].then
      /\ r.after = th[t].after /\ r.heir = th[t].heir /\ r.saved = th[t].saved
  BY <1>1 DEF Locals
<1>3. th' = [th EXCEPT ![t] = r]
  BY DEF Goto
<1> HIDE DEF r
<1> QED
  BY <1>2, <1>3, UpdateFlow

LEMMA ReturnFlow ==
  ASSUME TypeOK, NEW t \in Threads, Return(t)
  PROVE  Flow(t, th[t].then, th[t].frame, "idle", th[t].after, NoThread, th[t].saved)
<1> DEFINE r == [th[t] EXCEPT !.pc = th[t].then, !.then = "idle", !.heir = NoThread]
<1>1. th[t] \in Locals /\ th[t].then \in Places
  BY FieldTypes DEF Places, Waiting
<1>2. /\ r \in Locals /\ r.pc = th[t].then /\ r.frame = th[t].frame /\ r.then = "idle"
      /\ r.after = th[t].after /\ r.heir = NoThread /\ r.saved = th[t].saved
  BY <1>1 DEF Locals
<1>3. th' = [th EXCEPT ![t] = r]
  BY DEF Return
<1> HIDE DEF r
<1> QED
  BY <1>2, <1>3, UpdateFlow

-----------------------------------------------------------------------------
(* What a step of thread t has to show                                     *)

\* Everything but the locals has its type
SharedTypes ==
    /\ owner \in Threads \cup {NoThread}
    /\ recursions \in Nat
    /\ succ \in Threads \cup {NoThread}
    /\ responsible \in Threads \cup {NoThread}
    /\ cxq \in Seq(Threads) /\ entry \in Seq(Threads) /\ waitset \in Seq(Threads)
    /\ node \in [Threads -> [state : {"RUN", "CXQ", "ENTER", "WAIT"}, notified : BOOLEAN]]
    /\ permit \subseteq Threads
    /\ interrupted \subseteq Threads
    /\ asks \in [interrupt : SUBSET Threads, suspend : SUBSET Threads]

\* The lock: it is kept, taken or freed, as the place says
OwnerStep(t, p) ==
    \/ owner' = owner /\ (p \in Holding <=> th[t].pc \in Holding)
    \/ owner = NoThread /\ owner' = t /\ p \in Holding
    \/ owner = t /\ owner' = NoThread /\ p \notin Holding

LEMMA LockStep ==
  ASSUME LockInv, NEW t \in Threads, NEW p, NEW f, NEW n, NEW a, NEW h, NEW s,
         Flow(t, p, f, n, a, h, s), SharedTypes', Sound(p, f, n, a), OwnerStep(t, p),
         recursions' # 0 => p \in InsidePlaces \/ (recursions' = recursions /\ th[t].pc \notin InsidePlaces)
  PROVE  LockInv'
<1>1. TypeOK'
  BY DEF SharedTypes, Flow, TypeOK
<1>2. LocalsSound'
  BY DEF Flow, LocalsSound, LockInv
<1>3. Owned'
  <2> SUFFICES ASSUME NEW u \in Threads
               PROVE  th'[u].pc \in Holding <=> owner' = u
    BY DEF Owned
  <2>1. /\ th[u].pc \in Holding <=> owner = u
        /\ th[t].pc \in Holding <=> owner = t
        /\ u # NoThread /\ t # NoThread
    BY DEF LockInv, Owned
  <2>2. CASE u = t
    BY <2>1, <2>2 DEF Flow, OwnerStep
  <2>3. CASE u # t
    BY <2>1, <2>3 DEF Flow, OwnerStep
  <2> QED
    BY <2>2, <2>3
<1>4. Unnested'
  <2>1. ASSUME recursions' # 0, recursions' = recursions, th[t].pc \notin InsidePlaces
        PROVE  \E u \in Threads : th'[u].pc \in InsidePlaces
    <3>1. PICK u \in Threads : th[u].pc \in InsidePlaces
      BY <2>1 DEF LockInv, Unnested
    <3> QED
      BY <2>1, <3>1 DEF Flow
  <2> QED
    BY <2>1 DEF Flow, Unnested
<1> QED
  BY <1>1, <1>2, <1>3, <1>4 DEF LockInv

\* Two threads are not both between taking the lock and freeing it
LEMMA OneHolder ==
  ASSUME LockInv, NEW t \in Threads, NEW u \in Threads, th[t].pc \in Holding, th[u].pc \in Holding
  PROVE  t = u
BY DEF LockInv, Owned

\* The lists are left alone
LEMMA ListsKept ==
  ASSUME ListInv, NEW t \in Threads, NEW p, NEW f, NEW n, NEW a, NEW h, NEW s,
         Flow(t, p, f, n, a, h, s), UNCHANGED lists,
         th[t].pc # "notifylink", p # "notifylink", NodeSound(node[t].state, p, n, a)
  PROVE  ListInv'
<1>1. UNCHANGED <<cxq, entry, waitset, node>>
  BY DEF lists
<1>2. \A u \in Threads : Moving(u)' <=> Moving(u)
  BY DEF Moving, Flow
<1>3. ListsSound'
  BY <1>1, <1>2 DEF ListsSound, ListInv, Distinct, On
<1>4. MovingSound'
  BY <1>1 DEF MovingSound, ListInv, Flow
<1>5. NodesSound'
  BY <1>1 DEF NodesSound, ListInv, Flow
<1> QED
  BY <1>3, <1>4, <1>5 DEF ListInv

\* A step after which the queues are in somebody's care
LEMMA CareKept ==
  ASSUME IInv, NEW t \in Threads, NEW p, NEW f, NEW n, NEW a, NEW h, NEW s,
         Flow(t, p, f, n, a, h, s),
         permit \ {t} \subseteq permit',
         owner' = NoThread => /\ owner = NoThread
                              /\ cxq' # <<>> \/ entry' # <<>> =>
                                    cxq # <<>> \/ entry # <<>> \/ Tries(t)'
                              /\ responsible' = responsible \/ responsible = NoThread
                              /\ succ # NoThread => succ' # NoThread \/ Tries(t)'
                              /\ Tries(t) => Tries(t)'
                              /\ Dozes(t) => Tries(t)' \/ Dozes(t)'
                              /\ th[t].pc \in Checking /\ (cxq # <<>> \/ entry # <<>>) =>
                                    p \in Checking \/ succ' # NoThread
                              /\ Wakes(t) => \E w \in Threads : w = th[t].heir /\ Tries(w)'
  PROVE  LockHandedOn'
<1> SUFFICES ASSUME owner' = NoThread, cxq' # <<>> \/ entry' # <<>>, succ' = NoThread, ~Tries(t)'
             PROVE  \E u \in Threads : Tries(u)' \/ th'[u].pc \in Checking \/ Wakes(u)'
  BY DEF LockHandedOn
<1>1. \A u \in Threads : (Tries(u) => Tries(u)') /\ (Dozes(u) => Tries(u)' \/ Dozes(u)')
  <2> TAKE u \in Threads
  <2>1. CASE u = t
    BY <2>1
  <2>2. CASE u # t
    <3>1. th'[u] = th[u] /\ (u \in permit => u \in permit') /\ (responsible = u => responsible' = u)
      BY <2>2 DEF Flow
    <3> QED
      BY <3>1 DEF Tries, Dozes
  <2> QED
    BY <2>1, <2>2
<1>2. PICK u \in Threads : Tries(u) \/ th[u].pc \in Checking \/ Wakes(u)
  BY DEF IInv, CareInv, LockHandedOn
<1>3. CASE Tries(u)
  BY <1>1, <1>3
<1>4. CASE th[u].pc \in Checking
  BY <1>4 DEF Flow, IInv, CareInv, LockHandedOn
<1>5. CASE Wakes(u)
  <2>1. th[u].pc = "unpark" /\ th[u].heir \in Threads
    BY <1>5 DEF Wakes, IInv, CareInv, HeirSound
  <2>2. CASE u = t
    BY <1>5, <2>1, <2>2
  <2>3. CASE u # t
    BY <1>1, <1>5, <2>1, <2>3 DEF Wakes, Flow
  <2> QED
    BY <2>2, <2>3
<1> QED
  BY <1>2, <1>3, <1>4, <1>5

\* The hints stay sound
LEMMA HintsKept ==
  ASSUME IInv, NEW t \in Threads, NEW p, NEW f, NEW n, NEW a, NEW h, NEW s,
         Flow(t, p, f, n, a, h, s),
         permit \ {t} \subseteq permit',
         th[t].pc \in {"epilog", "unpark"} =>
             \/ p \in {"epilog", "unpark"} /\ h = th[t].heir
             \/ th[t].heir \in permit',
         succ' = NoThread \/ (succ' = succ /\ succ # t) \/ SuccGood(succ)',
         \/ responsible' = NoThread
         \/ responsible' = responsible /\ responsible # t
         \/ responsible' = t /\ ResponsibleAt(p, f, a)
  PROVE  SuccSound' /\ ResponsibleSound'
<1>1. SuccSound'
  <2>1. ASSUME succ' = succ, succ # t, succ # NoThread
        PROVE  SuccGood(succ)'
    <3>1. SuccGood(succ)
      BY <2>1 DEF IInv, CareInv, SuccSound
    <3>2. succ \in Threads /\ th'[succ] = th[succ] /\ (succ \in permit => succ \in permit')
      BY <2>1, <3>1 DEF Flow, SuccGood
    <3>3. ASSUME NEW u \in Threads, th[u].pc \in {"epilog", "unpark"}, th[u].heir = succ
          PROVE  \/ succ \in permit'
                 \/ \E v \in Threads : th'[v].pc \in {"epilog", "unpark"} /\ th'[v].heir = succ
      BY <3>3 DEF Flow
    <3> QED
      BY <2>1, <3>1, <3>2, <3>3 DEF SuccGood
  <2> QED
    BY <2>1 DEF SuccSound
<1>2. ResponsibleSound'
  <2>1. ASSUME responsible' = responsible, responsible # t, responsible # NoThread
        PROVE  ResponsibleAt(th[responsible].pc, th[responsible].frame, th[responsible].after)'
    <3>1. responsible \in Threads /\ th'[responsible] = th[responsible]
      BY <2>1 DEF IInv, LockInv, TypeOK, Flow
    <3> QED
      BY <2>1, <3>1 DEF IInv, CareInv, ResponsibleSound
  <2> QED
    BY <2>1 DEF ResponsibleSound, Flow
<1> QED
  BY <1>1, <1>2

\* Threads that rely on what they have seen of the queues
LEMMA SeenKept ==
  ASSUME IInv, NEW t \in Threads, NEW p, NEW f, NEW n, NEW a, NEW h, NEW s,
         Flow(t, p, f, n, a, h, s),
         p = "epilog" => h \in Threads /\ On(entry', h),
         p = "unpark" => h \in Threads,
         p = "drop10" => entry' = <<>> /\ cxq' = <<>>,
         th[t].pc \notin Holding => /\ entry' = entry
                                    /\ cxq' # <<>> => cxq # <<>> \/ p = "elect"
                                    /\ responsible # NoThread => responsible' # NoThread
                                    /\ th[t].pc = "elect" => entry # <<>> \/ responsible' # NoThread
  PROVE  HeirSound' /\ FastSound'
<1>1. ASSUME NEW u \in Threads, u # t, th[u].pc \in Holding
      PROVE  th[t].pc \notin Holding
  BY <1>1, OneHolder DEF IInv
<1>2. "epilog" \in Holding /\ "drop10" \in Holding
  BY DEF Holding
<1>3. HeirSound'
  BY <1>1, <1>2 DEF HeirSound, IInv, CareInv, Flow
<1>4. FastSound'
  <2> SUFFICES ASSUME NEW u \in Threads, th'[u].pc = "drop10"
               PROVE  /\ entry' = <<>>
                      /\ cxq' # <<>> => responsible' # NoThread \/ \E v \in Threads : th'[v].pc = "elect"
    BY DEF FastSound
  <2>1. CASE u = t
    BY <2>1 DEF Flow
  <2>2. CASE u # t
    <3>1. th[u].pc = "drop10" /\ th[t].pc \notin Holding
      BY <1>1, <1>2, <2>2 DEF Flow
    <3>2. entry = <<>> /\ (cxq # <<>> => responsible # NoThread \/ \E v \in Threads : th[v].pc = "elect")
      BY <3>1 DEF IInv, CareInv, FastSound
    <3>3. ASSUME NEW v \in Threads, th[v].pc = "elect", responsible' = NoThread
          PROVE  th'[v].pc = "elect"
      BY <3>1, <3>2, <3>3 DEF Flow
    <3> QED
      BY <3>1, <3>2, <3>3 DEF Flow
  <2> QED
    BY <2>1, <2>2
<1> QED
  BY <1>3, <1>4

\* No interrupted thread falls asleep
LEMMA InterruptsKept ==
  ASSUME IInv, NEW t \in Threads, NEW p, NEW f, NEW n, NEW a, NEW h, NEW s,
         Flow(t, p, f, n, a, h, s), permit \ {t} \subseteq permit', interrupted' \subseteq interrupted,
         p = "waitpark" => t \notin interrupted
  PROVE  InterruptWakes'
<1>1. interrupted \subseteq Threads
  BY DEF IInv, LockInv, TypeOK
<1> QED
  BY <1>1 DEF InterruptWakes, IInv, At, Flow

\* What holds of every thread
LEMMA ThreadFacts ==
  ASSUME IInv, NEW t \in Threads
  PROVE  /\ TypeOK /\ t # NoThread
         /\ Sound(th[t].pc, th[t].frame, th[t].then, th[t].after)
         /\ NodeSound(node[t].state, th[t].pc, th[t].then, th[t].after)
         /\ th[t].pc \in Holding <=> owner = t
         /\ succ = t => SuccGood(t)
         /\ responsible = t => ResponsibleAt(th[t].pc, th[t].frame, th[t].after)
         /\ th[t].pc \in Places /\ th[t].frame \in {"enter", "wait", "reenter"}
         /\ th[t].then \in {"idle", "waiting", "suspended"}
         /\ th[t].after \in {"push", "clear", "rpark"}
         /\ th[t].heir \in Threads \cup {NoThread} /\ th[t].saved \in Nat
<1>1. TypeOK
  BY DEF IInv, LockInv
<1>2. /\ Sound(th[t].pc, th[t].frame, th[t].then, th[t].after)
      /\ NodeSound(node[t].state, th[t].pc, th[t].then, th[t].after)
      /\ th[t].pc \in Holding <=> owner = t
  BY DEF IInv, LockInv, LocalsSound, Owned, ListInv, NodesSound
<1>3. /\ succ = t => SuccGood(t)
      /\ responsible = t => ResponsibleAt(th[t].pc, th[t].frame, th[t].after)
  BY DEF IInv, CareInv, SuccSound, ResponsibleSound
<1> QED
  BY <1>1, <1>2, <1>3, FieldTypes

\* What every step shows: its own part of the invariant
LEMMA GeneralStep ==
  ASSUME IInv, NEW t \in Threads, NEW p, NEW f, NEW n, NEW a, NEW h, NEW s,
         Flow(t, p, f, n, a, h, s), SharedTypes', Sound(p, f, n, a), OwnerStep(t, p),
         recursions' # 0 => p \in InsidePlaces \/ (recursions' = recursions /\ th[t].pc \notin InsidePlaces),
         ListInv', permit \ {t} \subseteq permit', interrupted' \subseteq interrupted,
         succ' = NoThread \/ (succ' = succ /\ succ # t) \/ SuccGood(succ)',
         \/ responsible' = NoThread /\ (responsible = NoThread \/ th[t].pc \in Holding)
         \/ responsible' = responsible /\ responsible # t
         \/ responsible' = t /\ ResponsibleAt(p, f, a),
         th[t].pc = "epilog" => p = "unpark" /\ h = th[t].heir,
         th[t].pc = "unpark" => th[t].heir \in permit',
         th[t].pc \in Holding \/ UNCHANGED <<cxq, entry>>
            \/ (entry' = entry /\ (cxq = <<>> => p = "elect")),
         p = "epilog" => h \in Threads /\ On(entry', h),
         p = "unpark" => th[t].pc = "epilog",
         p = "drop10" => entry' = <<>> /\ cxq' = <<>>,
         th[t].pc = "elect" => entry # <<>> \/ responsible' # NoThread,
         p = "waitpark" => t \notin interrupted,
         LockHandedOn'
  PROVE  IInv'
<1> LockInv /\ t # NoThread
  BY DEF IInv
<1>1. LockInv'
  BY LockStep
<1>2. SuccSound' /\ ResponsibleSound'
  BY HintsKept
<1>3. HeirSound' /\ FastSound'
  <2>1. p = "unpark" => h \in Threads
    BY DEF IInv, CareInv, HeirSound
  <2>2. responsible # NoThread => responsible' # NoThread \/ th[t].pc \in Holding
    OBVIOUS
  <2> QED
    BY <2>1, <2>2, SeenKept
<1>4. InterruptWakes'
  BY InterruptsKept
<1> QED
  BY <1>1, <1>2, <1>3, <1>4 DEF IInv, CareInv

\* A step that leaves the lists alone
LEMMA EventStep ==
  ASSUME IInv, NEW t \in Threads, NEW p, NEW f, NEW n, NEW a, NEW h, NEW s,
         Flow(t, p, f, n, a, h, s), UNCHANGED lists,
         permit' \subseteq Threads, permit \ {t} \subseteq permit', interrupted' \subseteq interrupted,
         asks' \in [interrupt : SUBSET Threads, suspend : SUBSET Threads],
         Sound(p, f, n, a), OwnerStep(t, p), NodeSound(node[t].state, p, n, a),
         recursions' \in Nat,
         recursions' # 0 => p \in InsidePlaces \/ (recursions' = recursions /\ th[t].pc \notin InsidePlaces),
         succ' = NoThread \/ (succ' = succ /\ succ # t) \/ SuccGood(succ)',
         \/ responsible' = NoThread /\ (responsible = NoThread \/ th[t].pc \in Holding)
         \/ responsible' = responsible /\ responsible # t
         \/ responsible' = t /\ ResponsibleAt(p, f, a),
         th[t].pc # "notifylink", th[t].pc = "unpark" => th[t].heir \in permit', p \notin {"notifylink", "epilog"},
         th[t].pc = "epilog" => p = "unpark" /\ h = th[t].heir,
         p = "unpark" => th[t].pc = "epilog",
         p = "drop10" => entry = <<>> /\ cxq = <<>>,
         th[t].pc = "elect" => entry # <<>> \/ responsible' # NoThread,
         p = "waitpark" => t \notin interrupted,
         LockHandedOn'
  PROVE  IInv'
<1> ListInv /\ TypeOK /\ t # NoThread
  BY DEF IInv, LockInv
<1>0. UNCHANGED <<cxq, entry, waitset, node>> /\ interrupted' \subseteq Threads
  BY DEF lists, TypeOK
<1>1. SharedTypes'
  <2>1. owner' \in Threads \cup {NoThread}
    BY DEF OwnerStep, TypeOK
  <2>2. succ' \in Threads \cup {NoThread} /\ responsible' \in Threads \cup {NoThread}
    BY DEF TypeOK, SuccGood
  <2> QED
    BY <1>0, <2>1, <2>2 DEF SharedTypes, TypeOK
<1>2. ListInv'
  BY ListsKept
<1> QED
  BY <1>0, <1>1, <1>2, GeneralStep

\* A step that changes the lock or the hints only
LEMMA PlainStep ==
  ASSUME IInv, NEW t \in Threads, NEW p, NEW f, NEW n, NEW a, NEW h, NEW s,
         Flow(t, p, f, n, a, h, s), UNCHANGED <<lists, permit, outside>>,
         Sound(p, f, n, a), OwnerStep(t, p), NodeSound(node[t].state, p, n, a),
         recursions' \in Nat,
         recursions' # 0 => p \in InsidePlaces \/ (recursions' = recursions /\ th[t].pc \notin InsidePlaces),
         succ' = NoThread \/ (succ' = succ /\ succ # t) \/ SuccGood(succ)',
         \/ responsible' = NoThread /\ (responsible = NoThread \/ th[t].pc \in Holding)
         \/ responsible' = responsible /\ responsible # t
         \/ responsible' = t /\ ResponsibleAt(p, f, a),
         th[t].pc \notin {"notifylink", "unpark"}, p \notin {"notifylink", "epilog"},
         th[t].pc = "epilog" => p = "unpark" /\ h = th[t].heir,
         p = "unpark" => th[t].pc = "epilog",
         p = "drop10" => entry = <<>> /\ cxq = <<>>,
         th[t].pc = "elect" => entry # <<>> \/ responsible' # NoThread,
         p = "waitpark" => t \notin interrupted,
         LockHandedOn'
  PROVE  IInv'
<1> TypeOK
  BY DEF IInv, LockInv
<1>0. UNCHANGED <<lists, permit, interrupted, asks>>
  BY DEF outside
<1>1. /\ permit' \subseteq Threads
      /\ asks' \in [interrupt : SUBSET Threads, suspend : SUBSET Threads]
  BY <1>0 DEF TypeOK
<1> QED
  BY <1>0, <1>1, EventStep

\* The successor goes on and keeps the role
LEMMA SuccKept ==
  ASSUME IInv, NEW t \in Threads, NEW p, NEW f, NEW n, NEW a, NEW h, NEW s,
         Flow(t, p, f, n, a, h, s), succ = t,
         t \in permit => t \in permit' \/ p \in Looking, permit \ {t} \subseteq permit',
         th[t].pc \in {"epilog", "unpark"} =>
             \/ p \in {"epilog", "unpark"} /\ h = th[t].heir
             \/ th[t].heir \in permit',
         SuccPlace(p, n, a), th[t].pc \in Looking => p \in Looking
  PROVE  SuccGood(t)'
<1>1. SuccGood(t)
  BY ThreadFacts
<1>2. ASSUME NEW u \in Threads, th[u].pc \in {"epilog", "unpark"}, th[u].heir = t
      PROVE  \/ t \in permit'
             \/ \E v \in Threads : th'[v].pc \in {"epilog", "unpark"} /\ th'[v].heir = t
  BY <1>2 DEF Flow
<1> QED
  BY <1>1, <1>2 DEF SuccGood, Flow

\* exit returns: to Java, to wait, or to a thread that was suspended
LEMMA ReturnPlace ==
  ASSUME IInv, NEW t \in Threads,
         th[t].pc \in {"drop10", "recheck", "check", "checksucc", "reacquire", "unpark"}
  PROVE  /\ Sound(th[t].then, th[t].frame, "idle", th[t].after)
         /\ NodeSound(node[t].state, th[t].then, "idle", th[t].after)
         /\ th[t].then \notin Holding \cup InsidePlaces
         /\ succ = t => SuccPlace(th[t].then, "idle", th[t].after)
         /\ responsible # t /\ th[t].pc \notin Looking
BY ThreadFacts
   DEF Sound, NodeSound, QueuedPlace, SuccGood, SuccPlace, ResponsibleAt, Looking, InsidePlaces, Holding,
       Acquired, Spinning, Queueing, Runtime, Reentering, Entering

-----------------------------------------------------------------------------
(* Spinning                                                                *)

\* A spinner that gets the lock gives up the role of the successor
LEMMA SpinAcquiresInvariant ==
  ASSUME IInv, NEW t \in Threads, SpinAcquires(t)
  PROVE  IInv'
<1> DEFINE p == IF th[t].after = "push" THEN "acquired" ELSE "unlink"
<1>0. th[t].pc = "spin" /\ owner = NoThread
  BY DEF SpinAcquires, At
<1>1. p \in {"acquired", "unlink"} /\ p \in Places
  BY ThreadFacts DEF Places, Spinning, Queueing, Acquired, Exiting, Waiting
<1>2. Flow(t, p, th[t].frame, th[t].then, th[t].after, th[t].heir, th[t].saved)
  BY <1>0, <1>1, ThreadFacts, GotoFlow DEF SpinAcquires
<1>3. /\ UNCHANGED <<recursions, responsible, lists, permit, outside>> /\ owner' = t
      /\ succ' = IF succ = t THEN NoThread ELSE succ
  BY <1>0 DEF SpinAcquires, Resign
<1>4. /\ Sound(p, th[t].frame, th[t].then, th[t].after)
      /\ NodeSound(node[t].state, p, th[t].then, th[t].after)
      /\ OwnerStep(t, p)
      /\ responsible = t => ResponsibleAt(p, th[t].frame, th[t].after)
  BY <1>0, <1>3, ThreadFacts
     DEF Sound, NodeSound, QueuedPlace, OwnerStep, ResponsibleAt, Holding, Acquired, Spinning, Queueing,
         Runtime, Reentering, Entering
<1>6. LockHandedOn'
  BY <1>0, <1>3, ThreadFacts DEF LockHandedOn, Holding, Acquired, Spinning, Queueing,
         Runtime, Reentering, Entering
<1>7. recursions \in Nat
  BY ThreadFacts DEF TypeOK
<1> HIDE DEF p
<1> QED
  BY <1>0, <1>1, <1>2, <1>3, <1>4, <1>6, <1>7, ThreadFacts, PlainStep DEF InsidePlaces

\* Between the load of _succ and the store to it
LEMMA SpinSeesNoSuccInvariant ==
  ASSUME IInv, NEW t \in Threads, SpinSeesNoSucc(t)
  PROVE  IInv'
<1>0. th[t].pc = "spin" /\ succ = NoThread
  BY DEF SpinSeesNoSucc, At
<1>1. "spinset" \in Places
  BY DEF Places, Spinning, Queueing, Acquired, Exiting, Waiting
<1>2. Flow(t, "spinset", th[t].frame, th[t].then, th[t].after, th[t].heir, th[t].saved)
  BY <1>0, <1>1, ThreadFacts, GotoFlow DEF SpinSeesNoSucc
<1>3. UNCHANGED <<owner, recursions, succ, responsible, lists, permit, outside>>
  BY <1>0 DEF SpinSeesNoSucc, lock, hints
<1>4. /\ Sound("spinset", th[t].frame, th[t].then, th[t].after)
      /\ NodeSound(node[t].state, "spinset", th[t].then, th[t].after)
      /\ OwnerStep(t, "spinset")
      /\ responsible = t => ResponsibleAt("spinset", th[t].frame, th[t].after)
  BY <1>0, <1>3, ThreadFacts
     DEF Sound, NodeSound, QueuedPlace, OwnerStep, ResponsibleAt, Holding, Acquired, Spinning, Queueing,
         Runtime, Reentering, Entering
<1>5. succ # t
  BY <1>0, ThreadFacts
<1>6. LockHandedOn'
  <2>1. UNCHANGED <<cxq, entry, permit>>
    BY <1>3 DEF lists
  <2>2. (Tries(t) => Tries(t)') /\ (Dozes(t) => Tries(t)' \/ Dozes(t)')
    BY <1>0, <1>2, <1>3, <2>1, ThreadFacts DEF Flow, Tries, Dozes
  <2>3. th[t].pc \notin Checking /\ ~Wakes(t)
    BY <1>0 DEF Checking, Wakes
  <2>4. succ # NoThread => succ' # NoThread \/ Tries(t)'
    BY <1>0, <1>2, <1>3 DEF Flow, Tries
  <2> QED
    BY <1>0, <1>2, <1>3, <2>1, <2>2, <2>3, <2>4, CareKept
<1>7. recursions \in Nat
  BY ThreadFacts DEF TypeOK
<1> QED
  BY <1>0, <1>1, <1>2, <1>3, <1>4, <1>5, <1>6, <1>7, ThreadFacts, PlainStep DEF InsidePlaces

\* A spinner makes itself the successor, over any other
LEMMA SpinSetSuccInvariant ==
  ASSUME IInv, NEW t \in Threads, SpinSetSucc(t)
  PROVE  IInv'
<1>0. th[t].pc = "spinset"
  BY DEF SpinSetSucc, At
<1>1. "spin" \in Places
  BY DEF Places, Spinning, Queueing, Acquired, Exiting, Waiting
<1>2. Flow(t, "spin", th[t].frame, th[t].then, th[t].after, th[t].heir, th[t].saved)
  BY <1>0, <1>1, ThreadFacts, GotoFlow DEF SpinSetSucc
<1>3. UNCHANGED <<owner, recursions, responsible, lists, permit, outside>> /\ succ' = t
  BY <1>0 DEF SpinSetSucc, lock
<1>4. /\ Sound("spin", th[t].frame, th[t].then, th[t].after)
      /\ NodeSound(node[t].state, "spin", th[t].then, th[t].after)
      /\ OwnerStep(t, "spin")
      /\ responsible = t => ResponsibleAt("spin", th[t].frame, th[t].after)
  BY <1>0, <1>3, ThreadFacts
     DEF Sound, NodeSound, QueuedPlace, OwnerStep, ResponsibleAt, Holding, Acquired, Spinning, Queueing,
         Runtime, Reentering, Entering
<1>5. SuccGood(t)'
  BY <1>2 DEF SuccGood, SuccPlace, Looking, Flow
<1>6. LockHandedOn'
  <2>1. UNCHANGED <<cxq, entry, permit>>
    BY <1>3 DEF lists
  <2>2. (Tries(t) => Tries(t)') /\ (Dozes(t) => Tries(t)' \/ Dozes(t)')
    BY <1>0, <1>2, <1>3, <2>1, ThreadFacts DEF Flow, Tries, Dozes
  <2>3. th[t].pc \notin Checking /\ ~Wakes(t)
    BY <1>0 DEF Checking, Wakes
  <2>4. succ # NoThread => succ' # NoThread \/ Tries(t)'
    BY <1>0, <1>2, <1>3 DEF Flow, Tries
  <2> QED
    BY <1>0, <1>2, <1>3, <2>1, <2>2, <2>3, <2>4, CareKept
<1>7. recursions \in Nat
  BY ThreadFacts DEF TypeOK
<1> QED
  BY <1>0, <1>1, <1>2, <1>3, <1>4, <1>5, <1>6, <1>7, ThreadFacts, PlainStep DEF InsidePlaces

\* A spinner that gives up the role looks at the lock once more
LEMMA SpinAbortInvariant ==
  ASSUME IInv, NEW t \in Threads, SpinAbort(t)
  PROVE  IInv'
<1> DEFINE p == IF succ = t THEN "spintry" ELSE th[t].after
<1>0. th[t].pc = "spin"
  BY DEF SpinAbort, At
<1>1. p \in {"spintry", "push", "clear", "rpark"} /\ p \in Places
  BY ThreadFacts DEF Places, Spinning, Queueing, Acquired, Exiting, Waiting
<1>2. Flow(t, p, th[t].frame, th[t].then, th[t].after, th[t].heir, th[t].saved)
  BY <1>0, <1>1, ThreadFacts, GotoFlow DEF SpinAbort
<1>3. /\ UNCHANGED <<owner, recursions, responsible, lists, permit, outside>>
      /\ succ' = IF succ = t THEN NoThread ELSE succ
  BY <1>0 DEF SpinAbort, Resign, lock
<1>4. /\ Sound(p, th[t].frame, th[t].then, th[t].after)
      /\ NodeSound(node[t].state, p, th[t].then, th[t].after)
      /\ OwnerStep(t, p)
      /\ responsible = t => ResponsibleAt(p, th[t].frame, th[t].after)
  BY <1>0, <1>3, ThreadFacts
     DEF Sound, NodeSound, QueuedPlace, OwnerStep, ResponsibleAt, Holding, Acquired, Spinning, Queueing,
         Runtime, Reentering, Entering
<1>6. LockHandedOn'
  <2>1. UNCHANGED <<cxq, entry, permit>>
    BY <1>3 DEF lists
  <2>2. (Tries(t) => Tries(t)') /\ (Dozes(t) => Tries(t)' \/ Dozes(t)')
    BY <1>0, <1>2, <1>3, <2>1, ThreadFacts DEF Flow, Tries, Dozes
  <2>3. th[t].pc \notin Checking /\ ~Wakes(t)
    BY <1>0 DEF Checking, Wakes
  <2>4. succ # NoThread => succ' # NoThread \/ Tries(t)'
    BY <1>0, <1>2, <1>3 DEF Flow, Tries
  <2> QED
    BY <1>0, <1>2, <1>3, <2>1, <2>2, <2>3, <2>4, CareKept
<1>7. recursions \in Nat
  BY ThreadFacts DEF TypeOK
<1> HIDE DEF p
<1> QED
  BY <1>0, <1>1, <1>2, <1>3, <1>4, <1>6, <1>7, ThreadFacts, PlainStep DEF InsidePlaces

LEMMA SpinLastTryInvariant ==
  ASSUME IInv, NEW t \in Threads, SpinLastTry(t)
  PROVE  IInv'
<1> DEFINE p == IF owner # NoThread THEN th[t].after
                  ELSE IF th[t].after = "push" THEN "acquired" ELSE "unlink"
<1>0. th[t].pc = "spintry"
  BY DEF SpinLastTry, At
<1>1. p \in {"push", "clear", "rpark", "acquired", "unlink"} /\ p \in Places
  BY ThreadFacts DEF Places, Spinning, Queueing, Acquired, Exiting, Waiting
<1>2. Flow(t, p, th[t].frame, th[t].then, th[t].after, th[t].heir, th[t].saved)
  BY <1>0, <1>1, ThreadFacts, GotoFlow DEF SpinLastTry
<1>3. /\ UNCHANGED <<recursions, succ, responsible, lists, permit, outside>>
      /\ owner' = IF owner = NoThread THEN t ELSE owner
  BY <1>0 DEF SpinLastTry, hints
<1>4. /\ Sound(p, th[t].frame, th[t].then, th[t].after)
      /\ NodeSound(node[t].state, p, th[t].then, th[t].after)
      /\ OwnerStep(t, p)
      /\ responsible = t => ResponsibleAt(p, th[t].frame, th[t].after)
  BY <1>0, <1>3, ThreadFacts
     DEF Sound, NodeSound, QueuedPlace, OwnerStep, ResponsibleAt, Holding, Acquired, Spinning, Queueing,
         Runtime, Reentering, Entering
<1>5. ASSUME succ = t
      PROVE  SuccGood(t)'
  <2>1. SuccPlace(p, th[t].then, th[t].after) /\ (th[t].pc \in Looking => p \in Looking)
    BY <1>0, <1>5, ThreadFacts DEF SuccGood, SuccPlace, QueuedPlace, Looking, Spinning, Queueing
  <2>2. permit' = permit
    BY <1>3
  <2> QED
    BY <1>0, <1>2, <1>5, <2>1, <2>2, SuccKept
<1>6. LockHandedOn'
  BY <1>0, <1>3, ThreadFacts DEF LockHandedOn, Holding, Acquired, Spinning, Queueing,
         Runtime, Reentering, Entering
<1>7. recursions \in Nat
  BY ThreadFacts DEF TypeOK
<1> HIDE DEF p
<1> QED
  BY <1>0, <1>1, <1>2, <1>3, <1>4, <1>5, <1>6, <1>7, ThreadFacts, PlainStep DEF InsidePlaces

-----------------------------------------------------------------------------
(* enter and EnterI                                                        *)

\* The first thread to queue is responsible, unless another one is
LEMMA ElectInvariant ==
  ASSUME IInv, NEW t \in Threads, Elect(t)
  PROVE  IInv'
<1>0. th[t].pc = "elect"
  BY DEF Elect, At
<1>1. "try" \in Places
  BY DEF Places, Spinning, Queueing, Acquired, Exiting, Waiting
<1>2. Flow(t, "try", th[t].frame, th[t].then, th[t].after, th[t].heir, th[t].saved)
  BY <1>0, <1>1, ThreadFacts, GotoFlow DEF Elect
<1>3. /\ UNCHANGED <<owner, recursions, succ, lists, permit, outside>>
      /\ responsible' = IF entry = <<>> /\ responsible = NoThread THEN t ELSE responsible
  BY <1>0 DEF Elect, lock
<1>4. /\ Sound("try", th[t].frame, th[t].then, th[t].after)
      /\ NodeSound(node[t].state, "try", th[t].then, th[t].after)
      /\ OwnerStep(t, "try")
      /\ responsible # t /\ ResponsibleAt("try", th[t].frame, th[t].after)
  BY <1>0, <1>3, ThreadFacts
     DEF Sound, NodeSound, QueuedPlace, OwnerStep, ResponsibleAt, Holding, Acquired, Spinning, Queueing,
         Runtime, Reentering, Entering
<1>5. ASSUME succ = t
      PROVE  SuccGood(t)'
  <2>1. SuccPlace("try", th[t].then, th[t].after) /\ (th[t].pc \in Looking => "try" \in Looking)
    BY <1>0, <1>5, ThreadFacts DEF SuccGood, SuccPlace, QueuedPlace, Looking, Spinning, Queueing
  <2>2. permit' = permit
    BY <1>3
  <2> QED
    BY <1>0, <1>2, <1>5, <2>1, <2>2, SuccKept
<1>6. LockHandedOn'
  <2>1. UNCHANGED <<cxq, entry, permit>>
    BY <1>3 DEF lists
  <2>2. (Tries(t) => Tries(t)') /\ (Dozes(t) => Tries(t)' \/ Dozes(t)')
    BY <1>0, <1>2, <1>3, <2>1, ThreadFacts DEF Flow, Tries, Dozes
  <2>3. th[t].pc \notin Checking /\ ~Wakes(t)
    BY <1>0 DEF Checking, Wakes
  <2>4. succ # NoThread => succ' # NoThread \/ Tries(t)'
    BY <1>0, <1>2, <1>3 DEF Flow, Tries
  <2> QED
    BY <1>0, <1>2, <1>3, <2>1, <2>2, <2>3, <2>4, CareKept
<1>7. recursions \in Nat
  BY ThreadFacts DEF TypeOK
<1> QED
  BY <1>0, <1>1, <1>2, <1>3, <1>4, <1>5, <1>6, <1>7, ThreadFacts, PlainStep DEF InsidePlaces

\* The responsible thread parks with a time limit
LEMMA ChooseParkInvariant ==
  ASSUME IInv, NEW t \in Threads, ChoosePark(t)
  PROVE  IInv'
<1> DEFINE p == IF responsible = t THEN "timed" ELSE "untimed"
<1>0. th[t].pc = "choose"
  BY DEF ChoosePark, At
<1>1. p \in {"timed", "untimed"} /\ p \in Places
  BY <1>0 DEF Places, Spinning, Queueing, Acquired, Exiting, Waiting
<1>2. Flow(t, p, th[t].frame, th[t].then, th[t].after, th[t].heir, th[t].saved)
  BY <1>0, <1>1, ThreadFacts, GotoFlow DEF ChoosePark
<1>3. UNCHANGED <<owner, recursions, succ, responsible, lists, permit, outside>>
  BY <1>0 DEF ChoosePark, lock, hints
<1>4. /\ Sound(p, th[t].frame, th[t].then, th[t].after)
      /\ NodeSound(node[t].state, p, th[t].then, th[t].after)
      /\ OwnerStep(t, p)
      /\ responsible = t => ResponsibleAt(p, th[t].frame, th[t].after)
  BY <1>0, <1>3, ThreadFacts
     DEF Sound, NodeSound, QueuedPlace, OwnerStep, ResponsibleAt, Holding, Acquired, Spinning, Queueing,
         Runtime, Reentering, Entering
<1>5. ASSUME succ = t
      PROVE  SuccGood(t)'
  <2>1. SuccPlace(p, th[t].then, th[t].after) /\ (th[t].pc \in Looking => p \in Looking)
    BY <1>0, <1>5, ThreadFacts DEF SuccGood, SuccPlace, QueuedPlace, Looking, Spinning, Queueing
  <2>2. permit' = permit
    BY <1>3
  <2> QED
    BY <1>0, <1>2, <1>5, <2>1, <2>2, SuccKept
<1>6. LockHandedOn'
  <2>1. UNCHANGED <<cxq, entry, permit>>
    BY <1>3 DEF lists
  <2>2. (Tries(t) => Tries(t)') /\ (Dozes(t) => Tries(t)' \/ Dozes(t)')
    BY <1>0, <1>2, <1>3, <2>1, ThreadFacts DEF Flow, Tries, Dozes
  <2>3. th[t].pc \notin Checking /\ ~Wakes(t)
    BY <1>0 DEF Checking, Wakes
  <2>4. succ # NoThread => succ' # NoThread \/ Tries(t)'
    BY <1>0, <1>2, <1>3 DEF Flow, Tries
  <2> QED
    BY <1>0, <1>2, <1>3, <2>1, <2>2, <2>3, <2>4, CareKept
<1>7. recursions \in Nat
  BY ThreadFacts DEF TypeOK
<1> HIDE DEF p
<1> QED
  BY <1>0, <1>1, <1>2, <1>3, <1>4, <1>5, <1>6, <1>7, ThreadFacts, PlainStep DEF InsidePlaces

LEMMA ParkTimesOutInvariant ==
  ASSUME IInv, NEW t \in Threads, ParkTimesOut(t)
  PROVE  IInv'
<1>0. th[t].pc = "timed"
  BY DEF ParkTimesOut, At
<1>1. "woken" \in Places
  BY DEF Places, Spinning, Queueing, Acquired, Exiting, Waiting
<1>2. Flow(t, "woken", th[t].frame, th[t].then, th[t].after, th[t].heir, th[t].saved)
  BY <1>0, <1>1, ThreadFacts, GotoFlow DEF ParkTimesOut
<1>3. UNCHANGED <<owner, recursions, succ, responsible, lists, permit, outside>>
  BY <1>0 DEF ParkTimesOut, lock, hints
<1>4. /\ Sound("woken", th[t].frame, th[t].then, th[t].after)
      /\ NodeSound(node[t].state, "woken", th[t].then, th[t].after)
      /\ OwnerStep(t, "woken")
      /\ responsible = t => ResponsibleAt("woken", th[t].frame, th[t].after)
  BY <1>0, <1>3, ThreadFacts
     DEF Sound, NodeSound, QueuedPlace, OwnerStep, ResponsibleAt, Holding, Acquired, Spinning, Queueing,
         Runtime, Reentering, Entering
<1>5. ASSUME succ = t
      PROVE  SuccGood(t)'
  <2>1. SuccPlace("woken", th[t].then, th[t].after) /\ (th[t].pc \in Looking => "woken" \in Looking)
    BY <1>0, <1>5, ThreadFacts DEF SuccGood, SuccPlace, QueuedPlace, Looking, Spinning, Queueing
  <2>2. permit' = permit
    BY <1>3
  <2> QED
    BY <1>0, <1>2, <1>5, <2>1, <2>2, SuccKept
<1>6. LockHandedOn'
  <2>1. UNCHANGED <<cxq, entry, permit>>
    BY <1>3 DEF lists
  <2>2. (Tries(t) => Tries(t)') /\ (Dozes(t) => Tries(t)' \/ Dozes(t)')
    BY <1>0, <1>2, <1>3, <2>1, ThreadFacts DEF Flow, Tries, Dozes
  <2>3. th[t].pc \notin Checking /\ ~Wakes(t)
    BY <1>0 DEF Checking, Wakes
  <2>4. succ # NoThread => succ' # NoThread \/ Tries(t)'
    BY <1>0, <1>2, <1>3 DEF Flow, Tries
  <2> QED
    BY <1>0, <1>2, <1>3, <2>1, <2>2, <2>3, <2>4, CareKept
<1>7. recursions \in Nat
  BY ThreadFacts DEF TypeOK
<1> QED
  BY <1>0, <1>1, <1>2, <1>3, <1>4, <1>5, <1>6, <1>7, ThreadFacts, PlainStep DEF InsidePlaces

LEMMA ClearInvariant ==
  ASSUME IInv, NEW t \in Threads, Clear(t)
  PROVE  IInv'
<1> DEFINE p == IF th[t].frame = "reenter" THEN "rtry" ELSE "try"
<1>0. th[t].pc = "clear"
  BY DEF Clear, At
<1>1. p \in {"rtry", "try"} /\ p \in Places
  BY <1>0 DEF Places, Spinning, Queueing, Acquired, Exiting, Waiting
<1>2. Flow(t, p, th[t].frame, th[t].then, th[t].after, th[t].heir, th[t].saved)
  BY <1>0, <1>1, ThreadFacts, GotoFlow DEF Clear
<1>3. /\ UNCHANGED <<owner, recursions, responsible, lists, permit, outside>>
      /\ succ' = IF succ = t THEN NoThread ELSE succ
  BY <1>0 DEF Clear, Resign, lock
<1>4. /\ Sound(p, th[t].frame, th[t].then, th[t].after)
      /\ NodeSound(node[t].state, p, th[t].then, th[t].after)
      /\ OwnerStep(t, p)
      /\ responsible = t => ResponsibleAt(p, th[t].frame, th[t].after)
  BY <1>0, <1>3, ThreadFacts
     DEF Sound, NodeSound, QueuedPlace, OwnerStep, ResponsibleAt, Holding, Acquired, Spinning, Queueing,
         Runtime, Reentering, Entering
<1>6. LockHandedOn'
  <2>1. UNCHANGED <<cxq, entry, permit>>
    BY <1>3 DEF lists
  <2>2. (Tries(t) => Tries(t)') /\ (Dozes(t) => Tries(t)' \/ Dozes(t)')
    BY <1>0, <1>2, <1>3, <2>1, ThreadFacts DEF Flow, Tries, Dozes
  <2>3. th[t].pc \notin Checking /\ ~Wakes(t)
    BY <1>0 DEF Checking, Wakes
  <2>4. succ # NoThread => succ' # NoThread \/ Tries(t)'
    BY <1>0, <1>2, <1>3 DEF Flow, Tries
  <2> QED
    BY <1>0, <1>2, <1>3, <2>1, <2>2, <2>3, <2>4, CareKept
<1>7. recursions \in Nat
  BY ThreadFacts DEF TypeOK
<1> HIDE DEF p
<1> QED
  BY <1>0, <1>1, <1>2, <1>3, <1>4, <1>6, <1>7, ThreadFacts, PlainStep DEF InsidePlaces

LEMMA PivotInvariant ==
  ASSUME IInv, NEW t \in Threads, Pivot(t)
  PROVE  IInv'
<1>0. th[t].pc = "pivot"
  BY DEF Pivot, At
<1>1. "acquired" \in Places
  BY DEF Places, Spinning, Queueing, Acquired, Exiting, Waiting
<1>2. Flow(t, "acquired", th[t].frame, th[t].then, th[t].after, th[t].heir, th[t].saved)
  BY <1>0, <1>1, ThreadFacts, GotoFlow DEF Pivot
<1>3. /\ UNCHANGED <<owner, recursions, succ, lists, permit, outside>>
      /\ responsible' = IF responsible = t THEN NoThread ELSE responsible
  BY <1>0 DEF Pivot, lock
<1>4. /\ Sound("acquired", th[t].frame, th[t].then, th[t].after)
      /\ NodeSound(node[t].state, "acquired", th[t].then, th[t].after)
      /\ OwnerStep(t, "acquired")
      /\ "pivot" \in Holding
  BY <1>0, <1>3, ThreadFacts
     DEF Sound, NodeSound, QueuedPlace, OwnerStep, ResponsibleAt, Holding, Acquired, Spinning, Queueing,
         Runtime, Reentering, Entering
<1>5. succ # t
  BY <1>0, ThreadFacts DEF SuccGood, SuccPlace, QueuedPlace, Spinning, Queueing, Sound, Runtime
<1>6. LockHandedOn'
  BY <1>0, <1>3, ThreadFacts DEF LockHandedOn, Holding, Acquired, Spinning, Queueing,
         Runtime, Reentering, Entering
<1>7. recursions \in Nat
  BY ThreadFacts DEF TypeOK
<1> QED
  BY <1>0, <1>1, <1>2, <1>3, <1>4, <1>5, <1>6, <1>7, ThreadFacts, PlainStep DEF InsidePlaces

\* A thread that looks at the lock before it parks, or after it was woken
LEMMA TryLockInvariant ==
  ASSUME IInv, NEW t \in Threads, TryLock(t)
  PROVE  IInv'
<1> DEFINE p == IF owner = NoThread THEN "unlink"
                  ELSE IF th[t].pc = "try" THEN "choose"
                  ELSE IF th[t].pc = "rwoken" THEN "clear" ELSE "spin"
<1>0. th[t].pc \in {"try", "woken", "rtry", "rwoken"}
  BY DEF TryLock, At
<1>1. p \in {"unlink", "choose", "clear", "spin"} /\ p \in Places
  BY <1>0 DEF Places, Spinning, Queueing, Acquired, Exiting, Waiting
<1>2. Flow(t, p, th[t].frame, th[t].then, (IF th[t].pc = "rtry" THEN "rpark" ELSE "clear"), th[t].heir, th[t].saved)
  <2> DEFINE b == (IF th[t].pc = "rtry" THEN "rpark" ELSE "clear")
  <2> DEFINE r == [th[t] EXCEPT !.pc = p, !.after = b]
  <2>0. b \in {"clear", "rpark"}
    OBVIOUS
  <2>1. th' = [th EXCEPT ![t] = r]
    BY <1>0 DEF TryLock
  <2> HIDE DEF p, b
  <2>2. /\ r \in Locals /\ r.pc = p /\ r.frame = th[t].frame /\ r.then = th[t].then
        /\ r.after = b /\ r.heir = th[t].heir /\ r.saved = th[t].saved
    BY <1>1, <2>0, ThreadFacts, FieldTypes DEF Locals
  <2> HIDE DEF r
  <2>3. Flow(t, p, th[t].frame, th[t].then, b, th[t].heir, th[t].saved)
    BY <2>1, <2>2, ThreadFacts, UpdateFlow
  <2> QED
    BY <2>3 DEF b
<1>3. /\ UNCHANGED <<recursions, succ, responsible, lists, permit, outside>>
      /\ owner' = IF owner = NoThread THEN t ELSE owner
  BY <1>0 DEF TryLock, hints
<1>4. /\ Sound(p, th[t].frame, th[t].then, (IF th[t].pc = "rtry" THEN "rpark" ELSE "clear"))
      /\ NodeSound(node[t].state, p, th[t].then, (IF th[t].pc = "rtry" THEN "rpark" ELSE "clear"))
      /\ OwnerStep(t, p)
      /\ responsible = t => ResponsibleAt(p, th[t].frame, (IF th[t].pc = "rtry" THEN "rpark" ELSE "clear"))
  BY <1>0, <1>3, ThreadFacts
     DEF Sound, NodeSound, QueuedPlace, OwnerStep, ResponsibleAt, Holding, Acquired, Spinning, Queueing,
         Runtime, Reentering, Entering
<1>5. ASSUME succ = t
      PROVE  SuccGood(t)'
  <2>1. SuccPlace(p, th[t].then, (IF th[t].pc = "rtry" THEN "rpark" ELSE "clear")) /\ (th[t].pc \in Looking => p \in Looking)
    BY <1>0, <1>5, ThreadFacts DEF SuccGood, SuccPlace, QueuedPlace, Looking, Spinning, Queueing
  <2>2. permit' = permit
    BY <1>3
  <2> QED
    BY <1>0, <1>2, <1>5, <2>1, <2>2, SuccKept
<1>6. LockHandedOn'
  BY <1>0, <1>3, ThreadFacts DEF LockHandedOn, Holding, Acquired, Spinning, Queueing,
         Runtime, Reentering, Entering
<1>7. recursions \in Nat
  BY ThreadFacts DEF TypeOK
<1> HIDE DEF p
<1> QED
  BY <1>0, <1>1, <1>2, <1>3, <1>4, <1>5, <1>6, <1>7, ThreadFacts, PlainStep DEF InsidePlaces

LEMMA EnterReturnsInvariant ==
  ASSUME IInv, NEW t \in Threads, EnterReturns(t)
  PROVE  IInv'
<1> DEFINE p == IF th[t].frame = "wait" THEN "waited" ELSE "owns"
<1>0. th[t].pc = "acquired"
  BY DEF EnterReturns, At
<1>1. p \in {"waited", "owns"} /\ p \in Places
  BY <1>0 DEF Places, Spinning, Queueing, Acquired, Exiting, Waiting
<1>2. Flow(t, p, th[t].frame, th[t].then, "push", th[t].heir, th[t].saved)
  <2> DEFINE r == [th[t] EXCEPT !.pc = p, !.after = "push"]
  <2>1. /\ r \in Locals /\ r.pc = p /\ r.frame = th[t].frame /\ r.then = th[t].then
        /\ r.after = "push" /\ r.heir = th[t].heir /\ r.saved = th[t].saved
    BY <1>0, <1>1, ThreadFacts, FieldTypes DEF Locals
  <2>2. th' = [th EXCEPT ![t] = r]
    BY <1>0 DEF EnterReturns
  <2> HIDE DEF r
  <2> QED
    BY <2>1, <2>2, ThreadFacts, UpdateFlow
<1>3. UNCHANGED <<owner, recursions, succ, responsible, lists, permit, outside>>
  BY <1>0 DEF EnterReturns, lock, hints
<1>4. /\ Sound(p, th[t].frame, th[t].then, "push")
      /\ NodeSound(node[t].state, p, th[t].then, "push")
      /\ OwnerStep(t, p)
      /\ responsible = t => ResponsibleAt(p, th[t].frame, "push")
  BY <1>0, <1>3, ThreadFacts
     DEF Sound, NodeSound, QueuedPlace, OwnerStep, ResponsibleAt, Holding, Acquired, Spinning, Queueing,
         Runtime, Reentering, Entering
<1>5. succ # t
  BY <1>0, ThreadFacts DEF SuccGood, SuccPlace, QueuedPlace, Spinning, Queueing, Sound, Runtime
<1>6. LockHandedOn'
  BY <1>0, <1>3, ThreadFacts DEF LockHandedOn, Holding, Acquired, Spinning, Queueing,
         Runtime, Reentering, Entering
<1>7. recursions \in Nat
  BY ThreadFacts DEF TypeOK
<1> HIDE DEF p
<1> QED
  BY <1>0, <1>1, <1>2, <1>3, <1>4, <1>5, <1>6, <1>7, ThreadFacts, PlainStep DEF InsidePlaces

LEMMA ResumedInvariant ==
  ASSUME IInv, NEW t \in Threads, Resumed(t)
  PROVE  IInv'
<1>0. th[t].pc = "suspended"
  BY DEF Resumed, At
<1>1. "spin" \in Places
  BY DEF Places, Spinning, Queueing, Acquired, Exiting, Waiting
<1>2. Flow(t, "spin", th[t].frame, th[t].then, "push", th[t].heir, th[t].saved)
  <2> DEFINE r == [th[t] EXCEPT !.pc = "spin", !.after = "push"]
  <2>1. /\ r \in Locals /\ r.pc = "spin" /\ r.frame = th[t].frame /\ r.then = th[t].then
        /\ r.after = "push" /\ r.heir = th[t].heir /\ r.saved = th[t].saved
    BY <1>0, <1>1, ThreadFacts, FieldTypes DEF Locals
  <2>2. th' = [th EXCEPT ![t] = r]
    BY <1>0 DEF Resumed
  <2> HIDE DEF r
  <2> QED
    BY <2>1, <2>2, ThreadFacts, UpdateFlow
<1>3. UNCHANGED <<owner, recursions, succ, responsible, lists, permit, outside>>
  BY <1>0 DEF Resumed, At, lock, hints
<1>4. /\ Sound("spin", th[t].frame, th[t].then, "push")
      /\ NodeSound(node[t].state, "spin", th[t].then, "push")
      /\ OwnerStep(t, "spin")
      /\ responsible = t => ResponsibleAt("spin", th[t].frame, "push")
  BY <1>0, <1>3, ThreadFacts
     DEF Sound, NodeSound, QueuedPlace, OwnerStep, ResponsibleAt, Holding, Acquired, Spinning, Queueing,
         Runtime, Reentering, Entering
<1>5. succ # t
  BY <1>0, ThreadFacts DEF SuccGood, SuccPlace, QueuedPlace, Spinning, Queueing, Sound, Runtime
<1>6. LockHandedOn'
  <2>1. UNCHANGED <<cxq, entry, permit>>
    BY <1>3 DEF lists
  <2>2. (Tries(t) => Tries(t)') /\ (Dozes(t) => Tries(t)' \/ Dozes(t)')
    BY <1>0, <1>2, <1>3, <2>1, ThreadFacts DEF Flow, Tries, Dozes
  <2>3. th[t].pc \notin Checking /\ ~Wakes(t)
    BY <1>0 DEF Checking, Wakes
  <2>4. succ # NoThread => succ' # NoThread \/ Tries(t)'
    BY <1>0, <1>2, <1>3 DEF Flow, Tries
  <2> QED
    BY <1>0, <1>2, <1>3, <2>1, <2>2, <2>3, <2>4, CareKept
<1>7. recursions \in Nat
  BY ThreadFacts DEF TypeOK
<1> QED
  BY <1>0, <1>1, <1>2, <1>3, <1>4, <1>5, <1>6, <1>7, ThreadFacts, PlainStep DEF InsidePlaces

-----------------------------------------------------------------------------
(* exit                                                                    *)

\* The 1-0 exit frees the lock if it has seen no thread queued
LEMMA FastExitInvariant ==
  ASSUME IInv, NEW t \in Threads, FastExit(t)
  PROVE  IInv'
<1> DEFINE p == IF cxq = <<>> /\ entry = <<>> THEN "drop10"
                  ELSE IF succ = NoThread THEN "exit" ELSE "dropsucc"
<1>0. th[t].pc = "fastexit"
  BY DEF FastExit, At
<1>1. p \in {"drop10", "exit", "dropsucc"} /\ p \in Places
  BY <1>0 DEF Places, Spinning, Queueing, Acquired, Exiting, Waiting
<1>2. Flow(t, p, th[t].frame, th[t].then, th[t].after, th[t].heir, th[t].saved)
  BY <1>0, <1>1, ThreadFacts, GotoFlow DEF FastExit
<1>3. UNCHANGED <<owner, recursions, succ, responsible, lists, permit, outside>>
  BY <1>0 DEF FastExit, lock, hints
<1>4. /\ Sound(p, th[t].frame, th[t].then, th[t].after)
      /\ NodeSound(node[t].state, p, th[t].then, th[t].after)
      /\ OwnerStep(t, p)
      /\ responsible = t => ResponsibleAt(p, th[t].frame, th[t].after)
      /\ p = "drop10" => cxq = <<>> /\ entry = <<>>
  BY <1>0, <1>3, ThreadFacts
     DEF Sound, NodeSound, QueuedPlace, OwnerStep, ResponsibleAt, Holding, Acquired, Spinning, Queueing,
         Runtime, Reentering, Entering
<1>5. succ # t
  BY <1>0, ThreadFacts DEF SuccGood, SuccPlace, QueuedPlace, Spinning, Queueing, Sound, Runtime
<1>6. LockHandedOn'
  BY <1>0, <1>3, ThreadFacts DEF LockHandedOn, Holding, Acquired, Spinning, Queueing,
         Runtime, Reentering, Entering
<1>7. recursions \in Nat
  BY ThreadFacts DEF TypeOK
<1> HIDE DEF p
<1> QED
  BY <1>0, <1>1, <1>2, <1>3, <1>4, <1>5, <1>6, <1>7, ThreadFacts, PlainStep DEF InsidePlaces

LEMMA DropSuccInvariant ==
  ASSUME IInv, NEW t \in Threads, DropSucc(t)
  PROVE  IInv'
<1>0. th[t].pc = "dropsucc"
  BY DEF DropSucc, At
<1>1. "recheck" \in Places
  BY DEF Places, Spinning, Queueing, Acquired, Exiting, Waiting
<1>2. Flow(t, "recheck", th[t].frame, th[t].then, th[t].after, th[t].heir, th[t].saved)
  BY <1>0, <1>1, ThreadFacts, GotoFlow DEF DropSucc
<1>3. UNCHANGED <<recursions, succ, responsible, lists, permit, outside>> /\ owner' = NoThread
  BY <1>0 DEF DropSucc, hints
<1>4. /\ Sound("recheck", th[t].frame, th[t].then, th[t].after)
      /\ NodeSound(node[t].state, "recheck", th[t].then, th[t].after)
      /\ OwnerStep(t, "recheck")
      /\ responsible = t => ResponsibleAt("recheck", th[t].frame, th[t].after)
  BY <1>0, <1>3, ThreadFacts
     DEF Sound, NodeSound, QueuedPlace, OwnerStep, ResponsibleAt, Holding, Acquired, Spinning, Queueing,
         Runtime, Reentering, Entering
<1>5. succ # t
  BY <1>0, ThreadFacts DEF SuccGood, SuccPlace, QueuedPlace, Spinning, Queueing, Sound, Runtime
<1>6. LockHandedOn'
  BY <1>2 DEF LockHandedOn, Checking, Flow
<1>7. recursions \in Nat
  BY ThreadFacts DEF TypeOK
<1> QED
  BY <1>0, <1>1, <1>2, <1>3, <1>4, <1>5, <1>6, <1>7, ThreadFacts, PlainStep DEF InsidePlaces

LEMMA ExitBeginInvariant ==
  ASSUME IInv, NEW t \in Threads, ExitBegin(t)
  PROVE  IInv'
<1>0. th[t].pc = "exit"
  BY DEF ExitBegin, At
<1>1. "drop" \in Places
  BY DEF Places, Spinning, Queueing, Acquired, Exiting, Waiting
<1>2. Flow(t, "drop", th[t].frame, th[t].then, th[t].after, th[t].heir, th[t].saved)
  BY <1>0, <1>1, ThreadFacts, GotoFlow DEF ExitBegin
<1>3. UNCHANGED <<owner, recursions, succ, lists, permit, outside>> /\ responsible' = NoThread
  BY <1>0 DEF ExitBegin, lock
<1>4. /\ Sound("drop", th[t].frame, th[t].then, th[t].after)
      /\ NodeSound(node[t].state, "drop", th[t].then, th[t].after)
      /\ OwnerStep(t, "drop")
      /\ "exit" \in Holding
  BY <1>0, <1>3, ThreadFacts
     DEF Sound, NodeSound, QueuedPlace, OwnerStep, ResponsibleAt, Holding, Acquired, Spinning, Queueing,
         Runtime, Reentering, Entering
<1>5. ASSUME succ = t
      PROVE  SuccGood(t)'
  <2>1. SuccPlace("drop", th[t].then, th[t].after) /\ (th[t].pc \in Looking => "drop" \in Looking)
    BY <1>0, <1>5, ThreadFacts DEF SuccGood, SuccPlace, QueuedPlace, Looking, Spinning, Queueing
  <2>2. permit' = permit
    BY <1>3
  <2> QED
    BY <1>0, <1>2, <1>5, <2>1, <2>2, SuccKept
<1>6. LockHandedOn'
  BY <1>0, <1>3, ThreadFacts DEF LockHandedOn, Holding, Acquired, Spinning, Queueing,
         Runtime, Reentering, Entering
<1>7. recursions \in Nat
  BY ThreadFacts DEF TypeOK
<1> QED
  BY <1>0, <1>1, <1>2, <1>3, <1>4, <1>5, <1>6, <1>7, ThreadFacts, PlainStep DEF InsidePlaces

LEMMA DropInvariant ==
  ASSUME IInv, NEW t \in Threads, Drop(t)
  PROVE  IInv'
<1>0. th[t].pc = "drop"
  BY DEF Drop, At
<1>1. "check" \in Places
  BY DEF Places, Spinning, Queueing, Acquired, Exiting, Waiting
<1>2. Flow(t, "check", th[t].frame, th[t].then, th[t].after, th[t].heir, th[t].saved)
  BY <1>0, <1>1, ThreadFacts, GotoFlow DEF Drop
<1>3. UNCHANGED <<recursions, succ, responsible, lists, permit, outside>> /\ owner' = NoThread
  BY <1>0 DEF Drop, hints
<1>4. /\ Sound("check", th[t].frame, th[t].then, th[t].after)
      /\ NodeSound(node[t].state, "check", th[t].then, th[t].after)
      /\ OwnerStep(t, "check")
      /\ responsible = t => ResponsibleAt("check", th[t].frame, th[t].after)
  BY <1>0, <1>3, ThreadFacts
     DEF Sound, NodeSound, QueuedPlace, OwnerStep, ResponsibleAt, Holding, Acquired, Spinning, Queueing,
         Runtime, Reentering, Entering
<1>5. ASSUME succ = t
      PROVE  SuccGood(t)'
  <2>1. SuccPlace("check", th[t].then, th[t].after) /\ (th[t].pc \in Looking => "check" \in Looking)
    BY <1>0, <1>5, ThreadFacts DEF SuccGood, SuccPlace, QueuedPlace, Looking, Spinning, Queueing
  <2>2. permit' = permit
    BY <1>3
  <2> QED
    BY <1>0, <1>2, <1>5, <2>1, <2>2, SuccKept
<1>6. LockHandedOn'
  BY <1>2 DEF LockHandedOn, Checking, Flow
<1>7. recursions \in Nat
  BY ThreadFacts DEF TypeOK
<1> QED
  BY <1>0, <1>1, <1>2, <1>3, <1>4, <1>5, <1>6, <1>7, ThreadFacts, PlainStep DEF InsidePlaces

\* The lock is freed while the thread still has to wake an heir from EntryList
LEMMA EpilogInvariant ==
  ASSUME IInv, NEW t \in Threads, Epilog(t)
  PROVE  IInv'
<1>0. th[t].pc = "epilog"
  BY DEF Epilog, At
<1>1. "unpark" \in Places
  BY DEF Places, Spinning, Queueing, Acquired, Exiting, Waiting
<1>2. Flow(t, "unpark", th[t].frame, th[t].then, th[t].after, th[t].heir, th[t].saved)
  BY <1>0, <1>1, ThreadFacts, GotoFlow DEF Epilog
<1>3. UNCHANGED <<recursions, succ, responsible, lists, permit, outside>> /\ owner' = NoThread
  BY <1>0 DEF Epilog, hints
<1>4. /\ Sound("unpark", th[t].frame, th[t].then, th[t].after)
      /\ NodeSound(node[t].state, "unpark", th[t].then, th[t].after)
      /\ OwnerStep(t, "unpark")
      /\ responsible = t => ResponsibleAt("unpark", th[t].frame, th[t].after)
  BY <1>0, <1>3, ThreadFacts
     DEF Sound, NodeSound, QueuedPlace, OwnerStep, ResponsibleAt, Holding, Acquired, Spinning, Queueing,
         Runtime, Reentering, Entering
<1>5. ASSUME succ = t
      PROVE  SuccGood(t)'
  <2>1. SuccPlace("unpark", th[t].then, th[t].after) /\ (th[t].pc \in Looking => "unpark" \in Looking)
    BY <1>0, <1>5, ThreadFacts DEF SuccGood, SuccPlace, QueuedPlace, Looking, Spinning, Queueing
  <2>2. permit' = permit
    BY <1>3
  <2> QED
    BY <1>0, <1>2, <1>5, <2>1, <2>2, SuccKept
<1>6. LockHandedOn'
  <2>1. th[t].heir \in Threads /\ On(entry, th[t].heir)
    BY <1>0 DEF IInv, CareInv, HeirSound
  <2>2. PICK w \in Threads : w = th[t].heir
    BY <2>1
  <2>3. node[w].state = "ENTER"
    BY <2>1, <2>2 DEF IInv, ListInv, ListsSound
  <2>4. QueuedPlace(th[w].pc, th[w].then, th[w].after)
    BY <2>3, ThreadFacts DEF NodeSound
  <2>5. th[w].pc = "unlink" => w = t
    BY <1>0, OneHolder DEF IInv, Holding, Acquired
  <2>6. Tries(w)' \/ Dozes(w)'
    BY <1>0, <1>2, <2>4, <2>5 DEF QueuedPlace, Tries, Dozes, Flow, Queueing, Spinning
  <2>7. Wakes(t)'
    BY <1>2, <2>2, <2>6 DEF Wakes, Flow
  <2> QED
    BY <2>7 DEF LockHandedOn
<1>7. recursions \in Nat
  BY ThreadFacts DEF TypeOK
<1> QED
  BY <1>0, <1>1, <1>2, <1>3, <1>4, <1>5, <1>6, <1>7, ThreadFacts, PlainStep DEF InsidePlaces

\* exit returns to its caller
LEMMA ReturnStep ==
  ASSUME IInv, NEW t \in Threads, Return(t), LockHandedOn',
         UNCHANGED <<recursions, hints, lists, permit, outside>>,
         \/ th[t].pc = "drop10" /\ owner' = NoThread
         \/ th[t].pc \in {"recheck", "check", "checksucc", "reacquire"} /\ owner' = owner
  PROVE  IInv'
<1>1. Flow(t, th[t].then, th[t].frame, "idle", th[t].after, NoThread, th[t].saved)
  BY ThreadFacts, ReturnFlow
<1>2. /\ Sound(th[t].then, th[t].frame, "idle", th[t].after)
      /\ NodeSound(node[t].state, th[t].then, "idle", th[t].after)
      /\ th[t].then \notin Holding \cup InsidePlaces
      /\ succ = t => SuccPlace(th[t].then, "idle", th[t].after)
      /\ responsible # t /\ th[t].pc \notin Looking
  BY ReturnPlace
<1>3. OwnerStep(t, th[t].then)
  BY <1>2, ThreadFacts DEF OwnerStep, Holding, Acquired
<1>4. UNCHANGED <<succ, responsible, permit>>
  BY DEF hints
<1>5. succ = t => SuccGood(t)'
  BY <1>1, <1>2, <1>4, SuccKept
<1>6. recursions \in Nat /\ th[t].then \in {"idle", "waiting", "suspended"}
  BY ThreadFacts DEF TypeOK
<1> QED
  BY <1>1, <1>2, <1>3, <1>4, <1>5, <1>6, PlainStep DEF InsidePlaces

\* exit goes on after it has freed the lock
LEMMA ExitGoesOn ==
  ASSUME IInv, NEW t \in Threads, NEW p \in {"exit", "checksucc", "reacquire", "heir"}, Goto(t, p),
         UNCHANGED <<recursions, hints, lists, permit, outside>>,
         th[t].pc \in {"recheck", "check", "checksucc", "reacquire"},
         IF p \in {"exit", "heir"} THEN owner = NoThread /\ owner' = t ELSE owner' = owner
  PROVE  IInv'
<1>1. p \in Places
  BY DEF Places, Exiting
<1>2. Flow(t, p, th[t].frame, th[t].then, th[t].after, th[t].heir, th[t].saved)
  BY <1>1, ThreadFacts, GotoFlow
<1>3. /\ Sound(p, th[t].frame, th[t].then, th[t].after)
      /\ NodeSound(node[t].state, p, th[t].then, th[t].after)
      /\ OwnerStep(t, p) /\ responsible # t
  BY ThreadFacts
     DEF Sound, NodeSound, QueuedPlace, OwnerStep, ResponsibleAt, Holding, Acquired, Spinning, Queueing,
         Runtime, Reentering, Entering
<1>4. UNCHANGED <<succ, responsible, permit>>
  BY DEF hints
<1>5. ASSUME succ = t
      PROVE  SuccGood(t)'
  <2>1. SuccPlace(p, th[t].then, th[t].after) /\ th[t].pc \notin Looking
    BY <1>5, ThreadFacts DEF SuccGood, SuccPlace, QueuedPlace, Looking, Spinning, Queueing
  <2> QED
    BY <1>2, <1>4, <1>5, <2>1, SuccKept
<1>6. LockHandedOn'
  <2>1. CASE p \in {"exit", "heir"}
    BY <2>1, ThreadFacts DEF LockHandedOn
  <2>2. CASE p \in {"checksucc", "reacquire"}
    BY <1>2, <2>2 DEF LockHandedOn, Checking, Flow
  <2> QED
    BY <2>1, <2>2
<1>7. recursions \in Nat
  BY ThreadFacts DEF TypeOK
<1> QED
  BY <1>2, <1>3, <1>4, <1>5, <1>6, <1>7, PlainStep DEF InsidePlaces

\* Threads that have queued since the 1-0 exit looked have a responsible one, which
\* is awake or parked with a time limit
LEMMA Drop10Invariant ==
  ASSUME IInv, NEW t \in Threads, Drop10(t)
  PROVE  IInv'
<1>0. th[t].pc = "drop10"
  BY DEF Drop10, At
<1>1. Flow(t, th[t].then, th[t].frame, "idle", th[t].after, NoThread, th[t].saved)
  BY ThreadFacts, ReturnFlow DEF Drop10
<1>2. UNCHANGED <<responsible, cxq, entry, permit>>
  BY DEF Drop10, hints, lists
<1>3. LockHandedOn'
  <2> SUFFICES ASSUME cxq # <<>> \/ entry # <<>>
               PROVE  \E u \in Threads : Tries(u)'
    BY <1>2 DEF LockHandedOn
  <2>1. responsible # NoThread \/ \E u \in Threads : th[u].pc = "elect"
    BY <1>0 DEF IInv, CareInv, FastSound
  <2>2. ASSUME NEW u \in Threads, th[u].pc = "elect"
        PROVE  Tries(u)'
    BY <1>0, <1>1, <2>2 DEF Tries, Flow
  <2>3. ASSUME responsible # NoThread
        PROVE  responsible \in Threads /\ \A u \in Threads : u = responsible => Tries(u)'
    <3>1. responsible \in Threads
      BY <2>3 DEF IInv, LockInv, TypeOK
    <3>2. PICK u \in Threads : u = responsible
      BY <3>1
    <3>3. ResponsibleAt(th[u].pc, th[u].frame, th[u].after)
      BY <3>2, ThreadFacts
    <3>4. u # t
      BY <1>0, <3>3 DEF ResponsibleAt, Spinning
    <3>5. th[u].pc \notin {"unlink", "pivot"}
      BY <1>0, <3>4, OneHolder DEF IInv, Holding, Acquired
    <3>6. th'[u] = th[u] /\ responsible' = u
      BY <1>1, <1>2, <3>2, <3>4 DEF Flow
    <3> QED
      BY <3>1, <3>2, <3>3, <3>5, <3>6 DEF Tries, ResponsibleAt, Spinning
  <2> QED
    BY <2>1, <2>2, <2>3
<1> QED
  BY <1>0, <1>3, ReturnStep DEF Drop10

LEMMA RecheckInvariant ==
  ASSUME IInv, NEW t \in Threads, Recheck(t)
  PROVE  IInv'
<1>0. th[t].pc = "recheck" /\ UNCHANGED <<recursions, hints, lists, permit, outside>>
  BY DEF Recheck, At
<1>1. CASE succ = NoThread /\ owner = NoThread
  BY <1>0, <1>1, ExitGoesOn DEF Recheck
<1>2. CASE ~(succ = NoThread /\ owner = NoThread)
  <2>1. owner' = owner /\ succ' = succ /\ Return(t)
    BY <1>2 DEF Recheck, hints
  <2>2. LockHandedOn'
    BY <1>2, <2>1 DEF LockHandedOn
  <2> QED
    BY <1>0, <2>1, <2>2, ReturnStep
<1> QED
  BY <1>1, <1>2

LEMMA CheckInvariant ==
  ASSUME IInv, NEW t \in Threads, Check(t)
  PROVE  IInv'
<1>0. /\ th[t].pc = "check" /\ UNCHANGED <<recursions, hints, lists, permit, outside>>
      /\ UNCHANGED <<owner, cxq, entry>>
  BY DEF Check, At, lock, lists
<1>1. CASE cxq = <<>> /\ entry = <<>>
  <2>1. LockHandedOn'
    BY <1>0, <1>1 DEF LockHandedOn
  <2> QED
    BY <1>0, <1>1, <2>1, ReturnStep DEF Check
<1>2. CASE ~(cxq = <<>> /\ entry = <<>>)
  BY <1>0, <1>2, ExitGoesOn DEF Check
<1> QED
  BY <1>1, <1>2

LEMMA CheckSuccInvariant ==
  ASSUME IInv, NEW t \in Threads, CheckSucc(t)
  PROVE  IInv'
<1>0. /\ th[t].pc = "checksucc" /\ UNCHANGED <<recursions, hints, lists, permit, outside>>
      /\ UNCHANGED <<owner, succ>>
  BY DEF CheckSucc, At, lock, hints
<1>1. CASE succ # NoThread
  <2>1. LockHandedOn'
    BY <1>0, <1>1 DEF LockHandedOn
  <2> QED
    BY <1>0, <1>1, <2>1, ReturnStep DEF CheckSucc
<1>2. CASE succ = NoThread
  BY <1>0, <1>2, ExitGoesOn DEF CheckSucc
<1> QED
  BY <1>1, <1>2

LEMMA ReacquireInvariant ==
  ASSUME IInv, NEW t \in Threads, Reacquire(t)
  PROVE  IInv'
<1>0. th[t].pc = "reacquire" /\ UNCHANGED <<recursions, hints, lists, permit, outside>>
  BY DEF Reacquire, At
<1>1. CASE owner = NoThread
  BY <1>0, <1>1, ExitGoesOn DEF Reacquire
<1>2. CASE owner # NoThread
  <2>1. owner' = owner /\ Return(t)
    BY <1>2 DEF Reacquire
  <2>2. LockHandedOn'
    BY <1>2, <2>1 DEF LockHandedOn
  <2> QED
    BY <1>0, <2>1, <2>2, ReturnStep
<1> QED
  BY <1>1, <1>2

-----------------------------------------------------------------------------
(* Calls of enter and exit                                                 *)

LEMMA EnterInvariant ==
  ASSUME IInv, NEW t \in Threads, Enter(t)
  PROVE  IInv'
<1> DEFINE p == IF owner \in {NoThread, t} THEN "owns" ELSE "spin"
<1>0. th[t].pc \in {"idle", "owns"} /\ th[t].enters > 0
  BY DEF Enter
<1>1. p \in {"owns", "spin"} /\ p \in Places
  BY DEF Places, Acquired, Spinning
<1>2. Flow(t, p, "enter", th[t].then, "push", th[t].heir, th[t].saved)
  <2> DEFINE r == [th[t] EXCEPT !.pc = p, !.frame = "enter", !.after = "push", !.enters = @ - 1]
  <2>1. th' = [th EXCEPT ![t] = r]
    BY DEF Enter
  <2> HIDE DEF p
  <2>2. /\ r \in Locals /\ r.pc = p /\ r.frame = "enter" /\ r.then = th[t].then
        /\ r.after = "push" /\ r.heir = th[t].heir /\ r.saved = th[t].saved
    <3>1. th[t].enters - 1 \in Nat
      BY <1>0, ThreadFacts, FieldTypes
    <3> QED
      BY <1>1, <3>1, ThreadFacts, FieldTypes DEF Locals
  <2> HIDE DEF r
  <2> QED
    BY <2>1, <2>2, ThreadFacts, UpdateFlow
<1>3. /\ UNCHANGED <<succ, responsible, lists, permit, outside>>
      /\ owner' = IF owner = NoThread THEN t ELSE owner
      /\ recursions' = IF owner = t THEN recursions + 1 ELSE recursions
  BY DEF Enter, hints
<1>4. /\ Sound(p, "enter", th[t].then, "push")
      /\ NodeSound(node[t].state, p, th[t].then, "push")
      /\ OwnerStep(t, p) /\ responsible # t /\ succ # t
  BY <1>0, <1>3, ThreadFacts
     DEF Sound, NodeSound, QueuedPlace, OwnerStep, ResponsibleAt, SuccGood, SuccPlace, Holding,
         Acquired, Spinning, Queueing, Runtime, Reentering, Entering
<1>5. recursions' \in Nat
  BY <1>3, ThreadFacts DEF TypeOK
<1>6. recursions' # 0 => p \in InsidePlaces \/ (recursions' = recursions /\ th[t].pc \notin InsidePlaces)
  BY <1>0, <1>3, ThreadFacts DEF InsidePlaces, Holding, Acquired
<1>7. LockHandedOn'
  BY <1>3, ThreadFacts DEF LockHandedOn
<1> HIDE DEF p
<1> QED
  BY <1>0, <1>1, <1>2, <1>3, <1>4, <1>5, <1>6, <1>7, PlainStep

LEMMA ExitInvariant ==
  ASSUME IInv, NEW t \in Threads, Exit(t)
  PROVE  IInv'
<1>0. th[t].pc \in {"owns", "iex"} /\ UNCHANGED <<owner, succ, responsible, lists, permit, outside>>
  BY DEF Exit, hints
<1>1. recursions \in Nat /\ th[t].then = "idle" /\ owner = t /\ succ # t /\ responsible # t
  BY <1>0, ThreadFacts
     DEF TypeOK, Sound, Runtime, Holding, Acquired, SuccGood, SuccPlace, QueuedPlace, ResponsibleAt,
         Spinning, Queueing
<1>2. LockHandedOn'
  BY <1>0, <1>1, ThreadFacts DEF LockHandedOn
<1>3. ASSUME NEW p \in {"owns", "fastexit", "exit"}
      PROVE  /\ Sound(p, th[t].frame, "idle", th[t].after) /\ OwnerStep(t, p) /\ p \in Places
             /\ NodeSound(node[t].state, p, "idle", th[t].after)
  BY <1>0, <1>1, <1>3, ThreadFacts
     DEF Sound, NodeSound, QueuedPlace, OwnerStep, Places, Holding, Acquired, Spinning, Queueing, Runtime,
         Reentering, Entering, Exiting
<1>4. CASE recursions > 0
  <2>1. recursions' = recursions - 1 /\ Goto(t, "owns")
    BY <1>1, <1>4 DEF Exit
  <2>2. Flow(t, "owns", th[t].frame, "idle", th[t].after, th[t].heir, th[t].saved)
    BY <1>1, <1>3, <2>1, ThreadFacts, GotoFlow
  <2>3. recursions' \in Nat
    BY <1>1, <1>4, <2>1
  <2> QED
    BY <1>0, <1>1, <1>2, <1>3, <2>2, <2>3, PlainStep DEF InsidePlaces
<1>5. CASE recursions = 0
  <2>1. PICK l \in {"fastexit", "exit"} : th' = [th EXCEPT ![t].pc = l, ![t].then = "idle"]
    BY <1>5 DEF Exit
  <2>2. recursions' = recursions
    BY <1>5 DEF Exit
  <2>3. Flow(t, l, th[t].frame, "idle", th[t].after, th[t].heir, th[t].saved)
    <3> DEFINE r == [th[t] EXCEPT !.pc = l, !.then = "idle"]
    <3>1. /\ r \in Locals /\ r.pc = l /\ r.frame = th[t].frame /\ r.then = "idle"
          /\ r.after = th[t].after /\ r.heir = th[t].heir /\ r.saved = th[t].saved
      BY <1>3, ThreadFacts, FieldTypes DEF Locals
    <3>2. th' = [th EXCEPT ![t] = r]
      BY <2>1
    <3> HIDE DEF r
    <3> QED
      BY <3>1, <3>2, ThreadFacts, UpdateFlow
  <2>4. recursions' \in Nat /\ recursions' = 0
    BY <1>1, <1>5, <2>2
  <2> QED
    BY <1>0, <1>1, <1>2, <1>3, <2>3, <2>4, PlainStep DEF InsidePlaces
<1> QED
  BY <1>1, <1>4, <1>5

-----------------------------------------------------------------------------
(* wait, as far as it leaves the lists alone                               *)

\* A thread that is interrupted does not park
LEMMA WaitDecideInvariant ==
  ASSUME IInv, NEW t \in Threads, WaitDecide(t)
  PROVE  IInv'
<1> DEFINE p == IF t \in interrupted \/ node[t].notified THEN "dequeue" ELSE "waitpark"
<1>0. th[t].pc = "waiting"
  BY DEF WaitDecide, At
<1>1. p \in {"dequeue", "waitpark"} /\ p \in Places
  BY <1>0 DEF Places, Spinning, Queueing, Acquired, Exiting, Waiting
<1>2. Flow(t, p, th[t].frame, th[t].then, th[t].after, th[t].heir, th[t].saved)
  BY <1>0, <1>1, ThreadFacts, GotoFlow DEF WaitDecide
<1>3. UNCHANGED <<owner, recursions, succ, responsible, lists, permit, outside>>
  BY <1>0 DEF WaitDecide, lock, hints
<1>4. /\ Sound(p, th[t].frame, th[t].then, th[t].after)
      /\ NodeSound(node[t].state, p, th[t].then, th[t].after)
      /\ OwnerStep(t, p)
      /\ responsible = t => ResponsibleAt(p, th[t].frame, th[t].after)
      /\ p = "waitpark" => t \notin interrupted
  BY <1>0, <1>3, ThreadFacts
     DEF Sound, NodeSound, QueuedPlace, OwnerStep, ResponsibleAt, Holding, Acquired, Spinning, Queueing,
         Runtime, Reentering, Entering
<1>5. ASSUME succ = t
      PROVE  SuccGood(t)'
  <2>1. SuccPlace(p, th[t].then, th[t].after) /\ (th[t].pc \in Looking => p \in Looking)
    BY <1>0, <1>5, ThreadFacts DEF SuccGood, SuccPlace, QueuedPlace, Looking, Spinning, Queueing
  <2>2. permit' = permit
    BY <1>3
  <2> QED
    BY <1>0, <1>2, <1>5, <2>1, <2>2, SuccKept
<1>6. LockHandedOn'
  <2>1. UNCHANGED <<cxq, entry, permit>>
    BY <1>3 DEF lists
  <2>2. (Tries(t) => Tries(t)') /\ (Dozes(t) => Tries(t)' \/ Dozes(t)')
    BY <1>0, <1>2, <1>3, <2>1, ThreadFacts DEF Flow, Tries, Dozes
  <2>3. th[t].pc \notin Checking /\ ~Wakes(t)
    BY <1>0 DEF Checking, Wakes
  <2>4. succ # NoThread => succ' # NoThread \/ Tries(t)'
    BY <1>0, <1>2, <1>3 DEF Flow, Tries
  <2> QED
    BY <1>0, <1>2, <1>3, <2>1, <2>2, <2>3, <2>4, CareKept
<1>7. recursions \in Nat
  BY ThreadFacts DEF TypeOK
<1> HIDE DEF p
<1> QED
  BY <1>0, <1>1, <1>2, <1>3, <1>4, <1>5, <1>6, <1>7, ThreadFacts, PlainStep DEF InsidePlaces

LEMMA WaitReenterInvariant ==
  ASSUME IInv, NEW t \in Threads, WaitReenter(t)
  PROVE  IInv'
<1> DEFINE p == IF node[t].state = "RUN" THEN "spin" ELSE "rtry"
<1>0. th[t].pc = "reenter"
  BY DEF WaitReenter, At
<1>1. p \in {"spin", "rtry"} /\ p \in Places
  BY <1>0 DEF Places, Spinning, Queueing, Acquired, Exiting, Waiting
<1>2. Flow(t, p, (IF node[t].state = "RUN" THEN "wait" ELSE "reenter"), th[t].then, "push", th[t].heir,
           th[t].saved)
  <2> DEFINE g == IF node[t].state = "RUN" THEN "wait" ELSE "reenter"
  <2> DEFINE r == [th[t] EXCEPT !.was = node[t].notified, !.pc = p, !.after = "push", !.frame = g]
  <2>0. g \in {"wait", "reenter"} /\ node[t].notified \in BOOLEAN
    BY ThreadFacts DEF TypeOK
  <2>1. th' = [th EXCEPT ![t] = r]
    BY <1>0 DEF WaitReenter
  <2> HIDE DEF p, g
  <2>2. /\ r \in Locals /\ r.pc = p /\ r.frame = g /\ r.then = th[t].then
        /\ r.after = "push" /\ r.heir = th[t].heir /\ r.saved = th[t].saved
    BY <1>1, <2>0, ThreadFacts, FieldTypes DEF Locals
  <2> HIDE DEF r
  <2>3. Flow(t, p, g, th[t].then, "push", th[t].heir, th[t].saved)
    BY <2>1, <2>2, ThreadFacts, UpdateFlow
  <2> QED
    BY <2>3 DEF g
<1>3. /\ UNCHANGED <<owner, recursions, responsible, lists, permit, outside>>
      /\ succ' = IF succ = t THEN NoThread ELSE succ
  BY <1>0 DEF WaitReenter, Resign, lock
<1>4. /\ Sound(p, (IF node[t].state = "RUN" THEN "wait" ELSE "reenter"), th[t].then, "push")
      /\ NodeSound(node[t].state, p, th[t].then, "push")
      /\ OwnerStep(t, p)
      /\ responsible = t => ResponsibleAt(p, (IF node[t].state = "RUN" THEN "wait" ELSE "reenter"), "push")
  BY <1>0, <1>3, ThreadFacts
     DEF Sound, NodeSound, QueuedPlace, OwnerStep, ResponsibleAt, Holding, Acquired, Spinning, Queueing,
         Runtime, Reentering, Entering
<1>6. LockHandedOn'
  <2>1. UNCHANGED <<cxq, entry, permit>>
    BY <1>3 DEF lists
  <2>2. (Tries(t) => Tries(t)') /\ (Dozes(t) => Tries(t)' \/ Dozes(t)')
    BY <1>0, <1>2, <1>3, <2>1, ThreadFacts DEF Flow, Tries, Dozes
  <2>3. th[t].pc \notin Checking /\ ~Wakes(t)
    BY <1>0 DEF Checking, Wakes
  <2>4. succ # NoThread => succ' # NoThread \/ Tries(t)'
    BY <1>0, <1>2, <1>3 DEF Flow, Tries
  <2> QED
    BY <1>0, <1>2, <1>3, <2>1, <2>2, <2>3, <2>4, CareKept
<1>7. recursions \in Nat
  BY ThreadFacts DEF TypeOK
<1> HIDE DEF p
<1> QED
  BY <1>0, <1>1, <1>2, <1>3, <1>4, <1>6, <1>7, ThreadFacts, PlainStep DEF InsidePlaces

-----------------------------------------------------------------------------
(* Events, suspension and interrupts                                       *)

LEMMA PushFailsInvariant ==
  ASSUME IInv, NEW t \in Threads, PushFails(t)
  PROVE  IInv'
<1>0. /\ th[t].pc = "push" /\ owner = NoThread /\ owner' = t /\ permit' = permit \ {t}
      /\ UNCHANGED <<recursions, succ, responsible, lists, interrupted, asks>>
  BY DEF PushFails, At, hints, outside
<1>1. Flow(t, "acquired", th[t].frame, th[t].then, th[t].after, th[t].heir, th[t].saved)
  <2>1. "acquired" \in Places
    BY DEF Places, Acquired
  <2> QED
    BY <2>1, ThreadFacts, GotoFlow DEF PushFails
<1>2. /\ Sound("acquired", th[t].frame, th[t].then, th[t].after)
      /\ NodeSound(node[t].state, "acquired", th[t].then, th[t].after)
      /\ OwnerStep(t, "acquired") /\ responsible # t /\ succ # t
  BY <1>0, ThreadFacts
     DEF Sound, NodeSound, QueuedPlace, OwnerStep, ResponsibleAt, SuccGood, SuccPlace, Holding,
         Acquired, Spinning, Queueing, Runtime, Reentering, Entering
<1>3. LockHandedOn'
  BY <1>0, ThreadFacts DEF LockHandedOn
<1>4. /\ recursions \in Nat /\ permit' \subseteq Threads
      /\ asks' \in [interrupt : SUBSET Threads, suspend : SUBSET Threads]
  BY <1>0, ThreadFacts DEF TypeOK
<1> QED
  BY <1>0, <1>1, <1>2, <1>3, <1>4, EventStep DEF InsidePlaces

\* A thread that is woken is awake
LEMMA ParkInvariant ==
  ASSUME IInv, NEW t \in Threads, Park(t)
  PROVE  IInv'
<1> DEFINE p == IF th[t].pc = "rpark" THEN "rwoken" ELSE "woken"
<1>0. /\ th[t].pc \in {"timed", "untimed", "rpark"} /\ permit' = permit \ {t}
      /\ UNCHANGED <<owner, recursions, succ, responsible, lists, interrupted, asks>>
  BY DEF Park, lock, hints, outside
<1>1. p \in {"woken", "rwoken"} /\ p \in Places
  BY DEF Places, Queueing
<1>2. Flow(t, p, th[t].frame, th[t].then, th[t].after, th[t].heir, th[t].saved)
  BY <1>1, ThreadFacts, GotoFlow DEF Park, At
<1>3. /\ Sound(p, th[t].frame, th[t].then, th[t].after)
      /\ NodeSound(node[t].state, p, th[t].then, th[t].after) /\ OwnerStep(t, p)
      /\ responsible = t => ResponsibleAt(p, th[t].frame, th[t].after)
  BY <1>0, ThreadFacts
     DEF Sound, NodeSound, QueuedPlace, OwnerStep, ResponsibleAt, Holding,
         Acquired, Spinning, Queueing, Runtime, Reentering, Entering
<1>4. p \in Looking /\ SuccPlace(p, th[t].then, th[t].after)
  BY DEF Looking, SuccPlace, QueuedPlace, Queueing
<1>5. succ = t => SuccGood(t)'
  BY <1>0, <1>2, <1>4, SuccKept
<1>6. LockHandedOn'
  <2>1. UNCHANGED <<cxq, entry>>
    BY <1>0 DEF lists
  <2>2. Tries(t)'
    BY <1>1, <1>2 DEF Tries, Flow
  <2>3. th[t].pc \notin Checking /\ ~Wakes(t)
    BY <1>0 DEF Checking, Wakes
  <2> QED
    BY <1>0, <1>2, <2>1, <2>2, <2>3, CareKept
<1>7. /\ recursions \in Nat /\ permit' \subseteq Threads
      /\ asks' \in [interrupt : SUBSET Threads, suspend : SUBSET Threads]
  BY <1>0, ThreadFacts DEF TypeOK
<1> HIDE DEF p
<1> QED
  BY <1>0, <1>1, <1>2, <1>3, <1>5, <1>6, <1>7, EventStep DEF InsidePlaces

LEMMA ReenterSuspendedInvariant ==
  ASSUME IInv, NEW t \in Threads, ReenterSuspended(t)
  PROVE  IInv'
<1>0. /\ th[t].pc = "rwoken" /\ asks' = [asks EXCEPT !.suspend = @ \ {t}]
      /\ succ' = IF succ = t THEN NoThread ELSE succ
      /\ UNCHANGED <<owner, recursions, responsible, lists, permit, interrupted, th>>
  BY DEF ReenterSuspended, At, Resign, lock
<1>1. Flow(t, "rwoken", th[t].frame, th[t].then, th[t].after, th[t].heir, th[t].saved)
  BY <1>0, ThreadFacts DEF Flow, TypeOK
<1>2. /\ Sound("rwoken", th[t].frame, th[t].then, th[t].after)
      /\ NodeSound(node[t].state, "rwoken", th[t].then, th[t].after) /\ OwnerStep(t, "rwoken")
      /\ responsible # t
  BY <1>0, ThreadFacts DEF OwnerStep, ResponsibleAt, Spinning
<1>3. LockHandedOn'
  <2>1. UNCHANGED <<cxq, entry>>
    BY <1>0 DEF lists
  <2>2. Tries(t)'
    BY <1>0 DEF Tries
  <2>3. th[t].pc \notin Checking /\ ~Wakes(t)
    BY <1>0 DEF Checking, Wakes
  <2> QED
    BY <1>0, <1>1, <2>1, <2>2, <2>3, CareKept
<1>4. /\ recursions \in Nat /\ permit' \subseteq Threads
      /\ asks' \in [interrupt : SUBSET Threads, suspend : SUBSET Threads]
  BY <1>0, ThreadFacts DEF TypeOK
<1> QED
  BY <1>0, <1>1, <1>2, <1>3, <1>4, EventStep DEF InsidePlaces

LEMMA EnterSuspendedInvariant ==
  ASSUME IInv, NEW t \in Threads, EnterSuspended(t)
  PROVE  IInv'
<1>0. /\ th[t].pc = "acquired" /\ asks' = [asks EXCEPT !.suspend = @ \ {t}]
      /\ recursions' = 0 /\ succ' = NoThread
      /\ UNCHANGED <<owner, responsible, lists, permit, interrupted>>
  BY DEF EnterSuspended, At
<1>1. Flow(t, "exit", th[t].frame, "suspended", th[t].after, th[t].heir, th[t].saved)
  <2> DEFINE r == [th[t] EXCEPT !.pc = "exit", !.then = "suspended"]
  <2>1. /\ r \in Locals /\ r.pc = "exit" /\ r.frame = th[t].frame /\ r.then = "suspended"
        /\ r.after = th[t].after /\ r.heir = th[t].heir /\ r.saved = th[t].saved
    BY ThreadFacts, FieldTypes DEF Locals, Places, Exiting
  <2>2. th' = [th EXCEPT ![t] = r]
    BY DEF EnterSuspended
  <2> HIDE DEF r
  <2> QED
    BY <2>1, <2>2, ThreadFacts, UpdateFlow
<1>2. /\ Sound("exit", th[t].frame, "suspended", th[t].after)
      /\ NodeSound(node[t].state, "exit", "suspended", th[t].after)
      /\ OwnerStep(t, "exit") /\ responsible # t /\ owner = t
  BY <1>0, ThreadFacts
     DEF Sound, NodeSound, QueuedPlace, OwnerStep, ResponsibleAt, Holding,
         Acquired, Spinning, Queueing, Runtime, Reentering, Entering
<1>3. LockHandedOn'
  BY <1>0, <1>2, ThreadFacts DEF LockHandedOn
<1>4. /\ recursions' \in Nat /\ permit' \subseteq Threads
      /\ asks' \in [interrupt : SUBSET Threads, suspend : SUBSET Threads]
  BY <1>0, ThreadFacts DEF TypeOK
<1> QED
  BY <1>0, <1>1, <1>2, <1>3, <1>4, EventStep DEF InsidePlaces

\* Whoever was chosen as the heir, and is still asleep or about to sleep, wakes up
LEMMA UnparkInvariant ==
  ASSUME IInv, NEW t \in Threads, Unpark(t)
  PROVE  IInv'
<1>0. /\ th[t].pc = "unpark" /\ permit' = permit \cup {th[t].heir} /\ Return(t)
      /\ UNCHANGED <<owner, recursions, succ, responsible, lists, interrupted, asks>>
  BY DEF Unpark, At, lock, hints, outside
<1>1. Flow(t, th[t].then, th[t].frame, "idle", th[t].after, NoThread, th[t].saved)
  BY <1>0, ThreadFacts, ReturnFlow
<1>2. /\ Sound(th[t].then, th[t].frame, "idle", th[t].after)
      /\ NodeSound(node[t].state, th[t].then, "idle", th[t].after)
      /\ th[t].then \notin Holding \cup InsidePlaces
      /\ succ = t => SuccPlace(th[t].then, "idle", th[t].after)
      /\ responsible # t /\ th[t].pc \notin Looking
  BY <1>0, ReturnPlace
<1>3. OwnerStep(t, th[t].then)
  BY <1>0, <1>2, ThreadFacts DEF OwnerStep, Holding, Acquired
<1>4. PICK w \in Threads : w = th[t].heir
  BY <1>0 DEF IInv, CareInv, HeirSound
<1>5. succ = t => SuccGood(t)'
  BY <1>0, <1>1, <1>2, SuccKept
<1>6. LockHandedOn'
  <2>1. UNCHANGED <<cxq, entry>>
    BY <1>0 DEF lists
  <2>2. (Tries(t) => Tries(t)') /\ (Dozes(t) => Tries(t)' \/ Dozes(t)')
    BY <1>0, <1>1 DEF Tries, Dozes, Flow
  <2>3. Tries(w) \/ Dozes(w) => Tries(w)'
    BY <1>0, <1>1, <1>4 DEF Tries, Dozes, Flow
  <2>4. th[t].pc \notin Checking
    BY <1>0 DEF Checking
  <2> QED
    BY <1>0, <1>1, <1>4, <2>1, <2>2, <2>3, <2>4, CareKept DEF Wakes
<1>7. /\ recursions \in Nat /\ permit' \subseteq Threads
      /\ asks' \in [interrupt : SUBSET Threads, suspend : SUBSET Threads]
      /\ th[t].then \in {"idle", "waiting", "suspended"}
  BY <1>0, <1>4, ThreadFacts DEF TypeOK
<1> QED
  BY <1>0, <1>1, <1>2, <1>3, <1>5, <1>6, <1>7, EventStep DEF InsidePlaces

LEMMA WaitCallInvariant ==
  ASSUME IInv, NEW t \in Threads, NEW b \in BOOLEAN, WaitCall(t, b)
  PROVE  IInv'
<1> DEFINE p == IF t \in interrupted THEN "owns" ELSE "wait"
<1>0. /\ th[t].pc = "owns" /\ th[t].waits > 0 /\ interrupted' = interrupted \ {t}
      /\ UNCHANGED <<owner, recursions, succ, responsible, lists, permit, asks>>
  BY DEF WaitCall, At, lock, hints
<1>1. p \in {"owns", "wait"} /\ p \in Places
  BY DEF Places, Acquired
<1>2. Flow(t, p, th[t].frame, th[t].then, th[t].after, th[t].heir, th[t].saved)
  <2> DEFINE r == [th[t] EXCEPT !.pc = p, !.timed = b, !.waits = @ - 1]
  <2>1. th' = [th EXCEPT ![t] = r]
    BY DEF WaitCall
  <2> HIDE DEF p
  <2>2. /\ r \in Locals /\ r.pc = p /\ r.frame = th[t].frame /\ r.then = th[t].then
        /\ r.after = th[t].after /\ r.heir = th[t].heir /\ r.saved = th[t].saved
    <3>1. th[t].waits - 1 \in Nat
      BY <1>0, ThreadFacts, FieldTypes
    <3> QED
      BY <1>1, <3>1, ThreadFacts, FieldTypes DEF Locals
  <2> HIDE DEF r
  <2> QED
    BY <2>1, <2>2, ThreadFacts, UpdateFlow
<1>3. /\ Sound(p, th[t].frame, th[t].then, th[t].after)
      /\ NodeSound(node[t].state, p, th[t].then, th[t].after)
      /\ OwnerStep(t, p) /\ responsible # t /\ owner = t /\ succ # t
  BY <1>0, ThreadFacts
     DEF Sound, NodeSound, QueuedPlace, OwnerStep, ResponsibleAt, SuccGood, SuccPlace, Holding,
         Acquired, Spinning, Queueing, Runtime, Reentering, Entering
<1>4. LockHandedOn'
  BY <1>0, <1>3, ThreadFacts DEF LockHandedOn
<1>5. /\ recursions \in Nat /\ permit' \subseteq Threads
      /\ asks' \in [interrupt : SUBSET Threads, suspend : SUBSET Threads]
  BY <1>0, ThreadFacts DEF TypeOK
<1> HIDE DEF p
<1> QED
  BY <1>0, <1>1, <1>2, <1>3, <1>4, <1>5, EventStep DEF InsidePlaces

LEMMA WaitParkInvariant ==
  ASSUME IInv, NEW t \in Threads, WaitPark(t)
  PROVE  IInv'
<1>0. /\ th[t].pc = "waitpark" /\ permit' \in {permit, permit \ {t}}
      /\ UNCHANGED <<owner, recursions, succ, responsible, lists, interrupted, asks>>
  BY DEF WaitPark, At, lock, hints, outside
<1>1. Flow(t, "dequeue", th[t].frame, th[t].then, th[t].after, th[t].heir, th[t].saved)
  <2>1. "dequeue" \in Places
    BY DEF Places, Waiting
  <2> QED
    BY <2>1, ThreadFacts, GotoFlow DEF WaitPark
<1>2. /\ Sound("dequeue", th[t].frame, th[t].then, th[t].after)
      /\ NodeSound(node[t].state, "dequeue", th[t].then, th[t].after)
      /\ OwnerStep(t, "dequeue") /\ responsible # t
  BY <1>0, ThreadFacts
     DEF Sound, NodeSound, QueuedPlace, OwnerStep, ResponsibleAt, Holding,
         Acquired, Spinning, Queueing, Runtime, Reentering, Entering
<1>3. "dequeue" \in Looking /\ SuccPlace("dequeue", th[t].then, th[t].after)
  BY DEF Looking, SuccPlace, QueuedPlace
<1>4. succ = t => SuccGood(t)'
  BY <1>0, <1>1, <1>3, SuccKept
<1>5. LockHandedOn'
  <2>1. UNCHANGED <<cxq, entry>>
    BY <1>0 DEF lists
  <2>2. Tries(t)'
    BY <1>1 DEF Tries, Flow
  <2>3. th[t].pc \notin Checking /\ ~Wakes(t)
    BY <1>0 DEF Checking, Wakes
  <2> QED
    BY <1>0, <1>1, <2>1, <2>2, <2>3, CareKept
<1>6. /\ recursions \in Nat /\ permit' \subseteq Threads
      /\ asks' \in [interrupt : SUBSET Threads, suspend : SUBSET Threads]
  BY <1>0, ThreadFacts DEF TypeOK
<1> QED
  BY <1>0, <1>1, <1>2, <1>4, <1>5, <1>6, EventStep DEF InsidePlaces

LEMMA WaitReturnsInvariant ==
  ASSUME IInv, NEW t \in Threads, WaitReturns(t)
  PROVE  IInv'
<1> DEFINE p == IF ~th[t].was /\ t \in interrupted THEN "iex" ELSE "owns"
<1>0. /\ th[t].pc = "waited" /\ interrupted' \subseteq interrupted /\ recursions' = th[t].saved
      /\ UNCHANGED <<owner, succ, responsible, lists, permit, asks>>
  BY DEF WaitReturns, At, hints
<1>1. p \in {"iex", "owns"} /\ p \in Places
  BY DEF Places, Acquired
<1>2. Flow(t, p, "enter", th[t].then, "push", th[t].heir, 0)
  <2> DEFINE r == [th[t] EXCEPT !.pc = p, !.frame = "enter", !.after = "push",
                                !.saved = 0, !.was = FALSE, !.timed = FALSE]
  <2>1. th' = [th EXCEPT ![t] = r]
    BY DEF WaitReturns
  <2> HIDE DEF p
  <2>2. /\ r \in Locals /\ r.pc = p /\ r.frame = "enter" /\ r.then = th[t].then
        /\ r.after = "push" /\ r.heir = th[t].heir /\ r.saved = 0
    BY <1>1, ThreadFacts, FieldTypes DEF Locals
  <2> HIDE DEF r
  <2> QED
    BY <2>1, <2>2, ThreadFacts, UpdateFlow
<1>3. /\ Sound(p, "enter", th[t].then, "push")
      /\ NodeSound(node[t].state, p, th[t].then, "push")
      /\ OwnerStep(t, p) /\ responsible # t /\ owner = t /\ succ # t
  BY <1>0, ThreadFacts
     DEF Sound, NodeSound, QueuedPlace, OwnerStep, ResponsibleAt, SuccGood, SuccPlace, Holding,
         Acquired, Spinning, Queueing, Runtime, Reentering, Entering
<1>4. LockHandedOn'
  BY <1>0, <1>3, ThreadFacts DEF LockHandedOn
<1>5. /\ recursions' \in Nat /\ permit' \subseteq Threads
      /\ asks' \in [interrupt : SUBSET Threads, suspend : SUBSET Threads]
  BY <1>0, ThreadFacts DEF TypeOK
<1> HIDE DEF p
<1> QED
  BY <1>0, <1>1, <1>2, <1>3, <1>4, <1>5, EventStep DEF InsidePlaces

\* os::interrupt sets the event after the flag
LEMMA InterruptInvariant ==
  ASSUME IInv, NEW t \in Threads, Interrupt(t)
  PROVE  IInv'
<1>0. /\ asks' = [asks EXCEPT !.interrupt = @ \ {t}] /\ interrupted' = interrupted \cup {t}
      /\ permit' = permit \cup {t}
      /\ UNCHANGED <<owner, recursions, succ, responsible, cxq, entry, waitset, node, th>>
  BY DEF Interrupt, lock, hints, lists
<1>1. LockInv'
  BY <1>0 DEF IInv, LockInv, TypeOK, LocalsSound, Owned, Unnested
<1>2. ListInv'
  BY <1>0 DEF IInv, ListInv, ListsSound, MovingSound, NodesSound, Moving, On, Distinct
<1>3. LockHandedOn'
  BY <1>0 DEF IInv, CareInv, LockHandedOn, Tries, Dozes, Wakes
<1>4. HeirSound' /\ SuccSound' /\ ResponsibleSound' /\ FastSound'
  BY <1>0 DEF IInv, CareInv, HeirSound, SuccSound, SuccGood, ResponsibleSound, FastSound, On
<1>5. InterruptWakes'
  BY <1>0 DEF IInv, InterruptWakes, At
<1> QED
  BY <1>1, <1>2, <1>3, <1>4, <1>5 DEF IInv, CareInv

-----------------------------------------------------------------------------
(* Lists                                                                   *)

LEMMA RangeOn ==
  ASSUME NEW S, NEW s \in Seq(S), NEW u
  PROVE  u \in Range(s) <=> On(s, u)
BY DEF Range, On

LEMMA HeadOn ==
  ASSUME NEW S, NEW s \in Seq(S), s # <<>>
  PROVE  Head(s) \in S /\ On(s, Head(s))
<1>1. Len(s) \in Nat /\ Len(s) # 0 /\ Head(s) = s[1] /\ 1 \in 1..Len(s)
  OBVIOUS
<1> QED
  BY <1>1 DEF On

\* What a list holds that is put together from two that have no node in common
LEMMA Joined ==
  ASSUME NEW S, NEW r \in Seq(S), NEW s \in Seq(S)
  PROVE  /\ r \o s \in Seq(S)
         /\ \A u : On(r \o s, u) <=> On(r, u) \/ On(s, u)
         /\ Distinct(r) /\ Distinct(s) /\ (\A u : ~(On(r, u) /\ On(s, u))) => Distinct(r \o s)
<1> DEFINE q == r \o s
<1>1. /\ q \in Seq(S) /\ Len(r) \in Nat /\ Len(s) \in Nat /\ Len(q) = Len(r) + Len(s)
      /\ \A i \in 1..Len(q) : q[i] = IF i <= Len(r) THEN r[i] ELSE s[i - Len(r)]
  OBVIOUS
<1> HIDE DEF q
<1>2. \A i \in 1..Len(r) : i \in 1..Len(q) /\ q[i] = r[i]
  BY <1>1
<1>3. ASSUME NEW i \in 1..Len(s)
      PROVE  i + Len(r) \in 1..Len(q) /\ q[i + Len(r)] = s[i]
  <2> DEFINE k == i + Len(r)
  <2>1. k \in 1..Len(q) /\ ~(k <= Len(r)) /\ k - Len(r) = i
    BY <1>1
  <2> HIDE DEF k
  <2>2. q[k] = s[i]
    BY <1>1, <2>1
  <2> QED
    BY <2>1, <2>2 DEF k
<1>4. \A i \in 1..Len(q) : \/ i \in 1..Len(r) /\ q[i] = r[i]
                           \/ i - Len(r) \in 1..Len(s) /\ q[i] = s[i - Len(r)] /\ i \notin 1..Len(r)
  BY <1>1
<1>5. ASSUME NEW u
      PROVE  On(q, u) <=> On(r, u) \/ On(s, u)
  <2>1. On(q, u) => On(r, u) \/ On(s, u)
    BY <1>4 DEF On
  <2>2. On(r, u) => On(q, u)
    BY <1>2 DEF On
  <2>3. On(s, u) => On(q, u)
    BY <1>3 DEF On
  <2> QED
    BY <2>1, <2>2, <2>3
<1>6. ASSUME Distinct(r), Distinct(s), \A u : ~(On(r, u) /\ On(s, u)),
             NEW i \in 1..Len(q), NEW j \in 1..Len(q), q[i] = q[j]
      PROVE  i = j
  <2>1. CASE i \in 1..Len(r) /\ j \in 1..Len(r)
    BY <1>2, <1>6, <2>1 DEF Distinct
  <2>2. CASE i \notin 1..Len(r) /\ j \notin 1..Len(r)
    <3>1. /\ i - Len(r) \in 1..Len(s) /\ q[i] = s[i - Len(r)]
          /\ j - Len(r) \in 1..Len(s) /\ q[j] = s[j - Len(r)]
      BY <1>4, <2>2
    <3>2. i - Len(r) = j - Len(r)
      BY <1>6, <3>1 DEF Distinct
    <3> QED
      BY <1>1, <3>2
  <2>3. ~(i \in 1..Len(r) /\ j \notin 1..Len(r))
    BY <1>4, <1>6 DEF On
  <2>4. ~(j \in 1..Len(r) /\ i \notin 1..Len(r))
    BY <1>4, <1>6 DEF On
  <2> QED
    BY <2>1, <2>2, <2>3, <2>4
<1>7. Distinct(r) /\ Distinct(s) /\ (\A u : ~(On(r, u) /\ On(s, u))) => Distinct(q)
  BY <1>6 DEF Distinct
<1> QED
  BY <1>1, <1>5, <1>7 DEF q

LEMMA Single ==
  ASSUME NEW S, NEW t \in S
  PROVE  /\ <<t>> \in Seq(S) /\ <<t>> # <<>> /\ Distinct(<<t>>)
         /\ \A u : On(<<t>>, u) <=> u = t
BY DEF On, Distinct

\* A node pushed on a list
LEMMA Pushed ==
  ASSUME NEW S, NEW s \in Seq(S), NEW t \in S, Distinct(s), ~On(s, t)
  PROVE  /\ <<t>> \o s \in Seq(S) /\ <<t>> \o s # <<>> /\ Distinct(<<t>> \o s)
         /\ \A u : On(<<t>> \o s, u) <=> u = t \/ On(s, u)
<1>1. \A u : On(<<t>>, u) <=> u = t
  BY Single
<1>2. \A u : ~(On(<<t>>, u) /\ On(s, u))
  BY <1>1
<1>3. <<t>> \o s # <<>>
  OBVIOUS
<1>4. <<t>> \in Seq(S) /\ Distinct(<<t>>)
  BY Single
<1> QED
  BY <1>1, <1>2, <1>3, <1>4, Joined

LEMMA Appended ==
  ASSUME NEW S, NEW s \in Seq(S), NEW t \in S, Distinct(s), ~On(s, t)
  PROVE  /\ Append(s, t) \in Seq(S) /\ Distinct(Append(s, t))
         /\ \A u : On(Append(s, t), u) <=> u = t \/ On(s, u)
<1>1. \A u : On(<<t>>, u) <=> u = t
  BY Single
<1>2. \A u : ~(On(s, u) /\ On(<<t>>, u))
  BY <1>1
<1>3. Append(s, t) = s \o <<t>>
  OBVIOUS
<1>4. <<t>> \in Seq(S) /\ Distinct(<<t>>)
  BY Single
<1>5. /\ s \o <<t>> \in Seq(S) /\ Distinct(s \o <<t>>)
      /\ \A u : On(s \o <<t>>, u) <=> On(s, u) \/ On(<<t>>, u)
  BY <1>2, <1>4, Joined
<1> QED
  BY <1>1, <1>3, <1>5

\* The list without its first node
LEMMA Rest ==
  ASSUME NEW S, NEW s \in Seq(S), s # <<>>, Distinct(s)
  PROVE  /\ Tail(s) \in Seq(S) /\ Distinct(Tail(s))
         /\ \A u : On(Tail(s), u) <=> On(s, u) /\ u # Head(s)
<1> DEFINE q == Tail(s)
<1>1. /\ q \in Seq(S) /\ Len(s) \in Nat /\ Len(s) # 0 /\ Len(q) = Len(s) - 1 /\ Head(s) = s[1]
      /\ \A i \in 1..Len(q) : i + 1 \in 1..Len(s) /\ q[i] = s[i + 1]
  OBVIOUS
<1> HIDE DEF q
<1>2. Distinct(q)
  <2> SUFFICES ASSUME NEW i \in 1..Len(q), NEW j \in 1..Len(q), q[i] = q[j]
               PROVE  i = j
    BY DEF Distinct
  <2>1. i + 1 = j + 1
    BY <1>1 DEF Distinct
  <2> QED
    BY <2>1
<1>3. ASSUME NEW u, On(q, u)
      PROVE  On(s, u) /\ u # Head(s)
  <2>1. PICK i \in 1..Len(q) : q[i] = u
    BY <1>3 DEF On
  <2>2. i + 1 \in 1..Len(s) /\ s[i + 1] = u /\ i + 1 # 1 /\ 1 \in 1..Len(s)
    BY <1>1, <2>1
  <2> QED
    BY <1>1, <2>2 DEF On, Distinct
<1>4. ASSUME NEW u, On(s, u), u # Head(s)
      PROVE  On(q, u)
  <2>1. PICK i \in 1..Len(s) : s[i] = u
    BY <1>4 DEF On
  <2>2. i # 1
    BY <1>1, <1>4, <2>1
  <2>3. i - 1 \in 1..Len(q) /\ (i - 1) + 1 = i
    BY <1>1, <2>2
  <2> QED
    BY <1>1, <2>1, <2>3 DEF On
<1> QED
  BY <1>1, <1>2, <1>3, <1>4 DEF q

\* The list without the node of t
LEMMA UnlinkedOn ==
  ASSUME NEW S, NEW s \in Seq(S), NEW t, Distinct(s), On(s, t)
  PROVE  /\ Unlinked(s, t) \in Seq(S) /\ Distinct(Unlinked(s, t))
         /\ \A u : On(Unlinked(s, t), u) <=> On(s, u) /\ u # t
<1> DEFINE k == CHOOSE i \in 1..Len(s) : s[i] = t
           q == RemoveAt(s, k)
<1>1. k \in 1..Len(s) /\ s[k] = t
  BY DEF On
<1> HIDE DEF k
<1>2. /\ q \in Seq(S) /\ Len(s) \in Nat /\ Len(q) = Len(s) - 1
      /\ \A i \in 1..Len(q) : q[i] = IF i < k THEN s[i] ELSE s[i + 1]
  <2> DEFINE r1 == SubSeq(s, 1, k - 1)
             r2 == SubSeq(s, k + 1, Len(s))
  <2>1. Len(s) \in Nat /\ k \in Nat /\ k >= 1 /\ k <= Len(s)
    BY <1>1
  <2>2. r1 \in Seq(S) /\ Len(r1) = k - 1 /\ \A i \in 1..(k - 1) : r1[i] = s[i]
    BY <2>1
  <2>3. r2 \in Seq(S) /\ Len(r2) = Len(s) - k /\ \A i \in 1..(Len(s) - k) : r2[i] = s[k + i]
    BY <2>1
  <2> HIDE DEF r1, r2
  <2>4. q = r1 \o r2
    BY DEF r1, r2, RemoveAt
  <2> HIDE DEF q
  <2>5. /\ q \in Seq(S) /\ Len(q) = Len(s) - 1
        /\ \A i \in 1..Len(q) : q[i] = IF i <= k - 1 THEN r1[i] ELSE r2[i - (k - 1)]
    <3>0. r1 \in Seq(S) /\ r2 \in Seq(S)
      BY <2>2, <2>3
    <3>1. /\ q \in Seq(S) /\ Len(q) = Len(r1) + Len(r2)
          /\ \A i \in 1..Len(q) : q[i] = IF i <= Len(r1) THEN r1[i] ELSE r2[i - Len(r1)]
      BY <2>4, <3>0
    <3>2. Len(r1) + Len(r2) = Len(s) - 1
      BY <2>1, <2>2, <2>3
    <3> QED
      BY <2>2, <3>1, <3>2
  <2>6. ASSUME NEW i \in 1..Len(q)
        PROVE  q[i] = IF i < k THEN s[i] ELSE s[i + 1]
    <3>1. CASE i < k
      BY <2>1, <2>2, <2>5, <3>1
    <3>2. CASE ~(i < k)
      <4>1. i - (k - 1) \in 1..(Len(s) - k) /\ k + (i - (k - 1)) = i + 1
        BY <2>1, <2>5, <3>2
      <4> QED
        BY <2>1, <2>3, <2>5, <3>2, <4>1
    <3> QED
      BY <3>1, <3>2
  <2> QED
    BY <2>1, <2>5, <2>6
<1>3. Unlinked(s, t) = q
  BY DEF Unlinked, k
<1> HIDE DEF q
<1>4. \A i \in 1..Len(q) : \/ i < k /\ i \in 1..Len(s) /\ q[i] = s[i]
                           \/ i >= k /\ i + 1 \in 1..Len(s) /\ q[i] = s[i + 1]
  BY <1>1, <1>2
<1>5. Distinct(q)
  <2> SUFFICES ASSUME NEW i \in 1..Len(q), NEW j \in 1..Len(q), q[i] = q[j]
               PROVE  i = j
    BY DEF Distinct
  <2> DEFINE a == IF i < k THEN i ELSE i + 1
             b == IF j < k THEN j ELSE j + 1
  <2>1. a \in 1..Len(s) /\ b \in 1..Len(s) /\ s[a] = s[b]
    BY <1>1, <1>4
  <2>2. a = b
    BY <2>1 DEF Distinct
  <2> QED
    BY <1>1, <2>2
<1>6. ASSUME NEW u, On(q, u)
      PROVE  On(s, u) /\ u # t
  <2>1. PICK i \in 1..Len(q) : q[i] = u
    BY <1>6 DEF On
  <2>2. PICK a \in 1..Len(s) : a # k /\ s[a] = u
    BY <1>1, <1>4, <2>1
  <2> QED
    BY <1>1, <2>2 DEF On, Distinct
<1>7. ASSUME NEW u, On(s, u), u # t
      PROVE  On(q, u)
  <2>1. PICK a \in 1..Len(s) : s[a] = u
    BY <1>7 DEF On
  <2>2. a # k
    BY <1>1, <1>7, <2>1
  <2>3. CASE a < k
    <3>1. a \in 1..Len(q) /\ q[a] = s[a]
      BY <1>1, <1>2, <2>3
    <3> QED
      BY <2>1, <3>1 DEF On
  <2>4. CASE a > k
    <3>1. a - 1 \in 1..Len(q) /\ ~(a - 1 < k) /\ (a - 1) + 1 = a
      BY <1>1, <1>2, <2>4
    <3>2. q[a - 1] = s[a]
      BY <1>2, <3>1
    <3> QED
      BY <2>1, <3>1, <3>2 DEF On
  <2> QED
    BY <1>1, <2>2, <2>3, <2>4
<1> QED
  BY <1>2, <1>3, <1>5, <1>6, <1>7

LEMMA Reversed ==
  ASSUME NEW S, NEW s \in Seq(S)
  PROVE  /\ Reverse(s) \in Seq(S)
         /\ Distinct(s) => Distinct(Reverse(s))
         /\ \A u : On(Reverse(s), u) <=> On(s, u)
<1> DEFINE q == Reverse(s)
<1>1. /\ q \in Seq(S) /\ Len(s) \in Nat /\ Len(q) = Len(s)
      /\ \A i \in 1..Len(s) : q[i] = s[(Len(s) - i) + 1] /\ (Len(s) - i) + 1 \in 1..Len(s)
  <2>1. Len(s) \in Nat /\ \A i \in 1..Len(s) : (Len(s) - i) + 1 \in 1..Len(s)
    OBVIOUS
  <2>2. q \in [1..Len(s) -> S]
    BY <2>1 DEF Reverse
  <2> QED
    BY <2>1, <2>2 DEF Reverse
<1> HIDE DEF q
<1>2. ASSUME Distinct(s), NEW i \in 1..Len(q), NEW j \in 1..Len(q), q[i] = q[j]
      PROVE  i = j
  <2>1. (Len(s) - i) + 1 = (Len(s) - j) + 1
    BY <1>1, <1>2 DEF Distinct
  <2> QED
    BY <1>1, <2>1
<1>3. ASSUME NEW u, On(s, u)
      PROVE  On(q, u)
  <2>1. PICK i \in 1..Len(s) : s[i] = u
    BY <1>3 DEF On
  <2> DEFINE j == (Len(s) - i) + 1
  <2>2. j \in 1..Len(q) /\ q[j] = s[(Len(s) - j) + 1] /\ (Len(s) - j) + 1 = i
    BY <1>1, <2>1
  <2> HIDE DEF j
  <2> QED
    BY <2>1, <2>2 DEF On
<1>4. ASSUME NEW u, On(q, u)
      PROVE  On(s, u)
  BY <1>1, <1>4 DEF On
<1> QED
  BY <1>1, <1>2, <1>3, <1>4 DEF q, Distinct

-----------------------------------------------------------------------------
(* Steps that change the lists                                             *)

LEMMA MovingKept ==
  ASSUME NEW t \in Threads, NEW p, NEW f, NEW n, NEW a, NEW h, NEW s,
         Flow(t, p, f, n, a, h, s), th[t].pc # "notifylink", p # "notifylink"
  PROVE  \A u \in Threads : Moving(u)' <=> Moving(u)
BY DEF Moving, Flow

\* While a thread other than a notifier owns the lock, no node is moving
LEMMA NoneMoving ==
  ASSUME IInv, NEW t \in Threads, th[t].pc \in Holding, th[t].pc # "notifylink"
  PROVE  \A u \in Threads : ~Moving(u)
<1>1. "notifylink" \in Holding
  BY DEF Holding, Acquired
<1> QED
  BY <1>1, OneHolder DEF IInv, Moving

\* The lists and TState, as the types and the invariant have them
LEMMA ListFacts ==
  ASSUME IInv
  PROVE  /\ cxq \in Seq(Threads) /\ entry \in Seq(Threads) /\ waitset \in Seq(Threads)
         /\ Distinct(cxq) /\ Distinct(entry) /\ Distinct(waitset)
         /\ \A u \in Threads : /\ node[u].state \in {"RUN", "CXQ", "ENTER", "WAIT"}
                               /\ On(cxq, u) <=> node[u].state = "CXQ"
                               /\ On(entry, u) <=> node[u].state = "ENTER" /\ ~Moving(u)
                               /\ On(waitset, u) <=> node[u].state = "WAIT"
                               /\ Moving(u) => node[u].state = "ENTER"
                               /\ NodeSound(node[u].state, th[u].pc, th[u].then, th[u].after)
BY DEF IInv, LockInv, TypeOK, ListInv, ListsSound, MovingSound, NodesSound, Moving

\* A step that puts the node of t on a list, or takes it off
LEMMA NodeStep ==
  ASSUME IInv, NEW t \in Threads, NEW p, NEW f, NEW n, NEW a, NEW h, NEW s,
         Flow(t, p, f, n, a, h, s), th[t].pc # "notifylink", p # "notifylink",
         \A u \in Threads : u # t => node'[u] = node[u],
         ~Moving(t), NodeSound(node'[t].state, p, n, a),
         Distinct(cxq'), Distinct(entry'), Distinct(waitset'),
         \A u \in Threads :
            /\ On(cxq', u) <=> IF u = t THEN node'[t].state = "CXQ" ELSE On(cxq, u)
            /\ On(entry', u) <=> IF u = t THEN node'[t].state = "ENTER" ELSE On(entry, u)
            /\ On(waitset', u) <=> IF u = t THEN node'[t].state = "WAIT" ELSE On(waitset, u)
  PROVE  ListInv'
<1>1. \A u \in Threads : Moving(u)' <=> Moving(u)
  BY MovingKept
<1>2. ListsSound'
  <2> SUFFICES ASSUME NEW u \in Threads
               PROVE  /\ On(cxq', u) <=> node'[u].state = "CXQ"
                      /\ On(entry', u) <=> node'[u].state = "ENTER" /\ ~Moving(u)'
                      /\ On(waitset', u) <=> node'[u].state = "WAIT"
    BY DEF ListsSound, Distinct, On
  <2>1. CASE u = t
    BY <1>1, <2>1
  <2>2. CASE u # t
    BY <1>1, <2>2, ListFacts
  <2> QED
    BY <2>1, <2>2
<1>3. MovingSound'
  <2> SUFFICES ASSUME NEW v \in Threads, th'[v].pc = "notifylink"
               PROVE  th'[v].heir \in Threads /\ node'[th'[v].heir].state = "ENTER"
    BY DEF MovingSound
  <2>1. v # t /\ th'[v] = th[v] /\ th[v].pc = "notifylink"
    BY DEF Flow
  <2>2. th[v].heir \in Threads /\ node[th[v].heir].state = "ENTER" /\ th[v].heir # t
    BY <2>1 DEF IInv, ListInv, MovingSound, Moving
  <2> QED
    BY <2>1, <2>2
<1>4. NodesSound'
  BY ListFacts DEF NodesSound, Flow
<1> QED
  BY <1>2, <1>3, <1>4 DEF ListInv

\* A step that changes the TState of one node
LEMMA NodeUpdated ==
  ASSUME TypeOK, NEW t \in Threads, NEW x \in {"RUN", "CXQ", "ENTER", "WAIT"},
         node' = [node EXCEPT ![t].state = x]
  PROVE  /\ node' \in [Threads -> [state : {"RUN", "CXQ", "ENTER", "WAIT"}, notified : BOOLEAN]]
         /\ node'[t].state = x /\ \A u \in Threads : u # t => node'[u] = node[u]
<1> DEFINE R == [state : {"RUN", "CXQ", "ENTER", "WAIT"}, notified : BOOLEAN]
           r == [node[t] EXCEPT !.state = x]
<1>1. node \in [Threads -> R]
  BY DEF TypeOK
<1>2. r \in R /\ r.state = x
  BY <1>1
<1>3. node' = [node EXCEPT ![t] = r]
  OBVIOUS
<1> HIDE DEF r, R
<1>4. node' \in [Threads -> R] /\ node'[t] = r /\ \A u \in Threads : u # t => node'[u] = node[u]
  BY <1>1, <1>2, <1>3
<1> QED
  BY <1>2, <1>4 DEF R

LEMMA PushInvariant ==
  ASSUME IInv, NEW t \in Threads, Push(t)
  PROVE  IInv'
<1> DEFINE p == IF cxq = <<>> THEN "elect" ELSE "try"
<1>0. /\ th[t].pc = "push" /\ permit' = permit \ {t} /\ cxq' = <<t>> \o cxq
      /\ node' = [node EXCEPT ![t] = [state |-> "CXQ", notified |-> FALSE]]
      /\ UNCHANGED <<owner, recursions, succ, responsible, entry, waitset, interrupted, asks>>
  BY DEF Push, At, lock, hints, outside
<1>1. p \in {"elect", "try"} /\ p \in Places /\ (cxq = <<>> => p = "elect")
  BY DEF Places, Queueing
<1>2. Flow(t, p, th[t].frame, th[t].then, th[t].after, th[t].heir, th[t].saved)
  BY <1>1, ThreadFacts, GotoFlow DEF Push
<1> HIDE DEF p
<1>3. /\ Sound(p, th[t].frame, th[t].then, th[t].after)
      /\ NodeSound("CXQ", p, th[t].then, th[t].after)
      /\ OwnerStep(t, p) /\ responsible # t /\ succ # t /\ node[t].state = "RUN"
  BY <1>0, <1>1, ThreadFacts, ListFacts
     DEF Sound, NodeSound, QueuedPlace, OwnerStep, ResponsibleAt, SuccGood, SuccPlace, Holding,
         Acquired, Spinning, Queueing, Runtime, Reentering, Entering
<1>4. /\ ~On(cxq, t) /\ ~On(entry, t) /\ ~On(waitset, t) /\ ~Moving(t)
  BY <1>3, ListFacts
<1>5. /\ cxq' \in Seq(Threads) /\ Distinct(cxq') /\ \A u : On(cxq', u) <=> u = t \/ On(cxq, u)
  BY <1>0, <1>4, ListFacts, Pushed
<1>6. /\ node' \in [Threads -> [state : {"RUN", "CXQ", "ENTER", "WAIT"}, notified : BOOLEAN]]
      /\ node'[t].state = "CXQ" /\ \A u \in Threads : u # t => node'[u] = node[u]
  BY <1>0, ThreadFacts DEF TypeOK
<1>7. ListInv'
  <2>1. Distinct(entry') /\ Distinct(waitset')
    BY <1>0, ListFacts
  <2> QED
    BY <1>0, <1>1, <1>2, <1>3, <1>4, <1>5, <1>6, <2>1, NodeStep
<1>8. LockHandedOn'
  <2>1. Tries(t)'
    BY <1>1, <1>2 DEF Tries, Flow
  <2>2. th[t].pc \notin Checking /\ ~Wakes(t)
    BY <1>0 DEF Checking, Wakes
  <2> QED
    BY <1>0, <1>2, <2>1, <2>2, CareKept
<1>9. SharedTypes'
  BY <1>0, <1>5, <1>6, ThreadFacts DEF SharedTypes, TypeOK
<1> QED
  BY <1>0, <1>1, <1>2, <1>3, <1>7, <1>8, <1>9, GeneralStep DEF InsidePlaces

LEMMA UnlinkAfterAcquireInvariant ==
  ASSUME IInv, NEW t \in Threads, UnlinkAfterAcquire(t)
  PROVE  IInv'
<1> DEFINE p == IF th[t].frame = "reenter" THEN "waited" ELSE "pivot"
<1>0. /\ th[t].pc = "unlink"
      /\ entry' = IF node[t].state = "ENTER" THEN Unlinked(entry, t) ELSE entry
      /\ cxq' = IF node[t].state = "CXQ" THEN Unlinked(cxq, t) ELSE cxq
      /\ node' = [node EXCEPT ![t].state = "RUN"]
      /\ succ' = IF succ = t THEN NoThread ELSE succ
      /\ UNCHANGED <<owner, recursions, responsible, waitset, permit, interrupted, asks>>
  BY DEF UnlinkAfterAcquire, At, Resign, lock, outside
<1>1. p \in {"waited", "pivot"} /\ p \in Places
  BY DEF Places, Acquired
<1>2. Flow(t, p, th[t].frame, th[t].then, th[t].after, th[t].heir, th[t].saved)
  BY <1>1, ThreadFacts, GotoFlow DEF UnlinkAfterAcquire
<1>3. /\ Sound(p, th[t].frame, th[t].then, th[t].after)
      /\ NodeSound("RUN", p, th[t].then, th[t].after)
      /\ OwnerStep(t, p) /\ owner = t /\ th[t].pc \in Holding /\ node[t].state # "WAIT"
      /\ responsible = t => ResponsibleAt(p, th[t].frame, th[t].after)
  BY <1>0, ThreadFacts
     DEF Sound, NodeSound, QueuedPlace, OwnerStep, ResponsibleAt, Holding,
         Acquired, Spinning, Queueing, Runtime, Reentering, Entering
<1> HIDE DEF p
<1>4. ~Moving(t) /\ (On(cxq, t) <=> node[t].state = "CXQ") /\ (On(entry, t) <=> node[t].state = "ENTER")
  BY <1>0, <1>3, NoneMoving, ListFacts
<1>5. cxq' \in Seq(Threads) /\ Distinct(cxq') /\ \A u : On(cxq', u) <=> On(cxq, u) /\ u # t
  BY <1>0, <1>4, ListFacts, UnlinkedOn
<1>6. entry' \in Seq(Threads) /\ Distinct(entry') /\ \A u : On(entry', u) <=> On(entry, u) /\ u # t
  BY <1>0, <1>4, ListFacts, UnlinkedOn
<1>7. /\ node' \in [Threads -> [state : {"RUN", "CXQ", "ENTER", "WAIT"}, notified : BOOLEAN]]
      /\ node'[t].state = "RUN" /\ \A u \in Threads : u # t => node'[u] = node[u]
  BY <1>0, ThreadFacts, NodeUpdated
<1>8. ListInv'
  <2>1. Distinct(waitset') /\ ~On(waitset, t)
    BY <1>0, <1>3, ListFacts
  <2> QED
    BY <1>0, <1>1, <1>2, <1>3, <1>4, <1>5, <1>6, <1>7, <2>1, NodeStep
<1>9. LockHandedOn'
  BY <1>0, <1>3, ThreadFacts DEF LockHandedOn
<1>10. SharedTypes'
  BY <1>0, <1>5, <1>6, <1>7, ThreadFacts DEF SharedTypes, TypeOK
<1> QED
  BY <1>0, <1>1, <1>2, <1>3, <1>8, <1>9, <1>10, GeneralStep DEF InsidePlaces

LEMMA WaitAddInvariant ==
  ASSUME IInv, NEW t \in Threads, WaitAdd(t)
  PROVE  IInv'
<1>0. /\ th[t].pc = "wait" /\ permit' = permit \ {t} /\ waitset' = Append(waitset, t)
      /\ node' = [node EXCEPT ![t] = [state |-> "WAIT", notified |-> FALSE]]
      /\ responsible' = NoThread /\ recursions' = 0
      /\ UNCHANGED <<owner, succ, cxq, entry, interrupted, asks>>
  BY DEF WaitAdd, At, outside
<1>1. Flow(t, "exit", th[t].frame, "waiting", th[t].after, th[t].heir, recursions)
  <2> DEFINE r == [th[t] EXCEPT !.pc = "exit", !.then = "waiting", !.saved = recursions]
  <2>1. recursions \in Nat
    BY ThreadFacts DEF TypeOK
  <2>2. /\ r \in Locals /\ r.pc = "exit" /\ r.frame = th[t].frame /\ r.then = "waiting"
        /\ r.after = th[t].after /\ r.heir = th[t].heir /\ r.saved = recursions
    <3>1. "exit" \in Places
      BY DEF Places, Exiting
    <3>2. th[t] \in Locals
      BY ThreadFacts, FieldTypes
    <3> QED
      BY <2>1, <3>1, <3>2 DEF Locals
  <2>3. th' = [th EXCEPT ![t] = r]
    BY DEF WaitAdd
  <2> HIDE DEF r
  <2> QED
    BY <2>2, <2>3, ThreadFacts, UpdateFlow
<1>2. /\ Sound("exit", th[t].frame, "waiting", th[t].after)
      /\ NodeSound("WAIT", "exit", "waiting", th[t].after)
      /\ OwnerStep(t, "exit") /\ owner = t /\ th[t].pc \in Holding /\ succ # t
      /\ node[t].state = "RUN"
  BY <1>0, ThreadFacts, ListFacts
     DEF Sound, NodeSound, QueuedPlace, OwnerStep, SuccGood, SuccPlace, Holding,
         Acquired, Spinning, Queueing, Runtime, Reentering, Entering
<1>3. ~On(cxq, t) /\ ~On(entry, t) /\ ~On(waitset, t) /\ ~Moving(t)
  BY <1>2, ListFacts
<1>4. /\ waitset' \in Seq(Threads) /\ Distinct(waitset')
      /\ \A u : On(waitset', u) <=> u = t \/ On(waitset, u)
  BY <1>0, <1>3, ListFacts, Appended
<1>5. /\ node' \in [Threads -> [state : {"RUN", "CXQ", "ENTER", "WAIT"}, notified : BOOLEAN]]
      /\ node'[t].state = "WAIT" /\ \A u \in Threads : u # t => node'[u] = node[u]
  BY <1>0, ThreadFacts DEF TypeOK
<1>6. ListInv'
  <2>1. Distinct(cxq') /\ Distinct(entry')
    BY <1>0, ListFacts
  <2> QED
    BY <1>0, <1>1, <1>2, <1>3, <1>4, <1>5, <2>1, NodeStep
<1>7. LockHandedOn'
  BY <1>0, <1>2, ThreadFacts DEF LockHandedOn
<1>8. SharedTypes'
  BY <1>0, <1>4, <1>5, ThreadFacts DEF SharedTypes, TypeOK
<1> QED
  BY <1>0, <1>1, <1>2, <1>6, <1>7, <1>8, GeneralStep DEF InsidePlaces

LEMMA DequeueInvariant ==
  ASSUME IInv, NEW t \in Threads, Dequeue(t)
  PROVE  IInv'
<1>0. /\ th[t].pc = "dequeue"
      /\ UNCHANGED <<owner, recursions, succ, responsible, cxq, entry, permit, interrupted, asks>>
  BY DEF Dequeue, At, lock, hints, outside
<1>1. Flow(t, "reenter", th[t].frame, th[t].then, th[t].after, th[t].heir, th[t].saved)
  <2>1. "reenter" \in Places
    BY DEF Places, Waiting
  <2> QED
    BY <2>1, ThreadFacts, GotoFlow DEF Dequeue
<1>2. /\ Sound("reenter", th[t].frame, th[t].then, th[t].after)
      /\ node[t].state # "WAIT" => NodeSound(node[t].state, "reenter", th[t].then, th[t].after)
      /\ NodeSound("RUN", "reenter", th[t].then, th[t].after)
      /\ OwnerStep(t, "reenter") /\ responsible # t
  BY <1>0, ThreadFacts
     DEF Sound, NodeSound, QueuedPlace, OwnerStep, ResponsibleAt, Holding,
         Acquired, Spinning, Queueing, Runtime, Reentering, Entering
<1>3. "reenter" \in Looking /\ SuccPlace("reenter", th[t].then, th[t].after)
  BY DEF Looking, SuccPlace, QueuedPlace
<1>4. succ = t => SuccGood(t)'
  BY <1>0, <1>1, <1>3, SuccKept
<1>5. LockHandedOn'
  <2>1. Tries(t)'
    BY <1>1 DEF Tries, Flow
  <2>2. th[t].pc \notin Checking /\ ~Wakes(t)
    BY <1>0 DEF Checking, Wakes
  <2> QED
    BY <1>0, <1>1, <2>1, <2>2, CareKept
<1>6. /\ recursions \in Nat /\ permit' \subseteq Threads
      /\ asks' \in [interrupt : SUBSET Threads, suspend : SUBSET Threads]
  BY <1>0, ThreadFacts DEF TypeOK
<1>7. CASE node[t].state # "WAIT"
  <2>1. UNCHANGED lists
    BY <1>0, <1>7 DEF Dequeue, lists
  <2> QED
    BY <1>0, <1>1, <1>2, <1>4, <1>5, <1>6, <1>7, <2>1, EventStep DEF InsidePlaces
<1>8. CASE node[t].state = "WAIT"
  <2>0. waitset' = Unlinked(waitset, t) /\ node' = [node EXCEPT ![t].state = "RUN"]
    BY <1>8 DEF Dequeue
  <2>1. On(waitset, t) /\ ~On(cxq, t) /\ ~On(entry, t) /\ ~Moving(t)
    BY <1>8, ListFacts
  <2>2. /\ waitset' \in Seq(Threads) /\ Distinct(waitset')
        /\ \A u : On(waitset', u) <=> On(waitset, u) /\ u # t
    BY <2>0, <2>1, ListFacts, UnlinkedOn
  <2>3. /\ node' \in [Threads -> [state : {"RUN", "CXQ", "ENTER", "WAIT"}, notified : BOOLEAN]]
        /\ node'[t].state = "RUN" /\ \A u \in Threads : u # t => node'[u] = node[u]
    BY <2>0, ThreadFacts, NodeUpdated
  <2>4. ListInv'
    <3>1. Distinct(cxq') /\ Distinct(entry')
      BY <1>0, ListFacts
    <3> QED
      BY <1>0, <1>1, <1>2, <2>1, <2>2, <2>3, <3>1, NodeStep
  <2>5. SharedTypes'
    BY <1>0, <2>2, <2>3, ThreadFacts DEF SharedTypes, TypeOK
  <2> QED
    BY <1>0, <1>1, <1>2, <1>4, <1>5, <2>4, <2>5, GeneralStep DEF InsidePlaces
<1> QED
  BY <1>7, <1>8

\* An heir is chosen: it is on EntryList, so it wants the lock, and it will be unparked
WithHeir(t, v) == th' = [th EXCEPT ![t].pc = "epilog", ![t].heir = v]

LEMMA HeirFlow ==
  ASSUME TypeOK, NEW t \in Threads, NEW v \in Threads, WithHeir(t, v)
  PROVE  Flow(t, "epilog", th[t].frame, th[t].then, th[t].after, v, th[t].saved)
<1> DEFINE r == [th[t] EXCEPT !.pc = "epilog", !.heir = v]
<1>1. "epilog" \in Places
  BY DEF Places, Exiting
<1>2. th[t] \in Locals
  BY FieldTypes
<1>3. /\ r \in Locals /\ r.pc = "epilog" /\ r.frame = th[t].frame /\ r.then = th[t].then
      /\ r.after = th[t].after /\ r.heir = v /\ r.saved = th[t].saved
  BY <1>1, <1>2 DEF Locals
<1>4. th' = [th EXCEPT ![t] = r]
  BY DEF WithHeir
<1> HIDE DEF r
<1> QED
  BY <1>3, <1>4, UpdateFlow

LEMMA HeirChosen ==
  ASSUME IInv, NEW t \in Threads, NEW v, th[t].pc = "heir", WithHeir(t, v), succ' = v,
         ListInv', SharedTypes', v \in Threads, On(entry', v), node'[v].state = "ENTER",
         UNCHANGED <<owner, recursions, responsible, permit, interrupted, asks>>
  PROVE  IInv'
<1>1. Flow(t, "epilog", th[t].frame, th[t].then, th[t].after, v, th[t].saved)
  BY ThreadFacts, HeirFlow
<1>2. /\ Sound("epilog", th[t].frame, th[t].then, th[t].after)
      /\ OwnerStep(t, "epilog") /\ responsible # t /\ owner = t /\ th[t].pc \in Holding
  BY ThreadFacts
     DEF Sound, OwnerStep, ResponsibleAt, Holding, Acquired, Spinning, Runtime, Reentering, Entering, Queueing
<1>3. SuccGood(v)'
  <2>1. QueuedPlace(th'[v].pc, th'[v].then, th'[v].after)
    BY DEF ListInv, NodesSound, NodeSound
  <2>2. th'[t].pc = "epilog" /\ th'[t].heir = v
    BY <1>1 DEF Flow
  <2> QED
    BY <2>1, <2>2 DEF SuccGood, SuccPlace
<1>4. LockHandedOn'
  BY <1>2, ThreadFacts DEF LockHandedOn
<1>5. SuccGood(succ)'
  BY <1>3
<1> QED
  BY <1>1, <1>2, <1>4, <1>5, GeneralStep DEF InsidePlaces

\* No heir is chosen: the lock is freed again
LEMMA NoHeir ==
  ASSUME IInv, NEW t \in Threads, th[t].pc = "heir", Goto(t, "drop"), succ' = succ,
         ListInv', SharedTypes',
         UNCHANGED <<owner, recursions, responsible, permit, interrupted, asks>>
  PROVE  IInv'
<1>1. Flow(t, "drop", th[t].frame, th[t].then, th[t].after, th[t].heir, th[t].saved)
  <2>1. "drop" \in Places
    BY DEF Places, Exiting
  <2> QED
    BY <2>1, ThreadFacts, GotoFlow
<1>2. /\ Sound("drop", th[t].frame, th[t].then, th[t].after)
      /\ OwnerStep(t, "drop") /\ responsible # t /\ owner = t /\ th[t].pc \in Holding
  BY ThreadFacts
     DEF Sound, OwnerStep, ResponsibleAt, Holding, Acquired, Spinning, Runtime, Reentering, Entering, Queueing
<1>3. ASSUME succ = t
      PROVE  SuccGood(succ)'
  <2>1. SuccPlace("drop", th[t].then, th[t].after) /\ th[t].pc \notin Looking
    BY <1>3, ThreadFacts DEF SuccGood, SuccPlace, QueuedPlace, Looking, Spinning, Queueing
  <2> QED
    BY <1>1, <1>3, <2>1, SuccKept
<1>4. LockHandedOn'
  BY <1>2, ThreadFacts DEF LockHandedOn
<1> QED
  BY <1>1, <1>2, <1>3, <1>4, GeneralStep DEF InsidePlaces

\* The owner moves cxq to the empty EntryList
LEMMA Drained ==
  ASSUME IInv, NEW t \in Threads, th[t].pc = "heir", entry = <<>>, entry' = cxq, cxq' = <<>>,
         UNCHANGED waitset,
         node' = [u \in Threads |-> IF u \in Range(cxq) THEN [node[u] EXCEPT !.state = "ENTER"] ELSE node[u]],
         \A u \in Threads : /\ th'[u].then = th[u].then /\ th'[u].after = th[u].after
                            /\ u # t => th'[u].pc = th[u].pc,
         th'[t].pc \in {"drop", "epilog"}
  PROVE  /\ node' \in [Threads -> [state : {"RUN", "CXQ", "ENTER", "WAIT"}, notified : BOOLEAN]]
         /\ \A u \in Threads : On(cxq, u) => node'[u].state = "ENTER"
         /\ ListInv'
<1>0. th[t].pc \in Holding
  BY DEF Holding
<1>1. \A u \in Threads : ~Moving(u) /\ ~On(entry, u) /\ node[u].state # "ENTER"
  BY <1>0, NoneMoving, ListFacts DEF On
<1>2. \A u \in Threads : node[u] \in [state : {"RUN", "CXQ", "ENTER", "WAIT"}, notified : BOOLEAN]
  BY ThreadFacts DEF TypeOK
<1>3. \A u \in Threads : /\ node'[u] \in [state : {"RUN", "CXQ", "ENTER", "WAIT"}, notified : BOOLEAN]
                         /\ On(cxq, u) => node'[u].state = "ENTER"
                         /\ ~On(cxq, u) => node'[u].state = node[u].state
  BY <1>2, ListFacts, RangeOn
<1>4. \A u \in Threads : th'[u].pc # "notifylink"
  <2>1. "notifylink" \in Holding
    BY DEF Holding, Acquired
  <2> QED
    BY <1>0, <2>1, OneHolder DEF IInv
<1>5. ListsSound'
  <2>1. \A u \in Threads : ~Moving(u)' /\ ~On(cxq', u)
    BY <1>4 DEF Moving, On
  <2>2. Distinct(cxq') /\ Distinct(entry') /\ Distinct(waitset')
    BY ListFacts DEF Distinct
  <2>3. ASSUME NEW u \in Threads
        PROVE  /\ On(cxq', u) <=> node'[u].state = "CXQ"
               /\ On(entry', u) <=> node'[u].state = "ENTER" /\ ~Moving(u)'
               /\ On(waitset', u) <=> node'[u].state = "WAIT"
    BY <1>1, <1>3, <2>1, ListFacts
  <2> QED
    BY <2>2, <2>3 DEF ListsSound
<1>6. MovingSound'
  BY <1>4 DEF MovingSound
<1>7. NodesSound'
  <2> SUFFICES ASSUME NEW u \in Threads
               PROVE  NodeSound(node'[u].state, th'[u].pc, th'[u].then, th'[u].after)
    BY DEF NodesSound
  <2>1. NodeSound(node'[u].state, th[u].pc, th[u].then, th[u].after)
    BY <1>3, ListFacts DEF NodeSound
  <2> QED
    BY <2>1 DEF NodeSound, QueuedPlace, Spinning, Queueing
<1>8. node' \in [Threads -> [state : {"RUN", "CXQ", "ENTER", "WAIT"}, notified : BOOLEAN]]
  BY <1>3
<1> QED
  BY <1>3, <1>5, <1>6, <1>7, <1>8 DEF ListInv

LEMMA ChooseHeirInvariant ==
  ASSUME IInv, NEW t \in Threads, ChooseHeir(t)
  PROVE  IInv'
<1>0. /\ th[t].pc = "heir" /\ th[t] \in Locals /\ th \in [Threads -> Locals]
      /\ UNCHANGED <<owner, recursions, responsible, waitset, permit, interrupted, asks>>
  BY ThreadFacts, FieldTypes DEF ChooseHeir, At, lock, outside, TypeOK
<1>1. CASE entry # <<>>
  <2> DEFINE v == Head(entry)
  <2>1. WithHeir(t, v) /\ succ' = v /\ UNCHANGED <<cxq, entry, node>>
    BY <1>1 DEF ChooseHeir, WithHeir
  <2>2. v \in Threads /\ On(entry, v)
    BY <1>1, ListFacts, HeadOn
  <2> HIDE DEF v
  <2>3. node[v].state = "ENTER"
    BY <2>2, ListFacts
  <2>4. SharedTypes'
    BY <1>0, <2>1, <2>2, ThreadFacts DEF SharedTypes, TypeOK
  <2>5. ListInv'
    <3>1. \A u \in Threads : /\ th'[u].then = th[u].then /\ th'[u].after = th[u].after
                             /\ u # t => th'[u].pc = th[u].pc /\ th'[u].heir = th[u].heir
      BY <1>0, <2>1 DEF WithHeir, Locals
    <3>2. th'[t].pc = "epilog"
      BY <1>0, <2>1 DEF WithHeir, Locals
    <3>3. \A u \in Threads : Moving(u)' <=> Moving(u)
      BY <1>0, <3>1, <3>2 DEF Moving
    <3>4. ListsSound'
      BY <1>0, <2>1, <3>3 DEF IInv, ListInv, ListsSound, Distinct, On
    <3>5. MovingSound'
      BY <1>0, <2>1, <3>1, <3>2 DEF IInv, ListInv, MovingSound
    <3>6. NodesSound'
      <4> SUFFICES ASSUME NEW u \in Threads
                   PROVE  NodeSound(node[u].state, th'[u].pc, th'[u].then, th'[u].after)
        BY <2>1 DEF NodesSound
      <4>1. NodeSound(node[u].state, th[u].pc, th[u].then, th[u].after)
        BY ListFacts
      <4> QED
        BY <1>0, <3>1, <3>2, <4>1 DEF NodeSound, QueuedPlace, Spinning, Queueing
    <3> QED
      BY <3>4, <3>5, <3>6 DEF ListInv
  <2> QED
    BY <1>0, <2>1, <2>2, <2>3, <2>4, <2>5, HeirChosen
<1>2. CASE entry = <<>> /\ cxq = <<>>
  <2>1. Goto(t, "drop") /\ UNCHANGED <<succ, cxq, entry, node>>
    BY <1>2 DEF ChooseHeir
  <2>2. SharedTypes'
    BY <1>0, <2>1, ThreadFacts DEF SharedTypes, TypeOK
  <2>3. ListInv'
    <3>1. Flow(t, "drop", th[t].frame, th[t].then, th[t].after, th[t].heir, th[t].saved)
      <4>1. "drop" \in Places
        BY DEF Places, Exiting
      <4> QED
        BY <2>1, <4>1, ThreadFacts, GotoFlow
    <3>2. NodeSound(node[t].state, "drop", th[t].then, th[t].after)
      BY <1>0, ThreadFacts DEF NodeSound, QueuedPlace, Spinning, Queueing
    <3> QED
      BY <1>0, <2>1, <3>1, <3>2, ListsKept DEF IInv, lists
  <2> QED
    BY <1>0, <2>1, <2>2, <2>3, NoHeir
<1>3. CASE entry = <<>> /\ cxq # <<>>
  <2> DEFINE v == Head(cxq)
  <2>1. /\ entry' = cxq /\ cxq' = <<>>
        /\ node' = [u \in Threads |-> IF u \in Range(cxq) THEN [node[u] EXCEPT !.state = "ENTER"] ELSE node[u]]
        /\ \/ succ # NoThread /\ Goto(t, "drop") /\ succ' = succ
           \/ WithHeir(t, v) /\ succ' = v
    BY <1>3 DEF ChooseHeir, WithHeir
  <2>2. v \in Threads /\ On(cxq, v)
    BY <1>3, ListFacts, HeadOn
  <2> HIDE DEF v
  <2>3. /\ \A u \in Threads : /\ th'[u].then = th[u].then /\ th'[u].after = th[u].after
                              /\ u # t => th'[u].pc = th[u].pc
        /\ th'[t].pc \in {"drop", "epilog"}
    <3>1. CASE Goto(t, "drop")
      BY <1>0, <3>1 DEF Goto, Locals
    <3>2. CASE WithHeir(t, v)
      BY <1>0, <3>2 DEF WithHeir, Locals
    <3> QED
      BY <2>1, <3>1, <3>2
  <2>4. /\ node' \in [Threads -> [state : {"RUN", "CXQ", "ENTER", "WAIT"}, notified : BOOLEAN]]
        /\ \A u \in Threads : On(cxq, u) => node'[u].state = "ENTER"
        /\ ListInv'
    BY <1>0, <1>3, <2>1, <2>3, Drained
  <2>5. SharedTypes'
    <3>1. succ' \in Threads \cup {NoThread}
      BY <2>1, <2>2, ThreadFacts DEF TypeOK
    <3>2. entry' \in Seq(Threads) /\ cxq' \in Seq(Threads)
      BY <2>1, ListFacts
    <3> QED
      BY <1>0, <2>4, <3>1, <3>2, ThreadFacts DEF SharedTypes, TypeOK
  <2>6. CASE Goto(t, "drop") /\ succ' = succ
    BY <1>0, <2>4, <2>5, <2>6, NoHeir
  <2>7. CASE WithHeir(t, v) /\ succ' = v
    BY <1>0, <2>1, <2>2, <2>4, <2>5, <2>7, HeirChosen
  <2> QED
    BY <2>1, <2>6, <2>7
<1> QED
  BY <1>1, <1>2, <1>3

\* A waiter that is notified is not the notifier, and its node is on no list while
\* it moves
LEMMA NotifyInvariant ==
  ASSUME IInv, NEW t \in Threads, Notify(t)
  PROVE  IInv'
<1> DEFINE w == Head(waitset)
<1>0. /\ th[t].pc = "owns" /\ waitset # <<>> /\ waitset' = Tail(waitset)
      /\ node' = [node EXCEPT ![w].state = "ENTER"]
      /\ UNCHANGED <<owner, recursions, succ, responsible, cxq, entry, permit, interrupted, asks>>
  BY DEF Notify, At, lock, hints, outside
<1>1. w \in Threads /\ On(waitset, w)
  BY <1>0, ListFacts, HeadOn
<1>2. /\ waitset' \in Seq(Threads) /\ Distinct(waitset')
      /\ \A u : On(waitset', u) <=> On(waitset, u) /\ u # w
  BY <1>0, ListFacts, Rest
<1>3. Flow(t, "notifylink", th[t].frame, th[t].then, th[t].after, w, th[t].saved)
  <2> DEFINE r == [th[t] EXCEPT !.pc = "notifylink", !.heir = w]
  <2>1. th' = [th EXCEPT ![t] = r]
    BY DEF Notify
  <2> HIDE DEF w
  <2>2. "notifylink" \in Places
    BY DEF Places, Acquired
  <2>3. th[t] \in Locals
    BY ThreadFacts, FieldTypes
  <2>4. /\ r \in Locals /\ r.pc = "notifylink" /\ r.frame = th[t].frame /\ r.then = th[t].then
        /\ r.after = th[t].after /\ r.heir = w /\ r.saved = th[t].saved
    BY <1>1, <2>2, <2>3 DEF Locals
  <2> HIDE DEF r
  <2> QED
    BY <2>1, <2>4, ThreadFacts, UpdateFlow
<1> HIDE DEF w
<1>4. /\ Sound("notifylink", th[t].frame, th[t].then, th[t].after)
      /\ OwnerStep(t, "notifylink") /\ responsible # t /\ owner = t /\ th[t].pc \in Holding
      /\ succ # t /\ node[t].state = "RUN"
  BY <1>0, ThreadFacts, ListFacts
     DEF Sound, NodeSound, QueuedPlace, OwnerStep, ResponsibleAt, SuccGood, SuccPlace, Holding,
         Acquired, Spinning, Queueing, Runtime, Reentering, Entering
<1>5. /\ node' \in [Threads -> [state : {"RUN", "CXQ", "ENTER", "WAIT"}, notified : BOOLEAN]]
      /\ node'[w].state = "ENTER" /\ \A u \in Threads : u # w => node'[u] = node[u]
  BY <1>0, <1>1, ThreadFacts, NodeUpdated
<1>6. node[w].state = "WAIT" /\ w # t
  BY <1>1, <1>4, ListFacts
<1>7. ListInv'
  <2>1. \A u \in Threads : ~Moving(u)
    BY <1>0, <1>4, NoneMoving
  <2>2. \A u \in Threads : Moving(u)' <=> u = w
    BY <1>3, <2>1 DEF Moving, Flow
  <2>3. ASSUME NEW u \in Threads
        PROVE  /\ On(cxq', u) <=> node'[u].state = "CXQ"
               /\ On(entry', u) <=> node'[u].state = "ENTER" /\ ~Moving(u)'
               /\ On(waitset', u) <=> node'[u].state = "WAIT"
    <3>1. CASE u = w
      BY <1>0, <1>2, <1>5, <1>6, <2>2, <3>1, ListFacts
    <3>2. CASE u # w
      BY <1>0, <1>2, <1>5, <2>1, <2>2, <3>2, ListFacts
    <3> QED
      BY <3>1, <3>2
  <2>4. Distinct(cxq') /\ Distinct(entry')
    BY <1>0, ListFacts
  <2>5. ListsSound'
    BY <1>2, <2>3, <2>4 DEF ListsSound
  <2>6. MovingSound'
    <3>1. ASSUME NEW v \in Threads, th'[v].pc = "notifylink"
          PROVE  v = t
      BY <1>3, <2>1, <3>1 DEF Moving, Flow, IInv, ListInv, MovingSound
    <3> QED
      BY <1>1, <1>3, <1>5, <3>1 DEF MovingSound, Flow
  <2>7. NodesSound'
    <3> SUFFICES ASSUME NEW u \in Threads
                 PROVE  NodeSound(node'[u].state, th'[u].pc, th'[u].then, th'[u].after)
      BY DEF NodesSound
    <3>1. CASE u = t
      BY <1>4, <1>5, <1>6, <3>1 DEF NodeSound
    <3>2. CASE u = w
      BY <1>3, <1>5, <1>6, <3>2, ListFacts DEF NodeSound, QueuedPlace, Flow
    <3>3. CASE u # t /\ u # w
      BY <1>3, <1>5, <3>3, ListFacts DEF Flow
    <3> QED
      BY <3>1, <3>2, <3>3
  <2> QED
    BY <2>5, <2>6, <2>7 DEF ListInv
<1>8. LockHandedOn'
  BY <1>0, <1>4, ThreadFacts DEF LockHandedOn
<1>9. SharedTypes'
  BY <1>0, <1>2, <1>5, ThreadFacts DEF SharedTypes, TypeOK
<1> QED
  BY <1>0, <1>3, <1>4, <1>7, <1>8, <1>9, GeneralStep DEF InsidePlaces

LEMMA NotifyLinkInvariant ==
  ASSUME IInv, NEW t \in Threads, NotifyLink(t)
  PROVE  IInv'
<1> DEFINE w == th[t].heir
           x == IF entry = <<>> THEN "ENTER" ELSE "CXQ"
<1>0. /\ th[t].pc = "notifylink"
      /\ entry' = IF entry = <<>> THEN <<w>> ELSE entry
      /\ cxq' = IF entry = <<>> THEN cxq ELSE <<w>> \o cxq
      /\ node' = [node EXCEPT ![w] = [state |-> x, notified |-> TRUE]]
      /\ UNCHANGED <<owner, recursions, succ, responsible, waitset, permit, interrupted, asks>>
  BY DEF NotifyLink, At, lock, hints, outside
<1>1. w \in Threads /\ node[w].state = "ENTER" /\ Moving(w)
  BY <1>0 DEF IInv, ListInv, MovingSound, Moving
<1>2. Flow(t, "owns", th[t].frame, th[t].then, th[t].after, NoThread, th[t].saved)
  <2> DEFINE r == [th[t] EXCEPT !.pc = "owns", !.heir = NoThread]
  <2>1. th' = [th EXCEPT ![t] = r]
    BY DEF NotifyLink
  <2>2. "owns" \in Places
    BY DEF Places, Acquired
  <2>3. th[t] \in Locals
    BY ThreadFacts, FieldTypes
  <2>4. /\ r \in Locals /\ r.pc = "owns" /\ r.frame = th[t].frame /\ r.then = th[t].then
        /\ r.after = th[t].after /\ r.heir = NoThread /\ r.saved = th[t].saved
    BY <2>2, <2>3 DEF Locals
  <2>5. TypeOK
    BY ThreadFacts
  <2> HIDE DEF r, w
  <2> QED
    BY <2>1, <2>4, <2>5, UpdateFlow
<1>3. \A u \in Threads : Moving(u) <=> u = w
  <2>1. "notifylink" \in Holding
    BY DEF Holding, Acquired
  <2>2. \A u \in Threads : th[u].pc = "notifylink" => u = t
    BY <1>0, <2>1, OneHolder DEF IInv
  <2> QED
    BY <1>0, <2>2 DEF Moving
<1> HIDE DEF w
<1>4. /\ Sound("owns", th[t].frame, th[t].then, th[t].after)
      /\ OwnerStep(t, "owns") /\ responsible # t /\ owner = t /\ th[t].pc \in Holding
      /\ succ # t /\ node[t].state = "RUN"
  BY <1>0, ThreadFacts, ListFacts
     DEF Sound, NodeSound, QueuedPlace, OwnerStep, ResponsibleAt, SuccGood, SuccPlace, Holding,
         Acquired, Spinning, Queueing, Runtime, Reentering, Entering
<1>5. /\ node' \in [Threads -> [state : {"RUN", "CXQ", "ENTER", "WAIT"}, notified : BOOLEAN]]
      /\ node'[w].state = x /\ \A u \in Threads : u # w => node'[u] = node[u]
  BY <1>0, <1>1, ThreadFacts DEF TypeOK
<1>6. ~On(cxq, w) /\ ~On(entry, w) /\ ~On(waitset, w) /\ w # t
  BY <1>1, <1>4, ListFacts
<1>7. /\ cxq' \in Seq(Threads) /\ Distinct(cxq')
      /\ \A u : On(cxq', u) <=> On(cxq, u) \/ (u = w /\ x = "CXQ")
  BY <1>0, <1>1, <1>6, ListFacts, Pushed
<1>8. /\ entry' \in Seq(Threads) /\ Distinct(entry')
      /\ \A u : On(entry', u) <=> On(entry, u) \/ (u = w /\ x = "ENTER")
  <2>1. CASE entry = <<>>
    <3>1. \A u : ~On(entry, u)
      BY <2>1 DEF On
    <3> QED
      BY <1>0, <1>1, <2>1, <3>1, Single
  <2>2. CASE entry # <<>>
    BY <1>0, <2>2, ListFacts
  <2> QED
    BY <2>1, <2>2
<1> HIDE DEF x
<1>9. x \in {"ENTER", "CXQ"}
  BY DEF x
<1>10. ListInv'
  <2>1. \A u \in Threads : th'[u].pc # "notifylink"
    BY <1>2, <1>3, <1>6, ThreadFacts, <1>4, OneHolder DEF Flow, IInv, Holding, Acquired
  <2>2. \A u \in Threads : ~Moving(u)'
    BY <2>1 DEF Moving
  <2>3. ASSUME NEW u \in Threads
        PROVE  /\ On(cxq', u) <=> node'[u].state = "CXQ"
               /\ On(entry', u) <=> node'[u].state = "ENTER" /\ ~Moving(u)'
               /\ On(waitset', u) <=> node'[u].state = "WAIT"
    <3>1. CASE u = w
      BY <1>0, <1>5, <1>6, <1>7, <1>8, <1>9, <2>2, <3>1
    <3>2. CASE u # w
      BY <1>0, <1>3, <1>5, <1>7, <1>8, <2>2, <3>2, ListFacts
    <3> QED
      BY <3>1, <3>2
  <2>4. Distinct(waitset')
    BY <1>0, ListFacts
  <2>5. ListsSound'
    BY <1>7, <1>8, <2>3, <2>4 DEF ListsSound
  <2>6. MovingSound'
    BY <2>1 DEF MovingSound
  <2>7. NodesSound'
    <3> SUFFICES ASSUME NEW u \in Threads
                 PROVE  NodeSound(node'[u].state, th'[u].pc, th'[u].then, th'[u].after)
      BY DEF NodesSound
    <3>1. CASE u = t
      BY <1>4, <1>5, <1>6, <3>1 DEF NodeSound
    <3>2. CASE u = w
      BY <1>1, <1>2, <1>5, <1>6, <1>9, <3>2, ListFacts DEF NodeSound, Flow
    <3>3. CASE u # t /\ u # w
      BY <1>2, <1>5, <3>3, ListFacts DEF Flow
    <3> QED
      BY <3>1, <3>2, <3>3
  <2> QED
    BY <2>5, <2>6, <2>7 DEF ListInv
<1>11. LockHandedOn'
  BY <1>0, <1>4, ThreadFacts DEF LockHandedOn
<1>12. SharedTypes'
  BY <1>0, <1>5, <1>7, <1>8, ThreadFacts DEF SharedTypes, TypeOK
<1> QED
  BY <1>0, <1>2, <1>4, <1>10, <1>11, <1>12, GeneralStep DEF InsidePlaces

LEMMA NotifyAllInvariant ==
  ASSUME IInv, NEW t \in Threads, NotifyAll(t)
  PROVE  IInv'
<1>0. /\ th[t].pc = "owns" /\ waitset' = <<>> /\ cxq' = Reverse(waitset) \o cxq
      /\ node' = [u \in Threads |-> IF u \in Range(waitset) THEN [state |-> "CXQ", notified |-> TRUE]
                                    ELSE node[u]]
      /\ UNCHANGED <<owner, recursions, succ, responsible, entry, permit, interrupted, asks, th>>
  BY DEF NotifyAll, At, lock, hints, outside
<1>1. Flow(t, "owns", th[t].frame, th[t].then, th[t].after, th[t].heir, th[t].saved)
  BY <1>0, ThreadFacts DEF Flow, TypeOK
<1>2. /\ Sound("owns", th[t].frame, th[t].then, th[t].after)
      /\ OwnerStep(t, "owns") /\ responsible # t /\ owner = t /\ th[t].pc \in Holding
      /\ succ # t /\ node[t].state = "RUN"
  BY <1>0, ThreadFacts, ListFacts
     DEF Sound, NodeSound, QueuedPlace, OwnerStep, ResponsibleAt, SuccGood, SuccPlace, Holding,
         Acquired, Spinning, Queueing, Runtime, Reentering, Entering
<1>3. /\ node' \in [Threads -> [state : {"RUN", "CXQ", "ENTER", "WAIT"}, notified : BOOLEAN]]
      /\ \A u \in Threads : node'[u].state = IF On(waitset, u) THEN "CXQ" ELSE node[u].state
  <2>1. \A u \in Threads : node[u] \in [state : {"RUN", "CXQ", "ENTER", "WAIT"}, notified : BOOLEAN]
    BY ThreadFacts DEF TypeOK
  <2>2. \A u \in Threads : node'[u] = IF On(waitset, u) THEN [state |-> "CXQ", notified |-> TRUE] ELSE node[u]
    BY <1>0, ListFacts, RangeOn
  <2>3. ASSUME NEW u \in Threads
        PROVE  node'[u] \in [state : {"RUN", "CXQ", "ENTER", "WAIT"}, notified : BOOLEAN]
    <3>1. CASE On(waitset, u)
      <4>1. node'[u] = [state |-> "CXQ", notified |-> TRUE]
        BY <2>2, <3>1
      <4> QED
        BY <4>1
    <3>2. CASE ~On(waitset, u)
      BY <2>1, <2>2, <3>2
    <3> QED
      BY <3>1, <3>2
  <2>4. \A u \in Threads : node'[u].state = IF On(waitset, u) THEN "CXQ" ELSE node[u].state
    BY <2>2
  <2>5. node' \in [Threads -> [state : {"RUN", "CXQ", "ENTER", "WAIT"}, notified : BOOLEAN]]
    BY <1>0, <2>3
  <2> QED
    BY <2>4, <2>5
<1>4. /\ cxq' \in Seq(Threads) /\ Distinct(cxq')
      /\ \A u : On(cxq', u) <=> On(waitset, u) \/ On(cxq, u)
  <2> DEFINE r == Reverse(waitset)
  <2>1. r \in Seq(Threads) /\ Distinct(r) /\ \A u : On(r, u) <=> On(waitset, u)
    <3>1. waitset \in Seq(Threads) /\ Distinct(waitset)
      BY ListFacts
    <3> QED
      BY <3>1, Reversed
  <2> HIDE DEF r
  <2>2. \A u : On(r, u) => u \in Threads
    BY <2>1 DEF On
  <2>3. \A u : ~(On(r, u) /\ On(cxq, u))
    BY <2>1, <2>2, ListFacts
  <2>4. cxq' = r \o cxq
    BY <1>0 DEF r
  <2>5. cxq \in Seq(Threads) /\ Distinct(cxq)
    BY ListFacts
  <2> QED
    BY <2>1, <2>3, <2>4, <2>5, Joined
<1>5. ListInv'
  <2>1. \A u \in Threads : Moving(u)' <=> Moving(u)
    BY <1>0 DEF Moving
  <2>2. \A u : ~On(waitset', u)
    BY <1>0 DEF On
  <2>3. ASSUME NEW u \in Threads
        PROVE  /\ On(cxq', u) <=> node'[u].state = "CXQ"
               /\ On(entry', u) <=> node'[u].state = "ENTER" /\ ~Moving(u)'
               /\ On(waitset', u) <=> node'[u].state = "WAIT"
    BY <1>0, <1>3, <1>4, <2>1, <2>2, ListFacts
  <2>4. Distinct(entry') /\ Distinct(waitset')
    <3>1. Distinct(entry')
      BY <1>0, ListFacts
    <3>2. Distinct(<<>>)
      BY DEF Distinct
    <3> QED
      BY <1>0, <3>1, <3>2
  <2>5. ListsSound'
    BY <1>4, <2>3, <2>4 DEF ListsSound
  <2>6. MovingSound'
    <3>1. \A u \in Threads : node[u].state = "ENTER" => node'[u].state = "ENTER"
      BY <1>3, ListFacts
    <3> QED
      BY <1>0, <3>1 DEF IInv, ListInv, MovingSound
  <2>7. NodesSound'
    <3> SUFFICES ASSUME NEW u \in Threads
                 PROVE  NodeSound(node'[u].state, th[u].pc, th[u].then, th[u].after)
      BY <1>0 DEF NodesSound
    <3> QED
      BY <1>3, ListFacts DEF NodeSound, QueuedPlace
  <2> QED
    BY <2>5, <2>6, <2>7 DEF ListInv
<1>6. LockHandedOn'
  BY <1>0, <1>2, ThreadFacts DEF LockHandedOn
<1>7. SharedTypes'
  BY <1>0, <1>3, <1>4, ThreadFacts DEF SharedTypes, TypeOK
<1> QED
  BY <1>0, <1>1, <1>2, <1>5, <1>6, <1>7, GeneralStep DEF InsidePlaces

-----------------------------------------------------------------------------
(* The invariant                                                           *)

LEMMA InitInvariant ==
  ASSUME Init
  PROVE  IInv
<1>0. PICK p \in Programs :
          /\ asks = [interrupt |-> p.interrupt, suspend |-> p.suspend]
          /\ th = [t \in Threads |-> [quiet EXCEPT !.enters = p.enters[t], !.waits = p.waits[t]]]
  BY DEF Init
<1>1. /\ p.interrupt \subseteq Threads /\ p.suspend \subseteq Threads
      /\ p.enters \in [Threads -> Nat] /\ p.waits \in [Threads -> Nat]
  OBVIOUS
<1>2. ASSUME NEW t \in Threads
      PROVE  /\ th[t] \in Locals /\ th[t].pc = "idle" /\ th[t].frame = "enter" /\ th[t].then = "idle"
             /\ th[t].after = "push" /\ th[t].heir = NoThread
  <2>1. p.enters[t] \in Nat /\ p.waits[t] \in Nat
    BY <1>1
  <2> DEFINE e == p.enters[t]
             w == p.waits[t]
             r == [pc |-> "idle", frame |-> "enter", then |-> "idle", after |-> "push",
                   heir |-> NoThread, saved |-> 0, was |-> FALSE, timed |-> FALSE,
                   enters |-> e, waits |-> w]
  <2>2. th[t] = r
    BY <1>0 DEF quiet
  <2>3. "idle" \in Places
    BY DEF Places
  <2> HIDE DEF e, w
  <2>4. r \in Locals
    BY <2>1, <2>3 DEF Locals, e, w
  <2> QED
    BY <2>2, <2>4
<1>3. /\ owner = NoThread /\ recursions = 0 /\ succ = NoThread /\ responsible = NoThread
      /\ cxq = <<>> /\ entry = <<>> /\ waitset = <<>> /\ permit = {} /\ interrupted = {}
      /\ node = [t \in Threads |-> [state |-> "RUN", notified |-> FALSE]]
  BY DEF Init
<1>4. LockInv
  <2>1. th \in [Threads -> Locals]
    BY <1>0, <1>2
  <2>2. asks \in [interrupt : SUBSET Threads, suspend : SUBSET Threads]
    BY <1>0, <1>1
  <2>3. node \in [Threads -> [state : {"RUN", "CXQ", "ENTER", "WAIT"}, notified : BOOLEAN]]
    BY <1>3
  <2>4. TypeOK
    BY <1>3, <2>1, <2>2, <2>3 DEF TypeOK
  <2>5. LocalsSound /\ Owned /\ Unnested
    BY <1>2, <1>3
       DEF LocalsSound, Sound, Owned, Unnested, Holding, Acquired, Spinning
  <2> QED
    BY <2>4, <2>5 DEF LockInv
<1>5. ListInv
  <2>1. \A t \in Threads : node[t].state = "RUN" /\ ~Moving(t)
    BY <1>2, <1>3 DEF Moving
  <2>2. Distinct(<<>>) /\ \A t : ~On(<<>>, t)
    BY DEF Distinct, On
  <2>3. ListsSound
    BY <1>3, <2>1, <2>2 DEF ListsSound
  <2> QED
    BY <1>2, <2>1, <2>3 DEF ListInv, MovingSound, NodesSound, NodeSound
<1>6. CareInv
  BY <1>2, <1>3 DEF CareInv, LockHandedOn, HeirSound, SuccSound, ResponsibleSound, FastSound
<1>7. InterruptWakes
  BY <1>3 DEF InterruptWakes
<1> QED
  BY <1>4, <1>5, <1>6, <1>7 DEF IInv

LEMMA NextInvariant ==
  ASSUME IInv, [Next]_vars
  PROVE  IInv'
<1>1. CASE UNCHANGED vars
  <2>1. UNCHANGED <<owner, recursions, succ, responsible, cxq, entry, waitset, node,
                    permit, interrupted, asks, th>>
    BY <1>1 DEF vars
  <2>2. LockInv'
    BY <2>1 DEF IInv, LockInv, TypeOK, LocalsSound, Owned, Unnested
  <2>3. ListInv'
    BY <2>1 DEF IInv, ListInv, ListsSound, MovingSound, NodesSound, Moving, On, Distinct
  <2>4. CareInv'
    BY <2>1 DEF IInv, CareInv, LockHandedOn, Tries, Dozes, Wakes, HeirSound, SuccSound, SuccGood,
                ResponsibleSound, FastSound, On
  <2>5. InterruptWakes'
    BY <2>1 DEF IInv, InterruptWakes, At
  <2> QED
    BY <2>2, <2>3, <2>4, <2>5 DEF IInv
<1>2. ASSUME NEW t \in Threads, Step(t) \/ Interrupt(t)
      PROVE  IInv'
  <2>1. CASE Enter(t) \/ Exit(t) \/ Notify(t) \/ NotifyLink(t) \/ NotifyAll(t) \/ Interrupt(t)
    BY <2>1, EnterInvariant, ExitInvariant, NotifyInvariant, NotifyLinkInvariant, NotifyAllInvariant,
       InterruptInvariant
  <2>2. CASE Spin(t)
    BY <2>2, SpinAcquiresInvariant, SpinSeesNoSuccInvariant, SpinSetSuccInvariant, SpinAbortInvariant,
       SpinLastTryInvariant DEF Spin
  <2>3. CASE EnterI(t)
    BY <2>3, PushInvariant, PushFailsInvariant, ElectInvariant, TryLockInvariant, ChooseParkInvariant,
       ParkInvariant, ParkTimesOutInvariant, ReenterSuspendedInvariant, ClearInvariant,
       UnlinkAfterAcquireInvariant, PivotInvariant, EnterReturnsInvariant, EnterSuspendedInvariant,
       ResumedInvariant DEF EnterI
  <2>4. CASE FastUnlock(t)
    BY <2>4, FastExitInvariant, Drop10Invariant, DropSuccInvariant, RecheckInvariant DEF FastUnlock
  <2>5. CASE SlowExit(t)
    BY <2>5, ExitBeginInvariant, DropInvariant, CheckInvariant, CheckSuccInvariant, ReacquireInvariant,
       ChooseHeirInvariant, EpilogInvariant, UnparkInvariant DEF SlowExit
  <2>6. CASE Wait(t)
    BY <2>6, WaitCallInvariant, WaitAddInvariant, WaitDecideInvariant, WaitParkInvariant, DequeueInvariant,
       WaitReenterInvariant, WaitReturnsInvariant DEF Wait
  <2> QED
    BY <1>2, <2>1, <2>2, <2>3, <2>4, <2>5, <2>6 DEF Step
<1> QED
  BY <1>1, <1>2 DEF Next

\* Every state satisfies the invariant: the owner, the lists and the care for a free
\* lock are as the code's argument has them
THEOREM Invariance == Spec => []IInv
<1>1. Init => IInv
  BY InitInvariant
<1>2. IInv /\ [Next]_vars => IInv'
  BY NextInvariant
<1> QED
  BY <1>1, <1>2, PTL DEF Spec

\* Every variable has its type: the lists hold threads, and no thread has locals that
\* do not belong to its place in the code
THEOREM TypeCorrect == Spec => []TypeOK
<1>1. IInv => TypeOK
  BY DEF IInv, LockInv
<1> QED
  BY <1>1, Invariance, PTL

-----------------------------------------------------------------------------
(* The properties                                                          *)

LEMMA PlacesCounted ==
  ASSUME NEW S, NEW s \in Seq(S), NEW t, Distinct(s)
  PROVE  Cardinality({i \in DOMAIN s : s[i] = t}) = IF On(s, t) THEN 1 ELSE 0
<1>0. DOMAIN s = 1..Len(s)
  OBVIOUS
<1>1. CASE On(s, t)
  <2>1. PICK k \in 1..Len(s) : s[k] = t
    BY <1>1 DEF On
  <2>2. {i \in DOMAIN s : s[i] = t} = {k}
    BY <1>0, <2>1 DEF Distinct
  <2> QED
    BY <1>1, <2>2, FS_Singleton
<1>2. CASE ~On(s, t)
  <2>1. {i \in DOMAIN s : s[i] = t} = {}
    BY <1>0, <1>2 DEF On
  <2> QED
    BY <1>2, <2>1, FS_EmptySet
<1> QED
  BY <1>1, <1>2

\* A node is on the list that its TState names, once, and on no other, whoever pushes,
\* unlinks, notifies or gives up waiting at the same time
THEOREM ListsCorrect == Spec => []OnOneList
<1>1. ASSUME IInv
      PROVE  OnOneList
  <2> SUFFICES ASSUME NEW t \in Threads
               PROVE  /\ Cardinality({i \in DOMAIN cxq : cxq[i] = t})
                            = IF node[t].state = "CXQ" THEN 1 ELSE 0
                      /\ Cardinality({i \in DOMAIN entry : entry[i] = t})
                            = IF node[t].state = "ENTER" /\ ~Moving(t) THEN 1 ELSE 0
                      /\ Cardinality({i \in DOMAIN waitset : waitset[i] = t})
                            = IF node[t].state = "WAIT" THEN 1 ELSE 0
    BY DEF OnOneList, Moving, At
  <2>1. /\ cxq \in Seq(Threads) /\ entry \in Seq(Threads) /\ waitset \in Seq(Threads)
        /\ Distinct(cxq) /\ Distinct(entry) /\ Distinct(waitset)
        /\ On(cxq, t) <=> node[t].state = "CXQ"
        /\ On(entry, t) <=> node[t].state = "ENTER" /\ ~Moving(t)
        /\ On(waitset, t) <=> node[t].state = "WAIT"
    BY <1>1, ListFacts
  <2> QED
    BY <2>1, PlacesCounted
<1> QED
  BY <1>1, Invariance, PTL

\* A free lock that threads are queued for is never left to sleeping threads, by the
\* exits of the runtime or by the 1-0 exit of compiled code
THEOREM NobodyStranded == Spec => []NotStranded
<1>1. ASSUME IInv
      PROVE  NotStranded
  <2> SUFFICES ASSUME owner = NoThread, Queued # {}
               PROVE  \E t \in Threads : Awake(t)
    BY DEF NotStranded
  <2>1. cxq # <<>> \/ entry # <<>>
    <3>1. Range(<<>>) = {}
      BY DEF Range
    <3> QED
      BY <3>1 DEF Queued
  <2>2. succ # NoThread \/ \E t \in Threads : Tries(t) \/ th[t].pc \in Checking \/ Wakes(t)
    BY <1>1, <2>1 DEF IInv, CareInv, LockHandedOn
  <2>3. ASSUME NEW t \in Threads, Tries(t) \/ th[t].pc \in Checking \/ Wakes(t)
        PROVE  Awake(t)
    BY <1>1, <2>3, ThreadFacts DEF Tries, Dozes, Wakes, Checking, Awake, Sound, Runtime
  <2>4. ASSUME NEW v \in Threads, succ = v
        PROVE  \E t \in Threads : Awake(t)
    <3>1. SuccGood(v) /\ th[v].pc \in Places /\ Sound(th[v].pc, th[v].frame, th[v].then, th[v].after)
      BY <1>1, <2>4, ThreadFacts
    <3>2. CASE \E t \in Threads : th[t].pc \in {"epilog", "unpark"} /\ th[t].heir = v
      BY <1>1, <3>2, ThreadFacts DEF Awake
    <3>3. CASE v \in permit
      BY <3>1, <3>3 DEF SuccGood, SuccPlace, QueuedPlace, Awake, Sound, Runtime, Queueing, Spinning
    <3>4. CASE th[v].pc \in Looking
      BY <3>1, <3>4 DEF Looking, Awake
    <3> QED
      BY <3>1, <3>2, <3>3, <3>4 DEF SuccGood
  <2> QED
    BY <1>1, <2>2, <2>3, <2>4 DEF IInv, LockInv, TypeOK
<1> QED
  BY <1>1, Invariance, PTL

\* An interrupt that arrives between the reset of the event and the park is not lost
THEOREM InterruptsWake == Spec => []InterruptWakes
<1>1. IInv => InterruptWakes
  BY DEF IInv
<1> QED
  BY <1>1, Invariance, PTL

-----------------------------------------------------------------------------
(* The monitor of the Java language                                        *)

\* What the Java monitor's variables are in this one
Depth == IF Inside = {} THEN 0 ELSE recursions + 1
Waiters == {t \in Threads : node[t].state = "WAIT"}
WokenUp == {t \in InWait : node[t].state # "WAIT"}
SavedDepth == [t \in Threads |-> IF t \in InWait THEN th[t].saved + 1 ELSE 0]

\* A thread at place p, with this frame and this return, is in a call of wait that has
\* given the lock up
InCall(p, f, n) == n = "waiting" \/ p \in Waiting \/ f # "enter"

LEMMA JavaVariables ==
  ASSUME Inside' = Inside, Depth' = Depth, Waiters' = Waiters, WokenUp' = WokenUp, SavedDepth' = SavedDepth
  PROVE  UNCHANGED Java!vars
BY DEF Java!vars, Depth, Waiters, WokenUp, SavedDepth

LEMMA InCallOf ==
  ASSUME NEW t \in Threads
  PROVE  /\ t \in Inside <=> th[t].pc \in InsidePlaces
         /\ t \in InWait <=> InCall(th[t].pc, th[t].frame, th[t].then)
         /\ t \in Waiters <=> node[t].state = "WAIT"
         /\ t \in WokenUp <=> InCall(th[t].pc, th[t].frame, th[t].then) /\ node[t].state # "WAIT"
         /\ SavedDepth[t] = IF InCall(th[t].pc, th[t].frame, th[t].then) THEN th[t].saved + 1 ELSE 0
BY DEF Inside, InsidePlaces, InWait, InCall, Waiters, WokenUp, SavedDepth

\* One thread is inside, and only then can the lock be nested
LEMMA InsideFacts ==
  ASSUME IInv, NEW t \in Threads
  PROVE  /\ th[t].pc \in InsidePlaces => Inside = {t} /\ Depth = recursions + 1
         /\ owner = NoThread \/ (th[t].pc \in Holding /\ th[t].pc \notin InsidePlaces) =>
                Inside = {} /\ Depth = 0 /\ recursions = 0
<1>1. \A u \in Threads : /\ th[u].pc \in Holding <=> owner = u
                         /\ u # NoThread
                         /\ u \in Inside <=> th[u].pc \in InsidePlaces
  BY ThreadFacts, InCallOf
<1>2. InsidePlaces \subseteq Holding /\ Inside \subseteq Threads
  BY DEF InsidePlaces, Holding, Acquired, Inside
<1>3. ASSUME th[t].pc \in InsidePlaces
      PROVE  Inside = {t} /\ Depth = recursions + 1
  <2>1. owner = t /\ t \in Inside
    BY <1>1, <1>2, <1>3
  <2>2. Inside = {t}
    BY <1>1, <1>2, <2>1
  <2> QED
    BY <2>2 DEF Depth
<1>4. ASSUME owner = NoThread \/ (th[t].pc \in Holding /\ th[t].pc \notin InsidePlaces)
      PROVE  Inside = {} /\ Depth = 0 /\ recursions = 0
  <2>1. \A u \in Threads : th[u].pc \notin InsidePlaces
    BY <1>1, <1>2, <1>4
  <2>2. Inside = {}
    BY <1>1, <1>2, <2>1
  <2>3. recursions = 0
    BY <2>1 DEF IInv, LockInv, Unnested
  <2> QED
    BY <2>2, <2>3 DEF Depth
<1> QED
  BY <1>3, <1>4

\* What a step of t means for the Java monitor: other threads are where they were
LEMMA Views ==
  ASSUME NEW t \in Threads, NEW p, NEW f, NEW n, NEW a, NEW h, NEW s, Flow(t, p, f, n, a, h, s)
  PROVE  /\ Inside' = IF p \in InsidePlaces THEN Inside \cup {t} ELSE Inside \ {t}
         /\ InWait' = IF InCall(p, f, n) THEN InWait \cup {t} ELSE InWait \ {t}
         /\ SavedDepth' = [SavedDepth EXCEPT ![t] = IF InCall(p, f, n) THEN s + 1 ELSE 0]
<1>1. \A u \in Threads : u # t => th'[u] = th[u]
  BY DEF Flow
<1>2. th'[t].pc = p /\ th'[t].frame = f /\ th'[t].then = n /\ th'[t].saved = s
  BY DEF Flow
<1>3. Inside' = IF p \in InsidePlaces THEN Inside \cup {t} ELSE Inside \ {t}
  BY <1>1, <1>2 DEF Inside, InsidePlaces
<1>4. InWait' = IF InCall(p, f, n) THEN InWait \cup {t} ELSE InWait \ {t}
  BY <1>1, <1>2 DEF InWait, InCall
<1>5. SavedDepth' = [SavedDepth EXCEPT ![t] = IF InCall(p, f, n) THEN s + 1 ELSE 0]
  <2> DEFINE z == IF InCall(p, f, n) THEN s + 1 ELSE 0
  <2>1. \A u \in Threads : u # t => (u \in InWait' <=> u \in InWait)
    BY <1>4
  <2>2. t \in InWait' <=> InCall(p, f, n)
    BY <1>4
  <2>3. SavedDepth' = [u \in Threads |-> IF u \in InWait' THEN th'[u].saved + 1 ELSE 0]
    BY DEF SavedDepth
  <2>4. ASSUME NEW u \in Threads
        PROVE  SavedDepth'[u] = IF u = t THEN z ELSE SavedDepth[u]
    <3>1. SavedDepth'[u] = IF u \in InWait' THEN th'[u].saved + 1 ELSE 0
      BY <2>3
    <3>2. SavedDepth[u] = IF u \in InWait THEN th[u].saved + 1 ELSE 0
      BY DEF SavedDepth
    <3> QED
      BY <1>1, <1>2, <2>1, <2>2, <3>1, <3>2
  <2>5. SavedDepth = [u \in Threads |-> SavedDepth[u]]
    BY DEF SavedDepth
  <2> HIDE DEF z
  <2>6. SavedDepth' = [u \in Threads |-> IF u = t THEN z ELSE SavedDepth[u]]
    BY <2>3, <2>4
  <2> QED
    BY <2>5, <2>6 DEF z
<1> QED
  BY <1>3, <1>4, <1>5

\* A step that the Java code cannot see
LEMMA Unseen ==
  ASSUME IInv, NEW t \in Threads, NEW p, NEW f, NEW n, NEW a, NEW h, NEW s, Flow(t, p, f, n, a, h, s),
         \A u \in Threads : node'[u].state = "WAIT" <=> node[u].state = "WAIT",
         p \in InsidePlaces <=> th[t].pc \in InsidePlaces,
         InCall(p, f, n) <=> InCall(th[t].pc, th[t].frame, th[t].then),
         s = th[t].saved, recursions' = recursions
  PROVE  UNCHANGED Java!vars
<1>1. /\ t \in Inside <=> th[t].pc \in InsidePlaces
      /\ t \in InWait <=> InCall(th[t].pc, th[t].frame, th[t].then)
      /\ SavedDepth[t] = IF InCall(th[t].pc, th[t].frame, th[t].then) THEN th[t].saved + 1 ELSE 0
  BY InCallOf
<1>0. /\ Inside' = IF p \in InsidePlaces THEN Inside \cup {t} ELSE Inside \ {t}
      /\ InWait' = IF InCall(p, f, n) THEN InWait \cup {t} ELSE InWait \ {t}
  BY Views
<1>2. Inside' = Inside
  BY <1>0, <1>1
<1>3. InWait' = InWait
  BY <1>0, <1>1
<1>4. SavedDepth' = SavedDepth
  <2>1. SavedDepth' = [SavedDepth EXCEPT ![t] = SavedDepth[t]]
    BY <1>1, Views
  <2> QED
    BY <2>1 DEF SavedDepth
<1>5. Waiters' = Waiters
  BY DEF Waiters
<1>6. WokenUp' = WokenUp
  <2>1. InWait \subseteq Threads
    BY DEF InWait
  <2> QED
    BY <1>3, <2>1 DEF WokenUp
<1>7. Depth' = Depth
  BY <1>2 DEF Depth
<1> QED
  BY <1>2, <1>4, <1>5, <1>6, <1>7, JavaVariables

LEMMA UnseenGoto ==
  ASSUME IInv, NEW t \in Threads, NEW l \in Places, Goto(t, l), recursions' = recursions,
         \A u \in Threads : node'[u].state = "WAIT" <=> node[u].state = "WAIT",
         l \in InsidePlaces <=> th[t].pc \in InsidePlaces, l \in Waiting <=> th[t].pc \in Waiting
  PROVE  UNCHANGED Java!vars
<1>1. Flow(t, l, th[t].frame, th[t].then, th[t].after, th[t].heir, th[t].saved)
  BY ThreadFacts, GotoFlow
<1>2. InCall(l, th[t].frame, th[t].then) <=> InCall(th[t].pc, th[t].frame, th[t].then)
  BY DEF InCall
<1> QED
  BY <1>1, <1>2, Unseen

LEMMA UnseenReturn ==
  ASSUME IInv, NEW t \in Threads, Return(t), recursions' = recursions, UNCHANGED node,
         th[t].pc \notin InsidePlaces, th[t].pc \in Exiting
  PROVE  UNCHANGED Java!vars
<1>1. Flow(t, th[t].then, th[t].frame, "idle", th[t].after, NoThread, th[t].saved)
  BY ThreadFacts, ReturnFlow
<1>2. /\ InCall(th[t].then, th[t].frame, "idle") <=> InCall(th[t].pc, th[t].frame, th[t].then)
      /\ th[t].then \notin InsidePlaces
  BY ThreadFacts DEF InCall, InsidePlaces, Waiting, Exiting
<1> QED
  BY <1>1, <1>2, Unseen

-----------------------------------------------------------------------------
(* Steps that the Java code does not see                                   *)

LEMMA SpinUnseen ==
  ASSUME IInv, NEW t \in Threads, Spin(t)
  PROVE  UNCHANGED Java!vars
<1>0. th[t].pc \in Spinning /\ recursions' = recursions /\ UNCHANGED node
  BY DEF Spin, SpinAcquires, SpinSeesNoSucc, SpinSetSucc, SpinAbort, SpinLastTry, At, lists, lock, Spinning
<1>1. PICK l \in {"acquired", "unlink", "push", "clear", "rpark"} \cup Spinning : Goto(t, l)
  <2>1. th[t].after \in {"push", "clear", "rpark"}
    BY ThreadFacts
  <2> QED
    BY <2>1 DEF Spin, SpinAcquires, SpinSeesNoSucc, SpinSetSucc, SpinAbort, SpinLastTry, Spinning
<1>2. /\ l \in Places /\ l \notin InsidePlaces \cup Waiting
      /\ th[t].pc \notin InsidePlaces \cup Waiting
  BY <1>0, <1>1 DEF Places, InsidePlaces, Waiting, Spinning, Queueing, Acquired
<1> QED
  BY <1>0, <1>1, <1>2, UnseenGoto

\* The steps of EnterI that only change the place, the lists, the hints and the event
LEMMA QueueUnseen ==
  ASSUME IInv, NEW t \in Threads,
         \/ Push(t) \/ PushFails(t) \/ Elect(t) \/ ChoosePark(t) \/ Park(t) \/ ParkTimesOut(t)
         \/ Clear(t) \/ UnlinkAfterAcquire(t) \/ Pivot(t)
  PROVE  UNCHANGED Java!vars
<1>0. /\ th[t].pc \in Queueing \cup {"push", "unlink", "pivot"} /\ recursions' = recursions
  BY DEF Push, PushFails, Elect, ChoosePark, Park, ParkTimesOut, Clear, UnlinkAfterAcquire, Pivot,
         At, lock, Queueing
<1>1. PICK l \in {"acquired", "waited", "pivot"} \cup Queueing : Goto(t, l)
  BY DEF Push, PushFails, Elect, ChoosePark, Park, ParkTimesOut, Clear, UnlinkAfterAcquire, Pivot,
         Queueing
<1>2. /\ l \in Places /\ l \notin InsidePlaces \cup Waiting
      /\ th[t].pc \notin InsidePlaces \cup Waiting
  BY <1>0, <1>1 DEF Places, InsidePlaces, Waiting, Spinning, Queueing, Acquired
<1>3. \A u \in Threads : node'[u].state = "WAIT" <=> node[u].state = "WAIT"
  <2>1. CASE Push(t)
    <3>1. /\ node \in [Threads -> [state : {"RUN", "CXQ", "ENTER", "WAIT"}, notified : BOOLEAN]]
          /\ node' = [node EXCEPT ![t] = [state |-> "CXQ", notified |-> FALSE]]
      BY <2>1, ThreadFacts DEF TypeOK, Push
    <3>2. node'[t].state = "CXQ" /\ \A u \in Threads : u # t => node'[u] = node[u]
      BY <3>1
    <3>3. node[t].state # "WAIT"
      BY <2>1, ThreadFacts DEF NodeSound, Sound, Runtime, Push, At
    <3> QED
      BY <3>2, <3>3
  <2>2. CASE UnlinkAfterAcquire(t)
    <3>1. node'[t].state = "RUN" /\ \A u \in Threads : u # t => node'[u] = node[u]
      BY <2>2, ThreadFacts, NodeUpdated DEF UnlinkAfterAcquire
    <3>2. node[t].state # "WAIT"
      BY <2>2, ThreadFacts DEF NodeSound, Sound, Runtime, UnlinkAfterAcquire, At
    <3> QED
      BY <3>1, <3>2
  <2>3. CASE ~Push(t) /\ ~UnlinkAfterAcquire(t)
    BY <2>3 DEF PushFails, Elect, ChoosePark, Park, ParkTimesOut, Clear, Pivot, lists
  <2> QED
    BY <2>1, <2>2, <2>3
<1> QED
  BY <1>0, <1>1, <1>2, <1>3, UnseenGoto

\* TryLock, a suspension and the call of EnterI that follows it
LEMMA TryLockUnseen ==
  ASSUME IInv, NEW t \in Threads, TryLock(t)
  PROVE  UNCHANGED Java!vars
<1> DEFINE p == CASE owner = NoThread -> "unlink"
                  [] owner # NoThread /\ th[t].pc = "try" -> "choose"
                  [] owner # NoThread /\ th[t].pc = "rwoken" -> "clear"
                  [] OTHER -> "spin"
           a == IF th[t].pc = "rtry" THEN "rpark" ELSE "clear"
           r == [th[t] EXCEPT !.pc = p, !.after = a]
<1>0. th[t].pc \in {"try", "woken", "rtry", "rwoken"} /\ recursions' = recursions /\ UNCHANGED node
  BY DEF TryLock, lists
<1>1. th' = [th EXCEPT ![t] = r]
  BY DEF TryLock
<1>2. p \in {"unlink", "choose", "clear", "spin"} /\ a \in {"rpark", "clear"}
  OBVIOUS
<1> HIDE DEF p, a
<1>3. p \in Places
  BY <1>2 DEF Places, Queueing, Spinning, Acquired
<1>4. /\ r \in Locals /\ r.pc = p /\ r.frame = th[t].frame /\ r.then = th[t].then
      /\ r.after = a /\ r.heir = th[t].heir /\ r.saved = th[t].saved
  BY <1>2, <1>3, ThreadFacts, FieldTypes DEF Locals
<1> HIDE DEF r
<1>5. Flow(t, p, th[t].frame, th[t].then, a, th[t].heir, th[t].saved)
  BY <1>1, <1>4, ThreadFacts, UpdateFlow
<1>6. /\ p \notin InsidePlaces /\ th[t].pc \notin InsidePlaces
      /\ InCall(p, th[t].frame, th[t].then) <=> InCall(th[t].pc, th[t].frame, th[t].then)
  BY <1>0, <1>2 DEF InsidePlaces, InCall, Waiting
<1> QED
  BY <1>0, <1>5, <1>6, Unseen

LEMMA SuspendUnseen ==
  ASSUME IInv, NEW t \in Threads, ReenterSuspended(t) \/ EnterSuspended(t) \/ Resumed(t)
  PROVE  UNCHANGED Java!vars
<1>1. CASE ReenterSuspended(t)
  BY <1>1 DEF ReenterSuspended, Java!vars, Inside, InWait, lists, lock
<1>2. CASE EnterSuspended(t)
  <2> DEFINE r == [th[t] EXCEPT !.pc = "exit", !.then = "suspended"]
  <2>0. th[t].pc = "acquired" /\ recursions' = 0 /\ UNCHANGED node
    BY <1>2 DEF EnterSuspended, At, lists
  <2>1. th' = [th EXCEPT ![t] = r]
    BY <1>2 DEF EnterSuspended
  <2>2. /\ r \in Locals /\ r.pc = "exit" /\ r.frame = th[t].frame /\ r.then = "suspended"
        /\ r.after = th[t].after /\ r.heir = th[t].heir /\ r.saved = th[t].saved
    BY ThreadFacts, FieldTypes DEF Locals, Places, Exiting
  <2> HIDE DEF r
  <2>3. Flow(t, "exit", th[t].frame, "suspended", th[t].after, th[t].heir, th[t].saved)
    BY <2>1, <2>2, ThreadFacts, UpdateFlow
  <2>4. recursions = 0
    BY <2>0, InsideFacts DEF Holding, Acquired, InsidePlaces
  <2>5. /\ "exit" \notin InsidePlaces /\ th[t].pc \notin InsidePlaces
        /\ InCall("exit", th[t].frame, "suspended") <=> InCall(th[t].pc, th[t].frame, th[t].then)
    BY <2>0, ThreadFacts DEF InsidePlaces, InCall, Waiting, Sound, Runtime
  <2> QED
    BY <2>0, <2>3, <2>4, <2>5, Unseen
<1>3. CASE Resumed(t)
  <2> DEFINE r == [th[t] EXCEPT !.pc = "spin", !.after = "push"]
  <2>0. th[t].pc = "suspended" /\ recursions' = recursions /\ UNCHANGED node
    BY <1>3 DEF Resumed, At, lists, lock
  <2>1. th' = [th EXCEPT ![t] = r]
    BY <1>3 DEF Resumed
  <2>2. /\ r \in Locals /\ r.pc = "spin" /\ r.frame = th[t].frame /\ r.then = th[t].then
        /\ r.after = "push" /\ r.heir = th[t].heir /\ r.saved = th[t].saved
    BY ThreadFacts, FieldTypes DEF Locals, Places, Spinning
  <2> HIDE DEF r
  <2>3. Flow(t, "spin", th[t].frame, th[t].then, "push", th[t].heir, th[t].saved)
    BY <2>1, <2>2, ThreadFacts, UpdateFlow
  <2>4. /\ "spin" \notin InsidePlaces /\ th[t].pc \notin InsidePlaces
        /\ InCall("spin", th[t].frame, th[t].then) <=> InCall(th[t].pc, th[t].frame, th[t].then)
    BY <2>0 DEF InsidePlaces, InCall, Waiting
  <2> QED
    BY <2>0, <2>3, <2>4, Unseen
<1> QED
  BY <1>1, <1>2, <1>3

\* The exits, once the Java code has left: the lock may be taken back to wake an heir
LEMMA ExitUnseen ==
  ASSUME IInv, NEW t \in Threads, FastUnlock(t) \/ SlowExit(t)
  PROVE  UNCHANGED Java!vars
<1>0. th[t].pc \in Exiting /\ recursions' = recursions
  BY DEF FastUnlock, FastExit, Drop10, DropSucc, Recheck, SlowExit, ExitBegin, Drop, Check, CheckSucc,
         Reacquire, ChooseHeir, Epilog, Unpark, At, lock, Exiting
<1>1. th[t].pc \notin InsidePlaces \cup Waiting
  BY <1>0 DEF Exiting, InsidePlaces, Waiting
<1>2. CASE ChooseHeir(t)
  <2>0. th[t].pc = "heir"
    BY <1>2 DEF ChooseHeir, At
  <2>1. \A u \in Threads : node'[u].state = "WAIT" <=> node[u].state = "WAIT"
    <3>1. CASE UNCHANGED node
      BY <3>1
    <3>2. CASE node' = [u \in Threads |-> IF u \in Range(cxq) THEN [node[u] EXCEPT !.state = "ENTER"]
                                          ELSE node[u]]
      <4> TAKE u \in Threads
      <4>1. CASE On(cxq, u)
        <5>1. node[u] \in [state : {"RUN", "CXQ", "ENTER", "WAIT"}, notified : BOOLEAN]
          BY ThreadFacts DEF TypeOK
        <5>2. node[u].state = "CXQ" /\ node'[u] = [node[u] EXCEPT !.state = "ENTER"]
          BY <3>2, <4>1, ListFacts, RangeOn
        <5> QED
          BY <5>1, <5>2
      <4>2. CASE ~On(cxq, u)
        BY <3>2, <4>2, ListFacts, RangeOn
      <4> QED
        BY <4>1, <4>2
    <3> QED
      BY <1>2, <3>1, <3>2 DEF ChooseHeir
  <2>2. CASE Goto(t, "drop")
    <3>1. "drop" \in Places /\ "drop" \notin InsidePlaces \cup Waiting
      BY DEF Places, Exiting, InsidePlaces, Waiting
    <3> QED
      BY <1>0, <1>1, <2>1, <2>2, <3>1, UnseenGoto
  <2>3. ASSUME NEW v \in Threads, WithHeir(t, v)
        PROVE  UNCHANGED Java!vars
    <3>1. Flow(t, "epilog", th[t].frame, th[t].then, th[t].after, v, th[t].saved)
      BY <2>3, ThreadFacts, HeirFlow
    <3>2. /\ "epilog" \notin InsidePlaces
          /\ InCall("epilog", th[t].frame, th[t].then) <=> InCall(th[t].pc, th[t].frame, th[t].then)
      BY <1>1 DEF InsidePlaces, InCall, Waiting
    <3> QED
      BY <1>0, <1>1, <2>1, <3>1, <3>2, Unseen
  <2>4. Goto(t, "drop") \/ \E v \in Threads : WithHeir(t, v)
    <3>1. /\ entry # <<>> => Head(entry) \in Threads
          /\ cxq # <<>> => Head(cxq) \in Threads
      BY ListFacts, HeadOn
    <3> QED
      BY <1>2, <3>1 DEF ChooseHeir, WithHeir
  <2> QED
    BY <2>2, <2>3, <2>4
<1>3. CASE ~ChooseHeir(t)
  <2>1. UNCHANGED node
    BY <1>3 DEF FastUnlock, FastExit, Drop10, DropSucc, Recheck, SlowExit, ExitBegin, Drop, Check,
                CheckSucc, Reacquire, Epilog, Unpark, lists
  <2>2. Return(t) \/ \E l \in Exiting : Goto(t, l)
    BY <1>3 DEF FastUnlock, FastExit, Drop10, DropSucc, Recheck, SlowExit, ExitBegin, Drop, Check,
                CheckSucc, Reacquire, Epilog, Unpark, Exiting
  <2>3. Exiting \subseteq Places /\ \A l \in Exiting : l \notin InsidePlaces \cup Waiting
    BY DEF Places, Exiting, InsidePlaces, Waiting
  <2>4. CASE Return(t)
    BY <1>0, <1>1, <2>1, <2>4, UnseenReturn
  <2>5. CASE \E l \in Exiting : Goto(t, l)
    <3>1. PICK l \in Exiting : Goto(t, l)
      BY <2>5
    <3>2. l \in Places /\ l \notin InsidePlaces \cup Waiting
      BY <2>3
    <3> QED
      BY <1>0, <1>1, <2>1, <3>1, <3>2, UnseenGoto
  <2> QED
    BY <2>2, <2>4, <2>5
<1> QED
  BY <1>2, <1>3

\* wait, once the lock is given up and until it is back, and the second half of notify
LEMMA WaitUnseen ==
  ASSUME IInv, NEW t \in Threads,
         (\E b \in BOOLEAN : WaitCall(t, b)) \/ WaitDecide(t) \/ WaitPark(t) \/ WaitReenter(t)
  PROVE  UNCHANGED Java!vars
<1>0. recursions' = recursions /\ UNCHANGED node
  BY DEF WaitCall, WaitDecide, WaitPark, WaitReenter, lock, lists
<1>1. ASSUME NEW b \in BOOLEAN, WaitCall(t, b)
      PROVE  UNCHANGED Java!vars
  <2> DEFINE p == IF t \in interrupted THEN "owns" ELSE "wait"
             r == [th[t] EXCEPT !.pc = p, !.timed = b, !.waits = @ - 1]
  <2>0. th[t].pc = "owns" /\ th[t].waits > 0
    BY <1>1 DEF WaitCall, At
  <2>1. th' = [th EXCEPT ![t] = r]
    BY <1>1 DEF WaitCall
  <2>2. p \in {"owns", "wait"}
    OBVIOUS
  <2> HIDE DEF p
  <2>3. /\ r \in Locals /\ r.pc = p /\ r.frame = th[t].frame /\ r.then = th[t].then
        /\ r.after = th[t].after /\ r.heir = th[t].heir /\ r.saved = th[t].saved
    <3>1. th[t].waits - 1 \in Nat
      BY <2>0, ThreadFacts, FieldTypes
    <3>2. p \in Places
      BY <2>2 DEF Places, Acquired
    <3> QED
      BY <3>1, <3>2, ThreadFacts, FieldTypes DEF Locals
  <2> HIDE DEF r
  <2>4. Flow(t, p, th[t].frame, th[t].then, th[t].after, th[t].heir, th[t].saved)
    BY <2>1, <2>3, ThreadFacts, UpdateFlow
  <2>5. /\ p \in InsidePlaces /\ th[t].pc \in InsidePlaces
        /\ InCall(p, th[t].frame, th[t].then) <=> InCall(th[t].pc, th[t].frame, th[t].then)
    BY <2>0, <2>2 DEF InsidePlaces, InCall, Waiting
  <2> QED
    BY <1>0, <2>4, <2>5, Unseen
<1>2. CASE WaitDecide(t) \/ WaitPark(t)
  <2>1. th[t].pc \in {"waiting", "waitpark"}
    BY <1>2 DEF WaitDecide, WaitPark, At
  <2>2. PICK l \in {"dequeue", "waitpark"} : Goto(t, l)
    BY <1>2 DEF WaitDecide, WaitPark
  <2>3. /\ l \in Places /\ l \in Waiting /\ th[t].pc \in Waiting
        /\ l \notin InsidePlaces /\ th[t].pc \notin InsidePlaces
    BY <2>1, <2>2 DEF Places, Waiting, InsidePlaces
  <2> QED
    BY <1>0, <2>2, <2>3, UnseenGoto
<1>3. CASE WaitReenter(t)
  <2> DEFINE p == IF node[t].state = "RUN" THEN "spin" ELSE "rtry"
             f == IF node[t].state = "RUN" THEN "wait" ELSE "reenter"
             b == node[t].notified
             r == [th[t] EXCEPT !.was = b, !.pc = p, !.after = "push", !.frame = f]
  <2>0. th[t].pc = "reenter"
    BY <1>3 DEF WaitReenter, At
  <2>1. th' = [th EXCEPT ![t] = r]
    BY <1>3 DEF WaitReenter
  <2>2. p \in {"spin", "rtry"} /\ f \in {"wait", "reenter"} /\ b \in BOOLEAN
    BY ThreadFacts DEF TypeOK
  <2> HIDE DEF p, f, b
  <2>3. p \in Places
    BY <2>2 DEF Places, Spinning, Queueing
  <2>4. /\ r \in Locals /\ r.pc = p /\ r.frame = f /\ r.then = th[t].then
        /\ r.after = "push" /\ r.heir = th[t].heir /\ r.saved = th[t].saved
    BY <2>2, <2>3, ThreadFacts, FieldTypes DEF Locals
  <2> HIDE DEF r
  <2>5. Flow(t, p, f, th[t].then, "push", th[t].heir, th[t].saved)
    BY <2>1, <2>4, ThreadFacts, UpdateFlow
  <2>6. /\ p \notin InsidePlaces /\ th[t].pc \notin InsidePlaces
        /\ InCall(p, f, th[t].then) /\ InCall(th[t].pc, th[t].frame, th[t].then)
    BY <2>0, <2>2 DEF InsidePlaces, InCall, Waiting
  <2> QED
    BY <1>0, <2>5, <2>6, Unseen
<1> QED
  BY <1>1, <1>2, <1>3

LEMMA NotifyLinkUnseen ==
  ASSUME IInv, NEW t \in Threads, NotifyLink(t)
  PROVE  UNCHANGED Java!vars
<1> DEFINE w == th[t].heir
           x == IF entry = <<>> THEN "ENTER" ELSE "CXQ"
           r == [th[t] EXCEPT !.pc = "owns", !.heir = NoThread]
<1>0. /\ th[t].pc = "notifylink" /\ recursions' = recursions
      /\ node' = [node EXCEPT ![w] = [state |-> x, notified |-> TRUE]]
  BY DEF NotifyLink, At, lock
<1>1. th' = [th EXCEPT ![t] = r]
  BY DEF NotifyLink
<1>2. w \in Threads /\ node[w].state = "ENTER"
  BY <1>0 DEF IInv, ListInv, MovingSound
<1> HIDE DEF w
<1>3. \A u \in Threads : node'[u].state = "WAIT" <=> node[u].state = "WAIT"
  <2>1. node \in [Threads -> [state : {"RUN", "CXQ", "ENTER", "WAIT"}, notified : BOOLEAN]]
    BY ThreadFacts DEF TypeOK
  <2>2. x # "WAIT"
    OBVIOUS
  <2> HIDE DEF x
  <2>3. node'[w].state = x /\ \A u \in Threads : u # w => node'[u] = node[u]
    BY <1>0, <1>2, <2>1
  <2> QED
    BY <1>2, <2>2, <2>3
<1>4. /\ r \in Locals /\ r.pc = "owns" /\ r.frame = th[t].frame /\ r.then = th[t].then
      /\ r.after = th[t].after /\ r.heir = NoThread /\ r.saved = th[t].saved
  <2>1. "owns" \in Places
    BY DEF Places, Acquired
  <2> QED
    BY <2>1, ThreadFacts, FieldTypes DEF Locals
<1> HIDE DEF r
<1>5. Flow(t, "owns", th[t].frame, th[t].then, th[t].after, NoThread, th[t].saved)
  <2>1. TypeOK
    BY ThreadFacts
  <2> QED
    BY <1>1, <1>4, <2>1, UpdateFlow
<1>6. /\ "owns" \in InsidePlaces /\ th[t].pc \in InsidePlaces
      /\ InCall("owns", th[t].frame, th[t].then) <=> InCall(th[t].pc, th[t].frame, th[t].then)
  BY <1>0 DEF InsidePlaces, InCall, Waiting
<1> QED
  BY <1>0, <1>3, <1>5, <1>6, Unseen

LEMMA InterruptUnseen ==
  ASSUME NEW t \in Threads, Interrupt(t)
  PROVE  UNCHANGED Java!vars
BY DEF Interrupt, Java!vars, Inside, InWait, lists, lock

-----------------------------------------------------------------------------
(* Steps of the Java monitor                                               *)

LEMMA JavaEnter ==
  ASSUME NEW t \in Threads, Inside = {}, t \notin Waiters, t \notin WokenUp, Inside' = {t}, Depth' = 1,
         Waiters' = Waiters, WokenUp' = WokenUp, SavedDepth' = SavedDepth
  PROVE  Java!Next
BY DEF Java!Next, Java!Enter, Depth, Waiters, WokenUp, SavedDepth

LEMMA JavaEnterAgain ==
  ASSUME NEW t \in Threads, Inside = {t}, Depth' = Depth + 1, Inside' = Inside,
         Waiters' = Waiters, WokenUp' = WokenUp, SavedDepth' = SavedDepth
  PROVE  Java!Next
BY DEF Java!Next, Java!EnterAgain, Depth, Waiters, WokenUp, SavedDepth

LEMMA JavaExit ==
  ASSUME NEW t \in Threads, Inside = {t}, Depth' = Depth - 1,
         Inside' = IF Depth = 1 THEN {} ELSE Inside,
         Waiters' = Waiters, WokenUp' = WokenUp, SavedDepth' = SavedDepth
  PROVE  Java!Next
BY DEF Java!Next, Java!Exit, Depth, Waiters, WokenUp, SavedDepth

LEMMA JavaWait ==
  ASSUME NEW t \in Threads, Inside = {t}, Inside' = {}, Depth' = 0, Waiters' = Waiters \cup {t},
         SavedDepth' = [SavedDepth EXCEPT ![t] = Depth], WokenUp' = WokenUp
  PROVE  Java!Next
BY DEF Java!Next, Java!Wait, Depth, Waiters, WokenUp, SavedDepth

LEMMA JavaLeave ==
  ASSUME NEW t \in Threads, t \in Waiters, Waiters' = Waiters \ {t}, WokenUp' = WokenUp \cup {t},
         Inside' = Inside, Depth' = Depth, SavedDepth' = SavedDepth
  PROVE  Java!Next
BY DEF Java!Next, Java!Leave, Depth, Waiters, WokenUp, SavedDepth

LEMMA JavaNotifyAll ==
  ASSUME NEW t \in Threads, Inside = {t}, Waiters' = {}, WokenUp' = WokenUp \cup Waiters,
         Inside' = Inside, Depth' = Depth, SavedDepth' = SavedDepth
  PROVE  Java!Next
BY DEF Java!Next, Java!NotifyAll, Depth, Waiters, WokenUp, SavedDepth

LEMMA JavaWaitReturns ==
  ASSUME NEW t \in Threads, Inside = {}, t \in WokenUp, Inside' = {t}, Depth' = SavedDepth[t],
         WokenUp' = WokenUp \ {t}, SavedDepth' = [SavedDepth EXCEPT ![t] = 0], Waiters' = Waiters
  PROVE  Java!Next
BY DEF Java!Next, Java!WaitReturns, Depth, Waiters, WokenUp, SavedDepth

\* The wait set and the threads that have left it, after a step of t that leaves the
\* nodes alone
LEMMA WaitersKept ==
  ASSUME UNCHANGED node, InWait' = InWait
  PROVE  Waiters' = Waiters /\ WokenUp' = WokenUp
BY DEF Waiters, WokenUp

\* Thread t, which is in no call of wait, stays so
LEMMA NotInCall ==
  ASSUME NEW t \in Threads, NEW p, NEW f, NEW n, NEW a, NEW h, NEW s, Flow(t, p, f, n, a, h, s),
         ~InCall(th[t].pc, th[t].frame, th[t].then), ~InCall(p, f, n), UNCHANGED node
  PROVE  /\ InWait' = InWait /\ SavedDepth' = SavedDepth /\ Waiters' = Waiters /\ WokenUp' = WokenUp
         /\ Inside' = IF p \in InsidePlaces THEN Inside \cup {t} ELSE Inside \ {t}
<1>1. t \notin InWait /\ SavedDepth[t] = 0
  BY InCallOf
<1>2. /\ Inside' = IF p \in InsidePlaces THEN Inside \cup {t} ELSE Inside \ {t}
      /\ InWait' = InWait \ {t}
      /\ SavedDepth' = [SavedDepth EXCEPT ![t] = 0]
  BY Views
<1>3. InWait' = InWait
  BY <1>1, <1>2
<1>4. SavedDepth' = SavedDepth
  <2>1. SavedDepth' = [SavedDepth EXCEPT ![t] = SavedDepth[t]]
    BY <1>1, <1>2
  <2> QED
    BY <2>1 DEF SavedDepth
<1> QED
  BY <1>2, <1>3, <1>4, WaitersKept

\* enter: the lock is taken at once, entered again, or fought for
LEMMA EnterSeen ==
  ASSUME IInv, NEW t \in Threads, Enter(t)
  PROVE  Java!Next \/ UNCHANGED Java!vars
<1> DEFINE p == IF owner \in {NoThread, t} THEN "owns" ELSE "spin"
           r == [th[t] EXCEPT !.pc = p, !.frame = "enter", !.after = "push", !.enters = @ - 1]
<1>0. /\ th[t].pc \in {"idle", "owns"} /\ th[t].enters > 0 /\ UNCHANGED node
      /\ recursions' = IF owner = t THEN recursions + 1 ELSE recursions
  BY DEF Enter, lists
<1>1. th' = [th EXCEPT ![t] = r]
  BY DEF Enter
<1>2. p \in {"owns", "spin"} /\ (p = "owns" <=> owner \in {NoThread, t})
  OBVIOUS
<1> HIDE DEF p
<1>3. /\ r \in Locals /\ r.pc = p /\ r.frame = "enter" /\ r.then = th[t].then
      /\ r.after = "push" /\ r.heir = th[t].heir /\ r.saved = th[t].saved
  <2>1. th[t].enters - 1 \in Nat
    BY <1>0, ThreadFacts, FieldTypes
  <2>2. p \in Places
    BY <1>2 DEF Places, Acquired, Spinning
  <2> QED
    BY <2>1, <2>2, ThreadFacts, FieldTypes DEF Locals
<1> HIDE DEF r
<1>4. Flow(t, p, "enter", th[t].then, "push", th[t].heir, th[t].saved)
  BY <1>1, <1>3, ThreadFacts, UpdateFlow
<1>5. /\ th[t].then = "idle" /\ th[t].frame = "enter" /\ node[t].state # "WAIT"
      /\ (th[t].pc = "owns" <=> owner = t)
  BY <1>0, ThreadFacts
     DEF Sound, NodeSound, Runtime, Entering, Reentering, Spinning, Queueing, Holding, Acquired
<1>6. ~InCall(th[t].pc, th[t].frame, th[t].then) /\ ~InCall(p, "enter", th[t].then)
  BY <1>0, <1>2, <1>5 DEF InCall, Waiting
<1>7. /\ SavedDepth' = SavedDepth /\ Waiters' = Waiters /\ WokenUp' = WokenUp
      /\ Inside' = IF p \in InsidePlaces THEN Inside \cup {t} ELSE Inside \ {t}
  BY <1>0, <1>4, <1>6, NotInCall
<1>8. "owns" \in InsidePlaces /\ "spin" \notin InsidePlaces /\ "idle" \notin InsidePlaces
  BY DEF InsidePlaces
<1>9. recursions \in Nat /\ t # NoThread
  BY ThreadFacts DEF TypeOK
<1>10. CASE owner = NoThread
  <2>1. Inside = {} /\ recursions = 0
    BY <1>10, InsideFacts
  <2>2. Inside' = {t} /\ recursions' = 0
    BY <1>0, <1>2, <1>7, <1>8, <1>9, <1>10, <2>1
  <2>3. Depth' = 1
    BY <2>2 DEF Depth
  <2>4. t \notin Waiters /\ t \notin WokenUp
    BY <1>5, <1>6, InCallOf
  <2> QED
    BY <1>7, <2>1, <2>2, <2>3, <2>4, JavaEnter
<1>11. CASE owner = t
  <2>1. Inside = {t} /\ Depth = recursions + 1
    BY <1>5, <1>8, <1>11, InsideFacts
  <2>2. Inside' = Inside /\ recursions' = recursions + 1
    BY <1>0, <1>2, <1>7, <1>8, <1>11, <2>1
  <2>3. Depth' = Depth + 1
    BY <2>1, <2>2 DEF Depth
  <2> QED
    BY <1>7, <2>1, <2>2, <2>3, JavaEnterAgain
<1>12. CASE owner \notin {NoThread, t}
  <2>1. p = "spin" /\ th[t].pc = "idle" /\ recursions' = recursions
    BY <1>0, <1>2, <1>5, <1>12
  <2> QED
    BY <1>0, <1>4, <1>6, <1>8, <2>1, Unseen
<1> QED
  BY <1>10, <1>11, <1>12

LEMMA EnterReturnsSeen ==
  ASSUME IInv, NEW t \in Threads, EnterReturns(t)
  PROVE  Java!Next \/ UNCHANGED Java!vars
<1> DEFINE p == IF th[t].frame = "wait" THEN "waited" ELSE "owns"
           r == [th[t] EXCEPT !.pc = p, !.after = "push"]
<1>0. th[t].pc = "acquired" /\ UNCHANGED node /\ recursions' = recursions
  BY DEF EnterReturns, At, lists, lock
<1>1. th' = [th EXCEPT ![t] = r]
  BY DEF EnterReturns
<1>2. p \in {"waited", "owns"} /\ (p = "waited" <=> th[t].frame = "wait")
  OBVIOUS
<1> HIDE DEF p
<1>3. /\ r \in Locals /\ r.pc = p /\ r.frame = th[t].frame /\ r.then = th[t].then
      /\ r.after = "push" /\ r.heir = th[t].heir /\ r.saved = th[t].saved
  <2>1. p \in Places
    BY <1>2 DEF Places, Acquired
  <2> QED
    BY <2>1, ThreadFacts, FieldTypes DEF Locals
<1> HIDE DEF r
<1>4. Flow(t, p, th[t].frame, th[t].then, "push", th[t].heir, th[t].saved)
  BY <1>1, <1>3, ThreadFacts, UpdateFlow
<1>5. /\ th[t].then = "idle" /\ th[t].frame \in {"enter", "wait"} /\ node[t].state # "WAIT"
  BY <1>0, ThreadFacts DEF Sound, NodeSound, Runtime, Reentering, Spinning
<1>6. /\ Inside = {} /\ recursions = 0
  BY <1>0, InsideFacts DEF Holding, Acquired, InsidePlaces
<1>7. "owns" \in InsidePlaces /\ "waited" \notin InsidePlaces /\ "acquired" \notin InsidePlaces
  BY DEF InsidePlaces
<1>8. CASE th[t].frame = "wait"
  <2>1. InCall(p, th[t].frame, th[t].then) /\ InCall(th[t].pc, th[t].frame, th[t].then) /\ p = "waited"
    BY <1>2, <1>8 DEF InCall
  <2> QED
    BY <1>0, <1>4, <1>7, <2>1, Unseen
<1>9. CASE th[t].frame = "enter"
  <2>0. p = "owns"
    BY <1>2, <1>9
  <2>1. ~InCall(th[t].pc, th[t].frame, th[t].then) /\ ~InCall(p, th[t].frame, th[t].then)
    BY <1>0, <1>5, <1>9, <2>0 DEF InCall, Waiting
  <2>2. /\ SavedDepth' = SavedDepth /\ Waiters' = Waiters /\ WokenUp' = WokenUp
        /\ Inside' = {t}
    BY <1>0, <1>4, <1>6, <1>7, <2>0, <2>1, NotInCall
  <2>3. Depth' = 1
    BY <1>0, <1>6, <2>2 DEF Depth
  <2>4. t \notin Waiters /\ t \notin WokenUp
    BY <1>5, <2>1, InCallOf
  <2> QED
    BY <1>6, <2>2, <2>3, <2>4, JavaEnter
<1> QED
  BY <1>5, <1>8, <1>9

LEMMA ExitSeen ==
  ASSUME IInv, NEW t \in Threads, Exit(t)
  PROVE  Java!Next
<1>0. th[t].pc \in {"owns", "iex"} /\ UNCHANGED node
  BY DEF Exit, lists
<1>1. /\ th[t].then = "idle" /\ th[t].frame = "enter" /\ node[t].state # "WAIT"
      /\ recursions \in Nat
  BY <1>0, ThreadFacts
     DEF Sound, NodeSound, Runtime, Entering, Reentering, Spinning, Queueing, TypeOK
<1>2. Inside = {t} /\ Depth = recursions + 1
  BY <1>0, InsideFacts DEF InsidePlaces
<1>3. ~InCall(th[t].pc, th[t].frame, th[t].then)
  BY <1>0, <1>1 DEF InCall, Waiting
<1>4. CASE recursions > 0
  <2>1. recursions' = recursions - 1 /\ Goto(t, "owns")
    BY <1>4 DEF Exit
  <2>2. "owns" \in Places /\ "owns" \in InsidePlaces
    BY DEF Places, Acquired, InsidePlaces
  <2>3. Flow(t, "owns", th[t].frame, th[t].then, th[t].after, th[t].heir, th[t].saved)
    BY <2>1, <2>2, ThreadFacts, GotoFlow
  <2>4. ~InCall("owns", th[t].frame, th[t].then)
    BY <1>1 DEF InCall, Waiting
  <2>5. /\ SavedDepth' = SavedDepth /\ Waiters' = Waiters /\ WokenUp' = WokenUp /\ Inside' = {t}
    BY <1>0, <1>2, <1>3, <2>2, <2>3, <2>4, NotInCall
  <2>6. Depth' = Depth - 1 /\ Depth # 1
    <3>1. Depth' = recursions' + 1
      BY <2>5 DEF Depth
    <3> QED
      BY <1>1, <1>2, <1>4, <2>1, <3>1
  <2> QED
    BY <1>2, <2>5, <2>6, JavaExit
<1>5. CASE recursions = 0
  <2>1. PICK l \in {"fastexit", "exit"} : th' = [th EXCEPT ![t].pc = l, ![t].then = "idle"]
    BY <1>5 DEF Exit
  <2> DEFINE r == [th[t] EXCEPT !.pc = l, !.then = "idle"]
  <2>2. l \in Places /\ l \notin InsidePlaces /\ ~InCall(l, th[t].frame, "idle")
    BY <1>1 DEF Places, Exiting, InsidePlaces, InCall, Waiting
  <2>3. /\ r \in Locals /\ r.pc = l /\ r.frame = th[t].frame /\ r.then = "idle"
        /\ r.after = th[t].after /\ r.heir = th[t].heir /\ r.saved = th[t].saved
    BY <2>2, ThreadFacts, FieldTypes DEF Locals
  <2>4. th' = [th EXCEPT ![t] = r]
    BY <2>1
  <2> HIDE DEF r
  <2>5. Flow(t, l, th[t].frame, "idle", th[t].after, th[t].heir, th[t].saved)
    BY <2>3, <2>4, ThreadFacts, UpdateFlow
  <2>6. /\ SavedDepth' = SavedDepth /\ Waiters' = Waiters /\ WokenUp' = WokenUp /\ Inside' = {}
    BY <1>0, <1>2, <1>3, <2>2, <2>5, NotInCall
  <2>7. Depth = 1 /\ Depth' = Depth - 1
    <3>1. Depth' = 0
      BY <2>6 DEF Depth
    <3> QED
      BY <1>2, <1>5, <3>1
  <2> QED
    BY <1>2, <2>6, <2>7, JavaExit
<1> QED
  BY <1>1, <1>4, <1>5

LEMMA WaitAddSeen ==
  ASSUME IInv, NEW t \in Threads, WaitAdd(t)
  PROVE  Java!Next
<1>0. /\ th[t].pc = "wait" /\ node' = [node EXCEPT ![t] = [state |-> "WAIT", notified |-> FALSE]]
  BY DEF WaitAdd, At
<1>1. Flow(t, "exit", th[t].frame, "waiting", th[t].after, th[t].heir, recursions)
  <2> DEFINE r == [th[t] EXCEPT !.pc = "exit", !.then = "waiting", !.saved = recursions]
  <2>1. recursions \in Nat /\ th[t] \in Locals
    BY ThreadFacts, FieldTypes DEF TypeOK
  <2>2. "exit" \in Places
    BY DEF Places, Exiting
  <2>3. /\ r \in Locals /\ r.pc = "exit" /\ r.frame = th[t].frame /\ r.then = "waiting"
        /\ r.after = th[t].after /\ r.heir = th[t].heir /\ r.saved = recursions
    BY <2>1, <2>2 DEF Locals
  <2>4. th' = [th EXCEPT ![t] = r]
    BY DEF WaitAdd
  <2> HIDE DEF r
  <2> QED
    BY <2>3, <2>4, ThreadFacts, UpdateFlow
<1>2. /\ th[t].then = "idle" /\ th[t].frame = "enter"
  BY <1>0, ThreadFacts DEF Sound, Runtime, Entering, Reentering, Spinning, Queueing
<1>3. Inside = {t} /\ Depth = recursions + 1
  BY <1>0, InsideFacts DEF InsidePlaces
<1>4. /\ Inside' = {} /\ InWait' = InWait \cup {t}
      /\ SavedDepth' = [SavedDepth EXCEPT ![t] = Depth]
  <2>1. "exit" \notin InsidePlaces /\ InCall("exit", th[t].frame, "waiting")
    BY DEF InsidePlaces, InCall
  <2>2. /\ Inside' = Inside \ {t} /\ InWait' = InWait \cup {t}
        /\ SavedDepth' = [SavedDepth EXCEPT ![t] = recursions + 1]
    BY <1>1, <2>1, Views
  <2> QED
    BY <1>3, <2>2
<1>5. Depth' = 0
  BY <1>4 DEF Depth
<1>6. node'[t].state = "WAIT" /\ \A u \in Threads : u # t => node'[u] = node[u]
  BY <1>0, ThreadFacts DEF TypeOK
<1>7. Waiters' = Waiters \cup {t}
  BY <1>6 DEF Waiters
<1>8. WokenUp' = WokenUp
  <2>1. t \notin InWait
    BY <1>0, <1>2, InCallOf DEF InCall, Waiting
  <2>2. InWait \subseteq Threads
    BY DEF InWait
  <2> QED
    BY <1>4, <1>6, <2>1, <2>2 DEF WokenUp
<1> QED
  BY <1>3, <1>4, <1>5, <1>7, <1>8, JavaWait

\* A waiter leaves the wait set: the node of w is no longer there, and nobody enters or
\* leaves
LEMMA LeaveSeen ==
  ASSUME NEW w \in Threads, node[w].state = "WAIT", node'[w].state # "WAIT", w \in InWait,
         \A u \in Threads : u # w => node'[u] = node[u],
         Inside' = Inside, recursions' = recursions, InWait' = InWait, SavedDepth' = SavedDepth
  PROVE  Java!Next
<1>1. w \in Waiters /\ Waiters' = Waiters \ {w}
  BY DEF Waiters
<1>2. WokenUp' = WokenUp \cup {w}
  <2>1. InWait \subseteq Threads
    BY DEF InWait
  <2> QED
    BY <2>1 DEF WokenUp
<1>3. Depth' = Depth
  BY DEF Depth
<1> QED
  BY <1>1, <1>2, <1>3, JavaLeave

\* The views are left alone by a step that changes neither place nor call
LEMMA ViewsKept ==
  ASSUME NEW t \in Threads, NEW p, NEW f, NEW n, NEW a, NEW h, Flow(t, p, f, n, a, h, th[t].saved),
         p \in InsidePlaces <=> th[t].pc \in InsidePlaces,
         InCall(p, f, n) <=> InCall(th[t].pc, th[t].frame, th[t].then)
  PROVE  Inside' = Inside /\ InWait' = InWait /\ SavedDepth' = SavedDepth
<1> DEFINE s == th[t].saved
<1>1. /\ t \in Inside <=> th[t].pc \in InsidePlaces
      /\ t \in InWait <=> InCall(th[t].pc, th[t].frame, th[t].then)
      /\ SavedDepth[t] = IF InCall(th[t].pc, th[t].frame, th[t].then) THEN s + 1 ELSE 0
  BY InCallOf
<1>2. /\ Inside' = IF p \in InsidePlaces THEN Inside \cup {t} ELSE Inside \ {t}
      /\ InWait' = IF InCall(p, f, n) THEN InWait \cup {t} ELSE InWait \ {t}
      /\ SavedDepth' = [SavedDepth EXCEPT ![t] = IF InCall(p, f, n) THEN s + 1 ELSE 0]
  BY Views
<1> HIDE DEF s
<1>3. Inside' = Inside
  BY <1>1, <1>2
<1>4. InWait' = InWait
  BY <1>1, <1>2
<1>5. SavedDepth' = SavedDepth
  <2>1. SavedDepth' = [SavedDepth EXCEPT ![t] = SavedDepth[t]]
    BY <1>1, <1>2
  <2> QED
    BY <2>1 DEF SavedDepth
<1> QED
  BY <1>3, <1>4, <1>5

LEMMA DequeueSeen ==
  ASSUME IInv, NEW t \in Threads, Dequeue(t)
  PROVE  Java!Next \/ UNCHANGED Java!vars
<1>0. th[t].pc = "dequeue" /\ Goto(t, "reenter") /\ recursions' = recursions
  BY DEF Dequeue, At, lock
<1>1. /\ "reenter" \in Places /\ "reenter" \in Waiting /\ "dequeue" \in Waiting
      /\ "reenter" \notin InsidePlaces /\ "dequeue" \notin InsidePlaces
  BY DEF Places, Waiting, InsidePlaces
<1>2. CASE node[t].state # "WAIT"
  <2>1. UNCHANGED node
    BY <1>2 DEF Dequeue
  <2> QED
    BY <1>0, <1>1, <2>1, UnseenGoto
<1>3. CASE node[t].state = "WAIT"
  <2>1. node'[t].state = "RUN" /\ \A u \in Threads : u # t => node'[u] = node[u]
    BY <1>3, ThreadFacts, NodeUpdated DEF Dequeue
  <2>2. Flow(t, "reenter", th[t].frame, th[t].then, th[t].after, th[t].heir, th[t].saved)
    BY <1>0, <1>1, ThreadFacts, GotoFlow
  <2>3. /\ InCall("reenter", th[t].frame, th[t].then) /\ InCall(th[t].pc, th[t].frame, th[t].then)
    BY <1>0, <1>1 DEF InCall
  <2>4. t \in InWait /\ Inside' = Inside /\ InWait' = InWait /\ SavedDepth' = SavedDepth
    BY <1>0, <1>1, <2>2, <2>3, ViewsKept, InCallOf
  <2> QED
    BY <1>0, <1>3, <2>1, <2>4, LeaveSeen
<1> QED
  BY <1>2, <1>3

LEMMA NotifySeen ==
  ASSUME IInv, NEW t \in Threads, Notify(t)
  PROVE  Java!Next
<1> DEFINE w == Head(waitset)
           r == [th[t] EXCEPT !.pc = "notifylink", !.heir = w]
<1>0. /\ th[t].pc = "owns" /\ waitset # <<>> /\ recursions' = recursions
      /\ node' = [node EXCEPT ![w].state = "ENTER"] /\ th' = [th EXCEPT ![t] = r]
  BY DEF Notify, At, lock
<1>1. w \in Threads /\ On(waitset, w)
  BY <1>0, ListFacts, HeadOn
<1> HIDE DEF w
<1>2. /\ r \in Locals /\ r.pc = "notifylink" /\ r.frame = th[t].frame /\ r.then = th[t].then
      /\ r.after = th[t].after /\ r.heir = w /\ r.saved = th[t].saved
  <2>1. "notifylink" \in Places /\ th[t] \in Locals
    BY ThreadFacts, FieldTypes DEF Places, Acquired
  <2> QED
    BY <1>1, <2>1 DEF Locals
<1> HIDE DEF r
<1>3. Flow(t, "notifylink", th[t].frame, th[t].then, th[t].after, w, th[t].saved)
  BY <1>0, <1>2, ThreadFacts, UpdateFlow
<1>4. /\ "notifylink" \in InsidePlaces /\ th[t].pc \in InsidePlaces
      /\ InCall("notifylink", th[t].frame, th[t].then) <=> InCall(th[t].pc, th[t].frame, th[t].then)
  BY <1>0 DEF InsidePlaces, InCall, Waiting
<1>5. Inside' = Inside /\ InWait' = InWait /\ SavedDepth' = SavedDepth
  BY <1>3, <1>4, ViewsKept
<1>6. node'[w].state = "ENTER" /\ \A u \in Threads : u # w => node'[u] = node[u]
  BY <1>0, <1>1, ThreadFacts, NodeUpdated
<1>7. node[w].state = "WAIT" /\ w \in InWait
  <2>1. node[w].state = "WAIT" /\ NodeSound("WAIT", th[w].pc, th[w].then, th[w].after)
    BY <1>1, ListFacts
  <2>2. InCall(th[w].pc, th[w].frame, th[w].then)
    BY <2>1 DEF NodeSound, InCall, Waiting
  <2> QED
    BY <1>1, <2>1, <2>2, InCallOf
<1> QED
  BY <1>0, <1>1, <1>5, <1>6, <1>7, LeaveSeen

LEMMA NotifyAllSeen ==
  ASSUME IInv, NEW t \in Threads, NotifyAll(t)
  PROVE  Java!Next
<1>0. /\ th[t].pc = "owns" /\ UNCHANGED <<recursions, th>>
      /\ node' = [u \in Threads |-> IF u \in Range(waitset) THEN [state |-> "CXQ", notified |-> TRUE]
                                    ELSE node[u]]
  BY DEF NotifyAll, At, lock
<1>1. Inside' = Inside /\ InWait' = InWait /\ SavedDepth' = SavedDepth
  BY <1>0 DEF Inside, InWait, SavedDepth
<1>2. Inside = {t}
  BY <1>0, InsideFacts DEF InsidePlaces
<1>3. Depth' = Depth
  BY <1>0, <1>1 DEF Depth
<1>4. ASSUME NEW u \in Threads
      PROVE  /\ node'[u].state # "WAIT"
             /\ node[u].state # "WAIT" => node'[u] = node[u]
             /\ node[u].state = "WAIT" => u \in InWait
  <2>1. On(waitset, u) <=> node[u].state = "WAIT"
    BY ListFacts
  <2>2. u \in Range(waitset) <=> On(waitset, u)
    BY ListFacts, RangeOn
  <2>3. node'[u] = IF node[u].state = "WAIT" THEN [state |-> "CXQ", notified |-> TRUE] ELSE node[u]
    BY <1>0, <2>1, <2>2
  <2>4. node[u].state = "WAIT" => InCall(th[u].pc, th[u].frame, th[u].then)
    BY ListFacts DEF NodeSound, InCall, Waiting
  <2>5. node'[u].state # "WAIT"
    <3>1. CASE node[u].state = "WAIT"
      <4>1. node'[u] = [state |-> "CXQ", notified |-> TRUE]
        BY <2>3, <3>1
      <4> QED
        BY <4>1
    <3>2. CASE node[u].state # "WAIT"
      BY <2>3, <3>2
    <3> QED
      BY <3>1, <3>2
  <2> QED
    BY <2>3, <2>4, <2>5, InCallOf
<1>5. Waiters' = {}
  BY <1>4 DEF Waiters
<1>6. WokenUp' = WokenUp \cup Waiters
  <2>1. InWait \subseteq Threads
    BY DEF InWait
  <2>2. WokenUp' = InWait
    BY <1>1, <1>4, <2>1 DEF WokenUp
  <2>3. WokenUp \cup Waiters = InWait
    BY <1>4, <2>1 DEF WokenUp, Waiters
  <2> QED
    BY <2>2, <2>3
<1> QED
  BY <1>1, <1>2, <1>3, <1>5, <1>6, JavaNotifyAll

LEMMA WaitReturnsSeen ==
  ASSUME IInv, NEW t \in Threads, WaitReturns(t)
  PROVE  Java!Next
<1> DEFINE p == IF ~th[t].was /\ t \in interrupted THEN "iex" ELSE "owns"
           r == [th[t] EXCEPT !.pc = p, !.frame = "enter", !.after = "push",
                              !.saved = 0, !.was = FALSE, !.timed = FALSE]
<1>0. /\ th[t].pc = "waited" /\ recursions' = th[t].saved /\ UNCHANGED node
  BY DEF WaitReturns, At, lists
<1>1. th' = [th EXCEPT ![t] = r]
  BY DEF WaitReturns
<1>2. p \in {"iex", "owns"}
  OBVIOUS
<1> HIDE DEF p
<1>3. /\ r \in Locals /\ r.pc = p /\ r.frame = "enter" /\ r.then = th[t].then
      /\ r.after = "push" /\ r.heir = th[t].heir /\ r.saved = 0
  <2>1. p \in Places
    BY <1>2 DEF Places, Acquired
  <2> QED
    BY <2>1, ThreadFacts, FieldTypes DEF Locals
<1> HIDE DEF r
<1>4. Flow(t, p, "enter", th[t].then, "push", th[t].heir, 0)
  BY <1>1, <1>3, ThreadFacts, UpdateFlow
<1>5. th[t].then = "idle" /\ th[t].frame # "enter" /\ node[t].state # "WAIT" /\ th[t].saved \in Nat
  BY <1>0, ThreadFacts DEF Sound, NodeSound, Runtime
<1>6. Inside = {}
  BY <1>0, InsideFacts DEF Holding, Acquired, InsidePlaces
<1>7. InCall(th[t].pc, th[t].frame, th[t].then) /\ ~InCall(p, "enter", th[t].then) /\ p \in InsidePlaces
  BY <1>2, <1>5 DEF InCall, Waiting, InsidePlaces
<1>8. /\ Inside' = {t} /\ InWait' = InWait \ {t} /\ SavedDepth' = [SavedDepth EXCEPT ![t] = 0]
  BY <1>4, <1>6, <1>7, Views
<1>9. t \in WokenUp /\ SavedDepth[t] = th[t].saved + 1
  BY <1>5, <1>7, InCallOf
<1>10. Depth' = SavedDepth[t]
  BY <1>0, <1>8, <1>9 DEF Depth
<1>11. Waiters' = Waiters /\ WokenUp' = WokenUp \ {t}
  BY <1>0, <1>8 DEF Waiters, WokenUp
<1> QED
  BY <1>6, <1>8, <1>9, <1>10, <1>11, JavaWaitReturns

\* The CAS on _owner, the lists, the spins and the exits that take the lock back give
\* Java code the monitor of the language: one thread inside, nested as deep as it
\* entered, and wait returns with the depth it had, after the wait set was left
THEOREM JavaMonitorImplemented == Spec => ImplementsJavaMonitor
<1>1. Init => Java!Init
  <2> SUFFICES ASSUME Init PROVE Java!Init
    OBVIOUS
  <2>1. IInv
    BY InitInvariant
  <2>2. PICK p \in Programs :
          th = [t \in Threads |-> [quiet EXCEPT !.enters = p.enters[t], !.waits = p.waits[t]]]
    BY DEF Init
  <2>3. ASSUME NEW t \in Threads
        PROVE  th[t].pc = "idle" /\ th[t].frame = "enter" /\ th[t].then = "idle" /\ node[t].state = "RUN"
    <3>1. th[t] = [quiet EXCEPT !.enters = p.enters[t], !.waits = p.waits[t]]
      BY <2>2
    <3>2. node[t].state = "RUN"
      BY DEF Init
    <3> QED
      BY <3>1, <3>2 DEF quiet
  <2>4. Inside = {} /\ InWait = {}
    BY <2>3 DEF Inside, InWait, Waiting
  <2>5. {t \in Threads : node[t].state = "WAIT"} = {}
    BY <2>3
  <2> QED
    BY <2>4, <2>5 DEF Java!Init
<1>2. ASSUME IInv, [Next]_vars
      PROVE  [Java!Next]_Java!vars
  <2>1. CASE UNCHANGED vars
    BY <2>1 DEF vars, Java!vars, Inside, InWait
  <2>2. ASSUME NEW t \in Threads, Step(t) \/ Interrupt(t)
        PROVE  Java!Next \/ UNCHANGED Java!vars
    <3>1. CASE Enter(t) \/ Exit(t) \/ Notify(t) \/ NotifyLink(t) \/ NotifyAll(t) \/ Interrupt(t)
      BY <1>2, <3>1, EnterSeen, ExitSeen, NotifySeen, NotifyLinkUnseen, NotifyAllSeen, InterruptUnseen
    <3>2. CASE Spin(t)
      BY <1>2, <3>2, SpinUnseen
    <3>3. CASE EnterI(t)
      BY <1>2, <3>3, QueueUnseen, TryLockUnseen, SuspendUnseen, EnterReturnsSeen DEF EnterI
    <3>4. CASE FastUnlock(t) \/ SlowExit(t)
      BY <1>2, <3>4, ExitUnseen
    <3>5. CASE Wait(t)
      BY <1>2, <3>5, WaitUnseen, WaitAddSeen, DequeueSeen, WaitReturnsSeen DEF Wait
    <3> QED
      BY <2>2, <3>1, <3>2, <3>3, <3>4, <3>5 DEF Step
  <2> QED
    BY <1>2, <2>1, <2>2 DEF Next
<1> QED
  BY <1>1, <1>2, Invariance, PTL DEF Spec, ImplementsJavaMonitor, Java!Spec
=============================================================================
