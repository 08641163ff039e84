------------------------ MODULE InstalledCodeProofs ------------------------
(***************************************************************************)
(* For every size of the code cache and every number of wrappers and       *)
(* threads: an InstalledCode object whose address is set stands for code   *)
(* that is alive, and code that was invalidated cannot be entered.  For    *)
(* the speculation log that compilations share with such objects: a failed *)
(* speculation is recorded in the log the code was compiled with.          *)
(***************************************************************************)
EXTENDS InstalledCode, SpeculationLog, TLAPS

-----------------------------------------------------------------------------
(* The inductive invariant                                                 *)

\* Code that is being installed is alive, knows its wrapper, and the sweeper is
\* not after it
NewCodeKept(t) ==
    /\ th[t].new # NULL => /\ Alive(th[t].new) /\ wrapper[th[t].new] = th[t].w
                           /\ aim # th[t].new
    /\ th[t].pc = "publish" => th[t].new # NULL
    /\ th[t].pc # "idle" => th[t].w \in Wrappers

\* What an invalidation has read from address has not been flushed.  Before the
\* code is locked it can become a zombie, but only the next safepoint could make
\* it old enough to be flushed
OldCodeKept(t) ==
    LET n == th[t].old IN
    /\ th[t].pc = "lock" => Alive(n) \/ (state[n] = "zombie" /\ age[n] = 0)
    /\ th[t].pc \in {"check", "deopt"} => state[n] # "free"
    /\ th[t].pc = "deopt" => n \in marked
    /\ th[t].pc = "unlink" => state[n] \notin {"free", "in_use"}

\* The sweeper's decision is still right when it gets the lock
AimDecided == aim # NULL => state[aim] \in {"not_entrant", "unloaded"}

IInv ==
    /\ TypeOK /\ LinkedCodeAlive /\ AimDecided
    /\ \A t \in Threads : NewCodeKept(t) /\ OldCodeKept(t)

-----------------------------------------------------------------------------
(* Changes of state and of a thread's locals                               *)

States == {"free", "in_use", "not_entrant", "zombie", "unloaded"}

\* The null pointer is not code
LEMMA NullNotSlot == NULL \notin Slots
BY InstalledAssumption DEF NULL, Slots

\* What code and threads hold
LEMMA Types ==
  ASSUME TypeOK
  PROVE  /\ state \in [Slots -> States] /\ age \in [Slots -> 0..2]
         /\ wrapper \in [Slots -> Wrappers \cup {NULL}] /\ aim \in Slots \cup {NULL}
         /\ address \in [Wrappers -> Slots \cup {NULL}]
         /\ \A u \in Threads : /\ th[u].new \in Slots \cup {NULL}
                               /\ th[u].pc \in {"lock", "check", "deopt", "unlink"} => th[u].old \in Slots
BY DEF TypeOK, States, Locals

\* What becomes of the states and the links when code S changes to state s
Changed(S, s) ==
    /\ state' \in [Slots -> States] /\ address' \in [Wrappers -> Slots \cup {NULL}]
    /\ entry' \in [Wrappers -> Slots \cup {NULL}]
    /\ \A n \in S : state'[n] = s
    /\ \A n \in Slots \ S : state'[n] = state[n]
    /\ \A w \in Wrappers :
          address'[w] = IF address[w] \in S /\ s # "not_entrant" THEN NULL ELSE address[w]

\* A wrapper loses its link exactly when its code is no longer alive
LEMMA BecomeEffect ==
  ASSUME TypeOK, LinkedCodeAlive, NEW S \in SUBSET Slots, NEW s \in States, Become(S, s)
  PROVE  Changed(S, s)
<1>1. \A w \in Wrappers : Linked(w, S) <=> address[w] \in S
  <2>1. \A w \in Wrappers : address[w] \in Slots \cup {NULL}
    BY DEF TypeOK
  <2> QED
    BY <2>1, NullNotSlot DEF LinkedCodeAlive, Linked
<1>2. /\ state' = [n \in Slots |-> IF n \in S THEN s ELSE state[n]]
      /\ address' = [w \in Wrappers |-> IF address[w] \in S /\ s # "not_entrant" THEN NULL
                                        ELSE address[w]]
      /\ entry' = [w \in Wrappers |-> IF address[w] \in S THEN NULL ELSE entry[w]]
  BY <1>1 DEF Become, AddressAfter, EntryAfter
<1>3. /\ state \in [Slots -> States] /\ address \in [Wrappers -> Slots \cup {NULL}]
      /\ entry \in [Wrappers -> Slots \cup {NULL}]
  BY DEF TypeOK, States
<1> QED
  BY <1>2, <1>3 DEF Changed

\* A step of thread t that changes neither states nor wrappers
LEMMA LocalStep ==
  ASSUME IInv, NEW t \in Threads, NEW l \in Locals, th' = [th EXCEPT ![t] = l],
         UNCHANGED <<state, age, wrapper, aim>>, marked \subseteq marked', marked' \subseteq Slots,
         act' \subseteq Slots, address' \in [Wrappers -> Slots \cup {NULL}],
         entry' \in [Wrappers -> Slots \cup {NULL}],
         vm' \in {"running", "guarantee failed", "called flushed code"},
         l.pc \notin {"idle", "read", "publish"} => l.old \in Slots,
         LinkedCodeAlive', NewCodeKept(t)', OldCodeKept(t)'
  PROVE  IInv'
<1> TypeOK /\ AimDecided
  BY DEF IInv
<1>0. \A u \in Threads : NewCodeKept(u) /\ OldCodeKept(u)
  BY DEF IInv
<1>1. th' \in [Threads -> Locals] /\ th'[t] = l /\ \A u \in Threads : u # t => th'[u] = th[u]
  BY DEF TypeOK
<1>2. \A u \in Threads : th'[u].pc \notin {"idle", "read", "publish"} => th'[u].old \in Slots
  BY <1>1 DEF TypeOK
<1>3. TypeOK'
  BY <1>1, <1>2 DEF TypeOK
<1>4. AimDecided'
  BY DEF AimDecided
<1>5. \A u \in Threads : u # t => NewCodeKept(u)' /\ OldCodeKept(u)'
  BY <1>0, <1>1 DEF NewCodeKept, OldCodeKept, Alive
<1> QED
  BY <1>3, <1>4, <1>5 DEF IInv

\* A change of the code leaves a thread what it relies on
LEMMA ThreadKept ==
  ASSUME TypeOK, NEW u \in Threads, NewCodeKept(u), OldCodeKept(u),
         th'[u] = th[u], marked \subseteq marked',
         th[u].new # NULL => /\ state'[th[u].new] \in {"in_use", "not_entrant"}
                             /\ aim' # th[u].new /\ wrapper'[th[u].new] = wrapper[th[u].new],
         \A n \in Slots : /\ state'[n] = "free" => state[n] = "free"
                          /\ state'[n] = "in_use" => state[n] = "in_use",
         th[u].pc = "lock" => \A n \in Slots :
             Alive(n) \/ (state[n] = "zombie" /\ age[n] = 0) =>
             Alive(n)' \/ (state'[n] = "zombie" /\ age'[n] = 0)
  PROVE  NewCodeKept(u)' /\ OldCodeKept(u)'
<1>1. th[u].pc \in {"lock", "check", "deopt", "unlink"} => th[u].old \in Slots
  BY DEF TypeOK
<1>2. NewCodeKept(u)'
  BY DEF NewCodeKept, Alive
<1>3. /\ th[u].pc \in {"check", "deopt"} => state[th[u].old] # "free"
      /\ th[u].pc = "unlink" => state[th[u].old] \notin {"free", "in_use"}
      /\ th[u].pc = "deopt" => th[u].old \in marked
      /\ th[u].pc = "lock" => Alive(th[u].old) \/ (state[th[u].old] = "zombie" /\ age[th[u].old] = 0)
  BY DEF OldCodeKept
<1>4. /\ th[u].pc \in {"check", "deopt"} => state'[th[u].old] # "free"
      /\ th[u].pc = "unlink" => state'[th[u].old] \notin {"free", "in_use"}
  BY <1>1, <1>3
<1>5. th[u].pc = "lock" => \/ state'[th[u].old] \in {"in_use", "not_entrant"}
                           \/ state'[th[u].old] = "zombie" /\ age'[th[u].old] = 0
  BY <1>1, <1>3 DEF Alive
<1>6. OldCodeKept(u)'
  BY <1>3, <1>4, <1>5 DEF OldCodeKept, Alive
<1> QED
  BY <1>2, <1>6

-----------------------------------------------------------------------------
(* Code                                                                    *)

\* Code that is made not entrant stays alive
LEMMA MakeNotEntrantInvariant ==
  ASSUME IInv, NEW n \in Slots, MakeNotEntrant(n)
  PROVE  IInv'
<1> TypeOK /\ LinkedCodeAlive /\ AimDecided
  BY DEF IInv
<1>0. \A u \in Threads : NewCodeKept(u) /\ OldCodeKept(u)
  BY DEF IInv
<1>e. /\ state[n] = "in_use" /\ age' = [age EXCEPT ![n] = 0]
      /\ UNCHANGED <<wrapper, marked, act, aim, th, vm>>
  BY DEF MakeNotEntrant
<1>1. Changed({n}, "not_entrant")
  <2>1. {n} \in SUBSET Slots /\ "not_entrant" \in States /\ Become({n}, "not_entrant")
    BY <1>e DEF MakeNotEntrant, States, TypeOK
  <2> QED
    BY <2>1, BecomeEffect, Zenon
<1>s. age' \in [Slots -> 0..2]
  BY <1>e, Types, <1>1
<1>2. TypeOK'
  BY <1>e, <1>s, <1>1 DEF TypeOK, States, Changed
<1>3. LinkedCodeAlive'
  BY <1>0, <1>e, <1>s, Types, <1>1, NullNotSlot DEF LinkedCodeAlive, Alive, Changed
<1>4. AimDecided'
  BY <1>0, <1>e, <1>s, Types, <1>1, NullNotSlot DEF AimDecided, Alive, Changed
<1>5. ASSUME NEW u \in Threads PROVE NewCodeKept(u)' /\ OldCodeKept(u)'
  <2>0. th[u].new # NULL => /\ th[u].new \in Slots /\ aim # th[u].new
                            /\ state[th[u].new] \in {"in_use", "not_entrant"}
                            /\ wrapper[th[u].new] = th[u].w
    BY <1>0, Types DEF NewCodeKept, Alive
  <2>1. th[u].new # NULL => /\ state'[th[u].new] \in {"in_use", "not_entrant"}
                            /\ aim' # th[u].new /\ wrapper'[th[u].new] = wrapper[th[u].new]
    BY <1>e, <1>1, <2>0, NullNotSlot DEF Changed
  <2>2. \A m \in Slots : /\ state'[m] = "free" => state[m] = "free"
                         /\ state'[m] = "in_use" => state[m] = "in_use"
    BY <1>e, <1>s, Types, <1>1 DEF Changed
  <2>3. th[u].pc = "lock" => \A m \in Slots :
             Alive(m) \/ (state[m] = "zombie" /\ age[m] = 0) =>
             Alive(m)' \/ (state'[m] = "zombie" /\ age'[m] = 0)
    BY <1>e, <1>s, Types, <1>1 DEF Alive, Changed
  <2>4. th'[u] = th[u] /\ marked \subseteq marked' /\ NewCodeKept(u) /\ OldCodeKept(u)
    BY <1>0, <1>e
  <2> QED
    BY <2>1, <2>2, <2>3, <2>4, ThreadKept
<1> QED
  BY <1>2, <1>3, <1>4, <1>5 DEF IInv

\* The sweeper is not after code that a task has locked
LEMMA SweeperAimInvariant ==
  ASSUME IInv, NEW n \in Slots, SweeperAim(n), CompilerThreads = Threads
  PROVE  IInv'
<1> TypeOK /\ LinkedCodeAlive /\ AimDecided
  BY DEF IInv
<1>0. \A u \in Threads : NewCodeKept(u) /\ OldCodeKept(u)
  BY DEF IInv
<1>e. /\ aim' = n /\ state[n] \in {"not_entrant", "unloaded"}
      /\ \A u \in Threads : th[u].new # n
      /\ UNCHANGED <<state, age, wrapper, marked, act, address, entry, th, vm>>
  BY DEF SweeperAim, Locked
<1>s. aim' \in Slots \cup {NULL}
  BY <1>e, Types
<1>2. TypeOK'
  BY <1>e, <1>s DEF TypeOK, States
<1>3. LinkedCodeAlive'
  BY <1>0, <1>e, <1>s, Types, NullNotSlot DEF LinkedCodeAlive, Alive
<1>4. AimDecided'
  BY <1>0, <1>e, <1>s, Types, NullNotSlot DEF AimDecided, Alive
<1>5. ASSUME NEW u \in Threads PROVE NewCodeKept(u)'
  BY <1>0, <1>e, <1>s, Types, NullNotSlot DEF AimDecided, Alive, NewCodeKept
<1>6. ASSUME NEW u \in Threads PROVE OldCodeKept(u)'
  BY <1>0, <1>e, <1>s, Types DEF Alive, OldCodeKept
<1> QED
  BY <1>2, <1>3, <1>4, <1>5, <1>6 DEF IInv

\* The link to code that dies is broken
LEMMA MakeZombieInvariant ==
  ASSUME IInv, MakeZombie
  PROVE  IInv'
<1> TypeOK /\ LinkedCodeAlive /\ AimDecided
  BY DEF IInv
<1>0. \A u \in Threads : NewCodeKept(u) /\ OldCodeKept(u)
  BY DEF IInv
<1>e. /\ aim \in Slots /\ age' = [age EXCEPT ![aim] = 0] /\ wrapper' = [wrapper EXCEPT ![aim] = NULL]
      /\ aim' = NULL /\ UNCHANGED <<marked, act, th, vm>>
  BY DEF MakeZombie, TypeOK
<1>1. Changed({aim}, "zombie")
  <2>1. {aim} \in SUBSET Slots /\ "zombie" \in States /\ Become({aim}, "zombie")
    BY <1>e DEF MakeZombie, States, TypeOK
  <2> QED
    BY <2>1, BecomeEffect, Zenon
<1>s. age' \in [Slots -> 0..2] /\ wrapper' \in [Slots -> Wrappers \cup {NULL}]
  BY <1>e, Types, <1>1
<1>2. TypeOK'
  BY <1>e, <1>s, <1>1 DEF TypeOK, States, Changed
<1>3. LinkedCodeAlive'
  BY <1>0, <1>e, <1>s, Types, <1>1, NullNotSlot DEF LinkedCodeAlive, Alive, Changed
<1>4. AimDecided'
  BY <1>0, <1>e, <1>s, Types, <1>1, NullNotSlot DEF AimDecided, Alive, Changed
<1>5. ASSUME NEW u \in Threads PROVE NewCodeKept(u)' /\ OldCodeKept(u)'
  <2>0. th[u].new # NULL => /\ th[u].new \in Slots /\ aim # th[u].new
                            /\ state[th[u].new] \in {"in_use", "not_entrant"}
                            /\ wrapper[th[u].new] = th[u].w
    BY <1>0, Types DEF NewCodeKept, Alive
  <2>1. th[u].new # NULL => /\ state'[th[u].new] \in {"in_use", "not_entrant"}
                            /\ aim' # th[u].new /\ wrapper'[th[u].new] = wrapper[th[u].new]
    BY <1>e, <1>1, <2>0, NullNotSlot DEF Changed
  <2>2. \A m \in Slots : /\ state'[m] = "free" => state[m] = "free"
                         /\ state'[m] = "in_use" => state[m] = "in_use"
    BY <1>e, <1>s, Types, <1>1 DEF Changed
  <2>3. th[u].pc = "lock" => \A m \in Slots :
             Alive(m) \/ (state[m] = "zombie" /\ age[m] = 0) =>
             Alive(m)' \/ (state'[m] = "zombie" /\ age'[m] = 0)
    BY <1>e, <1>s, Types, <1>1 DEF Alive, Changed
  <2>4. th'[u] = th[u] /\ marked \subseteq marked' /\ NewCodeKept(u) /\ OldCodeKept(u)
    BY <1>0, <1>e
  <2> QED
    BY <2>1, <2>2, <2>3, <2>4, ThreadKept
<1> QED
  BY <1>2, <1>3, <1>4, <1>5 DEF IInv

\* Nobody has a link to code that is flushed, and nobody has locked it
LEMMA FlushInvariant ==
  ASSUME IInv, NEW n \in Slots, Flush(n)
  PROVE  IInv'
<1> TypeOK /\ LinkedCodeAlive /\ AimDecided
  BY DEF IInv
<1>0. \A u \in Threads : NewCodeKept(u) /\ OldCodeKept(u)
  BY DEF IInv
<1>e. /\ state[n] = "zombie" /\ age[n] = 2
      /\ state' = [state EXCEPT ![n] = "free"] /\ age' = [age EXCEPT ![n] = 0]
      /\ marked' = marked \ {n} /\ UNCHANGED <<wrapper, act, aim, address, entry, th, vm>>
      /\ \A u \in Threads : th[u].pc \in {"check", "deopt", "unlink"} => th[u].old # n
  BY DEF Flush, Locked
<1>s. age' \in [Slots -> 0..2] /\ state' \in [Slots -> States]
  BY <1>e, Types DEF States
<1>2. TypeOK'
  BY <1>e, <1>s DEF TypeOK, States
<1>3. LinkedCodeAlive'
  BY <1>0, <1>e, <1>s, Types, NullNotSlot DEF LinkedCodeAlive, Alive
<1>4. AimDecided'
  BY <1>0, <1>e, <1>s, Types, NullNotSlot DEF AimDecided, Alive
<1>5. ASSUME NEW u \in Threads PROVE NewCodeKept(u)'
  BY <1>0, <1>e, <1>s, Types, NullNotSlot DEF AimDecided, Alive, NewCodeKept
<1>6. ASSUME NEW u \in Threads PROVE OldCodeKept(u)'
  <2>1. th[u].pc \in {"lock", "check", "deopt", "unlink"} => th[u].old # n
    BY <1>0, <1>e DEF OldCodeKept, Alive
  <2> QED
    BY <1>0, <1>e, <1>s, Types, <2>1 DEF OldCodeKept, Alive
<1> QED
  BY <1>2, <1>3, <1>4, <1>5, <1>6 DEF IInv

\* No thread is between reading address and locking the code
LEMMA SafepointInvariant ==
  ASSUME IInv, Safepoint
  PROVE  IInv'
<1> TypeOK /\ LinkedCodeAlive /\ AimDecided
  BY DEF IInv
<1>0. \A u \in Threads : NewCodeKept(u) /\ OldCodeKept(u)
  BY DEF IInv
<1>e. /\ age' = Aged /\ UNCHANGED <<state, wrapper, marked, act, aim, address, entry, th, vm>>
      /\ \A u \in Threads : th[u].pc # "lock"
  BY DEF Safepoint, AtSafepoint, SafePcs
<1>s. age' \in [Slots -> 0..2]
  BY <1>e, Types DEF Aged
<1>2. TypeOK'
  BY <1>e, <1>s DEF TypeOK, States
<1>3. LinkedCodeAlive'
  BY <1>0, <1>e, <1>s, Types, NullNotSlot DEF LinkedCodeAlive, Alive
<1>4. AimDecided'
  BY <1>0, <1>e, <1>s, Types, NullNotSlot DEF AimDecided, Alive
<1>5. ASSUME NEW u \in Threads PROVE NewCodeKept(u)'
  BY <1>0, <1>e, <1>s, Types, NullNotSlot DEF AimDecided, Alive, NewCodeKept
<1>6. ASSUME NEW u \in Threads PROVE OldCodeKept(u)'
  BY <1>0, <1>e, <1>s, Types DEF Alive, OldCodeKept
<1> QED
  BY <1>2, <1>3, <1>4, <1>5, <1>6 DEF IInv

\* All the marked code becomes not entrant
LEMMA VMDeoptimizeInvariant ==
  ASSUME IInv, NEW t \in Threads, VMDeoptimize(t)
  PROVE  IInv'
<1> DEFINE Marked == {n \in marked : state[n] = "in_use"}
<1> TypeOK /\ LinkedCodeAlive /\ AimDecided
  BY DEF IInv
<1>0. \A u \in Threads : NewCodeKept(u) /\ OldCodeKept(u)
  BY DEF IInv
<1>e. /\ th[t].pc = "deopt" /\ th' = [th EXCEPT ![t].pc = "unlink"]
      /\ age' = [n \in Slots |-> IF n \in Marked THEN 0 ELSE age[n]]
      /\ UNCHANGED <<wrapper, marked, act, aim, vm>>
      /\ \A u \in Threads : th[u].pc # "lock"
  BY DEF VMDeoptimize, AtSafepoint, SafePcs
<1>1. Changed(Marked, "not_entrant")
  <2>1. Marked \in SUBSET Slots /\ "not_entrant" \in States /\ Become(Marked, "not_entrant")
    BY <1>e DEF VMDeoptimize, States, TypeOK
  <2> QED
    BY <2>1, BecomeEffect, Zenon
<1>b. th'[t].pc = "unlink" /\ th'[t].old = th[t].old /\ th'[t].new = th[t].new
      /\ th'[t].w = th[t].w /\ (\A u \in Threads : u # t => th'[u] = th[u])
      /\ th' \in [Threads -> Locals]
  <2>1. th \in [Threads -> Locals] /\ th[t] \in Locals
    BY DEF TypeOK
  <2>2. th'[t] = [th[t] EXCEPT !.pc = "unlink"] /\ \A u \in Threads : u # t => th'[u] = th[u]
    BY <1>e, <2>1
  <2> QED
    BY <1>e, <2>1, <2>2 DEF Locals
<1>s. age' \in [Slots -> 0..2]
  BY <1>e, Types, <1>1
<1>2. TypeOK'
  BY <1>b, <1>e, <1>s, Types, <1>1 DEF TypeOK, States, Changed
<1>3. LinkedCodeAlive'
  BY <1>0, <1>e, <1>b, <1>s, Types, <1>1, NullNotSlot DEF LinkedCodeAlive, Alive, Changed
<1>4. AimDecided'
  BY <1>0, <1>e, <1>b, <1>s, Types, <1>1, NullNotSlot DEF AimDecided, Alive, Changed
<1>k. ASSUME NEW u \in Threads, u # t PROVE NewCodeKept(u)' /\ OldCodeKept(u)'
  <2>0. th[u].new # NULL => /\ th[u].new \in Slots /\ aim # th[u].new
                            /\ state[th[u].new] \in {"in_use", "not_entrant"}
                            /\ wrapper[th[u].new] = th[u].w
    BY <1>0, Types DEF NewCodeKept, Alive
  <2>1. th[u].new # NULL => /\ state'[th[u].new] \in {"in_use", "not_entrant"}
                            /\ aim' # th[u].new /\ wrapper'[th[u].new] = wrapper[th[u].new]
    BY <1>e, <1>1, <2>0, NullNotSlot DEF Changed
  <2>2. \A m \in Slots : /\ state'[m] = "free" => state[m] = "free"
                         /\ state'[m] = "in_use" => state[m] = "in_use"
    BY <1>e, <1>b, <1>s, Types, <1>1 DEF Changed
  <2>3. th[u].pc = "lock" => \A m \in Slots :
             Alive(m) \/ (state[m] = "zombie" /\ age[m] = 0) =>
             Alive(m)' \/ (state'[m] = "zombie" /\ age'[m] = 0)
    BY <1>e, <1>b, <1>s, Types, <1>1 DEF Alive, Changed
  <2>4. th'[u] = th[u] /\ marked \subseteq marked' /\ NewCodeKept(u) /\ OldCodeKept(u)
    BY <1>0, <1>e, <1>k, <1>b
  <2> QED
    BY <2>1, <2>2, <2>3, <2>4, ThreadKept
<1>6. NewCodeKept(t)'
  <2>1. /\ th[t].new # NULL => /\ th[t].new \in Slots /\ aim # th[t].new
                               /\ state[th[t].new] \in {"in_use", "not_entrant"}
                               /\ wrapper[th[t].new] = th[t].w
        /\ th[t].w \in Wrappers
    BY <1>0, <1>e, Types DEF NewCodeKept, Alive
  <2>2. th[t].new # NULL => state'[th[t].new] \in {"in_use", "not_entrant"}
    BY <1>1, <2>1 DEF Changed
  <2> QED
    BY <1>b, <1>e, <2>1, <2>2 DEF NewCodeKept, Alive
<1>7. OldCodeKept(t)'
  <2>1. th[t].old \in Slots /\ th[t].old \in marked /\ state[th[t].old] # "free"
    <3>1. OldCodeKept(t) /\ th[t].pc = "deopt"
      BY <1>0, <1>e
    <3> QED
      BY Types, <3>1 DEF OldCodeKept
  <2>2. state'[th[t].old] \notin {"free", "in_use"}
    BY <1>1, <2>1 DEF Changed
  <2> QED
    BY <1>b, <2>2 DEF OldCodeKept
<1>5. \A u \in Threads : NewCodeKept(u)' /\ OldCodeKept(u)'
  BY <1>k, <1>6, <1>7
<1> QED
  BY <1>2, <1>3, <1>4, <1>5 DEF IInv

\* Unloaded code loses its link
LEMMA GCUnloadInvariant ==
  ASSUME IInv, NEW n \in Slots, GCUnload(n)
  PROVE  IInv'
<1> TypeOK /\ LinkedCodeAlive /\ AimDecided
  BY DEF IInv
<1>0. \A u \in Threads : NewCodeKept(u) /\ OldCodeKept(u)
  BY DEF IInv
<1>e. /\ Alive(n) /\ (\A u \in Threads : th[u].new # n /\ th[u].pc \notin {"lock", "check", "unlink"})
      /\ age' = [age EXCEPT ![n] = 0] /\ wrapper' = [wrapper EXCEPT ![n] = NULL]
      /\ UNCHANGED <<marked, act, aim, th, vm>>
  BY DEF GCUnload, AtSafepoint, SafePcs
<1>1. Changed({n}, "unloaded")
  <2>1. {n} \in SUBSET Slots /\ "unloaded" \in States /\ Become({n}, "unloaded")
    BY <1>e DEF GCUnload, States, TypeOK
  <2> QED
    BY <2>1, BecomeEffect, Zenon
<1>s. age' \in [Slots -> 0..2] /\ wrapper' \in [Slots -> Wrappers \cup {NULL}]
  BY <1>e, Types, <1>1
<1>2. TypeOK'
  BY <1>e, <1>s, <1>1 DEF TypeOK, States, Changed
<1>3. LinkedCodeAlive'
  BY <1>0, <1>e, <1>s, Types, <1>1, NullNotSlot DEF LinkedCodeAlive, Alive, Changed
<1>4. AimDecided'
  BY <1>0, <1>e, <1>s, Types, <1>1, NullNotSlot DEF AimDecided, Alive, Changed
<1>5. ASSUME NEW u \in Threads PROVE NewCodeKept(u)' /\ OldCodeKept(u)'
  <2>0. th[u].new # NULL => /\ th[u].new \in Slots /\ aim # th[u].new
                            /\ state[th[u].new] \in {"in_use", "not_entrant"}
                            /\ wrapper[th[u].new] = th[u].w
    BY <1>0, Types DEF NewCodeKept, Alive
  <2>1. th[u].new # NULL => /\ state'[th[u].new] \in {"in_use", "not_entrant"}
                            /\ aim' # th[u].new /\ wrapper'[th[u].new] = wrapper[th[u].new]
    BY <1>e, <1>1, <2>0, NullNotSlot DEF Changed
  <2>2. \A m \in Slots : /\ state'[m] = "free" => state[m] = "free"
                         /\ state'[m] = "in_use" => state[m] = "in_use"
    BY <1>e, <1>s, Types, <1>1 DEF Changed
  <2>3. th[u].pc = "lock" => \A m \in Slots :
             Alive(m) \/ (state[m] = "zombie" /\ age[m] = 0) =>
             Alive(m)' \/ (state'[m] = "zombie" /\ age'[m] = 0)
    BY <1>e, <1>s, Types, <1>1 DEF Alive, Changed
  <2>4. th'[u] = th[u] /\ marked \subseteq marked' /\ NewCodeKept(u) /\ OldCodeKept(u)
    BY <1>0, <1>e
  <2> QED
    BY <2>1, <2>2, <2>3, <2>4, ThreadKept
<1> QED
  BY <1>2, <1>3, <1>4, <1>5 DEF IInv

\* A dead wrapper has no link
LEMMA GCWrapperInvariant ==
  ASSUME IInv, NEW w \in Wrappers, GCWrapper(w)
  PROVE  IInv'
<1> DEFINE Named == {n \in Slots : wrapper[n] = w /\ Alive(n)}
<1> TypeOK /\ LinkedCodeAlive /\ AimDecided
  BY DEF IInv
<1>0. \A u \in Threads : NewCodeKept(u) /\ OldCodeKept(u)
  BY DEF IInv
<1>e. /\ \A u \in Threads : th[u].w # w /\ th[u].pc \notin {"lock", "check", "unlink"}
      /\ state' = [n \in Slots |-> IF n \in Named /\ w \notin DefaultWrappers THEN "unloaded" ELSE state[n]]
      /\ age' = [n \in Slots |-> IF state'[n] = "unloaded" THEN 0 ELSE age[n]]
      /\ wrapper' = [n \in Slots |-> IF wrapper[n] = w THEN NULL ELSE wrapper[n]]
      /\ address' = [address EXCEPT ![w] = NULL] /\ entry' = [entry EXCEPT ![w] = NULL]
      /\ UNCHANGED <<marked, act, aim, th, vm>>
  BY DEF GCWrapper, AtSafepoint, SafePcs
<1>s. /\ state' \in [Slots -> States] /\ age' \in [Slots -> 0..2]
      /\ wrapper' \in [Slots -> Wrappers \cup {NULL}]
  BY <1>e, Types DEF States
<1>2. TypeOK'
  BY <1>e, <1>s DEF TypeOK, States
<1>3. LinkedCodeAlive'
  BY <1>0, <1>e, <1>s, Types, NullNotSlot DEF LinkedCodeAlive, Alive
<1>4. AimDecided'
  BY <1>0, <1>e, <1>s, Types, NullNotSlot DEF AimDecided, Alive
<1>5. ASSUME NEW u \in Threads PROVE NewCodeKept(u)' /\ OldCodeKept(u)'
  <2>0. th[u].new # NULL => /\ th[u].new \in Slots /\ aim # th[u].new
                            /\ state[th[u].new] \in {"in_use", "not_entrant"}
                            /\ wrapper[th[u].new] = th[u].w
    BY <1>0, Types DEF NewCodeKept, Alive
  <2>1. th[u].new # NULL => /\ state'[th[u].new] \in {"in_use", "not_entrant"}
                            /\ aim' # th[u].new /\ wrapper'[th[u].new] = wrapper[th[u].new]
    BY <1>e, <2>0, NullNotSlot
  <2>2. \A m \in Slots : /\ state'[m] = "free" => state[m] = "free"
                         /\ state'[m] = "in_use" => state[m] = "in_use"
    BY <1>e, <1>s, Types
  <2>3. th[u].pc = "lock" => \A m \in Slots :
             Alive(m) \/ (state[m] = "zombie" /\ age[m] = 0) =>
             Alive(m)' \/ (state'[m] = "zombie" /\ age'[m] = 0)
    BY <1>e, <1>s, Types DEF Alive
  <2>4. th'[u] = th[u] /\ marked \subseteq marked' /\ NewCodeKept(u) /\ OldCodeKept(u)
    BY <1>0, <1>e
  <2> QED
    BY <2>1, <2>2, <2>3, <2>4, ThreadKept
<1> QED
  BY <1>2, <1>3, <1>4, <1>5 DEF IInv

\* A free slot is nobody's code
LEMMA InstallRegisterInvariant ==
  ASSUME IInv, NEW t \in Threads, NEW w \in Wrappers, NEW n \in Slots, InstallRegister(t, w, n)
  PROVE  IInv'
<1> TypeOK /\ LinkedCodeAlive /\ AimDecided
  BY DEF IInv
<1>0. \A u \in Threads : NewCodeKept(u) /\ OldCodeKept(u)
  BY DEF IInv
<1>e. /\ th' = [th EXCEPT ![t] = [pc |-> "read", w |-> w, new |-> n, old |-> NULL]]
      /\ state[n] = "free" /\ state' = [state EXCEPT ![n] = "in_use"]
      /\ wrapper' = [wrapper EXCEPT ![n] = w] /\ UNCHANGED <<age, marked, act, aim, address, entry, vm>>
  BY DEF InstallRegister
<1>b. /\ th' \in [Threads -> Locals] /\ th'[t].pc = "read" /\ th'[t].new = n /\ th'[t].w = w
      /\ \A u \in Threads : u # t => th'[u] = th[u]
  <2>1. [pc |-> "read", w |-> w, new |-> n, old |-> NULL] \in Locals
    BY DEF Locals
  <2> QED
    BY <1>e, <2>1 DEF TypeOK
<1>s. wrapper' \in [Slots -> Wrappers \cup {NULL}] /\ state' \in [Slots -> States]
  BY <1>e, Types DEF States
<1>2. TypeOK'
  BY <1>b, <1>e, <1>s, Types DEF TypeOK, States
<1>3. LinkedCodeAlive'
  BY <1>0, <1>e, <1>b, <1>s, Types, NullNotSlot DEF LinkedCodeAlive, Alive
<1>4. AimDecided'
  BY <1>0, <1>e, <1>b, <1>s, Types, NullNotSlot DEF AimDecided, Alive
<1>5. ASSUME NEW u \in Threads PROVE NewCodeKept(u)'
  BY <1>0, <1>e, <1>b, <1>s, Types, NullNotSlot DEF AimDecided, Alive, NewCodeKept
<1>6. ASSUME NEW u \in Threads PROVE OldCodeKept(u)'
  BY <1>0, <1>e, <1>b, <1>s, Types DEF Alive, OldCodeKept
<1> QED
  BY <1>2, <1>3, <1>4, <1>5, <1>6 DEF IInv

-----------------------------------------------------------------------------
(* Threads                                                                 *)

\* What is published is alive
LEMMA InstallPublishInvariant ==
  ASSUME IInv, NEW t \in Threads, InstallPublish(t)
  PROVE  IInv'
<1> TypeOK /\ LinkedCodeAlive /\ NewCodeKept(t) /\ OldCodeKept(t)
  BY DEF IInv
<1>0. th[t] \in Locals /\ \A w \in Wrappers : address[w] \in Slots \cup {NULL}
  BY DEF TypeOK
<1> DEFINE l == idle
<1>1. th' = [th EXCEPT ![t] = l] /\ UNCHANGED <<state, age, wrapper, marked, act, aim, vm>>
      /\ address' = [address EXCEPT ![th[t].w] = th[t].new]
      /\ entry' = [entry EXCEPT ![th[t].w] = th[t].new] /\ th[t].pc = "publish"
  BY <1>0 DEF InstallPublish, idle
<1>2. l \in Locals /\ l.pc = "idle" /\ l.new = NULL
  BY <1>0 DEF Locals, TypeOK, InstallPublish, idle
<1>3. th'[t] = l
  BY <1>1 DEF TypeOK
<1> HIDE DEF l
<1>4. NewCodeKept(t)'
  BY <1>1, <1>2, <1>3 DEF NewCodeKept, Alive
<1>5. OldCodeKept(t)'
  BY <1>0, <1>1, <1>2, <1>3 DEF OldCodeKept, NewCodeKept, Alive
<1>6. LinkedCodeAlive'
  BY <1>0, <1>1, <1>2, <1>3 DEF TypeOK, LinkedCodeAlive, Alive, NewCodeKept
<1>7. /\ address' \in [Wrappers -> Slots \cup {NULL}]
      /\ entry' \in [Wrappers -> Slots \cup {NULL}]
  BY <1>0, <1>1 DEF TypeOK, Locals
<1> QED
  BY <1>0, <1>1, <1>2, <1>4, <1>5, <1>6, <1>7, LocalStep DEF TypeOK

\* An invalidation starts with nothing
LEMMA InvalidateBeginInvariant ==
  ASSUME IInv, NEW t \in Threads, NEW w \in Wrappers, InvalidateBegin(t, w)
  PROVE  IInv'
<1> TypeOK /\ LinkedCodeAlive /\ NewCodeKept(t) /\ OldCodeKept(t)
  BY DEF IInv
<1>0. th[t] \in Locals /\ \A v \in Wrappers : address[v] \in Slots \cup {NULL}
  BY DEF TypeOK
<1> DEFINE l == [pc |-> "read", w |-> w, new |-> NULL, old |-> NULL]
<1>1. th' = [th EXCEPT ![t] = l] /\ UNCHANGED <<state, age, wrapper, marked, act, aim, address, entry, vm>>
  BY <1>0 DEF InvalidateBegin
<1>2. l \in Locals /\ l.pc = "read" /\ l.new = NULL /\ l.w = w
  BY <1>0 DEF Locals, TypeOK, InvalidateBegin
<1>3. th'[t] = l
  BY <1>1 DEF TypeOK
<1> HIDE DEF l
<1>4. NewCodeKept(t)'
  BY <1>1, <1>2, <1>3 DEF NewCodeKept, Alive
<1>5. OldCodeKept(t)'
  BY <1>0, <1>1, <1>2, <1>3 DEF OldCodeKept, NewCodeKept, Alive
<1>6. LinkedCodeAlive'
  BY <1>0, <1>1, <1>2, <1>3 DEF TypeOK, LinkedCodeAlive, Alive, NewCodeKept
<1> QED
  BY <1>0, <1>1, <1>2, <1>4, <1>5, <1>6, LocalStep DEF TypeOK

\* What address names is alive
LEMMA InvalidateReadInvariant ==
  ASSUME IInv, NEW t \in Threads, InvalidateRead(t)
  PROVE  IInv'
<1> TypeOK /\ LinkedCodeAlive /\ NewCodeKept(t) /\ OldCodeKept(t)
  BY DEF IInv
<1>0. th[t] \in Locals /\ \A w \in Wrappers : address[w] \in Slots \cup {NULL}
  BY DEF TypeOK
<1>1. CASE address[th[t].w] = NULL
  <2> DEFINE l == Invalidated(t)
  <2>1. th' = [th EXCEPT ![t] = l] /\ UNCHANGED <<state, age, wrapper, marked, act, aim, address, entry, vm>>
        /\ th[t].pc = "read"
    BY <1>0, <1>1 DEF InvalidateRead
  <2>2. l \in Locals /\ l.new = th[t].new
        /\ ((l.pc = "idle" /\ l.new = NULL) \/ (l.pc = "publish" /\ l.new # NULL /\ l.w = th[t].w))
    BY <1>0, <1>1 DEF Locals, TypeOK, InvalidateRead, Invalidated, idle, NULL
  <2>3. th'[t] = l
    BY <2>1 DEF TypeOK
  <2> HIDE DEF l
  <2>4. NewCodeKept(t)'
    BY <2>1, <2>2, <2>3 DEF NewCodeKept, Alive
  <2>5. OldCodeKept(t)'
    BY <1>0, <1>1, <2>1, <2>2, <2>3 DEF OldCodeKept, NewCodeKept, Alive
  <2>6. LinkedCodeAlive'
    BY <1>0, <1>1, <2>1, <2>2, <2>3 DEF TypeOK, LinkedCodeAlive, Alive, NewCodeKept
  <2> QED
    BY <1>0, <1>1, <2>1, <2>2, <2>4, <2>5, <2>6, LocalStep DEF TypeOK
<1>2. CASE address[th[t].w] # NULL
  <2> DEFINE l == [th[t] EXCEPT !.pc = "lock", !.old = address[th[t].w]]
  <2>1. th' = [th EXCEPT ![t] = l] /\ UNCHANGED <<state, age, wrapper, marked, act, aim, address, entry, vm>>
        /\ th[t].pc = "read"
    BY <1>0, <1>2 DEF InvalidateRead
  <2>2. l \in Locals /\ l.new = th[t].new /\ l.pc = "lock" /\ l.w = th[t].w
        /\ l.old \in Slots /\ Alive(l.old)
    BY <1>0, <1>2 DEF Locals, TypeOK, InvalidateRead, NewCodeKept, LinkedCodeAlive
  <2>3. th'[t] = l
    BY <2>1 DEF TypeOK
  <2> HIDE DEF l
  <2>4. NewCodeKept(t)'
    BY <2>1, <2>2, <2>3 DEF NewCodeKept, Alive
  <2>5. OldCodeKept(t)'
    BY <1>0, <1>2, <2>1, <2>2, <2>3 DEF OldCodeKept, NewCodeKept, Alive
  <2>6. LinkedCodeAlive'
    BY <1>0, <1>2, <2>1, <2>2, <2>3 DEF TypeOK, LinkedCodeAlive, Alive, NewCodeKept
  <2> QED
    BY <1>0, <1>2, <2>1, <2>2, <2>4, <2>5, <2>6, LocalStep DEF TypeOK
<1> QED
  BY <1>1, <1>2 DEF InvalidateRead

\* What is locked is not a zombie and not flushed
LEMMA InvalidateLockInvariant ==
  ASSUME IInv, NEW t \in Threads, InvalidateLock(t)
  PROVE  IInv'
<1> TypeOK /\ LinkedCodeAlive /\ NewCodeKept(t) /\ OldCodeKept(t)
  BY DEF IInv
<1>0. th[t] \in Locals /\ \A w \in Wrappers : address[w] \in Slots \cup {NULL}
  BY DEF TypeOK
<1>1. CASE state[th[t].old] = "zombie"
  <2> DEFINE l == th[t]
  <2>1. th' = [th EXCEPT ![t] = l] /\ UNCHANGED <<state, age, wrapper, marked, act, aim, address, entry>>
        /\ vm' = "guarantee failed"
    BY <1>0, <1>1 DEF InvalidateLock, TypeOK
  <2>2. l \in Locals /\ l.pc = "lock" /\ l = th[t]
    BY <1>0, <1>1 DEF Locals, TypeOK, InvalidateLock
  <2>3. th'[t] = l
    BY <2>1 DEF TypeOK
  <2> HIDE DEF l
  <2>4. NewCodeKept(t)'
    BY <2>1, <2>2, <2>3 DEF NewCodeKept, Alive
  <2>5. OldCodeKept(t)'
    BY <2>1, <2>2, <2>3 DEF OldCodeKept, Alive
  <2>6. LinkedCodeAlive'
    BY <1>0, <1>1, <2>1, <2>2, <2>3 DEF TypeOK, LinkedCodeAlive, Alive, NewCodeKept
  <2>7. l.old \in Slots
    BY <1>0, <2>2 DEF TypeOK
  <2> QED
    BY <1>0, <1>1, <2>1, <2>2, <2>4, <2>5, <2>6, <2>7, LocalStep DEF TypeOK
<1>2. CASE state[th[t].old] # "zombie"
  <2> DEFINE l == [th[t] EXCEPT !.pc = "check"]
  <2>1. th' = [th EXCEPT ![t] = l] /\ UNCHANGED <<state, age, wrapper, marked, act, aim, address, entry, vm>>
    BY <1>0, <1>2 DEF InvalidateLock
  <2>2. l \in Locals /\ l.new = th[t].new /\ l.pc = "check" /\ l.w = th[t].w
        /\ l.old = th[t].old /\ th[t].pc = "lock" /\ l.old \in Slots
    BY <1>0, <1>2 DEF Locals, TypeOK, InvalidateLock
  <2>3. th'[t] = l
    BY <2>1 DEF TypeOK
  <2> HIDE DEF l
  <2>4. NewCodeKept(t)'
    BY <2>1, <2>2, <2>3 DEF NewCodeKept, Alive
  <2>5. OldCodeKept(t)'
    BY <1>0, <1>2, <2>1, <2>2, <2>3 DEF OldCodeKept, NewCodeKept, Alive
  <2>6. LinkedCodeAlive'
    BY <1>0, <1>2, <2>1, <2>2, <2>3 DEF TypeOK, LinkedCodeAlive, Alive, NewCodeKept
  <2> QED
    BY <1>0, <1>2, <2>1, <2>2, <2>4, <2>5, <2>6, LocalStep DEF TypeOK
<1> QED
  BY <1>1, <1>2 DEF InvalidateLock

\* Code that is not alive needs no deoptimization
LEMMA InvalidateCheckInvariant ==
  ASSUME IInv, NEW t \in Threads, InvalidateCheck(t)
  PROVE  IInv'
<1> TypeOK /\ LinkedCodeAlive /\ NewCodeKept(t) /\ OldCodeKept(t)
  BY DEF IInv
<1>0. th[t] \in Locals /\ \A w \in Wrappers : address[w] \in Slots \cup {NULL}
  BY DEF TypeOK
<1>1. CASE Alive(th[t].old)
  <2> DEFINE l == [th[t] EXCEPT !.pc = "deopt"]
  <2>1. th' = [th EXCEPT ![t] = l] /\ UNCHANGED <<state, age, wrapper, act, aim, address, entry, vm>>
        /\ marked' = marked \cup {th[t].old}
    BY <1>0, <1>1 DEF InvalidateCheck
  <2>2. l \in Locals /\ l.new = th[t].new /\ l.pc = "deopt" /\ l.w = th[t].w
        /\ l.old = th[t].old /\ th[t].pc = "check" /\ l.old \in Slots
    BY <1>0, <1>1 DEF Locals, TypeOK, InvalidateCheck
  <2>3. th'[t] = l
    BY <2>1 DEF TypeOK
  <2> HIDE DEF l
  <2>4. NewCodeKept(t)'
    BY <2>1, <2>2, <2>3 DEF NewCodeKept, Alive
  <2>5. OldCodeKept(t)'
    BY <1>0, <1>1, <2>1, <2>2, <2>3 DEF OldCodeKept, NewCodeKept, Alive
  <2>6. LinkedCodeAlive'
    BY <1>0, <1>1, <2>1, <2>2, <2>3 DEF TypeOK, LinkedCodeAlive, Alive, NewCodeKept
  <2> QED
    BY <1>0, <1>1, <2>1, <2>2, <2>4, <2>5, <2>6, LocalStep DEF TypeOK
<1>2. CASE ~Alive(th[t].old)
  <2> DEFINE l == [th[t] EXCEPT !.pc = "unlink"]
  <2>1. th' = [th EXCEPT ![t] = l] /\ UNCHANGED <<state, age, wrapper, marked, act, aim, address, entry, vm>>
    BY <1>0, <1>2 DEF InvalidateCheck
  <2>2. l \in Locals /\ l.new = th[t].new /\ l.pc = "unlink" /\ l.w = th[t].w
        /\ l.old = th[t].old /\ th[t].pc = "check" /\ l.old \in Slots
    BY <1>0, <1>2 DEF Locals, TypeOK, InvalidateCheck
  <2>3. th'[t] = l
    BY <2>1 DEF TypeOK
  <2> HIDE DEF l
  <2>4. NewCodeKept(t)'
    BY <2>1, <2>2, <2>3 DEF NewCodeKept, Alive
  <2>5. OldCodeKept(t)'
    BY <1>0, <1>2, <2>1, <2>2, <2>3 DEF OldCodeKept, NewCodeKept, Alive
  <2>6. LinkedCodeAlive'
    BY <1>0, <1>2, <2>1, <2>2, <2>3 DEF TypeOK, LinkedCodeAlive, Alive, NewCodeKept
  <2> QED
    BY <1>0, <1>2, <2>1, <2>2, <2>4, <2>5, <2>6, LocalStep DEF TypeOK
<1> QED
  BY <1>1, <1>2 DEF InvalidateCheck

\* The link is broken
LEMMA InvalidateUnlinkInvariant ==
  ASSUME IInv, NEW t \in Threads, InvalidateUnlink(t)
  PROVE  IInv'
<1> TypeOK /\ LinkedCodeAlive /\ NewCodeKept(t) /\ OldCodeKept(t)
  BY DEF IInv
<1>0. th[t] \in Locals /\ \A w \in Wrappers : address[w] \in Slots \cup {NULL}
  BY DEF TypeOK
<1> DEFINE l == Invalidated(t)
<1>1. th' = [th EXCEPT ![t] = l] /\ UNCHANGED <<state, age, wrapper, marked, act, aim, entry, vm>>
      /\ address' = [address EXCEPT ![th[t].w] = IF @ = th[t].old THEN NULL ELSE @]
      /\ th[t].pc = "unlink"
  BY <1>0 DEF InvalidateUnlink
<1>2. l \in Locals /\ l.new = th[t].new
      /\ ((l.pc = "idle" /\ l.new = NULL) \/ (l.pc = "publish" /\ l.new # NULL /\ l.w = th[t].w))
  BY <1>0 DEF Locals, TypeOK, InvalidateUnlink, Invalidated, idle, NULL
<1>3. th'[t] = l
  BY <1>1 DEF TypeOK
<1> HIDE DEF l
<1>4. NewCodeKept(t)'
  BY <1>1, <1>2, <1>3 DEF NewCodeKept, Alive
<1>5. OldCodeKept(t)'
  BY <1>0, <1>1, <1>2, <1>3 DEF OldCodeKept, NewCodeKept, Alive
<1>6. LinkedCodeAlive'
  BY <1>0, <1>1, <1>2, <1>3 DEF TypeOK, LinkedCodeAlive, Alive, NewCodeKept, NULL, Slots
<1> QED
  BY <1>0, <1>1, <1>2, <1>4, <1>5, <1>6, LocalStep DEF TypeOK

\* A call changes no link
LEMMA ExecuteReadInvariant ==
  ASSUME IInv, NEW t \in Threads, NEW w \in Wrappers, ExecuteRead(t, w)
  PROVE  IInv'
<1> TypeOK /\ LinkedCodeAlive /\ NewCodeKept(t) /\ OldCodeKept(t)
  BY DEF IInv
<1>0. th[t] \in Locals /\ \A v \in Wrappers : address[v] \in Slots \cup {NULL}
  BY DEF TypeOK
<1> DEFINE l == [pc |-> "exec", w |-> w, new |-> NULL, old |-> address[w]]
<1>1. th' = [th EXCEPT ![t] = l] /\ UNCHANGED <<state, age, wrapper, marked, act, aim, address, entry, vm>>
  BY <1>0 DEF ExecuteRead
<1>2. l \in Locals /\ l.new = NULL /\ l.pc = "exec" /\ l.w = w /\ l.old \in Slots
  BY <1>0 DEF Locals, TypeOK, ExecuteRead
<1>3. th'[t] = l
  BY <1>1 DEF TypeOK
<1> HIDE DEF l
<1>4. NewCodeKept(t)'
  BY <1>1, <1>2, <1>3 DEF NewCodeKept, Alive
<1>5. OldCodeKept(t)'
  BY <1>0, <1>1, <1>2, <1>3 DEF OldCodeKept, NewCodeKept, Alive
<1>6. LinkedCodeAlive'
  BY <1>0, <1>1, <1>2, <1>3 DEF TypeOK, LinkedCodeAlive, Alive, NewCodeKept
<1> QED
  BY <1>0, <1>1, <1>2, <1>4, <1>5, <1>6, LocalStep DEF TypeOK

\* Nor does the test of what is called
LEMMA ExecuteCheckInvariant ==
  ASSUME IInv, NEW t \in Threads, ExecuteCheck(t)
  PROVE  IInv'
<1> TypeOK /\ LinkedCodeAlive /\ NewCodeKept(t) /\ OldCodeKept(t)
  BY DEF IInv
<1>0. th[t] \in Locals /\ \A w \in Wrappers : address[w] \in Slots \cup {NULL}
  BY DEF TypeOK
<1>1. CASE th' = [th EXCEPT ![t].pc = "enter"]
  <2> DEFINE l == [th[t] EXCEPT !.pc = "enter"]
  <2>1. th' = [th EXCEPT ![t] = l] /\ UNCHANGED <<state, age, wrapper, marked, act, aim, address, entry, vm>>
    BY <1>0, <1>1 DEF ExecuteCheck
  <2>2. l \in Locals /\ l.new = th[t].new /\ l.pc = "enter" /\ l.w = th[t].w /\ th[t].pc = "exec" /\ l.old \in Slots
    BY <1>0, <1>1 DEF Locals, TypeOK, ExecuteCheck
  <2>3. th'[t] = l
    BY <2>1 DEF TypeOK
  <2> HIDE DEF l
  <2>4. NewCodeKept(t)'
    BY <2>1, <2>2, <2>3 DEF NewCodeKept, Alive
  <2>5. OldCodeKept(t)'
    BY <1>0, <1>1, <2>1, <2>2, <2>3 DEF OldCodeKept, NewCodeKept, Alive
  <2>6. LinkedCodeAlive'
    BY <1>0, <1>1, <2>1, <2>2, <2>3 DEF TypeOK, LinkedCodeAlive, Alive, NewCodeKept
  <2> QED
    BY <1>0, <1>1, <2>1, <2>2, <2>4, <2>5, <2>6, LocalStep DEF TypeOK
<1>2. CASE th' = [th EXCEPT ![t] = idle]
  <2> DEFINE l == idle
  <2>1. th' = [th EXCEPT ![t] = l] /\ UNCHANGED <<state, age, wrapper, marked, act, aim, address, entry, vm>>
    BY <1>0, <1>2 DEF ExecuteCheck
  <2>2. l \in Locals /\ l.pc = "idle" /\ l.new = NULL
    BY <1>0, <1>2 DEF Locals, TypeOK, ExecuteCheck, idle
  <2>3. th'[t] = l
    BY <2>1 DEF TypeOK
  <2> HIDE DEF l
  <2>4. NewCodeKept(t)'
    BY <2>1, <2>2, <2>3 DEF NewCodeKept, Alive
  <2>5. OldCodeKept(t)'
    BY <1>0, <1>2, <2>1, <2>2, <2>3 DEF OldCodeKept, NewCodeKept, Alive
  <2>6. LinkedCodeAlive'
    BY <1>0, <1>2, <2>1, <2>2, <2>3 DEF TypeOK, LinkedCodeAlive, Alive, NewCodeKept
  <2> QED
    BY <1>0, <1>2, <2>1, <2>2, <2>4, <2>5, <2>6, LocalStep DEF TypeOK
<1> QED
  BY <1>1, <1>2 DEF ExecuteCheck

\* An activation is not a link
LEMMA ExecuteEnterInvariant ==
  ASSUME IInv, NEW t \in Threads, ExecuteEnter(t)
  PROVE  IInv'
<1> TypeOK /\ LinkedCodeAlive /\ NewCodeKept(t) /\ OldCodeKept(t)
  BY DEF IInv
<1>0. th[t] \in Locals /\ \A w \in Wrappers : address[w] \in Slots \cup {NULL}
  BY DEF TypeOK
<1> DEFINE l == idle
<1>1. th' = [th EXCEPT ![t] = l] /\ UNCHANGED <<state, age, wrapper, marked, aim, address, entry>>
      /\ act' = (IF state[th[t].old] = "in_use" THEN act \cup {th[t].old} ELSE act)
      /\ vm' = (IF state[th[t].old] = "free" THEN "called flushed code" ELSE vm)
      /\ th[t].pc = "enter"
  BY <1>0 DEF ExecuteEnter
<1>2. l \in Locals /\ l.pc = "idle" /\ l.new = NULL
  BY <1>0 DEF Locals, TypeOK, ExecuteEnter, idle
<1>3. th'[t] = l
  BY <1>1 DEF TypeOK
<1> HIDE DEF l
<1>4. NewCodeKept(t)'
  BY <1>1, <1>2, <1>3 DEF NewCodeKept, Alive
<1>5. OldCodeKept(t)'
  BY <1>0, <1>1, <1>2, <1>3 DEF OldCodeKept, NewCodeKept, Alive
<1>6. LinkedCodeAlive'
  BY <1>0, <1>1, <1>2, <1>3 DEF TypeOK, LinkedCodeAlive, Alive, NewCodeKept
<1> QED
  BY <1>0, <1>1, <1>2, <1>4, <1>5, <1>6, LocalStep DEF TypeOK

\* An nmethod that is not on a stack any more has the same links
LEMMA ReturnInvariant ==
  ASSUME IInv, NEW n \in Slots, Return(n)
  PROVE  IInv'
BY DEF IInv, TypeOK, LinkedCodeAlive, AimDecided, NewCodeKept, OldCodeKept, Alive, Return

-----------------------------------------------------------------------------
(* Theorems                                                                *)

LEMMA InitInvariant ==
  ASSUME Init
  PROVE  IInv
<1>1. TypeOK
  BY DEF Init, TypeOK, Locals, idle, NULL
<1> QED
  BY <1>1 DEF Init, IInv, LinkedCodeAlive, AimDecided, NewCodeKept, OldCodeKept, idle

LEMMA NextInvariant ==
  ASSUME IInv, [Next]_vars, CompilerThreads = Threads
  PROVE  IInv'
<1>1. CASE UNCHANGED vars
  BY <1>1 DEF vars, IInv, TypeOK, LinkedCodeAlive, AimDecided, NewCodeKept, OldCodeKept, Alive
<1>2. ASSUME NEW t \in Threads, Begin(t)
      PROVE  IInv'
  BY <1>2, InstallRegisterInvariant, InvalidateBeginInvariant, ExecuteReadInvariant DEF Begin
<1>3. ASSUME NEW t \in Threads, Continue(t)
      PROVE  IInv'
  BY <1>3, InvalidateReadInvariant, InvalidateLockInvariant, InvalidateCheckInvariant,
     VMDeoptimizeInvariant, InvalidateUnlinkInvariant, InstallPublishInvariant,
     ExecuteCheckInvariant, ExecuteEnterInvariant DEF Continue
<1>4. CASE CodeStep
  BY <1>4, MakeNotEntrantInvariant, SweeperAimInvariant, FlushInvariant, GCUnloadInvariant,
     ReturnInvariant DEF CodeStep
<1> QED
  BY <1>1, <1>2, <1>3, <1>4, MakeZombieInvariant, SafepointInvariant, GCWrapperInvariant DEF Next

\* IInv is an inductive invariant if all code is installed for CompileTasks,
\* which lock it (nmethodLocker, CompileTask::set_code)
THEOREM Invariance ==
  ASSUME CompilerThreads = Threads
  PROVE  Spec => []IInv
<1>1. Init => IInv
  BY InitInvariant
<1>2. IInv /\ [Next]_vars => IInv'
  BY NextInvariant
<1> QED
  BY <1>1, <1>2, PTL DEF Spec

\* Variables have their types, and a thread that works on an nmethod has one
THEOREM TypeCorrect ==
  ASSUME CompilerThreads = Threads
  PROVE  Spec => []TypeOK
<1>1. IInv => TypeOK
  BY DEF IInv
<1> QED
  BY <1>1, Invariance, PTL

\* InstalledCode.address names code that is alive and points back to the wrapper,
\* whatever installations, invalidations, collections and sweeps race
\* (nmethod::maybe_invalidate_installed_code, CompilerToVM.installCode)
THEOREM LinksSafe ==
  ASSUME CompilerThreads = Threads
  PROVE  Spec => []LinkedCodeAlive
<1>1. IInv => LinkedCodeAlive
  BY DEF IInv
<1> QED
  BY <1>1, Invariance, PTL

\* Only the last step of an invalidation takes a thread away from it
LEMMA LeavesUnlink ==
  ASSUME IInv, [Next]_vars, NEW t \in Threads, th[t].pc = "unlink", th'[t].pc # "unlink"
  PROVE  InvalidateUnlink(t)
<1> TypeOK
  BY DEF IInv
<1>1. ASSUME NEW u \in Threads, Begin(u)
      PROVE  FALSE
  <2>1. th[u] = idle /\ \E l : th' = [th EXCEPT ![u] = l]
    BY <1>1 DEF Begin, InstallRegister, InvalidateBegin, ExecuteRead
  <2>2. u # t
    BY <2>1 DEF idle
  <2>3. th'[t] = th[t]
    BY <2>1, <2>2 DEF TypeOK
  <2> QED
    BY <2>3
<1>2. ASSUME NEW u \in Threads, Continue(u), u # t
      PROVE  FALSE
  <2>1. th' = th \/ \E l : th' = [th EXCEPT ![u] = l]
    BY <1>2 DEF Continue, InvalidateRead, InvalidateLock, InvalidateCheck, VMDeoptimize,
                InvalidateUnlink, InstallPublish, ExecuteCheck, ExecuteEnter
  <2> QED
    BY <1>2, <2>1 DEF TypeOK
<1>3. CASE Continue(t)
  BY <1>3 DEF Continue, InvalidateRead, InvalidateLock, InvalidateCheck, VMDeoptimize,
              InstallPublish, ExecuteCheck, ExecuteEnter
<1>4. th' # th
  OBVIOUS
<1>5. ~ (CodeStep \/ MakeZombie \/ Safepoint \/ (\E w \in Wrappers : GCWrapper(w)) \/ UNCHANGED vars)
  BY <1>4 DEF CodeStep, MakeNotEntrant, SweeperAim, Flush, GCUnload, Return, MakeZombie, Safepoint,
              GCWrapper, vars
<1> QED
  BY <1>1, <1>2, <1>3, <1>5 DEF Next

\* When InstalledCode.invalidate returns, the code that it found is not entrant
\* and the wrapper does not name it (nmethod::invalidate_installed_code)
THEOREM InvalidationSafe ==
  ASSUME CompilerThreads = Threads
  PROVE  Spec => InvalidateStopsEntry
<1>1. ASSUME IInv, [Next]_vars, NEW t \in Threads, th[t].pc = "unlink", th'[t].pc # "unlink"
      PROVE  state[th[t].old] # "in_use" /\ address'[th[t].w] # th[t].old
  <2>1. th[t].w \in Wrappers /\ th[t].old \in Slots /\ state[th[t].old] # "in_use"
    BY <1>1 DEF IInv, TypeOK, NewCodeKept, OldCodeKept
  <2>2. address' = [address EXCEPT ![th[t].w] = IF @ = th[t].old THEN NULL ELSE @]
    BY <1>1, LeavesUnlink DEF InvalidateUnlink
  <2>3. address \in [Wrappers -> Slots \cup {NULL}]
    BY <1>1 DEF IInv, TypeOK
  <2> QED
    BY <2>1, <2>2, <2>3, NullNotSlot
<1>2. IInv /\ [Next]_vars =>
        [\A t \in Threads : th[t].pc = "unlink" /\ th'[t].pc # "unlink" =>
             /\ state[th[t].old] # "in_use"
             /\ address'[th[t].w] # th[t].old]_vars
  BY <1>1
<1>3. Spec => []IInv /\ [][Next]_vars
  BY Invariance, PTL DEF Spec
<1> QED
  BY <1>2, <1>3, PTL DEF InvalidateStopsEntry

-----------------------------------------------------------------------------
(***************************************************************************)
(* The speculation log of installed code, for every set of reasons,        *)
(* threads and compilations.                                               *)
(***************************************************************************)

(* The inductive invariant for any number of compilations                  *)

\* A compilation that collects is inside the monitor, and there is a failure to
\* collect; one that registers has a reason
Collecting == \A c \in Compilers :
    /\ comp[c].pc \in {"add", "reset"} => monitor = c
    /\ comp[c].pc = "add" => lastFailed # None
    /\ comp[c].pc \in {"speculate", "make", "register"} => comp[c].reason # None

\* A thread that has trapped still has its activation
Trapping == \A t \in Runners :
    /\ pending[t] # None => running[t] \in ActType
    /\ running[t] # None /\ running[t].trapped => pending[t] = None

LogTypeInv == SpeculationConstants /\ LogTypeOK /\ Collecting /\ Trapping

\* The reasons a compilation has registered so far are in the log's collection,
\* unless another one has dropped the collection
Registering == \A c \in Compilers :
    /\ comp[c].pc \in {"idle", "add", "reset"} => comp[c].reasons = {}
    /\ comp[c].reasons # {} => \/ comp[c].dropped
                               \/ speculations # None /\ comp[c].reasons \subseteq speculations

\* Code and activations that rely on a reason have the log, with that exception
CodeHasLog == code # None /\ code.reasons # {} => code.log \/ code.dropped
ActHasLog == \A t \in Runners : running[t] # None /\ running[t].reasons # {}
                                   => running[t].log \/ running[t].dropped

LogInv == LogTypeInv /\ Registering /\ CodeHasLog /\ ActHasLog /\ LogAttached

-----------------------------------------------------------------------------
(* Records                                                                 *)

LEMMA CompFields ==
  ASSUME LogTypeOK, NEW c \in Compilers
  PROVE  /\ comp[c] \in CompType /\ comp[c].ask \in SUBSET Reasons
         /\ comp[c].reason \in Reasons \cup {None} /\ comp[c].reasons \in SUBSET Reasons
         /\ comp[c].since \in SUBSET Reasons /\ comp[c].dropped \in BOOLEAN
<1>1. comp[c] \in CompType
  BY DEF LogTypeOK
<1> QED
  BY <1>1 DEF CompType

LEMMA IdleType == Idle \in CompType /\ Idle.pc = "idle" /\ Idle.reasons = {}
BY DEF Idle, CompType

\* The compilations after one of them has changed
LEMMA CompUpdate ==
  ASSUME LogTypeOK, NEW c \in Compilers, NEW r \in CompType, comp' = [comp EXCEPT ![c] = r]
  PROVE  /\ comp' \in [Compilers -> CompType] /\ comp'[c] = r
         /\ \A d \in Compilers : d # c => comp'[d] = comp[d]
BY DEF LogTypeOK

LEMMA Moved ==
  ASSUME NEW r \in CompType,
         NEW l \in {"idle", "add", "reset", "compile", "speculate", "make", "register"}
  PROVE  /\ [r EXCEPT !.pc = l] \in CompType /\ [r EXCEPT !.pc = l].pc = l
         /\ [r EXCEPT !.pc = l].reasons = r.reasons /\ [r EXCEPT !.pc = l].reason = r.reason
         /\ [r EXCEPT !.pc = l].dropped = r.dropped
<1>1. PICK g : g = [r EXCEPT !.pc = l]
  OBVIOUS
<1>2. /\ g \in CompType /\ g.pc = l /\ g.reasons = r.reasons /\ g.reason = r.reason
      /\ g.dropped = r.dropped
  BY <1>1 DEF CompType
<1> QED
  BY <1>1, <1>2

\* An activation of code that is no longer the method's
LEMMA NotCurrentAct ==
  ASSUME LogTypeOK, NEW t \in Runners
  PROVE  /\ NotCurrent(t) \in ActType \cup {None}
         /\ running[t] = None => NotCurrent(t) = None
         /\ running[t] \in ActType => NotCurrent(t) \in ActType
         /\ NotCurrent(t).reasons = running[t].reasons /\ NotCurrent(t).log = running[t].log
         /\ NotCurrent(t).trapped = running[t].trapped
         /\ NotCurrent(t).dropped = running[t].dropped
<1>1. running[t] = None \/ running[t] \in ActType
  BY DEF LogTypeOK
<1>2. CASE running[t] = None
  BY <1>2 DEF NotCurrent
<1>3. CASE running[t] # None /\ running[t] \in ActType
  <2>1. PICK g : g = [running[t] EXCEPT !.current = FALSE]
    OBVIOUS
  <2>2. /\ g \in ActType /\ g.reasons = running[t].reasons /\ g.log = running[t].log
        /\ g.trapped = running[t].trapped /\ g.dropped = running[t].dropped
    BY <2>1, <1>3 DEF ActType
  <2>3. NotCurrent(t) = g
    BY <2>1, <1>3 DEF NotCurrent
  <2> QED
    BY <2>2, <2>3, <1>3
<1> QED
  BY <1>1, <1>2, <1>3

-----------------------------------------------------------------------------
(* Steps of a compilation                                                  *)

\* Compilation c has the locals r after it; what it does to the log it does inside
\* the monitor, and it drops no reasons
LEMMA CompilationStep ==
  ASSUME LogTypeInv, NEW c \in Compilers, NEW r \in CompType, comp' = [comp EXCEPT ![c] = r],
         UNCHANGED <<code, running, pending, recorded>>,
         lastFailed' \in Reasons \cup {None}, failedSpeculations' \subseteq Reasons,
         speculations' \in (SUBSET Reasons) \cup {None}, monitor' \in Compilers \cup {None},
         monitor' = monitor \/ monitor \in {None, c},
         lastFailed' = lastFailed \/ monitor = c,
         r.pc \in {"add", "reset"} => monitor' = c,
         r.pc = "add" => lastFailed' # None,
         r.pc \in {"speculate", "make", "register"} => r.reason # None,
         speculations # None => speculations' # None /\ speculations \subseteq speculations',
         LogInv => /\ r.pc \in {"idle", "add", "reset"} => r.reasons = {}
                   /\ r.reasons # {} => \/ r.dropped
                                        \/ speculations' # None /\ r.reasons \subseteq speculations'
  PROVE  LogTypeInv' /\ (LogInv => LogInv')
<1>1. LogTypeOK /\ Collecting /\ Trapping
  BY DEF LogTypeInv
<1>2. /\ comp' \in [Compilers -> CompType] /\ comp'[c] = r
      /\ \A d \in Compilers : d # c => comp'[d] = comp[d]
  BY <1>1, CompUpdate
<1>3. LogTypeOK'
  BY <1>1, <1>2 DEF LogTypeOK
<1>4. Collecting'
  <2> SUFFICES ASSUME NEW d \in Compilers
               PROVE  /\ comp'[d].pc \in {"add", "reset"} => monitor' = d
                      /\ comp'[d].pc = "add" => lastFailed' # None
                      /\ comp'[d].pc \in {"speculate", "make", "register"} => comp'[d].reason # None
    BY DEF Collecting
  <2>1. CASE d = c
    BY <2>1, <1>2
  <2>2. CASE d # c
    <3>1. d # None
      BY DEF LogTypeInv, SpeculationConstants
    <3> QED
      BY <2>2, <3>1, <1>1, <1>2 DEF Collecting
  <2> QED
    BY <2>1, <2>2
<1>5. Trapping'
  BY <1>1 DEF Trapping
<1>6. ASSUME LogInv PROVE LogInv'
  <2>1. Registering'
    <3> SUFFICES ASSUME NEW d \in Compilers
                 PROVE  /\ comp'[d].pc \in {"idle", "add", "reset"} => comp'[d].reasons = {}
                        /\ comp'[d].reasons # {} =>
                              \/ comp'[d].dropped
                              \/ speculations' # None /\ comp'[d].reasons \subseteq speculations'
      BY DEF Registering
    <3>1. CASE d = c
      BY <3>1, <1>2, <1>6
    <3>2. CASE d # c
      BY <3>2, <1>2, <1>6 DEF LogInv, Registering
    <3> QED
      BY <3>1, <3>2
  <2>2. CodeHasLog' /\ ActHasLog' /\ LogAttached'
    BY <1>6 DEF LogInv, CodeHasLog, ActHasLog, LogAttached
  <2> QED
    BY <2>1, <2>2, <1>3, <1>4, <1>5 DEF LogInv, LogTypeInv
<1> QED
  BY <1>3, <1>4, <1>5, <1>6 DEF LogTypeInv

LEMMA StartStep ==
  ASSUME LogTypeInv, NEW c \in Compilers, StartCompilation(c)
  PROVE  LogTypeInv' /\ (LogInv => LogInv')
<1>1. LogTypeOK
  BY DEF LogTypeInv
<1>2. /\ lastFailed \in Reasons \cup {None} /\ failedSpeculations \subseteq Reasons
      /\ speculations \in (SUBSET Reasons) \cup {None} /\ recorded \subseteq Reasons
  BY <1>1 DEF LogTypeOK
<1>3. PICK l \in {"compile", "add"} : l = IF lastFailed = None THEN "compile" ELSE "add"
  OBVIOUS
<1>4. PICK r : r = [Idle EXCEPT !.pc = l, !.ask = Reasons, !.since = recorded]
  OBVIOUS
<1>5. r \in CompType /\ r.pc = l /\ r.reasons = {}
  BY <1>2, <1>4 DEF Idle, CompType
<1>6. /\ comp' = [comp EXCEPT ![c] = r] /\ monitor = None
      /\ monitor' = IF lastFailed = None THEN None ELSE c
  BY <1>3, <1>4 DEF StartCompilation
<1>7. UNCHANGED <<lastFailed, failedSpeculations, speculations, code, running, pending, recorded>>
  BY DEF StartCompilation, log, run
<1> QED
  BY <1>2, <1>3, <1>5, <1>6, <1>7, CompilationStep

LEMMA CollectAddStep ==
  ASSUME LogTypeInv, NEW c \in Compilers, CollectAdd(c)
  PROVE  LogTypeInv' /\ (LogInv => LogInv')
<1>1. LogTypeOK /\ Collecting
  BY DEF LogTypeInv
<1>2. /\ lastFailed \in Reasons \cup {None} /\ failedSpeculations \subseteq Reasons
      /\ speculations \in (SUBSET Reasons) \cup {None} /\ monitor \in Compilers \cup {None}
      /\ comp[c] \in CompType
  BY <1>1, CompFields DEF LogTypeOK
<1>3. UNCHANGED <<code, running, pending, recorded>>
  BY DEF CollectAdd, run
<1>4. PICK r : r = [comp[c] EXCEPT !.pc = "reset"]
  OBVIOUS
<1>5. r \in CompType /\ r.pc = "reset" /\ r.reasons = comp[c].reasons
  BY <1>2, <1>4, Moved
<1>6. /\ comp' = [comp EXCEPT ![c] = r] /\ comp[c].pc = "add"
      /\ failedSpeculations' = failedSpeculations \cup {lastFailed}
      /\ UNCHANGED <<lastFailed, speculations, monitor>>
  BY <1>4 DEF CollectAdd, Goto, At
<1>7. monitor = c /\ lastFailed # None
  BY <1>1, <1>6 DEF Collecting
<1>8. failedSpeculations' \subseteq Reasons
  BY <1>2, <1>6, <1>7
<1>9. LogInv => r.reasons = {}
  BY <1>5, <1>6 DEF LogInv, Registering
<1> QED
  BY <1>2, <1>3, <1>5, <1>6, <1>7, <1>8, <1>9, CompilationStep

\* Compilation c has dropped the collection: it has registered nothing itself, and
\* the others that have are marked
LEMMA CollectResetStep ==
  ASSUME LogTypeInv, NEW c \in Compilers, CollectReset(c)
  PROVE  LogTypeInv' /\ (LogInv => LogInv')
<1>1. LogTypeOK /\ Collecting /\ Trapping
  BY DEF LogTypeInv
<1>2. comp[c].pc = "reset" /\ lastFailed' = None /\ speculations' = None /\ monitor' = None
  BY DEF CollectReset, At
<1>3. UNCHANGED <<failedSpeculations, code, running, pending, recorded>>
  BY DEF CollectReset, run
<1>4. monitor = c
  BY <1>1, <1>2 DEF Collecting
<1>5. /\ comp' = [d \in Compilers |-> comp'[d]]
      /\ \A d \in Compilers : comp'[d] = IF d = c THEN [comp[d] EXCEPT !.pc = "compile"]
                                 ELSE [comp[d] EXCEPT !.dropped = @ \/ comp[d].reasons # {}]
  BY DEF CollectReset
<1>6. /\ comp'[c] \in CompType /\ comp'[c].pc = "compile" /\ comp'[c].reasons = comp[c].reasons
  <2>1. comp[c] \in CompType
    BY <1>1, CompFields
  <2>2. comp'[c] = [comp[c] EXCEPT !.pc = "compile"]
    BY <1>5
  <2> QED
    BY <2>1, <2>2 DEF CompType
<1>7. ASSUME NEW d \in Compilers, d # c
      PROVE  /\ comp'[d] \in CompType /\ comp'[d].pc = comp[d].pc
             /\ comp'[d].reasons = comp[d].reasons /\ comp'[d].reason = comp[d].reason
             /\ comp[d].reasons # {} => comp'[d].dropped
  <2>1. comp[d] \in CompType
    BY <1>1, CompFields
  <2>2. PICK b \in BOOLEAN : b = (comp[d].dropped \/ comp[d].reasons # {})
    OBVIOUS
  <2>3. comp'[d] = [comp[d] EXCEPT !.dropped = b]
    BY <2>2, <1>5, <1>7
  <2>4. /\ comp'[d] \in CompType /\ comp'[d].pc = comp[d].pc /\ comp'[d].dropped = b
        /\ comp'[d].reasons = comp[d].reasons /\ comp'[d].reason = comp[d].reason
    BY <2>1, <2>3 DEF CompType
  <2> QED
    BY <2>2, <2>4
<1>8. LogTypeOK'
  BY <1>1, <1>2, <1>3, <1>5, <1>6, <1>7 DEF LogTypeOK
<1>9. \A d \in Compilers : d # c => comp[d].pc \notin {"add", "reset"}
  BY <1>1, <1>4 DEF Collecting
<1>10. Collecting'
  <2> SUFFICES ASSUME NEW d \in Compilers
               PROVE  /\ comp'[d].pc \notin {"add", "reset"}
                      /\ comp'[d].pc \in {"speculate", "make", "register"} => comp'[d].reason # None
    BY DEF Collecting
  <2>1. CASE d = c
    BY <2>1, <1>6
  <2>2. CASE d # c
    BY <2>2, <1>1, <1>7, <1>9 DEF Collecting
  <2> QED
    BY <2>1, <2>2
<1>11. Trapping'
  BY <1>1, <1>3 DEF Trapping
<1>12. ASSUME LogInv PROVE LogInv'
  <2>1. comp[c].reasons = {}
    BY <1>2, <1>12 DEF LogInv, Registering
  <2>2. ASSUME NEW d \in Compilers, d # c
        PROVE  /\ comp'[d].pc \in {"idle", "add", "reset"} => comp'[d].reasons = {}
               /\ comp'[d].reasons # {} => comp'[d].dropped
    BY <2>2, <1>7, <1>12 DEF LogInv, Registering
  <2>3. Registering'
    BY <2>1, <2>2, <1>6 DEF Registering
  <2>4. CodeHasLog' /\ ActHasLog' /\ LogAttached'
    BY <1>3, <1>12 DEF LogInv, CodeHasLog, ActHasLog, LogAttached
  <2> QED
    BY <2>3, <2>4, <1>8, <1>10, <1>11 DEF LogInv, LogTypeInv
<1> QED
  BY <1>8, <1>10, <1>11, <1>12 DEF LogTypeInv

LEMMA MaySpeculateStep ==
  ASSUME LogTypeInv, NEW c \in Compilers, NEW reason \in Reasons, MaySpeculate(c, reason)
  PROVE  LogTypeInv' /\ (LogInv => LogInv')
<1>1. LogTypeOK
  BY DEF LogTypeInv
<1>2. /\ lastFailed \in Reasons \cup {None} /\ failedSpeculations \subseteq Reasons
      /\ speculations \in (SUBSET Reasons) \cup {None} /\ monitor \in Compilers \cup {None}
      /\ comp[c] \in CompType /\ comp[c].pc = "compile"
  BY <1>1, CompFields DEF LogTypeOK, MaySpeculate, At
<1>3. /\ UNCHANGED <<code, running, pending, recorded>>
      /\ UNCHANGED <<lastFailed, failedSpeculations, speculations, monitor>>
  BY DEF MaySpeculate, log, run
<1>4. PICK r : /\ comp' = [comp EXCEPT ![c] = r]
               /\ \/ r = [comp[c] EXCEPT !.ask = @ \ {reason}]
                  \/ r = [comp[c] EXCEPT !.ask = @ \ {reason}, !.pc = "speculate",
                                         !.reason = reason]
  BY DEF MaySpeculate
<1>5. /\ r \in CompType /\ r.reasons = comp[c].reasons /\ r.dropped = comp[c].dropped
      /\ r.pc = "compile" \/ (r.pc = "speculate" /\ r.reason = reason)
  <2>1. PICK a \in SUBSET Reasons : a = comp[c].ask \ {reason}
    BY <1>1, CompFields
  <2>2. \/ r = [comp[c] EXCEPT !.ask = a]
        \/ r = [comp[c] EXCEPT !.ask = a, !.pc = "speculate", !.reason = reason]
    BY <2>1, <1>4
  <2>3. CASE r = [comp[c] EXCEPT !.ask = a]
    BY <2>3, <1>2 DEF CompType
  <2>4. CASE r = [comp[c] EXCEPT !.ask = a, !.pc = "speculate", !.reason = reason]
    BY <2>4, <1>2 DEF CompType
  <2> QED
    BY <2>2, <2>3, <2>4
<1>6. reason # None
  BY DEF LogTypeInv, SpeculationConstants
<1>7. LogInv => (r.reasons # {} => \/ r.dropped
                                   \/ speculations # None /\ r.reasons \subseteq speculations)
  BY <1>5 DEF LogInv, Registering
<1> QED
  BY <1>2, <1>3, <1>4, <1>5, <1>6, <1>7, CompilationStep

LEMMA SpeculateStep ==
  ASSUME LogTypeInv, NEW c \in Compilers, ReadSpeculations(c) \/ MakeSpeculations(c) \/ Register(c)
  PROVE  LogTypeInv' /\ (LogInv => LogInv')
<1>1. LogTypeOK /\ Collecting
  BY DEF LogTypeInv
<1>2. /\ lastFailed \in Reasons \cup {None} /\ failedSpeculations \subseteq Reasons
      /\ speculations \in (SUBSET Reasons) \cup {None} /\ monitor \in Compilers \cup {None}
      /\ comp[c] \in CompType /\ comp[c].reasons \in SUBSET Reasons
      /\ comp[c].reason \in Reasons \cup {None}
  BY <1>1, CompFields DEF LogTypeOK
<1>3. /\ UNCHANGED <<code, running, pending, recorded>>
      /\ UNCHANGED <<lastFailed, failedSpeculations, monitor>>
      /\ comp[c].pc \in {"speculate", "make", "register"} /\ comp[c].reason # None
  BY <1>1 DEF ReadSpeculations, MakeSpeculations, Register, At, Collecting, log, run
<1>4. LogInv => (comp[c].reasons # {} => \/ comp[c].dropped
                                         \/ /\ speculations # None
                                            /\ comp[c].reasons \subseteq speculations)
  BY DEF LogInv, Registering
<1>5. CASE ReadSpeculations(c) \/ MakeSpeculations(c)
  <2>1. PICK l \in {"make", "register"} : comp' = [comp EXCEPT ![c].pc = l]
    BY <1>5 DEF ReadSpeculations, MakeSpeculations, Goto
  <2>2. PICK r : r = [comp[c] EXCEPT !.pc = l]
    OBVIOUS
  <2>3. /\ r \in CompType /\ r.pc = l /\ r.reasons = comp[c].reasons
        /\ r.reason = comp[c].reason /\ r.dropped = comp[c].dropped
    BY <2>2, <1>2 DEF CompType
  <2>4. /\ comp' = [comp EXCEPT ![c] = r]
        /\ speculations' = speculations \/ (speculations = None /\ speculations' = {})
    BY <2>1, <2>2, <1>5 DEF ReadSpeculations, MakeSpeculations, log
  <2>5. speculations # None => speculations' # None /\ speculations \subseteq speculations'
    BY <2>4
  <2> QED
    BY <2>3, <2>4, <2>5, <1>2, <1>3, <1>4, CompilationStep
<1>6. CASE Register(c) /\ speculations # None
  <2>1. PICK R \in SUBSET Reasons : R = comp[c].reasons \cup {comp[c].reason}
    BY <1>2, <1>3
  <2>2. PICK r : r = [comp[c] EXCEPT !.pc = "compile", !.reason = None, !.reasons = R]
    OBVIOUS
  <2>3. r \in CompType /\ r.pc = "compile" /\ r.reasons = R /\ r.dropped = comp[c].dropped
    BY <2>2, <1>2 DEF CompType
  <2>4. /\ comp' = [comp EXCEPT ![c] = r]
        /\ speculations' = speculations \cup {comp[c].reason}
    BY <2>1, <2>2, <1>6 DEF Register, Registered
  <2>5. speculations' \in SUBSET Reasons
    BY <2>4, <1>2, <1>3, <1>6
  <2>6. speculations' # None
    BY <2>5 DEF LogTypeInv, SpeculationConstants
  <2>7. LogInv => comp[c].dropped \/ R \subseteq speculations'
    BY <2>1, <2>4, <1>4
  <2> QED
    BY <2>3, <2>4, <2>5, <2>6, <2>7, <1>2, <1>3, CompilationStep
<1>7. CASE Register(c) /\ speculations = None
  <2>1. comp' = [comp EXCEPT ![c] = Idle] /\ UNCHANGED speculations
    BY <1>7 DEF Register
  <2> QED
    BY <2>1, <1>2, <1>3, IdleType, CompilationStep
<1> QED
  BY <1>5, <1>6, <1>7

LEMMA BailoutStep ==
  ASSUME LogTypeInv, NEW c \in Compilers, Bailout(c)
  PROVE  LogTypeInv' /\ (LogInv => LogInv')
<1>1. /\ lastFailed \in Reasons \cup {None} /\ failedSpeculations \subseteq Reasons
      /\ speculations \in (SUBSET Reasons) \cup {None} /\ monitor \in Compilers \cup {None}
  BY DEF LogTypeInv, LogTypeOK
<1>2. /\ comp' = [comp EXCEPT ![c] = Idle]
      /\ UNCHANGED <<code, running, pending, recorded>>
      /\ UNCHANGED <<lastFailed, failedSpeculations, speculations, monitor>>
  BY DEF Bailout, log, run
<1> QED
  BY <1>1, <1>2, IdleType, CompilationStep

-----------------------------------------------------------------------------
(* Installation, and threads that run the code                             *)

\* The log's collections and the monitor are left alone
LEMMA RunningStep ==
  ASSUME LogTypeInv, UNCHANGED <<failedSpeculations, speculations, monitor>>,
         comp' = comp \/ \E c \in Compilers : comp' = [comp EXCEPT ![c] = Idle],
         lastFailed' = lastFailed \/ lastFailed' \in Reasons, recorded' \subseteq Reasons,
         code' \in CodeType \cup {None}, running' \in [Runners -> ActType \cup {None}],
         pending' \in [Runners -> Reasons \cup {None}], Trapping',
         LogInv => CodeHasLog' /\ ActHasLog' /\ LogAttached'
  PROVE  LogTypeInv' /\ (LogInv => LogInv')
<1>1. LogTypeOK /\ Collecting
  BY DEF LogTypeInv
<1>2. comp \in [Compilers -> CompType] /\ lastFailed \in Reasons \cup {None}
  BY <1>1 DEF LogTypeOK
<1>3. /\ comp' \in [Compilers -> CompType]
      /\ \A c \in Compilers : comp'[c] = comp[c] \/ comp'[c] = Idle
  BY <1>2, IdleType
<1>4. LogTypeOK'
  BY <1>1, <1>2, <1>3 DEF LogTypeOK
<1>5. lastFailed # None => lastFailed' # None
  BY <1>2 DEF LogTypeInv, SpeculationConstants
<1>6. Collecting'
  BY <1>1, <1>3, <1>5, IdleType DEF Collecting
<1>7. LogInv => Registering'
  BY <1>3, IdleType DEF LogInv, Registering
<1> QED
  BY <1>4, <1>6, <1>7 DEF LogInv, LogTypeInv

\* All activations are of code that is no longer the method's, but thread t's, which may
\* be gone
LEMMA Superseded ==
  ASSUME LogTypeInv, NEW t, UNCHANGED pending, t \in Runners => pending[t] = None,
         running' = [u \in Runners |-> IF u = t THEN None ELSE NotCurrent(u)]
  PROVE  /\ running' \in [Runners -> ActType \cup {None}] /\ Trapping'
         /\ LogInv => ActHasLog' /\ LogAttached'
<1>1. LogTypeOK /\ Trapping
  BY DEF LogTypeInv
<1>2. \A u \in Runners :
         /\ NotCurrent(u) \in ActType \cup {None}
         /\ running[u] = None => NotCurrent(u) = None
         /\ running[u] \in ActType => NotCurrent(u) \in ActType
         /\ NotCurrent(u).reasons = running[u].reasons /\ NotCurrent(u).log = running[u].log
         /\ NotCurrent(u).trapped = running[u].trapped
         /\ NotCurrent(u).dropped = running[u].dropped
  BY <1>1, NotCurrentAct
<1>3. running' \in [Runners -> ActType \cup {None}]
  BY <1>2
<1>4. \A u \in Runners : \/ u = t /\ running'[u] = None
                         \/ u # t /\ running'[u] = NotCurrent(u)
  OBVIOUS
<1>5. Trapping'
  BY <1>1, <1>2, <1>4 DEF Trapping
<1>6. LogInv => ActHasLog' /\ LogAttached'
  BY <1>2, <1>4 DEF LogInv, ActHasLog, LogAttached
<1> QED
  BY <1>3, <1>5, <1>6

LEMMA InstallStep ==
  ASSUME LogTypeInv, NEW c \in Compilers, Install(c)
  PROVE  LogTypeInv' /\ (LogInv => LogInv')
<1>1. LogTypeOK /\ Trapping
  BY DEF LogTypeInv
<1>2. /\ pending \in [Runners -> Reasons \cup {None}] /\ recorded \subseteq Reasons
      /\ comp[c].reasons \in SUBSET Reasons
  BY <1>1, CompFields DEF LogTypeOK
<1>3. PICK b : b = (speculations # None /\ speculations # {})
  OBVIOUS
<1>4. /\ code' = [reasons |-> comp[c].reasons, log |-> b, dropped |-> comp[c].dropped]
      /\ running' = [t \in Runners |-> NotCurrent(t)] /\ comp' = [comp EXCEPT ![c] = Idle]
      /\ UNCHANGED <<lastFailed, failedSpeculations, speculations, monitor, pending, recorded>>
  BY <1>3 DEF Install, log
<1>5. b \in BOOLEAN /\ comp[c].dropped \in BOOLEAN
  BY <1>1, <1>3, CompFields
<1>6. /\ code' \in CodeType /\ code'.reasons = comp[c].reasons /\ code'.log = b
      /\ code'.dropped = comp[c].dropped
  BY <1>2, <1>4, <1>5 DEF CodeType
<1>7. LogInv => CodeHasLog'
  BY <1>3, <1>6 DEF LogInv, Registering, CodeHasLog
<1>8. \A t \in Runners : t # None
  BY DEF LogTypeInv, SpeculationConstants
<1>9. running' = [u \in Runners |-> IF u = None THEN None ELSE NotCurrent(u)]
  BY <1>4, <1>8
<1>10. /\ running' \in [Runners -> ActType \cup {None}] /\ Trapping'
       /\ LogInv => ActHasLog' /\ LogAttached'
  BY <1>4, <1>8, <1>9, Superseded
<1> QED
  BY <1>2, <1>4, <1>6, <1>7, <1>10, RunningStep

LEMMA UncommonTrapStep ==
  ASSUME LogTypeInv, NEW t \in Runners, UncommonTrap(t)
  PROVE  LogTypeInv' /\ (LogInv => LogInv')
<1>1. LogTypeOK /\ Trapping
  BY DEF LogTypeInv
<1>2. /\ pending \in [Runners -> Reasons \cup {None}] /\ recorded \subseteq Reasons
      /\ code \in CodeType \cup {None} /\ running \in [Runners -> ActType \cup {None}]
  BY <1>1 DEF LogTypeOK
<1>3. /\ pending[t] = None
      /\ UNCHANGED <<lastFailed, failedSpeculations, speculations, monitor, comp,
                     pending, recorded>>
  BY <1>1 DEF UncommonTrap, Trapping, log
<1>4. code' \in CodeType \cup {None} /\ (LogInv => CodeHasLog')
  BY <1>2 DEF UncommonTrap, LogInv, CodeHasLog
<1>5. /\ running' \in [Runners -> ActType \cup {None}] /\ Trapping'
      /\ LogInv => ActHasLog' /\ LogAttached'
  <2>1. CASE running' = [u \in Runners |-> IF u = t THEN None ELSE NotCurrent(u)]
    BY <2>1, <1>3, Superseded
  <2>2. CASE running' = [running EXCEPT ![t] = None]
    <3>1. running'[t] = None /\ \A u \in Runners : u # t => running'[u] = running[u]
      BY <2>2, <1>2
    <3>2. Trapping'
      BY <3>1, <1>1, <1>3 DEF Trapping
    <3> QED
      BY <2>2, <3>1, <3>2, <1>2, <1>3 DEF LogInv, ActHasLog, LogAttached
  <2> QED
    BY <2>1, <2>2 DEF UncommonTrap
<1> QED
  BY <1>2, <1>3, <1>4, <1>5, RunningStep

LEMMA CallStep ==
  ASSUME LogTypeInv, NEW t \in Runners, Call(t)
  PROVE  LogTypeInv' /\ (LogInv => LogInv')
<1>1. LogTypeOK /\ Trapping
  BY DEF LogTypeInv
<1>2. /\ pending \in [Runners -> Reasons \cup {None}] /\ recorded \subseteq Reasons
      /\ code \in CodeType /\ code # None /\ running \in [Runners -> ActType \cup {None}]
  BY <1>1 DEF LogTypeOK, Call
<1>3. PICK a : a = [reasons |-> code.reasons, log |-> code.log, dropped |-> code.dropped,
                current |-> TRUE, trapped |-> FALSE]
  OBVIOUS
<1>4. code.reasons \in SUBSET Reasons /\ code.log \in BOOLEAN /\ code.dropped \in BOOLEAN
  BY <1>2 DEF CodeType
<1>5. /\ a \in ActType /\ a.reasons = code.reasons /\ a.log = code.log
      /\ a.dropped = code.dropped /\ a.trapped = FALSE
  BY <1>3, <1>4 DEF ActType
<1>6. /\ running' = [running EXCEPT ![t] = a]
      /\ UNCHANGED <<lastFailed, failedSpeculations, speculations, monitor, comp,
                     code, pending, recorded>>
  BY <1>3 DEF Call, log
<1>7. /\ running' \in [Runners -> ActType \cup {None}] /\ running'[t] = a
      /\ \A u \in Runners : u # t => running'[u] = running[u]
  BY <1>2, <1>5, <1>6
<1>8. Trapping'
  BY <1>1, <1>5, <1>6, <1>7 DEF Trapping
<1>9. LogInv => CodeHasLog' /\ ActHasLog'
  BY <1>2, <1>5, <1>6, <1>7 DEF LogInv, CodeHasLog, ActHasLog
<1>10. LogInv => LogAttached'
  <2>1. running[t] \notin ActType
    BY DEF LogTypeInv, SpeculationConstants, Call
  <2>2. pending[t] = None
    BY <2>1, <1>1 DEF Trapping
  <2> QED
    BY <2>2, <1>6, <1>7 DEF LogInv, LogAttached
<1> QED
  BY <1>2, <1>6, <1>7, <1>8, <1>9, <1>10, RunningStep

LEMMA ReturnStep ==
  ASSUME LogTypeInv, NEW t \in Runners, Leave(t)
  PROVE  LogTypeInv' /\ (LogInv => LogInv')
<1>1. LogTypeOK /\ Trapping
  BY DEF LogTypeInv
<1>2. /\ pending \in [Runners -> Reasons \cup {None}] /\ recorded \subseteq Reasons
      /\ code \in CodeType \cup {None} /\ running \in [Runners -> ActType \cup {None}]
  BY <1>1 DEF LogTypeOK
<1>3. /\ running' = [running EXCEPT ![t] = None] /\ pending[t] = None
      /\ UNCHANGED <<lastFailed, failedSpeculations, speculations, monitor, comp,
                     code, pending, recorded>>
  BY DEF Leave, Runs, log
<1>4. /\ running' \in [Runners -> ActType \cup {None}] /\ running'[t] = None
      /\ \A u \in Runners : u # t => running'[u] = running[u]
  BY <1>2, <1>3
<1>5. Trapping'
  BY <1>1, <1>3, <1>4 DEF Trapping
<1>6. LogInv => CodeHasLog' /\ ActHasLog' /\ LogAttached'
  BY <1>3, <1>4 DEF LogInv, CodeHasLog, ActHasLog, LogAttached
<1> QED
  BY <1>2, <1>3, <1>4, <1>5, <1>6, RunningStep

LEMMA FailStep ==
  ASSUME LogTypeInv, NEW t \in Runners, Fail(t)
  PROVE  LogTypeInv' /\ (LogInv => LogInv')
<1>1. LogTypeOK /\ Trapping
  BY DEF LogTypeInv
<1>2. /\ pending \in [Runners -> Reasons \cup {None}] /\ recorded \subseteq Reasons
      /\ code \in CodeType \cup {None} /\ running \in [Runners -> ActType \cup {None}]
  BY <1>1 DEF LogTypeOK
<1>3. PICK r \in running[t].reasons \cap Wrong : pending' = [pending EXCEPT ![t] = r]
  BY DEF Fail
<1>4. /\ running[t] # None /\ ~running[t].trapped /\ running[t] \in ActType
      /\ UNCHANGED <<lastFailed, failedSpeculations, speculations, monitor, comp,
                     code, running, recorded>>
  BY <1>2 DEF Fail, Runs, log
<1>5. r \in Reasons /\ running[t].reasons # {}
  BY <1>3 DEF LogTypeInv, SpeculationConstants
<1>6. /\ pending' \in [Runners -> Reasons \cup {None}] /\ pending'[t] = r
      /\ \A u \in Runners : u # t => pending'[u] = pending[u]
  BY <1>2, <1>3, <1>5
<1>7. Trapping'
  BY <1>1, <1>4, <1>6 DEF Trapping
<1>8. LogInv => CodeHasLog' /\ ActHasLog' /\ LogAttached'
  BY <1>4, <1>5, <1>6 DEF LogInv, CodeHasLog, ActHasLog, LogAttached
<1> QED
  BY <1>2, <1>4, <1>6, <1>7, <1>8, RunningStep

LEMMA RecordFailureStep ==
  ASSUME LogTypeInv, NEW t \in Runners, RecordFailure(t)
  PROVE  LogTypeInv' /\ (LogInv => LogInv')
<1>1. LogTypeOK /\ Trapping
  BY DEF LogTypeInv
<1>2. /\ pending \in [Runners -> Reasons \cup {None}] /\ recorded \subseteq Reasons
      /\ code \in CodeType \cup {None} /\ running \in [Runners -> ActType \cup {None}]
  BY <1>1 DEF LogTypeOK
<1>3. running[t] \in ActType /\ pending[t] \in Reasons
  BY <1>1, <1>2 DEF RecordFailure, Trapping
<1>4. PICK a : a = [running[t] EXCEPT !.trapped = TRUE]
  OBVIOUS
<1>5. /\ a \in ActType /\ a.reasons = running[t].reasons /\ a.log = running[t].log
      /\ a.dropped = running[t].dropped
  BY <1>3, <1>4 DEF ActType
<1>6. /\ running' = [running EXCEPT ![t] = a] /\ pending' = [pending EXCEPT ![t] = None]
      /\ UNCHANGED <<failedSpeculations, speculations, monitor, comp, code>>
  BY <1>4 DEF RecordFailure
<1>7. /\ running' \in [Runners -> ActType \cup {None}] /\ running'[t] = a
      /\ \A u \in Runners : u # t => running'[u] = running[u]
  BY <1>2, <1>5, <1>6
<1>8. /\ pending' \in [Runners -> Reasons \cup {None}] /\ pending'[t] = None
      /\ \A u \in Runners : u # t => pending'[u] = pending[u]
  BY <1>2, <1>6
<1>9. /\ lastFailed' = lastFailed \/ lastFailed' \in Reasons
      /\ recorded' \subseteq Reasons
  BY <1>2, <1>3 DEF RecordFailure
<1>10. Trapping'
  BY <1>1, <1>7, <1>8 DEF Trapping
<1>11. running[t] # None
  BY <1>3 DEF LogTypeInv, SpeculationConstants
<1>12. LogInv => CodeHasLog' /\ ActHasLog' /\ LogAttached'
  BY <1>5, <1>6, <1>7, <1>8, <1>11 DEF LogInv, CodeHasLog, ActHasLog, LogAttached
<1> QED
  BY <1>2, <1>6, <1>7, <1>8, <1>9, <1>10, <1>12, RunningStep

LEMMA UnloadStep ==
  ASSUME LogTypeInv, Unload
  PROVE  LogTypeInv' /\ (LogInv => LogInv')
<1>1. /\ pending \in [Runners -> Reasons \cup {None}] /\ recorded \subseteq Reasons
      /\ running \in [Runners -> ActType \cup {None}] /\ Trapping
  BY DEF LogTypeInv, LogTypeOK
<1>2. /\ code' = None
      /\ UNCHANGED <<lastFailed, failedSpeculations, speculations, monitor, comp,
                     running, pending, recorded>>
  BY DEF Unload, log
<1>3. Trapping'
  BY <1>1, <1>2 DEF Trapping
<1>4. LogInv => CodeHasLog' /\ ActHasLog' /\ LogAttached'
  BY <1>2 DEF LogInv, CodeHasLog, ActHasLog, LogAttached
<1> QED
  BY <1>1, <1>2, <1>3, <1>4, RunningStep

-----------------------------------------------------------------------------
LEMMA LogInitially ==
  ASSUME LogInit
  PROVE  LogInv
<1>1. LogTypeOK
  BY IdleType DEF LogInit, LogTypeOK
<1>2. Collecting /\ Trapping /\ Registering
  BY IdleType DEF LogInit, Collecting, Trapping, Registering
<1>3. CodeHasLog /\ ActHasLog /\ LogAttached
  BY DEF LogInit, CodeHasLog, ActHasLog, LogAttached
<1> QED
  BY <1>1, <1>2, <1>3, SpeculationAssumption DEF LogInv, LogTypeInv

LEMMA LogInductive ==
  ASSUME LogTypeInv, [LogNext]_logVars
  PROVE  LogTypeInv' /\ (LogInv => LogInv')
<1>1. ASSUME NEW c \in Compilers,
             \/ StartCompilation(c) \/ Compile(c) \/ Bailout(c) \/ Install(c)
             \/ \E r \in Reasons : MaySpeculate(c, r)
      PROVE  LogTypeInv' /\ (LogInv => LogInv')
  BY <1>1, StartStep, CollectAddStep, CollectResetStep, SpeculateStep, BailoutStep,
     InstallStep, MaySpeculateStep DEF Compile
<1>2. ASSUME NEW t \in Runners,
             Call(t) \/ Leave(t) \/ Fail(t) \/ RecordFailure(t) \/ UncommonTrap(t)
      PROVE  LogTypeInv' /\ (LogInv => LogInv')
  BY <1>2, CallStep, ReturnStep, FailStep, RecordFailureStep, UncommonTrapStep
<1>3. CASE UNCHANGED logVars
  <2>1. LogTypeInv'
    BY <1>3 DEF LogTypeInv, LogTypeOK, Collecting, Trapping, logVars
  <2>2. LogInv => LogInv'
    BY <1>3, <2>1 DEF LogInv, Registering, CodeHasLog, ActHasLog, LogAttached, logVars
  <2> QED
    BY <2>1, <2>2
<1> QED
  BY <1>1, <1>2, <1>3, UnloadStep DEF LogNext

\* The fields of the log, of the compilations and of the threads have their types: in
\* particular no null is put among the failed speculations, although lastFailed is read
\* twice and its writers do not enter the monitor
THEOREM LogTypeCorrect == LogSpec => []LogTypeOK
<1>1. LogInit => LogTypeInv
  BY LogInitially DEF LogInv
<1>2. LogTypeInv /\ [LogNext]_logVars => LogTypeInv'
  BY LogInductive
<1>3. LogTypeInv => LogTypeOK
  BY DEF LogTypeInv
<1> QED
  BY <1>1, <1>2, <1>3, PTL DEF LogSpec

\* However many compilations of the method run at a time, a thread that traps has
\* code with the log, so that its failure is stored, unless another compilation
\* collected a failure while this code was being compiled
THEOREM FailuresRecorded == LogSpec => []LogAttached
<1>1. LogInv /\ [LogNext]_logVars => LogInv'
  BY LogInductive DEF LogInv
<1>2. LogInv => LogAttached
  BY DEF LogInv
<1> QED
  BY <1>1, <1>2, LogInitially, PTL DEF LogSpec
=============================================================================
