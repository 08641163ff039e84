-------------------------- MODULE MethodCodeProofs --------------------------
(***************************************************************************)
(* For every capacity of the code cache, every set of threads and every    *)
(* command line: installation, deoptimization, unloading and the sweeper   *)
(* together keep the words of the Method and a pinned call site away from  *)
(* reclaimed code, and lose no entry point of installed code.              *)
(***************************************************************************)
EXTENDS MethodCode, TLAPS

USE MethodCodeAssumption DEF Slots, NULL, C2I

Clearing == {"clear1", "clear2", "clear3"}
Setting == {"set1", "set2", "set3"}

\* Process p goes on at l with the locals it has
Moves(p, l) == /\ th'[p].pc = l /\ th'[p].new = th[p].new
               /\ th'[p].nm = th[p].nm /\ th'[p].to = th[p].to

\* No process but p takes a step
OnlyMoves(p) == th' \in [Procs -> Locals] /\ \A q \in Procs : q # p => th'[q] = th[q]

-----------------------------------------------------------------------------
(* The inductive invariant                                                 *)

\* Where a thread is tells which of its locals are set
ThreadLocals ==
    /\ \A p \in Procs : th[p].pc = "idle" => th[p] = idle
    /\ \A t \in Threads :
          /\ th[t].pc \in Setting => th[t].new # NULL /\ th[t].nm = NULL
          /\ th[t].pc \in Clearing \cup {"not_entrant"} => th[t].nm # NULL
          /\ th[t].pc \in {"entry", "bind"} => th[t].new = NULL
    /\ th["sweeper"].pc \in Clearing \cup {"idle"}
    /\ th["sweeper"].new = NULL /\ th["sweeper"].nm = NULL

\* Compile_lock and Patching_lock have one holder
LocksExclusive ==
    /\ \A t, u \in Threads : th[t].new # NULL /\ th[u].new # NULL => t = u
    /\ \A p, q \in Procs : th[p].pc \in Clearing /\ th[q].pc \in Clearing => p = q

\* Code that a thread has locked or is about to make not entrant is there
NamedCodeKept == \A t \in Threads : th[t].nm # NULL => state[th[t].nm] # "free"

\* The code being installed: it is alive and the sweeper has not aged it
InstalledAlive ==
    \A t \in Threads : LET n == th[t].new IN
        n # NULL => state[n] = "in_use" \/ (state[n] = "not_entrant" /\ age[n] = 0)

\* Until set_code stores it, no thread names the code being installed
InstalledPrivate ==
    \A t \in Threads : LET n == th[t].new IN
        n # NULL /\ th[t].pc \notin {"set2", "set3"} =>
            state[n] = "in_use" /\ code # n /\ \A u \in Threads : th[u].nm # n

\* After its first store, set_code's value of _code is replaced by NULL only
CodeStored == \A t \in Threads : th[t].pc \in {"set2", "set3"} => code \in {th[t].new, NULL}

\* _code names code in use, or the code whose Method is being cleared
CodeInUse ==
    code # NULL => \/ state[code] = "in_use"
                   \/ \E t \in Threads : th[t].pc \in Clearing /\ th[t].nm = code

\* The other two words follow _code, but for what set_code has still to store
EntryFollowsCode ==
    code # NULL /\ ~PatchingLocked =>
        /\ fce = code \/ \E t \in Threads : th[t].pc = "set2"
        /\ fie = "i2c" \/ \E t \in Threads : th[t].pc \in {"set2", "set3"}

\* Without unloading, _from_compiled_entry names live code, or the zombie that
\* the sweeper is about to clear from the Method
EntryAlive ==
    ~flags.unloading /\ fce # NULL =>
        Alive(fce) \/ (state[fce] = "zombie" /\ th["sweeper"].pc = "clear1")

\* A thread that has locked the Method's code binds the call to that code
TargetLocked ==
    \A t \in Threads : LET l == th[t] IN
        l.pc = "bind" => /\ l.to # NULL
                         /\ l.nm # NULL /\ code = l.nm => l.to \in {l.nm, C2I}

\* A pinned site bound to a zombie is cleaned in the sweep that made it one
PinnedSiteCleaned ==
    pinned /\ site \in Slots =>
        state[site] # "free" /\ (state[site] = "zombie" => cursor > site)

IInv ==
    /\ TypeOK /\ ThreadLocals /\ LocksExclusive /\ NamedCodeKept
    /\ InstalledAlive /\ InstalledPrivate /\ CodeStored /\ CodeInUse
    /\ EntryFollowsCode /\ EntryAlive /\ TargetLocked /\ PinnedSiteCleaned

-----------------------------------------------------------------------------
(* The proof                                                               *)

\* What make_not_entrant leaves its caller with
LEMMA AfterLocals ==
  ASSUME TypeOK, NEW p \in Procs
  PROVE  /\ After(p) \in Locals
         /\ th[p].new = NULL => After(p) = idle
         /\ th[p].new # NULL => After(p).pc = "set1" /\ After(p).nm = NULL
         /\ After(p).new = th[p].new
<1>1. th[p] \in Locals
  BY DEF TypeOK
<1>2. idle \in Locals /\ idle.new = NULL
  BY DEF idle, Locals
<1>3. CASE th[p].new = NULL
  BY <1>2, <1>3 DEF After
<1>4. CASE th[p].new # NULL
  BY <1>1, <1>4 DEF After, Locals
<1> QED
  BY <1>3, <1>4

\* clear_code: _code is reset last, so while the clearing lasts nothing relies on
\* the other two words, and afterwards there is no code they must agree with
LEMMA ClearCodeInvariant ==
  ASSUME IInv, NEW p \in Procs, ClearCode(p)
  PROVE  IInv'
<1> USE DEF Procs, Clearing, Setting
<1> /\ TypeOK /\ ThreadLocals /\ LocksExclusive /\ NamedCodeKept
    /\ InstalledAlive /\ InstalledPrivate /\ CodeStored /\ CodeInUse
    /\ EntryFollowsCode /\ EntryAlive /\ TargetLocked /\ PinnedSiteCleaned
  BY DEF IInv
<1>a. OnlyMoves(p)
  <2>0. /\ [th[p] EXCEPT !.pc = "clear2"] \in Locals /\ [th[p] EXCEPT !.pc = "clear3"] \in Locals
        /\ After(p) \in Locals
    <3>1. th[p] \in Locals /\ After(p) \in Locals
      BY AfterLocals DEF TypeOK
    <3>2. /\ [th[p] EXCEPT !.pc = "clear2"] \in Locals /\ [th[p] EXCEPT !.pc = "clear3"] \in Locals
      BY <3>1 DEF Locals
    <3> QED
      BY <3>1, <3>2
  <2>1. \E r \in Locals : th' = [th EXCEPT ![p] = r]
    BY <2>0 DEF ClearCode
  <2> QED
    BY <2>1 DEF TypeOK, OnlyMoves
<1>b. UNCHANGED <<state, age, reclaim, owner, site, pinned, cursor, flags>>
  BY DEF ClearCode, codeVars
<1>c. \/ /\ th[p].pc = "clear1" /\ Moves(p, "clear2")
         /\ fce' = NULL /\ code' = code /\ fie' = fie
      \/ /\ th[p].pc = "clear2" /\ Moves(p, "clear3")
         /\ fie' = "i2i" /\ code' = code /\ fce' = fce
      \/ /\ th[p].pc = "clear3" /\ th'[p] = After(p)
         /\ code' = NULL /\ fce' = fce /\ fie' = fie
  BY DEF ClearCode, TypeOK, Locals, Moves
<1>d. /\ After(p).new = NULL => After(p) = idle
      /\ After(p).new # NULL => After(p).pc = "set1" /\ After(p).nm = NULL
      /\ After(p).new = th[p].new
  BY AfterLocals
<1>1. TypeOK'
  BY <1>a, <1>b, <1>c, <1>d DEF TypeOK, ThreadLocals, LocksExclusive, NamedCodeKept, Alive, Locals, Moves, OnlyMoves, idle
<1>2. ThreadLocals'
  BY <1>a, <1>b, <1>c, <1>d, <1>1 DEF TypeOK, ThreadLocals, LocksExclusive, NamedCodeKept, Moves, OnlyMoves, idle
<1>3. LocksExclusive'
  BY <1>a, <1>b, <1>c, <1>d, <1>1 DEF TypeOK, ThreadLocals, LocksExclusive, NamedCodeKept, Moves, OnlyMoves, idle
<1>4. NamedCodeKept'
  BY <1>a, <1>b, <1>c, <1>d, <1>1 DEF TypeOK, ThreadLocals, LocksExclusive, NamedCodeKept, Moves, OnlyMoves, idle
<1>5. InstalledAlive'
  BY <1>a, <1>b, <1>c, <1>d, <1>1 DEF TypeOK, ThreadLocals, LocksExclusive, NamedCodeKept, InstalledAlive, Moves, OnlyMoves, idle
<1>6. InstalledPrivate'
  <2> SUFFICES ASSUME NEW t \in Threads, th'[t].new # NULL, th'[t].pc \notin {"set2", "set3"}
               PROVE  /\ state'[th'[t].new] = "in_use" /\ code' # th'[t].new
                      /\ \A u \in Threads : th'[u].nm # th'[t].new
    BY DEF InstalledPrivate
  <2>1. th'[t].new = th[t].new /\ th[t].pc \notin {"set2", "set3"}
    BY <1>a, <1>c, <1>d DEF OnlyMoves, Moves
  <2>2. \A u \in Threads : th'[u].nm \in {th[u].nm, NULL}
    BY <1>a, <1>c, <1>d DEF OnlyMoves, Moves, idle
  <2>3. code' \in {code, NULL}
    BY <1>c
  <2> QED
    BY <2>1, <2>2, <2>3, <1>b DEF InstalledPrivate
<1>7. CodeStored'
  BY <1>a, <1>b, <1>c, <1>d, <1>1 DEF TypeOK, ThreadLocals, LocksExclusive, NamedCodeKept, CodeStored, Moves, OnlyMoves, idle
<1>8. CodeInUse'
  BY <1>a, <1>b, <1>c, <1>d, <1>1 DEF TypeOK, ThreadLocals, LocksExclusive, NamedCodeKept, CodeInUse, Moves, OnlyMoves, idle
<1>9. EntryFollowsCode'
  BY <1>a, <1>b, <1>c, <1>d, <1>1 DEF TypeOK, ThreadLocals, LocksExclusive, NamedCodeKept, EntryFollowsCode, PatchingLocked, Moves, OnlyMoves, idle
<1>10. EntryAlive'
  BY <1>a, <1>b, <1>c, <1>d, <1>1 DEF TypeOK, ThreadLocals, LocksExclusive, NamedCodeKept, EntryAlive, Alive, Moves, OnlyMoves, idle
<1>11. TargetLocked'
  BY <1>a, <1>b, <1>c, <1>d, <1>1 DEF TypeOK, ThreadLocals, LocksExclusive, NamedCodeKept, TargetLocked, Moves, OnlyMoves, idle
<1>12. PinnedSiteCleaned'
  BY <1>a, <1>b, <1>c, <1>d, <1>1 DEF TypeOK, ThreadLocals, LocksExclusive, NamedCodeKept, PinnedSiteCleaned, Moves, OnlyMoves, idle
<1> QED
  BY <1>1, <1>2, <1>3, <1>4, <1>5, <1>6, <1>7, <1>8, <1>9, <1>10, <1>11, <1>12 DEF IInv

\* make_not_entrant: code that leaves the state in_use is not the Method's code, or
\* its Method is cleared next under the same lock
LEMMA MakeNotEntrantInvariant ==
  ASSUME IInv, NEW t \in Threads, MakeNotEntrant(t)
  PROVE  IInv'
<1> USE DEF Procs, Clearing, Setting
<1> /\ TypeOK /\ ThreadLocals /\ LocksExclusive /\ NamedCodeKept
    /\ InstalledAlive /\ InstalledPrivate /\ CodeStored /\ CodeInUse
    /\ EntryFollowsCode /\ EntryAlive /\ TargetLocked /\ PinnedSiteCleaned
  BY DEF IInv
<1>0. th[t].nm \in Slots /\ th[t].pc = "not_entrant" /\ \A p \in Procs : th[p].pc \notin Clearing
  BY DEF MakeNotEntrant, ThreadLocals, TypeOK, Locals, PatchingLocked
<1>a. OnlyMoves(t)
  <2>1. \E r \in Locals : th' = [th EXCEPT ![t] = r]
    BY AfterLocals DEF MakeNotEntrant, TypeOK, Locals
  <2> QED
    BY <2>1 DEF TypeOK, OnlyMoves
<1>b. UNCHANGED <<reclaim, owner, code, fce, fie, site, pinned, cursor, flags>>
  BY DEF MakeNotEntrant, methodVars
<1>c. \/ state[th[t].nm] = "in_use" /\ Refers(th[t].nm) /\ Moves(t, "clear1")
      \/ (state[th[t].nm] = "in_use" => ~Refers(th[t].nm)) /\ th'[t] = After(t)
  BY DEF MakeNotEntrant, TypeOK, Locals, Moves
<1>d. /\ After(t).new = NULL => After(t) = idle
      /\ After(t).new # NULL => After(t).pc = "set1" /\ After(t).nm = NULL
      /\ After(t).new = th[t].new
  BY AfterLocals
<1>e. /\ state' \in [Slots -> {"free", "in_use", "not_entrant", "zombie", "unloaded"}]
      /\ age' \in [Slots -> 0..2]
      /\ \A n \in Slots : \/ state'[n] = state[n] /\ age'[n] = age[n]
                          \/ /\ n = th[t].nm /\ state[n] = "in_use"
                             /\ state'[n] = "not_entrant" /\ age'[n] = 0
      /\ state'[th[t].nm] # "in_use"
  <2>1. CASE state[th[t].nm] = "in_use"
    <3>1. /\ state' = [state EXCEPT ![th[t].nm] = "not_entrant"]
          /\ age' = [age EXCEPT ![th[t].nm] = 0]
      BY <2>1 DEF MakeNotEntrant
    <3> QED
      BY <1>0, <2>1, <3>1 DEF TypeOK
  <2>2. CASE state[th[t].nm] # "in_use"
    BY <1>0, <2>2 DEF MakeNotEntrant, TypeOK
  <2> QED
    BY <2>1, <2>2
<1>f. \A u \in Threads : /\ th'[u].nm \in {th[u].nm, NULL} /\ th'[u].new = th[u].new
                         /\ th'[u].pc \in {"set2", "set3"} <=> th[u].pc \in {"set2", "set3"}
  BY <1>0, <1>a, <1>c, <1>d DEF OnlyMoves, Moves, idle
<1>1. TypeOK'
  BY <1>0, <1>a, <1>b, <1>c, <1>d, <1>e, <1>f DEF TypeOK, ThreadLocals, LocksExclusive, NamedCodeKept, Alive, Locals, Moves, OnlyMoves, idle
<1>2. ThreadLocals'
  <2>1. th'[t].pc = "idle" => th'[t] = idle
    BY <1>c, <1>d DEF Moves
  <2>2. /\ th'[t].pc \in Setting => th'[t].new # NULL /\ th'[t].nm = NULL
        /\ th'[t].pc \in Clearing \cup {"not_entrant"} => th'[t].nm # NULL
        /\ th'[t].pc \in {"entry", "bind"} => th'[t].new = NULL
    BY <1>0, <1>c, <1>d DEF Moves, idle
  <2> QED
    BY <1>a, <2>1, <2>2 DEF ThreadLocals, OnlyMoves
<1>3. LocksExclusive'
  <2>1. \A p \in Procs : p # t => th'[p].pc \notin Clearing
    BY <1>0, <1>a DEF OnlyMoves
  <2> QED
    BY <1>f, <2>1 DEF LocksExclusive
<1>4. NamedCodeKept'
  BY <1>e, <1>f DEF NamedCodeKept, TypeOK, Locals
<1>5. InstalledAlive'
  BY <1>e, <1>f DEF InstalledAlive, TypeOK, Locals
<1>6. InstalledPrivate'
  BY <1>b, <1>e, <1>f DEF InstalledPrivate, TypeOK, Locals
<1>7. CodeStored'
  BY <1>0, <1>a, <1>b, <1>c, <1>d, <1>e, <1>f, <1>1 DEF TypeOK, ThreadLocals, LocksExclusive, NamedCodeKept, CodeStored, Moves, OnlyMoves, idle
<1>8. CodeInUse'
  BY <1>0, <1>a, <1>b, <1>c, <1>d, <1>e, <1>f, <1>1 DEF TypeOK, ThreadLocals, LocksExclusive, NamedCodeKept, CodeInUse, Moves, OnlyMoves, idle, Refers
<1>9. EntryFollowsCode'
  BY <1>0, <1>a, <1>b, <1>c, <1>d, <1>e, <1>f, <1>1 DEF TypeOK, ThreadLocals, LocksExclusive, NamedCodeKept, EntryFollowsCode, PatchingLocked, Moves, OnlyMoves, idle, Refers
<1>10. EntryAlive'
  BY <1>0, <1>a, <1>b, <1>c, <1>d, <1>e, <1>f, <1>1 DEF TypeOK, ThreadLocals, LocksExclusive, NamedCodeKept, EntryAlive, Alive, Moves, OnlyMoves, idle
<1>11. TargetLocked'
  BY <1>0, <1>a, <1>b, <1>c, <1>d, <1>e, <1>f, <1>1 DEF TypeOK, ThreadLocals, LocksExclusive, NamedCodeKept, TargetLocked, Moves, OnlyMoves, idle
<1>12. PinnedSiteCleaned'
  BY <1>0, <1>a, <1>b, <1>c, <1>d, <1>e, <1>f, <1>1 DEF TypeOK, ThreadLocals, LocksExclusive, NamedCodeKept, PinnedSiteCleaned, Moves, OnlyMoves, idle
<1> QED
  BY <1>1, <1>2, <1>3, <1>4, <1>5, <1>6, <1>7, <1>8, <1>9, <1>10, <1>11, <1>12 DEF IInv

\* A thread that names code to deoptimize does not name code before set_code has
LEMMA DeoptimizeInvariant ==
  ASSUME IInv, NEW t \in Threads, NEW n \in Slots, Deoptimize(t, n)
  PROVE  IInv'
<1> USE DEF Deoptimize, idle, codeVars, methodVars, Procs, Clearing, Setting
<1> /\ TypeOK /\ ThreadLocals /\ LocksExclusive /\ NamedCodeKept
    /\ InstalledAlive /\ InstalledPrivate /\ CodeStored /\ CodeInUse
    /\ EntryFollowsCode /\ EntryAlive /\ TargetLocked /\ PinnedSiteCleaned
  BY DEF IInv
<1>1. TypeOK'
  BY DEF TypeOK, ThreadLocals, LocksExclusive, NamedCodeKept, Alive, Locals
<1>2. ThreadLocals'
  BY DEF TypeOK, ThreadLocals, LocksExclusive, NamedCodeKept
<1>3. LocksExclusive'
  BY DEF TypeOK, ThreadLocals, LocksExclusive, NamedCodeKept
<1>4. NamedCodeKept'
  BY DEF TypeOK, ThreadLocals, LocksExclusive, NamedCodeKept
<1>5. InstalledAlive'
  BY DEF TypeOK, ThreadLocals, LocksExclusive, NamedCodeKept, InstalledAlive
<1>6. InstalledPrivate'
  BY DEF TypeOK, ThreadLocals, LocksExclusive, NamedCodeKept, InstalledPrivate
<1>7. CodeStored'
  BY DEF TypeOK, ThreadLocals, LocksExclusive, NamedCodeKept, CodeStored
<1>8. CodeInUse'
  BY DEF TypeOK, ThreadLocals, LocksExclusive, NamedCodeKept, CodeInUse
<1>9. EntryFollowsCode'
  BY DEF TypeOK, ThreadLocals, LocksExclusive, NamedCodeKept, EntryFollowsCode, PatchingLocked
<1>10. EntryAlive'
  BY DEF TypeOK, ThreadLocals, LocksExclusive, NamedCodeKept, EntryAlive, Alive
<1>11. TargetLocked'
  BY DEF TypeOK, ThreadLocals, LocksExclusive, NamedCodeKept, TargetLocked
<1>12. PinnedSiteCleaned'
  BY DEF TypeOK, ThreadLocals, LocksExclusive, NamedCodeKept, PinnedSiteCleaned
<1> QED
  BY <1>1, <1>2, <1>3, <1>4, <1>5, <1>6, <1>7, <1>8, <1>9, <1>10, <1>11, <1>12 DEF IInv

\* register_method: a free slot is named by no thread and is not the Method's code
LEMMA RegisterMethodInvariant ==
  ASSUME IInv, NEW t \in Threads, NEW n \in Slots, RegisterMethod(t, n)
  PROVE  IInv'
<1> USE DEF Procs, Clearing, Setting
<1> /\ TypeOK /\ ThreadLocals /\ LocksExclusive /\ NamedCodeKept
    /\ InstalledAlive /\ InstalledPrivate /\ CodeStored /\ CodeInUse
    /\ EntryFollowsCode /\ EntryAlive /\ TargetLocked /\ PinnedSiteCleaned
  BY DEF IInv
<1>0. /\ th[t] = idle /\ state[n] = "free" /\ \A u \in Threads : th[u].new = NULL
      /\ state' = [state EXCEPT ![n] = "in_use"] /\ owner' = owner \cup {n}
      /\ UNCHANGED <<age, reclaim, code, fce, fie, site, pinned, cursor, flags>>
  BY DEF RegisterMethod, CompileLocked, methodVars
<1>a. OnlyMoves(t)
  <2>1. /\ [idle EXCEPT !.pc = "set1", !.new = n] \in Locals
        /\ [idle EXCEPT !.pc = "not_entrant", !.new = n, !.nm = code] \in Locals
    BY DEF TypeOK, Locals, idle
  <2>2. \E r \in Locals : th' = [th EXCEPT ![t] = r]
    BY <2>1 DEF RegisterMethod
  <2> QED
    BY <2>2 DEF TypeOK, OnlyMoves
<1>b. /\ th'[t].new = n
      /\ \/ th'[t].pc = "not_entrant" /\ th'[t].nm = code /\ code # NULL
         \/ th'[t].pc = "set1" /\ th'[t].nm = NULL
  BY DEF RegisterMethod, TypeOK, idle
<1>c. code # n /\ \A u \in Threads : th[u].nm # n
  BY <1>0 DEF CodeInUse, NamedCodeKept, TypeOK
<1>d. code # NULL => state[code] # "free"
  BY DEF CodeInUse, NamedCodeKept, TypeOK
<1>1. TypeOK'
  BY <1>0, <1>a, <1>b, <1>c, <1>d DEF TypeOK, ThreadLocals, LocksExclusive, NamedCodeKept, Alive, Locals, OnlyMoves, idle
<1>2. ThreadLocals'
  BY <1>0, <1>a, <1>b, <1>c, <1>d, <1>1 DEF TypeOK, ThreadLocals, LocksExclusive, NamedCodeKept, OnlyMoves, idle
<1>3. LocksExclusive'
  BY <1>0, <1>a, <1>b, <1>c, <1>d, <1>1 DEF TypeOK, ThreadLocals, LocksExclusive, NamedCodeKept, OnlyMoves, idle
<1>4. NamedCodeKept'
  BY <1>0, <1>a, <1>b, <1>c, <1>d, <1>1 DEF TypeOK, ThreadLocals, LocksExclusive, NamedCodeKept, OnlyMoves, idle
<1>5. InstalledAlive'
  BY <1>0, <1>a, <1>b, <1>c, <1>d, <1>1 DEF TypeOK, ThreadLocals, LocksExclusive, NamedCodeKept, InstalledAlive, OnlyMoves, idle
<1>6. InstalledPrivate'
  <2>1. \A u \in Threads : u # t => th'[u].new = NULL /\ th'[u].nm # n
    BY <1>0, <1>a, <1>c DEF OnlyMoves
  <2>2. state'[n] = "in_use" /\ code' # n /\ th'[t].nm # n
    BY <1>0, <1>b, <1>c DEF TypeOK
  <2> QED
    BY <1>b, <2>1, <2>2 DEF InstalledPrivate
<1>7. CodeStored'
  BY <1>0, <1>a, <1>b, <1>c, <1>d, <1>1 DEF TypeOK, ThreadLocals, LocksExclusive, NamedCodeKept, CodeStored, OnlyMoves, idle
<1>8. CodeInUse'
  BY <1>0, <1>a, <1>b, <1>c, <1>d, <1>1 DEF TypeOK, ThreadLocals, LocksExclusive, NamedCodeKept, CodeInUse, OnlyMoves, idle
<1>9. EntryFollowsCode'
  <2>1. th[t].pc = "idle" /\ th'[t].pc \in {"not_entrant", "set1"}
    BY <1>0, <1>b DEF idle
  <2>2. \A p \in Procs : /\ th'[p].pc \in Clearing <=> th[p].pc \in Clearing
                         /\ th'[p].pc = "set2" <=> th[p].pc = "set2"
                         /\ th'[p].pc = "set3" <=> th[p].pc = "set3"
    BY <1>a, <2>1 DEF OnlyMoves
  <2> QED
    BY <1>0, <2>2 DEF EntryFollowsCode, PatchingLocked
<1>10. EntryAlive'
  BY <1>0, <1>a, <1>b, <1>c, <1>d, <1>1 DEF TypeOK, ThreadLocals, LocksExclusive, NamedCodeKept, EntryAlive, Alive, OnlyMoves, idle
<1>11. TargetLocked'
  BY <1>0, <1>a, <1>b, <1>c, <1>d, <1>1 DEF TypeOK, ThreadLocals, LocksExclusive, NamedCodeKept, TargetLocked, OnlyMoves, idle
<1>12. PinnedSiteCleaned'
  BY <1>0, <1>a, <1>b, <1>c, <1>d, <1>1 DEF TypeOK, ThreadLocals, LocksExclusive, NamedCodeKept, PinnedSiteCleaned, OnlyMoves, idle
<1> QED
  BY <1>1, <1>2, <1>3, <1>4, <1>5, <1>6, <1>7, <1>8, <1>9, <1>10, <1>11, <1>12 DEF IInv

\* set_code: the code it stores is in use, or was made not entrant since it stored
\* _code, and is then too young for the sweeper
LEMMA SetCodeInvariant ==
  ASSUME IInv, NEW t \in Threads, SetCode(t)
  PROVE  IInv'
<1> USE DEF Procs, Clearing, Setting
<1> /\ TypeOK /\ ThreadLocals /\ LocksExclusive /\ NamedCodeKept
    /\ InstalledAlive /\ InstalledPrivate /\ CodeStored /\ CodeInUse
    /\ EntryFollowsCode /\ EntryAlive /\ TargetLocked /\ PinnedSiteCleaned
  BY DEF IInv
<1>a. OnlyMoves(t)
  <2>1. th[t] \in Locals /\ idle \in Locals
    BY DEF TypeOK, Locals, idle
  <2>2. [th[t] EXCEPT !.pc = "set2"] \in Locals /\ [th[t] EXCEPT !.pc = "set3"] \in Locals
    BY <2>1 DEF Locals
  <2>3. \E r \in Locals : th' = [th EXCEPT ![t] = r]
    BY <2>1, <2>2 DEF SetCode
  <2> QED
    BY <2>3 DEF TypeOK, OnlyMoves
<1>b. UNCHANGED <<state, age, reclaim, owner, site, pinned, cursor, flags>>
  BY DEF SetCode, codeVars
<1>c. \/ /\ th[t].pc = "set1" /\ Moves(t, "set2")
         /\ code' = th[t].new /\ fce' = fce /\ fie' = fie
      \/ /\ th[t].pc = "set2" /\ Moves(t, "set3")
         /\ fce' = th[t].new /\ code' = code /\ fie' = fie
      \/ /\ th[t].pc = "set3" /\ th'[t] = idle
         /\ fie' = "i2c" /\ code' = code /\ fce' = fce
  BY DEF SetCode, TypeOK, Locals, Moves
<1>d. /\ th[t].new \in Slots /\ th[t].nm = NULL
      /\ \A u \in Threads : u # t => th[u].new = NULL /\ th[u].pc \notin Setting
  BY <1>c DEF ThreadLocals, LocksExclusive, TypeOK, Locals
<1>1. TypeOK'
  BY <1>a, <1>b, <1>c, <1>d DEF TypeOK, ThreadLocals, LocksExclusive, NamedCodeKept, Alive, Locals, Moves, OnlyMoves, idle
<1>2. ThreadLocals'
  <2>1. th'[t].pc = "idle" => th'[t] = idle
    BY <1>c DEF Moves
  <2>2. /\ th'[t].pc \in Setting => th'[t].new # NULL /\ th'[t].nm = NULL
        /\ th'[t].pc \notin Clearing \cup {"not_entrant", "entry", "bind"}
    BY <1>c, <1>d DEF Moves, idle
  <2>3. t # "sweeper"
    OBVIOUS
  <2> QED
    BY <1>a, <2>1, <2>2, <2>3 DEF ThreadLocals, OnlyMoves
<1>3. LocksExclusive'
  <2>1. th'[t].pc \notin Clearing /\ th'[t].new \in {th[t].new, NULL}
    BY <1>c DEF Moves, idle
  <2> QED
    BY <1>a, <1>d, <2>1 DEF LocksExclusive, OnlyMoves
<1>4. NamedCodeKept'
  BY <1>a, <1>b, <1>c, <1>d, <1>1 DEF TypeOK, ThreadLocals, LocksExclusive, NamedCodeKept, Moves, OnlyMoves, idle
<1>5. InstalledAlive'
  BY <1>a, <1>b, <1>c, <1>d, <1>1 DEF TypeOK, ThreadLocals, LocksExclusive, NamedCodeKept, InstalledAlive, Moves, OnlyMoves, idle
<1>6. InstalledPrivate'
  BY <1>a, <1>b, <1>c, <1>d, <1>1 DEF TypeOK, ThreadLocals, LocksExclusive, NamedCodeKept, InstalledPrivate, Moves, OnlyMoves, idle
<1>7. CodeStored'
  BY <1>a, <1>b, <1>c, <1>d, <1>1 DEF TypeOK, ThreadLocals, LocksExclusive, NamedCodeKept, CodeStored, Moves, OnlyMoves, idle
<1>8. CodeInUse'
  BY <1>a, <1>b, <1>c, <1>d, <1>1 DEF TypeOK, ThreadLocals, LocksExclusive, NamedCodeKept, CodeInUse, Moves, OnlyMoves, idle, InstalledPrivate
<1>9. EntryFollowsCode'
  BY <1>a, <1>b, <1>c, <1>d, <1>1 DEF TypeOK, ThreadLocals, LocksExclusive, NamedCodeKept, EntryFollowsCode, PatchingLocked, Moves, OnlyMoves, idle, CodeStored
<1>10. EntryAlive'
  BY <1>a, <1>b, <1>c, <1>d, <1>1 DEF TypeOK, ThreadLocals, LocksExclusive, NamedCodeKept, EntryAlive, Alive, Moves, OnlyMoves, idle, InstalledAlive
<1>11. TargetLocked'
  BY <1>a, <1>b, <1>c, <1>d, <1>1 DEF TypeOK, ThreadLocals, LocksExclusive, NamedCodeKept, TargetLocked, Moves, OnlyMoves, idle, InstalledPrivate
<1>12. PinnedSiteCleaned'
  BY <1>a, <1>b, <1>c, <1>d, <1>1 DEF TypeOK, ThreadLocals, LocksExclusive, NamedCodeKept, PinnedSiteCleaned, Moves, OnlyMoves, idle
<1> QED
  BY <1>1, <1>2, <1>3, <1>4, <1>5, <1>6, <1>7, <1>8, <1>9, <1>10, <1>11, <1>12 DEF IInv

\* resolve_sub_helper locks the Method's code, which is in use
LEMMA ResolveCalleeInvariant ==
  ASSUME IInv, NEW t \in Threads, ResolveCallee(t)
  PROVE  IInv'
<1> USE DEF ResolveCallee, InUse, idle, codeVars, methodVars, Procs, Clearing, Setting
<1> /\ TypeOK /\ ThreadLocals /\ LocksExclusive /\ NamedCodeKept
    /\ InstalledAlive /\ InstalledPrivate /\ CodeStored /\ CodeInUse
    /\ EntryFollowsCode /\ EntryAlive /\ TargetLocked /\ PinnedSiteCleaned
  BY DEF IInv
<1>1. TypeOK'
  BY DEF TypeOK, ThreadLocals, LocksExclusive, NamedCodeKept, Alive, Locals
<1>2. ThreadLocals'
  BY DEF TypeOK, ThreadLocals, LocksExclusive, NamedCodeKept
<1>3. LocksExclusive'
  BY DEF TypeOK, ThreadLocals, LocksExclusive, NamedCodeKept
<1>4. NamedCodeKept'
  BY DEF TypeOK, ThreadLocals, LocksExclusive, NamedCodeKept
<1>5. InstalledAlive'
  BY DEF TypeOK, ThreadLocals, LocksExclusive, NamedCodeKept, InstalledAlive
<1>6. InstalledPrivate'
  BY DEF TypeOK, ThreadLocals, LocksExclusive, NamedCodeKept, InstalledPrivate
<1>7. CodeStored'
  BY DEF TypeOK, ThreadLocals, LocksExclusive, NamedCodeKept, CodeStored
<1>8. CodeInUse'
  BY DEF TypeOK, ThreadLocals, LocksExclusive, NamedCodeKept, CodeInUse
<1>9. EntryFollowsCode'
  BY DEF TypeOK, ThreadLocals, LocksExclusive, NamedCodeKept, EntryFollowsCode, PatchingLocked
<1>10. EntryAlive'
  BY DEF TypeOK, ThreadLocals, LocksExclusive, NamedCodeKept, EntryAlive, Alive
<1>11. TargetLocked'
  BY DEF TypeOK, ThreadLocals, LocksExclusive, NamedCodeKept, TargetLocked
<1>12. PinnedSiteCleaned'
  BY DEF TypeOK, ThreadLocals, LocksExclusive, NamedCodeKept, PinnedSiteCleaned
<1> QED
  BY <1>1, <1>2, <1>3, <1>4, <1>5, <1>6, <1>7, <1>8, <1>9, <1>10, <1>11, <1>12 DEF IInv

\* compute_entry reads _code again: the target is the locked code if that is still
\* the Method's code
LEMMA ResolveEntryInvariant ==
  ASSUME IInv, NEW t \in Threads, ResolveEntry(t)
  PROVE  IInv'
<1> USE DEF ResolveEntry, InUse, idle, codeVars, methodVars, Procs, Clearing, Setting
<1> /\ TypeOK /\ ThreadLocals /\ LocksExclusive /\ NamedCodeKept
    /\ InstalledAlive /\ InstalledPrivate /\ CodeStored /\ CodeInUse
    /\ EntryFollowsCode /\ EntryAlive /\ TargetLocked /\ PinnedSiteCleaned
  BY DEF IInv
<1>1. TypeOK'
  <2>1. th[t] \in Locals
    BY DEF TypeOK
  <2>2. \A c \in Slots \cup {C2I} : [th[t] EXCEPT !.pc = "bind", !.to = c] \in Locals
    BY <2>1 DEF Locals
  <2>3. th' \in [Procs -> Locals]
    BY <2>2 DEF TypeOK
  <2> QED
    BY <2>3 DEF TypeOK, Alive
<1>2. ThreadLocals'
  BY DEF TypeOK, ThreadLocals, LocksExclusive, NamedCodeKept
<1>3. LocksExclusive'
  BY DEF TypeOK, ThreadLocals, LocksExclusive, NamedCodeKept
<1>4. NamedCodeKept'
  BY DEF TypeOK, ThreadLocals, LocksExclusive, NamedCodeKept
<1>5. InstalledAlive'
  BY DEF TypeOK, ThreadLocals, LocksExclusive, NamedCodeKept, InstalledAlive
<1>6. InstalledPrivate'
  BY DEF TypeOK, ThreadLocals, LocksExclusive, NamedCodeKept, InstalledPrivate
<1>7. CodeStored'
  BY DEF TypeOK, ThreadLocals, LocksExclusive, NamedCodeKept, CodeStored
<1>8. CodeInUse'
  BY DEF TypeOK, ThreadLocals, LocksExclusive, NamedCodeKept, CodeInUse
<1>9. EntryFollowsCode'
  BY DEF TypeOK, ThreadLocals, LocksExclusive, NamedCodeKept, EntryFollowsCode, PatchingLocked
<1>10. EntryAlive'
  BY DEF TypeOK, ThreadLocals, LocksExclusive, NamedCodeKept, EntryAlive, Alive
<1>11. TargetLocked'
  BY DEF TypeOK, ThreadLocals, LocksExclusive, NamedCodeKept, TargetLocked
<1>12. PinnedSiteCleaned'
  BY DEF TypeOK, ThreadLocals, LocksExclusive, NamedCodeKept, PinnedSiteCleaned
<1> QED
  BY <1>1, <1>2, <1>3, <1>4, <1>5, <1>6, <1>7, <1>8, <1>9, <1>10, <1>11, <1>12 DEF IInv

\* The site is bound to the locked code: it was the Method's code at both reads,
\* because code that has stopped to be is not installed again while it is locked
LEMMA ResolveBindInvariant ==
  ASSUME IInv, NEW t \in Threads, ResolveBind(t)
  PROVE  IInv'
<1> USE DEF ResolveBind, StillCurrent, InUse, idle, codeVars, methodVars, Procs, Clearing, Setting
<1> /\ TypeOK /\ ThreadLocals /\ LocksExclusive /\ NamedCodeKept
    /\ InstalledAlive /\ InstalledPrivate /\ CodeStored /\ CodeInUse
    /\ EntryFollowsCode /\ EntryAlive /\ TargetLocked /\ PinnedSiteCleaned
  BY DEF IInv
<1>1. TypeOK'
  BY DEF TypeOK, ThreadLocals, LocksExclusive, NamedCodeKept, Alive, Locals
<1>2. ThreadLocals'
  BY DEF TypeOK, ThreadLocals, LocksExclusive, NamedCodeKept
<1>3. LocksExclusive'
  BY DEF TypeOK, ThreadLocals, LocksExclusive, NamedCodeKept
<1>4. NamedCodeKept'
  BY DEF TypeOK, ThreadLocals, LocksExclusive, NamedCodeKept
<1>5. InstalledAlive'
  BY DEF TypeOK, ThreadLocals, LocksExclusive, NamedCodeKept, InstalledAlive
<1>6. InstalledPrivate'
  BY DEF TypeOK, ThreadLocals, LocksExclusive, NamedCodeKept, InstalledPrivate
<1>7. CodeStored'
  BY DEF TypeOK, ThreadLocals, LocksExclusive, NamedCodeKept, CodeStored
<1>8. CodeInUse'
  BY DEF TypeOK, ThreadLocals, LocksExclusive, NamedCodeKept, CodeInUse
<1>9. EntryFollowsCode'
  BY DEF TypeOK, ThreadLocals, LocksExclusive, NamedCodeKept, EntryFollowsCode, PatchingLocked
<1>10. EntryAlive'
  BY DEF TypeOK, ThreadLocals, LocksExclusive, NamedCodeKept, EntryAlive, Alive
<1>11. TargetLocked'
  BY DEF TypeOK, ThreadLocals, LocksExclusive, NamedCodeKept, TargetLocked
<1>12. PinnedSiteCleaned'
  <2>1. CASE StillCurrent(th[t].nm) /\ site = NULL /\ th[t].nm # NULL
    <3>1. site' \in {th[t].nm, C2I} /\ state[th[t].nm] = "in_use" /\ th[t].nm \in Slots
      BY <2>1 DEF TargetLocked, TypeOK, Locals
    <3> QED
      BY <2>1, <3>1 DEF PinnedSiteCleaned, TypeOK
  <2>2. CASE StillCurrent(th[t].nm) /\ site = NULL /\ th[t].nm = NULL
    BY <2>2 DEF PinnedSiteCleaned, TypeOK
  <2>3. CASE ~(StillCurrent(th[t].nm) /\ site = NULL)
    BY <2>3 DEF PinnedSiteCleaned, TypeOK
  <2> QED
    BY <2>1, <2>2, <2>3
<1> QED
  BY <1>1, <1>2, <1>3, <1>4, <1>5, <1>6, <1>7, <1>8, <1>9, <1>10, <1>11, <1>12 DEF IInv

\* A sweep starts at a safepoint, when no thread installs or clears code
LEMMA StartSweepInvariant ==
  ASSUME IInv, StartSweep
  PROVE  IInv'
<1> USE DEF StartSweep, AtSafepoint, idle, methodVars, Procs, Clearing, Setting
<1> /\ TypeOK /\ ThreadLocals /\ LocksExclusive /\ NamedCodeKept
    /\ InstalledAlive /\ InstalledPrivate /\ CodeStored /\ CodeInUse
    /\ EntryFollowsCode /\ EntryAlive /\ TargetLocked /\ PinnedSiteCleaned
  BY DEF IInv
<1>1. TypeOK'
  BY DEF TypeOK, ThreadLocals, LocksExclusive, NamedCodeKept, Alive, Locals
<1>2. ThreadLocals'
  BY DEF TypeOK, ThreadLocals, LocksExclusive, NamedCodeKept
<1>3. LocksExclusive'
  BY DEF TypeOK, ThreadLocals, LocksExclusive, NamedCodeKept
<1>4. NamedCodeKept'
  BY DEF TypeOK, ThreadLocals, LocksExclusive, NamedCodeKept
<1>5. InstalledAlive'
  BY DEF TypeOK, ThreadLocals, LocksExclusive, NamedCodeKept, InstalledAlive
<1>6. InstalledPrivate'
  BY DEF TypeOK, ThreadLocals, LocksExclusive, NamedCodeKept, InstalledPrivate
<1>7. CodeStored'
  BY DEF TypeOK, ThreadLocals, LocksExclusive, NamedCodeKept, CodeStored
<1>8. CodeInUse'
  BY DEF TypeOK, ThreadLocals, LocksExclusive, NamedCodeKept, CodeInUse
<1>9. EntryFollowsCode'
  BY DEF TypeOK, ThreadLocals, LocksExclusive, NamedCodeKept, EntryFollowsCode, PatchingLocked
<1>10. EntryAlive'
  BY DEF TypeOK, ThreadLocals, LocksExclusive, NamedCodeKept, EntryAlive, Alive
<1>11. TargetLocked'
  BY DEF TypeOK, ThreadLocals, LocksExclusive, NamedCodeKept, TargetLocked
<1>12. PinnedSiteCleaned'
  BY DEF TypeOK, ThreadLocals, LocksExclusive, NamedCodeKept, PinnedSiteCleaned
<1> QED
  BY <1>1, <1>2, <1>3, <1>4, <1>5, <1>6, <1>7, <1>8, <1>9, <1>10, <1>11, <1>12 DEF IInv

\* Unloading: at a safepoint, and the Method is cleared in the same step
LEMMA MakeUnloadedInvariant ==
  ASSUME IInv, NEW n \in Slots, MakeUnloaded(n)
  PROVE  IInv'
<1> USE DEF MakeUnloaded, AtSafepoint, CleanedSite, Alive, methodVars, Procs, Clearing, Setting
<1> /\ TypeOK /\ ThreadLocals /\ LocksExclusive /\ NamedCodeKept
    /\ InstalledAlive /\ InstalledPrivate /\ CodeStored /\ CodeInUse
    /\ EntryFollowsCode /\ EntryAlive /\ TargetLocked /\ PinnedSiteCleaned
  BY DEF IInv
<1>1. TypeOK'
  BY DEF TypeOK, ThreadLocals, LocksExclusive, NamedCodeKept, Alive, Locals
<1>2. ThreadLocals'
  BY DEF TypeOK, ThreadLocals, LocksExclusive, NamedCodeKept
<1>3. LocksExclusive'
  BY DEF TypeOK, ThreadLocals, LocksExclusive, NamedCodeKept
<1>4. NamedCodeKept'
  BY DEF TypeOK, ThreadLocals, LocksExclusive, NamedCodeKept
<1>5. InstalledAlive'
  BY DEF TypeOK, ThreadLocals, LocksExclusive, NamedCodeKept, InstalledAlive
<1>6. InstalledPrivate'
  BY DEF TypeOK, ThreadLocals, LocksExclusive, NamedCodeKept, InstalledPrivate
<1>7. CodeStored'
  BY DEF TypeOK, ThreadLocals, LocksExclusive, NamedCodeKept, CodeStored
<1>8. CodeInUse'
  BY DEF TypeOK, ThreadLocals, LocksExclusive, NamedCodeKept, CodeInUse
<1>9. EntryFollowsCode'
  BY DEF TypeOK, ThreadLocals, LocksExclusive, NamedCodeKept, EntryFollowsCode, PatchingLocked
<1>10. EntryAlive'
  BY DEF TypeOK, ThreadLocals, LocksExclusive, NamedCodeKept, EntryAlive, Alive
<1>11. TargetLocked'
  BY DEF TypeOK, ThreadLocals, LocksExclusive, NamedCodeKept, TargetLocked
<1>12. PinnedSiteCleaned'
  BY DEF TypeOK, ThreadLocals, LocksExclusive, NamedCodeKept, PinnedSiteCleaned
<1> QED
  BY <1>1, <1>2, <1>3, <1>4, <1>5, <1>6, <1>7, <1>8, <1>9, <1>10, <1>11, <1>12 DEF IInv

\* The end of a sweep cleans sites bound to code that is no longer in use
LEMMA SweepCallerInvariant ==
  ASSUME IInv, SweepCaller
  PROVE  IInv'
<1> USE DEF SweepCaller, CleanedSite, codeVars, methodVars, Procs, Clearing, Setting
<1> /\ TypeOK /\ ThreadLocals /\ LocksExclusive /\ NamedCodeKept
    /\ InstalledAlive /\ InstalledPrivate /\ CodeStored /\ CodeInUse
    /\ EntryFollowsCode /\ EntryAlive /\ TargetLocked /\ PinnedSiteCleaned
  BY DEF IInv
<1>1. TypeOK'
  BY DEF TypeOK, ThreadLocals, LocksExclusive, NamedCodeKept, Alive, Locals
<1>2. ThreadLocals'
  BY DEF TypeOK, ThreadLocals, LocksExclusive, NamedCodeKept
<1>3. LocksExclusive'
  BY DEF TypeOK, ThreadLocals, LocksExclusive, NamedCodeKept
<1>4. NamedCodeKept'
  BY DEF TypeOK, ThreadLocals, LocksExclusive, NamedCodeKept
<1>5. InstalledAlive'
  BY DEF TypeOK, ThreadLocals, LocksExclusive, NamedCodeKept, InstalledAlive
<1>6. InstalledPrivate'
  BY DEF TypeOK, ThreadLocals, LocksExclusive, NamedCodeKept, InstalledPrivate
<1>7. CodeStored'
  BY DEF TypeOK, ThreadLocals, LocksExclusive, NamedCodeKept, CodeStored
<1>8. CodeInUse'
  BY DEF TypeOK, ThreadLocals, LocksExclusive, NamedCodeKept, CodeInUse
<1>9. EntryFollowsCode'
  BY DEF TypeOK, ThreadLocals, LocksExclusive, NamedCodeKept, EntryFollowsCode, PatchingLocked
<1>10. EntryAlive'
  BY DEF TypeOK, ThreadLocals, LocksExclusive, NamedCodeKept, EntryAlive, Alive
<1>11. TargetLocked'
  BY DEF TypeOK, ThreadLocals, LocksExclusive, NamedCodeKept, TargetLocked
<1>12. PinnedSiteCleaned'
  BY DEF TypeOK, ThreadLocals, LocksExclusive, NamedCodeKept, PinnedSiteCleaned
<1> QED
  BY <1>1, <1>2, <1>3, <1>4, <1>5, <1>6, <1>7, <1>8, <1>9, <1>10, <1>11, <1>12 DEF IInv

\* A clean site is bound to no code
LEMMA CleanSiteInvariant ==
  ASSUME IInv, CleanSite
  PROVE  IInv'
<1> USE DEF CleanSite, codeVars, methodVars, Procs, Clearing, Setting
<1> /\ TypeOK /\ ThreadLocals /\ LocksExclusive /\ NamedCodeKept
    /\ InstalledAlive /\ InstalledPrivate /\ CodeStored /\ CodeInUse
    /\ EntryFollowsCode /\ EntryAlive /\ TargetLocked /\ PinnedSiteCleaned
  BY DEF IInv
<1>1. TypeOK'
  BY DEF TypeOK, ThreadLocals, LocksExclusive, NamedCodeKept, Alive, Locals
<1>2. ThreadLocals'
  BY DEF TypeOK, ThreadLocals, LocksExclusive, NamedCodeKept
<1>3. LocksExclusive'
  BY DEF TypeOK, ThreadLocals, LocksExclusive, NamedCodeKept
<1>4. NamedCodeKept'
  BY DEF TypeOK, ThreadLocals, LocksExclusive, NamedCodeKept
<1>5. InstalledAlive'
  BY DEF TypeOK, ThreadLocals, LocksExclusive, NamedCodeKept, InstalledAlive
<1>6. InstalledPrivate'
  BY DEF TypeOK, ThreadLocals, LocksExclusive, NamedCodeKept, InstalledPrivate
<1>7. CodeStored'
  BY DEF TypeOK, ThreadLocals, LocksExclusive, NamedCodeKept, CodeStored
<1>8. CodeInUse'
  BY DEF TypeOK, ThreadLocals, LocksExclusive, NamedCodeKept, CodeInUse
<1>9. EntryFollowsCode'
  BY DEF TypeOK, ThreadLocals, LocksExclusive, NamedCodeKept, EntryFollowsCode, PatchingLocked
<1>10. EntryAlive'
  BY DEF TypeOK, ThreadLocals, LocksExclusive, NamedCodeKept, EntryAlive, Alive
<1>11. TargetLocked'
  BY DEF TypeOK, ThreadLocals, LocksExclusive, NamedCodeKept, TargetLocked
<1>12. PinnedSiteCleaned'
  BY DEF TypeOK, ThreadLocals, LocksExclusive, NamedCodeKept, PinnedSiteCleaned
<1> QED
  BY <1>1, <1>2, <1>3, <1>4, <1>5, <1>6, <1>7, <1>8, <1>9, <1>10, <1>11, <1>12 DEF IInv

\* The sweeper frees only zombies that no thread has locked; the Method's code is
\* not among the code it makes a zombie
LEMMA SweepVisitInvariant ==
  ASSUME IInv, SweepVisit
  PROVE  IInv'
<1> USE DEF Procs, Clearing, Setting
<1> /\ TypeOK /\ ThreadLocals /\ LocksExclusive /\ NamedCodeKept
    /\ InstalledAlive /\ InstalledPrivate /\ CodeStored /\ CodeInUse
    /\ EntryFollowsCode /\ EntryAlive /\ TargetLocked /\ PinnedSiteCleaned
  BY DEF IInv
<1> DEFINE n == cursor
<1>0. /\ n \in Slots /\ th["sweeper"] = idle /\ cursor' = n + 1 /\ ("sweeper" \in Procs)
      /\ UNCHANGED <<code, fce, fie, site, pinned, flags>>
  BY DEF SweepVisit, methodVars
<1>a. OnlyMoves("sweeper")
  <2>1. idle \in Locals /\ [idle EXCEPT !.pc = "clear1"] \in Locals
    BY DEF Locals, idle
  <2>2. \E r \in Locals : th' = [th EXCEPT !["sweeper"] = r] \/ th' = th
    BY <2>1 DEF SweepVisit
  <2> QED
    BY <2>2 DEF TypeOK, OnlyMoves
<1>b. \/ /\ state[n] = "zombie" /\ n \in reclaim /\ \A t \in Threads : th[t].nm # n
         /\ state' = [state EXCEPT ![n] = "free"] /\ reclaim' = reclaim \ {n}
         /\ UNCHANGED <<age, owner, th>>
      \/ /\ state[n] = "zombie" /\ reclaim' = reclaim \cup {n} /\ UNCHANGED <<state, age, owner, th>>
      \/ /\ state[n] \in {"unloaded", "not_entrant"} /\ (state[n] = "not_entrant" => age[n] = 2)
         /\ \A p \in Procs : th[p].pc \notin Clearing
         /\ state' = [state EXCEPT ![n] = "zombie"] /\ age' = [age EXCEPT ![n] = 0]
         /\ owner' = owner \ {n} /\ reclaim' = reclaim
         /\ th'["sweeper"].new = NULL /\ th'["sweeper"].nm = NULL
         /\ \/ th'["sweeper"].pc = "clear1"
            \/ th'["sweeper"] = idle /\ (n \in owner => ~Refers(n))
      \/ UNCHANGED <<state, age, reclaim, owner, th>>
  <2>1. CASE state[n] = "zombie" /\ ~Locked(n)
    BY <2>1 DEF SweepVisit, Locked, codeVars
  <2>2. CASE state[n] \in {"unloaded", "not_entrant"} /\ ~Locked(n)
    BY <2>2 DEF SweepVisit, PatchingLocked, codeVars, TypeOK, idle
  <2>3. CASE state[n] \in {"free", "in_use"} \/ Locked(n)
    BY <2>3 DEF SweepVisit, codeVars
  <2> QED
    BY <1>0, <2>1, <2>2, <2>3 DEF TypeOK
<1>c. \A t \in Threads : th'[t] = th[t]
  BY <1>a DEF OnlyMoves
<1>d. \A m \in Slots :
         \/ state'[m] = state[m] /\ age'[m] = age[m]
         \/ m = n /\ state[m] = "zombie" /\ state'[m] = "free" /\ \A t \in Threads : th[t].nm # m
         \/ /\ m = n /\ state[m] \in {"unloaded", "not_entrant"} /\ state'[m] = "zombie"
            /\ state[m] = "not_entrant" => age[m] = 2
  BY <1>0, <1>b DEF TypeOK
<1> HIDE DEF n
<1>1. TypeOK'
  <2>1. state' \in [Slots -> {"free", "in_use", "not_entrant", "zombie", "unloaded"}]
        /\ age' \in [Slots -> 0..2]
    BY <1>0, <1>b DEF TypeOK
  <2>2. reclaim' \subseteq {m \in Slots : state'[m] = "zombie"}
    BY <1>0, <1>b DEF TypeOK
  <2>3. owner' = {m \in Slots : Alive(m)'}
    BY <1>0, <1>b DEF TypeOK, Alive
  <2> QED
    BY <1>0, <1>a, <2>1, <2>2, <2>3 DEF TypeOK, OnlyMoves, n
<1>2. ThreadLocals'
  BY <1>0, <1>a, <1>b, <1>1 DEF TypeOK, ThreadLocals, LocksExclusive, NamedCodeKept, OnlyMoves, idle, n
<1>3. LocksExclusive'
  <2>1. \A p, q \in Procs : th'[p].pc \in Clearing /\ th'[q].pc \in Clearing => p = q
    <3>1. CASE th'["sweeper"].pc \notin Clearing
      BY <1>c, <3>1 DEF LocksExclusive
    <3>2. CASE th'["sweeper"].pc \in Clearing
      BY <1>0, <1>b, <1>c, <3>2 DEF idle
    <3> QED
      BY <3>1, <3>2
  <2> QED
    BY <1>c, <2>1 DEF LocksExclusive
<1>4. NamedCodeKept'
  BY <1>c, <1>d DEF NamedCodeKept, TypeOK, Locals
<1>5. InstalledAlive'
  BY <1>c, <1>d DEF InstalledAlive, TypeOK, Locals
<1>6. InstalledPrivate'
  BY <1>0, <1>c, <1>d DEF InstalledPrivate, TypeOK, Locals
<1>7. CodeStored'
  BY <1>0, <1>a, <1>b, <1>1 DEF TypeOK, ThreadLocals, LocksExclusive, NamedCodeKept, CodeStored, OnlyMoves, idle, n
<1>8. CodeInUse'
  BY <1>0, <1>a, <1>b, <1>1 DEF TypeOK, ThreadLocals, LocksExclusive, NamedCodeKept, CodeInUse, OnlyMoves, idle, n
<1>9. EntryFollowsCode'
  BY <1>0, <1>a, <1>b, <1>1 DEF TypeOK, ThreadLocals, LocksExclusive, NamedCodeKept, EntryFollowsCode, PatchingLocked, OnlyMoves, idle, n
<1>10. EntryAlive'
  <2> SUFFICES ASSUME ~flags.unloading, fce \in Slots
               PROVE  Alive(fce)' \/ (state'[fce] = "zombie" /\ th'["sweeper"].pc = "clear1")
    BY <1>0 DEF EntryAlive, TypeOK, Alive
  <2>1. Alive(fce)
    BY <1>0 DEF EntryAlive, idle, TypeOK
  <2>2. CASE state'[fce] = state[fce]
    BY <2>1, <2>2, <1>0 DEF Alive
  <2>3. CASE state'[fce] # state[fce]
    <3>1. fce = n /\ state[n] = "not_entrant" /\ state'[fce] = "zombie" /\ n \in owner
      BY <1>0, <1>d, <2>1, <2>3 DEF Alive, TypeOK
    <3>2. Refers(n)
      BY <3>1 DEF Refers
    <3> QED
      BY <1>b, <3>1, <3>2, <2>3
  <2> QED
    BY <2>2, <2>3
<1>11. TargetLocked'
  BY <1>0, <1>a, <1>b, <1>1 DEF TypeOK, ThreadLocals, LocksExclusive, NamedCodeKept, TargetLocked, OnlyMoves, idle, n
<1>12. PinnedSiteCleaned'
  BY <1>0, <1>a, <1>b, <1>1 DEF TypeOK, ThreadLocals, LocksExclusive, NamedCodeKept, PinnedSiteCleaned, OnlyMoves, idle, n
<1> QED
  BY <1>1, <1>2, <1>3, <1>4, <1>5, <1>6, <1>7, <1>8, <1>9, <1>10, <1>11, <1>12 DEF IInv

\* The initial state: all slots are free and the Method is interpreted
LEMMA InitInvariant == Init => IInv
<1> SUFFICES ASSUME Init PROVE IInv
  OBVIOUS
<1> USE DEF Init, idle, Procs, Clearing, Setting
<1>1. TypeOK
  <2>1. th \in [Procs -> Locals]
    BY DEF Locals
  <2>2. owner = {n \in Slots : Alive(n)}
    BY DEF Alive
  <2>3. pinned \in BOOLEAN /\ fie \in {"i2c", "i2i"}
    BY Zenon
  <2>4. /\ state \in [Slots -> {"free", "in_use", "not_entrant", "zombie", "unloaded"}]
        /\ age \in [Slots -> 0..2] /\ reclaim \subseteq {n \in Slots : state[n] = "zombie"}
        /\ code \in Slots \cup {NULL} /\ fce \in Slots \cup {NULL} /\ site \in Slots \cup {NULL, C2I}
        /\ cursor \in 0..(N + 1) /\ flags \in CommandLines
    OBVIOUS
  <2> QED
    BY <2>1, <2>2, <2>3, <2>4 DEF TypeOK
<1>2. ThreadLocals /\ LocksExclusive /\ NamedCodeKept
  BY DEF ThreadLocals, LocksExclusive, NamedCodeKept
<1>3. InstalledAlive /\ InstalledPrivate /\ CodeStored /\ TargetLocked
  BY DEF InstalledAlive, InstalledPrivate, CodeStored, TargetLocked
<1>4. CodeInUse /\ EntryFollowsCode /\ EntryAlive /\ PinnedSiteCleaned
  BY DEF CodeInUse, EntryFollowsCode, EntryAlive, PinnedSiteCleaned
<1> QED
  BY <1>1, <1>2, <1>3, <1>4 DEF IInv

\* A step that changes no variable
LEMMA StutterInvariant ==
  ASSUME IInv, UNCHANGED vars
  PROVE  IInv'
  BY DEF vars, IInv, TypeOK, Alive, ThreadLocals, LocksExclusive, NamedCodeKept, InstalledAlive,
         InstalledPrivate, CodeStored, CodeInUse, EntryFollowsCode, PatchingLocked, EntryAlive,
         TargetLocked, PinnedSiteCleaned

\* Every step of the threads, the collector and the sweeper preserves the
\* inductive invariant
LEMMA NextInvariant == IInv /\ [Next]_vars => IInv'
<1> SUFFICES ASSUME IInv, [Next]_vars PROVE IInv'
  OBVIOUS
<1>1. CASE \E p \in Procs : ClearCode(p)
  BY <1>1, ClearCodeInvariant
<1>2. ASSUME NEW t \in Threads, Install(t) PROVE IInv'
  BY <1>2, RegisterMethodInvariant, SetCodeInvariant DEF Install
<1>3. ASSUME NEW t \in Threads, Resolve(t) PROVE IInv'
  BY <1>3, ResolveCalleeInvariant, ResolveEntryInvariant, ResolveBindInvariant DEF Resolve
<1>4. CASE \E t \in Threads : MakeNotEntrant(t) \/ \E n \in Slots : Deoptimize(t, n)
  BY <1>4, MakeNotEntrantInvariant, DeoptimizeInvariant
<1>5. CASE (\E n \in Slots : MakeUnloaded(n)) \/ CleanSite
  BY <1>5, MakeUnloadedInvariant, CleanSiteInvariant
<1>6. CASE Sweep
  BY <1>6, StartSweepInvariant, SweepVisitInvariant, SweepCallerInvariant DEF Sweep
<1>7. CASE UNCHANGED vars
  BY <1>7, StutterInvariant
<1> QED
  BY <1>1, <1>2, <1>3, <1>4, <1>5, <1>6, <1>7 DEF Next

-----------------------------------------------------------------------------
(* The theorems                                                            *)

\* The inductive invariant holds in every reachable state
THEOREM Invariance == Spec => []IInv
<1>1. Init => IInv
  BY InitInvariant
<1>2. IInv /\ [Next]_vars => IInv'
  BY NextInvariant
<1> QED
  BY <1>1, <1>2, PTL DEF Spec

\* Every variable keeps its type; a zombie or unloaded nmethod has no Method, so
\* make_zombie clears the Method of exactly the code that is still alive
THEOREM TypeCorrect == Spec => []TypeOK
<1>1. IInv => TypeOK
  BY DEF IInv
<1> QED
  BY <1>1, Invariance, PTL

\* However set_code and clear_code interleave, the code a Method names afterwards
\* is the code that its callers enter
THEOREM EntryPointsAgree == Spec => []CodeIsEntered
<1>1. ASSUME IInv PROVE CodeIsEntered
  <2> SUFFICES ASSUME \A p \in Procs : th[p].pc \in {"idle", "not_entrant", "entry", "bind"},
                      code # NULL
               PROVE  fce = code /\ fie = "i2c"
    BY DEF CodeIsEntered
  <2>1. ~PatchingLocked
    BY DEF PatchingLocked
  <2>2. \A t \in Threads : th[t].pc \notin {"set2", "set3"}
    BY DEF Procs
  <2> QED
    BY <1>1, <2>1, <2>2 DEF IInv, EntryFollowsCode
<1> QED
  BY <1>1, Invariance, PTL

\* Method::_code never refers to reclaimed code
THEOREM CodeSafe == Spec => []CodeNotFlushed
<1>1. IInv => CodeNotFlushed
  BY DEF IInv, CodeInUse, NamedCodeKept, CodeNotFlushed
<1> QED
  BY <1>1, Invariance, PTL

\* Without unloading, _from_compiled_entry never refers to reclaimed code, although
\* it may outlive _code
THEOREM EntrySafe == Spec => []EntryNotFlushed
<1>1. IInv => EntryNotFlushed
  BY DEF IInv, EntryAlive, Alive, EntryNotFlushed, EntryNotFlushedEver
<1> QED
  BY <1>1, Invariance, PTL

\* A call site bound while its callee was locked is never left bound to reclaimed
\* code
THEOREM PinnedSiteSafe == Spec => []PinnedSiteNotFlushed
<1>1. IInv => PinnedSiteNotFlushed
  BY DEF IInv, PinnedSiteCleaned, PinnedSiteNotFlushed
<1> QED
  BY <1>1, Invariance, PTL

=============================================================================
