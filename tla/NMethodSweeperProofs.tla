------------------------ MODULE NMethodSweeperProofs ------------------------
(***************************************************************************)
(* For every size of the code cache and every set of threads, the sweeper  *)
(* reclaims code only when no activation, call site or lock can reach it.  *)
(***************************************************************************)
EXTENDS NMethodSweeper, WellFoundedInduction, FiniteSetTheorems, TLAPS

USE CacheAssumption, FractionAssumption DEF Slots, NULL

\* The less-than relation on Nat, as a set of pairs
LessThan == {ss \in Nat \X Nat : ss[1] < ss[2]}

\* The order of code cache addresses is well founded
LEMMA LessThanWellFounded == IsWellFoundedOn(LessThan, Nat)
  BY NatLessThanWellFounded, Zenon DEF OpToRel, LessThan

\* A nonempty set of addresses has a lowest one
LEMMA MinExists ==
  ASSUME NEW S, S \subseteq Nat, S # {}
  PROVE  \E n \in S : \A m \in S : n <= m
<1>1. PICK x \in S : \A y \in S : ~ (<<y, x>> \in LessThan)
  BY LessThanWellFounded, WFMin
<1>2. ASSUME NEW y \in S PROVE x <= y
  <2>1. x \in Nat /\ y \in Nat
    BY <1>2
  <2>2. <<y, x>> \in Nat \X Nat /\ <<y, x>>[1] = y /\ <<y, x>>[2] = x
    BY <2>1
  <2>3. ~(<<y, x>> \in LessThan)
    BY <1>1, <1>2
  <2>4. ~(y < x)
    BY <2>1, <2>2, <2>3 DEF LessThan
  <2> QED
    BY <2>1, <2>4
<1> QED
  BY <1>2

\* first_nmethod and next_nmethod return the lowest address, or NULL
LEMMA FirstLowest ==
  ASSUME NEW S, S \subseteq Slots
  PROVE  /\ First(S) \in S \cup {NULL}
         /\ First(S) = NULL => S = {}
         /\ \A m \in S : First(S) <= m
<1>1. CASE S = {}
  BY <1>1 DEF First
<1>2. CASE S # {}
  <2> S \subseteq Nat
    OBVIOUS
  <2>1. \E n \in S : \A m \in S : n <= m
    BY <1>2, MinExists
  <2>2. First(S) \in S /\ \A m \in S : First(S) <= m
    BY <1>2, <2>1 DEF First
  <2> QED
    BY <2>2
<1> QED
  BY <1>1, <1>2

\* nof_nmethods() is a natural number
LEMMA AllocatedCount == Cardinality(Allocated) \in Nat
<1>1. IsFiniteSet(Slots)
  BY FS_Interval
<1>2. Allocated \subseteq Slots
  BY DEF Allocated
<1> QED
  BY <1>1, <1>2, FS_Subset, FS_CardinalityType

\* The share of the remaining code that one invocation sweeps
LEMMA QuotientNat == \A a \in Nat, b \in Nat \ {0} : a \div b \in Nat
  OBVIOUS

\* next_nmethod(n) is the first allocated slot after n
LEMMA NextSlot ==
  ASSUME NEW n \in Slots
  PROVE  /\ NextNMethod(n) \in Slots \cup {NULL}
         /\ NextNMethod(n) # NULL => state[NextNMethod(n)] # "free" /\ n < NextNMethod(n)
         /\ \A m \in Slots : n < m /\ state[m] # "free" =>
                NextNMethod(n) # NULL /\ NextNMethod(n) <= m
<1> DEFINE S == {m \in Allocated : m > n}
<1>1. S \subseteq Slots /\ NextNMethod(n) = First(S)
  BY DEF NextNMethod, Allocated
<1>2. /\ First(S) \in S \cup {NULL}
      /\ First(S) = NULL => S = {}
      /\ \A m \in S : First(S) <= m
  BY <1>1, FirstLowest
<1>3. \A m \in Slots : m \in S <=> n < m /\ state[m] # "free"
  BY DEF Allocated
<1> HIDE DEF S
<1> QED
  BY <1>1, <1>2, <1>3

\* What mark_active_nmethods does to the sweeper: nothing while a sweep is in
\* progress, otherwise a new sweep starts at the first nmethod
LEMMA MarkActive ==
  ASSUME TypeOK, MarkActiveNMethods
  PROVE  /\ age' \in [Slots -> 0..2]
         /\ current' \in Slots \cup {NULL}
         /\ seen' \in Nat
         /\ fractions' \in 0..NmethodSweepFraction
         /\ current # NULL => current' = current /\ fractions' = fractions
         /\ current = NULL => fractions' = NmethodSweepFraction
         /\ current = NULL /\ current' # NULL => state[current'] # "free"
         /\ current = NULL => \A c \in Slots : state[c] # "free" => current' <= c /\ current' # NULL
<1> DEFINE S == {n \in Slots : state[n] # "free"}
<1>1. /\ First(S) \in S \cup {NULL}
      /\ First(S) = NULL => S = {}
      /\ \A m \in S : First(S) <= m
  BY FirstLowest
<1>2. CASE current = NULL
  <2>1. current' = First(S) /\ seen' = 0 /\ fractions' = NmethodSweepFraction /\ age' = MarkActivations
    BY <1>2 DEF MarkActiveNMethods, Allocated
  <2>2. age' \in [Slots -> 0..2]
    BY <2>1 DEF MarkActivations
  <2>3. current' \in Slots \cup {NULL} /\ (current' # NULL => state[current'] # "free")
    BY <1>1, <2>1
  <2>4. \A c \in Slots : state[c] # "free" => current' <= c /\ current' # NULL
    BY <1>1, <2>1
  <2> QED
    BY <1>2, <2>1, <2>2, <2>3, <2>4
<1>3. CASE current # NULL
  BY <1>3 DEF TypeOK, MarkActiveNMethods
<1> QED
  BY <1>2, <1>3

\* The initial state satisfies the inductive invariant
LEMMA InitInvariant == Init => IInv
<1> SUFFICES ASSUME Init PROVE IInv
  OBVIOUS
<1> USE DEF Init
<1>1. TypeOK
  <2>1. res \in [Threads -> [pc : {"idle", "hold", "resolve", "patch"},
                            site : Slots \cup {NULL}, callee : Slots \cup {NULL}]]
    BY DEF idle
  <2>2. state \in [Slots -> States] /\ age \in [Slots -> 0..2] /\ ic \in [Slots -> Slots \cup {NULL}]
    BY DEF States
  <2>3. current \in Slots \cup {NULL} /\ seen \in Nat /\ fractions \in 0..NmethodSweepFraction
    OBVIOUS
  <2> QED
    BY <2>1, <2>2, <2>3 DEF TypeOK
<1>2. ActivationsFresh
  BY DEF ActivationsFresh, Alive
<1>3. ThreadsPinned
  BY DEF ThreadsPinned, idle
<1>4. SweeperDecided
  BY DEF SweeperDecided, Alive, Locked, LockedBy
<1>5. ReclaimedDead
  BY DEF ReclaimedDead, Locked, LockedBy
<1>6. CursorInSweep
  BY DEF CursorInSweep
<1>7. CursorValid
  BY DEF CursorValid
<1>8. CallSitesPending
  BY DEF CallSitesPending, Alive, Pending
<1>9. SkippedFresh
  BY DEF SkippedFresh, Alive
<1> QED
  BY <1>1, <1>2, <1>3, <1>4, <1>5, <1>6, <1>7, <1>8, <1>9 DEF IInv

\* A new nmethod is in use and its call site is clean
LEMMA NewNMethodInvariant ==
  ASSUME IInv, NEW n \in Slots, NEW b \in BOOLEAN, NewNMethod(n, b)
  PROVE  IInv'
<1> USE DEF NewNMethod, sweepVars
<1> /\ TypeOK /\ ActivationsFresh /\ ThreadsPinned /\ SweeperDecided /\ ReclaimedDead
    /\ CursorInSweep /\ CursorValid /\ CallSitesPending /\ SkippedFresh
  BY DEF IInv
<1>1. TypeOK'
  BY DEF TypeOK, States, idle
<1>2. ActivationsFresh'
  BY DEF TypeOK, States, ActivationsFresh, Alive
<1>3. ThreadsPinned'
  BY DEF TypeOK, States, ThreadsPinned, idle
<1>4. SweeperDecided'
  BY DEF TypeOK, States, SweeperDecided, Alive, Locked, LockedBy
<1>5. ReclaimedDead'
  BY DEF TypeOK, States, ReclaimedDead, Locked, LockedBy
<1>6. CursorInSweep'
  BY DEF TypeOK, States, CursorInSweep
<1>7. CursorValid'
  BY DEF TypeOK, States, CursorValid
<1>8. CallSitesPending'
  BY DEF TypeOK, States, CallSitesPending, Alive, Pending
<1>9. SkippedFresh'
  BY DEF TypeOK, States, SkippedFresh, Alive
<1> QED
  BY <1>1, <1>2, <1>3, <1>4, <1>5, <1>6, <1>7, <1>8, <1>9 DEF IInv

\* handle_full_code_cache only starts a sweep and stops compilation
LEMMA HandleFullCodeCacheInvariant ==
  ASSUME IInv, HandleFullCodeCache
  PROVE  IInv'
<1> USE DEF HandleFullCodeCache, CanSweep, StartSweep, codeVars, sweepVars
<1> /\ TypeOK /\ ActivationsFresh /\ ThreadsPinned /\ SweeperDecided /\ ReclaimedDead
    /\ CursorInSweep /\ CursorValid /\ CallSitesPending /\ SkippedFresh
  BY DEF IInv
<1>a. fractions' \in 0..NmethodSweepFraction /\ todo' \in Nat
  BY AllocatedCount DEF TypeOK
<1>1. TypeOK'
  BY <1>a DEF TypeOK
<1>2. ActivationsFresh'
  BY DEF TypeOK, States, ActivationsFresh, Alive
<1>3. ThreadsPinned'
  BY DEF TypeOK, States, ThreadsPinned, idle
<1>4. SweeperDecided'
  BY DEF TypeOK, States, SweeperDecided, Alive, Locked, LockedBy
<1>5. ReclaimedDead'
  BY DEF TypeOK, States, ReclaimedDead, Locked, LockedBy
<1>6. CursorInSweep'
  BY DEF TypeOK, States, CursorInSweep
<1>7. CursorValid'
  BY DEF TypeOK, States, CursorValid
<1>8. CallSitesPending'
  BY DEF TypeOK, States, CallSitesPending, Alive, Pending
<1>9. SkippedFresh'
  BY DEF TypeOK, States, SkippedFresh, Alive
<1> QED
  BY <1>1, <1>2, <1>3, <1>4, <1>5, <1>6, <1>7, <1>8, <1>9 DEF IInv

\* A call into code in use adds an activation of live code
LEMMA EnterInvariant ==
  ASSUME IInv, NEW n \in Slots, Enter(n)
  PROVE  IInv'
<1> USE DEF Enter, codeVars, sweepVars
<1> /\ TypeOK /\ ActivationsFresh /\ ThreadsPinned /\ SweeperDecided /\ ReclaimedDead
    /\ CursorInSweep /\ CursorValid /\ CallSitesPending /\ SkippedFresh
  BY DEF IInv
<1>1. TypeOK'
  BY DEF TypeOK, States, idle
<1>2. ActivationsFresh'
  BY DEF TypeOK, States, ActivationsFresh, Alive
<1>3. ThreadsPinned'
  BY DEF TypeOK, States, ThreadsPinned, idle
<1>4. SweeperDecided'
  BY DEF TypeOK, States, SweeperDecided, Alive, Locked, LockedBy
<1>5. ReclaimedDead'
  BY DEF TypeOK, States, ReclaimedDead, Locked, LockedBy
<1>6. CursorInSweep'
  BY DEF TypeOK, States, CursorInSweep
<1>7. CursorValid'
  BY DEF TypeOK, States, CursorValid
<1>8. CallSitesPending'
  BY DEF TypeOK, States, CallSitesPending, Alive, Pending
<1>9. SkippedFresh'
  BY DEF TypeOK, States, SkippedFresh, Alive
<1> QED
  BY <1>1, <1>2, <1>3, <1>4, <1>5, <1>6, <1>7, <1>8, <1>9 DEF IInv

\* A frame returns only when no thread resolves a call from it
LEMMA ReturnInvariant ==
  ASSUME IInv, NEW n \in Slots, Return(n)
  PROVE  IInv'
<1> USE DEF Return, codeVars, sweepVars
<1> /\ TypeOK /\ ActivationsFresh /\ ThreadsPinned /\ SweeperDecided /\ ReclaimedDead
    /\ CursorInSweep /\ CursorValid /\ CallSitesPending /\ SkippedFresh
  BY DEF IInv
<1>1. TypeOK'
  BY DEF TypeOK, States, idle
<1>2. ActivationsFresh'
  BY DEF TypeOK, States, ActivationsFresh, Alive
<1>3. ThreadsPinned'
  BY DEF TypeOK, States, ThreadsPinned, idle
<1>4. SweeperDecided'
  BY DEF TypeOK, States, SweeperDecided, Alive, Locked, LockedBy
<1>5. ReclaimedDead'
  BY DEF TypeOK, States, ReclaimedDead, Locked, LockedBy
<1>6. CursorInSweep'
  BY DEF TypeOK, States, CursorInSweep
<1>7. CursorValid'
  BY DEF TypeOK, States, CursorValid
<1>8. CallSitesPending'
  BY DEF TypeOK, States, CallSitesPending, Alive, Pending
<1>9. SkippedFresh'
  BY DEF TypeOK, States, SkippedFresh, Alive
<1> QED
  BY <1>1, <1>2, <1>3, <1>4, <1>5, <1>6, <1>7, <1>8, <1>9 DEF IInv

\* make_not_entrant marks the code as seen in this traversal
LEMMA MakeNotEntrantInvariant ==
  ASSUME IInv, NEW n \in Slots, MakeNotEntrant(n)
  PROVE  IInv'
<1> USE DEF MakeNotEntrant, sweepVars
<1> /\ TypeOK /\ ActivationsFresh /\ ThreadsPinned /\ SweeperDecided /\ ReclaimedDead
    /\ CursorInSweep /\ CursorValid /\ CallSitesPending /\ SkippedFresh
  BY DEF IInv
<1>1. TypeOK'
  BY DEF TypeOK, States, idle
<1>2. ActivationsFresh'
  BY DEF TypeOK, States, ActivationsFresh, Alive
<1>3. ThreadsPinned'
  BY DEF TypeOK, States, ThreadsPinned, idle
<1>4. SweeperDecided'
  BY DEF TypeOK, States, SweeperDecided, Alive, Locked, LockedBy
<1>5. ReclaimedDead'
  BY DEF TypeOK, States, ReclaimedDead, Locked, LockedBy
<1>6. CursorInSweep'
  BY DEF TypeOK, States, CursorInSweep
<1>7. CursorValid'
  BY DEF TypeOK, States, CursorValid
<1>8. CallSitesPending'
  BY DEF TypeOK, States, CallSitesPending, Alive, Pending
<1>9. SkippedFresh'
  BY DEF TypeOK, States, SkippedFresh, Alive
<1> QED
  BY <1>1, <1>2, <1>3, <1>4, <1>5, <1>6, <1>7, <1>8, <1>9 DEF IInv

\* nmethodLocker takes only live code, never what is marked for reclamation
LEMMA LockNMethodInvariant ==
  ASSUME IInv, NEW t \in Threads, NEW n \in Slots, LockNMethod(t, n)
  PROVE  IInv'
<1> USE DEF LockNMethod, Alive, idle, codeVars, sweepVars
<1> /\ TypeOK /\ ActivationsFresh /\ ThreadsPinned /\ SweeperDecided /\ ReclaimedDead
    /\ CursorInSweep /\ CursorValid /\ CallSitesPending /\ SkippedFresh
  BY DEF IInv
<1>1. TypeOK'
  BY DEF TypeOK, States, idle
<1>2. ActivationsFresh'
  BY DEF TypeOK, States, ActivationsFresh, Alive
<1>3. ThreadsPinned'
  BY DEF TypeOK, States, ThreadsPinned, idle
<1>4. SweeperDecided'
  BY DEF TypeOK, States, SweeperDecided, Alive, Locked, LockedBy
<1>5. ReclaimedDead'
  BY DEF TypeOK, States, ReclaimedDead, Locked, LockedBy
<1>6. CursorInSweep'
  BY DEF TypeOK, States, CursorInSweep
<1>7. CursorValid'
  BY DEF TypeOK, States, CursorValid
<1>8. CallSitesPending'
  BY DEF TypeOK, States, CallSitesPending, Alive, Pending
<1>9. SkippedFresh'
  BY DEF TypeOK, States, SkippedFresh, Alive
<1> QED
  BY <1>1, <1>2, <1>3, <1>4, <1>5, <1>6, <1>7, <1>8, <1>9 DEF IInv

\* Unlocking releases what the thread pinned
LEMMA UnlockNMethodInvariant ==
  ASSUME IInv, NEW t \in Threads, UnlockNMethod(t)
  PROVE  IInv'
<1> USE DEF UnlockNMethod, idle, codeVars, sweepVars
<1> /\ TypeOK /\ ActivationsFresh /\ ThreadsPinned /\ SweeperDecided /\ ReclaimedDead
    /\ CursorInSweep /\ CursorValid /\ CallSitesPending /\ SkippedFresh
  BY DEF IInv
<1>1. TypeOK'
  BY DEF TypeOK, States, idle
<1>2. ActivationsFresh'
  BY DEF TypeOK, States, ActivationsFresh, Alive
<1>3. ThreadsPinned'
  BY DEF TypeOK, States, ThreadsPinned, idle
<1>4. SweeperDecided'
  BY DEF TypeOK, States, SweeperDecided, Alive, Locked, LockedBy
<1>5. ReclaimedDead'
  BY DEF TypeOK, States, ReclaimedDead, Locked, LockedBy
<1>6. CursorInSweep'
  BY DEF TypeOK, States, CursorInSweep
<1>7. CursorValid'
  BY DEF TypeOK, States, CursorValid
<1>8. CallSitesPending'
  BY DEF TypeOK, States, CallSitesPending, Alive, Pending
<1>9. SkippedFresh'
  BY DEF TypeOK, States, SkippedFresh, Alive
<1> QED
  BY <1>1, <1>2, <1>3, <1>4, <1>5, <1>6, <1>7, <1>8, <1>9 DEF IInv

\* resolve_sub_helper locks a caller on the stack and a callee in use
LEMMA ResolveBeginInvariant ==
  ASSUME IInv, NEW t \in Threads, NEW c \in Slots, NEW n \in Slots, ResolveBegin(t, c, n)
  PROVE  IInv'
<1> USE DEF ResolveBegin, idle, codeVars, sweepVars
<1> /\ TypeOK /\ ActivationsFresh /\ ThreadsPinned /\ SweeperDecided /\ ReclaimedDead
    /\ CursorInSweep /\ CursorValid /\ CallSitesPending /\ SkippedFresh
  BY DEF IInv
<1>1. TypeOK'
  BY DEF TypeOK, States, idle
<1>2. ActivationsFresh'
  BY DEF TypeOK, States, ActivationsFresh, Alive
<1>3. ThreadsPinned'
  BY DEF TypeOK, States, ThreadsPinned, idle
<1>4. SweeperDecided'
  BY DEF TypeOK, States, SweeperDecided, ActivationsFresh, Alive, Locked, LockedBy
<1>5. ReclaimedDead'
  BY DEF TypeOK, States, ReclaimedDead, ActivationsFresh, Alive, Locked, LockedBy
<1>6. CursorInSweep'
  BY DEF TypeOK, States, CursorInSweep
<1>7. CursorValid'
  BY DEF TypeOK, States, CursorValid
<1>8. CallSitesPending'
  BY DEF TypeOK, States, CallSitesPending, Alive, Pending
<1>9. SkippedFresh'
  BY DEF TypeOK, States, SkippedFresh, Alive
<1> QED
  BY <1>1, <1>2, <1>3, <1>4, <1>5, <1>6, <1>7, <1>8, <1>9 DEF IInv

\* A site is about to be bound only to a callee that is still in use
LEMMA ResolveCheckInvariant ==
  ASSUME IInv, NEW t \in Threads, ResolveCheck(t)
  PROVE  IInv'
<1> USE DEF ResolveCheck, idle, codeVars, sweepVars
<1> /\ TypeOK /\ ActivationsFresh /\ ThreadsPinned /\ SweeperDecided /\ ReclaimedDead
    /\ CursorInSweep /\ CursorValid /\ CallSitesPending /\ SkippedFresh
  BY DEF IInv
<1>a. PICK r \in {idle, [res[t] EXCEPT !.pc = "patch"]} :
             /\ res' = [res EXCEPT ![t] = r]
             /\ r # idle => state[res[t].callee] = "in_use"
  OBVIOUS
<1>b. /\ r \in [pc : {"idle", "hold", "resolve", "patch"},
                site : Slots \cup {NULL}, callee : Slots \cup {NULL}]
      /\ r.pc \in {"idle", "patch"} /\ (r.pc = "idle" => r = idle)
      /\ r.pc = "patch" => r.site = res[t].site /\ r.callee = res[t].callee
      /\ \A n \in Slots : n \in {r.site, r.callee} => n \in {res[t].site, res[t].callee}
  BY <1>a DEF TypeOK, Slots, NULL
<1>c. \A n \in Slots : Locked(n)' => Locked(n)
  BY <1>a, <1>b DEF Locked, LockedBy, TypeOK
<1>1. TypeOK'
  BY <1>a, <1>b DEF TypeOK, States
<1>2. ActivationsFresh'
  BY DEF TypeOK, States, ActivationsFresh, Alive
<1>3. ThreadsPinned'
  BY <1>a, <1>b DEF TypeOK, States, ThreadsPinned
<1>4. SweeperDecided'
  BY <1>c DEF TypeOK, States, SweeperDecided, Alive
<1>5. ReclaimedDead'
  BY <1>c DEF TypeOK, States, ReclaimedDead
<1>6. CursorInSweep'
  BY DEF TypeOK, States, CursorInSweep
<1>7. CursorValid'
  BY DEF TypeOK, States, CursorValid
<1>8. CallSitesPending'
  BY DEF TypeOK, States, CallSitesPending, Alive, Pending
<1>9. SkippedFresh'
  BY DEF TypeOK, States, SkippedFresh, Alive
<1> QED
  BY <1>1, <1>2, <1>3, <1>4, <1>5, <1>6, <1>7, <1>8, <1>9 DEF IInv

\* The callee that a site is bound to is neither reclaimed nor an OSR nmethod
LEMMA ResolvePatchInvariant ==
  ASSUME IInv, NEW t \in Threads, ResolvePatch(t)
  PROVE  IInv'
<1> USE DEF ResolvePatch, idle, codeVars, sweepVars
<1> /\ TypeOK /\ ActivationsFresh /\ ThreadsPinned /\ SweeperDecided /\ ReclaimedDead
    /\ CursorInSweep /\ CursorValid /\ CallSitesPending /\ SkippedFresh
  BY DEF IInv
<1>a. /\ res[t].callee \in Slots /\ res[t].site \in Slots
      /\ res[t].callee \notin reclaim \cup osr
      /\ state[res[t].callee] # "free"
  BY DEF TypeOK, ThreadsPinned, ReclaimedDead
<1>b. ic' \in [Slots -> Slots \cup {NULL}] /\ \A c \in Slots : ic'[c] = ic[c] \/ ic'[c] = res[t].callee
  BY <1>a DEF TypeOK
<1>1. TypeOK'
  BY DEF TypeOK, States, idle
<1>2. ActivationsFresh'
  BY DEF TypeOK, States, ActivationsFresh, Alive
<1>3. ThreadsPinned'
  BY DEF TypeOK, States, ThreadsPinned, idle
<1>4. SweeperDecided'
  BY DEF TypeOK, States, SweeperDecided, Alive, Locked, LockedBy
<1>5. ReclaimedDead'
  BY DEF TypeOK, States, ReclaimedDead, Locked, LockedBy
<1>6. CursorInSweep'
  BY DEF TypeOK, States, CursorInSweep
<1>7. CursorValid'
  BY DEF TypeOK, States, CursorValid
<1>8. CallSitesPending'
  BY <1>a, <1>b DEF TypeOK, CallSitesPending, Alive, Pending
<1>9. SkippedFresh'
  BY <1>a, <1>b DEF TypeOK, SkippedFresh, Alive
<1> QED
  BY <1>1, <1>2, <1>3, <1>4, <1>5, <1>6, <1>7, <1>8, <1>9 DEF IInv

\* Cleaning a call site removes a reference
LEMMA CleanCallSiteInvariant ==
  ASSUME IInv, NEW c \in Slots, CleanCallSite(c)
  PROVE  IInv'
<1> USE DEF CleanCallSite, codeVars, sweepVars
<1> /\ TypeOK /\ ActivationsFresh /\ ThreadsPinned /\ SweeperDecided /\ ReclaimedDead
    /\ CursorInSweep /\ CursorValid /\ CallSitesPending /\ SkippedFresh
  BY DEF IInv
<1>1. TypeOK'
  BY DEF TypeOK, States, idle
<1>2. ActivationsFresh'
  BY DEF TypeOK, States, ActivationsFresh, Alive
<1>3. ThreadsPinned'
  BY DEF TypeOK, States, ThreadsPinned, idle
<1>4. SweeperDecided'
  BY DEF TypeOK, States, SweeperDecided, Alive, Locked, LockedBy
<1>5. ReclaimedDead'
  BY DEF TypeOK, States, ReclaimedDead, Locked, LockedBy
<1>6. CursorInSweep'
  BY DEF TypeOK, States, CursorInSweep
<1>7. CursorValid'
  BY DEF TypeOK, States, CursorValid
<1>8. CallSitesPending'
  BY DEF TypeOK, States, CallSitesPending, Alive, Pending
<1>9. SkippedFresh'
  BY DEF TypeOK, States, SkippedFresh, Alive
<1> QED
  BY <1>1, <1>2, <1>3, <1>4, <1>5, <1>6, <1>7, <1>8, <1>9 DEF IInv

\* A safepoint starts a new sweep only when the last one has visited all code
LEMMA SafepointInvariant ==
  ASSUME IInv, Safepoint
  PROVE  IInv'
<1> USE DEF Safepoint, MarkActiveNMethods, MarkActivations, AtSafepoint, ICLocked, LoopCond
<1> /\ TypeOK /\ ActivationsFresh /\ ThreadsPinned /\ SweeperDecided /\ ReclaimedDead
    /\ CursorInSweep /\ CursorValid /\ CallSitesPending /\ SkippedFresh
  BY DEF IInv
<1>a. /\ age' \in [Slots -> 0..2]
      /\ current' \in Slots \cup {NULL}
      /\ seen' \in Nat
      /\ fractions' \in 0..NmethodSweepFraction
  BY MarkActive
<1>b. /\ current # NULL => current' = current /\ fractions' = fractions
      /\ current = NULL => fractions' = NmethodSweepFraction
      /\ current = NULL /\ current' # NULL => state[current'] # "free"
      /\ current = NULL => \A c \in Slots : state[c] # "free" => current' <= c /\ current' # NULL
  BY MarkActive
<1>1. TypeOK'
  BY <1>a DEF TypeOK
<1>2. ActivationsFresh'
  BY DEF TypeOK, States, ActivationsFresh, Alive
<1>3. ThreadsPinned'
  BY DEF TypeOK, States, ThreadsPinned, idle
<1>4. SweeperDecided'
  BY DEF TypeOK, States, SweeperDecided, Alive, Locked, LockedBy
<1>5. ReclaimedDead'
  BY DEF TypeOK, States, ReclaimedDead, Locked, LockedBy
<1>6. CursorInSweep'
  BY <1>b DEF TypeOK, CursorInSweep, SweeperDecided
<1>7. CursorValid'
  BY <1>b DEF TypeOK, CursorValid
<1>8. CallSitesPending'
  BY <1>a, <1>b DEF TypeOK, CallSitesPending, ReclaimedDead, Alive, Pending
<1>9. SkippedFresh'
  BY DEF TypeOK, States, SkippedFresh, Alive
<1> QED
  BY <1>1, <1>2, <1>3, <1>4, <1>5, <1>6, <1>7, <1>8, <1>9 DEF IInv

\* The collector unloads live code that is off the stacks and not being scanned
LEMMA GCUnloadInvariant ==
  ASSUME IInv, NEW U \in SUBSET Slots, NEW old \in SUBSET Slots, GCUnload(U, old)
  PROVE  IInv'
<1> USE DEF GCUnload, MarkActiveNMethods, MarkActivations, AtSafepoint, ICLocked, LoopCond, Cleaned, Alive
<1> /\ TypeOK /\ ActivationsFresh /\ ThreadsPinned /\ SweeperDecided /\ ReclaimedDead
    /\ CursorInSweep /\ CursorValid /\ CallSitesPending /\ SkippedFresh
  BY DEF IInv
<1>a. /\ age' \in [Slots -> 0..2]
      /\ current' \in Slots \cup {NULL}
      /\ seen' \in Nat
      /\ fractions' \in 0..NmethodSweepFraction
  BY MarkActive
<1>b. /\ current # NULL => current' = current /\ fractions' = fractions
      /\ current = NULL => fractions' = NmethodSweepFraction
      /\ current = NULL /\ current' # NULL => state[current'] # "free"
      /\ current = NULL => \A c \in Slots : state[c] # "free" => current' <= c /\ current' # NULL
  BY MarkActive
<1>c. /\ state' \in [Slots -> States]
      /\ \A n \in Slots : state'[n] = state[n] \/ (Alive(n) /\ state'[n] = "unloaded" /\ n \notin act)
  BY DEF TypeOK, States
<1>d. /\ ic' \in [Slots -> Slots \cup {NULL}]
      /\ \A c \in Slots : ic'[c] = ic[c] \/ ic'[c] = NULL
  BY DEF TypeOK
<1>1. TypeOK'
  BY <1>a, <1>c, <1>d DEF TypeOK
<1>2. ActivationsFresh'
  BY DEF TypeOK, States, ActivationsFresh, Alive
<1>3. ThreadsPinned'
  BY DEF TypeOK, States, ThreadsPinned, idle
<1>4. SweeperDecided'
  BY DEF TypeOK, States, SweeperDecided, Alive, Locked, LockedBy
<1>5. ReclaimedDead'
  BY DEF TypeOK, States, ReclaimedDead, Locked, LockedBy
<1>6. CursorInSweep'
  BY <1>b DEF TypeOK, CursorInSweep, SweeperDecided
<1>7. CursorValid'
  BY <1>a, <1>b, <1>c DEF TypeOK, CursorValid
<1>8. CallSitesPending'
  BY <1>a, <1>b, <1>c, <1>d DEF TypeOK, CallSitesPending, ReclaimedDead, Pending
<1>9. SkippedFresh'
  BY DEF TypeOK, States, SkippedFresh, Alive
<1> QED
  BY <1>1, <1>2, <1>3, <1>4, <1>5, <1>6, <1>7, <1>8, <1>9 DEF IInv

\* possibly_sweep starts an invocation with a valid share of the code
LEMMA PossiblySweepInvariant ==
  ASSUME IInv, PossiblySweep
  PROVE  IInv'
<1> USE DEF PossiblySweep, CanSweep, StartSweep, codeVars
<1> /\ TypeOK /\ ActivationsFresh /\ ThreadsPinned /\ SweeperDecided /\ ReclaimedDead
    /\ CursorInSweep /\ CursorValid /\ CallSitesPending /\ SkippedFresh
  BY DEF IInv
<1>a. fractions' \in 1..NmethodSweepFraction /\ todo' \in Nat
  <2> Cardinality(Allocated) \in Nat
    BY AllocatedCount
  <2> HIDE DEF Allocated
  <2>1. CASE stopped
    BY <2>1 DEF TypeOK
  <2>2. CASE ~stopped
    <3>1. fractions' = fractions /\ fractions \in Nat \ {0} /\ seen \in Nat
      BY <2>2 DEF TypeOK
    <3>2. todo' = IF Cardinality(Allocated) > seen
                  THEN (Cardinality(Allocated) - seen) \div fractions ELSE 0
      BY <2>2
    <3>3. todo' \in Nat
      BY <3>1, <3>2, QuotientNat
    <3> QED
      BY <3>1, <3>3 DEF TypeOK
  <2> QED
    BY <2>1, <2>2
<1>1. TypeOK'
  <2>1. fractions' \in 0..NmethodSweepFraction
    BY <1>a
  <2> QED
    BY <1>a, <2>1 DEF TypeOK
<1>2. ActivationsFresh'
  BY DEF TypeOK, States, ActivationsFresh, Alive
<1>3. ThreadsPinned'
  BY DEF TypeOK, States, ThreadsPinned, idle
<1>4. SweeperDecided'
  BY DEF TypeOK, States, SweeperDecided, Alive, Locked, LockedBy
<1>5. ReclaimedDead'
  BY DEF TypeOK, States, ReclaimedDead, Locked, LockedBy
<1>6. CursorInSweep'
  BY DEF TypeOK, States, CursorInSweep
<1>7. CursorValid'
  BY DEF TypeOK, States, CursorValid
<1>8. CallSitesPending'
  BY DEF TypeOK, States, CallSitesPending, Alive, Pending
<1>9. SkippedFresh'
  BY DEF TypeOK, States, SkippedFresh, Alive
<1> QED
  BY <1>1, <1>2, <1>3, <1>4, <1>5, <1>6, <1>7, <1>8, <1>9 DEF IInv

\* process_nmethod decides what to do with the code under the cursor
LEMMA SweepVisitInvariant ==
  ASSUME IInv, SweepVisit
  PROVE  IInv'
<1> USE DEF SweepVisit, LoopCond, Await, Advance, Locked, LockedBy, Alive, NextNMethod, Allocated
<1> /\ TypeOK /\ ActivationsFresh /\ ThreadsPinned /\ SweeperDecided /\ ReclaimedDead
    /\ CursorInSweep /\ CursorValid /\ CallSitesPending /\ SkippedFresh
  BY DEF IInv
<1>a. current \in Slots
  BY DEF TypeOK
<1> DEFINE nx == NextNMethod(current)
<1>b. /\ nx \in Slots \cup {NULL}
      /\ nx # NULL => state[nx] # "free" /\ current < nx
      /\ \A m \in Slots : current < m /\ state[m] # "free" => nx # NULL /\ nx <= m
  BY <1>a, NextSlot
<1>c. /\ state' \in [Slots -> States] /\ age' \in [Slots -> 0..2]
      /\ \/ state' = state /\ age' = age
         \/ /\ state[current] = "in_use" /\ spc' = "clean"
            /\ state' = [state EXCEPT ![current] = "not_entrant"]
            /\ age' = [age EXCEPT ![current] = 0]
  <2>1. \/ state' = state /\ age' = age
        \/ /\ state[current] = "in_use" /\ spc' = "clean"
           /\ state' = [state EXCEPT ![current] = "not_entrant"]
           /\ age' = [age EXCEPT ![current] = 0]
    OBVIOUS
  <2>2. state' \in [Slots -> States]
    BY <1>a, <2>1 DEF TypeOK, States
  <2>3. age' \in [Slots -> 0..2]
    BY <1>a, <2>1 DEF TypeOK
  <2> QED
    BY <2>1, <2>2, <2>3
<1>d. \/ /\ spc' \in {"clean", "zombify", "release"} /\ next' = nx
         /\ UNCHANGED <<current, seen, todo, reclaim>>
      \/ /\ spc' = "loop" /\ next' = NULL /\ current' = nx /\ seen' = seen + 1
         /\ todo' = (IF todo > 0 THEN todo - 1 ELSE 0)
         /\ state' = state /\ ~Alive(current)
         /\ \/ reclaim' = reclaim /\ Locked(current)
            \/ /\ reclaim' = reclaim \cup {current}
               /\ state[current] = "zombie" /\ ~Locked(current)
  OBVIOUS
<1> HIDE DEF nx, NextNMethod
<1>1. TypeOK'
  <2>1. CASE UNCHANGED <<current, seen, todo, reclaim>> /\ next' = nx
    BY <1>b, <1>c, <1>d, <2>1 DEF TypeOK
  <2>2. CASE current' = nx /\ next' = NULL /\ seen' = seen + 1
             /\ todo' = (IF todo > 0 THEN todo - 1 ELSE 0) /\ reclaim' \subseteq Slots /\ spc' = "loop"
    BY <1>b, <1>c, <2>2 DEF TypeOK
  <2>3. reclaim' \subseteq Slots
    BY <1>a, <1>d DEF TypeOK
  <2> QED
    BY <1>d, <2>1, <2>2, <2>3
<1>2. ActivationsFresh'
  BY DEF TypeOK, States, ActivationsFresh, Alive
<1>3. ThreadsPinned'
  BY DEF TypeOK, States, ThreadsPinned, idle
<1>4. SweeperDecided'
  BY DEF TypeOK, States, SweeperDecided, Alive, Locked, LockedBy
<1>5. ReclaimedDead'
  <2>1. \A n \in reclaim' : n \in reclaim \/ (n = current /\ state' = state /\ state[n] = "zombie" /\ ~Locked(n))
    BY <1>d
  <2>2. \A n \in reclaim : state'[n] = "zombie"
    BY <1>a, <1>c DEF TypeOK, ReclaimedDead
  <2> QED
    BY <2>1, <2>2 DEF ReclaimedDead
<1>6. CursorInSweep'
  BY <1>b, <1>d DEF CursorInSweep
<1>7. CursorValid'
  BY <1>a, <1>b, <1>c, <1>d DEF TypeOK, CursorValid, CursorInSweep
<1>8. CallSitesPending'
  BY <1>a, <1>b, <1>c, <1>d DEF TypeOK, CallSitesPending, ReclaimedDead, Pending
<1>9. SkippedFresh'
  BY <1>a, <1>b, <1>c, <1>d DEF TypeOK, SkippedFresh
<1> QED
  BY <1>1, <1>2, <1>3, <1>4, <1>5, <1>6, <1>7, <1>8, <1>9 DEF IInv

\* Cleaning the caches of the visited code leaves it no site bound to reclaimed code
LEMMA SweepCleanInvariant ==
  ASSUME IInv, NEW old \in SUBSET Slots, SweepClean(old)
  PROVE  IInv'
<1> USE DEF SweepClean, ICLocked, Cleaned, Advance, codeVars
<1> /\ TypeOK /\ ActivationsFresh /\ ThreadsPinned /\ SweeperDecided /\ ReclaimedDead
    /\ CursorInSweep /\ CursorValid /\ CallSitesPending /\ SkippedFresh
  BY DEF IInv
<1>a. /\ seen' \in Nat /\ todo' \in Nat /\ current' \in Slots \cup {NULL} /\ current \in Slots
  BY DEF TypeOK, SweeperDecided
<1>1. TypeOK'
  BY <1>a DEF TypeOK, States
<1>2. ActivationsFresh'
  BY DEF TypeOK, States, ActivationsFresh, Alive
<1>3. ThreadsPinned'
  BY DEF TypeOK, States, ThreadsPinned, idle
<1>4. SweeperDecided'
  BY DEF TypeOK, States, SweeperDecided, Alive, Locked, LockedBy
<1>5. ReclaimedDead'
  BY DEF TypeOK, States, ReclaimedDead, Locked, LockedBy
<1>6. CursorInSweep'
  BY DEF TypeOK, States, CursorInSweep
<1>7. CursorValid'
  BY <1>a DEF TypeOK, States, CursorInSweep, CursorValid
<1>8. CallSitesPending'
  BY <1>a DEF TypeOK, States, CallSitesPending, SkippedFresh, ReclaimedDead, SweeperDecided, CursorInSweep, Alive, Pending
<1>9. SkippedFresh'
  BY DEF TypeOK, States, SkippedFresh, Alive
<1> QED
  BY <1>1, <1>2, <1>3, <1>4, <1>5, <1>6, <1>7, <1>8, <1>9 DEF IInv

\* The code made a zombie has no activation and no thread about to bind to it
LEMMA SweepZombifyInvariant ==
  ASSUME IInv, NEW old \in SUBSET Slots, SweepZombify(old)
  PROVE  IInv'
<1> USE DEF SweepZombify, ICLocked, Cleaned, Advance
<1> /\ TypeOK /\ ActivationsFresh /\ ThreadsPinned /\ SweeperDecided /\ ReclaimedDead
    /\ CursorInSweep /\ CursorValid /\ CallSitesPending /\ SkippedFresh
  BY DEF IInv
<1>a. /\ seen' \in Nat /\ todo' \in Nat /\ current' \in Slots \cup {NULL} /\ current \in Slots
  BY DEF TypeOK, SweeperDecided
<1>1. TypeOK'
  BY <1>a DEF TypeOK, States
<1>2. ActivationsFresh'
  BY <1>a DEF TypeOK, States, SweeperDecided, ActivationsFresh, Alive
<1>3. ThreadsPinned'
  BY <1>a DEF TypeOK, States, SweeperDecided, ThreadsPinned, idle
<1>4. SweeperDecided'
  BY DEF TypeOK, States, SweeperDecided, Alive, Locked, LockedBy
<1>5. ReclaimedDead'
  BY DEF TypeOK, States, ReclaimedDead, Locked, LockedBy
<1>6. CursorInSweep'
  BY DEF TypeOK, States, CursorInSweep
<1>7. CursorValid'
  BY <1>a DEF TypeOK, States, CursorInSweep, CursorValid
<1>8. CallSitesPending'
  BY <1>a DEF TypeOK, States, CallSitesPending, SkippedFresh, ReclaimedDead, SweeperDecided, CursorInSweep, Alive, Pending
<1>9. SkippedFresh'
  BY DEF TypeOK, States, SkippedFresh, Alive
<1> QED
  BY <1>1, <1>2, <1>3, <1>4, <1>5, <1>6, <1>7, <1>8, <1>9 DEF IInv

\* The flushed code has no activation, no lock and no live call site bound to it
LEMMA SweepReleaseInvariant ==
  ASSUME IInv, SweepRelease
  PROVE  IInv'
<1> USE DEF SweepRelease, ICLocked, Advance
<1> /\ TypeOK /\ ActivationsFresh /\ ThreadsPinned /\ SweeperDecided /\ ReclaimedDead
    /\ CursorInSweep /\ CursorValid /\ CallSitesPending /\ SkippedFresh
  BY DEF IInv
<1>a. /\ seen' \in Nat /\ todo' \in Nat /\ current' \in Slots \cup {NULL} /\ current \in Slots
  BY DEF TypeOK, SweeperDecided
<1>1. TypeOK'
  BY <1>a DEF TypeOK, States
<1>2. ActivationsFresh'
  BY <1>a DEF TypeOK, States, SweeperDecided, ActivationsFresh, Alive
<1>3. ThreadsPinned'
  BY <1>a DEF TypeOK, States, SweeperDecided, Locked, LockedBy, ThreadsPinned, idle
<1>4. SweeperDecided'
  BY DEF TypeOK, States, SweeperDecided, Alive, Locked, LockedBy
<1>5. ReclaimedDead'
  BY DEF TypeOK, States, ReclaimedDead, Locked, LockedBy
<1>6. CursorInSweep'
  BY DEF TypeOK, States, CursorInSweep
<1>7. CursorValid'
  BY <1>a DEF TypeOK, States, CursorInSweep, CursorValid
<1>8. CallSitesPending'
  BY <1>a DEF TypeOK, States, CallSitesPending, SkippedFresh, ReclaimedDead, SweeperDecided, CursorInSweep, Alive, Pending
<1>9. SkippedFresh'
  BY DEF TypeOK, States, SkippedFresh, Alive
<1> QED
  BY <1>1, <1>2, <1>3, <1>4, <1>5, <1>6, <1>7, <1>8, <1>9 DEF IInv

\* The end of an invocation keeps one for code that is not visited yet
LEMMA SweepDoneInvariant ==
  ASSUME IInv, SweepDone
  PROVE  IInv'
<1> USE DEF SweepDone, LoopCond, codeVars
<1> /\ TypeOK /\ ActivationsFresh /\ ThreadsPinned /\ SweeperDecided /\ ReclaimedDead
    /\ CursorInSweep /\ CursorValid /\ CallSitesPending /\ SkippedFresh
  BY DEF IInv
<1>1. TypeOK'
  <2>1. fractions' \in 0..NmethodSweepFraction
    BY DEF TypeOK, CursorInSweep
  <2>2. stopped' \in BOOLEAN /\ freed' \in BOOLEAN
    OBVIOUS
  <2> QED
    BY <2>1, <2>2 DEF TypeOK
<1>2. ActivationsFresh'
  BY DEF TypeOK, States, ActivationsFresh, Alive
<1>3. ThreadsPinned'
  BY DEF TypeOK, States, ThreadsPinned, idle
<1>4. SweeperDecided'
  BY DEF TypeOK, States, SweeperDecided, Alive, Locked, LockedBy
<1>5. ReclaimedDead'
  BY DEF TypeOK, States, ReclaimedDead, Locked, LockedBy
<1>6. CursorInSweep'
  BY DEF TypeOK, States, CursorInSweep
<1>7. CursorValid'
  BY DEF TypeOK, States, CursorValid
<1>8. CallSitesPending'
  BY DEF TypeOK, States, CallSitesPending, Alive, Pending
<1>9. SkippedFresh'
  BY DEF TypeOK, States, SkippedFresh, Alive
<1> QED
  BY <1>1, <1>2, <1>3, <1>4, <1>5, <1>6, <1>7, <1>8, <1>9 DEF IInv

\* A step that changes no variable
LEMMA StutterInvariant ==
  ASSUME IInv, UNCHANGED vars
  PROVE  IInv'
<1> USE DEF vars
<1> /\ TypeOK /\ ActivationsFresh /\ ThreadsPinned /\ SweeperDecided /\ ReclaimedDead
    /\ CursorInSweep /\ CursorValid /\ CallSitesPending /\ SkippedFresh
  BY DEF IInv
<1>1. TypeOK'
  BY DEF TypeOK, States, idle
<1>2. ActivationsFresh'
  BY DEF TypeOK, States, ActivationsFresh, Alive
<1>3. ThreadsPinned'
  BY DEF TypeOK, States, ThreadsPinned, idle
<1>4. SweeperDecided'
  BY DEF TypeOK, States, SweeperDecided, Alive, Locked, LockedBy
<1>5. ReclaimedDead'
  BY DEF TypeOK, States, ReclaimedDead, Locked, LockedBy
<1>6. CursorInSweep'
  BY DEF TypeOK, States, CursorInSweep
<1>7. CursorValid'
  BY DEF TypeOK, States, CursorValid
<1>8. CallSitesPending'
  BY DEF TypeOK, States, CallSitesPending, Alive, Pending
<1>9. SkippedFresh'
  BY DEF TypeOK, States, SkippedFresh, Alive
<1> QED
  BY <1>1, <1>2, <1>3, <1>4, <1>5, <1>6, <1>7, <1>8, <1>9 DEF IInv

\* Every step of the code cache, the threads, the collector and the sweeper
\* preserves the inductive invariant
LEMMA NextInvariant == IInv /\ [Next]_vars => IInv'
<1> SUFFICES ASSUME IInv, [Next]_vars PROVE IInv'
  OBVIOUS
<1>1. CASE Compile
  BY <1>1, NewNMethodInvariant, HandleFullCodeCacheInvariant DEF Compile
<1>2. CASE Execute
  BY <1>2, EnterInvariant, ReturnInvariant, MakeNotEntrantInvariant, CleanCallSiteInvariant DEF Execute
<1>3. CASE Resolve
  BY <1>3, LockNMethodInvariant, UnlockNMethodInvariant, ResolveBeginInvariant,
     ResolveCheckInvariant, ResolvePatchInvariant DEF Resolve
<1>4. CASE Safepoint
  BY <1>4, SafepointInvariant
<1>5. CASE Collect
  BY <1>5, GCUnloadInvariant DEF Collect
<1>6. CASE Sweep
  BY <1>6, PossiblySweepInvariant, SweepVisitInvariant, SweepCleanInvariant,
     SweepZombifyInvariant, SweepReleaseInvariant, SweepDoneInvariant DEF Sweep
<1>7. CASE UNCHANGED vars
  BY <1>7, StutterInvariant
<1> QED
  BY <1>1, <1>2, <1>3, <1>4, <1>5, <1>6, <1>7 DEF Next

\* The inductive invariant holds in every reachable state
THEOREM Invariance == Spec => []IInv
<1>1. Init => IInv
  BY InitInvariant
<1>2. IInv /\ [Next]_vars => IInv'
  BY NextInvariant
<1> QED
  BY <1>1, <1>2, PTL DEF Spec

\* Every variable keeps its type, whatever the size of the code cache
THEOREM TypeCorrect == Spec => []TypeOK
<1>1. IInv => TypeOK
  BY DEF IInv
<1> QED
  BY <1>1, Invariance, PTL

\* The sweeper and the collector never kill code that has an activation
THEOREM ActivationsSafe == Spec => []NoActivationInDeadCode
<1>1. IInv => NoActivationInDeadCode
  BY DEF IInv, ActivationsFresh, NoActivationInDeadCode
<1> QED
  BY <1>1, Invariance, PTL

\* The sweeper never flushes code that a call site of live code is bound to:
\* two visits as a zombie are enough, although code is compiled, bound and
\* unloaded while a sweep is in progress
THEOREM CallSitesSafe == Spec => []NoCallIntoFlushedCode
<1>1. IInv => NoCallIntoFlushedCode
  BY DEF IInv, CallSitesPending, NoCallIntoFlushedCode
<1> QED
  BY <1>1, Invariance, PTL

\* The sweeper never flushes code that VM code has locked
THEOREM LocksSafe == Spec => []LockedNotFlushed
<1>1. ASSUME IInv PROVE LockedNotFlushed
  <2>1. ASSUME NEW n \in Slots, NEW t \in Threads, LockedBy(t, n) PROVE state[n] # "free"
    <3>1. CASE n = res[t].callee
      BY <1>1, <2>1, <3>1 DEF IInv, TypeOK, ThreadsPinned, idle
    <3>2. CASE n = res[t].site
      BY <1>1, <2>1, <3>2 DEF IInv, TypeOK, ThreadsPinned, ActivationsFresh, Alive, idle
    <3> QED
      BY <2>1, <3>1, <3>2 DEF LockedBy
  <2> QED
    BY <2>1 DEF LockedNotFlushed, Locked
<1> QED
  BY <1>1, Invariance, PTL

\* The sweeper's cursor never dangles and no sweep runs out of invocations
THEOREM CursorSafe == Spec => []CursorValid
<1>1. IInv => CursorValid
  BY DEF IInv
<1> QED
  BY <1>1, Invariance, PTL

=============================================================================
