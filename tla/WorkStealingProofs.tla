------------------------- MODULE WorkStealingProofs -------------------------
(***************************************************************************)
(* For every set of workers, size of the queues and phase with tags enough *)
(* for its tasks: each task is at one place until it is finished once, and *)
(* no worker leaves before all are finished.                               *)
(*                                                                         *)
(* A thief's compare-and-swap succeeds if the age is what it has read.  It *)
(* takes the right element because ages do not come back, and they do not  *)
(* as long as the tag does not wrap around (TagsSuffice).  Two tags at     *)
(* most are used up by a task that leaves a queue: one when top wraps      *)
(* around, one when the owner finds the queue empty.                       *)
(***************************************************************************)
EXTENDS WorkStealing, FiniteSetTheorems, TLAPS

-----------------------------------------------------------------------------
(* Indices modulo N                                                        *)

LEMMA Slot == /\ N \in Nat /\ N > 3 /\ TagRange \in Nat /\ TagRange > 0
              /\ \A s : s \in Slots <=> s \in Nat /\ s < N
BY QueueAssumption DEF Slots

LEMMA Modulo ==
  ASSUME NEW m \in Nat, m > 0, NEW x \in Nat
  PROVE  /\ x % m \in Nat /\ x % m < m
         /\ x < m => x % m = x
         /\ m <= x /\ x < 2 * m => x % m = x - m
<1>1. x % m \in 0..(m - 1)
  BY SMT
<1>2. x < m => x % m = x
  BY SMT
<1>3. m <= x /\ x < 2 * m => x % m = x - m
  BY SMT
<1> QED
  BY <1>1, <1>2, <1>3

LEMMA Dirty ==
  ASSUME NEW b \in Slots, NEW t \in Slots
  PROVE  /\ dirty_size(b, t) = IF b >= t THEN b - t ELSE b + N - t
         /\ dirty_size(b, t) \in Slots
<1>1. b \in Nat /\ t \in Nat /\ b < N /\ t < N /\ b + N - t \in Nat /\ N \in Nat /\ N > 0
  BY Slot
<1>2. PICK x \in Nat : x = b + N - t
  BY <1>1
<1>3. /\ x < N => x % N = x
      /\ N <= x /\ x < 2 * N => x % N = x - N
  BY <1>1, <1>2, Modulo
<1>4. dirty_size(b, t) = x % N
  BY <1>2 DEF dirty_size
<1>5. dirty_size(b, t) = IF b >= t THEN b - t ELSE b + N - t
  BY <1>1, <1>2, <1>3, <1>4
<1> QED
  BY <1>1, <1>5, Slot

LEMMA Indices ==
  ASSUME NEW i \in Slots
  PROVE  /\ increment_index(i) = IF i = N - 1 THEN 0 ELSE i + 1
         /\ decrement_index(i) = IF i = 0 THEN N - 1 ELSE i - 1
         /\ increment_index(i) \in Slots /\ decrement_index(i) \in Slots
<1>1. i \in Nat /\ i < N /\ N \in Nat /\ N > 0 /\ i + N - 1 \in Nat /\ i + 1 \in Nat
  BY Slot
<1>2. increment_index(i) = IF i = N - 1 THEN 0 ELSE i + 1
  <2>1. (i + 1) % N = IF i + 1 < N THEN i + 1 ELSE i + 1 - N
    BY <1>1, Modulo
  <2> QED
    BY <1>1, <2>1 DEF increment_index
<1>3. decrement_index(i) = IF i = 0 THEN N - 1 ELSE i - 1
  <2>1. PICK x \in Nat : x = i + N - 1
    BY <1>1
  <2>2. x % N = IF x < N THEN x ELSE x - N
    BY <1>1, <2>1, Modulo
  <2> QED
    BY <1>1, <2>1, <2>2 DEF decrement_index
<1> QED
  BY <1>1, <1>2, <1>3, Slot

\* How the distance from top changes when an end of the queue moves
LEMMA Distance ==
  ASSUME NEW b \in Slots, NEW t \in Slots
  PROVE  LET d == dirty_size(b, t) IN
         /\ dirty_size(increment_index(b), t) = IF d = N - 1 THEN 0 ELSE d + 1
         /\ dirty_size(decrement_index(b), t) = IF d = 0 THEN N - 1 ELSE d - 1
         /\ dirty_size(b, increment_index(t)) = IF d = 0 THEN N - 1 ELSE d - 1
         /\ d = 0 <=> b = t
<1>1. /\ b \in Nat /\ t \in Nat /\ b < N /\ t < N /\ N \in Nat /\ N > 3
  BY Slot
<1>2. PICK bi \in Slots : bi = increment_index(b) /\ bi = IF b = N - 1 THEN 0 ELSE b + 1
  BY Indices
<1>3. PICK bd \in Slots : bd = decrement_index(b) /\ bd = IF b = 0 THEN N - 1 ELSE b - 1
  BY Indices
<1>4. PICK ti \in Slots : ti = increment_index(t) /\ ti = IF t = N - 1 THEN 0 ELSE t + 1
  BY Indices
<1>5. dirty_size(b, t) = IF b >= t THEN b - t ELSE b + N - t
  BY Dirty
<1>6. dirty_size(bi, t) = IF bi >= t THEN bi - t ELSE bi + N - t
  BY Dirty
<1>7. dirty_size(bd, t) = IF bd >= t THEN bd - t ELSE bd + N - t
  BY Dirty
<1>8. dirty_size(b, ti) = IF b >= ti THEN b - ti ELSE b + N - ti
  BY Dirty
<1> QED
  BY <1>1, <1>2, <1>3, <1>4, <1>5, <1>6, <1>7, <1>8

\* Slots at the same distance from top are the same
LEMMA SameDistance ==
  ASSUME NEW s \in Slots, NEW r \in Slots, NEW t \in Slots,
         dirty_size(s, t) = dirty_size(r, t)
  PROVE  s = r
BY Dirty, Slot

\* The slot at a distance from top
LEMMA SlotAt ==
  ASSUME NEW t \in Slots, NEW i \in Slots
  PROVE  (t + i) % N \in Slots /\ dirty_size((t + i) % N, t) = i
<1>1. /\ i \in Nat /\ t \in Nat /\ i < N /\ t < N /\ N \in Nat /\ N > 3 /\ t + i \in Nat
  BY Slot
<1>2. PICK x : x = (t + i) % N
  OBVIOUS
<1>3. x = IF t + i < N THEN t + i ELSE t + i - N
  BY <1>1, <1>2, Modulo
<1>4. x \in Slots
  BY <1>1, <1>3, Slot
<1>5. dirty_size(x, t) = i
  BY <1>1, <1>3, <1>4, Dirty
<1> QED
  BY <1>2, <1>4, <1>5

-----------------------------------------------------------------------------
(* Tasks and the places they are at.  Slot s of w's queue holds h[w][s],    *)
(* position k of its overflow stack o[w][k], w has claimed c[w], task t was *)
(* processed d[t] times; there are n tasks, and 0 is none                   *)

\* Positions of an overflow stack, counted from its end
Positions == Nat

Typed(h, o, c, d, n) ==
    /\ h \in [Workers -> [Slots -> 0..n]]
    /\ o \in [Workers -> [Positions -> 0..n]]
    /\ c \in [Workers -> 0..n]
    /\ 1..n \subseteq DOMAIN d
    /\ \A t \in DOMAIN d : d[t] = 0 \/ (d[t] = 1 /\ t \in 1..n)

\* A task in a slot is nowhere else
SlotsOnce(h, o, c, d) == \A v \in Workers : \A s \in Slots : h[v][s] # 0 =>
    /\ \A w \in Workers : \A r \in Slots : h[v][s] = h[w][r] => v = w /\ s = r
    /\ \A w \in Workers : \A k \in Positions : h[v][s] # o[w][k]
    /\ \A w \in Workers : h[v][s] # c[w]
    /\ d[h[v][s]] = 0

\* A task on an overflow stack is nowhere else
StacksOnce(o, c, d) == \A v \in Workers : \A k \in Positions : o[v][k] # 0 =>
    /\ \A w \in Workers : \A i \in Positions : o[v][k] = o[w][i] => v = w /\ k = i
    /\ \A w \in Workers : o[v][k] # c[w]
    /\ d[o[v][k]] = 0

\* A claimed task is nowhere else
ClaimsOnce(c, d) == \A v \in Workers : c[v] # 0 =>
    /\ \A w \in Workers : c[v] = c[w] => v = w
    /\ d[c[v]] = 0

\* Every task is somewhere
Present(h, o, c, d, n) == \A t \in 1..n :
    \/ \E w \in Workers : \E s \in Slots : h[w][s] = t
    \/ \E w \in Workers : \E k \in Positions : o[w][k] = t
    \/ \E w \in Workers : c[w] = t
    \/ d[t] = 1

Once(h, o, c, d, n) ==
    /\ Typed(h, o, c, d, n)
    /\ SlotsOnce(h, o, c, d) /\ StacksOnce(o, c, d) /\ ClaimsOnce(c, d)
    /\ Present(h, o, c, d, n)

\* A task moves from a queue to a worker: a pop or a steal
SlotClaimed(h, c, g, e, v, s, w, n) ==
    /\ h[v][s] # 0 /\ c[w] = 0 /\ g[v][s] = 0 /\ e[w] = h[v][s]
    /\ g \in [Workers -> [Slots -> 0..n]] /\ e \in [Workers -> 0..n]
    /\ \A u \in Workers : \A r \in Slots : u # v \/ r # s => g[u][r] = h[u][r]
    /\ \A u \in Workers : u # w => e[u] = c[u]

LEMMA SlotToClaim ==
  ASSUME NEW h, NEW o, NEW c, NEW d, NEW n \in Nat, Once(h, o, c, d, n), NEW g, NEW e,
         NEW v \in Workers, NEW s \in Slots, NEW w \in Workers,
         SlotClaimed(h, c, g, e, v, s, w, n)
  PROVE  Once(g, o, e, d, n)
<1> USE DEF SlotClaimed
<1>1. Typed(g, o, e, d, n)
  BY DEF Once, Typed
<1>2. SlotsOnce(g, o, e, d)
  <2> SUFFICES ASSUME NEW u \in Workers, NEW r \in Slots, g[u][r] # 0
               PROVE  /\ \A x \in Workers : \A q \in Slots : g[u][r] = g[x][q] => u = x /\ r = q
                      /\ \A x \in Workers : \A i \in Positions : g[u][r] # o[x][i]
                      /\ \A x \in Workers : g[u][r] # e[x]
                      /\ d[g[u][r]] = 0
    BY DEF SlotsOnce
  <2>1. g[u][r] = h[u][r] /\ (u # v \/ r # s)
    OBVIOUS
  <2>2. /\ \A x \in Workers : \A q \in Slots : h[u][r] = h[x][q] => u = x /\ r = q
        /\ \A x \in Workers : \A i \in Positions : h[u][r] # o[x][i]
        /\ \A x \in Workers : h[u][r] # c[x]
        /\ d[h[u][r]] = 0
    BY <2>1 DEF Once, SlotsOnce
  <2> QED
    BY <2>1, <2>2
<1>3. StacksOnce(o, e, d)
  <2> SUFFICES ASSUME NEW u \in Workers, NEW k \in Positions, o[u][k] # 0
               PROVE  /\ \A x \in Workers : \A i \in Positions : o[u][k] = o[x][i] => u = x /\ k = i
                      /\ \A x \in Workers : o[u][k] # e[x]
                      /\ d[o[u][k]] = 0
    BY DEF StacksOnce
  <2>1. h[v][s] # o[u][k]
    BY DEF Once, SlotsOnce
  <2>2. \A x \in Workers : o[u][k] # c[x]
    BY DEF Once, StacksOnce
  <2> QED
    BY <2>1, <2>2, ZenonT(40) DEF Once, StacksOnce
<1>4. ClaimsOnce(e, d)
  <2> SUFFICES ASSUME NEW u \in Workers, e[u] # 0
               PROVE  (\A x \in Workers : e[u] = e[x] => u = x) /\ d[e[u]] = 0
    BY DEF ClaimsOnce
  <2>1. (\A x \in Workers : h[v][s] # c[x]) /\ d[h[v][s]] = 0
    BY DEF Once, SlotsOnce
  <2>2. u # w => (\A x \in Workers : c[u] = c[x] => u = x) /\ d[c[u]] = 0
    BY DEF Once, ClaimsOnce
  <2> QED
    BY <2>1, <2>2, ZenonT(40)
<1>5. Present(g, o, e, d, n)
  <2> SUFFICES ASSUME NEW t \in 1..n
               PROVE  \/ \E x \in Workers : \E r \in Slots : g[x][r] = t
                      \/ \E x \in Workers : \E k \in Positions : o[x][k] = t
                      \/ \E x \in Workers : e[x] = t
                      \/ d[t] = 1
    BY DEF Present
  <2>1. CASE \E x \in Workers : \E r \in Slots : h[x][r] = t
    BY <2>1
  <2>2. CASE \E x \in Workers : c[x] = t
    BY <2>2
  <2> QED
    BY <2>1, <2>2 DEF Once, Present
<1> QED
  BY <1>1, <1>2, <1>3, <1>4, <1>5 DEF Once

\* From the overflow stack
StackClaimed(o, c, p, e, v, k, w, n) ==
    /\ o[v][k] # 0 /\ c[w] = 0 /\ p[v][k] = 0 /\ e[w] = o[v][k]
    /\ p \in [Workers -> [Positions -> 0..n]] /\ e \in [Workers -> 0..n]
    /\ \A u \in Workers : \A i \in Positions : u # v \/ i # k => p[u][i] = o[u][i]
    /\ \A u \in Workers : u # w => e[u] = c[u]

LEMMA StackToClaim ==
  ASSUME NEW h, NEW o, NEW c, NEW d, NEW n \in Nat, Once(h, o, c, d, n), NEW p, NEW e,
         NEW v \in Workers, NEW k \in Positions, NEW w \in Workers,
         StackClaimed(o, c, p, e, v, k, w, n)
  PROVE  Once(h, p, e, d, n)
<1> USE DEF StackClaimed
<1>1. Typed(h, p, e, d, n)
  BY DEF Once, Typed
<1>2. SlotsOnce(h, p, e, d)
  <2> SUFFICES ASSUME NEW u \in Workers, NEW s \in Slots, h[u][s] # 0
               PROVE  /\ \A x \in Workers : \A r \in Slots : h[u][s] = h[x][r] => u = x /\ s = r
                      /\ \A x \in Workers : \A i \in Positions : h[u][s] # p[x][i]
                      /\ \A x \in Workers : h[u][s] # e[x]
                      /\ d[h[u][s]] = 0
    BY DEF SlotsOnce
  <2>1. /\ \A x \in Workers : \A r \in Slots : h[u][s] = h[x][r] => u = x /\ s = r
        /\ \A x \in Workers : \A i \in Positions : h[u][s] # o[x][i]
        /\ \A x \in Workers : h[u][s] # c[x]
        /\ d[h[u][s]] = 0
    BY DEF Once, SlotsOnce
  <2> QED
    BY <2>1, SMTT(30)
<1>3. StacksOnce(p, e, d)
  <2> SUFFICES ASSUME NEW u \in Workers, NEW j \in Positions, p[u][j] # 0
               PROVE  /\ \A x \in Workers : \A i \in Positions : p[u][j] = p[x][i] => u = x /\ j = i
                      /\ \A x \in Workers : p[u][j] # e[x]
                      /\ d[p[u][j]] = 0
    BY DEF StacksOnce
  <2>1. /\ \A x \in Workers : \A i \in Positions : o[u][j] = o[x][i] => u = x /\ j = i
        /\ \A x \in Workers : o[u][j] # c[x]
        /\ d[o[u][j]] = 0 /\ p[u][j] = o[u][j] /\ (u # v \/ j # k)
    BY DEF Once, StacksOnce
  <2> QED
    BY <2>1
<1>4. ClaimsOnce(e, d)
  <2> SUFFICES ASSUME NEW u \in Workers, e[u] # 0
               PROVE  (\A x \in Workers : e[u] = e[x] => u = x) /\ d[e[u]] = 0
    BY DEF ClaimsOnce
  <2>1. (\A x \in Workers : o[v][k] # c[x]) /\ d[o[v][k]] = 0
    BY DEF Once, StacksOnce
  <2>2. u # w => (\A x \in Workers : c[u] = c[x] => u = x) /\ d[c[u]] = 0
    BY DEF Once, ClaimsOnce
  <2> QED
    BY <2>1, <2>2, ZenonT(40)
<1>5. Present(h, p, e, d, n)
  <2> SUFFICES ASSUME NEW t \in 1..n
               PROVE  \/ \E x \in Workers : \E r \in Slots : h[x][r] = t
                      \/ \E x \in Workers : \E i \in Positions : p[x][i] = t
                      \/ \E x \in Workers : e[x] = t
                      \/ d[t] = 1
    BY DEF Present
  <2>1. CASE \E x \in Workers : \E i \in Positions : o[x][i] = t
    BY <2>1
  <2>2. CASE \E x \in Workers : c[x] = t
    BY <2>2
  <2> QED
    BY <2>1, <2>2 DEF Once, Present
<1> QED
  BY <1>1, <1>2, <1>3, <1>4, <1>5 DEF Once

\* A claimed task is finished
ClaimDone(c, d, e, f, w, n) ==
    /\ c[w] # 0 /\ e[w] = 0 /\ c[w] \in DOMAIN d /\ f[c[w]] = 1
    /\ e \in [Workers -> 0..n] /\ \A u \in Workers : u # w => e[u] = c[u]
    /\ DOMAIN f = DOMAIN d /\ \A t \in DOMAIN d : t # c[w] => f[t] = d[t]

LEMMA ClaimToDone ==
  ASSUME NEW h, NEW o, NEW c, NEW d, NEW n \in Nat, Once(h, o, c, d, n), NEW e, NEW f,
         NEW w \in Workers, ClaimDone(c, d, e, f, w, n)
  PROVE  Once(h, o, e, f, n)
<1> USE DEF ClaimDone
<1>1. Typed(h, o, e, f, n)
  BY DEF Once, Typed
<1>2. \A t \in 1..n : t # c[w] => f[t] = d[t]
  BY DEF Once, Typed
<1>3. SlotsOnce(h, o, e, f)
  <2> SUFFICES ASSUME NEW u \in Workers, NEW s \in Slots, h[u][s] # 0
               PROVE  /\ \A x \in Workers : \A r \in Slots : h[u][s] = h[x][r] => u = x /\ s = r
                      /\ \A x \in Workers : \A i \in Positions : h[u][s] # o[x][i]
                      /\ \A x \in Workers : h[u][s] # e[x]
                      /\ f[h[u][s]] = 0
    BY DEF SlotsOnce
  <2>1. /\ \A x \in Workers : \A r \in Slots : h[u][s] = h[x][r] => u = x /\ s = r
        /\ \A x \in Workers : \A i \in Positions : h[u][s] # o[x][i]
        /\ \A x \in Workers : h[u][s] # c[x]
        /\ d[h[u][s]] = 0
    BY DEF Once, SlotsOnce
  <2>2. h[u][s] \in 1..n
    BY DEF Once, Typed
  <2> QED
    BY <1>2, <2>1, <2>2
<1>4. StacksOnce(o, e, f)
  <2> SUFFICES ASSUME NEW u \in Workers, NEW k \in Positions, o[u][k] # 0
               PROVE  /\ \A x \in Workers : \A i \in Positions : o[u][k] = o[x][i] => u = x /\ k = i
                      /\ \A x \in Workers : o[u][k] # e[x]
                      /\ f[o[u][k]] = 0
    BY DEF StacksOnce
  <2>1. /\ \A x \in Workers : \A i \in Positions : o[u][k] = o[x][i] => u = x /\ k = i
        /\ \A x \in Workers : o[u][k] # c[x]
        /\ d[o[u][k]] = 0
    BY DEF Once, StacksOnce
  <2>2. o[u][k] \in 1..n
    BY DEF Once, Typed
  <2> QED
    BY <1>2, <2>1, <2>2
<1>5. ClaimsOnce(e, f)
  <2> SUFFICES ASSUME NEW u \in Workers, e[u] # 0
               PROVE  (\A x \in Workers : e[u] = e[x] => u = x) /\ f[e[u]] = 0
    BY DEF ClaimsOnce
  <2>1. e[u] = c[u] /\ u # w
    OBVIOUS
  <2>2. (\A x \in Workers : c[u] = c[x] => u = x) /\ d[c[u]] = 0
    BY <2>1 DEF Once, ClaimsOnce
  <2>3. c[u] \in 1..n
    BY <2>1 DEF Once, Typed
  <2> QED
    BY <1>2, <2>1, <2>2, <2>3
<1>6. Present(h, o, e, f, n)
  <2> SUFFICES ASSUME NEW t \in 1..n
               PROVE  \/ \E x \in Workers : \E r \in Slots : h[x][r] = t
                      \/ \E x \in Workers : \E k \in Positions : o[x][k] = t
                      \/ \E x \in Workers : e[x] = t
                      \/ f[t] = 1
    BY DEF Present
  <2>1. CASE \E x \in Workers : c[x] = t
    BY <2>1
  <2>2. CASE d[t] = 1
    BY <1>2, <2>2
  <2> QED
    BY <2>1, <2>2 DEF Once, Present
<1> QED
  BY <1>1, <1>3, <1>4, <1>5, <1>6 DEF Once

\* A new task on a queue, or on an overflow stack
SlotFilled(h, d, g, v, s, n) ==
    /\ n + 1 \in DOMAIN d /\ h[v][s] = 0 /\ g[v][s] = n + 1
    /\ g \in [Workers -> [Slots -> 0..(n + 1)]]
    /\ \A u \in Workers : \A r \in Slots : u # v \/ r # s => g[u][r] = h[u][r]

StackFilled(o, d, p, v, k, n) ==
    /\ n + 1 \in DOMAIN d /\ o[v][k] = 0 /\ p[v][k] = n + 1
    /\ p \in [Workers -> [Positions -> 0..(n + 1)]]
    /\ \A u \in Workers : \A i \in Positions : u # v \/ i # k => p[u][i] = o[u][i]

LEMMA NewInSlot ==
  ASSUME NEW h, NEW o, NEW c, NEW d, NEW n \in Nat, Once(h, o, c, d, n), NEW g,
         NEW v \in Workers, NEW s \in Slots, SlotFilled(h, d, g, v, s, n)
  PROVE  Once(g, o, c, d, n + 1)
<1> USE DEF SlotFilled
<1>1. Typed(g, o, c, d, n + 1)
  <2>1. o \in [Workers -> [Positions -> 0..(n + 1)]] /\ c \in [Workers -> 0..(n + 1)]
    BY DEF Once, Typed
  <2>2. /\ 1..(n + 1) \subseteq DOMAIN d
        /\ \A t \in DOMAIN d : d[t] = 0 \/ (d[t] = 1 /\ t \in 1..(n + 1))
    <3>1. \A t \in 1..(n + 1) : t \in 1..n \/ t = n + 1
      OBVIOUS
    <3>2. \A t \in 1..n : t \in 1..(n + 1)
      OBVIOUS
    <3> QED
      BY <3>1, <3>2 DEF Once, Typed
  <2> QED
    BY <2>1, <2>2 DEF Typed
<1>2. SlotsOnce(g, o, c, d)
  <2> SUFFICES ASSUME NEW u \in Workers, NEW r \in Slots, g[u][r] # 0
               PROVE  /\ \A x \in Workers : \A q \in Slots : g[u][r] = g[x][q] => u = x /\ r = q
                      /\ \A x \in Workers : \A i \in Positions : g[u][r] # o[x][i]
                      /\ \A x \in Workers : g[u][r] # c[x]
                      /\ d[g[u][r]] = 0
    BY DEF SlotsOnce
  <2>1. /\ \A x \in Workers : \A q \in Slots : h[x][q] # n + 1
        /\ \A x \in Workers : \A i \in Positions : o[x][i] # n + 1
        /\ \A x \in Workers : c[x] # n + 1
        /\ d[n + 1] = 0
    BY DEF Once, Typed
  <2>2. CASE u = v /\ r = s
    BY <2>1, <2>2
  <2>3. CASE u # v \/ r # s
    <3>1. g[u][r] = h[u][r]
      BY <2>3
    <3>2. /\ \A x \in Workers : \A q \in Slots : h[u][r] = h[x][q] => u = x /\ r = q
          /\ \A x \in Workers : \A i \in Positions : h[u][r] # o[x][i]
          /\ \A x \in Workers : h[u][r] # c[x]
          /\ d[h[u][r]] = 0
      BY <3>1 DEF Once, SlotsOnce
    <3> QED
      BY <2>1, <2>3, <3>1, <3>2
  <2> QED
    BY <2>2, <2>3
<1>3. Present(g, o, c, d, n + 1)
  <2> SUFFICES ASSUME NEW t \in 1..(n + 1)
               PROVE  \/ \E x \in Workers : \E r \in Slots : g[x][r] = t
                      \/ \E x \in Workers : \E i \in Positions : o[x][i] = t
                      \/ \E x \in Workers : c[x] = t
                      \/ d[t] = 1
    BY DEF Present
  <2>1. CASE t = n + 1
    BY <2>1
  <2>2. CASE \E x \in Workers : \E r \in Slots : h[x][r] = t
    BY <2>2
  <2>3. t # n + 1 => t \in 1..n
    OBVIOUS
  <2> QED
    BY <2>1, <2>2, <2>3 DEF Once, Present
<1> QED
  BY <1>1, <1>2, <1>3 DEF Once

LEMMA NewOnStack ==
  ASSUME NEW h, NEW o, NEW c, NEW d, NEW n \in Nat, Once(h, o, c, d, n),
         NEW p, NEW v \in Workers, NEW k \in Positions, StackFilled(o, d, p, v, k, n)
  PROVE  Once(h, p, c, d, n + 1)
<1> USE DEF StackFilled
<1>1. Typed(h, p, c, d, n + 1)
  <2>1. h \in [Workers -> [Slots -> 0..(n + 1)]] /\ c \in [Workers -> 0..(n + 1)]
    BY DEF Once, Typed
  <2>2. /\ 1..(n + 1) \subseteq DOMAIN d
        /\ \A t \in DOMAIN d : d[t] = 0 \/ (d[t] = 1 /\ t \in 1..(n + 1))
    <3>1. \A t \in 1..(n + 1) : t \in 1..n \/ t = n + 1
      OBVIOUS
    <3>2. \A t \in 1..n : t \in 1..(n + 1)
      OBVIOUS
    <3> QED
      BY <3>1, <3>2 DEF Once, Typed
  <2> QED
    BY <2>1, <2>2 DEF Typed
<1>2. SlotsOnce(h, p, c, d)
  BY DEF Once, SlotsOnce, Typed
<1>3. StacksOnce(p, c, d)
  <2> SUFFICES ASSUME NEW u \in Workers, NEW j \in Positions, p[u][j] # 0
               PROVE  /\ \A x \in Workers : \A i \in Positions : p[u][j] = p[x][i] => u = x /\ j = i
                      /\ \A x \in Workers : p[u][j] # c[x]
                      /\ d[p[u][j]] = 0
    BY DEF StacksOnce
  <2>1. /\ \A x \in Workers : \A i \in Positions : o[x][i] # n + 1
        /\ \A x \in Workers : c[x] # n + 1
        /\ d[n + 1] = 0
    BY DEF Once, Typed
  <2>2. CASE u = v /\ j = k
    BY <2>1, <2>2
  <2>3. CASE u # v \/ j # k
    <3>1. p[u][j] = o[u][j]
      BY <2>3
    <3>2. /\ \A x \in Workers : \A i \in Positions : o[u][j] = o[x][i] => u = x /\ j = i
          /\ \A x \in Workers : o[u][j] # c[x]
          /\ d[o[u][j]] = 0
      BY <3>1 DEF Once, StacksOnce
    <3> QED
      BY <2>1, <2>3, <3>1, <3>2
  <2> QED
    BY <2>2, <2>3
<1>4. Present(h, p, c, d, n + 1)
  <2> SUFFICES ASSUME NEW t \in 1..(n + 1)
               PROVE  \/ \E x \in Workers : \E r \in Slots : h[x][r] = t
                      \/ \E x \in Workers : \E i \in Positions : p[x][i] = t
                      \/ \E x \in Workers : c[x] = t
                      \/ d[t] = 1
    BY DEF Present
  <2>1. CASE t = n + 1
    BY <2>1
  <2>2. CASE \E x \in Workers : \E i \in Positions : o[x][i] = t
    BY <2>2
  <2>3. t # n + 1 => t \in 1..n
    OBVIOUS
  <2> QED
    BY <2>1, <2>2, <2>3 DEF Once, Present
<1> QED
  BY <1>1, <1>2, <1>3, <1>4 DEF Once

-----------------------------------------------------------------------------
(* The inductive invariant                                                 *)

AgeType == [top : Slots, tag : 0..(TagRange - 1)]
Pcs == {"drain", "process", "pushbottom", "popread", "popage", "popcas", "popset",
        "steal", "stealbottom", "stealread", "stealcas", "check", "peek", "withdraw", "done"}
WkType == [pc : Pcs, task : Tasks \cup {NoTask}, bot : Slots, old : AgeType,
           from : Workers, unseen : SUBSET Workers]

Claiming == {"process", "pushbottom"}
Popping == {"popread", "popage", "popcas", "popset"}
Idling == {"steal", "stealbottom", "stealread", "stealcas", "check", "peek", "withdraw", "done"}
Offering == {"check", "peek", "withdraw", "done"}

Gap(w) == dirty_size(bottom[w], age[w].top)

\* Number of elements: the owner has moved bottom before it has the last one
CountAt(pc, gap) ==
    IF pc \in {"popread", "popage", "popcas"} THEN (IF gap = N - 1 THEN 0 ELSE gap + 1)
    ELSE IF pc = "popset" \/ gap = N - 1 THEN 0 ELSE gap
Count(w) == CountAt(wk[w].pc, Gap(w))

Held(w, s) == \/ dirty_size(s, age[w].top) < Count(w)
              \/ At(w, "pushbottom") /\ s = bottom[w]

\* What is at each place
SlotTask == [w \in Workers |-> [s \in Slots |-> IF Held(w, s) THEN elems[w][s] ELSE NoTask]]
StackTask == [w \in Workers |-> [k \in Positions |->
                 IF k \in 1..Len(overflow[w]) THEN overflow[w][Len(overflow[w]) + 1 - k]
                 ELSE NoTask]]
ClaimTask == [w \in Workers |-> IF wk[w].pc \in Claiming THEN wk[w].task ELSE NoTask]

Unique == Once(SlotTask, StackTask, ClaimTask, done, created)

\* There is a task in every slot in use
Filled(w) == \A s \in Slots : Held(w, s) => elems[w][s] # NoTask

\* What an owner knows of its queue.  Between moving bottom and reading age the last
\* element can go: then bottom is one below top
Known(w) ==
    LET pc == wk[w].pc IN
    /\ pc \in Claiming => wk[w].task # NoTask
    /\ pc \notin Popping => Gap(w) # N - 1
    /\ pc = "pushbottom" => Gap(w) < N - 2
    /\ pc \in Popping => wk[w].bot = bottom[w]
    /\ pc \in {"popage", "popcas"} => /\ Gap(w) = 0 \/ Gap(w) = N - 1
                                      /\ wk[w].task = elems[w][bottom[w]]
    /\ pc \in {"popcas", "popset"} => wk[w].old.tag <= age[w].tag
    /\ pc = "popcas" => /\ wk[w].old.top = bottom[w]
                        /\ Gap(w) = 0 => age[w] = wk[w].old
                        /\ Gap(w) # 0 => age[w] = increment(wk[w].old)
    /\ pc = "popset" => /\ Gap(w) = N - 1
                        /\ \/ age[w] = wk[w].old
                           \/ wk[w].old.top = bottom[w] /\ age[w] = increment(wk[w].old)
    /\ pc \in Idling => Gap(w) = 0 /\ overflow[w] = <<>>
    /\ w \notin Active => pc = "drain" /\ Gap(w) = 0 /\ overflow[w] = <<>>

\* Ages of a queue in the order in which it has them
Before(a, b) == a.tag < b.tag \/ (a.tag = b.tag /\ a.top < b.top)

\* What a thief has read of a queue is right as long as the age is what it was
Stealing(w) ==
    LET v == wk[w].from pc == wk[w].pc o == wk[w].old IN
    /\ pc \in {"stealbottom", "stealread", "stealcas"} => v # w /\ (o = age[v] \/ Before(o, age[v]))
    /\ pc \in {"stealread", "stealcas"} /\ o = age[v] => Count(v) > 0
    /\ pc = "stealcas" /\ o = age[v] => wk[w].task = elems[v][o.top]

\* Tasks that are not in the slots h; tags are used up by tasks that leave a queue, two
\* by a task
Out(h, n) == {t \in 1..n : \A s \in Slots : h[s] # t}
Owed(w) == IF wk[w].pc \in Popping /\ Gap(w) = N - 1 THEN 1 ELSE 0
TagUsed(w) == age[w].tag + Owed(w) + 2 <= 2 * Cardinality(Out(SlotTask[w], created))

\* Offers are counted, and when a worker has left all queues are empty
Offers ==
    /\ offered = Cardinality({w \in Active : wk[w].pc \in Offering})
    /\ (\E w \in Active : wk[w].pc = "done") => \A w \in Active : wk[w].pc \in Idling

IInv ==
    /\ TypeOK
    /\ \A w \in Workers : Filled(w) /\ Known(w) /\ Stealing(w) /\ TagUsed(w)
    /\ Unique /\ Offers

-----------------------------------------------------------------------------
(* Tasks outside a queue                                                   *)

LEMMA OutFinite ==
  ASSUME NEW h, NEW n \in Nat
  PROVE  /\ IsFiniteSet(Out(h, n)) /\ Cardinality(Out(h, n)) \in Nat
         /\ Cardinality(Out(h, n)) <= n
<1>1. IsFiniteSet(1..n) /\ Cardinality(1..n) = n
  <2>1. 1 \in Int /\ n \in Int
    OBVIOUS
  <2> QED
    BY <2>1, FS_Interval
<1>2. Out(h, n) \subseteq 1..n
  BY DEF Out
<1> QED
  BY <1>1, <1>2, FS_Subset, FS_CardinalityType

\* Tasks only leave a queue, but for new ones
LEMMA OutGrows ==
  ASSUME NEW h, NEW g, NEW n \in Nat, NEW m \in Nat, n <= m,
         \A s \in Slots : g[s] = h[s] \/ g[s] \notin 1..n
  PROVE  /\ Cardinality(Out(h, n)) \in Nat /\ Cardinality(Out(g, m)) \in Nat
         /\ Cardinality(Out(h, n)) <= Cardinality(Out(g, m))
<1>1. Out(h, n) \subseteq Out(g, m)
  BY DEF Out
<1> QED
  BY <1>1, OutFinite, FS_Subset

LEMMA OutGains ==
  ASSUME NEW h, NEW g, NEW n \in Nat, NEW r \in Slots, h[r] \in 1..n,
         \A s \in Slots : g[s] = h[s] \/ g[s] \notin 1..n,
         \A s \in Slots : g[s] # h[r]
  PROVE  /\ Cardinality(Out(h, n)) \in Nat /\ Cardinality(Out(g, n)) \in Nat
         /\ Cardinality(Out(h, n)) + 1 <= Cardinality(Out(g, n))
<1>1. Out(h, n) \cup {h[r]} \subseteq Out(g, n) /\ h[r] \notin Out(h, n)
  BY DEF Out
<1>2. /\ IsFiniteSet(Out(h, n)) /\ IsFiniteSet(Out(g, n))
      /\ Cardinality(Out(h, n)) \in Nat /\ Cardinality(Out(g, n)) \in Nat
  BY OutFinite
<1>3. Cardinality(Out(h, n) \cup {h[r]}) = Cardinality(Out(h, n)) + 1
  BY <1>1, <1>2, FS_AddElement
<1>4. Cardinality(Out(h, n) \cup {h[r]}) <= Cardinality(Out(g, n))
  BY <1>1, <1>2, FS_Subset
<1> QED
  BY <1>2, <1>3, <1>4

-----------------------------------------------------------------------------
(* What the types say, and what a step leaves alone                        *)

LEMMA PhaseFacts ==
  ASSUME TypeOK
  PROVE  /\ phase \in Phases /\ phase.tasks \in Nat /\ Active \subseteq Workers
         /\ IsFiniteSet(Active) /\ Cardinality(Active) \in Nat
         /\ created \in Nat /\ 1 <= created /\ created <= phase.tasks
         /\ \A t : t \in Tasks <=> t \in Nat /\ 1 <= t /\ t <= phase.tasks
<1>1. phase \in [active : {S \in SUBSET Workers : First \in S},
                 tasks : Nat \ {0}, start : 0..(N - 1)]
  BY QueueAssumption DEF TypeOK
<1>2. phase \in Phases /\ phase.tasks \in Nat /\ Active \subseteq Workers
  BY <1>1 DEF TypeOK, Active
<1>3. IsFiniteSet(Active) /\ Cardinality(Active) \in Nat
  BY <1>2, QueueAssumption, FS_Subset, FS_CardinalityType
<1>4. \A t : t \in Tasks <=> t \in Nat /\ 1 <= t /\ t <= phase.tasks
  BY <1>2 DEF Tasks
<1> QED
  BY <1>2, <1>3, <1>4 DEF TypeOK

LEMMA Facts ==
  ASSUME TypeOK, NEW w \in Workers
  PROVE  /\ bottom[w] \in Slots /\ elems[w] \in [Slots -> Tasks \cup {NoTask}]
         /\ age[w] \in AgeType /\ age[w].top \in Slots /\ age[w].tag \in Nat
         /\ age[w].tag < TagRange /\ overflow[w] \in Seq(Tasks) /\ Gap(w) \in Slots
<1>1. /\ bottom[w] \in Slots /\ elems[w] \in [Slots -> Tasks \cup {NoTask}]
      /\ age[w] \in AgeType /\ overflow[w] \in Seq(Tasks)
  BY DEF TypeOK, AgeType
<1>2. age[w].top \in Slots /\ age[w].tag \in Nat /\ age[w].tag < TagRange
  BY <1>1, Slot DEF AgeType
<1> QED
  BY <1>1, <1>2, Dirty DEF Gap

LEMMA Locals ==
  ASSUME TypeOK, NEW w \in Workers
  PROVE  /\ wk \in [Workers -> WkType] /\ wk[w] \in WkType
         /\ wk[w].pc \in Pcs /\ wk[w].task \in Tasks \cup {NoTask} /\ wk[w].bot \in Slots
         /\ wk[w].from \in Workers /\ wk[w].unseen \in SUBSET Workers
         /\ wk[w].old \in AgeType /\ wk[w].old.top \in Slots
         /\ wk[w].old.tag \in Nat /\ wk[w].old.tag < TagRange
<1>1. wk \in [Workers -> WkType]
  BY DEF TypeOK, WkType, AgeType, Pcs
<1>2. wk[w] \in WkType
  BY <1>1
<1>3. /\ wk[w].pc \in Pcs /\ wk[w].task \in Tasks \cup {NoTask} /\ wk[w].bot \in Slots
      /\ wk[w].from \in Workers /\ wk[w].unseen \in SUBSET Workers
      /\ wk[w].old \in AgeType
  BY <1>2 DEF WkType
<1>4. wk[w].old.top \in Slots /\ wk[w].old.tag \in Nat /\ wk[w].old.tag < TagRange
  BY <1>3, Slot DEF AgeType
<1> QED
  BY <1>1, <1>2, <1>3, <1>4

LEMMA CountFacts ==
  ASSUME TypeOK, NEW w \in Workers
  PROVE  /\ Count(w) \in Nat /\ Count(w) < N
         /\ wk[w].pc \in {"popread", "popage", "popcas"} =>
               Count(w) = IF Gap(w) = N - 1 THEN 0 ELSE Gap(w) + 1
         /\ wk[w].pc = "popset" => Count(w) = 0
         /\ wk[w].pc \notin Popping => Count(w) = IF Gap(w) = N - 1 THEN 0 ELSE Gap(w)
<1>1. Gap(w) \in Nat /\ Gap(w) < N /\ N \in Nat /\ N > 3
  BY Facts, Slot
<1> QED
  BY <1>1 DEF Count, CountAt, Popping

\* The queue and the locals of v are as they were
Framed(v) ==
    /\ bottom'[v] = bottom[v] /\ age'[v] = age[v] /\ elems'[v] = elems[v]
    /\ overflow'[v] = overflow[v] /\ wk'[v] = wk[v]

\* The age of v's queue is a new one, or it still has its first element
Kept(v) ==
    \/ Before(age[v], age'[v])
    \/ /\ age'[v] = age[v]
       /\ Count(v) > 0 => /\ Count(v)' > 0
                          /\ elems'[v][age[v].top] = elems[v][age[v].top]

LEMMA FramedQueue ==
  ASSUME NEW v \in Workers, Framed(v)
  PROVE  /\ Gap(v)' = Gap(v) /\ Count(v)' = Count(v) /\ Owed(v)' = Owed(v)
         /\ \A s \in Slots : Held(v, s)' <=> Held(v, s)
         /\ SlotTask'[v] = SlotTask[v] /\ StackTask'[v] = StackTask[v]
         /\ ClaimTask'[v] = ClaimTask[v]
<1>1. Gap(v)' = Gap(v)
  BY DEF Framed, Gap
<1>2. Count(v)' = Count(v) /\ Owed(v)' = Owed(v)
  BY <1>1 DEF Framed, Count, Owed
<1>3. \A s \in Slots : Held(v, s)' <=> Held(v, s)
  BY <1>2 DEF Framed, Held, At
<1>4. SlotTask'[v] = SlotTask[v]
  BY <1>3 DEF Framed, SlotTask
<1>5. StackTask'[v] = StackTask[v] /\ ClaimTask'[v] = ClaimTask[v]
  BY DEF Framed, StackTask, ClaimTask
<1> QED
  BY <1>1, <1>2, <1>3, <1>4, <1>5

LEMMA FramedOwner ==
  ASSUME IInv, NEW v \in Workers, Framed(v), phase' = phase, created' \in Nat,
         created <= created'
  PROVE  Filled(v)' /\ Known(v)' /\ TagUsed(v)' /\ Kept(v)
<1>1. TypeOK /\ Filled(v) /\ Known(v) /\ TagUsed(v) /\ created \in Nat
  BY PhaseFacts DEF IInv
<1>2. /\ Gap(v)' = Gap(v) /\ Count(v)' = Count(v) /\ Owed(v)' = Owed(v)
      /\ \A s \in Slots : Held(v, s)' <=> Held(v, s)
      /\ SlotTask'[v] = SlotTask[v]
  BY FramedQueue
<1>3. Filled(v)' /\ Known(v)'
  BY <1>1, <1>2 DEF Framed, Filled, Known, Active
<1>4. TagUsed(v)'
  <2>1. /\ Cardinality(Out(SlotTask[v], created)) \in Nat
        /\ Cardinality(Out(SlotTask[v], created')) \in Nat
        /\ Cardinality(Out(SlotTask[v], created)) <= Cardinality(Out(SlotTask[v], created'))
    BY <1>1, OutGrows
  <2>2. age[v].tag \in Nat /\ Owed(v) \in Nat
    BY <1>1, Facts DEF Owed
  <2> QED
    BY <1>1, <1>2, <2>1, <2>2 DEF TagUsed, Framed
<1>5. Kept(v)
  BY <1>2 DEF Framed, Kept
<1> QED
  BY <1>3, <1>4, <1>5

\* What a thief knows stays right
LEMMA ThiefKept ==
  ASSUME TypeOK, TypeOK', NEW u \in Workers, wk'[u] = wk[u], Kept(wk[u].from), Stealing(u)
  PROVE  Stealing(u)'
<1>1. PICK v \in Workers : v = wk[u].from
  BY Locals
<1>2. PICK o \in AgeType : o = wk[u].old
  BY Locals
<1>3. PICK a \in AgeType : a = age[v]
  BY Facts
<1>4. PICK b \in AgeType : b = age'[v]
  BY DEF TypeOK, AgeType
<1>5. /\ o.top \in Nat /\ a.top \in Nat /\ b.top \in Nat
      /\ o.tag \in Nat /\ a.tag \in Nat /\ b.tag \in Nat
  BY Slot DEF AgeType
<1>6. CASE Before(a, b)
  <2>1. (o = a \/ Before(o, a)) => Before(o, b) /\ o # b
    BY <1>5, <1>6 DEF Before
  <2> QED
    BY <1>1, <1>2, <1>3, <1>4, <2>1 DEF Stealing
<1>7. CASE ~Before(a, b)
  BY <1>1, <1>2, <1>3, <1>4, <1>7 DEF Stealing, Kept
<1> QED
  BY <1>6, <1>7

\* A step of worker w keeps the invariant if these parts of it are kept
LEMMA StepKeeps ==
  ASSUME IInv, TypeOK', NEW w \in Workers, \A v \in Workers : v # w => wk'[v] = wk[v],
         \A v \in Workers : Filled(v)' /\ Known(v)' /\ TagUsed(v)' /\ Kept(v),
         Stealing(w)', Unique', Offers'
  PROVE  IInv'
<1>1. ASSUME NEW v \in Workers PROVE Stealing(v)'
  <2>1. CASE v = w
    BY <2>1
  <2>2. CASE v # w
    <3>1. TypeOK /\ Stealing(v) /\ wk[v].from \in Workers
      BY Locals DEF IInv
    <3> QED
      BY <2>2, <3>1, ThiefKept
  <2> QED
    BY <2>1, <2>2
<1> QED
  BY <1>1 DEF IInv

-----------------------------------------------------------------------------
(* Steps of one worker                                                     *)

LEMMA WkUpdate ==
  ASSUME TypeOK, NEW w \in Workers, NEW r \in WkType, wk' = [wk EXCEPT ![w] = r]
  PROVE  /\ wk' \in [Workers -> WkType] /\ wk'[w] = r
         /\ \A v \in Workers : v # w => wk'[v] = wk[v]
<1>1. wk \in [Workers -> WkType]
  BY Locals
<1> QED
  BY <1>1

LEMMA Started == starting \in WkType /\ starting.task = NoTask /\ starting.pc = "drain"
<1>1. noAge \in AgeType /\ 0 \in Slots /\ First \in Workers
  BY Slot, QueueAssumption DEF noAge, AgeType
<1> QED
  BY <1>1 DEF starting, WkType, Pcs

\* A worker that goes on elsewhere, without or with a task
LEMMA Continued ==
  ASSUME TypeOK, NEW w \in Workers, NEW l \in Pcs, Continue(w, l)
  PROVE  \E r \in WkType : wk' = [wk EXCEPT ![w] = r] /\ r.pc = l
<1>1. PICK r : r = [starting EXCEPT !.pc = l]
  OBVIOUS
<1>2. r \in WkType /\ r.pc = l
  BY <1>1, Started DEF WkType
<1>3. wk' = [wk EXCEPT ![w] = r]
  BY <1>1 DEF Continue
<1> QED
  BY <1>2, <1>3

LEMMA ClaimedTask ==
  ASSUME TypeOK, NEW w \in Workers, NEW t \in Tasks \cup {NoTask}, Claim(w, t)
  PROVE  \E r \in WkType : wk' = [wk EXCEPT ![w] = r] /\ r.pc = "process" /\ r.task = t
<1>1. "process" \in Pcs
  BY DEF Pcs
<1>2. PICK r : r = [starting EXCEPT !.pc = "process", !.task = t]
  OBVIOUS
<1>3. r \in WkType /\ r.pc = "process" /\ r.task = t
  BY <1>1, <1>2, Started DEF WkType
<1>4. wk' = [wk EXCEPT ![w] = r]
  BY <1>2 DEF Claim
<1> QED
  BY <1>3, <1>4

LEMMA Gone ==
  ASSUME TypeOK, NEW w \in Workers, NEW l \in Pcs, Goto(w, l)
  PROVE  \E r \in WkType : /\ wk' = [wk EXCEPT ![w] = r] /\ r.pc = l /\ r.task = wk[w].task
                           /\ r.bot = wk[w].bot /\ r.old = wk[w].old
                           /\ r.from = wk[w].from /\ r.unseen = wk[w].unseen
<1>1. wk[w] \in WkType
  BY Locals
<1>2. PICK r : r = [wk[w] EXCEPT !.pc = l]
  OBVIOUS
<1>3. /\ r \in WkType /\ r.pc = l /\ r.task = wk[w].task
      /\ r.bot = wk[w].bot /\ r.old = wk[w].old
      /\ r.from = wk[w].from /\ r.unseen = wk[w].unseen
  BY <1>1, <1>2 DEF WkType
<1>4. wk' = [wk EXCEPT ![w] = r]
  BY <1>2 DEF Goto
<1> QED
  BY <1>3, <1>4

\* The offers, when w makes none and withdraws none
LEMMA OffersKept ==
  ASSUME Offers, NEW w \in Workers, UNCHANGED <<phase, offered>>,
         \A v \in Workers : v # w => wk'[v] = wk[v], Active \subseteq Workers,
         wk[w].pc \in Offering <=> wk'[w].pc \in Offering,
         wk'[w].pc = "done" => wk[w].pc = "done",
         (\E v \in Active : wk[v].pc = "done") => wk'[w].pc \in Idling
  PROVE  Offers'
<1>1. Active' = Active
  BY DEF Active
<1>2. {v \in Active : wk'[v].pc \in Offering} = {v \in Active : wk[v].pc \in Offering}
  OBVIOUS
<1>3. offered' = Cardinality({v \in Active : wk'[v].pc \in Offering})
  BY <1>2 DEF Offers
<1>4. (\E v \in Active : wk'[v].pc = "done") => \A v \in Active : wk'[v].pc \in Idling
  BY DEF Offers
<1> QED
  BY <1>1, <1>3, <1>4 DEF Offers

\* While a worker is not idle none has left
LEMMA NoneLeft ==
  ASSUME Offers, NEW w \in Active, wk[w].pc \notin Idling
  PROVE  ~(\E v \in Active : wk[v].pc = "done")
BY DEF Offers

\* The queues stay, and w has no task before or after the step
LEMMA LocalStep ==
  ASSUME IInv, NEW w \in Workers, NEW r \in WkType, wk' = [wk EXCEPT ![w] = r],
         UNCHANGED <<phase, bottom, age, elems, overflow, created, done>>,
         wk[w].pc \notin Claiming, r.pc \notin Claiming,
         CountAt(r.pc, Gap(w)) = Count(w),
         r.pc \in Popping /\ Gap(w) = N - 1 => wk[w].pc \in Popping,
         offered' \in 0..Cardinality(Active), Known(w)', Stealing(w)', Offers'
  PROVE  IInv'
<1>1. TypeOK
  BY DEF IInv
<1>2. /\ wk' \in [Workers -> WkType] /\ wk'[w] = r
      /\ \A v \in Workers : v # w => wk'[v] = wk[v]
  BY <1>1, WkUpdate
<1>3. TypeOK'
  BY <1>1, <1>2 DEF TypeOK, WkType, AgeType, Pcs, Tasks, Active
<1>4. \A v \in Workers : Gap(v)' = Gap(v)
  BY DEF Gap
<1>5. \A v \in Workers : Count(v)' = Count(v)
  BY <1>2, <1>4 DEF Count
<1>6. \A v \in Workers : \A s \in Slots : Held(v, s)' <=> Held(v, s)
  BY <1>2, <1>5 DEF Held, At, Claiming
<1>7. SlotTask' = SlotTask
  BY <1>6 DEF SlotTask
<1>8. StackTask' = StackTask
  BY DEF StackTask
<1>9. ClaimTask' = ClaimTask
  BY <1>2 DEF ClaimTask
<1>10. Unique'
  BY <1>7, <1>8, <1>9 DEF IInv, Unique
<1>11. ASSUME NEW v \in Workers, v # w
       PROVE  Filled(v)' /\ Known(v)' /\ TagUsed(v)' /\ Kept(v)
  <2>1. Framed(v)
    BY <1>2, <1>11 DEF Framed
  <2> QED
    BY <1>1, <2>1, FramedOwner, PhaseFacts
<1>12. Filled(w)' /\ TagUsed(w)' /\ Kept(w)
  <2>1. Filled(w) /\ TagUsed(w)
    BY DEF IInv
  <2>2. Filled(w)'
    BY <1>6, <2>1 DEF Filled
  <2>3. Owed(w)' \in {0, 1} /\ Owed(w) \in {0, 1} /\ Owed(w)' <= Owed(w)
    BY <1>2, <1>4 DEF Owed
  <2>4. age[w].tag \in Nat /\ Cardinality(Out(SlotTask[w], created)) \in Nat
    BY <1>1, Facts, PhaseFacts, OutFinite
  <2>5. TagUsed(w)'
    BY <1>7, <2>1, <2>3, <2>4 DEF TagUsed
  <2> QED
    BY <1>5, <2>2, <2>5 DEF Kept
<1> QED
  BY <1>2, <1>3, <1>10, <1>11, <1>12, StepKeeps

\* Such a step of a worker that has nothing to do
LEMMA IdleStep ==
  ASSUME IInv, NEW w \in Workers, w \in Active, NEW r \in WkType, wk' = [wk EXCEPT ![w] = r],
         UNCHANGED <<phase, bottom, age, elems, overflow, created, done>>,
         wk[w].pc \in Idling, r.pc \in Idling,
         offered' \in 0..Cardinality(Active), Stealing(w)', Offers'
  PROVE  IInv'
<1>1. TypeOK /\ Known(w)
  BY DEF IInv
<1>2. wk'[w] = r
  BY <1>1, WkUpdate
<1>3. Gap(w) = 0 /\ overflow[w] = <<>> /\ 0 # N - 1
  BY <1>1, Slot DEF Known
<1>4. Gap(w)' = Gap(w) /\ Active' = Active
  BY DEF Gap, Active
<1>5. Known(w)'
  BY <1>2, <1>3, <1>4 DEF Known, Idling, Claiming, Popping
<1>6. CountAt(r.pc, Gap(w)) = Count(w)
  BY <1>3 DEF CountAt, Count, Idling
<1> QED
  BY <1>5, <1>6, LocalStep DEF Idling, Claiming, Popping

-----------------------------------------------------------------------------
(* Steps of a worker without work                                          *)

\* What the steps that follow have in common
LEMMA Acting ==
  ASSUME IInv, NEW w \in Active
  PROVE  /\ TypeOK /\ Unique /\ Offers /\ w \in Workers /\ Active \subseteq Workers
         /\ Filled(w) /\ Known(w) /\ Stealing(w) /\ TagUsed(w)
         /\ offered \in 0..Cardinality(Active) /\ Cardinality(Active) \in Nat
         /\ wk[w] \in WkType
BY PhaseFacts, Locals DEF IInv, TypeOK

\* w stays idle and offers nothing
LEMMA IdleOn ==
  ASSUME IInv, NEW w \in Active, NEW r \in WkType, wk' = [wk EXCEPT ![w] = r],
         UNCHANGED <<phase, bottom, age, elems, overflow, created, done, offered>>,
         wk[w].pc \in Idling, r.pc \in Idling,
         wk[w].pc \in Offering <=> r.pc \in Offering, r.pc = "done" => wk[w].pc = "done",
         Stealing(w)'
  PROVE  IInv'
<1>1. /\ TypeOK /\ Offers /\ w \in Workers /\ Active \subseteq Workers
      /\ offered \in 0..Cardinality(Active)
  BY Acting
<1>2. wk'[w] = r /\ \A v \in Workers : v # w => wk'[v] = wk[v]
  BY <1>1, WkUpdate
<1>3. Offers'
  BY <1>1, <1>2, OffersKept
<1> QED
  BY <1>1, <1>3, IdleStep

LEMMA StealAgeStep ==
  ASSUME IInv, NEW w \in Active, StealAge(w)
  PROVE  IInv'
<1>1. TypeOK /\ w \in Workers /\ wk[w] \in WkType
  BY Acting
<1>2. PICK v \in Workers \ {w} :
         wk' = [wk EXCEPT ![w].pc = "stealbottom", ![w].from = v, ![w].old = age[v]]
  BY DEF StealAge
<1>3. PICK r : r = [wk[w] EXCEPT !.pc = "stealbottom", !.from = v, !.old = age[v]]
  OBVIOUS
<1>4. age[v] \in AgeType
  BY <1>1, Facts
<1>5. r \in WkType /\ r.pc = "stealbottom" /\ r.from = v /\ r.old = age[v]
  BY <1>1, <1>3, <1>4 DEF WkType, Pcs
<1>6. /\ wk' = [wk EXCEPT ![w] = r] /\ wk[w].pc = "steal"
      /\ UNCHANGED <<phase, bottom, age, elems, overflow, created, done, offered>>
  BY <1>2, <1>3, ZenonT(40) DEF StealAge, At, queues, work
<1>7. wk'[w] = r
  BY <1>1, <1>5, <1>6, WkUpdate
<1>8. Stealing(w)'
  BY <1>5, <1>6, <1>7 DEF Stealing
<1> QED
  BY <1>5, <1>6, <1>8, IdleOn DEF Idling, Offering

\* The thief finds the queue empty, or goes on with an element that is there as long as
\* the age is what it was
LEMMA StealBottomStep ==
  ASSUME IInv, NEW w \in Active, StealBottom(w)
  PROVE  IInv'
<1>1. TypeOK /\ w \in Workers /\ wk[w] \in WkType /\ Stealing(w)
  BY Acting
<1>2. /\ wk[w].pc = "stealbottom"
      /\ UNCHANGED <<phase, bottom, age, elems, overflow, created, done, offered>>
  BY DEF StealBottom, At, queues, work
<1>3. CASE size(bottom[wk[w].from], wk[w].old.top) = 0
  <2>1. Continue(w, "steal") /\ "steal" \in Pcs
    BY <1>3 DEF StealBottom, Pcs
  <2>2. PICK r \in WkType : wk' = [wk EXCEPT ![w] = r] /\ r.pc = "steal"
    BY <1>1, <2>1, Continued
  <2>3. wk'[w] = r
    BY <1>1, <2>2, WkUpdate
  <2>4. Stealing(w)'
    BY <2>2, <2>3 DEF Stealing
  <2> QED
    BY <1>2, <2>2, <2>4, IdleOn DEF Idling, Offering
<1>4. CASE size(bottom[wk[w].from], wk[w].old.top) # 0
  <2>1. Goto(w, "stealread") /\ "stealread" \in Pcs
    BY <1>4 DEF StealBottom, Pcs
  <2>2. PICK r \in WkType : /\ wk' = [wk EXCEPT ![w] = r] /\ r.pc = "stealread"
                            /\ r.old = wk[w].old /\ r.from = wk[w].from
    BY <1>1, <2>1, Gone
  <2>3. wk'[w] = r /\ \A v \in Workers : v # w => wk'[v] = wk[v]
    BY <1>1, <2>2, WkUpdate
  <2>4. PICK v \in Workers : v = wk[w].from /\ v # w
    BY <1>1, <1>2, Locals DEF Stealing
  <2>5. wk[w].old = age[v] => Count(v) > 0
    <3>1. Known(v)
      BY DEF IInv
    <3>2. Gap(v) \in Nat /\ Gap(v) < N
      BY <1>1, Facts, Slot
    <3>3. wk[w].old = age[v] => Gap(v) # 0 /\ Gap(v) # N - 1
      BY <1>4, <2>4, <3>2, Slot DEF Gap, size
    <3>4. wk[v].pc = "popset" => Gap(v) = N - 1
      BY <3>1 DEF Known
    <3> QED
      BY <3>2, <3>3, <3>4, Slot DEF Count, CountAt
  <2>6. Framed(v)
    BY <1>2, <2>3, <2>4 DEF Framed
  <2>7. Count(v)' = Count(v)
    BY <2>6, FramedQueue
  <2>8. Stealing(w)'
    BY <1>1, <1>2, <2>2, <2>3, <2>4, <2>5, <2>7 DEF Stealing
  <2> QED
    BY <1>2, <2>2, <2>8, IdleOn DEF Idling, Offering
<1> QED
  BY <1>3, <1>4

LEMMA StealReadStep ==
  ASSUME IInv, NEW w \in Active, StealRead(w)
  PROVE  IInv'
<1>1. TypeOK /\ w \in Workers /\ wk[w] \in WkType /\ Stealing(w)
  BY Acting
<1>2. /\ wk[w].pc = "stealread"
      /\ UNCHANGED <<phase, bottom, age, elems, overflow, created, done, offered>>
  BY DEF StealRead, At, queues, work
<1>3. PICK v \in Workers : v = wk[w].from /\ v # w
  BY <1>1, <1>2, Locals DEF Stealing
<1>4. PICK t \in Tasks \cup {NoTask} : t = elems[v][wk[w].old.top]
  BY <1>1, <1>3, Facts, Locals
<1>5. PICK r : r = [wk[w] EXCEPT !.pc = "stealcas", !.task = t]
  OBVIOUS
<1>6. r \in WkType /\ r.pc = "stealcas" /\ r.from = v /\ r.old = wk[w].old /\ r.task = t
  BY <1>1, <1>3, <1>5 DEF WkType, Pcs
<1>7. wk' = [wk EXCEPT ![w] = r]
  BY <1>3, <1>4, <1>5 DEF StealRead
<1>8. wk'[w] = r /\ \A u \in Workers : u # w => wk'[u] = wk[u]
  BY <1>1, <1>6, <1>7, WkUpdate
<1>9. Framed(v)
  BY <1>2, <1>3, <1>8 DEF Framed
<1>10. Count(v)' = Count(v)
  BY <1>9, FramedQueue
<1>11. Stealing(w)'
  BY <1>1, <1>2, <1>3, <1>4, <1>6, <1>8, <1>10 DEF Stealing
<1> QED
  BY <1>2, <1>6, <1>7, <1>11, IdleOn DEF Idling, Offering

\* Places at which a thief knows nothing
LEMMA StealsNothing ==
  ASSUME NEW w, wk'[w].pc \notin {"stealbottom", "stealread", "stealcas"}
  PROVE  Stealing(w)'
BY DEF Stealing

\* An offer is counted
LEMMA OfferCount ==
  ASSUME TypeOK, NEW w \in Active, Offer(w),
         offered = Cardinality({u \in Active : wk[u].pc \in Offering})
  PROVE  /\ offered' \in 0..Cardinality(Active) /\ Active' = Active
         /\ offered' = Cardinality({u \in Active : wk'[u].pc \in Offering})
<1>1. /\ w \in Workers /\ Active \subseteq Workers /\ IsFiniteSet(Active)
      /\ offered \in 0..Cardinality(Active) /\ Cardinality(Active) \in Nat
  BY PhaseFacts DEF TypeOK
<1>2. /\ wk[w].pc = "steal" /\ offered' = offered + 1 /\ Continue(w, "check")
      /\ Active' = Active
  BY DEF Offer, At, queues, Active
<1>3. PICK r \in WkType : wk' = [wk EXCEPT ![w] = r] /\ r.pc = "check"
  BY <1>1, <1>2, Continued DEF Pcs
<1>4. wk'[w] = r /\ \A u \in Workers : u # w => wk'[u] = wk[u]
  BY <1>1, <1>3, WkUpdate
<1>5. PICK S : S = {u \in Active : wk[u].pc \in Offering}
  OBVIOUS
<1>6. {u \in Active : wk'[u].pc \in Offering} = S \cup {w} /\ w \notin S
  BY <1>1, <1>2, <1>3, <1>4, <1>5 DEF Offering
<1>7. S \subseteq Active /\ IsFiniteSet(S) /\ IsFiniteSet(S \cup {w}) /\ S \cup {w} \subseteq Active
  BY <1>1, <1>5, FS_Subset, FS_AddElement
<1>8. offered' = Cardinality(S \cup {w})
  BY <1>2, <1>5, <1>6, <1>7, FS_AddElement
<1>9. Cardinality(S \cup {w}) <= Cardinality(Active)
  BY <1>1, <1>7, FS_Subset
<1>10. offered' \in 0..Cardinality(Active)
  BY <1>1, <1>2, <1>8, <1>9
<1> QED
  BY <1>2, <1>6, <1>8, <1>10

\* And a withdrawn one no more
LEMMA WithdrawCount ==
  ASSUME TypeOK, NEW w \in Active, Withdraw(w),
         offered = Cardinality({u \in Active : wk[u].pc \in Offering})
  PROVE  /\ offered' \in 0..Cardinality(Active) /\ Active' = Active
         /\ offered' = Cardinality({u \in Active : wk'[u].pc \in Offering})
<1>1. /\ w \in Workers /\ Active \subseteq Workers /\ IsFiniteSet(Active)
      /\ offered \in 0..Cardinality(Active) /\ Cardinality(Active) \in Nat
  BY PhaseFacts DEF TypeOK
<1>2. /\ wk[w].pc = "withdraw" /\ offered' = offered - 1 /\ Continue(w, "steal")
      /\ Active' = Active
  BY DEF Withdraw, At, queues, Active
<1>3. PICK r \in WkType : wk' = [wk EXCEPT ![w] = r] /\ r.pc = "steal"
  BY <1>1, <1>2, Continued DEF Pcs
<1>4. wk'[w] = r /\ \A u \in Workers : u # w => wk'[u] = wk[u]
  BY <1>1, <1>3, WkUpdate
<1>5. PICK S : S = {u \in Active : wk[u].pc \in Offering}
  OBVIOUS
<1>6. {u \in Active : wk'[u].pc \in Offering} = S \ {w} /\ w \in S
  BY <1>1, <1>2, <1>3, <1>4, <1>5 DEF Offering
<1>7. /\ S \subseteq Active /\ IsFiniteSet(S) /\ IsFiniteSet(S \ {w})
      /\ Cardinality(S \ {w}) \in Nat
  BY <1>1, <1>5, FS_Subset, FS_RemoveElement, FS_CardinalityType
<1>8. offered' = Cardinality(S \ {w})
  BY <1>2, <1>5, <1>6, <1>7, FS_RemoveElement
<1>9. offered' \in 0..Cardinality(Active)
  BY <1>1, <1>2, <1>7, <1>8
<1> QED
  BY <1>2, <1>6, <1>8, <1>9

LEMMA OfferStep ==
  ASSUME IInv, NEW w \in Active, Offer(w)
  PROVE  IInv'
<1>1. TypeOK /\ w \in Workers /\ Offers /\ Active \subseteq Workers
  BY Acting
<1>2. /\ wk[w].pc = "steal" /\ Continue(w, "check")
      /\ UNCHANGED <<phase, bottom, age, elems, overflow, created, done>>
  BY DEF Offer, At, queues, work
<1>3. PICK r \in WkType : wk' = [wk EXCEPT ![w] = r] /\ r.pc = "check"
  BY <1>1, <1>2, Continued DEF Pcs
<1>4. wk'[w] = r /\ \A u \in Workers : u # w => wk'[u] = wk[u]
  BY <1>1, <1>3, WkUpdate
<1>5. /\ offered' \in 0..Cardinality(Active) /\ Active' = Active
      /\ offered' = Cardinality({u \in Active : wk'[u].pc \in Offering})
  BY <1>1, OfferCount DEF Offers
<1>6. (\E u \in Active : wk'[u].pc = "done") => \A u \in Active : wk'[u].pc \in Idling
  BY <1>1, <1>3, <1>4 DEF Offers, Idling
<1>7. Offers'
  BY <1>5, <1>6 DEF Offers
<1> QED
  BY <1>1, <1>2, <1>3, <1>4, <1>5, <1>7, IdleStep, StealsNothing DEF Idling

LEMMA WithdrawStep ==
  ASSUME IInv, NEW w \in Active, Withdraw(w)
  PROVE  IInv'
<1>1. TypeOK /\ w \in Workers /\ Offers /\ Active \subseteq Workers
  BY Acting
<1>2. /\ wk[w].pc = "withdraw" /\ Continue(w, "steal")
      /\ UNCHANGED <<phase, bottom, age, elems, overflow, created, done>>
  BY DEF Withdraw, At, queues, work
<1>3. PICK r \in WkType : wk' = [wk EXCEPT ![w] = r] /\ r.pc = "steal"
  BY <1>1, <1>2, Continued DEF Pcs
<1>4. wk'[w] = r /\ \A u \in Workers : u # w => wk'[u] = wk[u]
  BY <1>1, <1>3, WkUpdate
<1>5. /\ offered' \in 0..Cardinality(Active) /\ Active' = Active
      /\ offered' = Cardinality({u \in Active : wk'[u].pc \in Offering})
  BY <1>1, WithdrawCount DEF Offers
<1>6. (\E u \in Active : wk'[u].pc = "done") => \A u \in Active : wk'[u].pc \in Idling
  BY <1>1, <1>3, <1>4 DEF Offers, Idling
<1>7. Offers'
  BY <1>5, <1>6 DEF Offers
<1> QED
  BY <1>1, <1>2, <1>3, <1>4, <1>5, <1>7, IdleStep, StealsNothing DEF Idling

\* When all have offered, all are idle
LEMMA CheckOfferedStep ==
  ASSUME IInv, NEW w \in Active, CheckOffered(w)
  PROVE  IInv'
<1>1. /\ TypeOK /\ w \in Workers /\ wk[w] \in WkType /\ Offers /\ Active \subseteq Workers
      /\ offered \in 0..Cardinality(Active) /\ Cardinality(Active) \in Nat
  BY Acting
<1>2. /\ wk[w].pc = "check"
      /\ UNCHANGED <<phase, bottom, age, elems, overflow, created, done, offered>>
  BY DEF CheckOffered, At, queues, work
<1>3. PICK l \in {"done", "peek"} : l = IF offered = Cardinality(Active) THEN "done" ELSE "peek"
  OBVIOUS
<1>4. PICK U \in SUBSET Workers : U = IF offered = Cardinality(Active) THEN {} ELSE Workers
  OBVIOUS
<1>5. PICK r : r = [wk[w] EXCEPT !.pc = l, !.unseen = U]
  OBVIOUS
<1>6. r \in WkType /\ r.pc = l
  BY <1>1, <1>3, <1>5 DEF WkType, Pcs
<1>7. wk' = [wk EXCEPT ![w] = r]
  BY <1>3, <1>4, <1>5 DEF CheckOffered
<1>8. wk'[w] = r /\ \A u \in Workers : u # w => wk'[u] = wk[u]
  BY <1>1, <1>6, <1>7, WkUpdate
<1>9. CASE l = "peek"
  BY <1>2, <1>6, <1>7, <1>8, <1>9, IdleOn, StealsNothing DEF Idling, Offering
<1>10. CASE l = "done"
  <2>1. Active' = Active /\ offered = Cardinality(Active)
    BY <1>2, <1>3, <1>10 DEF Active
  <2>2. PICK S : S = {u \in Active : wk[u].pc \in Offering}
    OBVIOUS
  <2>3. {u \in Active : wk'[u].pc \in Offering} = S
    BY <1>1, <1>2, <1>6, <1>8, <1>10, <2>2 DEF Offering
  <2>4. S = Active
    <3>1. IsFiniteSet(Active) /\ S \subseteq Active /\ Cardinality(S) = Cardinality(Active)
      BY <1>1, <2>1, <2>2, PhaseFacts DEF Offers
    <3> QED
      BY <3>1, FS_Subset
  <2>5. \A u \in Active : wk'[u].pc \in Offering
    BY <2>3, <2>4
  <2>6. \A u \in Active : wk'[u].pc \in Idling
    BY <2>5 DEF Offering, Idling
  <2>7. Offers'
    BY <1>1, <1>2, <2>1, <2>2, <2>3, <2>6 DEF Offers
  <2> QED
    BY <1>1, <1>2, <1>6, <1>7, <1>8, <1>10, <2>7, IdleStep, StealsNothing DEF Idling
<1> QED
  BY <1>3, <1>9, <1>10

LEMMA PeekStep ==
  ASSUME IInv, NEW w \in Active, Peek(w)
  PROVE  IInv'
<1>1. TypeOK /\ w \in Workers /\ wk[w] \in WkType
  BY Acting
<1>2. /\ wk[w].pc = "peek"
      /\ UNCHANGED <<phase, bottom, age, elems, overflow, created, done, offered>>
  BY DEF Peek, At, queues, work
<1>3. \E r \in WkType : wk' = [wk EXCEPT ![w] = r] /\ r.pc \in {"check", "withdraw", "peek"}
  <2>1. CASE Continue(w, "check")
    BY <1>1, <2>1, Continued DEF Pcs
  <2>2. CASE Continue(w, "withdraw")
    BY <1>1, <2>2, Continued DEF Pcs
  <2>3. ASSUME NEW v \in wk[w].unseen, wk' = [wk EXCEPT ![w].unseen = @ \ {v}]
        PROVE  \E r \in WkType : wk' = [wk EXCEPT ![w] = r] /\ r.pc = "peek"
    <3>1. PICK U \in SUBSET Workers : U = wk[w].unseen \ {v}
      BY <1>1, Locals
    <3>2. PICK r : r = [wk[w] EXCEPT !.unseen = U]
      OBVIOUS
    <3>3. r \in WkType /\ r.pc = "peek"
      BY <1>1, <1>2, <3>2 DEF WkType
    <3>4. wk' = [wk EXCEPT ![w] = r]
      BY <2>3, <3>1, <3>2
    <3> QED
      BY <3>3, <3>4
  <2> QED
    BY <2>1, <2>2, <2>3 DEF Peek
<1>4. PICK r \in WkType : wk' = [wk EXCEPT ![w] = r] /\ r.pc \in {"check", "withdraw", "peek"}
  BY <1>3
<1>5. wk'[w] = r
  BY <1>1, <1>4, WkUpdate
<1> QED
  BY <1>2, <1>4, <1>5, IdleOn, StealsNothing DEF Idling, Offering

-----------------------------------------------------------------------------
(* Steps of an owner                                                       *)

\* The tasks are where they were
LEMMA SamePlaces ==
  ASSUME Unique, UNCHANGED <<done, created>>,
         \A v \in Workers : /\ SlotTask'[v] = SlotTask[v] /\ StackTask'[v] = StackTask[v]
                            /\ ClaimTask'[v] = ClaimTask[v]
  PROVE  Unique'
<1>1. SlotTask' = SlotTask
  BY DEF SlotTask
<1>2. StackTask' = StackTask
  BY DEF StackTask
<1>3. ClaimTask' = ClaimTask
  BY DEF ClaimTask
<1> QED
  BY <1>1, <1>2, <1>3 DEF Unique

\* Tags are not used up while tasks stay, or one by one
LEMMA TagKept ==
  ASSUME TypeOK, TypeOK', NEW w \in Workers, TagUsed(w), created <= created',
         \A s \in Slots : \/ SlotTask'[w][s] = SlotTask[w][s]
                          \/ SlotTask'[w][s] \notin 1..created,
         age'[w].tag + Owed(w)' <= age[w].tag + Owed(w)
  PROVE  TagUsed(w)'
<1>1. created \in Nat /\ created' \in Nat /\ age[w].tag \in Nat /\ age'[w].tag \in Nat
  <2>1. created \in Nat /\ age[w].tag \in Nat
    BY PhaseFacts, Facts
  <2>2. created' \in Nat
    <3>1. phase'.tasks \in Nat
      BY QueueAssumption DEF TypeOK
    <3> QED
      BY <3>1 DEF TypeOK, Tasks
  <2>3. age'[w].tag \in Nat
    BY Slot DEF TypeOK
  <2> QED
    BY <2>1, <2>2, <2>3
<1>2. Owed(w) \in Nat /\ Owed(w)' \in Nat
  BY DEF Owed
<1>3. /\ Cardinality(Out(SlotTask[w], created)) \in Nat
      /\ Cardinality(Out(SlotTask'[w], created')) \in Nat
      /\ Cardinality(Out(SlotTask[w], created)) <= Cardinality(Out(SlotTask'[w], created'))
  BY <1>1, OutGrows
<1> QED
  BY <1>1, <1>2, <1>3 DEF TagUsed

LEMMA TagGained ==
  ASSUME TypeOK, TypeOK', NEW w \in Workers, TagUsed(w), created' = created,
         NEW r \in Slots, SlotTask[w][r] \in 1..created,
         \A s \in Slots : \/ SlotTask'[w][s] = SlotTask[w][s]
                          \/ SlotTask'[w][s] \notin 1..created,
         \A s \in Slots : SlotTask'[w][s] # SlotTask[w][r],
         age'[w].tag + Owed(w)' <= age[w].tag + Owed(w) + 2
  PROVE  TagUsed(w)'
<1>1. created \in Nat /\ age[w].tag \in Nat /\ age'[w].tag \in Nat
  <2>1. created \in Nat /\ age[w].tag \in Nat
    BY PhaseFacts, Facts
  <2>2. age'[w].tag \in Nat
    BY Slot DEF TypeOK
  <2> QED
    BY <2>1, <2>2
<1>2. Owed(w) \in Nat /\ Owed(w)' \in Nat
  BY DEF Owed
<1>3. /\ Cardinality(Out(SlotTask[w], created)) \in Nat
      /\ Cardinality(Out(SlotTask'[w], created)) \in Nat
      /\ Cardinality(Out(SlotTask[w], created)) + 1 <= Cardinality(Out(SlotTask'[w], created))
  BY <1>1, OutGains
<1> QED
  BY <1>1, <1>2, <1>3 DEF TagUsed

\* A tag is left
LEMMA TagLeft ==
  ASSUME TagsSuffice, TypeOK, NEW w \in Workers, TagUsed(w)
  PROVE  age[w].tag + Owed(w) + 2 <= TagRange
<1>1. created \in Nat /\ created <= phase.tasks /\ phase.tasks \in Nat /\ phase \in Phases
  BY PhaseFacts
<1>2. 2 * phase.tasks <= TagRange
  BY <1>1 DEF TagsSuffice
<1>3. PICK c \in Nat : c = Cardinality(Out(SlotTask[w], created)) /\ c <= created
  BY <1>1, OutFinite
<1>4. age[w].tag \in Nat /\ Owed(w) \in Nat /\ TagRange \in Nat
  BY Facts, Slot DEF Owed
<1> QED
  BY <1>1, <1>2, <1>3, <1>4 DEF TagUsed

\* An age is followed by a later one
LEMMA Later ==
  ASSUME NEW a \in AgeType, a.tag + 1 < TagRange
  PROVE  /\ increment(a) \in AgeType /\ increment(a).top = increment_index(a.top)
         /\ increment(a).tag = IF increment_index(a.top) = 0 THEN a.tag + 1 ELSE a.tag
         /\ Before(a, increment(a)) /\ increment(a) # a
<1>1. a.top \in Slots /\ a.tag \in Nat /\ a.top \in Nat /\ a.top < N
  BY Slot DEF AgeType
<1>2. (a.tag + 1) % TagRange = a.tag + 1
  BY <1>1, Slot, Modulo
<1>3. PICK t \in Nat : t = IF increment_index(a.top) = 0 THEN a.tag + 1 ELSE a.tag
  BY <1>1
<1>4. PICK i \in Slots : i = increment_index(a.top) /\ i = IF a.top = N - 1 THEN 0 ELSE a.top + 1
  BY <1>1, Indices
<1>5. increment(a) = [top |-> i, tag |-> t]
  BY <1>2, <1>3, <1>4 DEF increment
<1>6. t \in 0..(TagRange - 1)
  BY <1>1, <1>3, Slot
<1>7. increment(a) \in AgeType /\ increment(a).top = i /\ increment(a).tag = t
  BY <1>5, <1>6 DEF AgeType
<1>8. Before(a, increment(a)) /\ increment(a) # a
  <2>1. PICK b : b = increment(a) /\ b.top = i /\ b.tag = t
    BY <1>7
  <2>2. (i = 0 /\ t = a.tag + 1) \/ (i = a.top + 1 /\ t = a.tag)
    BY <1>1, <1>3, <1>4
  <2>3. Before(a, b)
    BY <1>1, <2>1, <2>2 DEF Before
  <2>4. ~Before(a, a)
    BY <1>1 DEF Before
  <2> QED
    BY <2>1, <2>3, <2>4
<1> QED
  BY <1>3, <1>4, <1>7, <1>8

\* A step of an owner at work, or about to have none
LEMMA OwnStep ==
  ASSUME IInv, NEW w \in Active, TypeOK', UNCHANGED <<phase, offered>>, created <= created',
         \A v \in Workers : v # w => Framed(v),
         wk[w].pc \notin Idling, wk'[w].pc \in Pcs,
         wk'[w].pc \notin Offering \cup {"stealbottom", "stealread", "stealcas"},
         Filled(w)', Known(w)', TagUsed(w)', Kept(w), Unique'
  PROVE  IInv'
<1>1. TypeOK /\ Offers /\ w \in Workers /\ Active \subseteq Workers
  BY Acting
<1>2. \A v \in Workers : v # w => wk'[v] = wk[v]
  BY DEF Framed
<1>3. Offers'
  <2>1. ~(\E v \in Active : wk[v].pc = "done")
    BY <1>1, NoneLeft
  <2> QED
    BY <1>1, <1>2, <2>1, OffersKept DEF Offering, Idling
<1>4. created' \in Nat
  <2>1. phase'.tasks \in Nat
    BY QueueAssumption DEF TypeOK
  <2> QED
    BY <2>1 DEF TypeOK, Tasks
<1>5. ASSUME NEW v \in Workers
      PROVE  Filled(v)' /\ Known(v)' /\ TagUsed(v)' /\ Kept(v)
  <2>1. CASE v = w
    BY <2>1
  <2>2. CASE v # w
    BY <2>2, <1>4, FramedOwner
  <2> QED
    BY <2>1, <2>2
<1>6. Stealing(w)'
  BY StealsNothing
<1> QED
  BY <1>1, <1>2, <1>3, <1>5, <1>6, StepKeeps

\* The owner's element is the one at distance Gap
LEMMA Window ==
  ASSUME TypeOK, NEW w \in Workers
  PROVE  /\ \A s \in Slots : /\ dirty_size(s, age[w].top) \in Nat
                             /\ dirty_size(s, age[w].top) < N
                             /\ dirty_size(s, age[w].top) = Gap(w) <=> s = bottom[w]
                             /\ dirty_size(s, age[w].top) = 0 <=> s = age[w].top
         /\ Gap(w) = 0 <=> bottom[w] = age[w].top
         /\ Gap(w) \in Nat /\ Gap(w) < N
<1>1. bottom[w] \in Slots /\ age[w].top \in Slots
  BY Facts
<1>2. \A s \in Slots : dirty_size(s, age[w].top) \in Nat /\ dirty_size(s, age[w].top) < N
  BY <1>1, Dirty, Slot
<1>3. \A s \in Slots : dirty_size(s, age[w].top) = Gap(w) <=> s = bottom[w]
  BY <1>1, SameDistance DEF Gap
<1>4. \A s \in Slots : dirty_size(s, age[w].top) = 0 <=> s = age[w].top
  BY <1>1, Distance
<1> QED
  BY <1>1, <1>2, <1>3, <1>4 DEF Gap

\* A task moves from a slot of v to the hands of w
LEMMA Taken ==
  ASSUME TypeOK, Unique, UNCHANGED <<done, created>>,
         NEW v \in Workers, NEW s \in Slots, NEW w \in Workers,
         SlotTask[v][s] # 0, ClaimTask[w] = 0,
         SlotTask'[v][s] = 0, ClaimTask'[w] = SlotTask[v][s],
         \A r \in Slots : r # s => SlotTask'[v][r] = SlotTask[v][r],
         \A u \in Workers : u # v => SlotTask'[u] = SlotTask[u],
         \A u \in Workers : u # w => ClaimTask'[u] = ClaimTask[u],
         \A u \in Workers : StackTask'[u] = StackTask[u]
  PROVE  /\ Unique' /\ SlotTask[v][s] \in 1..created
         /\ \A r \in Slots : \/ SlotTask'[v][r] = SlotTask[v][r]
                             \/ SlotTask'[v][r] \notin 1..created
         /\ \A r \in Slots : SlotTask'[v][r] # SlotTask[v][s]
<1>1. created \in Nat
  BY PhaseFacts
<1>2. Once(SlotTask, StackTask, ClaimTask, done, created)
  BY DEF Unique
<1>3. /\ \A u \in Workers : \A r \in Slots : SlotTask[u][r] \in 0..created
      /\ \A u \in Workers : ClaimTask[u] \in 0..created
  BY <1>2 DEF Once, Typed
<1>4. \A u \in Workers : \A r \in Slots : u # v \/ r # s => SlotTask'[u][r] = SlotTask[u][r]
  OBVIOUS
<1>5. SlotTask' \in [Workers -> [Slots -> 0..created]]
  <2>1. \A u \in Workers : \A r \in Slots : SlotTask'[u][r] \in 0..created
    BY <1>1, <1>3, <1>4
  <2> QED
    BY <2>1 DEF SlotTask
<1>6. ClaimTask' \in [Workers -> 0..created]
  <2>1. \A u \in Workers : ClaimTask'[u] \in 0..created
    BY <1>3
  <2> QED
    BY <2>1 DEF ClaimTask
<1>7. StackTask' = StackTask
  BY DEF StackTask
<1>8. Once(SlotTask', StackTask, ClaimTask', done, created)
  <2>1. SlotClaimed(SlotTask, ClaimTask, SlotTask', ClaimTask', v, s, w, created)
    BY <1>4, <1>5, <1>6 DEF SlotClaimed
  <2> QED
    BY <1>1, <1>2, <2>1, SlotToClaim
<1>9. SlotTask[v][s] \in 1..created
  BY <1>1, <1>3
<1>10. \A r \in Slots : SlotTask'[v][r] # SlotTask[v][s]
  <2>1. \A r \in Slots : r # s => SlotTask[v][s] # SlotTask[v][r]
    BY <1>2 DEF Once, SlotsOnce
  <2> QED
    BY <2>1
<1>11. \A r \in Slots : SlotTask'[v][r] = SlotTask[v][r] \/ SlotTask'[v][r] \notin 1..created
  BY <1>1
<1> QED
  BY <1>7, <1>8, <1>9, <1>10, <1>11 DEF Unique

LEMMA PopLocalStep ==
  ASSUME IInv, NEW w \in Active, PopLocal(w)
  PROVE  IInv'
<1>1. /\ TypeOK /\ w \in Workers /\ wk[w] \in WkType /\ Offers /\ Known(w) /\ Filled(w)
      /\ TagUsed(w) /\ Unique /\ Active \subseteq Workers /\ offered \in 0..Cardinality(Active)
  BY Acting
<1>2. /\ wk[w].pc = "drain"
      /\ UNCHANGED <<phase, age, elems, overflow, created, done, offered>>
  BY DEF PopLocal, At, work
<1>3. /\ Gap(w) \in Nat /\ Gap(w) < N /\ Gap(w) # N - 1 /\ N \in Nat /\ N > 3
      /\ bottom[w] \in Slots /\ age[w].top \in Slots
  BY <1>1, <1>2, Facts, Slot DEF Known, Popping
<1>4. Active' = Active
  BY <1>2 DEF Active
<1>5. CASE Gap(w) = 0
  <2>1. UNCHANGED bottom /\ overflow[w] = <<>> /\ Continue(w, "steal") /\ "steal" \in Pcs
    BY <1>5 DEF PopLocal, Gap, Pcs
  <2>2. PICK r \in WkType : wk' = [wk EXCEPT ![w] = r] /\ r.pc = "steal"
    BY <1>1, <2>1, Continued
  <2>3. wk'[w] = r /\ \A v \in Workers : v # w => wk'[v] = wk[v]
    BY <1>1, <2>2, WkUpdate
  <2>4. Gap(w)' = Gap(w)
    BY <1>2, <2>1 DEF Gap
  <2>5. Known(w)'
    BY <1>2, <1>3, <1>4, <1>5, <2>1, <2>2, <2>3, <2>4 DEF Known, Claiming, Popping, Idling
  <2>6. ~(\E v \in Active : wk[v].pc = "done")
    BY <1>1, <1>2, NoneLeft DEF Idling
  <2>7. Offers'
    BY <1>1, <1>2, <2>2, <2>3, <2>6, OffersKept DEF Offering
  <2>8. CountAt(r.pc, Gap(w)) = Count(w)
    BY <1>2, <2>2 DEF CountAt, Count
  <2> QED
    BY <1>1, <1>2, <2>1, <2>2, <2>3, <2>5, <2>7, <2>8, LocalStep, StealsNothing
       DEF Claiming, Popping
<1>6. CASE Gap(w) # 0
  <2>1. PICK b \in Slots : b = decrement_index(bottom[w]) /\ dirty_size(b, age[w].top) = Gap(w) - 1
    BY <1>3, <1>6, Indices, Distance DEF Gap
  <2>2. PICK r : r = [wk[w] EXCEPT !.pc = "popread", !.bot = b]
    OBVIOUS
  <2>3. r \in WkType /\ r.pc = "popread" /\ r.bot = b
    BY <1>1, <2>2 DEF WkType, Pcs
  <2>4. bottom' = [bottom EXCEPT ![w] = b] /\ wk' = [wk EXCEPT ![w] = r]
    BY <1>6, <2>1, <2>2 DEF PopLocal, Gap
  <2>5. /\ wk' \in [Workers -> WkType] /\ wk'[w] = r
        /\ \A v \in Workers : v # w => wk'[v] = wk[v]
    BY <1>1, <2>3, <2>4, WkUpdate
  <2>6. /\ bottom' \in [Workers -> Slots] /\ bottom'[w] = b
        /\ \A v \in Workers : v # w => bottom'[v] = bottom[v]
    BY <1>1, <2>4 DEF TypeOK
  <2>7. TypeOK'
    BY <1>1, <1>2, <1>4, <2>5, <2>6 DEF TypeOK, WkType, AgeType, Pcs, Tasks
  <2>8. Gap(w)' = Gap(w) - 1
    BY <1>2, <2>1, <2>6 DEF Gap
  <2>9. Count(w) = Gap(w) /\ Count(w)' = Gap(w)
    BY <1>2, <1>3, <2>3, <2>5, <2>8 DEF Count, CountAt
  <2>10. \A s \in Slots : Held(w, s)' <=> Held(w, s)
    BY <1>2, <2>3, <2>5, <2>9 DEF Held, At
  <2>11. /\ SlotTask'[w] = SlotTask[w] /\ StackTask'[w] = StackTask[w]
         /\ ClaimTask'[w] = ClaimTask[w]
    <3>1. SlotTask'[w] = SlotTask[w]
      BY <1>1, <1>2, <2>10 DEF SlotTask
    <3>2. StackTask'[w] = StackTask[w]
      BY <1>1, <1>2 DEF StackTask
    <3> QED
      BY <1>1, <1>2, <2>3, <2>5, <3>1, <3>2 DEF ClaimTask, Claiming
  <2>12. \A v \in Workers : v # w => Framed(v)
    BY <1>2, <2>5, <2>6 DEF Framed
  <2>13. Unique'
    BY <1>1, <1>2, <2>11, <2>12, FramedQueue, SamePlaces
  <2>14. Filled(w)'
    BY <1>1, <1>2, <2>10 DEF Filled
  <2>15. Known(w)'
    BY <1>1, <1>2, <1>4, <2>3, <2>5, <2>6 DEF Known, Claiming, Popping, Idling
  <2>16. TagUsed(w)'
    <3>1. Owed(w) = 0 /\ Owed(w)' = 0
      BY <1>2, <1>3, <2>8 DEF Owed, Popping
    <3>2. created \in Nat /\ age[w].tag \in Nat
      BY <1>1, PhaseFacts, Facts
    <3> QED
      BY <1>1, <1>2, <2>7, <2>11, <3>1, <3>2, TagKept
  <2>17. Kept(w)
    BY <1>2, <2>9 DEF Kept
  <2>18. created <= created' /\ wk[w].pc \notin Idling /\ wk'[w].pc \in Pcs
         /\ wk'[w].pc \notin Offering \cup {"stealbottom", "stealread", "stealcas"}
    BY <1>1, <1>2, <2>3, <2>5, PhaseFacts DEF Idling, Pcs, Offering
  <2> QED
    BY <1>2, <2>7, <2>12, <2>13, <2>14, <2>15, <2>16, <2>17, <2>18, OwnStep
<1> QED
  BY <1>5, <1>6

\* The owner reads age once more, and takes an element that is not the last
LEMMA PopReadStep ==
  ASSUME IInv, NEW w \in Active, PopRead(w)
  PROVE  IInv'
<1>1. /\ TypeOK /\ w \in Workers /\ wk[w] \in WkType /\ Offers /\ Known(w) /\ Filled(w)
      /\ TagUsed(w) /\ Unique /\ Active \subseteq Workers /\ offered \in 0..Cardinality(Active)
  BY Acting
<1>2. /\ wk[w].pc = "popread"
      /\ UNCHANGED <<phase, bottom, age, elems, overflow, created, done, offered>>
  BY DEF PopRead, At, queues, work
<1>3. /\ Gap(w) \in Nat /\ Gap(w) < N /\ N \in Nat /\ N > 3
      /\ bottom[w] \in Slots /\ age[w].top \in Slots
      /\ wk[w].bot = bottom[w]
  BY <1>1, <1>2, Facts, Slot DEF Known, Popping
<1>4. Active' = Active /\ Gap(w)' = Gap(w)
  BY <1>2 DEF Active, Gap
<1>5. size(wk[w].bot, age[w].top) = IF Gap(w) = N - 1 THEN 0 ELSE Gap(w)
  BY <1>3 DEF size, Gap
<1>6. ~(\E v \in Active : wk[v].pc = "done")
  BY <1>1, <1>2, NoneLeft DEF Idling
<1>7. CASE ~(size(wk[w].bot, age[w].top) > 0)
  <2>1. PICK t \in Tasks \cup {NoTask} : t = elems[w][bottom[w]]
    BY <1>1, <1>3, Facts
  <2>2. PICK r : r = [wk[w] EXCEPT !.pc = "popage", !.task = t]
    OBVIOUS
  <2>3. r \in WkType /\ r.pc = "popage" /\ r.task = t /\ r.bot = wk[w].bot
    BY <1>1, <2>2 DEF WkType, Pcs
  <2>4. wk' = [wk EXCEPT ![w] = r]
    BY <1>3, <1>7, <2>1, <2>2 DEF PopRead
  <2>5. wk'[w] = r /\ \A v \in Workers : v # w => wk'[v] = wk[v]
    BY <1>1, <2>3, <2>4, WkUpdate
  <2>6. Gap(w) = 0 \/ Gap(w) = N - 1
    BY <1>3, <1>5, <1>7
  <2>7. Known(w)'
    BY <1>1, <1>2, <1>3, <1>4, <2>1, <2>3, <2>5, <2>6 DEF Known, Claiming, Popping, Idling
  <2>8. Offers'
    BY <1>1, <1>2, <1>6, <2>3, <2>5, OffersKept DEF Offering
  <2>9. CountAt(r.pc, Gap(w)) = Count(w)
    BY <1>2, <2>3 DEF CountAt, Count
  <2> QED
    BY <1>1, <1>2, <2>3, <2>4, <2>5, <2>7, <2>8, <2>9, LocalStep, StealsNothing
       DEF Claiming, Popping
<1>8. CASE size(wk[w].bot, age[w].top) > 0
  <2>1. Gap(w) > 0 /\ Gap(w) # N - 1
    BY <1>3, <1>5, <1>8
  <2>2. Count(w) = Gap(w) + 1
    BY <1>2, <2>1 DEF Count, CountAt
  <2>3. Held(w, bottom[w])
    BY <1>1, <1>3, <2>2, Window DEF Held
  <2>4. PICK t \in Tasks : t = elems[w][bottom[w]]
    <3>1. elems[w][bottom[w]] # NoTask /\ elems[w][bottom[w]] \in Tasks \cup {NoTask}
      BY <1>1, <1>3, <2>3, Facts DEF Filled
    <3> QED
      BY <3>1
  <2>5. Claim(w, t)
    BY <1>3, <1>8, <2>4 DEF PopRead
  <2>6. PICK r \in WkType : wk' = [wk EXCEPT ![w] = r] /\ r.pc = "process" /\ r.task = t
    BY <1>1, <2>5, ClaimedTask
  <2>7. /\ wk' \in [Workers -> WkType] /\ wk'[w] = r
        /\ \A v \in Workers : v # w => wk'[v] = wk[v]
    BY <1>1, <2>6, WkUpdate
  <2>8. TypeOK'
    BY <1>1, <1>2, <1>4, <2>7 DEF TypeOK, WkType, AgeType, Pcs, Tasks
  <2>9. Count(w)' = Gap(w)
    BY <1>4, <2>1, <2>6, <2>7 DEF Count, CountAt
  <2>10. ASSUME NEW s \in Slots
         PROVE  /\ s = bottom[w] => Held(w, s) /\ ~Held(w, s)'
                /\ s # bottom[w] => (Held(w, s)' <=> Held(w, s))
    <3>1. /\ dirty_size(s, age[w].top) \in Nat
          /\ dirty_size(s, age[w].top) = Gap(w) <=> s = bottom[w]
      BY <1>1, Window
    <3>2. Held(w, s) <=> dirty_size(s, age[w].top) < Gap(w) + 1
      BY <1>2, <2>2 DEF Held, At
    <3>3. Held(w, s)' <=> dirty_size(s, age[w].top) < Gap(w)
      BY <1>2, <2>6, <2>7, <2>9 DEF Held, At
    <3> QED
      BY <1>3, <3>1, <3>2, <3>3
  <2>11. \A v \in Workers : v # w => Framed(v)
    BY <1>2, <2>7 DEF Framed
  <2>12. /\ SlotTask[w][bottom[w]] = t /\ SlotTask'[w][bottom[w]] = 0
         /\ \A s \in Slots : s # bottom[w] => SlotTask'[w][s] = SlotTask[w][s]
    BY <1>1, <1>2, <1>3, <2>4, <2>10 DEF SlotTask, NoTask
  <2>13. Unique' /\ TagUsed(w)'
    <3>1. t \in Nat /\ t # 0 /\ created \in Nat
      BY <1>1, PhaseFacts
    <3>2. ClaimTask[w] = 0 /\ ClaimTask'[w] = t
      BY <1>1, <1>2, <2>6, <2>7 DEF ClaimTask, Claiming, NoTask
    <3>3. \A v \in Workers : v # w => SlotTask'[v] = SlotTask[v] /\ ClaimTask'[v] = ClaimTask[v]
      BY <2>11, FramedQueue
    <3>4. \A v \in Workers : StackTask'[v] = StackTask[v]
      BY <1>2 DEF StackTask
    <3>5. Unique' /\ \A s \in Slots : \/ SlotTask'[w][s] = SlotTask[w][s]
                                      \/ SlotTask'[w][s] \notin 1..created
      BY <1>1, <1>2, <1>3, <2>12, <3>1, <3>2, <3>3, <3>4, Taken
    <3>6. Owed(w) = 0 /\ Owed(w)' = 0 /\ age[w].tag \in Nat
      BY <1>1, <1>4, <2>1, Facts DEF Owed
    <3>7. TagUsed(w)'
      BY <1>1, <1>2, <2>8, <3>1, <3>5, <3>6, TagKept
    <3> QED
      BY <3>5, <3>7
  <2>14. Filled(w)'
    BY <1>1, <1>2, <2>10 DEF Filled
  <2>15. Known(w)'
    <3>1. t # NoTask
      BY <1>1, PhaseFacts DEF NoTask
    <3> QED
      BY <1>4, <2>1, <2>6, <2>7, <3>1 DEF Known, Claiming, Popping, Idling
  <2>16. Kept(w)
    BY <1>2, <2>1, <2>9 DEF Kept
  <2>17. created <= created' /\ wk[w].pc \notin Idling /\ wk'[w].pc \in Pcs
         /\ wk'[w].pc \notin Offering \cup {"stealbottom", "stealread", "stealcas"}
    BY <1>1, <1>2, <2>6, <2>7, PhaseFacts DEF Idling, Pcs, Offering
  <2> QED
    BY <1>2, <2>8, <2>11, <2>13, <2>14, <2>15, <2>16, <2>17, OwnStep
<1> QED
  BY <1>7, <1>8

LEMMA PopAgeStep ==
  ASSUME IInv, NEW w \in Active, PopAge(w)
  PROVE  IInv'
<1>1. /\ TypeOK /\ w \in Workers /\ wk[w] \in WkType /\ Offers /\ Known(w)
      /\ Active \subseteq Workers /\ offered \in 0..Cardinality(Active)
  BY Acting
<1>2. /\ wk[w].pc = "popage"
      /\ UNCHANGED <<phase, bottom, age, elems, overflow, created, done, offered>>
  BY DEF PopAge, At, queues, work
<1>3. /\ wk[w].bot = bottom[w] /\ wk[w].task = elems[w][bottom[w]]
      /\ Gap(w) = 0 \/ Gap(w) = N - 1
  BY <1>1, <1>2 DEF Known, Popping
<1>4. /\ Active' = Active /\ Gap(w)' = Gap(w) /\ age[w] \in AgeType /\ age[w].tag \in Nat
      /\ Gap(w) = 0 <=> bottom[w] = age[w].top
  BY <1>1, <1>2, Facts, Window DEF Active, Gap
<1>5. PICK l \in {"popcas", "popset"} : l = IF age[w].top = wk[w].bot THEN "popcas" ELSE "popset"
  OBVIOUS
<1>6. PICK r : r = [wk[w] EXCEPT !.old = age[w], !.pc = l]
  OBVIOUS
<1>7. /\ r \in WkType /\ r.pc = l /\ r.task = wk[w].task /\ r.bot = wk[w].bot
      /\ r.old = age[w]
  BY <1>1, <1>4, <1>5, <1>6 DEF WkType, Pcs
<1>8. wk' = [wk EXCEPT ![w] = r]
  BY <1>5, <1>6 DEF PopAge
<1>9. wk'[w] = r /\ \A v \in Workers : v # w => wk'[v] = wk[v]
  BY <1>1, <1>7, <1>8, WkUpdate
<1>10. (l = "popcas" => Gap(w) = 0) /\ (l = "popset" => Gap(w) = N - 1)
  BY <1>3, <1>4, <1>5
<1>11. Known(w)'
  BY <1>1, <1>2, <1>3, <1>4, <1>5, <1>7, <1>9, <1>10 DEF Known, Claiming, Popping, Idling
<1>12. Offers'
  <2>1. ~(\E v \in Active : wk[v].pc = "done")
    BY <1>1, <1>2, NoneLeft DEF Idling
  <2> QED
    BY <1>1, <1>2, <1>5, <1>7, <1>9, <2>1, OffersKept DEF Offering
<1>13. CountAt(r.pc, Gap(w)) = Count(w)
  BY <1>2, <1>5, <1>7, <1>10 DEF CountAt, Count
<1>14. Stealing(w)'
  BY <1>5, <1>7, <1>9, StealsNothing
<1> QED
  BY <1>1, <1>2, <1>5, <1>7, <1>8, <1>11, <1>12, <1>13, <1>14, LocalStep
     DEF Claiming, Popping

\* The age of the queue that is empty now
LEMMA Emptied ==
  ASSUME TypeOK, NEW w \in Workers, wk[w].bot = bottom[w], wk[w].old.tag + 1 < TagRange,
         age' = [age EXCEPT ![w] = EmptyAge(w)], UNCHANGED bottom
  PROVE  /\ EmptyAge(w) = [top |-> bottom[w], tag |-> wk[w].old.tag + 1]
         /\ age' \in [Workers -> AgeType] /\ age'[w].top = bottom[w]
         /\ age'[w].tag = wk[w].old.tag + 1 /\ Gap(w)' = 0
         /\ \A v \in Workers : v # w => age'[v] = age[v]
<1>1. wk[w].old.tag \in Nat /\ bottom[w] \in Slots
  BY Locals, Facts
<1>2. (wk[w].old.tag + 1) % TagRange = wk[w].old.tag + 1
  BY <1>1, Slot, Modulo
<1>3. EmptyAge(w) = [top |-> bottom[w], tag |-> wk[w].old.tag + 1]
  BY <1>2 DEF EmptyAge
<1>4. /\ EmptyAge(w) \in AgeType /\ EmptyAge(w).top = bottom[w]
      /\ EmptyAge(w).tag = wk[w].old.tag + 1
  BY <1>1, <1>3, Slot DEF AgeType
<1>5. age \in [Workers -> AgeType]
  BY DEF TypeOK, AgeType
<1>6. /\ age' \in [Workers -> AgeType] /\ age'[w] = EmptyAge(w)
      /\ \A v \in Workers : v # w => age'[v] = age[v]
  BY <1>4, <1>5
<1>7. Gap(w)' = 0
  BY <1>1, <1>4, <1>6, Distance DEF Gap
<1> QED
  BY <1>3, <1>4, <1>6, <1>7

\* The owner wins the last element and changes the tag, or leaves it to the thief
LEMMA PopSlowStep ==
  ASSUME TagsSuffice, IInv, NEW w \in Active, PopSlow(w)
  PROVE  IInv'
<1>1. /\ TypeOK /\ w \in Workers /\ wk[w] \in WkType /\ Offers /\ Known(w) /\ Filled(w)
      /\ TagUsed(w) /\ Unique /\ Active \subseteq Workers /\ offered \in 0..Cardinality(Active)
  BY Acting
<1>2. /\ wk[w].pc = "popcas"
      /\ UNCHANGED <<phase, bottom, elems, overflow, created, done, offered>>
  BY DEF PopSlow, At, work
<1>3. /\ wk[w].bot = bottom[w] /\ wk[w].task = elems[w][bottom[w]]
      /\ Gap(w) = 0 \/ Gap(w) = N - 1
      /\ wk[w].old.top = bottom[w] /\ wk[w].old.tag <= age[w].tag
      /\ Gap(w) = 0 => age[w] = wk[w].old
      /\ Gap(w) # 0 => age[w] = increment(wk[w].old)
  BY <1>1, <1>2 DEF Known, Popping
<1>4. Active' = Active /\ bottom[w] \in Slots /\ N \in Nat /\ N > 3
  BY <1>1, <1>2, Facts, Slot DEF Active
<1>5. ~(\E v \in Active : wk[v].pc = "done")
  BY <1>1, <1>2, NoneLeft DEF Idling
<1>6. CASE age[w] # wk[w].old
  <2>1. age' = age /\ Goto(w, "popset") /\ "popset" \in Pcs
    BY <1>6 DEF PopSlow, Pcs
  <2>2. PICK r \in WkType : /\ wk' = [wk EXCEPT ![w] = r] /\ r.pc = "popset"
                            /\ r.bot = wk[w].bot /\ r.old = wk[w].old
    BY <1>1, <2>1, Gone
  <2>3. wk'[w] = r /\ \A v \in Workers : v # w => wk'[v] = wk[v]
    BY <1>1, <2>2, WkUpdate
  <2>4. Gap(w) = N - 1 /\ Gap(w)' = Gap(w) /\ age[w] = increment(wk[w].old)
    BY <1>2, <1>3, <1>4, <1>6, <2>1 DEF Gap
  <2>5. Known(w)'
    BY <1>1, <1>2, <1>3, <1>4, <2>1, <2>2, <2>3, <2>4 DEF Known, Claiming, Popping, Idling
  <2>6. Offers'
    BY <1>1, <1>2, <1>5, <2>2, <2>3, OffersKept DEF Offering
  <2>7. CountAt(r.pc, Gap(w)) = Count(w)
    BY <1>2, <2>2, <2>4 DEF CountAt, Count
  <2>8. Stealing(w)'
    BY <2>2, <2>3, StealsNothing
  <2> QED
    BY <1>1, <1>2, <2>1, <2>2, <2>5, <2>6, <2>7, <2>8, LocalStep DEF Claiming, Popping
<1>7. CASE age[w] = wk[w].old
  <2>1. age[w].tag \in Nat /\ age[w].tag + Owed(w) + 2 <= TagRange /\ age[w] \in AgeType
    BY <1>1, Facts, TagLeft
  <2>2. age[w].tag + 1 < TagRange
    BY <2>1, Slot DEF Owed
  <2>3. Gap(w) = 0 /\ bottom[w] = age[w].top
    <3>1. increment(age[w]) # age[w]
      BY <2>1, <2>2, Later
    <3> QED
      BY <1>1, <1>3, <1>7, <3>1, Window
  <2>4. age' = [age EXCEPT ![w] = EmptyAge(w)] /\ Claim(w, wk[w].task)
    BY <1>7 DEF PopSlow
  <2>5. /\ age' \in [Workers -> AgeType] /\ age'[w].top = bottom[w]
        /\ age'[w].tag = age[w].tag + 1 /\ Gap(w)' = 0
        /\ \A v \in Workers : v # w => age'[v] = age[v]
    BY <1>1, <1>2, <1>3, <1>7, <2>2, <2>4, Emptied
  <2>6. Count(w) = 1
    BY <1>2, <1>4, <2>3 DEF Count, CountAt
  <2>7. \A s \in Slots : Held(w, s) <=> s = bottom[w]
    <3>1. \A s \in Slots : /\ dirty_size(s, age[w].top) \in Nat
                           /\ dirty_size(s, age[w].top) = 0 <=> s = age[w].top
      BY <1>1, Window
    <3> QED
      BY <1>2, <2>3, <2>6, <3>1 DEF Held, At
  <2>8. PICK t \in Tasks : t = wk[w].task
    <3>1. wk[w].task # NoTask /\ wk[w].task \in Tasks \cup {NoTask}
      BY <1>1, <1>3, <1>4, <2>7, Facts DEF Filled
    <3> QED
      BY <3>1
  <2>9. PICK r \in WkType : wk' = [wk EXCEPT ![w] = r] /\ r.pc = "process" /\ r.task = t
    BY <1>1, <2>4, <2>8, ClaimedTask
  <2>10. /\ wk' \in [Workers -> WkType] /\ wk'[w] = r
         /\ \A v \in Workers : v # w => wk'[v] = wk[v]
    BY <1>1, <2>9, WkUpdate
  <2>11. TypeOK'
    BY <1>1, <1>2, <1>4, <2>5, <2>10 DEF TypeOK, WkType, AgeType, Pcs, Tasks
  <2>12. Count(w)' = 0
    BY <1>4, <2>5, <2>9, <2>10 DEF Count, CountAt
  <2>13. \A s \in Slots : ~Held(w, s)'
    <3>1. \A s \in Slots : dirty_size(s, bottom[w]) \in Nat
      BY <1>4, Dirty, Slot
    <3> QED
      BY <2>5, <2>9, <2>10, <2>12, <3>1 DEF Held, At
  <2>14. \A v \in Workers : v # w => Framed(v)
    BY <1>2, <2>5, <2>10 DEF Framed
  <2>15. /\ SlotTask[w][bottom[w]] = t /\ SlotTask'[w][bottom[w]] = 0
         /\ \A s \in Slots : s # bottom[w] => SlotTask'[w][s] = SlotTask[w][s]
    BY <1>1, <1>2, <1>3, <1>4, <2>7, <2>8, <2>13 DEF SlotTask, NoTask
  <2>16. t \in Nat /\ t # 0 /\ created \in Nat
    BY <1>1, PhaseFacts
  <2>17. /\ Unique' /\ SlotTask[w][bottom[w]] \in 1..created
         /\ \A s \in Slots : \/ SlotTask'[w][s] = SlotTask[w][s]
                             \/ SlotTask'[w][s] \notin 1..created
         /\ \A s \in Slots : SlotTask'[w][s] # SlotTask[w][bottom[w]]
    <3>1. ClaimTask[w] = 0 /\ ClaimTask'[w] = t
      BY <1>1, <1>2, <2>9, <2>10 DEF ClaimTask, Claiming, NoTask
    <3>2. \A v \in Workers : v # w => SlotTask'[v] = SlotTask[v] /\ ClaimTask'[v] = ClaimTask[v]
      BY <2>14, FramedQueue
    <3>3. \A v \in Workers : StackTask'[v] = StackTask[v]
      BY <1>2 DEF StackTask
    <3> QED
      BY <1>1, <1>2, <1>4, <2>15, <2>16, <3>1, <3>2, <3>3, Taken
  <2>18. TagUsed(w)'
    <3>1. Owed(w) = 0 /\ Owed(w)' = 0
      BY <1>4, <2>3, <2>5 DEF Owed
    <3> QED
      BY <1>1, <1>2, <1>4, <2>1, <2>5, <2>11, <2>17, <3>1, TagGained
  <2>19. Filled(w)'
    BY <2>13 DEF Filled
  <2>20. Known(w)'
    <3>1. t # NoTask
      BY <2>16 DEF NoTask
    <3> QED
      BY <1>4, <2>5, <2>9, <2>10, <3>1 DEF Known, Claiming, Popping, Idling
  <2>21. Kept(w)
    BY <2>1, <2>5 DEF Kept, Before
  <2>22. created <= created' /\ wk[w].pc \notin Idling /\ wk'[w].pc \in Pcs
         /\ wk'[w].pc \notin Offering \cup {"stealbottom", "stealread", "stealcas"}
    BY <1>2, <2>9, <2>10, <2>16 DEF Idling, Pcs, Offering
  <2> QED
    BY <1>2, <2>11, <2>14, <2>17, <2>18, <2>19, <2>20, <2>21, <2>22, OwnStep
<1> QED
  BY <1>6, <1>7

\* The owner has lost the last element: the queue becomes an empty one again
LEMMA PopLostStep ==
  ASSUME TagsSuffice, IInv, NEW w \in Active, PopLost(w)
  PROVE  IInv'
<1>1. /\ TypeOK /\ w \in Workers /\ wk[w] \in WkType /\ Known(w) /\ TagUsed(w) /\ Unique
  BY Acting
<1>2. /\ wk[w].pc = "popset" /\ age' = [age EXCEPT ![w] = EmptyAge(w)] /\ Continue(w, Drained(w))
      /\ UNCHANGED <<phase, bottom, elems, overflow, created, done, offered>>
  BY DEF PopLost, At, work
<1>3. /\ wk[w].bot = bottom[w] /\ Gap(w) = N - 1
      /\ wk[w].old.tag <= age[w].tag
      /\ \/ age[w] = wk[w].old
         \/ wk[w].old.top = bottom[w] /\ age[w] = increment(wk[w].old)
  BY <1>1, <1>2 DEF Known, Popping
<1>4. Active' = Active /\ bottom[w] \in Slots /\ N \in Nat /\ N > 3
  BY <1>1, <1>2, Facts, Slot DEF Active
<1>5. /\ age[w].tag \in Nat /\ age[w].tag + 3 <= TagRange /\ Owed(w) = 1
      /\ wk[w].old \in AgeType /\ wk[w].old.tag \in Nat /\ wk[w].old.tag + 1 < TagRange
  <2>1. Owed(w) = 1
    BY <1>2, <1>3 DEF Owed, Popping
  <2>2. age[w].tag \in Nat /\ age[w].tag + Owed(w) + 2 <= TagRange
    BY <1>1, Facts, TagLeft
  <2>3. wk[w].old \in AgeType /\ wk[w].old.tag \in Nat
    BY <1>1, Locals
  <2> QED
    BY <1>3, <2>1, <2>2, <2>3, Slot, SMTT(30)
<1>6. /\ age' \in [Workers -> AgeType] /\ age'[w].top = bottom[w]
      /\ age'[w].tag = wk[w].old.tag + 1 /\ Gap(w)' = 0
      /\ \A v \in Workers : v # w => age'[v] = age[v]
  BY <1>1, <1>2, <1>3, <1>5, Emptied
<1>7. PICK r \in WkType : /\ wk' = [wk EXCEPT ![w] = r] /\ r.pc \in {"steal", "drain"}
                          /\ r.pc = "steal" => overflow[w] = <<>>
  BY <1>1, <1>2, Continued DEF Pcs, Drained
<1>8. /\ wk' \in [Workers -> WkType] /\ wk'[w] = r
      /\ \A v \in Workers : v # w => wk'[v] = wk[v]
  BY <1>1, <1>7, WkUpdate
<1>9. TypeOK'
  BY <1>1, <1>2, <1>4, <1>6, <1>8 DEF TypeOK, WkType, AgeType, Pcs, Tasks
<1>10. Count(w) = 0 /\ Count(w)' = 0
  BY <1>2, <1>4, <1>6, <1>7, <1>8 DEF Count, CountAt
<1>11. \A s \in Slots : ~Held(w, s) /\ ~Held(w, s)'
  <2>1. \A s \in Slots : dirty_size(s, bottom[w]) \in Nat /\ dirty_size(s, age[w].top) \in Nat
    BY <1>1, <1>4, Dirty, Slot, Window
  <2> QED
    BY <1>2, <1>6, <1>7, <1>8, <1>10, <2>1 DEF Held, At
<1>12. \A v \in Workers : v # w => Framed(v)
  BY <1>2, <1>6, <1>8 DEF Framed
<1>13. /\ SlotTask'[w] = SlotTask[w] /\ StackTask'[w] = StackTask[w]
       /\ ClaimTask'[w] = ClaimTask[w]
  <2>1. SlotTask'[w] = SlotTask[w]
    BY <1>1, <1>11 DEF SlotTask
  <2>2. StackTask'[w] = StackTask[w]
    BY <1>1, <1>2 DEF StackTask
  <2> QED
    BY <1>1, <1>2, <1>7, <1>8, <2>1, <2>2 DEF ClaimTask, Claiming
<1>14. Unique'
  BY <1>1, <1>2, <1>12, <1>13, FramedQueue, SamePlaces
<1>15. Filled(w)'
  BY <1>11 DEF Filled
<1>16. Known(w)'
  BY <1>2, <1>3, <1>4, <1>6, <1>7, <1>8 DEF Known, Claiming, Popping, Idling
<1>17. TagUsed(w)'
  <2>1. Owed(w)' = 0
    BY <1>7, <1>8 DEF Owed, Popping
  <2>2. created \in Nat
    BY <1>1, PhaseFacts
  <2> QED
    BY <1>1, <1>2, <1>3, <1>5, <1>6, <1>9, <1>13, <2>1, <2>2, TagKept
<1>18. Kept(w)
  <2>1. CASE age[w] = wk[w].old
    BY <1>5, <1>6, <2>1 DEF Kept, Before
  <2>2. CASE wk[w].old.top = bottom[w] /\ age[w] = increment(wk[w].old)
    <3>1. /\ age[w].top = increment_index(bottom[w])
          /\ age[w].tag = IF increment_index(bottom[w]) = 0 THEN wk[w].old.tag + 1
                          ELSE wk[w].old.tag
      BY <1>5, <2>2, Later
    <3>2. increment_index(bottom[w]) = 0 => bottom[w] = N - 1
      BY <1>4, Indices, Slot
    <3> QED
      BY <1>4, <1>5, <1>6, <3>1, <3>2 DEF Kept, Before
  <2> QED
    BY <1>3, <2>1, <2>2
<1>19. created <= created' /\ wk[w].pc \notin Idling /\ wk'[w].pc \in Pcs
       /\ wk'[w].pc \notin Offering \cup {"stealbottom", "stealread", "stealcas"}
  BY <1>1, <1>2, <1>7, <1>8, PhaseFacts DEF Idling, Pcs, Offering
<1> QED
  BY <1>2, <1>9, <1>12, <1>14, <1>15, <1>16, <1>17, <1>18, <1>19, OwnStep

\* Bottom covers the element that is in its slot already
LEMMA PushBottomStep ==
  ASSUME IInv, NEW w \in Active, PushBottom(w)
  PROVE  IInv'
<1>1. /\ TypeOK /\ w \in Workers /\ wk[w] \in WkType /\ Known(w) /\ Filled(w)
      /\ TagUsed(w) /\ Unique
  BY Acting
<1>2. /\ wk[w].pc = "pushbottom" /\ Goto(w, "process")
      /\ bottom' = [bottom EXCEPT ![w] = increment_index(bottom[w])]
      /\ UNCHANGED <<phase, age, elems, overflow, created, done, offered>>
  BY DEF PushBottom, At, work
<1>3. /\ Gap(w) \in Nat /\ Gap(w) < N - 2 /\ N \in Nat /\ N > 3
      /\ bottom[w] \in Slots /\ age[w].top \in Slots
  BY <1>1, <1>2, Facts, Slot DEF Known
<1>4. PICK b \in Slots : b = increment_index(bottom[w]) /\ dirty_size(b, age[w].top) = Gap(w) + 1
  BY <1>3, Indices, Distance DEF Gap
<1>5. PICK r \in WkType : wk' = [wk EXCEPT ![w] = r] /\ r.pc = "process" /\ r.task = wk[w].task
  BY <1>1, <1>2, Gone DEF Pcs
<1>6. /\ wk' \in [Workers -> WkType] /\ wk'[w] = r
      /\ \A v \in Workers : v # w => wk'[v] = wk[v]
  BY <1>1, <1>5, WkUpdate
<1>7. /\ bottom' \in [Workers -> Slots] /\ bottom'[w] = b
      /\ \A v \in Workers : v # w => bottom'[v] = bottom[v]
  BY <1>1, <1>2, <1>4 DEF TypeOK
<1>8. Active' = Active
  BY <1>2 DEF Active
<1>9. TypeOK'
  BY <1>1, <1>2, <1>8, <1>6, <1>7 DEF TypeOK, WkType, AgeType, Pcs, Tasks
<1>10. Gap(w)' = Gap(w) + 1
  BY <1>2, <1>4, <1>7 DEF Gap
<1>11. Count(w) = Gap(w) /\ Count(w)' = Gap(w) + 1
  BY <1>2, <1>3, <1>5, <1>6, <1>10 DEF Count, CountAt
<1>12. ASSUME NEW s \in Slots PROVE Held(w, s)' <=> Held(w, s)
  <2>1. /\ dirty_size(s, age[w].top) \in Nat
        /\ dirty_size(s, age[w].top) = Gap(w) <=> s = bottom[w]
    BY <1>1, Window
  <2>2. Held(w, s) <=> dirty_size(s, age[w].top) < Gap(w) \/ s = bottom[w]
    BY <1>2, <1>11 DEF Held, At
  <2>3. Held(w, s)' <=> dirty_size(s, age[w].top) < Gap(w) + 1
    BY <1>2, <1>5, <1>6, <1>11 DEF Held, At
  <2> QED
    BY <1>3, <2>1, <2>2, <2>3
<1>13. /\ SlotTask'[w] = SlotTask[w] /\ StackTask'[w] = StackTask[w]
       /\ ClaimTask'[w] = ClaimTask[w]
  <2>1. SlotTask'[w] = SlotTask[w]
    BY <1>1, <1>2, <1>12 DEF SlotTask
  <2>2. StackTask'[w] = StackTask[w]
    BY <1>1, <1>2 DEF StackTask
  <2> QED
    BY <1>1, <1>2, <1>5, <1>6, <2>1, <2>2 DEF ClaimTask, Claiming
<1>14. \A v \in Workers : v # w => Framed(v)
  BY <1>2, <1>6, <1>7 DEF Framed
<1>15. Unique'
  BY <1>1, <1>2, <1>13, <1>14, FramedQueue, SamePlaces
<1>16. Filled(w)'
  BY <1>1, <1>2, <1>12 DEF Filled
<1>17. Known(w)'
  BY <1>1, <1>2, <1>3, <1>5, <1>6, <1>8, <1>10 DEF Known, Claiming, Popping, Idling
<1>18. TagUsed(w)'
  <2>1. Owed(w) = 0 /\ Owed(w)' = 0
    BY <1>2, <1>5, <1>6 DEF Owed, Popping
  <2>2. created \in Nat /\ age[w].tag \in Nat
    BY <1>1, PhaseFacts, Facts
  <2> QED
    BY <1>1, <1>2, <1>9, <1>13, <2>1, <2>2, TagKept
<1>19. Kept(w)
  BY <1>2, <1>3, <1>11 DEF Kept
<1>20. created <= created' /\ wk[w].pc \notin Idling /\ wk'[w].pc \in Pcs
       /\ wk'[w].pc \notin Offering \cup {"stealbottom", "stealread", "stealcas"}
  BY <1>1, <1>2, <1>5, <1>6, PhaseFacts DEF Idling, Pcs, Offering
<1> QED
  BY <1>2, <1>9, <1>14, <1>15, <1>16, <1>17, <1>18, <1>19, <1>20, OwnStep

\* A new task is in its slot, which bottom does not cover yet
LEMMA PushQueueStep ==
  ASSUME IInv, NEW w \in Active, Push(w), Gap(w) # N - 2
  PROVE  IInv'
<1>1. /\ TypeOK /\ w \in Workers /\ wk[w] \in WkType /\ Known(w) /\ Filled(w)
      /\ TagUsed(w) /\ Unique
  BY Acting
<1>2. /\ wk[w].pc = "process" /\ Goto(w, "pushbottom") /\ created' = created + 1
      /\ created < phase.tasks /\ elems' = [elems EXCEPT ![w][bottom[w]] = created + 1]
      /\ UNCHANGED <<phase, bottom, age, overflow, done, offered>>
  BY DEF Push, At, Gap, max_elems
<1>3. /\ Gap(w) \in Nat /\ Gap(w) < N - 2 /\ N \in Nat /\ N > 3
      /\ bottom[w] \in Slots /\ age[w].top \in Slots /\ elems[w] \in [Slots -> Tasks \cup {NoTask}]
  <2>1. Gap(w) # N - 1
    BY <1>1, <1>2 DEF Known, Popping
  <2>2. Gap(w) \in Nat /\ Gap(w) < N /\ N \in Nat /\ N > 3
    BY <1>1, Window, Slot
  <2>3. Gap(w) < N - 2
    BY <2>1, <2>2
  <2> QED
    BY <1>1, <2>2, <2>3, Facts
<1>4. /\ created \in Nat /\ 1 <= created /\ created + 1 \in Tasks /\ created + 1 # 0
      /\ created + 1 \in Nat /\ phase.tasks \in Nat
  BY <1>1, <1>2, PhaseFacts
<1>5. PICK r \in WkType : wk' = [wk EXCEPT ![w] = r] /\ r.pc = "pushbottom" /\ r.task = wk[w].task
  BY <1>1, <1>2, Gone DEF Pcs
<1>6. /\ wk' \in [Workers -> WkType] /\ wk'[w] = r
      /\ \A v \in Workers : v # w => wk'[v] = wk[v]
  BY <1>1, <1>5, WkUpdate
<1>7. /\ elems' \in [Workers -> [Slots -> Tasks \cup {NoTask}]]
      /\ elems'[w][bottom[w]] = created + 1
      /\ \A s \in Slots : s # bottom[w] => elems'[w][s] = elems[w][s]
      /\ \A v \in Workers : v # w => elems'[v] = elems[v]
  BY <1>1, <1>2, <1>3, <1>4 DEF TypeOK
<1>8. Active' = Active /\ Tasks' = Tasks /\ Gap(w)' = Gap(w)
  BY <1>2 DEF Active, Tasks, Gap
<1>9. TypeOK'
  BY <1>1, <1>2, <1>4, <1>6, <1>7, <1>8 DEF TypeOK, WkType, AgeType, Pcs
<1>10. Count(w) = Gap(w) /\ Count(w)' = Gap(w)
  BY <1>2, <1>3, <1>5, <1>6, <1>8 DEF Count, CountAt
<1>11. ASSUME NEW s \in Slots
       PROVE  /\ s = bottom[w] => ~Held(w, s) /\ Held(w, s)'
              /\ s # bottom[w] => (Held(w, s)' <=> Held(w, s))
  <2>1. /\ dirty_size(s, age[w].top) \in Nat
        /\ dirty_size(s, age[w].top) = Gap(w) <=> s = bottom[w]
    BY <1>1, Window
  <2>2. Held(w, s) <=> dirty_size(s, age[w].top) < Gap(w)
    BY <1>2, <1>10 DEF Held, At
  <2>3. Held(w, s)' <=> dirty_size(s, age[w].top) < Gap(w) \/ s = bottom[w]
    BY <1>2, <1>5, <1>6, <1>10 DEF Held, At
  <2> QED
    BY <1>3, <2>1, <2>2, <2>3
<1>12. \A v \in Workers : v # w => Framed(v)
  BY <1>2, <1>6, <1>7 DEF Framed
<1>13. /\ SlotTask[w][bottom[w]] = 0 /\ SlotTask'[w][bottom[w]] = created + 1
       /\ \A s \in Slots : s # bottom[w] => SlotTask'[w][s] = SlotTask[w][s]
  BY <1>1, <1>3, <1>7, <1>11 DEF SlotTask, NoTask
<1>14. \A v \in Workers : v # w => SlotTask'[v] = SlotTask[v] /\ ClaimTask'[v] = ClaimTask[v]
  BY <1>12, FramedQueue
<1>15. Unique'
  <2>1. StackTask' = StackTask
    BY <1>2 DEF StackTask
  <2>2. ClaimTask' = ClaimTask
    <3>1. ClaimTask'[w] = ClaimTask[w]
      BY <1>1, <1>2, <1>5, <1>6 DEF ClaimTask, Claiming
    <3> QED
      BY <1>14, <3>1 DEF ClaimTask
  <2>3. Once(SlotTask, StackTask, ClaimTask, done, created)
    BY <1>1 DEF Unique
  <2>4. \A v \in Workers : \A s \in Slots :
           v # w \/ s # bottom[w] => SlotTask'[v][s] = SlotTask[v][s]
    BY <1>13, <1>14
  <2>5. SlotTask' \in [Workers -> [Slots -> 0..(created + 1)]]
    <3>1. \A v \in Workers : \A s \in Slots : SlotTask[v][s] \in 0..created
      BY <2>3 DEF Once, Typed
    <3>2. \A v \in Workers : \A s \in Slots : SlotTask'[v][s] \in 0..(created + 1)
      BY <1>4, <1>13, <2>4, <3>1
    <3> QED
      BY <3>2 DEF SlotTask
  <2>6. created + 1 \in DOMAIN done
    BY <1>1, <1>4 DEF TypeOK
  <2>7. SlotFilled(SlotTask, done, SlotTask', w, bottom[w], created)
    BY <1>13, <2>4, <2>5, <2>6 DEF SlotFilled
  <2>8. Once(SlotTask', StackTask, ClaimTask, done, created + 1)
    BY <1>1, <1>3, <1>4, <2>3, <2>7, NewInSlot
  <2> QED
    BY <1>2, <2>1, <2>2, <2>8 DEF Unique
<1>16. Filled(w)'
  BY <1>1, <1>4, <1>7, <1>11 DEF Filled, NoTask
<1>17. Known(w)'
  BY <1>1, <1>2, <1>3, <1>5, <1>6, <1>8 DEF Known, Claiming, Popping, Idling
<1>18. TagUsed(w)'
  <2>1. Owed(w) = 0 /\ Owed(w)' = 0
    BY <1>2, <1>5, <1>6 DEF Owed, Popping
  <2>2. age[w].tag \in Nat /\ created <= created' /\ created + 1 \notin 1..created
    BY <1>1, <1>2, <1>4, Facts
  <2> QED
    BY <1>1, <1>2, <1>9, <1>13, <2>1, <2>2, TagKept
<1>19. Kept(w)
  <2>1. Count(w) > 0 => bottom[w] # age[w].top
    BY <1>1, <1>3, <1>10, Window
  <2> QED
    BY <1>2, <1>3, <1>7, <1>10, <2>1 DEF Kept
<1>20. created <= created' /\ wk[w].pc \notin Idling /\ wk'[w].pc \in Pcs
       /\ wk'[w].pc \notin Offering \cup {"stealbottom", "stealread", "stealcas"}
  BY <1>2, <1>4, <1>5, <1>6 DEF Idling, Pcs, Offering
<1> QED
  BY <1>2, <1>9, <1>12, <1>15, <1>16, <1>17, <1>18, <1>19, <1>20, OwnStep

\* Overflow stacks: positions count from the end, so that a push and a pop leave the
\* other tasks where they are
LEMMA PushedStack ==
  ASSUME NEW S, NEW s \in Seq(S), NEW t \in S, NEW q, q = <<t>> \o s
  PROVE  /\ q \in Seq(S) /\ Len(q) = Len(s) + 1 /\ q[Len(q) + 1 - (Len(s) + 1)] = t
         /\ \A k \in 1..Len(s) : q[Len(q) + 1 - k] = s[Len(s) + 1 - k]
<1>1. Len(s) \in Nat /\ q \in Seq(S) /\ Len(q) = Len(s) + 1
  OBVIOUS
<1>2. \A i \in 1..(Len(s) + 1) : q[i] = IF i <= 1 THEN t ELSE s[i - 1]
  OBVIOUS
<1>3. ASSUME NEW k \in 1..Len(s) PROVE q[Len(q) + 1 - k] = s[Len(s) + 1 - k]
  <2>1. PICK i : i = Len(q) + 1 - k
    OBVIOUS
  <2>2. i \in 2..(Len(s) + 1) /\ i - 1 = Len(s) + 1 - k
    BY <1>1, <2>1
  <2>3. q[i] = s[i - 1]
    BY <1>1, <1>2, <2>2
  <2> QED
    BY <2>1, <2>2, <2>3
<1>4. q[Len(q) + 1 - (Len(s) + 1)] = t
  BY <1>1, <1>2
<1> QED
  BY <1>1, <1>3, <1>4

LEMMA PoppedStack ==
  ASSUME NEW S, NEW s \in Seq(S), s # <<>>, NEW q, q = Tail(s)
  PROVE  /\ q \in Seq(S) /\ Len(s) \in Nat /\ Len(s) > 0 /\ Len(q) = Len(s) - 1
         /\ Head(s) \in S /\ Head(s) = s[Len(s) + 1 - Len(s)]
         /\ \A k \in 1..Len(q) : q[Len(q) + 1 - k] = s[Len(s) + 1 - k]
<1>1. Len(s) \in Nat /\ Len(s) > 0 /\ q \in Seq(S) /\ Len(q) = Len(s) - 1
  OBVIOUS
<1>2. \A i \in 1..Len(q) : q[i] = s[i + 1]
  BY <1>1
<1>3. ASSUME NEW k \in 1..Len(q) PROVE q[Len(q) + 1 - k] = s[Len(s) + 1 - k]
  <2>1. PICK i : i = Len(q) + 1 - k
    OBVIOUS
  <2>2. i \in 1..Len(q) /\ i + 1 = Len(s) + 1 - k
    BY <1>1, <2>1
  <2> QED
    BY <1>2, <2>1, <2>2
<1>4. Head(s) = s[1] /\ s[1] \in S /\ Len(s) + 1 - Len(s) = 1
  BY <1>1
<1> QED
  BY <1>1, <1>3, <1>4

\* The queue is full: a new task is on the overflow stack
LEMMA PushOverflowStep ==
  ASSUME IInv, NEW w \in Active, Push(w), Gap(w) = N - 2
  PROVE  IInv'
<1>1. /\ TypeOK /\ w \in Workers /\ Known(w) /\ Filled(w) /\ TagUsed(w) /\ Unique
  BY Acting
<1>2. /\ wk[w].pc = "process" /\ created' = created + 1 /\ created < phase.tasks
      /\ overflow' = [overflow EXCEPT ![w] = <<created + 1>> \o overflow[w]]
      /\ UNCHANGED <<phase, bottom, age, elems, done, offered, wk>>
  <2>1. N - 2 # N - 1 /\ ~(N - 2 < N - 2)
    BY Slot
  <2> QED
    BY <2>1 DEF Push, At, Gap, max_elems
<1>3. /\ created \in Nat /\ 1 <= created /\ created + 1 \in Tasks
      /\ created + 1 \in Nat /\ phase.tasks \in Nat
  BY <1>1, <1>2, PhaseFacts
<1>4. PICK L \in Nat : L = Len(overflow[w])
  BY <1>1, Facts
<1>5. PICK q \in Seq(Tasks) : /\ q = <<created + 1>> \o overflow[w] /\ Len(q) = L + 1
                              /\ q[Len(q) + 1 - (L + 1)] = created + 1
                              /\ \A k \in 1..L : q[Len(q) + 1 - k] = overflow[w][L + 1 - k]
  <2>1. PICK q : q = <<created + 1>> \o overflow[w]
    OBVIOUS
  <2>2. overflow[w] \in Seq(Tasks)
    BY <1>1, Facts
  <2>3. /\ q \in Seq(Tasks) /\ Len(q) = Len(overflow[w]) + 1
        /\ q[Len(q) + 1 - (Len(overflow[w]) + 1)] = created + 1
        /\ \A k \in 1..Len(overflow[w]) :
              q[Len(q) + 1 - k] = overflow[w][Len(overflow[w]) + 1 - k]
    BY <1>3, <2>1, <2>2, PushedStack
  <2> QED
    BY <1>4, <2>1, <2>3
<1>6. /\ overflow' \in [Workers -> Seq(Tasks)] /\ overflow'[w] = q
      /\ \A v \in Workers : v # w => overflow'[v] = overflow[v]
  BY <1>1, <1>2, <1>5 DEF TypeOK
<1>7. Active' = Active /\ Tasks' = Tasks /\ \A v \in Workers : Gap(v)' = Gap(v)
  BY <1>2 DEF Active, Tasks, Gap
<1>8. TypeOK'
  BY <1>1, <1>2, <1>3, <1>6, <1>7 DEF TypeOK
<1>9. Count(w)' = Count(w) /\ \A s \in Slots : Held(w, s)' <=> Held(w, s)
  BY <1>1, <1>2, <1>7 DEF Count, Held, At
<1>10. \A v \in Workers : v # w => Framed(v)
  BY <1>2, <1>6 DEF Framed
<1>11. SlotTask'[w] = SlotTask[w]
  BY <1>1, <1>2, <1>9 DEF SlotTask
<1>12. Unique'
  <2>1. SlotTask' = SlotTask
    <3>1. \A v \in Workers : SlotTask'[v] = SlotTask[v]
      BY <1>10, <1>11, FramedQueue
    <3> QED
      BY <3>1 DEF SlotTask
  <2>2. ClaimTask' = ClaimTask
    BY <1>2 DEF ClaimTask
  <2>3. Once(SlotTask, StackTask, ClaimTask, done, created)
    BY <1>1 DEF Unique
  <2>4. /\ L + 1 \in Positions /\ StackTask[w][L + 1] = 0 /\ StackTask'[w][L + 1] = created + 1
        /\ \A k \in Positions : k # L + 1 => StackTask'[w][k] = StackTask[w][k]
    <3>1. \A k \in Positions : StackTask[w][k] = IF k \in 1..L THEN overflow[w][L + 1 - k] ELSE 0
      BY <1>1, <1>4 DEF StackTask, NoTask
    <3>2. \A k \in Positions :
             StackTask'[w][k] = IF k \in 1..(L + 1) THEN q[Len(q) + 1 - k] ELSE 0
      BY <1>1, <1>5, <1>6 DEF StackTask, NoTask
    <3>3. L + 1 \in Positions /\ L + 1 \notin 1..L /\ L + 1 \in 1..(L + 1)
      BY <1>4 DEF Positions
    <3>4. \A k \in Positions : k # L + 1 => (k \in 1..(L + 1) <=> k \in 1..L)
      BY <1>4 DEF Positions
    <3>5. StackTask[w][L + 1] = 0 /\ StackTask'[w][L + 1] = created + 1
      BY <1>5, <3>1, <3>2, <3>3
    <3>6. ASSUME NEW k \in Positions, k # L + 1 PROVE StackTask'[w][k] = StackTask[w][k]
      <4>1. CASE k \in 1..L
        BY <1>5, <3>1, <3>2, <3>4, <3>6, <4>1
      <4>2. CASE k \notin 1..L
        BY <3>1, <3>2, <3>4, <3>6, <4>2
      <4> QED
        BY <4>1, <4>2
    <3> QED
      BY <3>3, <3>5, <3>6
  <2>5. \A v \in Workers : v # w => StackTask'[v] = StackTask[v]
    BY <1>10, FramedQueue
  <2>6. \A v \in Workers : \A k \in Positions :
           v # w \/ k # L + 1 => StackTask'[v][k] = StackTask[v][k]
    BY <2>4, <2>5
  <2>7. StackTask' \in [Workers -> [Positions -> 0..(created + 1)]]
    <3>1. \A v \in Workers : \A k \in Positions : StackTask[v][k] \in 0..created
      BY <2>3 DEF Once, Typed
    <3>2. \A v \in Workers : \A k \in Positions : StackTask'[v][k] \in 0..(created + 1)
      BY <1>3, <2>4, <2>6, <3>1
    <3> QED
      BY <3>2 DEF StackTask
  <2>8. created + 1 \in DOMAIN done
    BY <1>1, <1>3 DEF TypeOK
  <2>9. StackFilled(StackTask, done, StackTask', w, L + 1, created)
    BY <2>4, <2>6, <2>7, <2>8 DEF StackFilled
  <2>10. Once(SlotTask, StackTask', ClaimTask, done, created + 1)
    BY <1>1, <1>3, <2>3, <2>4, <2>9, NewOnStack
  <2> QED
    BY <1>2, <2>1, <2>2, <2>10 DEF Unique
<1>13. Filled(w)'
  BY <1>1, <1>2, <1>9 DEF Filled
<1>14. Known(w)'
  BY <1>1, <1>2, <1>7 DEF Known, Claiming, Popping, Idling
<1>15. TagUsed(w)'
  <2>1. Owed(w) = 0 /\ Owed(w)' = 0
    BY <1>2 DEF Owed, Popping
  <2>2. age[w].tag \in Nat /\ created <= created'
    BY <1>1, <1>2, <1>3, Facts
  <2> QED
    BY <1>1, <1>2, <1>8, <1>11, <2>1, <2>2, TagKept
<1>16. Kept(w)
  BY <1>2, <1>9 DEF Kept
<1>17. created <= created' /\ wk[w].pc \notin Idling /\ wk'[w].pc \in Pcs
       /\ wk'[w].pc \notin Offering \cup {"stealbottom", "stealread", "stealcas"}
  BY <1>2, <1>3 DEF Idling, Pcs, Offering
<1> QED
  BY <1>2, <1>8, <1>10, <1>12, <1>13, <1>14, <1>15, <1>16, <1>17, OwnStep

\* A claimed task is finished, for the first time
LEMMA ProcessedStep ==
  ASSUME IInv, NEW w \in Active, Processed(w)
  PROVE  IInv'
<1>1. /\ TypeOK /\ w \in Workers /\ Known(w) /\ Filled(w) /\ TagUsed(w) /\ Unique
  BY Acting
<1>2. /\ wk[w].pc = "process" /\ Continue(w, "drain")
      /\ done' = [done EXCEPT ![wk[w].task] = done[wk[w].task] + 1]
      /\ UNCHANGED <<phase, bottom, age, elems, overflow, created, offered>>
  BY DEF Processed, At, queues
<1>3. PICK t \in Tasks : t = wk[w].task
  BY <1>1, <1>2, Locals DEF Known, Claiming
<1>4. PICK r \in WkType : wk' = [wk EXCEPT ![w] = r] /\ r.pc = "drain"
  BY <1>1, <1>2, Continued DEF Pcs
<1>5. /\ wk' \in [Workers -> WkType] /\ wk'[w] = r
      /\ \A v \in Workers : v # w => wk'[v] = wk[v]
  BY <1>1, <1>4, WkUpdate
<1>6. Active' = Active /\ Tasks' = Tasks /\ Gap(w)' = Gap(w) /\ created \in Nat
  BY <1>1, <1>2, PhaseFacts DEF Active, Tasks, Gap
<1>7. /\ done' \in [Tasks -> Nat] /\ done'[t] = done[t] + 1 /\ DOMAIN done = Tasks
      /\ \A u \in Tasks : u # t => done'[u] = done[u]
  BY <1>1, <1>2, <1>3 DEF TypeOK
<1>8. TypeOK'
  BY <1>1, <1>2, <1>5, <1>6, <1>7 DEF TypeOK, WkType, AgeType, Pcs
<1>9. Count(w)' = Count(w)
  BY <1>2, <1>4, <1>5, <1>6 DEF Count, CountAt
<1>10. \A s \in Slots : Held(w, s)' <=> Held(w, s)
  BY <1>2, <1>4, <1>5, <1>9 DEF Held, At
<1>11. \A v \in Workers : v # w => Framed(v)
  BY <1>2, <1>5 DEF Framed
<1>12. SlotTask'[w] = SlotTask[w]
  BY <1>1, <1>2, <1>10 DEF SlotTask
<1>13. Unique'
  <2>1. SlotTask' = SlotTask
    <3>1. \A v \in Workers : SlotTask'[v] = SlotTask[v]
      BY <1>11, <1>12, FramedQueue
    <3> QED
      BY <3>1 DEF SlotTask
  <2>2. StackTask' = StackTask
    BY <1>2 DEF StackTask
  <2>3. Once(SlotTask, StackTask, ClaimTask, done, created)
    BY <1>1 DEF Unique
  <2>4. ClaimTask[w] = t /\ t # 0 /\ ClaimTask'[w] = 0
    BY <1>1, <1>2, <1>3, <1>4, <1>5, PhaseFacts DEF ClaimTask, Claiming, NoTask
  <2>5. done'[t] = 1
    BY <1>1, <1>7, <2>3, <2>4 DEF Once, ClaimsOnce
  <2>6. \A v \in Workers : v # w => ClaimTask'[v] = ClaimTask[v]
    BY <1>11, FramedQueue
  <2>7. ClaimTask' \in [Workers -> 0..created]
    <3>1. \A v \in Workers : ClaimTask'[v] \in 0..created
      BY <1>6, <2>3, <2>4, <2>6 DEF Once, Typed
    <3> QED
      BY <3>1 DEF ClaimTask
  <2>8. ClaimDone(ClaimTask, done, ClaimTask', done', w, created)
    BY <1>7, <2>4, <2>5, <2>6, <2>7 DEF ClaimDone
  <2>9. Once(SlotTask, StackTask, ClaimTask', done', created)
    BY <1>1, <1>6, <2>3, <2>8, ClaimToDone
  <2> QED
    BY <1>2, <2>1, <2>2, <2>9 DEF Unique
<1>14. Filled(w)'
  BY <1>1, <1>2, <1>10 DEF Filled
<1>15. Known(w)'
  BY <1>1, <1>2, <1>4, <1>5, <1>6 DEF Known, Claiming, Popping, Idling
<1>16. TagUsed(w)'
  <2>1. Owed(w) = 0 /\ Owed(w)' = 0
    BY <1>2, <1>4, <1>5 DEF Owed, Popping
  <2>2. age[w].tag \in Nat
    BY <1>1, Facts
  <2> QED
    BY <1>1, <1>2, <1>6, <1>8, <1>12, <2>1, <2>2, TagKept
<1>17. Kept(w)
  BY <1>2, <1>9 DEF Kept
<1>18. created <= created' /\ wk[w].pc \notin Idling /\ wk'[w].pc \in Pcs
       /\ wk'[w].pc \notin Offering \cup {"stealbottom", "stealread", "stealcas"}
  BY <1>2, <1>4, <1>5, <1>6 DEF Idling, Pcs, Offering
<1> QED
  BY <1>2, <1>8, <1>11, <1>13, <1>14, <1>15, <1>16, <1>17, <1>18, OwnStep

\* The owner takes the task on top of its overflow stack
LEMMA PopOverflowStep ==
  ASSUME IInv, NEW w \in Active, PopOverflow(w)
  PROVE  IInv'
<1>1. /\ TypeOK /\ w \in Workers /\ Known(w) /\ Filled(w) /\ TagUsed(w) /\ Unique
  BY Acting
<1>2. /\ wk[w].pc = "drain" /\ overflow[w] # <<>> /\ Claim(w, Head(overflow[w]))
      /\ overflow' = [overflow EXCEPT ![w] = Tail(overflow[w])]
      /\ UNCHANGED <<phase, bottom, age, elems, created, done, offered>>
  BY DEF PopOverflow, At, work
<1>3. overflow[w] \in Seq(Tasks)
  BY <1>1, Facts
<1>4. PICK q \in Seq(Tasks), L \in Nat, t \in Tasks :
         /\ q = Tail(overflow[w]) /\ L = Len(overflow[w]) /\ L > 0 /\ Len(q) = L - 1
         /\ t = Head(overflow[w]) /\ t = overflow[w][L + 1 - L]
         /\ \A k \in 1..Len(q) : q[Len(q) + 1 - k] = overflow[w][L + 1 - k]
  <2>1. PICK q : q = Tail(overflow[w])
    OBVIOUS
  <2>2. /\ q \in Seq(Tasks) /\ Len(overflow[w]) \in Nat /\ Len(overflow[w]) > 0
        /\ Len(q) = Len(overflow[w]) - 1 /\ Head(overflow[w]) \in Tasks
        /\ Head(overflow[w]) = overflow[w][Len(overflow[w]) + 1 - Len(overflow[w])]
        /\ \A k \in 1..Len(q) : q[Len(q) + 1 - k] = overflow[w][Len(overflow[w]) + 1 - k]
    BY <1>2, <1>3, <2>1, PoppedStack
  <2> QED
    BY <2>1, <2>2
<1>5. PICK r \in WkType : wk' = [wk EXCEPT ![w] = r] /\ r.pc = "process" /\ r.task = t
  BY <1>1, <1>2, <1>4, ClaimedTask
<1>6. /\ wk' \in [Workers -> WkType] /\ wk'[w] = r
      /\ \A v \in Workers : v # w => wk'[v] = wk[v]
  BY <1>1, <1>5, WkUpdate
<1>7. /\ overflow' \in [Workers -> Seq(Tasks)] /\ overflow'[w] = q
      /\ \A v \in Workers : v # w => overflow'[v] = overflow[v]
  BY <1>1, <1>2, <1>4 DEF TypeOK
<1>8. Active' = Active /\ Tasks' = Tasks /\ Gap(w)' = Gap(w) /\ created \in Nat /\ t # 0
  BY <1>1, <1>2, PhaseFacts DEF Active, Tasks, Gap
<1>9. TypeOK'
  BY <1>1, <1>2, <1>6, <1>7, <1>8 DEF TypeOK, WkType, AgeType, Pcs
<1>10. Count(w)' = Count(w)
  BY <1>2, <1>5, <1>6, <1>8 DEF Count, CountAt
<1>11. \A s \in Slots : Held(w, s)' <=> Held(w, s)
  BY <1>2, <1>5, <1>6, <1>10 DEF Held, At
<1>12. \A v \in Workers : v # w => Framed(v)
  BY <1>2, <1>6, <1>7 DEF Framed
<1>13. SlotTask'[w] = SlotTask[w]
  BY <1>1, <1>2, <1>11 DEF SlotTask
<1>14. Unique'
  <2>1. SlotTask' = SlotTask
    <3>1. \A v \in Workers : SlotTask'[v] = SlotTask[v]
      BY <1>12, <1>13, FramedQueue
    <3> QED
      BY <3>1 DEF SlotTask
  <2>2. Once(SlotTask, StackTask, ClaimTask, done, created)
    BY <1>1 DEF Unique
  <2>3. /\ L \in Positions /\ StackTask[w][L] = t /\ StackTask'[w][L] = 0
        /\ \A k \in Positions : k # L => StackTask'[w][k] = StackTask[w][k]
    <3>1. \A k \in Positions : StackTask[w][k] = IF k \in 1..L THEN overflow[w][L + 1 - k] ELSE 0
      BY <1>1, <1>4 DEF StackTask, NoTask
    <3>2. \A k \in Positions :
             StackTask'[w][k] = IF k \in 1..Len(q) THEN q[Len(q) + 1 - k] ELSE 0
      BY <1>1, <1>4, <1>7 DEF StackTask, NoTask
    <3>3. L \in Positions /\ L \in 1..L /\ L \notin 1..Len(q)
      BY <1>4 DEF Positions
    <3>4. \A k \in Positions : k # L => (k \in 1..Len(q) <=> k \in 1..L)
      BY <1>4 DEF Positions
    <3>5. StackTask[w][L] = t /\ StackTask'[w][L] = 0
      BY <1>4, <3>1, <3>2, <3>3
    <3>6. ASSUME NEW k \in Positions, k # L PROVE StackTask'[w][k] = StackTask[w][k]
      <4>1. CASE k \in 1..L
        BY <1>4, <3>1, <3>2, <3>4, <3>6, <4>1
      <4>2. CASE k \notin 1..L
        BY <3>1, <3>2, <3>4, <3>6, <4>2
      <4> QED
        BY <4>1, <4>2
    <3> QED
      BY <3>3, <3>5, <3>6
  <2>4. ClaimTask[w] = 0 /\ ClaimTask'[w] = t
    BY <1>1, <1>2, <1>5, <1>6 DEF ClaimTask, Claiming, NoTask
  <2>5. \A v \in Workers : v # w => StackTask'[v] = StackTask[v] /\ ClaimTask'[v] = ClaimTask[v]
    BY <1>12, FramedQueue
  <2>6. \A v \in Workers : \A k \in Positions : v # w \/ k # L => StackTask'[v][k] = StackTask[v][k]
    BY <2>3, <2>5
  <2>7. StackTask[w][L] \in 0..created
    BY <1>1, <2>2, <2>3 DEF Once, Typed
  <2>8. StackTask' \in [Workers -> [Positions -> 0..created]]
    <3>1. \A v \in Workers : \A k \in Positions : StackTask[v][k] \in 0..created
      BY <2>2 DEF Once, Typed
    <3>2. \A v \in Workers : \A k \in Positions : StackTask'[v][k] \in 0..created
      BY <1>8, <2>3, <2>6, <3>1
    <3> QED
      BY <3>2 DEF StackTask
  <2>9. ClaimTask' \in [Workers -> 0..created]
    <3>1. \A v \in Workers : ClaimTask'[v] \in 0..created
      BY <1>8, <2>2, <2>3, <2>4, <2>5, <2>7 DEF Once, Typed
    <3> QED
      BY <3>1 DEF ClaimTask
  <2>10. StackClaimed(StackTask, ClaimTask, StackTask', ClaimTask', w, L, w, created)
    BY <1>8, <2>3, <2>4, <2>5, <2>6, <2>8, <2>9 DEF StackClaimed
  <2>11. Once(SlotTask, StackTask', ClaimTask', done, created)
    BY <1>1, <1>8, <2>2, <2>3, <2>10, StackToClaim
  <2> QED
    BY <1>2, <2>1, <2>11 DEF Unique
<1>15. Filled(w)'
  BY <1>1, <1>2, <1>11 DEF Filled
<1>16. Known(w)'
  BY <1>1, <1>2, <1>5, <1>6, <1>8 DEF Known, Claiming, Popping, Idling, NoTask
<1>17. TagUsed(w)'
  <2>1. Owed(w) = 0 /\ Owed(w)' = 0
    BY <1>2, <1>5, <1>6 DEF Owed, Popping
  <2>2. age[w].tag \in Nat
    BY <1>1, Facts
  <2> QED
    BY <1>1, <1>2, <1>8, <1>9, <1>13, <2>1, <2>2, TagKept
<1>18. Kept(w)
  BY <1>2, <1>10 DEF Kept
<1>19. created <= created' /\ wk[w].pc \notin Idling /\ wk'[w].pc \in Pcs
       /\ wk'[w].pc \notin Offering \cup {"stealbottom", "stealread", "stealcas"}
  BY <1>2, <1>5, <1>6, <1>8 DEF Idling, Pcs, Offering
<1> QED
  BY <1>2, <1>9, <1>12, <1>14, <1>15, <1>16, <1>17, <1>18, <1>19, OwnStep

\* A queue that has elements, and its owner
LEMMA Victim ==
  ASSUME IInv, NEW v \in Workers, Count(v) > 0
  PROVE  /\ v \in Active /\ wk[v].pc \notin Idling /\ wk[v].pc # "popset" /\ Gap(v) # N - 1
         /\ wk[v].pc \in Popping => Count(v) = Gap(v) + 1
         /\ wk[v].pc \notin Popping => Count(v) = Gap(v)
<1>1. TypeOK /\ Known(v) /\ Gap(v) \in Nat /\ N \in Nat /\ N > 3
  BY Window, Slot DEF IInv
<1>2. /\ wk[v].pc \in {"popread", "popage", "popcas"} =>
            Count(v) = IF Gap(v) = N - 1 THEN 0 ELSE Gap(v) + 1
      /\ wk[v].pc = "popset" => Count(v) = 0
      /\ wk[v].pc \notin Popping => Count(v) = IF Gap(v) = N - 1 THEN 0 ELSE Gap(v)
  BY <1>1, CountFacts
<1>3. wk[v].pc # "popset"
  BY <1>2
<1>4. wk[v].pc \in Popping => wk[v].pc \in {"popread", "popage", "popcas"}
  BY <1>3 DEF Popping
<1>5. Gap(v) # N - 1
  BY <1>2, <1>4
<1>6. wk[v].pc \notin Idling
  BY <1>1, <1>2 DEF Known, Idling, Popping
<1>7. v \in Active
  BY <1>1, <1>2 DEF Known, Popping
<1> QED
  BY <1>2, <1>3, <1>4, <1>5, <1>6, <1>7

\* Age moves on over the first element
Advanced(v) == /\ age'[v] = increment(age[v]) /\ bottom'[v] = bottom[v]
               /\ elems'[v] = elems[v] /\ overflow'[v] = overflow[v] /\ wk'[v] = wk[v]

LEMMA AdvancedQueue ==
  ASSUME TagsSuffice, IInv, NEW v \in Workers, Count(v) > 0, Advanced(v)
  PROVE  /\ age'[v] \in AgeType /\ Before(age[v], age'[v])
         /\ age'[v].tag \in Nat /\ age[v].tag <= age'[v].tag /\ age'[v].tag <= age[v].tag + 1
         /\ Gap(v)' = IF Gap(v) = 0 THEN N - 1 ELSE Gap(v) - 1
         /\ \A s \in Slots : s = age[v].top => Held(v, s) /\ ~Held(v, s)'
         /\ \A s \in Slots : s # age[v].top => (Held(v, s)' <=> Held(v, s))
<1>1. /\ TypeOK /\ TagUsed(v) /\ Gap(v) \in Nat /\ Gap(v) < N /\ N \in Nat /\ N > 3
      /\ age[v] \in AgeType /\ age[v].top \in Slots /\ age[v].tag \in Nat /\ bottom[v] \in Slots
  BY Window, Slot, Facts DEF IInv
<1>2. age[v].tag + 1 < TagRange
  <2>1. age[v].tag + Owed(v) + 2 <= TagRange
    BY <1>1, TagLeft
  <2> QED
    BY <1>1, <2>1, Slot DEF Owed
<1>3. /\ age'[v] \in AgeType /\ Before(age[v], age'[v])
      /\ age'[v].top = increment_index(age[v].top)
      /\ age'[v].tag \in Nat /\ age[v].tag <= age'[v].tag /\ age'[v].tag <= age[v].tag + 1
  BY <1>1, <1>2, Later DEF Advanced
<1>4. Gap(v)' = IF Gap(v) = 0 THEN N - 1 ELSE Gap(v) - 1
  BY <1>1, <1>3, Distance DEF Gap, Advanced
<1>5. Count(v)' = Count(v) - 1 /\ Count(v) \in Nat /\ Count(v) < N
  <2>1. /\ wk[v].pc # "popset" /\ Gap(v) # N - 1
        /\ wk[v].pc \in Popping => Count(v) = Gap(v) + 1
        /\ wk[v].pc \notin Popping => Count(v) = Gap(v)
    BY Victim
  <2>2. CASE wk[v].pc \in Popping
    <3>1. wk[v].pc \in {"popread", "popage", "popcas"}
      BY <2>1, <2>2 DEF Popping
    <3>2. Count(v)' = IF Gap(v)' = N - 1 THEN 0 ELSE Gap(v)' + 1
      BY <3>1 DEF Count, CountAt, Advanced
    <3> QED
      BY <1>1, <1>4, <2>1, <2>2, <3>2
  <2>3. CASE wk[v].pc \notin Popping
    <3>1. Count(v)' = IF Gap(v)' = N - 1 THEN 0 ELSE Gap(v)'
      BY <2>3 DEF Count, CountAt, Advanced, Popping
    <3> QED
      BY <1>1, <1>4, <2>1, <2>3, <3>1
  <2> QED
    BY <2>2, <2>3
<1>6. ASSUME NEW s \in Slots
      PROVE  /\ s = age[v].top => Held(v, s) /\ ~Held(v, s)'
             /\ s # age[v].top => (Held(v, s)' <=> Held(v, s))
  <2>1. PICK d \in Nat : d = dirty_size(s, age[v].top) /\ d < N /\ (d = 0 <=> s = age[v].top)
    BY <1>1, Window
  <2>2. dirty_size(s, age'[v].top) = IF d = 0 THEN N - 1 ELSE d - 1
    BY <1>1, <1>3, <2>1, Distance
  <2>3. At(v, "pushbottom") => bottom[v] # age[v].top
    <3>1. At(v, "pushbottom") => Count(v) = Gap(v)
      BY Victim DEF At, Popping
    <3> QED
      BY <1>1, <3>1, Window
  <2>4. Held(v, s) <=> d < Count(v) \/ (At(v, "pushbottom") /\ s = bottom[v])
    BY <2>1 DEF Held
  <2>5. Held(v, s)' <=> \/ (IF d = 0 THEN N - 1 ELSE d - 1) < Count(v) - 1
                        \/ At(v, "pushbottom") /\ s = bottom[v]
    BY <1>5, <2>2 DEF Held, At, Advanced
  <2> QED
    BY <1>1, <1>5, <2>1, <2>3, <2>4, <2>5
<1> QED
  BY <1>1, <1>3, <1>4, <1>6

\* The owner still knows its queue when a thief has taken an element
LEMMA AdvancedOwner ==
  ASSUME TagsSuffice, IInv, NEW v \in Workers, Count(v) > 0, Advanced(v), phase' = phase
  PROVE  Known(v)' /\ Filled(v)'
<1>1. /\ TypeOK /\ Known(v) /\ Filled(v) /\ Gap(v) \in Nat /\ Gap(v) < N /\ N \in Nat /\ N > 3
  BY Window, Slot DEF IInv
<1>2. /\ age[v].tag <= age'[v].tag /\ age'[v].tag \in Nat
      /\ Gap(v)' = IF Gap(v) = 0 THEN N - 1 ELSE Gap(v) - 1
      /\ \A s \in Slots : s = age[v].top => ~Held(v, s)'
      /\ \A s \in Slots : s # age[v].top => (Held(v, s)' <=> Held(v, s))
  BY AdvancedQueue
<1>3. /\ v \in Active /\ wk[v].pc \notin Idling /\ wk[v].pc # "popset" /\ Gap(v) # N - 1
      /\ wk[v].pc \notin Popping => Count(v) = Gap(v)
  BY Victim
<1>4. Filled(v)'
  BY <1>1, <1>2 DEF Filled, Advanced
<1>5. Active' = Active
  BY DEF Active
<1>6. wk[v].pc \notin Popping => Gap(v)' # N - 1 /\ Gap(v)' = Gap(v) - 1
  BY <1>1, <1>2, <1>3
<1>7. wk[v].pc = "pushbottom" => Gap(v)' < N - 2
  BY <1>1, <1>6 DEF Known, Popping
<1>8. wk[v].pc \in {"popage", "popcas"} => Gap(v) = 0 /\ Gap(v)' = N - 1
  BY <1>1, <1>2, <1>3 DEF Known
<1>9. wk[v].pc = "popcas" => /\ age'[v] = increment(wk[v].old)
                             /\ wk[v].old.tag <= age'[v].tag
  BY <1>1, <1>2, <1>8 DEF Known, Advanced
<1>10. Known(v)'
  <2>1. wk[v].pc \in Claiming => wk'[v].task # NoTask
    BY <1>1 DEF Known, Advanced
  <2>2. wk[v].pc \in Popping => wk'[v].bot = bottom'[v]
    BY <1>1 DEF Known, Advanced
  <2>3. wk[v].pc \in {"popage", "popcas"} => wk'[v].task = elems'[v][bottom'[v]]
    BY <1>1 DEF Known, Advanced
  <2>4. wk[v].pc = "popcas" => wk'[v].old.top = bottom'[v]
    BY <1>1 DEF Known, Advanced
  <2>5. wk'[v] = wk[v]
    BY DEF Advanced
  <2> QED
    BY <1>1, <1>3, <1>5, <1>6, <1>7, <1>8, <1>9, <2>1, <2>2, <2>3, <2>4, <2>5 DEF Known
<1> QED
  BY <1>4, <1>10

\* A thief takes the first element while the age is what it read, or starts again
LEMMA StealCasStep ==
  ASSUME TagsSuffice, IInv, NEW w \in Active, StealCas(w)
  PROVE  IInv'
<1>1. /\ TypeOK /\ w \in Workers /\ wk[w] \in WkType /\ Stealing(w) /\ Known(w) /\ Filled(w)
      /\ TagUsed(w) /\ Unique /\ Offers /\ Active \subseteq Workers
  BY Acting
<1>2. /\ wk[w].pc = "stealcas"
      /\ UNCHANGED <<phase, bottom, elems, overflow, created, done, offered>>
  BY DEF StealCas, At, work
<1>3. PICK v \in Workers : v = wk[w].from /\ v # w
  BY <1>1, <1>2, Locals DEF Stealing
<1>4. CASE age[v] # wk[w].old
  <2>1. UNCHANGED age /\ Continue(w, "steal")
    BY <1>3, <1>4 DEF StealCas
  <2>2. PICK r \in WkType : wk' = [wk EXCEPT ![w] = r] /\ r.pc = "steal"
    BY <1>1, <2>1, Continued DEF Pcs
  <2>3. wk'[w] = r
    BY <1>1, <2>2, WkUpdate
  <2> QED
    BY <1>2, <2>1, <2>2, <2>3, IdleOn, StealsNothing DEF Idling, Offering
<1>5. CASE age[v] = wk[w].old
  <2>1. Count(v) > 0 /\ wk[w].task = elems[v][age[v].top]
    BY <1>1, <1>2, <1>3, <1>5 DEF Stealing
  <2>2. age' = [age EXCEPT ![v] = increment(age[v])] /\ Claim(w, wk[w].task)
    BY <1>3, <1>5 DEF StealCas
  <2>3. /\ age'[v] = increment(age[v]) /\ age \in [Workers -> AgeType]
        /\ \A u \in Workers : u # v => age'[u] = age[u]
    BY <1>1, <2>2 DEF TypeOK, AgeType
  <2>4. \A u \in Workers : u # w => wk'[u] = wk[u]
    BY <1>1, <2>2 DEF Claim, TypeOK
  <2>5. Advanced(v)
    BY <1>2, <1>3, <2>3, <2>4 DEF Advanced
  <2>6. /\ age'[v] \in AgeType /\ Before(age[v], age'[v]) /\ age'[v].tag \in Nat
        /\ age'[v].tag <= age[v].tag + 1
        /\ \A s \in Slots : s = age[v].top => Held(v, s) /\ ~Held(v, s)'
        /\ \A s \in Slots : s # age[v].top => (Held(v, s)' <=> Held(v, s))
    BY <2>1, <2>5, AdvancedQueue
  <2>7. age[v].top \in Slots /\ age[v].tag \in Nat /\ elems[v] \in [Slots -> Tasks \cup {NoTask}]
    BY <1>1, Facts
  <2>8. PICK t \in Tasks : t = wk[w].task /\ t = elems[v][age[v].top] /\ t # NoTask
    <3>1. Filled(v)
      BY DEF IInv
    <3> QED
      BY <2>1, <2>6, <2>7, <3>1 DEF Filled
  <2>9. PICK r \in WkType : wk' = [wk EXCEPT ![w] = r] /\ r.pc = "process" /\ r.task = t
    BY <1>1, <2>2, <2>8, ClaimedTask
  <2>10. wk' \in [Workers -> WkType] /\ wk'[w] = r
    BY <1>1, <2>9, WkUpdate
  <2>11. age' \in [Workers -> AgeType]
    BY <2>2, <2>3, <2>6
  <2>12. TypeOK'
    BY <1>1, <1>2, <2>10, <2>11 DEF TypeOK, WkType, AgeType, Pcs, Tasks, Active
  <2>13. Gap(w) = 0 /\ Gap(w)' = Gap(w) /\ overflow[w] = <<>> /\ N \in Nat /\ N > 3
    BY <1>1, <1>2, <1>3, <2>3, Slot DEF Known, Idling, Gap
  <2>14. Count(w) = 0 /\ Count(w)' = 0
    BY <1>2, <2>9, <2>10, <2>13 DEF Count, CountAt
  <2>15. \A s \in Slots : Held(w, s)' <=> Held(w, s)
    BY <1>2, <1>3, <2>3, <2>9, <2>10, <2>14 DEF Held, At
  <2>16. \A u \in Workers : u # v /\ u # w => Framed(u)
    BY <1>2, <2>3, <2>4 DEF Framed
  <2>17. \A u \in Workers : u # v => SlotTask'[u] = SlotTask[u]
    <3>1. SlotTask'[w] = SlotTask[w]
      BY <1>1, <1>2, <2>15 DEF SlotTask
    <3> QED
      BY <2>16, <3>1, FramedQueue
  <2>18. /\ SlotTask[v][age[v].top] = t /\ SlotTask'[v][age[v].top] = 0 /\ t # 0
         /\ \A s \in Slots : s # age[v].top => SlotTask'[v][s] = SlotTask[v][s]
    BY <1>2, <2>6, <2>7, <2>8 DEF SlotTask, NoTask
  <2>19. /\ ClaimTask[w] = 0 /\ ClaimTask'[w] = t
         /\ \A u \in Workers : u # w => ClaimTask'[u] = ClaimTask[u]
    BY <1>1, <1>2, <2>4, <2>9, <2>10 DEF ClaimTask, Claiming, NoTask
  <2>20. \A u \in Workers : StackTask'[u] = StackTask[u]
    BY <1>2 DEF StackTask
  <2>21. /\ Unique' /\ SlotTask[v][age[v].top] \in 1..created
         /\ \A s \in Slots : \/ SlotTask'[v][s] = SlotTask[v][s]
                             \/ SlotTask'[v][s] \notin 1..created
         /\ \A s \in Slots : SlotTask'[v][s] # SlotTask[v][age[v].top]
    BY <1>1, <1>2, <2>7, <2>17, <2>18, <2>19, <2>20, Taken
  <2>22. created \in Nat /\ created <= created' /\ created' \in Nat
    BY <1>1, <1>2, PhaseFacts
  <2>23. ASSUME NEW u \in Workers
         PROVE  Filled(u)' /\ Known(u)' /\ TagUsed(u)' /\ Kept(u)
    <3>1. CASE u = v
      <4>1. Owed(v) \in {0, 1} /\ Owed(v)' \in {0, 1}
        BY DEF Owed
      <4>2. age'[v].tag + Owed(v)' <= age[v].tag + Owed(v) + 2 /\ TagUsed(v)
        BY <2>6, <2>7, <4>1 DEF IInv
      <4>3. TagUsed(v)'
        BY <1>1, <1>2, <2>7, <2>12, <2>21, <4>2, TagGained
      <4>4. Known(v)' /\ Filled(v)'
        BY <1>2, <2>1, <2>5, AdvancedOwner
      <4>5. Kept(v)
        BY <2>6 DEF Kept
      <4> QED
        BY <3>1, <4>3, <4>4, <4>5
    <3>2. CASE u = w
      <4>1. Filled(w)'
        BY <1>1, <1>2, <2>15 DEF Filled
      <4>2. Known(w)'
        BY <1>2, <2>8, <2>9, <2>10, <2>13 DEF Known, Claiming, Popping, Idling, Active
      <4>3. TagUsed(w)'
        <5>1. Owed(w) = 0 /\ Owed(w)' = 0 /\ age[w].tag \in Nat /\ age'[w] = age[w]
          BY <1>1, <1>2, <1>3, <2>3, <2>9, <2>10, Facts DEF Owed, Popping
        <5> QED
          BY <1>1, <1>3, <2>12, <2>17, <2>22, <5>1, TagKept
      <4>4. Kept(w)
        BY <1>1, <1>3, <2>3, <2>14 DEF Kept
      <4> QED
        BY <3>2, <4>1, <4>2, <4>3, <4>4
    <3>3. CASE u # v /\ u # w
      BY <1>2, <2>16, <2>22, <3>3, FramedOwner
    <3> QED
      BY <3>1, <3>2, <3>3
  <2>24. Offers'
    <3>1. v \in Active /\ wk[v].pc \notin Idling
      BY <2>1, Victim
    <3>2. ~(\E u \in Active : wk[u].pc = "done")
      BY <1>1, <3>1, NoneLeft
    <3> QED
      BY <1>1, <1>2, <2>4, <2>9, <2>10, <3>2, OffersKept DEF Offering
  <2>25. Stealing(w)'
    BY <2>9, <2>10, StealsNothing
  <2> QED
    BY <1>1, <2>4, <2>12, <2>21, <2>23, <2>24, <2>25, StepKeeps
<1> QED
  BY <1>4, <1>5

-----------------------------------------------------------------------------
(* The invariant holds                                                     *)

LEMMA InitTypes ==
  ASSUME Init
  PROVE  /\ TypeOK
         /\ \A w \in Workers : wk[w].pc = IF w = First THEN "process" ELSE "drain"
         /\ First \in Workers /\ First \in Active /\ wk[First].task = 1
<1>1. phase \in [active : {S \in SUBSET Workers : First \in S},
                 tasks : Nat \ {0}, start : 0..(N - 1)]
  BY QueueAssumption DEF Init
<1>2. /\ phase.tasks \in Nat /\ phase.tasks > 0 /\ phase.start \in Slots /\ First \in Active
      /\ Active \subseteq Workers /\ First \in Workers
  BY <1>1, QueueAssumption DEF Active, Slots
<1>3. 1 \in Tasks /\ NoTask \in Tasks \cup {NoTask}
  BY <1>2 DEF Tasks
<1>4. starting \in WkType /\ starting.pc = "drain"
  BY Started
<1>5. PICK r : r = [starting EXCEPT !.pc = "process", !.task = 1]
  OBVIOUS
<1>6. r \in WkType /\ r.pc = "process" /\ r.task = 1
  <2>1. "process" \in Pcs
    BY DEF Pcs
  <2> QED
    BY <1>3, <1>4, <1>5, <2>1 DEF WkType
<1>7. wk = [w \in Workers |-> IF w = First THEN r ELSE starting]
  BY <1>5 DEF Init
<1>8. wk \in [Workers -> WkType]
  BY <1>4, <1>6, <1>7
<1>9. IsFiniteSet(Active) /\ Cardinality(Active) \in Nat
  BY <1>2, QueueAssumption, FS_Subset, FS_CardinalityType
<1>10. age \in [Workers -> AgeType]
  BY <1>2, Slot DEF Init, AgeType
<1>11. overflow \in [Workers -> Seq(Tasks)]
  <2>1. <<>> \in Seq(Tasks)
    OBVIOUS
  <2> QED
    BY <2>1 DEF Init
<1>12. /\ phase \in Phases /\ bottom \in [Workers -> Slots]
       /\ elems \in [Workers -> [Slots -> Tasks \cup {NoTask}]]
       /\ created \in Tasks /\ done \in [Tasks -> Nat]
  BY <1>2, <1>3 DEF Init
<1>13. offered \in 0..Cardinality(Active)
  BY <1>9 DEF Init
<1>14. TypeOK
  BY <1>8, <1>10, <1>11, <1>12, <1>13 DEF TypeOK, WkType, AgeType, Pcs
<1> QED
  BY <1>2, <1>4, <1>6, <1>7, <1>14

LEMMA InitInvariant == Init => IInv
<1> SUFFICES ASSUME Init PROVE IInv
  OBVIOUS
<1>1. /\ TypeOK /\ First \in Workers /\ First \in Active /\ wk[First].task = 1
      /\ \A w \in Workers : wk[w].pc = IF w = First THEN "process" ELSE "drain"
  BY InitTypes
<1>2. created = 1 /\ N \in Nat /\ N > 3
  BY Slot DEF Init
<1>3. \A w \in Workers : /\ Gap(w) = 0 /\ overflow[w] = <<>> /\ age[w].tag = 0
                         /\ wk[w].pc \in {"process", "drain"}
  <2>1. \A w \in Workers : bottom[w] = age[w].top /\ bottom[w] \in Slots /\ age[w].top \in Slots
    BY <1>1, Facts DEF Init
  <2>2. \A w \in Workers : Gap(w) = 0
    BY <1>1, <2>1, Window
  <2> QED
    BY <1>1, <2>2 DEF Init
<1>4. \A w \in Workers : Count(w) = 0
  BY <1>2, <1>3 DEF Count, CountAt
<1>5. \A w \in Workers : \A s \in Slots : ~Held(w, s)
  <2>1. \A w \in Workers : \A s \in Slots : dirty_size(s, age[w].top) \in Nat
    BY <1>1, Window
  <2> QED
    BY <1>3, <1>4, <2>1 DEF Held, At
<1>6. \A w \in Workers : \A s \in Slots : SlotTask[w][s] = 0
  BY <1>5 DEF SlotTask, NoTask
<1>7. \A w \in Workers : \A k \in Positions : StackTask[w][k] = 0
  <2>1. \A w \in Workers : Len(overflow[w]) = 0
    BY <1>3
  <2>2. \A w \in Workers : \A k \in Positions : k \notin 1..Len(overflow[w])
    BY <2>1 DEF Positions
  <2> QED
    BY <2>2 DEF StackTask, NoTask
<1>8. \A w \in Workers : ClaimTask[w] = IF w = First THEN 1 ELSE 0
  BY <1>1 DEF ClaimTask, Claiming, NoTask
<1>9. \A t \in Tasks : done[t] = 0
  BY DEF Init
<1>10. DOMAIN done = Tasks /\ 1 \in Tasks
  BY <1>1, <1>2 DEF TypeOK
<1>11. Unique
  <2>1. Typed(SlotTask, StackTask, ClaimTask, done, 1)
    <3>1. SlotTask \in [Workers -> [Slots -> 0..1]]
      BY <1>6 DEF SlotTask
    <3>2. StackTask \in [Workers -> [Positions -> 0..1]]
      BY <1>7 DEF StackTask
    <3>3. ClaimTask \in [Workers -> 0..1]
      BY <1>8 DEF ClaimTask
    <3>4. 1..1 \subseteq DOMAIN done
      BY <1>10
    <3> QED
      BY <1>9, <1>10, <3>1, <3>2, <3>3, <3>4 DEF Typed
  <2>2. SlotsOnce(SlotTask, StackTask, ClaimTask, done) /\ StacksOnce(StackTask, ClaimTask, done)
    BY <1>6, <1>7 DEF SlotsOnce, StacksOnce
  <2>3. ClaimsOnce(ClaimTask, done)
    BY <1>8, <1>9, <1>10 DEF ClaimsOnce
  <2>4. Present(SlotTask, StackTask, ClaimTask, done, 1)
    BY <1>1, <1>8 DEF Present
  <2> QED
    BY <1>2, <2>1, <2>2, <2>3, <2>4 DEF Unique, Once
<1>12. ASSUME NEW w \in Workers PROVE Filled(w) /\ Known(w) /\ Stealing(w) /\ TagUsed(w)
  <2>1. Filled(w)
    BY <1>5 DEF Filled
  <2>2. Known(w)
    BY <1>1, <1>2, <1>3 DEF Known, Claiming, Popping, Idling, NoTask
  <2>3. Stealing(w)
    BY <1>3 DEF Stealing
  <2>4. TagUsed(w)
    <3>1. Out(SlotTask[w], 1) = {1}
      BY <1>6 DEF Out
    <3>2. Cardinality(Out(SlotTask[w], 1)) = 1
      BY <3>1, FS_Singleton
    <3>3. Owed(w) = 0
      BY <1>3 DEF Owed, Popping
    <3> QED
      BY <1>2, <1>3, <3>2, <3>3 DEF TagUsed
  <2> QED
    BY <2>1, <2>2, <2>3, <2>4
<1>13. Offers
  <2>1. Active \subseteq Workers
    BY <1>1, PhaseFacts
  <2>2. {w \in Active : wk[w].pc \in Offering} = {}
    BY <1>3, <2>1 DEF Offering
  <2>3. Cardinality({w \in Active : wk[w].pc \in Offering}) = 0
    BY <2>2, FS_EmptySet
  <2> QED
    BY <1>3, <2>1, <2>3 DEF Offers, Init
<1> QED
  BY <1>1, <1>11, <1>12, <1>13 DEF IInv

LEMMA StutterKeeps == IInv /\ UNCHANGED vars => IInv'
<1> SUFFICES ASSUME IInv, UNCHANGED vars PROVE IInv'
  OBVIOUS
<1>1. UNCHANGED <<phase, bottom, age, elems, overflow, offered, created, done, wk>>
  BY DEF vars
<1>2. /\ TypeOK /\ First \in Workers /\ Unique /\ Offers /\ created \in Nat
      /\ \A v \in Workers : Stealing(v)
  BY PhaseFacts, QueueAssumption DEF IInv
<1>3. TypeOK'
  BY <1>1, <1>2 DEF TypeOK, Tasks, Active
<1>4. \A v \in Workers : Framed(v)
  BY <1>1 DEF Framed
<1>5. \A v \in Workers : Filled(v)' /\ Known(v)' /\ TagUsed(v)' /\ Kept(v)
  BY <1>1, <1>2, <1>4, FramedOwner
<1>6. Unique'
  BY <1>1, <1>2, <1>4, FramedQueue, SamePlaces
<1>7. Offers'
  BY <1>1, <1>2 DEF Offers, Active
<1>8. Stealing(First)'
  <2>1. wk[First].from \in Workers
    BY <1>2, Locals
  <2> QED
    BY <1>1, <1>2, <1>3, <1>5, <2>1, ThiefKept
<1> QED
  BY <1>1, <1>2, <1>3, <1>5, <1>6, <1>7, <1>8, StepKeeps

LEMMA NextInvariant ==
  ASSUME TagsSuffice, IInv, [Next]_vars
  PROVE  IInv'
<1>1. ASSUME NEW w \in Active, Step(w) PROVE IInv'
  <2>1. CASE Push(w)
    BY <2>1, PushQueueStep, PushOverflowStep
  <2>2. CASE PushBottom(w)
    BY <2>2, PushBottomStep
  <2>3. CASE Processed(w)
    BY <2>3, ProcessedStep
  <2>4. CASE PopOverflow(w)
    BY <2>4, PopOverflowStep
  <2>5. CASE PopLocal(w)
    BY <2>5, PopLocalStep
  <2>6. CASE PopRead(w)
    BY <2>6, PopReadStep
  <2>7. CASE PopAge(w)
    BY <2>7, PopAgeStep
  <2>8. CASE PopSlow(w)
    BY <2>8, PopSlowStep
  <2>9. CASE PopLost(w)
    BY <2>9, PopLostStep
  <2>10. CASE StealAge(w)
    BY <2>10, StealAgeStep
  <2>11. CASE StealBottom(w)
    BY <2>11, StealBottomStep
  <2>12. CASE StealRead(w)
    BY <2>12, StealReadStep
  <2>13. CASE StealCas(w)
    BY <2>13, StealCasStep
  <2>14. CASE Offer(w)
    BY <2>14, OfferStep
  <2>15. CASE CheckOffered(w)
    BY <2>15, CheckOfferedStep
  <2>16. CASE Peek(w)
    BY <2>16, PeekStep
  <2>17. CASE Withdraw(w)
    BY <2>17, WithdrawStep
  <2> QED
    BY <1>1, <2>1, <2>2, <2>3, <2>4, <2>5, <2>6, <2>7, <2>8, <2>9, <2>10, <2>11, <2>12,
       <2>13, <2>14, <2>15, <2>16, <2>17 DEF Step
<1>2. CASE UNCHANGED vars
  BY <1>2, StutterKeeps
<1> QED
  BY <1>1, <1>2 DEF Next, Finished

\* The queues, as the run's property counts their elements
LEMMA QueueCount ==
  ASSUME IInv, NEW w \in Workers, NEW t
  PROVE  t \in InQueue(w) <=>
            \E s \in Slots : dirty_size(s, age[w].top) < Count(w) /\ elems[w][s] = t
<1>1. /\ TypeOK /\ Gap(w) \in Nat /\ Gap(w) < N /\ N \in Nat /\ N > 3 /\ age[w].top \in Slots
      /\ Count(w) \in Nat /\ Count(w) < N
  BY Window, Slot, Facts, CountFacts DEF IInv
<1>2. (Gap(w) + 1) % N = IF Gap(w) = N - 1 THEN 0 ELSE Gap(w) + 1
  BY <1>1, Modulo
<1>3. size(bottom[w], age[w].top) = IF Gap(w) = N - 1 THEN 0 ELSE Gap(w)
  BY DEF size, Gap
<1>4. InQueue(w) = {elems[w][(age[w].top + i) % N] : i \in 0..(Count(w) - 1)}
  <2>1. CASE wk[w].pc \in {"popread", "popage", "popcas"}
    BY <1>2, <2>1 DEF InQueue, Gap, Count, CountAt
  <2>2. CASE wk[w].pc = "popset"
    BY <2>2 DEF InQueue, Count, CountAt
  <2>3. CASE wk[w].pc \notin {"popread", "popage", "popcas", "popset"}
    BY <1>3, <2>3 DEF InQueue, Count, CountAt
  <2> QED
    BY <2>1, <2>2, <2>3
<1>5. ASSUME NEW i \in 0..(Count(w) - 1)
      PROVE  /\ (age[w].top + i) % N \in Slots
             /\ dirty_size((age[w].top + i) % N, age[w].top) < Count(w)
  <2>1. i \in Slots /\ i < Count(w)
    BY <1>1, Slot
  <2> QED
    BY <1>1, <2>1, SlotAt
<1>6. ASSUME NEW s \in Slots, dirty_size(s, age[w].top) < Count(w)
      PROVE  \E i \in 0..(Count(w) - 1) : s = (age[w].top + i) % N
  <2>1. PICK i \in Slots : i = dirty_size(s, age[w].top)
    BY <1>1, Dirty
  <2>2. i \in 0..(Count(w) - 1)
    BY <1>1, <1>6, <2>1, Slot
  <2>3. (age[w].top + i) % N \in Slots /\ dirty_size((age[w].top + i) % N, age[w].top) = i
    BY <1>1, SlotAt
  <2>4. s = (age[w].top + i) % N
    BY <1>1, <2>1, <2>3, SameDistance
  <2> QED
    BY <2>2, <2>4
<1> QED
  BY <1>4, <1>5, <1>6

\* Where the run's properties see a task, and where the invariant does
LEMMA Places ==
  ASSUME IInv, NEW w \in Workers, NEW t \in Tasks
  PROVE  /\ t \in InQueue(w) <=>
               \E s \in Slots : dirty_size(s, age[w].top) < Count(w) /\ SlotTask[w][s] = t
         /\ t \in Pushed(w) <=> At(w, "pushbottom") /\ SlotTask[w][bottom[w]] = t
         /\ t \in Range(overflow[w]) <=> \E k \in Positions : StackTask[w][k] = t
         /\ t \in Claimed(w) <=> ClaimTask[w] = t
         /\ \A s \in Slots : SlotTask[w][s] = t =>
               dirty_size(s, age[w].top) < Count(w) \/ (At(w, "pushbottom") /\ s = bottom[w])
         /\ At(w, "pushbottom") => ~(dirty_size(bottom[w], age[w].top) < Count(w))
         /\ bottom[w] \in Slots
<1>1. TypeOK /\ Known(w) /\ t # NoTask /\ bottom[w] \in Slots /\ overflow[w] \in Seq(Tasks)
  BY Facts, PhaseFacts DEF IInv, NoTask
<1>2. \A s \in Slots : SlotTask[w][s] = t <=> Held(w, s) /\ elems[w][s] = t
  BY <1>1 DEF SlotTask
<1>3. t \in InQueue(w) <=>
         \E s \in Slots : dirty_size(s, age[w].top) < Count(w) /\ SlotTask[w][s] = t
  BY <1>2, QueueCount DEF Held
<1>4. t \in Pushed(w) <=> At(w, "pushbottom") /\ SlotTask[w][bottom[w]] = t
  BY <1>1, <1>2 DEF Pushed, Held
<1>5. t \in Range(overflow[w]) <=> \E k \in Positions : StackTask[w][k] = t
  <2>1. PICK L \in Nat : L = Len(overflow[w]) /\ DOMAIN overflow[w] = 1..L
    BY <1>1
  <2>2. t \in Range(overflow[w]) <=> \E i \in 1..L : overflow[w][i] = t
    BY <2>1 DEF Range
  <2>3. \A k \in Positions : StackTask[w][k] = IF k \in 1..L THEN overflow[w][L + 1 - k] ELSE NoTask
    BY <2>1 DEF StackTask
  <2>4. ASSUME NEW i \in 1..L, overflow[w][i] = t PROVE \E k \in Positions : StackTask[w][k] = t
    <3>1. PICK k : k = L + 1 - i
      OBVIOUS
    <3>2. k \in Positions /\ k \in 1..L /\ L + 1 - k = i
      BY <2>1, <3>1 DEF Positions
    <3> QED
      BY <2>3, <2>4, <3>2
  <2>5. ASSUME NEW k \in Positions, StackTask[w][k] = t PROVE \E i \in 1..L : overflow[w][i] = t
    <3>1. k \in 1..L /\ overflow[w][L + 1 - k] = t
      BY <1>1, <2>3, <2>5
    <3>2. L + 1 - k \in 1..L
      BY <2>1, <3>1
    <3> QED
      BY <3>1, <3>2
  <2> QED
    BY <2>2, <2>4, <2>5
<1>6. t \in Claimed(w) <=> ClaimTask[w] = t
  BY <1>1 DEF Claimed, ClaimTask, Claiming
<1>7. At(w, "pushbottom") => ~(dirty_size(bottom[w], age[w].top) < Count(w))
  <2>1. At(w, "pushbottom") => Gap(w) # N - 1 /\ wk[w].pc \notin Popping
    BY <1>1 DEF Known, At, Popping
  <2>2. At(w, "pushbottom") => Count(w) = Gap(w)
    BY <1>1, <2>1, CountFacts
  <2> QED
    BY <1>1, <2>2, Window DEF Gap
<1> QED
  BY <1>1, <1>2, <1>3, <1>4, <1>5, <1>6, <1>7 DEF Held

LEMMA CountsOnce == IInv => EachTaskOnce
<1> SUFFICES ASSUME IInv, NEW t \in Tasks
             PROVE  LET places == Cardinality({w \in Workers : t \in InQueue(w)})
                                  + Cardinality({w \in Workers : t \in Range(overflow[w])})
                                  + Cardinality({w \in Workers : t \in Pushed(w)})
                                  + Cardinality({w \in Workers : t \in Claimed(w)})
                                  + done[t]
                    IN places = IF t <= created THEN 1 ELSE 0
  BY DEF EachTaskOnce
<1>1. /\ created \in Nat /\ t \in Nat /\ 1 <= t /\ t # 0 /\ t \in DOMAIN done
      /\ Once(SlotTask, StackTask, ClaimTask, done, created)
  BY PhaseFacts DEF IInv, TypeOK, Unique
<1>2. PICK A : A = {w \in Workers : t \in InQueue(w)}
  OBVIOUS
<1>3. PICK B : B = {w \in Workers : t \in Range(overflow[w])}
  OBVIOUS
<1>4. PICK C : C = {w \in Workers : t \in Pushed(w)}
  OBVIOUS
<1>5. PICK D : D = {w \in Workers : t \in Claimed(w)}
  OBVIOUS
<1>6. /\ \A w \in Workers : w \in A <=> \E s \in Slots : /\ dirty_size(s, age[w].top) < Count(w)
                                                         /\ SlotTask[w][s] = t
      /\ \A w \in Workers : w \in B <=> \E k \in Positions : StackTask[w][k] = t
      /\ \A w \in Workers : w \in C <=> At(w, "pushbottom") /\ SlotTask[w][bottom[w]] = t
      /\ \A w \in Workers : w \in D <=> ClaimTask[w] = t
      /\ A \subseteq Workers /\ B \subseteq Workers /\ C \subseteq Workers /\ D \subseteq Workers
  BY <1>2, <1>3, <1>4, <1>5, Places
<1>7. \A w \in Workers : /\ bottom[w] \in Slots
                         /\ \A s \in Slots : SlotTask[w][s] = t =>
                               \/ dirty_size(s, age[w].top) < Count(w)
                               \/ At(w, "pushbottom") /\ s = bottom[w]
                         /\ At(w, "pushbottom") => ~(dirty_size(bottom[w], age[w].top) < Count(w))
  BY Places
<1>8. \A S : (S = {} => Cardinality(S) = 0) /\ \A x \in Workers : S = {x} => Cardinality(S) = 1
  BY FS_EmptySet, FS_Singleton
<1>9. /\ \A v \in Workers : \A s \in Slots : SlotTask[v][s] = t =>
            /\ \A w \in Workers : \A r \in Slots : SlotTask[w][r] = t => v = w /\ s = r
            /\ B = {} /\ D = {} /\ done[t] = 0
      /\ \A v \in Workers : \A k \in Positions : StackTask[v][k] = t =>
            /\ \A w \in Workers : \A s \in Slots : SlotTask[w][s] # t
            /\ B = {v} /\ D = {} /\ done[t] = 0
      /\ \A v \in Workers : ClaimTask[v] = t =>
            /\ \A w \in Workers : \A s \in Slots : SlotTask[w][s] # t
            /\ B = {} /\ D = {v} /\ done[t] = 0
  <2>1. ASSUME NEW v \in Workers, NEW s \in Slots, SlotTask[v][s] = t
        PROVE  /\ \A w \in Workers : \A r \in Slots : SlotTask[w][r] = t => v = w /\ s = r
               /\ B = {} /\ D = {} /\ done[t] = 0
    BY <1>1, <1>6, <2>1 DEF Once, SlotsOnce
  <2>2. ASSUME NEW v \in Workers, NEW k \in Positions, StackTask[v][k] = t
        PROVE  /\ \A w \in Workers : \A s \in Slots : SlotTask[w][s] # t
               /\ B = {v} /\ D = {} /\ done[t] = 0
    <3>1. /\ \A w \in Workers : \A i \in Positions : StackTask[w][i] = t => v = w
          /\ \A w \in Workers : ClaimTask[w] # t
          /\ done[t] = 0
      BY <1>1, <2>2 DEF Once, StacksOnce
    <3>2. \A w \in Workers : \A s \in Slots : SlotTask[w][s] # t
      BY <1>1, <2>2 DEF Once, SlotsOnce
    <3> QED
      BY <1>6, <2>2, <3>1, <3>2
  <2>3. ASSUME NEW v \in Workers, ClaimTask[v] = t
        PROVE  /\ \A w \in Workers : \A s \in Slots : SlotTask[w][s] # t
               /\ B = {} /\ D = {v} /\ done[t] = 0
    <3>1. (\A w \in Workers : ClaimTask[w] = t => v = w) /\ done[t] = 0
      BY <1>1, <2>3 DEF Once, ClaimsOnce
    <3>2. \A w \in Workers : \A s \in Slots : SlotTask[w][s] # t
      BY <1>1, <2>3 DEF Once, SlotsOnce
    <3>3. \A w \in Workers : \A k \in Positions : StackTask[w][k] # t
      BY <1>1, <2>3 DEF Once, StacksOnce
    <3> QED
      BY <1>6, <2>3, <3>1, <3>2, <3>3
  <2> QED
    BY <2>1, <2>2, <2>3
<1>10. CASE t > created
  <2>1. /\ \A w \in Workers : \A s \in Slots : SlotTask[w][s] # t
        /\ \A w \in Workers : \A k \in Positions : StackTask[w][k] # t
        /\ \A w \in Workers : ClaimTask[w] # t
        /\ done[t] = 0
    <3>1. t \notin 0..created /\ t \notin 1..created
      BY <1>1, <1>10
    <3> QED
      BY <1>1, <3>1 DEF Once, Typed
  <2>2. A = {} /\ B = {} /\ C = {} /\ D = {}
    BY <1>6, <1>7, <2>1
  <2>3. Cardinality(A) = 0 /\ Cardinality(B) = 0 /\ Cardinality(C) = 0 /\ Cardinality(D) = 0
    BY <1>8, <2>2
  <2>4. ~(t <= created)
    BY <1>1, <1>10
  <2> QED
    BY <1>2, <1>3, <1>4, <1>5, <2>1, <2>3, <2>4
<1>11. CASE t <= created
  <2>1. \/ \E w \in Workers : \E s \in Slots : SlotTask[w][s] = t
        \/ \E w \in Workers : \E k \in Positions : StackTask[w][k] = t
        \/ \E w \in Workers : ClaimTask[w] = t
        \/ done[t] = 1
    <3>1. t \in 1..created
      BY <1>1, <1>11
    <3> QED
      BY <1>1, <3>1 DEF Once, Present
  <2>2. ASSUME NEW v \in Workers, NEW s \in Slots, SlotTask[v][s] = t
        PROVE  Cardinality(A) + Cardinality(B) + Cardinality(C) + Cardinality(D) + done[t] = 1
    <3>1. /\ \A w \in Workers : \A r \in Slots : SlotTask[w][r] = t => v = w /\ s = r
          /\ B = {} /\ D = {} /\ done[t] = 0
      BY <1>9, <2>2
    <3>2. CASE dirty_size(s, age[v].top) < Count(v)
      <4>1. A = {v} /\ C = {}
        BY <1>6, <1>7, <2>2, <3>1, <3>2
      <4>2. Cardinality(A) = 1 /\ Cardinality(B) = 0 /\ Cardinality(C) = 0 /\ Cardinality(D) = 0
        BY <1>8, <3>1, <4>1
      <4> QED
        BY <3>1, <4>2
    <3>3. CASE ~(dirty_size(s, age[v].top) < Count(v))
      <4>1. A = {} /\ C = {v}
        BY <1>6, <1>7, <2>2, <3>1, <3>3
      <4>2. Cardinality(A) = 0 /\ Cardinality(B) = 0 /\ Cardinality(C) = 1 /\ Cardinality(D) = 0
        BY <1>8, <3>1, <4>1
      <4> QED
        BY <3>1, <4>2
    <3> QED
      BY <3>2, <3>3
  <2>3. (\A w \in Workers : \A s \in Slots : SlotTask[w][s] # t) => A = {} /\ C = {}
    BY <1>6, <1>7
  <2>4. ASSUME NEW v \in Workers, NEW k \in Positions, StackTask[v][k] = t
        PROVE  Cardinality(A) + Cardinality(B) + Cardinality(C) + Cardinality(D) + done[t] = 1
    <3>1. A = {} /\ B = {v} /\ C = {} /\ D = {} /\ done[t] = 0
      BY <1>9, <2>3, <2>4
    <3>2. Cardinality(A) = 0 /\ Cardinality(B) = 1 /\ Cardinality(C) = 0 /\ Cardinality(D) = 0
      BY <1>8, <3>1
    <3> QED
      BY <3>1, <3>2
  <2>5. ASSUME NEW v \in Workers, ClaimTask[v] = t
        PROVE  Cardinality(A) + Cardinality(B) + Cardinality(C) + Cardinality(D) + done[t] = 1
    <3>1. A = {} /\ B = {} /\ C = {} /\ D = {v} /\ done[t] = 0
      BY <1>9, <2>3, <2>5
    <3>2. Cardinality(A) = 0 /\ Cardinality(B) = 0 /\ Cardinality(C) = 0 /\ Cardinality(D) = 1
      BY <1>8, <3>1
    <3> QED
      BY <3>1, <3>2
  <2>6. ASSUME done[t] = 1
        PROVE  Cardinality(A) + Cardinality(B) + Cardinality(C) + Cardinality(D) + done[t] = 1
    <3>1. \A w \in Workers : \A s \in Slots : SlotTask[w][s] # t
      BY <1>9, <2>6
    <3>2. A = {} /\ C = {}
      BY <2>3, <3>1
    <3>3. B = {} /\ D = {}
      BY <1>6, <1>9, <2>6
    <3>4. Cardinality(A) = 0 /\ Cardinality(B) = 0 /\ Cardinality(C) = 0 /\ Cardinality(D) = 0
      BY <1>8, <3>2, <3>3
    <3> QED
      BY <2>6, <3>4
  <2>7. Cardinality(A) + Cardinality(B) + Cardinality(C) + Cardinality(D) + done[t] = 1
    BY <2>1, <2>2, <2>4, <2>5, <2>6
  <2> QED
    BY <1>2, <1>3, <1>4, <1>5, <1>11, <2>7
<1> QED
  BY <1>1, <1>10, <1>11

\* When a worker has left, all are idle and nothing is on a stack or in work
LEMMA LeavesLast == IInv => TerminatesLast
<1> SUFFICES ASSUME IInv, NEW l \in Workers, At(l, "done"), NEW t \in 1..created
             PROVE  done[t] = 1
  BY DEF TerminatesLast
<1>1. TypeOK /\ Offers /\ Known(l) /\ created \in Nat /\ t # 0 /\ N \in Nat /\ N > 3
  BY PhaseFacts, Slot DEF IInv
<1>2. l \in Active
  BY <1>1 DEF Known, At
<1>3. \A w \in Active : wk[w].pc \in Idling
  BY <1>1, <1>2 DEF Offers, At
<1>4. ASSUME NEW w \in Workers
      PROVE  Gap(w) = 0 /\ overflow[w] = <<>> /\ wk[w].pc \in Idling \cup {"drain"}
  <2>1. Known(w)
    BY DEF IInv
  <2> QED
    BY <1>3, <2>1 DEF Known
<1>5. \A w \in Workers : wk[w].pc \notin Claiming \cup Popping
  BY <1>4 DEF Idling, Claiming, Popping
<1>6. \A w \in Workers : \A s \in Slots : SlotTask[w][s] # t
  <2>1. \A w \in Workers : Count(w) = 0
    BY <1>1, <1>4, <1>5, CountFacts
  <2>2. \A w \in Workers : \A s \in Slots : dirty_size(s, age[w].top) \in Nat
    BY <1>1, Window
  <2>3. \A w \in Workers : \A s \in Slots : ~Held(w, s)
    BY <1>5, <2>1, <2>2 DEF Held, At, Claiming
  <2> QED
    BY <1>1, <2>3 DEF SlotTask, NoTask
<1>7. \A w \in Workers : \A k \in Positions : StackTask[w][k] # t
  <2>1. \A w \in Workers : Len(overflow[w]) = 0
    BY <1>4
  <2>2. \A w \in Workers : \A k \in Positions : k \notin 1..Len(overflow[w])
    BY <2>1 DEF Positions
  <2> QED
    BY <1>1, <2>2 DEF StackTask, NoTask
<1>8. \A w \in Workers : ClaimTask[w] # t
  BY <1>1, <1>5 DEF ClaimTask, NoTask
<1>9. Present(SlotTask, StackTask, ClaimTask, done, created)
  BY DEF IInv, Unique, Once
<1> QED
  BY <1>6, <1>7, <1>8, <1>9 DEF Present

-----------------------------------------------------------------------------
(* Types, whatever the tags                                                *)

Counted == offered = Cardinality({w \in Active : wk[w].pc \in Offering})

\* What a step of w does to the locals, when it offers and withdraws nothing
Moves(w) == \E r \in WkType : /\ wk' = [wk EXCEPT ![w] = r]
                              /\ wk[w].pc \in Offering <=> r.pc \in Offering

LEMMA MovesKeep ==
  ASSUME TypeOK, Counted, NEW w \in Active, Moves(w), UNCHANGED <<phase, offered>>,
         bottom' \in [Workers -> Slots], age' \in [Workers -> AgeType],
         elems' \in [Workers -> [Slots -> Tasks \cup {NoTask}]],
         overflow' \in [Workers -> Seq(Tasks)], created' \in Tasks, done' \in [Tasks -> Nat]
  PROVE  TypeOK' /\ Counted'
<1>1. w \in Workers /\ Active \subseteq Workers
  BY PhaseFacts
<1>2. PICK r \in WkType : /\ wk' = [wk EXCEPT ![w] = r]
                          /\ wk[w].pc \in Offering <=> r.pc \in Offering
  BY DEF Moves
<1>3. wk' \in [Workers -> WkType] /\ wk'[w] = r /\ \A v \in Workers : v # w => wk'[v] = wk[v]
  BY <1>1, <1>2, WkUpdate
<1>4. Active' = Active /\ Tasks' = Tasks
  BY DEF Active, Tasks
<1>5. {v \in Active : wk'[v].pc \in Offering} = {v \in Active : wk[v].pc \in Offering}
  BY <1>1, <1>2, <1>3
<1>6. TypeOK'
  BY <1>3, <1>4 DEF TypeOK, WkType, AgeType, Pcs
<1> QED
  BY <1>4, <1>5, <1>6 DEF Counted

LEMMA PushTypes ==
  ASSUME TypeOK, Counted, NEW w \in Active, Push(w) \/ PushBottom(w) \/ Processed(w)
  PROVE  TypeOK' /\ Counted'
<1>1. /\ w \in Workers /\ wk[w] \in WkType /\ bottom[w] \in Slots /\ overflow[w] \in Seq(Tasks)
      /\ age \in [Workers -> AgeType] /\ elems[w] \in [Slots -> Tasks \cup {NoTask}]
  BY PhaseFacts, Locals, Facts DEF TypeOK, AgeType
<1>2. CASE Push(w)
  <2>1. wk[w].pc = "process" /\ created' = created + 1 /\ created + 1 \in Tasks
    BY <1>2, PhaseFacts DEF Push, At
  <2>2. CASE Goto(w, "pushbottom") /\ UNCHANGED overflow
             /\ elems' = [elems EXCEPT ![w][bottom[w]] = created + 1]
    <3>1. Moves(w)
      BY <1>1, <2>1, <2>2, Gone DEF Moves, Pcs, Offering
    <3>2. elems' \in [Workers -> [Slots -> Tasks \cup {NoTask}]]
      BY <1>1, <2>1, <2>2 DEF TypeOK
    <3> QED
      BY <1>1, <1>2, <2>1, <2>2, <3>1, <3>2, MovesKeep, ZenonT(40) DEF Push, TypeOK
  <2>3. CASE overflow' = [overflow EXCEPT ![w] = <<created + 1>> \o overflow[w]]
             /\ UNCHANGED <<elems, wk>>
    <3>1. Moves(w)
      BY <1>1, <2>3, Locals DEF Moves
    <3>2. PICK q \in Seq(Tasks) : q = <<created + 1>> \o overflow[w]
      <4>1. PICK q : q = <<created + 1>> \o overflow[w]
        OBVIOUS
      <4>2. q \in Seq(Tasks)
        BY <1>1, <2>1, <4>1, PushedStack
      <4> QED
        BY <4>1, <4>2
    <3>3. overflow' \in [Workers -> Seq(Tasks)]
      BY <2>3, <3>2 DEF TypeOK
    <3> QED
      BY <1>1, <1>2, <2>1, <2>3, <3>1, <3>3, MovesKeep DEF Push, TypeOK
  <2> QED
    BY <1>2, <2>2, <2>3 DEF Push
<1>3. CASE PushBottom(w)
  <2>1. Moves(w)
    BY <1>1, <1>3, Gone DEF PushBottom, At, Moves, Pcs, Offering
  <2>2. bottom' \in [Workers -> Slots]
    BY <1>1, <1>3, Indices DEF PushBottom, TypeOK
  <2> QED
    BY <1>1, <1>3, <2>1, <2>2, MovesKeep DEF PushBottom, TypeOK, work
<1>4. CASE Processed(w)
  <2>1. Moves(w)
    BY <1>1, <1>4, Continued DEF Processed, At, Moves, Pcs, Offering
  <2>2. done' \in [Tasks -> Nat]
    <3>1. PICK k : k = wk[w].task
      OBVIOUS
    <3>2. done' = [done EXCEPT ![k] = done[k] + 1] /\ done \in [Tasks -> Nat]
      BY <1>4, <3>1 DEF Processed, TypeOK
    <3>3. \A t \in Tasks : done'[t] \in Nat
      BY <3>2
    <3> QED
      BY <3>2, <3>3
  <2> QED
    BY <1>1, <1>4, <2>1, <2>2, MovesKeep DEF Processed, TypeOK, queues
<1> QED
  BY <1>2, <1>3, <1>4

LEMMA EmptyAgeType ==
  ASSUME TypeOK, NEW w \in Workers
  PROVE  EmptyAge(w) \in AgeType
<1>1. wk[w].bot \in Slots /\ wk[w].old.tag + 1 \in Nat
  BY Locals
<1>2. (wk[w].old.tag + 1) % TagRange \in 0..(TagRange - 1)
  BY <1>1, Slot, Modulo
<1> QED
  BY <1>1, <1>2 DEF EmptyAge, AgeType

LEMMA PopTypes ==
  ASSUME TypeOK, Counted, NEW w \in Active,
         \/ PopOverflow(w) \/ PopLocal(w) \/ PopRead(w) \/ PopAge(w) \/ PopSlow(w) \/ PopLost(w)
  PROVE  TypeOK' /\ Counted'
<1>1. /\ w \in Workers /\ wk[w] \in WkType /\ bottom[w] \in Slots /\ overflow[w] \in Seq(Tasks)
      /\ age \in [Workers -> AgeType] /\ elems[w] \in [Slots -> Tasks \cup {NoTask}]
      /\ age[w] \in AgeType /\ wk[w].bot \in Slots /\ wk[w].task \in Tasks \cup {NoTask}
  BY PhaseFacts, Locals, Facts DEF TypeOK, AgeType
<1>2. CASE PopOverflow(w)
  <2>1. Head(overflow[w]) \in Tasks /\ Tail(overflow[w]) \in Seq(Tasks)
    BY <1>1, <1>2, PoppedStack DEF PopOverflow
  <2>2. Moves(w)
    BY <1>1, <1>2, <2>1, ClaimedTask DEF PopOverflow, At, Moves, Offering
  <2>3. overflow' \in [Workers -> Seq(Tasks)]
    BY <1>2, <2>1 DEF PopOverflow, TypeOK
  <2> QED
    BY <1>1, <1>2, <2>2, <2>3, MovesKeep DEF PopOverflow, TypeOK, work
<1>3. CASE PopLocal(w)
  <2>1. decrement_index(bottom[w]) \in Slots
    BY <1>1, Indices
  <2>2. CASE UNCHANGED bottom /\ Continue(w, "steal")
    <3>1. Moves(w)
      BY <1>1, <1>3, <2>2, Continued DEF PopLocal, At, Moves, Pcs, Offering
    <3> QED
      BY <1>1, <1>3, <2>2, <3>1, MovesKeep DEF PopLocal, TypeOK, work
  <2>3. CASE /\ bottom' = [bottom EXCEPT ![w] = decrement_index(bottom[w])]
             /\ wk' = [wk EXCEPT ![w].pc = "popread", ![w].bot = decrement_index(bottom[w])]
    <3>1. PICK r : r = [wk[w] EXCEPT !.pc = "popread", !.bot = decrement_index(bottom[w])]
      OBVIOUS
    <3>2. r \in WkType /\ r.pc = "popread"
      BY <1>1, <2>1, <3>1 DEF WkType, Pcs
    <3>3. wk' = [wk EXCEPT ![w] = r]
      BY <2>3, <3>1
    <3>4. Moves(w)
      BY <1>3, <3>2, <3>3 DEF PopLocal, At, Moves, Offering
    <3>5. bottom' \in [Workers -> Slots]
      BY <2>1, <2>3 DEF TypeOK
    <3> QED
      BY <1>1, <1>3, <3>4, <3>5, MovesKeep DEF PopLocal, TypeOK, work
  <2> QED
    BY <1>3, <2>2, <2>3 DEF PopLocal
<1>4. CASE PopRead(w)
  <2>1. PICK t \in Tasks \cup {NoTask} : t = elems[w][wk[w].bot]
    BY <1>1
  <2>2. CASE Claim(w, t)
    <3>1. Moves(w)
      BY <1>1, <1>4, <2>2, ClaimedTask, SMTT(30) DEF PopRead, At, Moves, Offering
    <3> QED
      BY <1>1, <1>4, <3>1, MovesKeep DEF PopRead, TypeOK, queues, work
  <2>3. CASE wk' = [wk EXCEPT ![w].pc = "popage", ![w].task = t]
    <3>1. PICK r : r = [wk[w] EXCEPT !.pc = "popage", !.task = t]
      OBVIOUS
    <3>2. r \in WkType /\ r.pc = "popage"
      BY <1>1, <3>1 DEF WkType, Pcs
    <3>3. wk' = [wk EXCEPT ![w] = r]
      BY <2>3, <3>1
    <3>4. Moves(w)
      BY <1>4, <3>2, <3>3 DEF PopRead, At, Moves, Offering
    <3> QED
      BY <1>1, <1>4, <3>4, MovesKeep DEF PopRead, TypeOK, queues, work
  <2> QED
    BY <1>4, <2>1, <2>2, <2>3 DEF PopRead
<1>5. CASE PopAge(w)
  <2>1. PICK l \in {"popcas", "popset"} : l = IF age[w].top = wk[w].bot THEN "popcas" ELSE "popset"
    OBVIOUS
  <2>2. PICK r : r = [wk[w] EXCEPT !.old = age[w], !.pc = l]
    OBVIOUS
  <2>3. r \in WkType /\ r.pc = l
    BY <1>1, <2>1, <2>2 DEF WkType, Pcs
  <2>4. wk' = [wk EXCEPT ![w] = r]
    BY <1>5, <2>1, <2>2 DEF PopAge
  <2>5. Moves(w)
    BY <1>5, <2>1, <2>3, <2>4 DEF PopAge, At, Moves, Offering
  <2> QED
    BY <1>1, <1>5, <2>5, MovesKeep DEF PopAge, TypeOK, queues, work
<1>6. CASE PopSlow(w)
  <2>1. age' \in [Workers -> AgeType]
    BY <1>1, <1>6, EmptyAgeType DEF PopSlow
  <2>2. CASE Claim(w, wk[w].task)
    <3>1. Moves(w)
      BY <1>1, <1>6, <2>2, ClaimedTask DEF PopSlow, At, Moves, Offering
    <3> QED
      BY <1>6, <2>1, <3>1, MovesKeep DEF PopSlow, TypeOK, work
  <2>3. CASE Goto(w, "popset")
    <3>1. Moves(w)
      BY <1>1, <1>6, <2>3, Gone DEF PopSlow, At, Moves, Pcs, Offering
    <3> QED
      BY <1>6, <2>1, <3>1, MovesKeep DEF PopSlow, TypeOK, work
  <2> QED
    BY <1>6, <2>2, <2>3 DEF PopSlow
<1>7. CASE PopLost(w)
  <2>1. age' \in [Workers -> AgeType]
    BY <1>1, <1>7, EmptyAgeType DEF PopLost
  <2>2. Moves(w)
    BY <1>1, <1>7, Continued DEF PopLost, Drained, At, Moves, Pcs, Offering
  <2> QED
    BY <1>7, <2>1, <2>2, MovesKeep DEF PopLost, TypeOK, work
<1> QED
  BY <1>2, <1>3, <1>4, <1>5, <1>6, <1>7

LEMMA StealTypes ==
  ASSUME TypeOK, Counted, NEW w \in Active,
         StealAge(w) \/ StealBottom(w) \/ StealRead(w) \/ StealCas(w)
  PROVE  TypeOK' /\ Counted'
<1>1. /\ w \in Workers /\ wk[w] \in WkType /\ wk[w].task \in Tasks \cup {NoTask}
      /\ age \in [Workers -> AgeType] /\ wk[w].from \in Workers /\ wk[w].old.top \in Slots
  BY PhaseFacts, Locals DEF TypeOK, AgeType
<1>2. CASE StealAge(w)
  <2>1. PICK v \in Workers :
           wk' = [wk EXCEPT ![w].pc = "stealbottom", ![w].from = v, ![w].old = age[v]]
    BY <1>2 DEF StealAge
  <2>2. PICK r : r = [wk[w] EXCEPT !.pc = "stealbottom", !.from = v, !.old = age[v]]
    OBVIOUS
  <2>3. r \in WkType /\ r.pc = "stealbottom"
    <3>1. age[v] \in AgeType
      BY <1>1
    <3> QED
      BY <1>1, <2>2, <3>1 DEF WkType, Pcs
  <2>4. wk' = [wk EXCEPT ![w] = r]
    BY <2>1, <2>2
  <2>5. Moves(w)
    BY <1>2, <2>3, <2>4 DEF StealAge, At, Moves, Offering
  <2> QED
    BY <1>1, <1>2, <2>5, MovesKeep DEF StealAge, TypeOK, queues, work
<1>3. CASE StealBottom(w)
  <2>1. Continue(w, "steal") \/ Goto(w, "stealread")
    BY <1>3 DEF StealBottom
  <2>2. Moves(w)
    BY <1>1, <1>3, <2>1, Continued, Gone, SMTT(30) DEF StealBottom, At, Moves, Pcs, Offering
  <2> QED
    BY <1>1, <1>3, <2>2, MovesKeep DEF StealBottom, TypeOK, queues, work
<1>4. CASE StealRead(w)
  <2>1. PICK t \in Tasks \cup {NoTask} : t = elems[wk[w].from][wk[w].old.top]
    BY <1>1, Facts
  <2>2. PICK r : r = [wk[w] EXCEPT !.pc = "stealcas", !.task = t]
    OBVIOUS
  <2>3. r \in WkType /\ r.pc = "stealcas"
    BY <1>1, <2>2 DEF WkType, Pcs
  <2>4. wk' = [wk EXCEPT ![w] = r]
    BY <1>4, <2>1, <2>2 DEF StealRead
  <2>5. Moves(w)
    BY <1>4, <2>3, <2>4 DEF StealRead, At, Moves, Offering
  <2> QED
    BY <1>1, <1>4, <2>5, MovesKeep DEF StealRead, TypeOK, queues, work
<1>5. CASE StealCas(w)
  <2>1. PICK v \in Workers : v = wk[w].from
    BY <1>1
  <2>2. PICK a \in AgeType : a = increment(age[v])
    <3>1. age[v].top \in Slots /\ age[v].tag + 1 \in Nat /\ age[v].tag \in 0..(TagRange - 1)
      BY <1>1 DEF AgeType
    <3>2. (age[v].tag + 1) % TagRange \in 0..(TagRange - 1)
      BY <3>1, Slot, Modulo
    <3> QED
      BY <3>1, <3>2, Indices DEF increment, AgeType
  <2>3. age' \in [Workers -> AgeType]
    BY <1>1, <1>5, <2>1, <2>2 DEF StealCas
  <2>4. Claim(w, wk[w].task) \/ Continue(w, "steal")
    BY <1>5 DEF StealCas
  <2>5. Moves(w)
    BY <1>1, <1>5, <2>4, ClaimedTask, Continued DEF StealCas, At, Moves, Pcs, Offering
  <2> QED
    BY <1>5, <2>3, <2>5, MovesKeep DEF StealCas, TypeOK, work
<1> QED
  BY <1>2, <1>3, <1>4, <1>5

LEMMA OfferTypes ==
  ASSUME TypeOK, Counted, NEW w \in Active,
         Offer(w) \/ CheckOffered(w) \/ Peek(w) \/ Withdraw(w)
  PROVE  TypeOK' /\ Counted'
<1>1. w \in Workers /\ wk[w] \in WkType /\ age \in [Workers -> AgeType]
  BY PhaseFacts, Locals DEF TypeOK, AgeType
<1>2. CASE Offer(w) \/ Withdraw(w)
  <2>1. \E r \in WkType : wk' = [wk EXCEPT ![w] = r]
    BY <1>1, <1>2, Continued DEF Offer, Withdraw, Pcs
  <2>2. wk' \in [Workers -> WkType]
    BY <1>1, <2>1, WkUpdate
  <2>3. offered' \in 0..Cardinality(Active) /\ Counted'
    BY <1>2, OfferCount, WithdrawCount DEF Counted
  <2>4. TypeOK'
    BY <1>2, <2>2, <2>3
       DEF Offer, Withdraw, TypeOK, WkType, AgeType, Pcs, Tasks, Active, queues, work
  <2> QED
    BY <2>3, <2>4
<1>3. CASE CheckOffered(w)
  <2>1. PICK l \in {"done", "peek"} : l = IF offered = Cardinality(Active) THEN "done" ELSE "peek"
    OBVIOUS
  <2>2. PICK U \in SUBSET Workers : U = IF offered = Cardinality(Active) THEN {} ELSE Workers
    OBVIOUS
  <2>3. PICK r : r = [wk[w] EXCEPT !.pc = l, !.unseen = U]
    OBVIOUS
  <2>4. r \in WkType /\ r.pc = l
    BY <1>1, <2>1, <2>3 DEF WkType, Pcs
  <2>5. wk' = [wk EXCEPT ![w] = r]
    BY <1>3, <2>1, <2>2, <2>3 DEF CheckOffered
  <2>6. Moves(w)
    BY <1>3, <2>1, <2>4, <2>5 DEF CheckOffered, At, Moves, Offering
  <2> QED
    BY <1>1, <1>3, <2>6, MovesKeep DEF CheckOffered, TypeOK, queues, work
<1>4. CASE Peek(w)
  <2>1. wk[w].pc = "peek"
    BY <1>4 DEF Peek, At
  <2>2. CASE Continue(w, "check") \/ Continue(w, "withdraw")
    <3>1. Moves(w)
      BY <1>1, <2>1, <2>2, Continued DEF Moves, Pcs, Offering
    <3> QED
      BY <1>1, <1>4, <3>1, MovesKeep DEF Peek, TypeOK, queues, work
  <2>3. ASSUME NEW v \in wk[w].unseen, wk' = [wk EXCEPT ![w].unseen = @ \ {v}]
        PROVE  TypeOK' /\ Counted'
    <3>1. PICK U \in SUBSET Workers : U = wk[w].unseen \ {v}
      BY <1>1, Locals
    <3>2. PICK r : r = [wk[w] EXCEPT !.unseen = U]
      OBVIOUS
    <3>3. r \in WkType /\ r.pc = "peek"
      BY <1>1, <2>1, <3>2 DEF WkType
    <3>4. wk' = [wk EXCEPT ![w] = r]
      BY <2>3, <3>1, <3>2
    <3>5. Moves(w)
      BY <2>1, <3>3, <3>4 DEF Moves
    <3> QED
      BY <1>1, <1>4, <3>5, MovesKeep DEF Peek, TypeOK, queues, work
  <2> QED
    BY <1>4, <2>2, <2>3 DEF Peek
<1> QED
  BY <1>2, <1>3, <1>4

LEMMA NextTypes ==
  ASSUME TypeOK, Counted, [Next]_vars
  PROVE  TypeOK' /\ Counted'
<1>1. ASSUME NEW w \in Active, Step(w) PROVE TypeOK' /\ Counted'
  BY <1>1, PushTypes, PopTypes, StealTypes, OfferTypes DEF Step
<1>2. CASE UNCHANGED vars
  BY <1>2 DEF vars, TypeOK, Counted, Tasks, Active
<1> QED
  BY <1>1, <1>2 DEF Next, Finished

-----------------------------------------------------------------------------
(* The results                                                             *)

LEMMA Invariant ==
  ASSUME TagsSuffice
  PROVE  Spec => []IInv
<1>1. Init => IInv
  BY InitInvariant
<1>2. IInv /\ [Next]_vars => IInv'
  BY NextInvariant
<1> QED
  BY <1>1, <1>2, PTL DEF Spec

\* Every variable has its type: indices stay in the queue, the offers between none and all
\* active workers, and a worker works only on tasks that exist
THEOREM TypeCorrect == Spec => []TypeOK
<1>1. Init => TypeOK /\ Counted
  BY InitInvariant DEF IInv, Offers, Counted
<1>2. TypeOK /\ Counted /\ [Next]_vars => TypeOK' /\ Counted'
  BY NextTypes
<1> QED
  BY <1>1, <1>2, PTL DEF Spec

\* A task pushed on a worker's queue or its overflow stack is at one place until it is
\* finished, and is finished once: pop_local and pop_global on the same queue never both
\* get an element, and none is lost when they race for the last one
THEOREM TasksOnce ==
  ASSUME TagsSuffice
  PROVE  Spec => []EachTaskOnce
<1>1. IInv => EachTaskOnce
  BY CountsOnce
<1> QED
  BY <1>1, Invariant, PTL

\* offer_termination lets a worker go only when all tasks are finished and no worker can
\* create another, although offers are made and withdrawn while the others work
THEOREM TerminatesAtEnd ==
  ASSUME TagsSuffice
  PROVE  Spec => []TerminatesLast
<1>1. IInv => TerminatesLast
  BY LeavesLast
<1> QED
  BY <1>1, Invariant, PTL
=============================================================================
