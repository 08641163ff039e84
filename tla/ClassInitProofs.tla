-------------------------- MODULE ClassInitProofs --------------------------
(***************************************************************************)
(* For every class hierarchy and every number of threads, a static         *)
(* initialiser runs at most once.  In hierarchies without default methods, *)
(* a class whose initialisation has returned may be used, super classes    *)
(* are initialised first, and a class gets its last state once.            *)
(***************************************************************************)
EXTENDS ClassInit, Integers, TLAPS

-----------------------------------------------------------------------------
(* The inductive invariant, for every hierarchy                            *)

States == {"loaded", "linked", "being_initialized", "fully_initialized", "initialization_error"}

\* The program points of initialize_impl after step 6; those before step 8
Section == {"super", "super_done", "interfaces_done", "clinit"}
Early == {"super", "super_done", "interfaces_done"}
Pcs == Section \cup {"link", "lock", "wait", "loop", "supers_done", "interface_done"}

Frames == [k : Classes, pc : Pcs, i : Nat \ {0}]

Types ==
    /\ state \in [Classes -> States]
    /\ init_thread \in [Classes -> Threads \cup {None}]
    /\ stack \in [Threads -> Seq(Frames)]
    /\ pending \in [Threads -> BOOLEAN]
    /\ ran \in [Classes -> Nat]
    /\ returned \in [Threads -> SUBSET Classes]
    /\ vm \in {"running", "null lock", "illegal transition"}

\* The n-th frame of t, the innermost being the first, initialises k
InitAt(t, n, k) ==
    n \in 1..Len(stack[t]) /\ stack[t][n].k = k /\ stack[t][n].pc \in Section

Fresh(k) == state[k] \in {"loaded", "linked"}

\* One frame at most, of all threads', initialises a class
OneInitializes ==
    \A t, u \in Threads : \A k \in Classes :
        \A m \in 1..Len(stack[t]), n \in 1..Len(stack[u]) :
            InitAt(t, m, k) /\ InitAt(u, n, k) => t = u /\ m = n

\* A class with such a frame has left the states before initialisation
Begun == \A t \in Threads : \A n \in 1..Len(stack[t]) :
            stack[t][n].pc \in Section => ~Fresh(stack[t][n].k)

\* The static initialiser of a class has not run before step 8
NotRunYet ==
    /\ \A k \in Classes : Fresh(k) => ran[k] = 0
    /\ \A t \in Threads : \A n \in 1..Len(stack[t]) :
          stack[t][n].pc \in Early => ran[stack[t][n].k] = 0

IInv == Types /\ OneInitializes /\ Begun /\ NotRunYet /\ RunOnce

-----------------------------------------------------------------------------
(* Stacks                                                                  *)

\* A call
LEMMA Pushed ==
  ASSUME NEW s \in Seq(Frames), NEW f \in Frames
  PROVE  /\ <<f>> \o s \in Seq(Frames) /\ Len(s) \in Nat
         /\ Len(<<f>> \o s) = Len(s) + 1 /\ (<<f>> \o s)[1] = f
         /\ \A n \in 2..(Len(s) + 1) : (<<f>> \o s)[n] = s[n - 1]
<1>1. <<f>> \in Seq(Frames) /\ Len(<<f>>) = 1 /\ <<f>>[1] = f
  OBVIOUS
<1> QED
  BY <1>1

\* A return
LEMMA Shorter ==
  ASSUME NEW s \in Seq(Frames), s # <<>>
  PROVE  /\ Tail(s) \in Seq(Frames) /\ Len(s) \in Nat /\ Len(s) >= 1
         /\ Len(Tail(s)) = Len(s) - 1 /\ Head(s) = s[1] /\ Head(s) \in Frames
         /\ \A n \in 1..(Len(s) - 1) : Tail(s)[n] = s[n + 1]
OBVIOUS

\* The innermost frame goes on
LEMMA Replaced ==
  ASSUME NEW s \in Seq(Frames), s # <<>>, NEW f \in Frames
  PROVE  /\ <<f>> \o Tail(s) \in Seq(Frames) /\ Len(s) \in Nat /\ Len(s) >= 1
         /\ Len(<<f>> \o Tail(s)) = Len(s) /\ (<<f>> \o Tail(s))[1] = f
         /\ \A n \in 2..Len(s) : (<<f>> \o Tail(s))[n] = s[n]
<1>1. /\ Tail(s) \in Seq(Frames) /\ Len(s) \in Nat /\ Len(s) >= 1
      /\ Len(Tail(s)) = Len(s) - 1
      /\ \A n \in 1..(Len(s) - 1) : Tail(s)[n] = s[n + 1]
  BY Shorter
<1>2. PICK q \in Seq(Frames) : q = Tail(s)
  BY <1>1
<1>3. /\ <<f>> \o q \in Seq(Frames) /\ Len(<<f>> \o q) = Len(q) + 1 /\ (<<f>> \o q)[1] = f
      /\ \A n \in 2..(Len(q) + 1) : (<<f>> \o q)[n] = q[n - 1]
  BY Pushed
<1>4. \A n \in 2..Len(s) : (<<f>> \o q)[n] = s[n]
  <2> SUFFICES ASSUME NEW n \in 2..Len(s) PROVE (<<f>> \o q)[n] = s[n]
    OBVIOUS
  <2>1. n \in 2..(Len(q) + 1) /\ n - 1 \in 1..(Len(s) - 1) /\ (n - 1) + 1 = n
    BY <1>1, <1>2
  <2>2. q[n - 1] = s[(n - 1) + 1]
    BY <2>1, <1>1, <1>2
  <2> QED
    BY <2>1, <2>2, <1>3
<1> QED
  BY <1>1, <1>2, <1>3, <1>4

\* The frames that initialise a class in stack new were in stack old, d deeper
Stems(new, old, d) ==
    \A n \in 1..Len(new) : new[n].pc \in Section =>
        /\ n + d \in 1..Len(old)
        /\ old[n + d].k = new[n].k /\ old[n + d].pc \in Section
        /\ new[n].pc \in Early => old[n + d].pc \in Early

Continues(new, old) == new \in Seq(Frames) /\ \E d \in Int : Stems(new, old, d)

LEMMA SameContinues ==
  ASSUME NEW s \in Seq(Frames)
  PROVE  Continues(s, s)
<1>1. Stems(s, s, 0)
  BY DEF Stems
<1> QED
  BY <1>1 DEF Continues

LEMMA TailContinues ==
  ASSUME NEW s \in Seq(Frames), s # <<>>
  PROVE  Continues(Tail(s), s)
<1>1. Stems(Tail(s), s, 1)
  <2>1. PICK q \in Seq(Frames) : q = Tail(s)
    BY Shorter
  <2>2. /\ Len(s) \in Nat /\ Len(s) >= 1 /\ Len(q) = Len(s) - 1
        /\ \A n \in 1..(Len(s) - 1) : q[n] = s[n + 1]
    BY <2>1, Shorter
  <2>3. Stems(q, s, 1)
    BY <2>2 DEF Stems
  <2> QED
    BY <2>1, <2>3
<1> QED
  BY <1>1, Shorter DEF Continues

LEMMA HeadContinues ==
  ASSUME NEW s \in Seq(Frames), s # <<>>, NEW f \in Frames, f.k = s[1].k,
         f.pc \in Section => s[1].pc \in Section, f.pc \in Early => s[1].pc \in Early
  PROVE  Continues(<<f>> \o Tail(s), s)
<1>1. PICK q : q = <<f>> \o Tail(s)
  OBVIOUS
<1>2. /\ q \in Seq(Frames) /\ Len(s) \in Nat /\ Len(s) >= 1 /\ Len(q) = Len(s) /\ q[1] = f
      /\ \A n \in 2..Len(s) : q[n] = s[n]
  BY <1>1, Replaced
<1>3. Stems(q, s, 0)
  <2> SUFFICES ASSUME NEW n \in 1..Len(q), q[n].pc \in Section
               PROVE  /\ n + 0 \in 1..Len(s)
                      /\ s[n + 0].k = q[n].k /\ s[n + 0].pc \in Section
                      /\ q[n].pc \in Early => s[n + 0].pc \in Early
    BY DEF Stems
  <2>1. n + 0 = n /\ n \in 1..Len(s) /\ (n = 1 \/ n \in 2..Len(s))
    BY <1>2
  <2> QED
    BY <2>1, <1>2
<1> QED
  BY <1>1, <1>2, <1>3 DEF Continues

LEMMA PushContinues ==
  ASSUME NEW s \in Seq(Frames), NEW o, NEW f \in Frames, f.pc \notin Section, Continues(s, o)
  PROVE  Continues(<<f>> \o s, o)
<1>1. PICK q : q = <<f>> \o s
  OBVIOUS
<1>2. /\ q \in Seq(Frames) /\ Len(s) \in Nat /\ Len(q) = Len(s) + 1 /\ q[1] = f
      /\ \A n \in 2..(Len(s) + 1) : q[n] = s[n - 1]
  BY <1>1, Pushed
<1>3. PICK d \in Int : Stems(s, o, d)
  BY DEF Continues
<1>4. Stems(q, o, d - 1)
  <2> SUFFICES ASSUME NEW n \in 1..Len(q), q[n].pc \in Section
               PROVE  /\ n + (d - 1) \in 1..Len(o)
                      /\ o[n + (d - 1)].k = q[n].k /\ o[n + (d - 1)].pc \in Section
                      /\ q[n].pc \in Early => o[n + (d - 1)].pc \in Early
    BY DEF Stems
  <2>1. n \in 2..(Len(s) + 1) /\ n - 1 \in 1..Len(s) /\ (n - 1) + d = n + (d - 1)
    BY <1>2
  <2>2. q[n] = s[n - 1]
    BY <2>1, <1>2
  <2> QED
    BY <2>1, <2>2, <1>3 DEF Stems
<1>5. d - 1 \in Int
  OBVIOUS
<1> QED
  BY <1>1, <1>2, <1>4, <1>5 DEF Continues

\* The frames that the functions make
LEMMA TopFrame ==
  ASSUME Types, NEW t \in Threads, stack[t] # <<>>
  PROVE  /\ stack[t] \in Seq(Frames) /\ Top(t) = stack[t][1] /\ Top(t) \in Frames
         /\ Top(t).k \in Classes /\ Top(t).pc \in Pcs /\ Top(t).i \in Nat \ {0}
<1>1. stack[t] \in Seq(Frames)
  BY DEF Types
<1>2. Head(stack[t]) = stack[t][1] /\ Head(stack[t]) \in Frames
  BY <1>1, Shorter
<1> QED
  BY <1>1, <1>2 DEF Top, Frames

LEMMA MoveContinues ==
  ASSUME Types, NEW t \in Threads, stack[t] # <<>>, NEW l \in Pcs,
         l \in Section => Top(t).pc \in Section, l \in Early => Top(t).pc \in Early
  PROVE  Continues(MoveTo(t, l), stack[t]) /\ Continues(NextIn(t, l), stack[t])
<1>1. /\ stack[t] \in Seq(Frames) /\ Top(t) = stack[t][1] /\ Top(t) \in Frames
      /\ Top(t).i \in Nat \ {0}
  BY TopFrame
<1>2. PICK f : f = [Top(t) EXCEPT !.pc = l]
  OBVIOUS
<1>3. f \in Frames /\ f.k = Top(t).k /\ f.pc = l
  BY <1>1, <1>2 DEF Frames
<1>4. Continues(<<f>> \o Tail(stack[t]), stack[t])
  BY <1>1, <1>3, HeadContinues
<1>5. PICK g : g = [Top(t) EXCEPT !.pc = l, !.i = @ + 1]
  OBVIOUS
<1>6. g \in Frames /\ g.k = Top(t).k /\ g.pc = l
  <2>1. PICK i \in Nat \ {0} : i = Top(t).i + 1
    BY <1>1
  <2>2. g = [Top(t) EXCEPT !.pc = l, !.i = i]
    BY <2>1, <1>5
  <2> QED
    BY <2>2, <1>1 DEF Frames
<1>7. Continues(<<g>> \o Tail(stack[t]), stack[t])
  BY <1>1, <1>6, HeadContinues
<1> QED
  BY <1>2, <1>4, <1>5, <1>7 DEF MoveTo, NextIn

LEMMA MovedFrame ==
  ASSUME NEW f \in Frames, NEW l \in Pcs
  PROVE  /\ [f EXCEPT !.pc = l] \in Frames
         /\ [f EXCEPT !.pc = l].k = f.k /\ [f EXCEPT !.pc = l].pc = l
<1>1. PICK g : g = [f EXCEPT !.pc = l]
  OBVIOUS
<1>2. g \in Frames /\ g.k = f.k /\ g.pc = l
  BY <1>1 DEF Frames
<1> QED
  BY <1>1, <1>2

LEMMA NewFrame ==
  ASSUME NEW k \in Classes, NEW l \in Pcs
  PROVE  Frame(k, l) \in Frames /\ Frame(k, l).k = k /\ Frame(k, l).pc = l
BY DEF Frame, Frames

LEMMA CallContinues ==
  ASSUME NEW k \in Classes, NEW s, NEW o, Continues(s, o)
  PROVE  /\ Continues(CallInit(k, s), o)
         /\ Continues(<<Frame(k, "loop")>> \o s, o)
<1>1. \A l \in {"link", "loop"} : Continues(<<Frame(k, l)>> \o s, o)
  <2> SUFFICES ASSUME NEW l \in {"link", "loop"} PROVE Continues(<<Frame(k, l)>> \o s, o)
    OBVIOUS
  <2>1. l \in Pcs /\ l \notin Section
    BY DEF Pcs, Section
  <2>2. s \in Seq(Frames)
    BY DEF Continues
  <2> QED
    BY <2>1, <2>2, NewFrame, PushContinues
<1> QED
  BY <1>1 DEF CallInit

-----------------------------------------------------------------------------
(* Every hierarchy: a static initialiser runs once                         *)

\* No frame gets past step 6, and no static initialiser is run
LEMMA StacksContinue ==
  ASSUME IInv, Types', \A t \in Threads : Continues(stack'[t], stack[t]),
         \A k \in Classes : Fresh(k)' => Fresh(k), ran' = ran
  PROVE  IInv'
<1>1. \A t \in Threads : stack'[t] \in Seq(Frames)
  BY DEF Continues
<1>2. ASSUME NEW t \in Threads
      PROVE  \E d \in Int : \A n \in 1..Len(stack'[t]) : stack'[t][n].pc \in Section =>
                /\ n + d \in 1..Len(stack[t])
                /\ stack[t][n + d].k = stack'[t][n].k /\ stack[t][n + d].pc \in Section
                /\ stack'[t][n].pc \in Early => stack[t][n + d].pc \in Early
  BY DEF Continues, Stems
<1>3. OneInitializes'
  <2> SUFFICES ASSUME NEW t \in Threads, NEW u \in Threads, NEW k \in Classes,
                      NEW m \in 1..Len(stack'[t]), NEW n \in 1..Len(stack'[u]),
                      stack'[t][m].k = k, stack'[t][m].pc \in Section,
                      stack'[u][n].k = k, stack'[u][n].pc \in Section
               PROVE  t = u /\ m = n
    BY DEF OneInitializes, InitAt
  <2>1. PICK d \in Int : \A i \in 1..Len(stack'[t]) : stack'[t][i].pc \in Section =>
                /\ i + d \in 1..Len(stack[t])
                /\ stack[t][i + d].k = stack'[t][i].k /\ stack[t][i + d].pc \in Section
    BY <1>2
  <2>2. PICK e \in Int : \A i \in 1..Len(stack'[u]) : stack'[u][i].pc \in Section =>
                /\ i + e \in 1..Len(stack[u])
                /\ stack[u][i + e].k = stack'[u][i].k /\ stack[u][i + e].pc \in Section
    BY <1>2
  <2>3. InitAt(t, m + d, k) /\ m + d \in 1..Len(stack[t])
    BY <2>1 DEF InitAt
  <2>4. InitAt(u, n + e, k) /\ n + e \in 1..Len(stack[u])
    BY <2>2 DEF InitAt
  <2>5. t = u
    BY <2>3, <2>4 DEF IInv, OneInitializes
  <2>6. InitAt(t, n + d, k) /\ n + d \in 1..Len(stack[t])
    BY <2>1, <2>5 DEF InitAt
  <2>7. m + d = n + d
    BY <2>3, <2>6 DEF IInv, OneInitializes
  <2> QED
    BY <2>5, <2>7
<1>4. Begun'
  <2> SUFFICES ASSUME NEW t \in Threads, NEW n \in 1..Len(stack'[t]), stack'[t][n].pc \in Section
               PROVE  state'[stack'[t][n].k] \notin {"loaded", "linked"}
    BY DEF Begun, Fresh
  <2>1. PICK d \in Int : /\ n + d \in 1..Len(stack[t])
                         /\ stack[t][n + d].k = stack'[t][n].k /\ stack[t][n + d].pc \in Section
    BY <1>2
  <2>2. PICK k \in Classes : k = stack'[t][n].k
    <3>1. stack'[t][n] \in Frames
      BY <1>1
    <3> QED
      BY <3>1 DEF Frames
  <2>3. ~Fresh(k)
    BY <2>1, <2>2 DEF IInv, Begun
  <2>4. ~Fresh(k)'
    BY <2>3
  <2> QED
    BY <2>2, <2>4 DEF Fresh
<1>5. NotRunYet'
  <2>1. \A k \in Classes : Fresh(k)' => ran'[k] = 0
    BY DEF IInv, NotRunYet
  <2>2. ASSUME NEW t \in Threads, NEW n \in 1..Len(stack'[t]), stack'[t][n].pc \in Early
        PROVE  ran'[stack'[t][n].k] = 0
    <3>1. stack'[t][n].pc \in Section
      BY <2>2 DEF Early, Section
    <3>2. PICK d \in Int : /\ n + d \in 1..Len(stack[t])
                           /\ stack[t][n + d].k = stack'[t][n].k /\ stack[t][n + d].pc \in Early
      BY <2>2, <3>1, <1>2
    <3> QED
      BY <3>2 DEF IInv, NotRunYet
  <2> QED
    BY <2>1, <2>2 DEF NotRunYet
<1> QED
  BY <1>3, <1>4, <1>5 DEF IInv, RunOnce

\* Thread t goes on with stack s
LEMMA ThreadContinues ==
  ASSUME IInv, NEW t \in Threads, NEW s, Continues(s, stack[t]), Goto(t, s),
         state' \in [Classes -> States], \A k \in Classes : Fresh(k)' => Fresh(k),
         init_thread' = init_thread, pending' \in [Threads -> BOOLEAN],
         returned' \in [Threads -> SUBSET Classes], vm' = vm, ran' = ran
  PROVE  IInv'
<1>1. stack \in [Threads -> Seq(Frames)] /\ s \in Seq(Frames)
  BY DEF IInv, Types, Continues
<1>2. /\ stack' \in [Threads -> Seq(Frames)] /\ stack'[t] = s
      /\ \A u \in Threads : u # t => stack'[u] = stack[u]
  BY <1>1 DEF Goto
<1>3. Types'
  BY <1>2 DEF IInv, Types
<1>4. \A u \in Threads : Continues(stack'[u], stack[u])
  BY <1>1, <1>2, SameContinues
<1> QED
  BY <1>3, <1>4, StacksContinue

\* set_initialization_state_and_notify
LEMMA NotifyContinues ==
  ASSUME IInv, NEW t \in Threads, NEW k \in Classes,
         NEW s \in {"fully_initialized", "initialization_error"}, NEW st,
         Continues(st, stack[t]), SetStateAndNotify(t, k, s, st),
         init_thread' = init_thread, pending' \in [Threads -> BOOLEAN],
         returned' \in [Threads -> SUBSET Classes], ran' = ran
  PROVE  IInv'
<1>1. stack \in [Threads -> Seq(Frames)] /\ st \in Seq(Frames) /\ state \in [Classes -> States]
  BY DEF IInv, Types, Continues
<1>2. state' \in [Classes -> States] /\ \A j \in Classes : Fresh(j)' => Fresh(j)
  BY <1>1 DEF SetStateAndNotify, States, Fresh
<1>3. vm' \in {"running", "null lock", "illegal transition"}
  BY DEF SetStateAndNotify, IInv, Types
<1>4. CASE stack' = stack
  <2>1. Types'
    BY <1>2, <1>3, <1>4 DEF IInv, Types
  <2>2. \A u \in Threads : Continues(stack'[u], stack[u])
    BY <1>1, <1>4, SameContinues
  <2> QED
    BY <1>2, <2>1, <2>2, StacksContinue
<1>5. CASE stack' # stack
  <2>1. stack' = [u \in Threads |->
                    CASE u = t -> st
                      [] u # t /\ At(u, "wait") /\ Top(u).k = k -> MoveTo(u, "lock")
                      [] OTHER -> stack[u]]
    BY <1>5 DEF SetStateAndNotify
  <2>2. ASSUME NEW u \in Threads PROVE Continues(stack'[u], stack[u])
    <3>1. CASE u = t
      <4>1. stack'[t] = st
        BY <2>1
      <4> QED
        BY <3>1, <4>1
    <3>2. CASE u # t /\ At(u, "wait") /\ Top(u).k = k
      <4>1. stack'[u] = MoveTo(u, "lock")
        BY <3>2, <2>1
      <4>2. "lock" \in Pcs /\ "lock" \notin Section /\ "lock" \notin Early
        BY DEF Pcs, Section, Early
      <4>3. stack[u] # <<>>
        BY <3>2 DEF At
      <4> QED
        BY <4>1, <4>2, <4>3, MoveContinues DEF IInv
    <3>3. CASE u # t /\ ~(At(u, "wait") /\ Top(u).k = k)
      <4>1. stack'[u] = stack[u]
        BY <3>3, <2>1
      <4> QED
        BY <4>1, <1>1, SameContinues
    <3> QED
      BY <3>1, <3>2, <3>3
  <2>3. stack' \in [Threads -> Seq(Frames)]
    <3>1. \A u \in Threads : stack'[u] \in Seq(Frames)
      BY <2>2 DEF Continues
    <3>2. stack' = [u \in Threads |-> stack'[u]]
      BY <2>1
    <3> QED
      BY <3>1, <3>2
  <2>4. Types'
    BY <1>2, <1>3, <2>3 DEF IInv, Types
  <2> QED
    BY <1>2, <2>2, <2>4, StacksContinue
<1> QED
  BY <1>4, <1>5

\* What the thread's program counter says
LEMMA AtTop ==
  ASSUME Types, NEW t \in Threads, NEW l, At(t, l)
  PROVE  /\ stack[t] # <<>> /\ stack[t] \in Seq(Frames) /\ Top(t).pc = l
         /\ Top(t) = stack[t][1] /\ Top(t).k \in Classes /\ Top(t).i \in Nat \ {0}
         /\ 1 \in 1..Len(stack[t])
         /\ Continues(Popped(t), stack[t])
<1>1. stack[t] # <<>> /\ Top(t).pc = l
  BY DEF At, Top
<1>2. stack[t] \in Seq(Frames) /\ Top(t) = stack[t][1] /\ Top(t).k \in Classes /\ Top(t).i \in Nat \ {0}
  BY <1>1, TopFrame
<1>3. 1 \in 1..Len(stack[t])
  BY <1>1, <1>2, Shorter
<1> QED
  BY <1>1, <1>2, <1>3, TailContinues DEF Popped

LEMMA LinkStep ==
  ASSUME IInv, NEW t \in Threads, LinkClass(t) \/ LinkErroneous(t)
  PROVE  IInv'
<1>1. At(t, "link")
  BY DEF LinkClass, LinkErroneous
<1>2. stack \in [Threads -> Seq(Frames)] /\ Continues(Popped(t), stack[t])
  BY <1>1, AtTop DEF IInv, Types
<1>3. UNCHANGED <<init_thread, ran, returned, vm>>
  BY DEF LinkClass, LinkErroneous, history
<1>4. /\ state \in [Classes -> States] /\ pending \in [Threads -> BOOLEAN]
      /\ returned' \in [Threads -> SUBSET Classes]
  BY <1>3 DEF IInv, Types
<1>5. CASE Throw(t) /\ UNCHANGED state
  <2>1. Goto(t, Popped(t)) /\ pending' \in [Threads -> BOOLEAN]
    BY <1>4, <1>5 DEF Throw
  <2>2. state' \in [Classes -> States] /\ \A k \in Classes : Fresh(k)' => Fresh(k)
    BY <1>4, <1>5 DEF Fresh
  <2> QED
    BY <1>2, <1>3, <1>4, <2>1, <2>2, ThreadContinues
<1>6. CASE \E u : /\ ~is_linked(u)
                  /\ state' = [state EXCEPT ![u] = "linked"]
                  /\ UNCHANGED <<stack, pending>>
  <2>1. state' \in [Classes -> States] /\ \A k \in Classes : Fresh(k)' => Fresh(k)
    BY <1>4, <1>6 DEF Fresh, States, is_linked
  <2>2. Types'
    BY <1>3, <1>6, <2>1 DEF IInv, Types
  <2>3. \A u \in Threads : Continues(stack'[u], stack[u])
    BY <1>2, <1>6, SameContinues
  <2> QED
    BY <1>3, <2>1, <2>2, <2>3, StacksContinue
<1> QED
  BY <1>5, <1>6 DEF LinkClass, LinkErroneous

\* t goes on with stack s, and nothing else happens
LEMMA OnlyContinues ==
  ASSUME IInv, NEW t \in Threads, NEW s, Continues(s, stack[t]), Goto(t, s),
         UNCHANGED <<state, init_thread, pending, history, vm>>
  PROVE  IInv'
<1>1. UNCHANGED <<state, init_thread, pending, ran, returned, vm>>
  BY DEF history
<1>2. /\ state' \in [Classes -> States] /\ pending' \in [Threads -> BOOLEAN]
      /\ returned' \in [Threads -> SUBSET Classes]
  BY <1>1 DEF IInv, Types
<1>3. \A k \in Classes : Fresh(k)' => Fresh(k)
  BY <1>1 DEF Fresh
<1> QED
  BY <1>1, <1>2, <1>3, ThreadContinues

LEMMA LockStep ==
  ASSUME IInv, NEW t \in Threads, Linked(t) \/ Wait(t)
  PROVE  IInv'
<1>1. PICK l \in {"lock", "wait"} :
        /\ Goto(t, MoveTo(t, l))
        /\ UNCHANGED <<state, init_thread, pending, history, vm>>
  BY DEF Linked, Wait
<1>2. At(t, "link") \/ At(t, "lock")
  BY DEF Linked, Wait
<1>3. stack[t] # <<>>
  BY <1>2 DEF At
<1>4. l \in Pcs /\ l \notin Section /\ l \notin Early
  BY DEF Pcs, Section, Early
<1>5. Continues(MoveTo(t, l), stack[t])
  BY <1>3, <1>4, MoveContinues DEF IInv
<1> QED
  BY <1>1, <1>5, OnlyContinues

LEMMA AlreadyStep ==
  ASSUME IInv, NEW t \in Threads, Already(t)
  PROVE  IInv'
<1>1. At(t, "lock") /\ Return(t) /\ UNCHANGED <<state, init_thread, pending, calls, ran, vm>>
  BY DEF Already
<1>2. Continues(Popped(t), stack[t]) /\ Top(t).k \in Classes
  BY <1>1, AtTop DEF IInv
<1>3. /\ state \in [Classes -> States] /\ pending \in [Threads -> BOOLEAN]
      /\ returned \in [Threads -> SUBSET Classes]
  BY DEF IInv, Types
<1>4. Goto(t, Popped(t)) /\ returned' \in [Threads -> SUBSET Classes]
  BY <1>1, <1>2, <1>3 DEF Return
<1>5. \A k \in Classes : Fresh(k)' => Fresh(k)
  BY <1>1 DEF Fresh
<1> QED
  BY <1>1, <1>2, <1>3, <1>4, <1>5, ThreadContinues

LEMMA ErroneousStep ==
  ASSUME IInv, NEW t \in Threads, Erroneous(t)
  PROVE  IInv'
<1>1. At(t, "lock") /\ Throw(t) /\ UNCHANGED <<state, init_thread, ran, returned, vm>>
  BY DEF Erroneous, history
<1>2. Continues(Popped(t), stack[t])
  BY <1>1, AtTop DEF IInv
<1>3. /\ state \in [Classes -> States] /\ pending \in [Threads -> BOOLEAN]
      /\ returned \in [Threads -> SUBSET Classes]
  BY DEF IInv, Types
<1>4. Goto(t, Popped(t)) /\ pending' \in [Threads -> BOOLEAN]
  BY <1>1, <1>3 DEF Throw
<1>5. \A k \in Classes : Fresh(k)' => Fresh(k)
  BY <1>1 DEF Fresh
<1> QED
  BY <1>1, <1>2, <1>3, <1>4, <1>5, ThreadContinues

\* Step 6: a frame gets past it only if the class is fresh
LEMMA BeginStep ==
  ASSUME IInv, NEW t \in Threads, Begin(t)
  PROVE  IInv'
<1>1. /\ stack[t] # <<>> /\ stack[t] \in Seq(Frames) /\ Top(t).pc = "lock"
      /\ Top(t) = stack[t][1] /\ Top(t) \in Frames
  BY AtTop, TopFrame DEF IInv, Begin
<1>2. PICK k \in Classes : k = Top(t).k
  BY <1>1 DEF Frames
<1>3. PICK f \in Frames : f = [Top(t) EXCEPT !.pc = "super"] /\ f.k = k /\ f.pc = "super"
  <2>1. "super" \in Pcs
    BY DEF Pcs, Section
  <2> QED
    BY <2>1, <1>1, <1>2, MovedFrame
<1>4. /\ state[k] = "linked" /\ state' = [state EXCEPT ![k] = "being_initialized"]
      /\ init_thread' = [init_thread EXCEPT ![k] = t]
      /\ stack' = [stack EXCEPT ![t] = <<f>> \o Tail(stack[t])]
      /\ UNCHANGED <<pending, ran, returned, vm>>
  BY <1>2, <1>3 DEF Begin, Goto, MoveTo, history
<1>5. /\ state \in [Classes -> States] /\ init_thread \in [Classes -> Threads \cup {None}]
      /\ stack \in [Threads -> Seq(Frames)]
  BY DEF IInv, Types
<1>6. PICK q : q = <<f>> \o Tail(stack[t])
  OBVIOUS
<1>7. /\ q \in Seq(Frames) /\ Len(stack[t]) \in Nat /\ Len(stack[t]) >= 1
      /\ Len(q) = Len(stack[t]) /\ q[1] = f /\ \A n \in 2..Len(stack[t]) : q[n] = stack[t][n]
  BY <1>1, <1>6, Replaced
<1>8. /\ stack' \in [Threads -> Seq(Frames)] /\ stack'[t] = q
      /\ \A u \in Threads : u # t => stack'[u] = stack[u]
  BY <1>4, <1>5, <1>6, <1>7
<1>9. /\ state' \in [Classes -> States] /\ state'[k] = "being_initialized"
      /\ \A j \in Classes : j # k => state'[j] = state[j]
      /\ init_thread' \in [Classes -> Threads \cup {None}]
  BY <1>4, <1>5 DEF States
<1>10. Types'
  BY <1>4, <1>8, <1>9 DEF IInv, Types
<1>11. \A u \in Threads : \A n \in 1..Len(stack[u]) :
         stack[u][n].pc \in Section => stack[u][n].k # k
  BY <1>4 DEF IInv, Begun, Fresh
<1>12. \A u \in Threads : \A n \in 1..Len(stack'[u]) :
         \/ u = t /\ n = 1 /\ stack'[u][n] = f
         \/ (u # t \/ n # 1) /\ n \in 1..Len(stack[u]) /\ stack'[u][n] = stack[u][n]
  <2> SUFFICES ASSUME NEW u \in Threads, NEW n \in 1..Len(stack'[u])
               PROVE  \/ u = t /\ n = 1 /\ stack'[u][n] = f
                      \/ /\ u # t \/ n # 1
                         /\ n \in 1..Len(stack[u]) /\ stack'[u][n] = stack[u][n]
    OBVIOUS
  <2>1. CASE u = t
    <3>1. n = 1 \/ n \in 2..Len(stack[t])
      BY <2>1, <1>7, <1>8
    <3> QED
      BY <2>1, <3>1, <1>7, <1>8
  <2>2. CASE u # t
    BY <2>2, <1>8
  <2> QED
    BY <2>1, <2>2
<1>13. OneInitializes'
  <2> SUFFICES ASSUME NEW u \in Threads, NEW v \in Threads, NEW j \in Classes,
                      NEW m \in 1..Len(stack'[u]), NEW n \in 1..Len(stack'[v]),
                      stack'[u][m].k = j, stack'[u][m].pc \in Section,
                      stack'[v][n].k = j, stack'[v][n].pc \in Section
               PROVE  u = v /\ m = n
    BY DEF OneInitializes, InitAt
  <2>1. CASE j = k
    BY <2>1, <1>3, <1>11, <1>12
  <2>2. CASE j # k
    <3>1. InitAt(u, m, j) /\ InitAt(v, n, j) /\ m \in 1..Len(stack[u]) /\ n \in 1..Len(stack[v])
      BY <2>2, <1>3, <1>12 DEF InitAt
    <3> QED
      BY <3>1 DEF IInv, OneInitializes
  <2> QED
    BY <2>1, <2>2
<1>14. Begun'
  <2> SUFFICES ASSUME NEW u \in Threads, NEW n \in 1..Len(stack'[u]), stack'[u][n].pc \in Section
               PROVE  state'[stack'[u][n].k] \notin {"loaded", "linked"}
    BY DEF Begun, Fresh
  <2>1. CASE stack'[u][n] = f
    BY <2>1, <1>3, <1>9
  <2>2. CASE n \in 1..Len(stack[u]) /\ stack'[u][n] = stack[u][n]
    <3>1. state[stack[u][n].k] \notin {"loaded", "linked"} /\ stack[u][n].k # k
      BY <2>2, <1>11 DEF IInv, Begun, Fresh
    <3>2. stack[u][n] \in Frames
      BY <2>2, <1>5
    <3>3. stack[u][n].k \in Classes
      BY <3>2 DEF Frames
    <3> QED
      BY <2>2, <3>1, <3>3, <1>9
  <2> QED
    BY <2>1, <2>2, <1>12
<1>15. NotRunYet'
  <2>1. ran[k] = 0
    BY <1>4 DEF IInv, NotRunYet, Fresh
  <2>2. \A j \in Classes : Fresh(j)' => ran'[j] = 0
    BY <1>4, <1>9 DEF IInv, NotRunYet, Fresh
  <2>3. ASSUME NEW u \in Threads, NEW n \in 1..Len(stack'[u]), stack'[u][n].pc \in Early
        PROVE  ran'[stack'[u][n].k] = 0
    <3>1. CASE stack'[u][n] = f
      BY <3>1, <2>1, <1>3, <1>4
    <3>2. CASE n \in 1..Len(stack[u]) /\ stack'[u][n] = stack[u][n]
      <4>1. ran[stack[u][n].k] = 0
        BY <2>3, <3>2 DEF IInv, NotRunYet
      <4> QED
        BY <3>2, <4>1, <1>4
    <3> QED
      BY <3>1, <3>2, <1>12
  <2> QED
    BY <2>2, <2>3 DEF NotRunYet
<1> QED
  BY <1>4, <1>10, <1>13, <1>14, <1>15 DEF IInv, RunOnce

\* Step 8: the frame is the only one, and the initialiser has not run
LEMMA CallInitializerStep ==
  ASSUME IInv, NEW t \in Threads, CallInitializer(t)
  PROVE  IInv'
<1>1. /\ stack[t] # <<>> /\ stack[t] \in Seq(Frames) /\ Top(t).pc = "interfaces_done"
      /\ Top(t) = stack[t][1] /\ Top(t) \in Frames /\ 1 \in 1..Len(stack[t])
  BY AtTop, TopFrame DEF IInv, CallInitializer
<1>2. PICK k \in Classes : k = Top(t).k
  BY <1>1 DEF Frames
<1>3. PICK f \in Frames : f = [Top(t) EXCEPT !.pc = "clinit"] /\ f.k = k /\ f.pc = "clinit"
  <2>1. "clinit" \in Pcs
    BY DEF Pcs, Section
  <2> QED
    BY <2>1, <1>1, <1>2, MovedFrame
<1>4. /\ ran' = [ran EXCEPT ![k] = @ + 1]
      /\ stack' = [stack EXCEPT ![t] = <<f>> \o Tail(stack[t])]
      /\ UNCHANGED <<state, init_thread, pending, returned, vm>>
  BY <1>2, <1>3 DEF CallInitializer, Goto, MoveTo
<1>5. ran \in [Classes -> Nat] /\ stack \in [Threads -> Seq(Frames)]
  BY DEF IInv, Types
<1>6. PICK q : q = <<f>> \o Tail(stack[t])
  OBVIOUS
<1>7. /\ q \in Seq(Frames) /\ Len(stack[t]) \in Nat /\ Len(stack[t]) >= 1
      /\ Len(q) = Len(stack[t]) /\ q[1] = f /\ \A n \in 2..Len(stack[t]) : q[n] = stack[t][n]
  BY <1>1, <1>6, Replaced
<1>8. /\ stack' \in [Threads -> Seq(Frames)] /\ stack'[t] = q
      /\ \A u \in Threads : u # t => stack'[u] = stack[u]
  BY <1>4, <1>5, <1>6, <1>7
<1>9. ran[k] = 0
  BY <1>1, <1>2 DEF IInv, NotRunYet, Early
<1>10. /\ ran' \in [Classes -> Nat] /\ ran'[k] = 1
       /\ \A j \in Classes : j # k => ran'[j] = ran[j]
  BY <1>4, <1>5, <1>9
<1>11. Types'
  BY <1>4, <1>8, <1>10 DEF IInv, Types
<1>12. InitAt(t, 1, k)
  BY <1>1, <1>2 DEF InitAt, Section
<1>13. \A u \in Threads : \A n \in 1..Len(stack'[u]) :
         /\ n \in 1..Len(stack[u]) /\ stack'[u][n].k = stack[u][n].k
         /\ stack'[u][n].pc \in Section <=> stack[u][n].pc \in Section
         /\ stack'[u][n].pc \in Early => stack[u][n].pc \in Early /\ (u # t \/ n # 1)
  <2> SUFFICES ASSUME NEW u \in Threads, NEW n \in 1..Len(stack'[u])
               PROVE  /\ n \in 1..Len(stack[u]) /\ stack'[u][n].k = stack[u][n].k
                      /\ stack'[u][n].pc \in Section <=> stack[u][n].pc \in Section
                      /\ stack'[u][n].pc \in Early =>
                            stack[u][n].pc \in Early /\ (u # t \/ n # 1)
    OBVIOUS
  <2>1. CASE u = t
    <3>1. n = 1 \/ n \in 2..Len(stack[t])
      BY <2>1, <1>7, <1>8
    <3>2. CASE n = 1
      BY <2>1, <3>2, <1>1, <1>2, <1>3, <1>7, <1>8 DEF Section, Early
    <3>3. CASE n \in 2..Len(stack[t])
      <4>1. n \in 1..Len(stack[t]) /\ n # 1 /\ stack'[t][n] = stack[t][n]
        BY <3>3, <1>7, <1>8
      <4> QED
        BY <2>1, <4>1
    <3> QED
      BY <3>1, <3>2, <3>3
  <2>2. CASE u # t
    BY <2>2, <1>8
  <2> QED
    BY <2>1, <2>2
<1>14. OneInitializes'
  <2> SUFFICES ASSUME NEW u \in Threads, NEW v \in Threads, NEW j \in Classes,
                      NEW m \in 1..Len(stack'[u]), NEW n \in 1..Len(stack'[v]),
                      stack'[u][m].k = j, stack'[u][m].pc \in Section,
                      stack'[v][n].k = j, stack'[v][n].pc \in Section
               PROVE  u = v /\ m = n
    BY DEF OneInitializes, InitAt
  <2>1. InitAt(u, m, j) /\ InitAt(v, n, j) /\ m \in 1..Len(stack[u]) /\ n \in 1..Len(stack[v])
    BY <1>13 DEF InitAt
  <2> QED
    BY <2>1 DEF IInv, OneInitializes
<1>15. Begun'
  BY <1>4, <1>13 DEF IInv, Begun, Fresh
<1>16. NotRunYet'
  <2>1. ~Fresh(k)
    BY <1>1, <1>2 DEF IInv, Begun, Section
  <2>2. \A j \in Classes : Fresh(j)' => ran'[j] = 0
    BY <1>4, <1>10, <2>1 DEF IInv, NotRunYet, Fresh
  <2>3. ASSUME NEW u \in Threads, NEW n \in 1..Len(stack'[u]), stack'[u][n].pc \in Early
        PROVE  ran'[stack'[u][n].k] = 0
    <3>1. n \in 1..Len(stack[u]) /\ stack[u][n].pc \in Early /\ (u # t \/ n # 1)
          /\ stack'[u][n].k = stack[u][n].k
      BY <2>3, <1>13
    <3>2. ran[stack[u][n].k] = 0
      BY <3>1 DEF IInv, NotRunYet
    <3>3. stack[u][n] \in Frames
      BY <3>1, <1>5
    <3>4. stack[u][n].k \in Classes /\ stack[u][n].pc \in Section
      BY <3>1, <3>3 DEF Frames, Early, Section
    <3>5. stack[u][n].k # k
      BY <3>1, <3>4, <1>1, <1>12 DEF IInv, OneInitializes, InitAt
    <3> QED
      BY <3>1, <3>2, <3>4, <3>5, <1>10
  <2> QED
    BY <2>2, <2>3 DEF NotRunYet
<1>17. RunOnce'
  BY <1>10 DEF IInv, RunOnce
<1> QED
  BY <1>11, <1>14, <1>15, <1>16, <1>17 DEF IInv

\* Calls of initialize, and of initialize_super_interfaces
LEMMA InitializeStep ==
  ASSUME IInv, NEW t \in Threads, NEW k \in Classes, Initialize(t, k)
  PROVE  IInv'
<1>1. <<>> \in Seq(Frames) /\ stack[t] = <<>>
  BY DEF Initialize
<1>2. Continues(CallInit(k, <<>>), stack[t])
  BY <1>1, SameContinues, CallContinues
<1>3. /\ Goto(t, CallInit(k, <<>>)) /\ pending' = [pending EXCEPT ![t] = FALSE]
      /\ UNCHANGED <<state, init_thread, ran, returned, vm>>
  BY DEF Initialize
<1>4. /\ state \in [Classes -> States] /\ pending' \in [Threads -> BOOLEAN]
      /\ returned \in [Threads -> SUBSET Classes]
  BY <1>3 DEF IInv, Types
<1>5. \A j \in Classes : Fresh(j)' => Fresh(j)
  BY <1>3 DEF Fresh
<1> QED
  BY <1>2, <1>3, <1>4, <1>5, ThreadContinues

LEMMA SuperStep ==
  ASSUME IInv, NEW t \in Threads, InitializeSuper(t) \/ SuperDone(t)
  PROVE  IInv'
<1>1. At(t, "super") \/ At(t, "super_done")
  BY DEF InitializeSuper, SuperDone
<1>2. /\ stack[t] # <<>> /\ Top(t).pc \in {"super", "super_done"} /\ Top(t).k \in Classes
  BY <1>1, AtTop DEF IInv
<1>3. \A l \in {"super_done", "interfaces_done"} : Continues(MoveTo(t, l), stack[t])
  <2> SUFFICES ASSUME NEW l \in {"super_done", "interfaces_done"}
               PROVE  Continues(MoveTo(t, l), stack[t])
    OBVIOUS
  <2>1. l \in Pcs /\ Top(t).pc \in Section /\ Top(t).pc \in Early
    BY <1>2 DEF Pcs, Section, Early
  <2> QED
    BY <1>2, <2>1, MoveContinues DEF IInv
<1>4. CASE InitializeSuper(t)
  <2> DEFINE here == MoveTo(t, "super_done")
             sup == Super[Top(t).k]
             s == IF sup = None THEN here ELSE CallInit(sup, here)
  <2>1. Goto(t, s) /\ UNCHANGED <<state, init_thread, pending, history, vm>>
    BY <1>4 DEF InitializeSuper
  <2>2. sup = None \/ sup \in Classes
    BY <1>2, ClassInitAssumption
  <2>3. Continues(here, stack[t])
    BY <1>3
  <2> HIDE DEF here
  <2>4. Continues(s, stack[t])
    BY <2>2, <2>3, CallContinues
  <2> HIDE DEF s
  <2> QED
    BY <2>1, <2>4, OnlyContinues
<1>5. CASE SuperDone(t)
  <2> DEFINE here == MoveTo(t, "interfaces_done")
             s == IF Top(t).k \in HasDefaults THEN <<Frame(Top(t).k, "loop")>> \o here ELSE here
  <2>1. Goto(t, s) /\ UNCHANGED <<state, init_thread, pending, history, vm>>
    BY <1>5 DEF SuperDone
  <2>2. Continues(here, stack[t])
    BY <1>3
  <2> HIDE DEF here
  <2>3. Continues(s, stack[t])
    BY <1>2, <2>2, CallContinues
  <2> HIDE DEF s
  <2> QED
    BY <2>1, <2>3, OnlyContinues
<1> QED
  BY <1>4, <1>5

LEMMA InterfaceStep ==
  ASSUME IInv, NEW t \in Threads, InterfaceLoop(t) \/ InterfaceInit(t) \/ InterfaceDone(t)
  PROVE  IInv'
<1>1. At(t, "loop") \/ At(t, "supers_done") \/ At(t, "interface_done")
  BY DEF InterfaceLoop, InterfaceInit, InterfaceDone
<1>2. /\ stack[t] # <<>> /\ Top(t).k \in Classes /\ Top(t).i \in Nat \ {0}
      /\ Continues(Popped(t), stack[t])
  BY <1>1, AtTop DEF IInv
<1>3. \A l \in {"loop", "supers_done", "interface_done"} :
         Continues(MoveTo(t, l), stack[t]) /\ Continues(NextIn(t, l), stack[t])
  <2> SUFFICES ASSUME NEW l \in {"loop", "supers_done", "interface_done"}
               PROVE  Continues(MoveTo(t, l), stack[t]) /\ Continues(NextIn(t, l), stack[t])
    OBVIOUS
  <2>1. l \in Pcs /\ l \notin Section /\ l \notin Early
    BY DEF Pcs, Section, Early
  <2> QED
    BY <1>2, <2>1, MoveContinues DEF IInv
<1>4. Top(t).i <= Len(Interfaces[Top(t).k]) => Interface(t) \in Classes
  <2>1. Interfaces[Top(t).k] \in Seq(Classes)
    BY <1>2, ClassInitAssumption
  <2> QED
    BY <2>1, <1>2 DEF Interface
<1>5. CASE InterfaceLoop(t)
  <2>1. PICK s : Goto(t, s) /\ (\/ s = Popped(t) \/ s = NextIn(t, "loop") \/ s = MoveTo(t, "supers_done")
                                \/ /\ Top(t).i <= Len(Interfaces[Top(t).k])
                                   /\ s = <<Frame(Interface(t), "loop")>> \o MoveTo(t, "supers_done"))
    <3>1. CASE Top(t).i > Len(Interfaces[Top(t).k])
      BY <1>5, <3>1 DEF InterfaceLoop
    <3>2. CASE Top(t).i <= Len(Interfaces[Top(t).k])
      BY <1>5, <3>2 DEF InterfaceLoop
    <3>3. Len(Interfaces[Top(t).k]) \in Nat
      BY <1>2, ClassInitAssumption
    <3> QED
      BY <3>1, <3>2, <3>3, <1>2
  <2>2. Continues(s, stack[t])
    BY <2>1, <1>2, <1>3, <1>4, CallContinues
  <2>3. UNCHANGED <<state, init_thread, pending, history, vm>>
    BY <1>5 DEF InterfaceLoop
  <2> QED
    BY <2>1, <2>2, <2>3, OnlyContinues
<1>6. CASE InterfaceInit(t)
  <2> DEFINE here == MoveTo(t, "interface_done")
  <2>1. PICK s : Goto(t, s) /\ (\/ s = here
                                \/ Interface(t) \in Declares /\ s = CallInit(Interface(t), here))
    BY <1>6 DEF InterfaceInit
  <2>2. Continues(here, stack[t])
    BY <1>3
  <2> HIDE DEF here
  <2>3. Declares \subseteq Classes
    BY ClassInitAssumption
  <2>4. Continues(s, stack[t])
    BY <2>1, <2>2, <2>3, CallContinues
  <2>5. UNCHANGED <<state, init_thread, pending, history, vm>>
    BY <1>6 DEF InterfaceInit
  <2> QED
    BY <2>1, <2>4, <2>5, OnlyContinues
<1>7. CASE InterfaceDone(t)
  BY <1>3, <1>7, OnlyContinues DEF InterfaceDone
<1> QED
  BY <1>5, <1>6, <1>7

\* Failures, and the end of the static initialiser
LEMMA UseClassStep ==
  ASSUME IInv, NEW t \in Threads, UseClass(t)
  PROVE  IInv'
<1>1. At(t, "clinit")
  BY DEF UseClass
<1>2. /\ stack[t] # <<>> /\ Top(t).k \in Classes /\ Top(t).i \in Nat \ {0} /\ Top(t).pc = "clinit"
  BY <1>1, AtTop DEF IInv
<1>3. Continues(NextIn(t, "clinit"), stack[t])
  <2>1. "clinit" \in Pcs /\ "clinit" \in Section /\ "clinit" \notin Early
    BY DEF Pcs, Section, Early
  <2> QED
    BY <1>2, <2>1, MoveContinues DEF IInv
<1>4. Uses[Top(t).k] \in Seq(Classes)
  BY <1>2, ClassInitAssumption
<1>5. PICK j \in Classes : j = Uses[Top(t).k][Top(t).i]
  BY <1>2, <1>4 DEF UseClass
<1>6. Continues(CallInit(j, NextIn(t, "clinit")), stack[t])
  BY <1>3, CallContinues
<1> QED
  BY <1>5, <1>6, OnlyContinues DEF UseClass

LEMMA EndStep ==
  ASSUME IInv, NEW t \in Threads,
         \/ SuperFailed(t) \/ InterfaceFailed(t) \/ InterfacesFailed(t)
         \/ Initialized(t) \/ InitializerThrew(t)
  PROVE  IInv'
<1>1. \E l : At(t, l)
  BY DEF SuperFailed, InterfaceFailed, InterfacesFailed, Initialized, InitializerThrew
<1>2. PICK k \in Classes : k = Top(t).k /\ Continues(Popped(t), stack[t])
  BY <1>1, AtTop DEF IInv
<1>3. pending \in [Threads -> BOOLEAN] /\ returned \in [Threads -> SUBSET Classes]
  BY DEF IInv, Types
<1>4. CASE InterfacesFailed(t)
  BY <1>2, <1>4, OnlyContinues DEF InterfacesFailed
<1>5. CASE ~InterfacesFailed(t)
  <2>1. PICK s \in {"fully_initialized", "initialization_error"} :
          SetStateAndNotify(t, k, s, Popped(t))
    BY <1>2, <1>5 DEF SuperFailed, InterfaceFailed, Initialized, InitializerThrew
  <2>2. init_thread' = init_thread /\ ran' = ran
    BY <1>5 DEF SuperFailed, InterfaceFailed, Initialized, InitializerThrew, history
  <2>3. pending' = pending \/ pending' = [pending EXCEPT ![t] = TRUE]
    BY <1>5 DEF SuperFailed, InterfaceFailed, Initialized, InitializerThrew
  <2>4. returned' = returned \/ returned' = [returned EXCEPT ![t] = @ \cup {k}]
    BY <1>2, <1>5 DEF SuperFailed, InterfaceFailed, Initialized, InitializerThrew, history
  <2>5. pending' \in [Threads -> BOOLEAN]
    BY <2>3, <1>3
  <2>6. returned' \in [Threads -> SUBSET Classes]
    BY <2>4, <1>3
  <2> QED
    BY <2>1, <2>2, <2>5, <2>6, <1>2, NotifyContinues
<1> QED
  BY <1>4, <1>5

LEMMA Initially == Init => IInv
<1> SUFFICES ASSUME Init PROVE IInv
  OBVIOUS
<1>1. /\ \A t \in Threads : stack[t] = <<>>
      /\ \A k \in Classes : ran[k] = 0
  BY DEF Init
<1>2. Types
  <2>1. <<>> \in Seq(Frames)
    OBVIOUS
  <2>2. /\ state \in [Classes -> States] /\ init_thread \in [Classes -> Threads \cup {None}]
        /\ stack \in [Threads -> Seq(Frames)] /\ ran \in [Classes -> Nat]
        /\ returned \in [Threads -> SUBSET Classes]
    BY <2>1 DEF Init, States
  <2>3. pending \in [Threads -> BOOLEAN] /\ vm \in {"running", "null lock", "illegal transition"}
    BY DEF Init
  <2> QED
    BY <2>2, <2>3 DEF Types
<1> QED
  BY <1>1, <1>2 DEF IInv, OneInitializes, Begun, NotRunYet, RunOnce

LEMMA Inductive == IInv /\ [Next]_vars => IInv'
<1> SUFFICES ASSUME IInv, [Next]_vars PROVE IInv'
  OBVIOUS
<1>1. ASSUME NEW t \in Threads, Step(t) PROVE IInv'
  BY <1>1, LinkStep, LockStep, AlreadyStep, ErroneousStep, BeginStep, SuperStep, InterfaceStep,
     CallInitializerStep, UseClassStep, EndStep DEF Step
<1>2. ASSUME NEW t \in Threads, NEW k \in Classes, Initialize(t, k) PROVE IInv'
  BY <1>2, InitializeStep
<1>3. ASSUME UNCHANGED vars PROVE IInv'
  <2>1. Types'
    BY <1>3 DEF IInv, Types, vars
  <2>2. \A t \in Threads : Continues(stack'[t], stack[t])
    BY <1>3, SameContinues DEF IInv, Types, vars
  <2>3. \A k \in Classes : Fresh(k)' => Fresh(k)
    BY <1>3 DEF Fresh, vars
  <2> QED
    BY <1>3, <2>1, <2>2, <2>3, StacksContinue DEF vars
<1> QED
  BY <1>1, <1>2, <1>3 DEF Next

\* The invariant holds of every state, for every hierarchy
THEOREM Invariance == Spec => []IInv
BY Initially, Inductive, PTL DEF Spec

\* A static initialiser is run once at most, whatever fails, and however many
\* threads initialise the class
THEOREM RunsOnce == Spec => []RunOnce
<1>1. IInv => RunOnce
  BY DEF IInv
<1> QED
  BY <1>1, Invariance, PTL
-----------------------------------------------------------------------------
(* The invariant of hierarchies without default methods, for stack s of    *)
(* thread t, states st of the classes and threads it that initialise them  *)

InitIn(s, n, k) == n \in 1..Len(s) /\ s[n].k = k /\ s[n].pc \in Section

\* Where a frame initialises a class, the class is being initialised by t; a class
\* that t is initialising has such a frame
HeldBy(t, s, st, it) ==
    \A n \in 1..Len(s) :
        s[n].pc \in Section => st[s[n].k] = "being_initialized" /\ it[s[n].k] = t

HasFrames(t, s, st, it) ==
    \A k \in Classes : st[k] = "being_initialized" /\ it[k] = t =>
        \E n \in 1..Len(s) : InitIn(s, n, k)

\* There are no superinterfaces to initialise; a caller is in step 7 or 8, and in
\* step 7 it has called initialize for its super class
CallsIn(s) ==
    /\ \A n \in 1..Len(s) : s[n].pc \in Section \cup {"link", "lock", "wait"}
    /\ \A n \in 2..Len(s) :
          /\ s[n].pc \in {"super_done", "clinit"}
          /\ s[n].pc = "super_done" => s[n - 1].k = Super[s[n].k]

\* An exception is pending (p) only where it is tested next
TestedIn(s, p) == p /\ s # <<>> => s[1].pc \in {"super_done", "clinit"}

\* The super class of the n-th frame's class is initialised, or that frame or one of
\* its callers initialises it
ReadyAt(s, n, st) ==
    \/ Super[s[n].k] = None
    \/ st[Super[s[n].k]] = "fully_initialized"
    \/ \E m \in 1..Len(s) : m >= n /\ InitIn(s, m, Super[s[n].k])

ReadyIn(s, p, st) ==
    \A n \in 1..Len(s) :
        \/ s[n].pc \in {"interfaces_done", "clinit"}
        \/ s[n].pc = "super_done" /\ n = 1 /\ ~p
        => ReadyAt(s, n, st)

\* A class (of r) that t may use is initialised, or being initialised by t, or it failed
\* while t was at it
UsableBy(t, r, st, it) ==
    \A k \in r : st[k] = "fully_initialized" \/ (st[k] \notin {"loaded", "linked"} /\ it[k] = t)

ThreadInv(t) ==
    /\ HeldBy(t, stack[t], state, init_thread)
    /\ HasFrames(t, stack[t], state, init_thread)
    /\ CallsIn(stack[t])
    /\ TestedIn(stack[t], pending[t])
    /\ ReadyIn(stack[t], pending[t], state)
    /\ UsableBy(t, returned[t], state, init_thread)

NInv == IInv /\ (\A t \in Threads : ThreadInv(t)) /\ vm = "running"

\* Stack new is old with its innermost frame replaced by c frames, the last of which
\* is that frame at another program point
Mapped(new, old, c) ==
    /\ new \in Seq(Frames) /\ old \in Seq(Frames) /\ Len(new) = Len(old) + c - 1
    /\ \A n \in 1..Len(new) : n > c => new[n] = old[n + 1 - c]
    /\ c >= 1 /\ c <= Len(new) =>
          /\ new[c].k = old[1].k
          /\ old[1].pc \in Section => new[c].pc \in Section

LEMMA SameMapped ==
  ASSUME NEW s \in Seq(Frames)
  PROVE  Mapped(s, s, 1)
<1>1. Len(s) \in Nat
  OBVIOUS
<1>2. \A n \in 1..Len(s) : n + 1 - 1 = n
  BY <1>1
<1> QED
  BY <1>1, <1>2 DEF Mapped

LEMMA PopMapped ==
  ASSUME NEW s \in Seq(Frames), s # <<>>
  PROVE  Mapped(Tail(s), s, 0)
<1>1. PICK q : q = Tail(s)
  OBVIOUS
<1>2. /\ q \in Seq(Frames) /\ Len(s) \in Nat /\ Len(q) = Len(s) - 1
      /\ \A n \in 1..(Len(s) - 1) : q[n] = s[n + 1]
  BY <1>1, Shorter
<1>3. \A n \in 1..Len(q) : n + 1 - 0 = n + 1
  BY <1>2
<1>4. Mapped(q, s, 0)
  BY <1>2, <1>3 DEF Mapped
<1> QED
  BY <1>1, <1>4

LEMMA MoveMapped ==
  ASSUME NEW s \in Seq(Frames), s # <<>>, NEW f \in Frames, f.k = s[1].k,
         s[1].pc \in Section => f.pc \in Section
  PROVE  Mapped(<<f>> \o Tail(s), s, 1)
<1>1. PICK q : q = <<f>> \o Tail(s)
  OBVIOUS
<1>2. /\ q \in Seq(Frames) /\ Len(s) \in Nat /\ Len(s) >= 1 /\ Len(q) = Len(s) /\ q[1] = f
      /\ \A n \in 2..Len(s) : q[n] = s[n]
  BY <1>1, Replaced
<1>3. \A n \in 1..Len(q) : n > 1 => n + 1 - 1 = n /\ n \in 2..Len(s)
  BY <1>2
<1>4. \A n \in 1..Len(q) : n > 1 => q[n] = s[n + 1 - 1]
  BY <1>2, <1>3
<1>5. Mapped(q, s, 1)
  BY <1>2, <1>4 DEF Mapped
<1> QED
  BY <1>1, <1>5

LEMMA PushMapped ==
  ASSUME NEW s, NEW o, o # <<>>, Mapped(s, o, 1), NEW f \in Frames
  PROVE  /\ Mapped(<<f>> \o s, o, 2) /\ Len(<<f>> \o s) >= 2
         /\ (<<f>> \o s)[1] = f /\ (<<f>> \o s)[2] = s[1]
<1>1. s \in Seq(Frames) /\ o \in Seq(Frames) /\ Len(s) = Len(o) + 1 - 1
  BY DEF Mapped
<1>2. Len(o) \in Nat /\ Len(o) >= 1 /\ Len(s) = Len(o)
  BY <1>1
<1>3. /\ s[1].k = o[1].k /\ (o[1].pc \in Section => s[1].pc \in Section)
      /\ \A n \in 1..Len(s) : n > 1 => s[n] = o[n + 1 - 1]
  BY <1>2 DEF Mapped
<1>4. PICK q : q = <<f>> \o s
  OBVIOUS
<1>5. /\ q \in Seq(Frames) /\ Len(q) = Len(s) + 1 /\ q[1] = f
      /\ \A n \in 2..(Len(s) + 1) : q[n] = s[n - 1]
  BY <1>1, <1>4, Pushed
<1>6. q[2] = s[1]
  <2>1. 2 \in 2..(Len(s) + 1) /\ 2 - 1 = 1
    BY <1>2
  <2> QED
    BY <2>1, <1>5
<1>7. ASSUME NEW n \in 1..Len(q), n > 2 PROVE q[n] = o[n + 1 - 2]
  <2>1. n \in 2..(Len(s) + 1) /\ n - 1 \in 1..Len(s) /\ n - 1 > 1 /\ (n - 1) + 1 - 1 = n + 1 - 2
    BY <1>2, <1>5, <1>7
  <2> QED
    BY <2>1, <1>3, <1>5
<1>8. Mapped(q, o, 2)
  BY <1>1, <1>2, <1>3, <1>5, <1>6, <1>7 DEF Mapped
<1> QED
  BY <1>2, <1>4, <1>5, <1>6, <1>8

LEMMA FirstMapped ==
  ASSUME NEW f \in Frames
  PROVE  /\ Mapped(<<f>> \o <<>>, <<>>, 2) /\ Len(<<f>> \o <<>>) = 1 /\ (<<f>> \o <<>>)[1] = f
<1>1. PICK q : q = <<f>> \o <<>>
  OBVIOUS
<1>2. <<>> \in Seq(Frames) /\ Len(<<>>) = 0
  OBVIOUS
<1>3. q \in Seq(Frames) /\ Len(q) = 1 /\ q[1] = f
  BY <1>1, <1>2, Pushed
<1>4. Mapped(q, <<>>, 2)
  BY <1>2, <1>3 DEF Mapped
<1> QED
  BY <1>1, <1>3, <1>4

\* What Mapped says of a frame
LEMMA MappedFrame ==
  ASSUME NEW new, NEW old, NEW c \in 0..2, Mapped(new, old, c), NEW n \in 1..Len(new)
  PROVE  /\ new \in Seq(Frames) /\ old \in Seq(Frames) /\ Len(new) \in Nat /\ Len(old) \in Nat
         /\ Len(new) = Len(old) + c - 1 /\ (Len(old) >= 1 \/ (c = 2 /\ n = 1))
         /\ n > c => n + 1 - c \in 2..Len(old) /\ new[n] = old[n + 1 - c]
<1>1. new \in Seq(Frames) /\ old \in Seq(Frames) /\ Len(new) = Len(old) + c - 1
  BY DEF Mapped
<1>2. Len(new) \in Nat /\ Len(old) \in Nat
  BY <1>1
<1>3. n > c => new[n] = old[n + 1 - c]
  BY DEF Mapped
<1>4. /\ Len(old) >= 1 \/ (c = 2 /\ n = 1)
      /\ n > c => n + 1 - c \in 2..Len(old)
  BY <1>1, <1>2
<1> QED
  BY <1>1, <1>2, <1>3, <1>4

\* A frame that initialises a class goes on doing so unless it is popped
LEMMA InitMapped ==
  ASSUME NEW new, NEW old, NEW c \in 0..2, Mapped(new, old, c), NEW k,
         NEW m \in 1..Len(old), InitIn(old, m, k), c = 0 => m # 1
  PROVE  m - 1 + c \in 1..Len(new) /\ InitIn(new, m - 1 + c, k)
<1>1. new \in Seq(Frames) /\ old \in Seq(Frames) /\ Len(new) = Len(old) + c - 1
  BY DEF Mapped
<1>2. Len(new) \in Nat /\ Len(old) \in Nat
  BY <1>1
<1>3. PICK n \in 1..Len(new) : n = m - 1 + c /\ n + 1 - c = m /\ (n > c \/ (n = c /\ c >= 1 /\ m = 1))
  <2>1. m - 1 + c \in 1..Len(new) /\ (m - 1 + c) + 1 - c = m
    BY <1>1, <1>2
  <2>2. m - 1 + c > c \/ (m - 1 + c = c /\ c >= 1 /\ m = 1)
    BY <1>2
  <2> QED
    BY <2>1, <2>2
<1>4. CASE n > c
  <2>1. new[n] = old[m]
    BY <1>3, <1>4 DEF Mapped
  <2> QED
    BY <2>1, <1>3 DEF InitIn
<1>5. CASE n = c /\ c >= 1 /\ m = 1
  <2>1. new[c].k = old[1].k /\ (old[1].pc \in Section => new[c].pc \in Section)
    BY <1>1, <1>2, <1>5 DEF Mapped
  <2>2. old[1].k = k /\ old[1].pc \in Section
    BY <1>5 DEF InitIn
  <2>3. InitIn(new, n, k)
    BY <2>1, <2>2, <1>5 DEF InitIn
  <2> QED
    BY <2>3, <1>3
<1> QED
  BY <1>3, <1>4, <1>5

LEMMA ReadyMapped ==
  ASSUME NEW new, NEW old, NEW c \in 0..2, Mapped(new, old, c), NEW st, NEW st2,
         \A k \in Classes : st[k] = "fully_initialized" => st2[k] = "fully_initialized",
         NEW n \in 1..Len(new), n >= c, ReadyAt(old, n + 1 - c, st)
  PROVE  ReadyAt(new, n, st2)
<1>1. new \in Seq(Frames) /\ old \in Seq(Frames) /\ Len(new) = Len(old) + c - 1
  BY DEF Mapped
<1>2. Len(new) \in Nat /\ Len(old) \in Nat
  BY <1>1
<1>3. n + 1 - c \in 1..Len(old) /\ n \in Nat
  BY <1>1, <1>2
<1>4. PICK f \in Frames : f = new[n]
  BY <1>1
<1>5. f.k = old[n + 1 - c].k
  <2>1. CASE n > c
    BY <2>1, <1>4 DEF Mapped
  <2>2. CASE n = c
    <3>1. n + 1 - c = 1 /\ c >= 1 /\ c <= Len(new)
      BY <2>2, <1>2
    <3> QED
      BY <2>2, <3>1, <1>4 DEF Mapped
  <2> QED
    BY <2>1, <2>2, <1>2
<1>6. PICK sup \in Classes \cup {None} : sup = Super[f.k]
  BY <1>4, ClassInitAssumption DEF Frames
<1>7. CASE sup = None
  BY <1>4, <1>6, <1>7 DEF ReadyAt
<1>8. CASE sup \in Classes /\ st[sup] = "fully_initialized"
  BY <1>4, <1>6, <1>8 DEF ReadyAt
<1>9. CASE \E m \in 1..Len(old) : m >= n + 1 - c /\ InitIn(old, m, sup)
  <2>1. PICK m \in 1..Len(old) : m >= n + 1 - c /\ InitIn(old, m, sup)
    BY <1>9
  <2>2. (c = 0 => m # 1) /\ m - 1 + c >= n
    BY <2>1, <1>2, <1>3
  <2>3. m - 1 + c \in 1..Len(new) /\ InitIn(new, m - 1 + c, sup)
    BY <2>1, <2>2, InitMapped
  <2>4. PICK i \in 1..Len(new) : i >= n /\ InitIn(new, i, sup)
    BY <2>2, <2>3
  <2> QED
    BY <2>4, <1>4, <1>6 DEF ReadyAt
<1> QED
  BY <1>4, <1>5, <1>6, <1>7, <1>8, <1>9, ClassInitAssumption DEF ReadyAt

LEMMA ReadyKept ==
  ASSUME NEW new, NEW old, NEW c \in 0..2, Mapped(new, old, c), NEW st, NEW st2, NEW p, NEW p2,
         \A k \in Classes : st[k] = "fully_initialized" => st2[k] = "fully_initialized",
         CallsIn(old), ReadyIn(old, p, st),
         c = 2 => new[1].pc = "link",
         c >= 1 /\ c <= Len(new) /\ new[c].pc \in {"interfaces_done", "clinit"} => ReadyAt(old, 1, st),
         new # <<>> /\ new[1].pc = "super_done" /\ ~p2 => ReadyAt(new, 1, st2)
  PROVE  ReadyIn(new, p2, st2)
<1> SUFFICES ASSUME NEW n \in 1..Len(new),
                    \/ new[n].pc \in {"interfaces_done", "clinit"}
                    \/ new[n].pc = "super_done" /\ n = 1 /\ ~p2
             PROVE  ReadyAt(new, n, st2)
  BY DEF ReadyIn
<1>1. new \in Seq(Frames) /\ old \in Seq(Frames) /\ Len(new) = Len(old) + c - 1
  BY DEF Mapped
<1>2. Len(new) \in Nat /\ Len(old) \in Nat
  BY <1>1
<1>3. CASE new[n].pc = "super_done" /\ n = 1 /\ ~p2
  <2>1. new # <<>>
    BY <1>1, <1>2
  <2> QED
    BY <2>1, <1>3
<1>4. CASE new[n].pc \in {"interfaces_done", "clinit"}
  <2>1. CASE n > c
    <3>1. new[n] = old[n + 1 - c] /\ n + 1 - c \in 1..Len(old)
      BY <2>1, <1>1, <1>2 DEF Mapped
    <3>2. ReadyAt(old, n + 1 - c, st)
      BY <3>1, <1>4 DEF ReadyIn
    <3> QED
      BY <2>1, <3>2, <1>2, ReadyMapped
  <2>2. CASE n = c
    <3>1. n + 1 - c = 1 /\ c >= 1 /\ c <= Len(new)
      BY <2>2, <1>2
    <3>2. ReadyAt(old, n + 1 - c, st) /\ n >= c
      BY <2>2, <3>1, <1>4
    <3> QED
      BY <3>2, ReadyMapped
  <2>3. CASE n < c
    <3>1. c = 2 /\ n = 1
      BY <2>3, <1>2
    <3> QED
      BY <3>1, <1>4
  <2> QED
    BY <2>1, <2>2, <2>3, <1>2
<1> QED
  BY <1>3, <1>4

LEMMA CallsKept ==
  ASSUME NEW new, NEW old, NEW c \in 0..2, Mapped(new, old, c), CallsIn(old),
         c >= 1 /\ c <= Len(new) => new[c].pc \in Section \cup {"link", "lock", "wait"},
         c = 2 => new[1].pc = "link",
         c = 2 /\ Len(new) >= 2 =>
            /\ new[2].pc \in {"super_done", "clinit"}
            /\ new[2].pc = "super_done" => new[1].k = Super[new[2].k]
  PROVE  CallsIn(new)
<1>1. new \in Seq(Frames) /\ old \in Seq(Frames) /\ Len(new) = Len(old) + c - 1
  BY DEF Mapped
<1>2. Len(new) \in Nat /\ Len(old) \in Nat
  BY <1>1
<1>3. \A n \in 1..Len(new) : n > c => n + 1 - c \in 2..Len(old) /\ new[n] = old[n + 1 - c]
  BY MappedFrame
<1>4. ASSUME NEW n \in 1..Len(new) PROVE new[n].pc \in Section \cup {"link", "lock", "wait"}
  <2>1. CASE n > c
    <3>1. n + 1 - c \in 1..Len(old) /\ new[n] = old[n + 1 - c]
      BY <2>1, <1>2, <1>3
    <3> QED
      BY <3>1 DEF CallsIn
  <2>2. CASE n = c
    BY <2>2, <1>2
  <2>3. CASE n < c
    <3>1. c = 2 /\ n = 1
      BY <2>3, <1>2
    <3> QED
      BY <3>1
  <2> QED
    BY <2>1, <2>2, <2>3, <1>2
<1>5. ASSUME NEW n \in 2..Len(new)
      PROVE  /\ new[n].pc \in {"super_done", "clinit"}
             /\ new[n].pc = "super_done" => new[n - 1].k = Super[new[n].k]
  <2>1. CASE n > c
    <3>1. n + 1 - c \in 2..Len(old) /\ new[n] = old[n + 1 - c] /\ n - 1 \in 1..Len(new)
      BY <2>1, <1>2, <1>3
    <3>2. /\ old[n + 1 - c].pc \in {"super_done", "clinit"}
          /\ old[n + 1 - c].pc = "super_done" => old[(n + 1 - c) - 1].k = Super[old[n + 1 - c].k]
      BY <3>1 DEF CallsIn
    <3>3. new[n - 1].k = old[(n + 1 - c) - 1].k
      <4>1. CASE n - 1 > c
        <5>1. (n - 1) + 1 - c = (n + 1 - c) - 1
          BY <1>2
        <5> QED
          BY <4>1, <5>1, <3>1, <1>3
      <4>2. CASE n - 1 = c
        <5>1. (n + 1 - c) - 1 = 1 /\ c >= 1 /\ c <= Len(new)
          BY <4>2, <1>2
        <5> QED
          BY <4>2, <5>1 DEF Mapped
      <4> QED
        BY <4>1, <4>2, <2>1, <1>2
    <3> QED
      BY <3>1, <3>2, <3>3
  <2>2. CASE ~(n > c)
    <3>1. c = 2 /\ n = 2 /\ Len(new) >= 2 /\ n - 1 = 1
      BY <2>2, <1>2
    <3> QED
      BY <3>1
  <2> QED
    BY <2>1, <2>2
<1> QED
  BY <1>4, <1>5 DEF CallsIn

LEMMA HeldKept ==
  ASSUME NEW t, NEW new, NEW old, NEW c \in 0..2, Mapped(new, old, c),
         NEW st, NEW st2, NEW it, NEW it2, HeldBy(t, old, st, it),
         \A m \in 2..Len(old) : old[m].pc \in Section =>
            st2[old[m].k] = st[old[m].k] /\ it2[old[m].k] = it[old[m].k],
         c = 2 => new[1].pc = "link",
         c >= 1 /\ c <= Len(new) /\ new[c].pc \in Section =>
            st2[new[c].k] = "being_initialized" /\ it2[new[c].k] = t
  PROVE  HeldBy(t, new, st2, it2)
<1>1. new \in Seq(Frames) /\ old \in Seq(Frames) /\ Len(new) = Len(old) + c - 1
  BY DEF Mapped
<1>2. Len(new) \in Nat /\ Len(old) \in Nat
  BY <1>1
<1> SUFFICES ASSUME NEW n \in 1..Len(new), new[n].pc \in Section
             PROVE  st2[new[n].k] = "being_initialized" /\ it2[new[n].k] = t
  BY DEF HeldBy
<1>3. CASE n > c
  <2>1. PICK m \in 2..Len(old) : new[n] = old[m]
    BY <1>3, MappedFrame
  <2>2. m \in 1..Len(old)
    BY <1>2
  <2> QED
    BY <2>1, <2>2 DEF HeldBy
<1>4. CASE n = c
  BY <1>4, <1>2
<1>5. CASE n < c
  <2>1. c = 2 /\ n = 1
    BY <1>5, <1>2
  <2> QED
    BY <2>1 DEF Section
<1> QED
  BY <1>3, <1>4, <1>5, <1>2

LEMMA FramesKept ==
  ASSUME NEW t, NEW new, NEW old, NEW c \in 0..2, Mapped(new, old, c),
         NEW st, NEW st2, NEW it, NEW it2, HasFrames(t, old, st, it),
         \A k \in Classes : st2[k] = "being_initialized" /\ it2[k] = t =>
            \/ /\ st[k] = "being_initialized" /\ it[k] = t
               /\ c = 0 => ~InitIn(old, 1, k)
            \/ c >= 1 /\ InitIn(new, c, k)
  PROVE  HasFrames(t, new, st2, it2)
<1> SUFFICES ASSUME NEW k \in Classes, st2[k] = "being_initialized", it2[k] = t
             PROVE  \E n \in 1..Len(new) : InitIn(new, n, k)
  BY DEF HasFrames
<1>1. CASE st[k] = "being_initialized" /\ it[k] = t /\ (c = 0 => ~InitIn(old, 1, k))
  <2>1. PICK m \in 1..Len(old) : InitIn(old, m, k)
    BY <1>1 DEF HasFrames
  <2>2. c = 0 => m # 1
    BY <1>1, <2>1
  <2> QED
    BY <2>1, <2>2, InitMapped
<1>2. CASE c >= 1 /\ InitIn(new, c, k)
  BY <1>2 DEF InitIn
<1> QED
  BY <1>1, <1>2

-----------------------------------------------------------------------------
(* Steps in hierarchies without default methods                            *)

\* No class goes back, and the classes that u initialises stay the same
Forward == \A k \in Classes :
    /\ state[k] = "fully_initialized" => state'[k] = "fully_initialized"
    /\ state[k] \notin {"loaded", "linked"} =>
          state'[k] \notin {"loaded", "linked"} /\ init_thread'[k] = init_thread[k]

Untouched(u) == \A k \in Classes :
    state[k] = "being_initialized" /\ init_thread[k] = u
    <=> state'[k] = "being_initialized" /\ init_thread'[k] = u

LEMMA QuietForward ==
  ASSUME UNCHANGED <<state, init_thread>>
  PROVE  Forward /\ \A u : Untouched(u)
BY DEF Forward, Untouched

LEMMA UsableKept ==
  ASSUME NEW u, NEW r \in SUBSET Classes, Forward, UsableBy(u, r, state, init_thread)
  PROVE  UsableBy(u, r, state', init_thread')
BY DEF Forward, UsableBy

\* Another thread's step wakes u up at most
LEMMA ThreadKept ==
  ASSUME NInv, NEW u \in Threads, Forward, Untouched(u),
         pending'[u] = pending[u], returned'[u] = returned[u],
         stack'[u] = stack[u] \/ (At(u, "wait") /\ stack'[u] = MoveTo(u, "lock"))
  PROVE  ThreadInv(u)'
<1>1. PICK old \in Seq(Frames) : old = stack[u]
  BY DEF NInv, IInv, Types
<1>2. PICK new : new = stack'[u]
  OBVIOUS
<1>3. /\ HeldBy(u, old, state, init_thread) /\ HasFrames(u, old, state, init_thread)
      /\ CallsIn(old) /\ TestedIn(old, pending[u]) /\ ReadyIn(old, pending[u], state)
      /\ UsableBy(u, returned[u], state, init_thread)
  BY <1>1 DEF NInv, ThreadInv
<1>4. /\ Mapped(new, old, 1)
      /\ Len(new) >= 1 => /\ new[1].k = old[1].k
                          /\ new[1].pc = old[1].pc \/ (old[1].pc = "wait" /\ new[1].pc = "lock")
  <2>1. CASE new = old
    BY <2>1, SameMapped
  <2>2. CASE At(u, "wait") /\ stack'[u] = MoveTo(u, "lock")
    <3>1. /\ Top(u) \in Frames /\ Top(u) = old[1] /\ old # <<>> /\ old[1].pc = "wait"
      BY <2>2, <1>1, AtTop, TopFrame DEF NInv, IInv
    <3>2. "lock" \in Pcs /\ "wait" \notin Section
      BY DEF Pcs, Section
    <3>3. PICK f \in Frames : f = [Top(u) EXCEPT !.pc = "lock"] /\ f.k = old[1].k /\ f.pc = "lock"
      BY <3>1, <3>2, MovedFrame
    <3>4. new = <<f>> \o Tail(old)
      BY <2>2, <3>3, <1>1, <1>2 DEF MoveTo
    <3>5. Mapped(new, old, 1)
      BY <3>1, <3>2, <3>3, <3>4, MoveMapped
    <3>6. new[1] = f
      BY <3>1, <3>4, Replaced
    <3> QED
      BY <3>1, <3>3, <3>5, <3>6
  <2> QED
    BY <2>1, <2>2, <1>1, <1>2
<1>5. new \in Seq(Frames) /\ Len(new) \in Nat /\ Len(new) = Len(old) /\ Len(old) \in Nat
  <2>1. new \in Seq(Frames) /\ Len(new) = Len(old) + 1 - 1
    BY <1>4 DEF Mapped
  <2> QED
    BY <2>1
<1>6. HeldBy(u, new, state', init_thread')
  <2>1. ASSUME NEW m \in 1..Len(old), old[m].pc \in Section
        PROVE  /\ state'[old[m].k] = "being_initialized" /\ init_thread'[old[m].k] = u
               /\ state'[old[m].k] = state[old[m].k] /\ init_thread'[old[m].k] = init_thread[old[m].k]
    <3>1. old[m] \in Frames
      BY <1>1
    <3>2. old[m].k \in Classes
      BY <3>1 DEF Frames
    <3>3. state[old[m].k] = "being_initialized" /\ init_thread[old[m].k] = u
      BY <2>1, <1>3 DEF HeldBy
    <3> QED
      BY <3>2, <3>3 DEF Untouched
  <2>2. \A m \in 2..Len(old) : old[m].pc \in Section =>
           state'[old[m].k] = state[old[m].k] /\ init_thread'[old[m].k] = init_thread[old[m].k]
    BY <2>1, <1>5
  <2>3. 1 <= Len(new) /\ new[1].pc \in Section =>
           state'[new[1].k] = "being_initialized" /\ init_thread'[new[1].k] = u
    <3>1. 1 <= Len(new) /\ new[1].pc \in Section =>
             1 \in 1..Len(old) /\ old[1].pc \in Section /\ new[1].k = old[1].k
      BY <1>4, <1>5 DEF Section
    <3> QED
      BY <3>1, <2>1
  <2> QED
    BY <2>2, <2>3, <1>3, <1>4, HeldKept
<1>7. HasFrames(u, new, state', init_thread')
  BY <1>3, <1>4, FramesKept DEF Untouched
<1>8. CallsIn(new)
  <2>1. 1 <= Len(new) => new[1].pc \in Section \cup {"link", "lock", "wait"}
    BY <1>3, <1>4, <1>5 DEF CallsIn
  <2> QED
    BY <2>1, <1>3, <1>4, CallsKept
<1>9. TestedIn(new, pending'[u])
  <2>1. new # <<>> => Len(new) >= 1 /\ old # <<>>
    BY <1>1, <1>5
  <2> QED
    BY <2>1, <1>3, <1>4 DEF TestedIn
<1>10. ReadyIn(new, pending'[u], state')
  <2>1. \A k \in Classes : state[k] = "fully_initialized" => state'[k] = "fully_initialized"
    BY DEF Forward
  <2>2. 1 <= Len(new) /\ new[1].pc \in {"interfaces_done", "clinit"} => ReadyAt(old, 1, state)
    BY <1>3, <1>4, <1>5 DEF ReadyIn
  <2>3. new # <<>> /\ new[1].pc = "super_done" /\ ~pending'[u] => ReadyAt(new, 1, state')
    <3> SUFFICES ASSUME new # <<>>, new[1].pc = "super_done", ~pending'[u]
                 PROVE  ReadyAt(new, 1, state')
      OBVIOUS
    <3>1. 1 \in 1..Len(new) /\ 1 \in 1..Len(old) /\ 1 + 1 - 1 = 1
      BY <1>5
    <3>2. ReadyAt(old, 1 + 1 - 1, state)
      BY <3>1, <1>3, <1>4 DEF ReadyIn
    <3> QED
      BY <2>1, <3>1, <3>2, <1>4, ReadyMapped
  <2> QED
    BY <2>1, <2>2, <2>3, <1>3, <1>4, ReadyKept
<1>11. UsableBy(u, returned'[u], state', init_thread')
  <2>1. returned[u] \in SUBSET Classes
    BY DEF NInv, IInv, Types
  <2> QED
    BY <2>1, <1>3, UsableKept
<1> QED
  BY <1>2, <1>6, <1>7, <1>8, <1>9, <1>10, <1>11 DEF ThreadInv

\* The invariant of each thread makes that of all
LEMMA AllThreads ==
  ASSUME NInv, Next, NEW t \in Threads, Forward, \A u \in Threads : u # t => Untouched(u),
         \A u \in Threads : u # t =>
            /\ pending'[u] = pending[u] /\ returned'[u] = returned[u]
            /\ stack'[u] = stack[u] \/ (At(u, "wait") /\ stack'[u] = MoveTo(u, "lock")),
         ThreadInv(t)', vm' = "running"
  PROVE  NInv'
<1>1. IInv'
  BY Inductive DEF NInv
<1>2. ASSUME NEW u \in Threads PROVE ThreadInv(u)'
  <2>1. CASE u = t
    BY <2>1
  <2>2. CASE u # t
    BY <2>2, ThreadKept
  <2> QED
    BY <2>1, <2>2
<1> QED
  BY <1>1, <1>2 DEF NInv

\* initialize returns or throws before step 6
LEMMA QuietPop ==
  ASSUME NInv, Next, NEW t \in Threads, stack[t] # <<>>, Top(t).pc \in {"link", "lock"},
         Goto(t, Popped(t)), UNCHANGED <<state, init_thread, vm>>,
         \/ pending' = [pending EXCEPT ![t] = TRUE] /\ returned' = returned
         \/ /\ pending' = pending /\ returned' = [returned EXCEPT ![t] = @ \cup {Top(t).k}]
            /\ \/ state[Top(t).k] = "fully_initialized"
               \/ state[Top(t).k] = "being_initialized" /\ init_thread[Top(t).k] = t
  PROVE  NInv'
<1>1. PICK old \in Seq(Frames) : old = stack[t]
  BY DEF NInv, IInv, Types
<1>2. /\ Top(t) = old[1] /\ old[1].k \in Classes /\ old # <<>> /\ old[1].pc \in {"link", "lock"}
      /\ old[1] \in Frames
  BY <1>1, TopFrame DEF NInv, IInv
<1>3. PICK k \in Classes : k = Top(t).k /\ k = old[1].k
  BY <1>2
<1>4. PICK new : new = Tail(old)
  OBVIOUS
<1>5. /\ stack \in [Threads -> Seq(Frames)] /\ pending \in [Threads -> BOOLEAN]
      /\ returned \in [Threads -> SUBSET Classes]
  BY DEF NInv, IInv, Types
<1>6. stack'[t] = new /\ \A u \in Threads : u # t => stack'[u] = stack[u]
  BY <1>1, <1>4, <1>5 DEF Goto, Popped
<1>7. \A u \in Threads : u # t => pending'[u] = pending[u] /\ returned'[u] = returned[u]
  BY <1>5
<1>8. Forward /\ \A u \in Threads : Untouched(u)
  BY QuietForward
<1>9. /\ HeldBy(t, old, state, init_thread) /\ HasFrames(t, old, state, init_thread)
      /\ CallsIn(old) /\ TestedIn(old, pending[t]) /\ ReadyIn(old, pending[t], state)
      /\ UsableBy(t, returned[t], state, init_thread)
  BY <1>1 DEF NInv, ThreadInv
<1>10. Mapped(new, old, 0)
  BY <1>2, <1>4, PopMapped
<1>11. /\ new \in Seq(Frames) /\ Len(old) \in Nat /\ Len(new) = Len(old) - 1
       /\ Len(new) >= 1 => 2 \in 2..Len(old) /\ 2 \in 1..Len(old) /\ 1 \in 1..Len(new) /\ new[1] = old[2]
  <2>1. /\ new \in Seq(Frames) /\ Len(old) \in Nat /\ Len(new) = Len(old) - 1
        /\ \A n \in 1..(Len(old) - 1) : new[n] = old[n + 1]
    BY <1>2, <1>4, Shorter
  <2> QED
    BY <2>1
<1>12. HeldBy(t, new, state', init_thread')
  BY <1>9, <1>10, HeldKept
<1>13. HasFrames(t, new, state', init_thread')
  <2>1. \A j \in Classes : ~InitIn(old, 1, j)
    BY <1>2 DEF InitIn, Section
  <2> QED
    BY <2>1, <1>9, <1>10, FramesKept
<1>14. CallsIn(new)
  BY <1>9, <1>10, CallsKept
<1>15. TestedIn(new, pending'[t])
  <2>1. new # <<>> => Len(new) >= 1
    BY <1>11
  <2> QED
    BY <2>1, <1>9, <1>11 DEF TestedIn, CallsIn
<1>16. new # <<>> /\ new[1].pc = "super_done" /\ ~pending'[t] => ReadyAt(new, 1, state')
  <2> SUFFICES ASSUME new # <<>>, new[1].pc = "super_done", ~pending'[t]
               PROVE  ReadyAt(new, 1, state')
    OBVIOUS
  <2>1. Len(new) >= 1 /\ new[1] = old[2] /\ 2 \in 2..Len(old) /\ 1 \in 1..Len(new)
    BY <1>11
  <2>2. old[2 - 1].k = Super[old[2].k]
    BY <2>1, <1>9 DEF CallsIn
  <2>3. k = Super[new[1].k]
    BY <2>1, <2>2, <1>3
  <2>4. state[k] = "fully_initialized" \/ (state[k] = "being_initialized" /\ init_thread[k] = t)
    BY <1>3, <1>5
  <2>5. CASE state[k] = "fully_initialized"
    BY <2>3, <2>5 DEF ReadyAt
  <2>6. CASE state[k] = "being_initialized" /\ init_thread[k] = t
    <3>1. PICK n \in 1..Len(new) : InitIn(new, n, k)
      BY <2>6, <1>13 DEF HasFrames
    <3> QED
      BY <2>3, <3>1, <1>11 DEF ReadyAt
  <2> QED
    BY <2>4, <2>5, <2>6
<1>17. ReadyIn(new, pending'[t], state')
  BY <1>9, <1>10, <1>16, ReadyKept
<1>18. UsableBy(t, returned'[t], state', init_thread')
  <2>1. \/ returned'[t] = returned[t]
        \/ /\ returned'[t] = returned[t] \cup {k}
           /\ \/ state[k] = "fully_initialized"
              \/ state[k] = "being_initialized" /\ init_thread[k] = t
    BY <1>3, <1>5
  <2> QED
    BY <2>1, <1>9 DEF UsableBy
<1>19. ThreadInv(t)'
  BY <1>6, <1>12, <1>13, <1>14, <1>15, <1>17, <1>18 DEF ThreadInv
<1> QED
  BY <1>6, <1>7, <1>8, <1>19, AllThreads DEF NInv

\* The innermost frame of t goes on, or calls initialize; old is its stack, new the next
LEMMA QuietMove ==
  ASSUME NInv, Next, NEW t \in Threads, NEW new, NEW c \in 1..2, Mapped(new, stack[t], c),
         Goto(t, new), UNCHANGED <<state, init_thread, vm, returned>>,
         ~pending'[t], \A u \in Threads : u # t => pending'[u] = pending[u],
         c <= Len(new) => new[c].pc \in Section \cup {"link", "lock", "wait"},
         c <= Len(new) /\ new[c].pc \in Section => stack[t][1].pc \in Section,
         c <= Len(new) /\ new[c].pc \in {"interfaces_done", "clinit"} => ReadyAt(stack[t], 1, state),
         c = 1 /\ new[1].pc = "super_done" => ReadyAt(new, 1, state),
         c = 2 => new[1].pc = "link",
         c = 2 /\ Len(new) >= 2 =>
            /\ new[2].pc \in {"super_done", "clinit"}
            /\ new[2].pc = "super_done" => new[1].k = Super[new[2].k]
  PROVE  NInv'
<1>1. PICK old \in Seq(Frames) : old = stack[t]
  BY DEF NInv, IInv, Types
<1>2. /\ stack \in [Threads -> Seq(Frames)] /\ returned \in [Threads -> SUBSET Classes]
  BY DEF NInv, IInv, Types
<1>3. stack'[t] = new /\ \A u \in Threads : u # t => stack'[u] = stack[u]
  BY <1>2 DEF Goto
<1>4. Forward /\ \A u \in Threads : Untouched(u)
  BY QuietForward
<1>5. /\ HeldBy(t, old, state, init_thread) /\ HasFrames(t, old, state, init_thread)
      /\ CallsIn(old) /\ ReadyIn(old, pending[t], state)
      /\ UsableBy(t, returned[t], state, init_thread)
  BY <1>1 DEF NInv, ThreadInv
<1>6. /\ new \in Seq(Frames) /\ Len(new) = Len(old) + c - 1 /\ Mapped(new, old, c)
      /\ c <= Len(new) => new[c].k = old[1].k
  <2>1. Mapped(new, old, c) /\ c >= 1
    BY <1>1
  <2> QED
    BY <2>1 DEF Mapped
<1>7. /\ Len(new) \in Nat /\ Len(old) \in Nat
      /\ c <= Len(new) => 1 \in 1..Len(old)
      /\ c \in 0..2 /\ c >= 1 /\ (c = 1 \/ c = 2)
  BY <1>6
<1>8. HeldBy(t, new, state', init_thread')
  <2>1. c <= Len(new) /\ new[c].pc \in Section =>
           state'[new[c].k] = "being_initialized" /\ init_thread'[new[c].k] = t
    BY <1>1, <1>5, <1>6, <1>7 DEF HeldBy
  <2>2. \A m \in 2..Len(old) : old[m].pc \in Section =>
           state'[old[m].k] = state[old[m].k] /\ init_thread'[old[m].k] = init_thread[old[m].k]
    OBVIOUS
  <2> QED
    BY <2>1, <2>2, <1>5, <1>6, <1>7, HeldKept
<1>9. HasFrames(t, new, state', init_thread')
  BY <1>5, <1>6, <1>7, FramesKept
<1>10. CallsIn(new)
  BY <1>5, <1>6, <1>7, CallsKept
<1>11. TestedIn(new, pending'[t])
  BY DEF TestedIn
<1>12. ReadyIn(new, pending'[t], state')
  <2>1. new # <<>> /\ new[1].pc = "super_done" /\ ~pending'[t] => ReadyAt(new, 1, state')
    BY <1>7
  <2>2. c >= 1 /\ c <= Len(new) /\ new[c].pc \in {"interfaces_done", "clinit"} => ReadyAt(old, 1, state)
    BY <1>1
  <2> QED
    BY <2>1, <2>2, <1>5, <1>6, <1>7, ReadyKept
<1>13. ThreadInv(t)'
  BY <1>3, <1>5, <1>8, <1>9, <1>10, <1>11, <1>12 DEF ThreadInv
<1> QED
  BY <1>3, <1>4, <1>13, AllThreads DEF NInv

\* A class is linked
LEMMA LinkKeeps ==
  ASSUME NInv, Next, NEW t \in Threads, LinkClass(t)
  PROVE  NInv'
<1>1. At(t, "link") /\ UNCHANGED <<init_thread, returned, vm>>
  BY DEF LinkClass, history
<1>2. stack[t] # <<>> /\ Top(t).pc = "link"
  BY <1>1, AtTop DEF NInv, IInv
<1>3. CASE Throw(t) /\ UNCHANGED state
  BY <1>1, <1>2, <1>3, QuietPop DEF Throw
<1>4. CASE ~(Throw(t) /\ UNCHANGED state)
  <2>1. PICK u : /\ state[u] = "loaded" /\ state' = [state EXCEPT ![u] = "linked"]
                 /\ UNCHANGED <<stack, pending>>
    BY <1>4 DEF LinkClass, is_linked
  <2>2. state \in [Classes -> States]
    BY DEF NInv, IInv, Types
  <2>3. \A k \in Classes : \/ state'[k] = state[k]
                           \/ state[k] = "loaded" /\ state'[k] = "linked"
    BY <2>1, <2>2
  <2>4. Forward /\ \A v \in Threads : Untouched(v)
    BY <2>3, <1>1 DEF Forward, Untouched
  <2>5. ThreadInv(t)'
    BY <2>1, <2>4, <1>1, ThreadKept
  <2> QED
    BY <2>1, <2>4, <2>5, <1>1, AllThreads DEF NInv
<1> QED
  BY <1>3, <1>4

\* Step 6
LEMMA BeginKeeps ==
  ASSUME NInv, Next, NEW t \in Threads, Begin(t)
  PROVE  NInv'
<1>1. PICK old \in Seq(Frames) : old = stack[t]
  BY DEF NInv, IInv, Types
<1>2. /\ old # <<>> /\ Top(t) = old[1] /\ Top(t) \in Frames /\ old[1].pc = "lock"
  BY <1>1, AtTop, TopFrame DEF NInv, IInv, Begin
<1>3. PICK k \in Classes : k = Top(t).k
  BY <1>2 DEF Frames
<1>4. PICK f \in Frames : f = [Top(t) EXCEPT !.pc = "super"] /\ f.k = k /\ f.pc = "super"
  <2>1. "super" \in Pcs
    BY DEF Pcs, Section
  <2> QED
    BY <2>1, <1>2, <1>3, MovedFrame
<1>5. PICK new : new = <<f>> \o Tail(old)
  OBVIOUS
<1>6. /\ state[k] = "linked" /\ state' = [state EXCEPT ![k] = "being_initialized"]
      /\ init_thread' = [init_thread EXCEPT ![k] = t]
      /\ stack' = [stack EXCEPT ![t] = new]
      /\ UNCHANGED <<pending, returned, vm>>
  BY <1>1, <1>3, <1>4, <1>5 DEF Begin, Goto, MoveTo, history
<1>7. /\ state \in [Classes -> States] /\ init_thread \in [Classes -> Threads \cup {None}]
      /\ stack \in [Threads -> Seq(Frames)] /\ returned \in [Threads -> SUBSET Classes]
  BY DEF NInv, IInv, Types
<1>8. stack'[t] = new /\ \A u \in Threads : u # t => stack'[u] = stack[u]
  BY <1>6, <1>7
<1>9. /\ state'[k] = "being_initialized" /\ init_thread'[k] = t
      /\ \A j \in Classes : j # k => state'[j] = state[j] /\ init_thread'[j] = init_thread[j]
  BY <1>6, <1>7
<1>10. Forward /\ \A u \in Threads : u # t => Untouched(u)
  BY <1>6, <1>9 DEF Forward, Untouched
<1>11. /\ HeldBy(t, old, state, init_thread) /\ HasFrames(t, old, state, init_thread)
       /\ CallsIn(old) /\ TestedIn(old, pending[t]) /\ ReadyIn(old, pending[t], state)
       /\ UsableBy(t, returned[t], state, init_thread)
  BY <1>1 DEF NInv, ThreadInv
<1>12. /\ Mapped(new, old, 1) /\ new[1] = f /\ Len(new) \in Nat /\ Len(new) >= 1
       /\ Len(old) = Len(new) /\ 1 \in 1..Len(new)
  <2>1. "lock" \notin Section /\ f.k = old[1].k
    BY <1>2, <1>3, <1>4 DEF Section
  <2>2. Mapped(new, old, 1)
    BY <2>1, <1>2, <1>4, <1>5, MoveMapped
  <2>3. new[1] = f /\ Len(new) = Len(old) /\ Len(old) \in Nat /\ Len(old) >= 1
    BY <1>2, <1>5, Replaced
  <2> QED
    BY <2>2, <2>3
<1>13. HeldBy(t, new, state', init_thread')
  <2>1. ASSUME NEW m \in 2..Len(old), old[m].pc \in Section
        PROVE  state'[old[m].k] = state[old[m].k] /\ init_thread'[old[m].k] = init_thread[old[m].k]
    <3>1. m \in 1..Len(old) /\ old[m] \in Frames
      BY <1>12
    <3>2. old[m].k \in Classes /\ state[old[m].k] = "being_initialized"
      BY <2>1, <3>1, <1>11 DEF HeldBy, Frames
    <3> QED
      BY <3>2, <1>6, <1>9
  <2>2. state'[new[1].k] = "being_initialized" /\ init_thread'[new[1].k] = t
    BY <1>4, <1>9, <1>12
  <2> QED
    BY <2>1, <2>2, <1>11, <1>12, HeldKept
<1>14. HasFrames(t, new, state', init_thread')
  <2>1. InitIn(new, 1, k)
    BY <1>4, <1>12 DEF InitIn, Section
  <2>2. \A j \in Classes : state'[j] = "being_initialized" /\ init_thread'[j] = t =>
           (state[j] = "being_initialized" /\ init_thread[j] = t) \/ InitIn(new, 1, j)
    BY <2>1, <1>9
  <2> QED
    BY <2>2, <1>11, <1>12, FramesKept
<1>15. CallsIn(new)
  <2>1. new[1].pc \in Section
    BY <1>4, <1>12 DEF Section
  <2> QED
    BY <2>1, <1>11, <1>12, CallsKept
<1>16. TestedIn(new, pending'[t])
  BY <1>2, <1>6, <1>11 DEF TestedIn
<1>17. ReadyIn(new, pending'[t], state')
  <2>1. \A j \in Classes : state[j] = "fully_initialized" => state'[j] = "fully_initialized"
    BY <1>10 DEF Forward
  <2>2. new[1].pc = "super"
    BY <1>4, <1>12
  <2> QED
    BY <2>1, <2>2, <1>11, <1>12, ReadyKept
<1>18. UsableBy(t, returned'[t], state', init_thread')
  BY <1>6, <1>7, <1>10, <1>11, UsableKept
<1>19. ThreadInv(t)'
  BY <1>8, <1>13, <1>14, <1>15, <1>16, <1>17, <1>18 DEF ThreadInv
<1> QED
  BY <1>6, <1>8, <1>10, <1>19, AllThreads DEF NInv

\* The initialisation ends, with the class in state s
LEMMA EndKeeps ==
  ASSUME NInv, Next, NEW t \in Threads, stack[t] # <<>>, Top(t).pc \in Section,
         NEW k \in Classes, k = Top(t).k, NEW s \in {"fully_initialized", "initialization_error"},
         SetStateAndNotify(t, k, s, Popped(t)), init_thread' = init_thread,
         \/ /\ s = "fully_initialized" /\ pending' = pending
            /\ returned' = [returned EXCEPT ![t] = @ \cup {k}]
         \/ /\ s = "initialization_error" /\ returned' = returned
            /\ (pending' = pending /\ pending[t]) \/ pending' = [pending EXCEPT ![t] = TRUE]
  PROVE  NInv'
<1>1. PICK old \in Seq(Frames) : old = stack[t]
  BY DEF NInv, IInv, Types
<1>2. /\ Top(t) = old[1] /\ old # <<>> /\ old[1].pc \in Section /\ old[1].k = k
  BY <1>1, TopFrame DEF NInv, IInv
<1>3. PICK new : new = Tail(old)
  OBVIOUS
<1>4. /\ stack \in [Threads -> Seq(Frames)] /\ pending \in [Threads -> BOOLEAN]
      /\ returned \in [Threads -> SUBSET Classes] /\ state \in [Classes -> States]
  BY DEF NInv, IInv, Types
<1>5. /\ HeldBy(t, old, state, init_thread) /\ HasFrames(t, old, state, init_thread)
      /\ CallsIn(old) /\ TestedIn(old, pending[t]) /\ ReadyIn(old, pending[t], state)
      /\ UsableBy(t, returned[t], state, init_thread)
  BY <1>1 DEF NInv, ThreadInv
<1>6. /\ Mapped(new, old, 0)
      /\ new \in Seq(Frames) /\ Len(old) \in Nat /\ Len(new) = Len(old) - 1 /\ 1 \in 1..Len(old)
      /\ Len(new) >= 1 => 2 \in 2..Len(old) /\ 1 \in 1..Len(new) /\ new[1] = old[2]
  <2>1. /\ new \in Seq(Frames) /\ Len(old) \in Nat /\ Len(old) >= 1 /\ Len(new) = Len(old) - 1
        /\ \A n \in 1..(Len(old) - 1) : new[n] = old[n + 1]
    BY <1>2, <1>3, Shorter
  <2> QED
    BY <2>1, <1>2, <1>3, PopMapped
<1>7. state[k] = "being_initialized" /\ init_thread[k] = t
  BY <1>2, <1>5, <1>6 DEF HeldBy
<1>8. /\ vm' = vm
      /\ stack' = [u \in Threads |->
                    CASE u = t -> Popped(t)
                      [] u # t /\ At(u, "wait") /\ Top(u).k = k -> MoveTo(u, "lock")
                      [] OTHER -> stack[u]]
  BY <1>7 DEF SetStateAndNotify, HasInitLock
<1>9. stack'[t] = new
  BY <1>1, <1>3, <1>8 DEF Popped
<1>10. \A u \in Threads : u # t =>
         /\ pending'[u] = pending[u] /\ returned'[u] = returned[u]
         /\ stack'[u] = stack[u] \/ (At(u, "wait") /\ stack'[u] = MoveTo(u, "lock"))
  <2> SUFFICES ASSUME NEW u \in Threads, u # t
               PROVE  /\ pending'[u] = pending[u] /\ returned'[u] = returned[u]
                      /\ stack'[u] = stack[u] \/ (At(u, "wait") /\ stack'[u] = MoveTo(u, "lock"))
    OBVIOUS
  <2>1. pending'[u] = pending[u] /\ returned'[u] = returned[u]
    BY <1>4
  <2>2. CASE At(u, "wait") /\ Top(u).k = k
    BY <2>1, <2>2, <1>8
  <2>3. CASE ~(At(u, "wait") /\ Top(u).k = k)
    BY <2>1, <2>3, <1>8
  <2> QED
    BY <2>2, <2>3
<1>11. state'[k] = s /\ \A j \in Classes : j # k => state'[j] = state[j]
  BY <1>4 DEF SetStateAndNotify
<1>12. Forward /\ \A u \in Threads : u # t => Untouched(u)
  BY <1>11, <1>7 DEF Forward, Untouched
<1>13. HeldBy(t, new, state', init_thread')
  <2>1. ASSUME NEW m \in 2..Len(old), old[m].pc \in Section
        PROVE  state'[old[m].k] = state[old[m].k] /\ init_thread'[old[m].k] = init_thread[old[m].k]
    <3>1. m \in 1..Len(old) /\ m # 1 /\ old[m] \in Frames
      BY <1>6
    <3>2. old[m].k \in Classes
      BY <3>1 DEF Frames
    <3>3. old[m].k # k
      <4>1. OneInitializes
        BY DEF NInv, IInv
      <4>2. InitAt(t, 1, k) /\ (old[m].k = k => InitAt(t, m, k))
        BY <2>1, <3>1, <1>1, <1>2, <1>6 DEF InitAt
      <4> QED
        BY <3>1, <4>1, <4>2, <1>1, <1>6 DEF OneInitializes
    <3> QED
      BY <3>2, <3>3, <1>11
  <2> QED
    BY <2>1, <1>5, <1>6, HeldKept
<1>14. HasFrames(t, new, state', init_thread')
  <2>1. \A j \in Classes : state'[j] = "being_initialized" =>
           state[j] = "being_initialized" /\ ~InitIn(old, 1, j)
    BY <1>2, <1>11 DEF InitIn
  <2> QED
    BY <2>1, <1>5, <1>6, FramesKept
<1>15. CallsIn(new)
  BY <1>5, <1>6, CallsKept
<1>16. TestedIn(new, pending'[t])
  <2>1. new # <<>> => Len(new) >= 1
    BY <1>6
  <2> QED
    BY <2>1, <1>5, <1>6 DEF TestedIn, CallsIn
<1>17. new # <<>> /\ new[1].pc = "super_done" /\ ~pending'[t] => ReadyAt(new, 1, state')
  <2> SUFFICES ASSUME new # <<>>, new[1].pc = "super_done", ~pending'[t]
               PROVE  ReadyAt(new, 1, state')
    OBVIOUS
  <2>1. Len(new) >= 1 /\ new[1] = old[2] /\ 2 \in 2..Len(old)
    BY <1>6
  <2>2. old[2 - 1].k = Super[old[2].k]
    BY <2>1, <1>5 DEF CallsIn
  <2>3. k = Super[new[1].k]
    BY <2>1, <2>2, <1>2
  <2>4. s = "fully_initialized"
    BY <1>4
  <2> QED
    BY <2>3, <2>4, <1>11 DEF ReadyAt
<1>18. ReadyIn(new, pending'[t], state')
  <2>1. \A j \in Classes : state[j] = "fully_initialized" => state'[j] = "fully_initialized"
    BY <1>12 DEF Forward
  <2> QED
    BY <2>1, <1>5, <1>6, <1>17, ReadyKept
<1>19. UsableBy(t, returned'[t], state', init_thread')
  <2>1. UsableBy(t, returned[t], state', init_thread')
    BY <1>4, <1>5, <1>12, UsableKept
  <2>2. \/ returned'[t] = returned[t]
        \/ returned'[t] = returned[t] \cup {k} /\ state'[k] = "fully_initialized"
    BY <1>4, <1>11
  <2> QED
    BY <2>1, <2>2 DEF UsableBy
<1>20. ThreadInv(t)'
  BY <1>9, <1>13, <1>14, <1>15, <1>16, <1>18, <1>19 DEF ThreadInv
<1> QED
  BY <1>8, <1>10, <1>12, <1>20, AllThreads DEF NInv

\* An exception is pending only at the two program points that test it next, and there
\* is no frame of initialize_super_interfaces
LEMMA TopPoint ==
  ASSUME NInv, NEW t \in Threads, NEW l, At(t, l)
  PROVE  /\ l \in Section \cup {"link", "lock", "wait"}
         /\ pending[t] => l \in {"super_done", "clinit"}
         /\ stack[t] # <<>> /\ Top(t) = stack[t][1] /\ Top(t).pc = l
         /\ stack[t] \in Seq(Frames) /\ Top(t) \in Frames /\ Top(t).k \in Classes
         /\ 1 \in 1..Len(stack[t])
<1>1. /\ stack[t] # <<>> /\ stack[t] \in Seq(Frames) /\ Top(t).pc = l
      /\ Top(t) = stack[t][1] /\ Top(t).k \in Classes /\ 1 \in 1..Len(stack[t])
  BY AtTop DEF NInv, IInv
<1>2. CallsIn(stack[t]) /\ TestedIn(stack[t], pending[t])
  BY DEF NInv, ThreadInv
<1>3. stack[t][1].pc \in Section \cup {"link", "lock", "wait"}
  BY <1>1, <1>2 DEF CallsIn
<1>4. pending[t] => stack[t][1].pc \in {"super_done", "clinit"}
  BY <1>1, <1>2 DEF TestedIn
<1>5. Top(t) \in Frames
  BY <1>1, TopFrame DEF NInv, IInv
<1> QED
  BY <1>1, <1>3, <1>4, <1>5

\* The innermost frame at program point l, in the next round or not
LEMMA MovedStack ==
  ASSUME NInv, NEW t \in Threads, stack[t] # <<>>, NEW l \in Pcs,
         Top(t).pc \in Section => l \in Section,
         NEW new \in {MoveTo(t, l), NextIn(t, l)}
  PROVE  /\ Mapped(new, stack[t], 1) /\ Len(new) \in Nat /\ Len(new) >= 1
         /\ new[1].pc = l /\ new[1].k = Top(t).k
<1>1. /\ stack[t] \in Seq(Frames) /\ Top(t) = stack[t][1] /\ Top(t) \in Frames
      /\ Top(t).i \in Nat \ {0}
  BY TopFrame DEF NInv, IInv
<1>2. PICK f \in Frames : f.k = Top(t).k /\ f.pc = l /\ new = <<f>> \o Tail(stack[t])
  <2>1. CASE new = MoveTo(t, l)
    BY <2>1, <1>1, MovedFrame DEF MoveTo
  <2>2. CASE new = NextIn(t, l)
    <3>1. PICK i \in Nat \ {0} : i = Top(t).i + 1
      BY <1>1
    <3>2. PICK g : g = [Top(t) EXCEPT !.pc = l, !.i = @ + 1] /\ g = [Top(t) EXCEPT !.pc = l, !.i = i]
      BY <3>1
    <3>3. g \in Frames /\ g.k = Top(t).k /\ g.pc = l
      BY <3>2, <1>1 DEF Frames
    <3> QED
      BY <2>2, <3>2, <3>3 DEF NextIn
  <2> QED
    BY <2>1, <2>2
<1>3. Mapped(new, stack[t], 1)
  BY <1>1, <1>2, MoveMapped
<1>4. new[1] = f /\ Len(new) = Len(stack[t]) /\ Len(stack[t]) \in Nat /\ Len(stack[t]) >= 1
  BY <1>1, <1>2, Replaced
<1> QED
  BY <1>2, <1>3, <1>4

\* initialize and steps 1 to 5
LEMMA LockKeeps ==
  ASSUME NInv, Next, NEW t \in Threads, Linked(t) \/ Wait(t)
  PROVE  NInv'
<1>1. PICK l \in {"link", "lock"}, m \in {"lock", "wait"} :
         /\ At(t, l) /\ Goto(t, MoveTo(t, m))
         /\ UNCHANGED <<state, init_thread, pending, vm, returned>>
  BY DEF Linked, Wait, history
<1>2. /\ stack[t] # <<>> /\ Top(t).pc = l /\ ~pending[t]
  BY <1>1, TopPoint
<1>3. m \in Pcs /\ m \notin Section /\ l \notin Section
  BY DEF Pcs, Section
<1>4. PICK new : new = MoveTo(t, m)
  OBVIOUS
<1>5. Mapped(new, stack[t], 1) /\ new[1].pc = m
  BY <1>2, <1>3, <1>4, MovedStack
<1> QED
  BY <1>1, <1>2, <1>3, <1>4, <1>5, QuietMove

LEMMA ThrowKeeps ==
  ASSUME NInv, Next, NEW t \in Threads, LinkErroneous(t) \/ Erroneous(t)
  PROVE  NInv'
<1>1. PICK l \in {"link", "lock"} :
         At(t, l) /\ Throw(t) /\ UNCHANGED <<state, init_thread, returned, vm>>
  BY DEF LinkErroneous, Erroneous, history
<1>2. stack[t] # <<>> /\ Top(t).pc = l
  BY <1>1, TopPoint
<1> QED
  BY <1>1, <1>2, QuietPop DEF Throw

LEMMA AlreadyKeeps ==
  ASSUME NInv, Next, NEW t \in Threads, Already(t)
  PROVE  NInv'
<1>1. At(t, "lock") /\ Return(t) /\ UNCHANGED <<state, init_thread, pending, vm>>
  BY DEF Already
<1>2. stack[t] # <<>> /\ Top(t).pc = "lock"
  BY <1>1, TopPoint
<1>3. \/ state[Top(t).k] = "fully_initialized"
      \/ state[Top(t).k] = "being_initialized" /\ init_thread[Top(t).k] = t
  BY DEF Already
<1> QED
  BY <1>1, <1>2, <1>3, QuietPop DEF Return

\* A call of initialize
LEMMA CallKeeps ==
  ASSUME NInv, Next, NEW t \in Threads, NEW k \in Classes, NEW here, stack[t] # <<>>,
         Mapped(here, stack[t], 1), here[1].pc \in {"super_done", "clinit"},
         here[1].pc = "super_done" => k = Super[here[1].k],
         here[1].pc = "clinit" => ReadyAt(stack[t], 1, state),
         stack[t][1].pc \in Section,
         Goto(t, CallInit(k, here)), UNCHANGED <<state, init_thread, pending, vm, returned>>,
         ~pending[t]
  PROVE  NInv'
<1>1. here[1].pc \in Section
  BY DEF Section
<1>2. stack[t] \in Seq(Frames)
  BY DEF NInv, IInv, Types
<1>3. here \in Seq(Frames) /\ Len(here) \in Nat /\ Len(here) >= 1
  <2>1. here \in Seq(Frames) /\ Len(here) = Len(stack[t]) + 1 - 1
    BY DEF Mapped
  <2> QED
    BY <2>1, <1>2
<1>4. CASE state[k] = "fully_initialized"
  <2>1. CallInit(k, here) = here
    BY <1>4 DEF CallInit
  <2>2. here[1].pc = "super_done" => ReadyAt(here, 1, state)
    BY <1>4 DEF ReadyAt
  <2> QED
    BY <2>1, <2>2, <1>1, QuietMove
<1>5. CASE state[k] # "fully_initialized"
  <2>1. PICK f \in Frames : f = Frame(k, "link") /\ f.k = k /\ f.pc = "link"
    <3>1. "link" \in Pcs
      BY DEF Pcs
    <3> QED
      BY <3>1, NewFrame
  <2>2. PICK new : new = <<f>> \o here
    OBVIOUS
  <2>3. CallInit(k, here) = new
    BY <1>5, <2>1, <2>2 DEF CallInit
  <2>4. Mapped(new, stack[t], 2) /\ new[1] = f /\ new[2] = here[1]
    BY <2>2, PushMapped
  <2> QED
    BY <2>1, <2>3, <2>4, <1>1, QuietMove
<1> QED
  BY <1>4, <1>5

LEMMA InitializeKeeps ==
  ASSUME NInv, Next, NEW t \in Threads, NEW k \in Classes, Initialize(t, k)
  PROVE  NInv'
<1>1. PICK f \in Frames : f = Frame(k, "link") /\ f.pc = "link"
  <2>1. "link" \in Pcs
    BY DEF Pcs
  <2> QED
    BY <2>1, NewFrame
<1>2. PICK new : new = <<f>> \o <<>>
  OBVIOUS
<1>3. Goto(t, new) /\ stack[t] = <<>>
  BY <1>1, <1>2 DEF Initialize, CallInit
<1>4. Mapped(new, stack[t], 2) /\ Len(new) = 1 /\ new[1] = f
  BY <1>2, <1>3, FirstMapped
<1>5. pending \in [Threads -> BOOLEAN]
  BY DEF NInv, IInv, Types
<1>6. ~pending'[t] /\ \A u \in Threads : u # t => pending'[u] = pending[u]
  BY <1>5 DEF Initialize
<1>7. UNCHANGED <<state, init_thread, vm, returned>>
  BY DEF Initialize
<1> QED
  BY <1>1, <1>3, <1>4, <1>6, <1>7, QuietMove

\* Steps 7 and 8
LEMMA SuperKeeps ==
  ASSUME NInv, Next, NEW t \in Threads, InitializeSuper(t)
  PROVE  NInv'
<1>1. At(t, "super") /\ UNCHANGED <<state, init_thread, pending, vm, returned>>
  BY DEF InitializeSuper, history
<1>2. /\ stack[t] # <<>> /\ Top(t) = stack[t][1] /\ Top(t).pc = "super" /\ Top(t).k \in Classes
      /\ ~pending[t]
  BY <1>1, TopPoint
<1>3. "super_done" \in Pcs /\ "super_done" \in Section /\ "super" \in Section
  BY DEF Pcs, Section
<1>4. PICK here : here = MoveTo(t, "super_done")
  OBVIOUS
<1>5. /\ Mapped(here, stack[t], 1) /\ here[1].pc = "super_done" /\ here[1].k = Top(t).k
  BY <1>2, <1>3, <1>4, MovedStack
<1>6. PICK sup \in Classes \cup {None} : sup = Super[Top(t).k]
  BY <1>2, ClassInitAssumption
<1>7. CASE sup = None
  <2>1. Goto(t, here)
    BY <1>4, <1>6, <1>7 DEF InitializeSuper
  <2>2. ReadyAt(here, 1, state)
    BY <1>5, <1>6, <1>7 DEF ReadyAt
  <2> QED
    BY <2>1, <2>2, <1>1, <1>2, <1>3, <1>5, QuietMove
<1>8. CASE sup # None
  <2>1. Goto(t, CallInit(sup, here)) /\ sup \in Classes
    BY <1>4, <1>6, <1>8 DEF InitializeSuper
  <2> QED
    BY <2>1, <1>1, <1>2, <1>3, <1>5, <1>6, CallKeeps
<1> QED
  BY <1>7, <1>8

\* The super class is initialised when step 7 is over: here the hierarchy must be one
\* without default methods
LEMMA SuperDoneKeeps ==
  ASSUME HasDefaults = {}, NInv, Next, NEW t \in Threads, SuperDone(t)
  PROVE  NInv'
<1>1. /\ At(t, "super_done") /\ ~pending[t]
      /\ UNCHANGED <<state, init_thread, pending, vm, returned>>
  BY DEF SuperDone, history
<1>2. /\ stack[t] # <<>> /\ Top(t) = stack[t][1] /\ Top(t).pc = "super_done"
      /\ 1 \in 1..Len(stack[t])
  BY <1>1, TopPoint
<1>3. "interfaces_done" \in Pcs /\ "interfaces_done" \in Section /\ "super_done" \in Section
  BY DEF Pcs, Section
<1>4. PICK new : new = MoveTo(t, "interfaces_done")
  OBVIOUS
<1>5. Mapped(new, stack[t], 1) /\ new[1].pc = "interfaces_done"
  BY <1>2, <1>3, <1>4, MovedStack
<1>6. Goto(t, new)
  BY <1>4 DEF SuperDone
<1>7. ReadyIn(stack[t], pending[t], state)
  BY DEF NInv, ThreadInv
<1>8. ReadyAt(stack[t], 1, state)
  BY <1>1, <1>2, <1>7 DEF ReadyIn
<1> QED
  BY <1>1, <1>2, <1>3, <1>5, <1>6, <1>8, QuietMove

LEMMA CallInitializerKeeps ==
  ASSUME NInv, Next, NEW t \in Threads, CallInitializer(t)
  PROVE  NInv'
<1>1. /\ At(t, "interfaces_done") /\ ~pending[t] /\ Goto(t, MoveTo(t, "clinit"))
      /\ UNCHANGED <<state, init_thread, pending, vm, returned>>
  BY DEF CallInitializer
<1>2. /\ stack[t] # <<>> /\ Top(t) = stack[t][1] /\ Top(t).pc = "interfaces_done"
      /\ 1 \in 1..Len(stack[t])
  BY <1>1, TopPoint
<1>3. "clinit" \in Pcs /\ "clinit" \in Section /\ "interfaces_done" \in Section
  BY DEF Pcs, Section
<1>4. PICK new : new = MoveTo(t, "clinit")
  OBVIOUS
<1>5. Mapped(new, stack[t], 1) /\ new[1].pc = "clinit"
  BY <1>2, <1>3, <1>4, MovedStack
<1>6. ReadyIn(stack[t], pending[t], state)
  BY DEF NInv, ThreadInv
<1>7. ReadyAt(stack[t], 1, state)
  BY <1>2, <1>6 DEF ReadyIn
<1> QED
  BY <1>1, <1>2, <1>3, <1>4, <1>5, <1>7, QuietMove

LEMMA UseKeeps ==
  ASSUME NInv, Next, NEW t \in Threads, UseClass(t)
  PROVE  NInv'
<1>1. /\ At(t, "clinit") /\ ~pending[t] /\ Top(t).i <= Len(Uses[Top(t).k])
      /\ Goto(t, CallInit(Uses[Top(t).k][Top(t).i], NextIn(t, "clinit")))
      /\ UNCHANGED <<state, init_thread, pending, vm, returned>>
  BY DEF UseClass, history
<1>2. /\ stack[t] # <<>> /\ Top(t) = stack[t][1] /\ Top(t).pc = "clinit"
      /\ 1 \in 1..Len(stack[t]) /\ Top(t) \in Frames /\ Top(t).k \in Classes
  BY <1>1, TopPoint
<1>3. "clinit" \in Pcs /\ "clinit" \in Section
  BY DEF Pcs, Section
<1>4. PICK here : here = NextIn(t, "clinit")
  OBVIOUS
<1>5. Mapped(here, stack[t], 1) /\ here[1].pc = "clinit"
  BY <1>2, <1>3, <1>4, MovedStack
<1>6. PICK k \in Classes : k = Uses[Top(t).k][Top(t).i]
  <2>1. Uses[Top(t).k] \in Seq(Classes) /\ Top(t).i \in Nat \ {0}
    BY <1>2, ClassInitAssumption DEF Frames
  <2> QED
    BY <2>1, <1>1
<1>7. ReadyIn(stack[t], pending[t], state)
  BY DEF NInv, ThreadInv
<1>8. ReadyAt(stack[t], 1, state)
  BY <1>2, <1>7 DEF ReadyIn
<1> QED
  BY <1>1, <1>2, <1>3, <1>4, <1>5, <1>6, <1>8, CallKeeps

\* The super class failed; steps 9 to 11
LEMMA EndsKeep ==
  ASSUME NInv, Next, NEW t \in Threads, SuperFailed(t) \/ Initialized(t) \/ InitializerThrew(t)
  PROVE  NInv'
<1>1. PICK l \in {"super_done", "clinit"} : At(t, l)
  BY DEF SuperFailed, Initialized, InitializerThrew
<1>2. stack[t] # <<>> /\ Top(t).pc \in Section /\ Top(t).k \in Classes
  BY <1>1, TopPoint DEF Section
<1>3. PICK k \in Classes : k = Top(t).k
  BY <1>2
<1>4. CASE Initialized(t)
  BY <1>2, <1>3, <1>4, EndKeeps DEF Initialized
<1>5. CASE SuperFailed(t)
  BY <1>2, <1>3, <1>5, EndKeeps DEF SuperFailed, history
<1>6. CASE InitializerThrew(t)
  BY <1>2, <1>3, <1>6, EndKeeps DEF InitializerThrew, history
<1> QED
  BY <1>4, <1>5, <1>6

\* initialize_super_interfaces is not called, and there is no exception after it
LEMMA NoInterfaces ==
  ASSUME NInv, NEW t \in Threads
  PROVE  ~(\/ InterfaceLoop(t) \/ InterfaceInit(t) \/ InterfaceDone(t) \/ InterfaceFailed(t)
           \/ InterfacesFailed(t))
<1>1. ~At(t, "loop") /\ ~At(t, "supers_done") /\ ~At(t, "interface_done")
  BY TopPoint DEF Section
<1>2. ~(At(t, "interfaces_done") /\ pending[t])
  BY TopPoint
<1> QED
  BY <1>1, <1>2
     DEF InterfaceLoop, InterfaceInit, InterfaceDone, InterfaceFailed, InterfacesFailed

LEMMA InitiallyReady == Init => NInv
<1> SUFFICES ASSUME Init PROVE NInv
  OBVIOUS
<1>1. IInv
  BY Initially
<1>2. vm = "running" /\ \A k \in Classes : state[k] = "loaded"
  BY DEF Init
<1>3. \A t \in Threads : stack[t] = <<>> /\ returned[t] = {} /\ Len(stack[t]) = 0
  BY DEF Init
<1>4. ASSUME NEW t \in Threads PROVE ThreadInv(t)
  BY <1>2, <1>3 DEF ThreadInv, HeldBy, HasFrames, CallsIn, TestedIn, ReadyIn, UsableBy
<1> QED
  BY <1>1, <1>2, <1>4 DEF NInv

LEMMA ReadyInductive ==
  ASSUME HasDefaults = {}
  PROVE  NInv /\ [Next]_vars => NInv'
<1> SUFFICES ASSUME NInv, [Next]_vars PROVE NInv'
  OBVIOUS
<1>1. CASE Next
  <2>1. ASSUME NEW t \in Threads, Step(t) PROVE NInv'
    BY <1>1, <2>1, LinkKeeps, LockKeeps, ThrowKeeps, AlreadyKeeps, BeginKeeps, SuperKeeps,
       SuperDoneKeeps, CallInitializerKeeps, UseKeeps, EndsKeep, NoInterfaces DEF Step
  <2>2. ASSUME NEW t \in Threads, NEW k \in Classes, Initialize(t, k) PROVE NInv'
    BY <1>1, <2>2, InitializeKeeps
  <2> QED
    BY <1>1, <2>1, <2>2 DEF Next
<1>2. CASE UNCHANGED vars
  <2>1. IInv'
    BY Inductive DEF NInv
  <2>2. \A t \in Threads : ThreadInv(t)'
    BY <1>2 DEF NInv, ThreadInv, vars
  <2> QED
    BY <1>2, <2>1, <2>2 DEF NInv, vars
<1> QED
  BY <1>1, <1>2

\* The second invariant holds of every state, for every hierarchy without default methods
THEOREM InvarianceWithoutDefaults ==
  ASSUME HasDefaults = {}
  PROVE  Spec => []NInv
BY InitiallyReady, ReadyInductive, PTL DEF Spec

\* A thread that initialize has returned to may use the class: it is initialised, or this
\* thread is at it
THEOREM ReturnedSafe ==
  ASSUME HasDefaults = {}
  PROVE  Spec => []UsableWhenReturned
<1>1. NInv => UsableWhenReturned
  BY DEF NInv, ThreadInv, UsableBy, UsableWhenReturned
<1> QED
  BY <1>1, InvarianceWithoutDefaults, PTL

\* A static initialiser runs only when the super class is initialised, or when the same
\* thread is initialising it
THEOREM SuperClassesFirst ==
  ASSUME HasDefaults = {}
  PROVE  Spec => []SupersFirst
<1>1. ASSUME NInv PROVE SupersFirst
  <2> SUFFICES ASSUME NEW t \in Threads, NEW n \in 1..Len(stack[t]), stack[t][n].pc = "clinit",
                      NEW p \in Parents(stack[t][n].k), p = Super[stack[t][n].k] \/ p \in Declares
               PROVE  \/ state[p] = "fully_initialized"
                      \/ state[p] = "being_initialized" /\ init_thread[p] = t
    <3>1. \A t \in Threads : stack[t] \in Seq(Frames)
      BY <1>1 DEF NInv, IInv, Types
    <3>2. \A t \in Threads : DOMAIN stack[t] = 1..Len(stack[t])
      BY <3>1
    <3> QED
      BY <3>2 DEF SupersFirst, Elements
  <2>1. Declares = {}
    BY ClassInitAssumption
  <2>2. stack[t] \in Seq(Frames) /\ ReadyIn(stack[t], pending[t], state)
        /\ HeldBy(t, stack[t], state, init_thread)
    BY <1>1 DEF NInv, IInv, Types, ThreadInv
  <2>3. ReadyAt(stack[t], n, state)
    BY <2>2 DEF ReadyIn
  <2>4. p # None
    <3>1. stack[t][n] \in Frames
      BY <2>2
    <3>2. stack[t][n].k \in Classes
      BY <3>1 DEF Frames
    <3>3. PICK q \in Seq(Classes) : q = Interfaces[stack[t][n].k]
      BY <3>2, ClassInitAssumption
    <3>4. Elements(q) \subseteq Classes /\ None \notin Classes
      BY ClassInitAssumption DEF Elements
    <3> QED
      BY <3>3, <3>4 DEF Parents
  <2> QED
    BY <2>1, <2>2, <2>3, <2>4 DEF ReadyAt, InitIn, HeldBy
<1> QED
  BY <1>1, InvarianceWithoutDefaults, PTL

\* The assertion "illegal state transition" of set_init_state holds, and no class is given
\* its last state twice, so that nobody notifies an init_lock that was cleared
THEOREM TransitionsLegal ==
  ASSUME HasDefaults = {}
  PROVE  Spec => [](LegalTransitions /\ ClearedLockUnused)
<1>1. NInv => LegalTransitions /\ ClearedLockUnused
  BY DEF NInv, LegalTransitions, ClearedLockUnused
<1> QED
  BY <1>1, InvarianceWithoutDefaults, PTL
=============================================================================
