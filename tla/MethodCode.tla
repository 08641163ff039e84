----------------------------- MODULE MethodCode -----------------------------
(***************************************************************************)
(* The entry points of a Java method and the calls bound to them.  A       *)
(* Method has three words, _code, _from_compiled_entry and                 *)
(* _from_interpreted_entry.  Installation writes them under Compile_lock,  *)
(* make_not_entrant and make_zombie clear them under Patching_lock, and    *)
(* nothing excludes one from the other.                                    *)
(*                                                                         *)
(* There is one Method; the slots of the code cache hold its versions.     *)
(* One compiled caller, always alive, has a call site for the method and   *)
(* is the last nmethod that a sweep visits.  Activations are left out:     *)
(* they only keep code longer.                                             *)
(***************************************************************************)
EXTENDS Naturals

CONSTANTS N,            \* capacity of the code cache
          Threads,      \* threads that install, deoptimize and resolve
          CommandLines  \* tiered: -XX:+TieredCompilation; unloading: collections unload
                        \* code (ScavengeRootsInCode, class unloading)

ASSUME MethodCodeAssumption ==
    /\ N \in Nat \ {0}
    /\ CommandLines \subseteq [tiered : BOOLEAN, unloading : BOOLEAN]
    /\ "sweeper" \notin Threads

Slots == 1..N
NULL == 0
C2I == N + 1    \* as a call target: the interpreter, through an adapter

VARIABLES
    state,      \* _state of every nmethod
    age,        \* stack traversals since it became not entrant, up to 2
    reclaim,    \* zombies marked for reclamation
    owner,      \* nmethods whose _method is not NULL
    code,       \* Method::_code
    fce,        \* Method::_from_compiled_entry: an nmethod, or NULL for c2i
    fie,        \* Method::_from_interpreted_entry: "i2c" or "i2i"
    site,       \* what the call site is bound to, or NULL
    pinned,     \* the callee was locked when the site was bound
    cursor,     \* the nmethod the sweeper visits; 0: none, N + 1: the caller
    flags,      \* the command line
    th          \* per thread, and for the sweeper: program counter and locals

vars == <<state, age, reclaim, owner, code, fce, fie, site, pinned, cursor, flags, th>>
codeVars == <<state, age, reclaim, owner>>
methodVars == <<code, fce, fie>>

Procs == Threads \cup {"sweeper"}

\* new: the nmethod being installed; nm: the one being made not entrant or
\* locked as callee; to: the call target computed by a resolution
idle == [pc |-> "idle", new |-> NULL, nm |-> NULL, to |-> NULL]

Alive(n) == state[n] \in {"in_use", "not_entrant"}
InUse(n) == n # NULL /\ state[n] = "in_use"

CompileLocked == \E t \in Threads : th[t].new # NULL
PatchingLocked == \E p \in Procs : th[p].pc \in {"clear1", "clear2", "clear3"}
Locked(n) == \E t \in Threads : th[t].nm = n

\* Threads that are blocked, or out of the VM
AtSafepoint == \A p \in Procs : th[p].pc \in {"idle", "bind"}

Init ==
    /\ state = [n \in Slots |-> "free"]
    /\ age = [n \in Slots |-> 0]
    /\ reclaim = {}
    /\ owner = {}
    /\ code = NULL
    /\ fce = NULL
    /\ fie = "i2i"
    /\ site = NULL
    /\ pinned = FALSE
    /\ cursor = 0
    /\ flags \in CommandLines
    /\ th = [p \in Procs |-> idle]

-----------------------------------------------------------------------------
(* nmethod::make_not_entrant_or_zombie and Method::clear_code              *)

\* What a thread does after it has made code not entrant
After(p) == IF th[p].new = NULL THEN idle ELSE [th[p] EXCEPT !.pc = "set1", !.nm = NULL]

\* Mutant: only _code is compared
RefersOnlyCode(n) == code = n

\* method()->code() == this || from_compiled_entry() == verified_entry_point()
Refers(n) == code = n \/ fce = n

\* Patching_lock is taken and the state changes; the Method is cleared next if
\* it refers to n
MakeNotEntrant(p) ==
    LET n == th[p].nm IN
    /\ th[p].pc = "not_entrant"
    /\ ~PatchingLocked
    /\ IF state[n] = "in_use"
       THEN /\ state' = [state EXCEPT ![n] = "not_entrant"]
            /\ age' = [age EXCEPT ![n] = 0]
            /\ th' = [th EXCEPT ![p] = IF Refers(n) THEN [@ EXCEPT !.pc = "clear1"]
                                       ELSE After(p)]
       ELSE UNCHANGED <<state, age>> /\ th' = [th EXCEPT ![p] = After(p)]
    /\ UNCHANGED <<reclaim, owner, methodVars, site, pinned, cursor, flags>>

\* Mutant: clear_code resets _code first
ClearCodeFirst(p) ==
    /\ \/ /\ th[p].pc = "clear1" /\ code' = NULL /\ UNCHANGED <<fce, fie>>
          /\ th' = [th EXCEPT ![p].pc = "clear2"]
       \/ /\ th[p].pc = "clear2" /\ fie' = "i2i" /\ UNCHANGED <<code, fce>>
          /\ th' = [th EXCEPT ![p].pc = "clear3"]
       \/ /\ th[p].pc = "clear3" /\ fce' = NULL /\ UNCHANGED <<code, fie>>
          /\ th' = [th EXCEPT ![p] = After(p)]
    /\ UNCHANGED <<codeVars, site, pinned, cursor, flags>>

\* Method::clear_code: three stores, in this order
ClearCode(p) ==
    /\ \/ /\ th[p].pc = "clear1" /\ fce' = NULL /\ UNCHANGED <<code, fie>>
          /\ th' = [th EXCEPT ![p].pc = "clear2"]
       \/ /\ th[p].pc = "clear2" /\ fie' = "i2i" /\ UNCHANGED <<code, fce>>
          /\ th' = [th EXCEPT ![p].pc = "clear3"]
       \/ /\ th[p].pc = "clear3" /\ code' = NULL /\ UNCHANGED <<fce, fie>>
          /\ th' = [th EXCEPT ![p] = After(p)]
    /\ UNCHANGED <<codeVars, site, pinned, cursor, flags>>

\* reprofile reads _code; an uncommon trap, or the sweeper for cold code,
\* names code that has run
Deoptimize(t, n) ==
    /\ th[t] = idle
    /\ state[n] = "in_use"
    /\ code = n \/ \A u \in Threads : th[u].new # n
    /\ th' = [th EXCEPT ![t] = [idle EXCEPT !.pc = "not_entrant", !.nm = n]]
    /\ UNCHANGED <<codeVars, methodVars, site, pinned, cursor, flags>>

-----------------------------------------------------------------------------
(* JVMCIEnv::register_method and Method::set_code, under Compile_lock      *)

\* The new code has a slot; tiered compilation first makes the old code not
\* entrant
RegisterMethod(t, n) ==
    /\ th[t] = idle
    /\ ~CompileLocked
    /\ state[n] = "free"
    /\ state' = [state EXCEPT ![n] = "in_use"]
    /\ owner' = owner \cup {n}
    /\ th' = [th EXCEPT ![t] = IF flags.tiered /\ code # NULL
                               THEN [idle EXCEPT !.pc = "not_entrant", !.new = n, !.nm = code]
                               ELSE [idle EXCEPT !.pc = "set1", !.new = n]]
    /\ UNCHANGED <<age, reclaim, methodVars, site, pinned, cursor, flags>>

\* Method::set_code: three stores, in this order
SetCode(t) ==
    /\ \/ /\ th[t].pc = "set1" /\ code' = th[t].new /\ UNCHANGED <<fce, fie>>
          /\ th' = [th EXCEPT ![t].pc = "set2"]
       \/ /\ th[t].pc = "set2" /\ fce' = th[t].new /\ UNCHANGED <<code, fie>>
          /\ th' = [th EXCEPT ![t].pc = "set3"]
       \/ /\ th[t].pc = "set3" /\ fie' = "i2c" /\ UNCHANGED <<code, fce>>
          /\ th' = [th EXCEPT ![t] = idle]
    /\ UNCHANGED <<codeVars, site, pinned, cursor, flags>>

-----------------------------------------------------------------------------
(* SharedRuntime::resolve_sub_helper                                       *)

\* callee_nm is read and locked, if it is in use
ResolveCallee(t) ==
    /\ th[t] = idle
    /\ th' = [th EXCEPT ![t] = [idle EXCEPT !.pc = "entry",
                                            !.nm = IF InUse(code) THEN code ELSE NULL]]
    /\ UNCHANGED <<codeVars, methodVars, site, pinned, cursor, flags>>

\* compute_monomorphic_entry and compute_entry read _code a second time
ResolveEntry(t) ==
    /\ th[t].pc = "entry"
    /\ th' = [th EXCEPT ![t] = [@ EXCEPT !.pc = "bind",
                                         !.to = IF InUse(code) THEN code ELSE C2I]]
    /\ UNCHANGED <<codeVars, methodVars, site, pinned, cursor, flags>>

\* Mutant: the callee is not checked again under the lock
StillCurrentUnchecked(n) == TRUE

\* The callee was not compiled, or it is still the Method's code and in use
StillCurrent(n) == n = NULL \/ (InUse(n) /\ code = n)

\* CompiledIC_lock is taken, maybe after safepoints
ResolveBind(t) ==
    LET l == th[t] IN
    /\ l.pc = "bind"
    /\ IF StillCurrent(l.nm) /\ site = NULL
       THEN site' = l.to /\ pinned' = (l.nm # NULL)
       ELSE UNCHANGED <<site, pinned>>
    /\ th' = [th EXCEPT ![t] = idle]
    /\ UNCHANGED <<codeVars, methodVars, cursor, flags>>

-----------------------------------------------------------------------------
(* Safepoints and the sweeper, as in NMethodSweeper                        *)

\* A new sweep starts: no code has activations
StartSweep ==
    /\ AtSafepoint
    /\ cursor = 0
    /\ age' = [n \in Slots |-> IF state[n] # "not_entrant" THEN 0
                               ELSE IF age[n] = 0 THEN 1 ELSE 2]
    /\ cursor' = 1
    /\ UNCHANGED <<state, reclaim, owner, methodVars, site, pinned, th, flags>>

\* cleanup_inline_caches of the caller, when the states are st and _code is c
CleanedSite(st, c) ==
    IF site \in Slots /\ st[site] # "free" /\ (st[site] # "in_use" \/ c # site)
    THEN NULL ELSE site

\* Mutant: _method is not reset
MakeUnloadedKeepsMethod(n) ==
    /\ flags.unloading
    /\ AtSafepoint
    /\ Alive(n)
    /\ state' = [state EXCEPT ![n] = "unloaded"]
    /\ UNCHANGED owner
    /\ IF code = n THEN code' = NULL /\ fce' = NULL /\ fie' = "i2i"
       ELSE UNCHANGED methodVars
    /\ site' = IF state[n] = "in_use" THEN CleanedSite(state', code') ELSE site
    /\ UNCHANGED <<age, reclaim, pinned, cursor, th, flags>>

\* Mutant: the Method is not cleared
MakeUnloadedKeepsCode(n) ==
    /\ flags.unloading
    /\ AtSafepoint
    /\ Alive(n)
    /\ state' = [state EXCEPT ![n] = "unloaded"]
    /\ owner' = owner \ {n}
    /\ UNCHANGED methodVars
    /\ site' = IF state[n] = "in_use" THEN CleanedSite(state', code') ELSE site
    /\ UNCHANGED <<age, reclaim, pinned, cursor, th, flags>>

\* nmethod::make_unloaded clears the Method only if _code refers to n; unloading
\* code in use has gc_epilogue clean all call sites
MakeUnloaded(n) ==
    /\ flags.unloading
    /\ AtSafepoint
    /\ Alive(n)
    /\ state' = [state EXCEPT ![n] = "unloaded"]
    /\ owner' = owner \ {n}
    /\ IF code = n THEN code' = NULL /\ fce' = NULL /\ fie' = "i2i"
       ELSE UNCHANGED methodVars
    /\ site' = IF state[n] = "in_use" THEN CleanedSite(state', code') ELSE site
    /\ UNCHANGED <<age, reclaim, pinned, cursor, th, flags>>

\* The sweeper visits nmethod cursor.  make_zombie clears the Method like
\* make_not_entrant, unless the nmethod has lost its Method
SweepVisit ==
    LET n == cursor IN
    /\ n \in Slots
    /\ th["sweeper"] = idle
    /\ cursor' = n + 1
    /\ \/ /\ state[n] = "zombie" /\ ~Locked(n)
          /\ IF n \in reclaim
             THEN /\ state' = [state EXCEPT ![n] = "free"]
                  /\ reclaim' = reclaim \ {n}
             ELSE UNCHANGED state /\ reclaim' = reclaim \cup {n}
          /\ UNCHANGED <<age, owner, th>>
       \/ /\ ~Locked(n)
          /\ state[n] = "unloaded" \/ (state[n] = "not_entrant" /\ age[n] = 2)
          /\ ~PatchingLocked
          /\ state' = [state EXCEPT ![n] = "zombie"]
          /\ age' = [age EXCEPT ![n] = 0]
          /\ owner' = owner \ {n}
          /\ th' = [th EXCEPT !["sweeper"] = IF n \in owner /\ Refers(n)
                                             THEN [idle EXCEPT !.pc = "clear1"] ELSE idle]
          /\ UNCHANGED reclaim
       \/ /\ \/ state[n] \in {"free", "in_use"} \/ Locked(n)
             \/ state[n] = "not_entrant" /\ age[n] # 2
          /\ UNCHANGED <<codeVars, th>>
    /\ UNCHANGED <<methodVars, site, pinned, flags>>

\* The sweeper cleans the caller's site (cleanup_inline_caches)
SweepCaller ==
    /\ cursor = N + 1
    /\ th["sweeper"] = idle
    /\ site' = CleanedSite(state, code)
    /\ cursor' = 0
    /\ UNCHANGED <<codeVars, methodVars, pinned, th, flags>>

\* reresolve_call_site: the call turned out to be wrong
CleanSite ==
    /\ site # NULL
    /\ site' = NULL
    /\ UNCHANGED <<codeVars, methodVars, pinned, cursor, th, flags>>

-----------------------------------------------------------------------------
Install(t) == (\E n \in Slots : RegisterMethod(t, n)) \/ SetCode(t)
Resolve(t) == ResolveCallee(t) \/ ResolveEntry(t) \/ ResolveBind(t)
Sweep == StartSweep \/ SweepVisit \/ SweepCaller

Next ==
    \/ \E p \in Procs : ClearCode(p)
    \/ \E t \in Threads : Install(t) \/ Resolve(t) \/ MakeNotEntrant(t)
                             \/ \E n \in Slots : Deoptimize(t, n)
    \/ \E n \in Slots : MakeUnloaded(n)
    \/ Sweep
    \/ CleanSite

Spec == Init /\ [][Next]_vars

-----------------------------------------------------------------------------
(* Properties                                                              *)

Locals == [pc : {"idle", "not_entrant", "clear1", "clear2", "clear3",
                 "set1", "set2", "set3", "entry", "bind"},
           new : Slots \cup {NULL}, nm : Slots \cup {NULL}, to : Slots \cup {NULL, C2I}]

\* Every variable has its type, and a zombie belongs to no Method
TypeOK ==
    /\ state \in [Slots -> {"free", "in_use", "not_entrant", "zombie", "unloaded"}]
    /\ age \in [Slots -> 0..2]
    /\ reclaim \subseteq {n \in Slots : state[n] = "zombie"}
    /\ owner = {n \in Slots : Alive(n)}
    /\ code \in Slots \cup {NULL}
    /\ fce \in Slots \cup {NULL}
    /\ fie \in {"i2c", "i2i"}
    /\ site \in Slots \cup {NULL, C2I}
    /\ pinned \in BOOLEAN
    /\ cursor \in 0..(N + 1)
    /\ flags \in CommandLines
    /\ th \in [Procs -> Locals]

\* When no thread is inside set_code or clear_code, the code a Method names is
\* the code that calls of it enter: no interleaving of the two loses the entry
\* points of installed code (set_code: "These writes must happen in this order")
CodeIsEntered ==
    (\A p \in Procs : th[p].pc \in {"idle", "not_entrant", "entry", "bind"} /\ th[p].new = NULL)
        => (code # NULL => fce = code /\ fie = "i2c")

\* Method::_code never refers to reclaimed code
CodeNotFlushed == code # NULL => state[code] # "free"

\* Compiled callers and vtable stubs never call through _from_compiled_entry
\* into reclaimed code (the comment in make_not_entrant_or_zombie); it can happen
\* if make_unloaded, which compares _code only, meets a Method that set_code and
\* clear_code have left with an entry and no code
EntryNotFlushedEver == fce # NULL => state[fce] # "free"

\* make_not_entrant and make_zombie compare both words: if code is not unloaded,
\* compiled callers never call through _from_compiled_entry into reclaimed code
EntryNotFlushed == ~flags.unloading => EntryNotFlushedEver

\* A call site that was bound while its callee was locked is not left bound to
\* reclaimed code
PinnedSiteNotFlushed == pinned /\ site \in Slots => state[site] # "free"

\* resolve_sub_helper makes sure the callee is not removed before the call site
\* is patched: no call site is bound to reclaimed code
SiteNotFlushed == site \in Slots => state[site] # "free"
=============================================================================
