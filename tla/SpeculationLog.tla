--------------------------- MODULE SpeculationLog ---------------------------
(***************************************************************************)
(* The speculation log of a Java method compiled by a JVMCI compiler.      *)
(*                                                                         *)
(* A compilation asks the log whether it may rely on a reason, registers   *)
(* the reasons it relies on and embeds them in the code.  When one turns   *)
(* out to be wrong, the thread that runs the code is deoptimized, and the  *)
(* VM stores the reason in the log's one field lastFailed, without the     *)
(* log's monitor.  The next compilation collects it.  The objects embedded *)
(* in code are weak references: the log holds the strong ones.             *)
(***************************************************************************)
EXTENDS Naturals, FiniteSets

CONSTANTS Reasons,    \* the SpeculationReasons a compiler may use
          Wrong,      \* those that can fail when the code runs
          Compilers,  \* compilations of this method that run at a time
          Runners,    \* threads that run the code
          None

\* A compilation's locals, the code, an activation of it
CompType == [pc : {"idle", "add", "reset", "compile", "speculate", "make", "register"},
             ask : SUBSET Reasons, reason : Reasons \cup {None},
             reasons : SUBSET Reasons, since : SUBSET Reasons, dropped : BOOLEAN]
CodeType == [reasons : SUBSET Reasons, log : BOOLEAN, dropped : BOOLEAN]
ActType == [reasons : SUBSET Reasons, log : BOOLEAN, dropped : BOOLEAN,
            current : BOOLEAN, trapped : BOOLEAN]

SpeculationConstants ==
    /\ IsFiniteSet(Reasons) /\ Wrong \subseteq Reasons
    /\ None \notin Reasons \cup Compilers \cup Runners
    /\ None \notin ActType /\ \A S \in SUBSET Reasons : S # None

ASSUME SpeculationAssumption == SpeculationConstants

VARIABLES
    lastFailed, failedSpeculations, speculations,  \* HotSpotSpeculationLog
    monitor,    \* the compilation inside one of its synchronized methods
    comp,       \* per compilation: program counter and locals
    code,       \* the code calls enter: its reasons and whether it has the log
    running,    \* per thread: the activation it runs; current: of that code
    pending,    \* per thread: _pending_failed_speculation
    recorded    \* history: the reasons that were stored in lastFailed

log == <<lastFailed, failedSpeculations, speculations>>
run == <<code, running, pending, recorded>>
logVars == <<lastFailed, failedSpeculations, speculations, monitor, comp, code, running, pending,
          recorded>>

\* since and dropped are history: the failures stored before it began; whether
\* another compilation has dropped the collection it had registered in
Idle == [pc |-> "idle", ask |-> {}, reason |-> None, reasons |-> {}, since |-> {},
         dropped |-> FALSE]

LogInit ==
    /\ lastFailed = None
    /\ failedSpeculations = {}
    /\ speculations = None
    /\ monitor = None
    /\ comp = [c \in Compilers |-> Idle]
    /\ code = None
    /\ running = [t \in Runners |-> None]
    /\ pending = [t \in Runners |-> None]
    /\ recorded = {}

At(c, l) == comp[c].pc = l
Goto(c, l) == comp' = [comp EXCEPT ![c].pc = l]

-----------------------------------------------------------------------------
(* collectFailedSpeculations, synchronized: lastFailed is read twice       *)

StartCompilation(c) ==
    /\ At(c, "idle")
    /\ monitor = None
    /\ comp' = [comp EXCEPT ![c] = [Idle EXCEPT
                   !.pc = IF lastFailed = None THEN "compile" ELSE "add",
                   !.ask = Reasons, !.since = recorded]]
    /\ monitor' = IF lastFailed = None THEN None ELSE c
    /\ UNCHANGED <<log, run>>

\* Mutant: the set is made anew every time
CollectAddOnly(c) ==
    /\ At(c, "add")
    /\ failedSpeculations' = {lastFailed}
    /\ Goto(c, "reset")
    /\ UNCHANGED <<lastFailed, speculations, monitor, run>>

CollectAdd(c) ==
    /\ At(c, "add")
    /\ failedSpeculations' = failedSpeculations \cup {lastFailed}
    /\ Goto(c, "reset")
    /\ UNCHANGED <<lastFailed, speculations, monitor, run>>

\* The collection is dropped, with the reasons of other compilations in it
CollectReset(c) ==
    /\ At(c, "reset")
    /\ lastFailed' = None
    /\ speculations' = None
    /\ monitor' = None
    /\ comp' = [d \in Compilers |->
                   IF d = c THEN [comp[d] EXCEPT !.pc = "compile"]
                   ELSE [comp[d] EXCEPT !.dropped = @ \/ comp[d].reasons # {}]]
    /\ UNCHANGED <<failedSpeculations, run>>

-----------------------------------------------------------------------------
(* The compilation                                                         *)

\* maySpeculate, synchronized; the compiler asks in any order
MaySpeculate(c, r) ==
    /\ At(c, "compile")
    /\ monitor = None
    /\ r \in comp[c].ask
    /\ comp' = IF r \in failedSpeculations
               THEN [comp EXCEPT ![c].ask = @ \ {r}]
               ELSE [comp EXCEPT ![c].ask = @ \ {r}, ![c].pc = "speculate", ![c].reason = r]
    /\ UNCHANGED <<log, monitor, run>>

\* speculate: is there a collection?  This is read outside the monitor
ReadSpeculations(c) ==
    /\ At(c, "speculate")
    /\ Goto(c, IF speculations = None THEN "make" ELSE "register")
    /\ UNCHANGED <<log, monitor, run>>

\* Mutant: inside the monitor the field is not read again
MakeSpeculationsAnyway(c) ==
    /\ At(c, "make")
    /\ monitor = None
    /\ speculations' = {}
    /\ Goto(c, "register")
    /\ UNCHANGED <<lastFailed, failedSpeculations, monitor, run>>

\* The collection is made, inside the monitor, if there still is none
MakeSpeculations(c) ==
    /\ At(c, "make")
    /\ monitor = None
    /\ speculations' = IF speculations = None THEN {} ELSE speculations
    /\ Goto(c, "register")
    /\ UNCHANGED <<lastFailed, failedSpeculations, monitor, run>>

Registered(c) ==
    comp' = [comp EXCEPT ![c].pc = "compile", ![c].reason = None,
                         ![c].reasons = @ \cup {comp[c].reason}]

\* The reason is added; the field is read again, outside the monitor, and
\* another compilation may have reset it: the compilation fails
Register(c) ==
    /\ At(c, "register")
    /\ IF speculations # None
       THEN speculations' = speculations \cup {comp[c].reason} /\ Registered(c)
       ELSE comp' = [comp EXCEPT ![c] = Idle] /\ UNCHANGED speculations
    /\ UNCHANGED <<lastFailed, failedSpeculations, monitor, run>>

Bailout(c) ==
    /\ At(c, "compile")
    /\ comp' = [comp EXCEPT ![c] = Idle]
    /\ UNCHANGED <<log, monitor, run>>

NotCurrent(t) == IF running[t] = None THEN None ELSE [running[t] EXCEPT !.current = FALSE]

\* installCode: the log is passed on if it has speculations
Install(c) ==
    /\ At(c, "compile")
    /\ monitor = None
    /\ code' = [reasons |-> comp[c].reasons,
                log |-> speculations # None /\ speculations # {},
                dropped |-> comp[c].dropped]
    /\ running' = [t \in Runners |-> NotCurrent(t)]
    /\ comp' = [comp EXCEPT ![c] = Idle]
    /\ UNCHANGED <<log, monitor, pending, recorded>>

-----------------------------------------------------------------------------
(* Running code, deoptimization, unloading                                 *)

Call(t) ==
    /\ running[t] = None
    /\ code # None
    /\ running' = [running EXCEPT ![t] = [reasons |-> code.reasons, log |-> code.log,
                                  dropped |-> code.dropped, current |-> TRUE, trapped |-> FALSE]]
    /\ UNCHANGED <<log, monitor, comp, code, pending, recorded>>

Runs(t) == running[t] # None /\ pending[t] = None /\ ~ running[t].trapped

Leave(t) ==
    /\ Runs(t)
    /\ running' = [running EXCEPT ![t] = None]
    /\ UNCHANGED <<log, monitor, comp, code, pending, recorded>>

\* Compiled code sees that reason r is wrong and calls the uncommon trap
Fail(t) ==
    /\ Runs(t)
    /\ \E r \in running[t].reasons \cap Wrong : pending' = [pending EXCEPT ![t] = r]
    /\ UNCHANGED <<log, monitor, comp, code, running, recorded>>

\* uncommon_trap_inner stores it in the log, over what was there
RecordFailure(t) ==
    /\ pending[t] # None
    /\ lastFailed' = IF running[t].log THEN pending[t] ELSE lastFailed
    /\ recorded' = IF running[t].log THEN recorded \cup {pending[t]} ELSE recorded
    /\ pending' = [pending EXCEPT ![t] = None]
    /\ running' = [running EXCEPT ![t].trapped = TRUE]
    /\ UNCHANGED <<failedSpeculations, speculations, monitor, comp, code>>

\* Then the code is made not entrant, or kept (Action_none), and the thread
\* goes on in the interpreter
UncommonTrap(t) ==
    /\ running[t] # None
    /\ running[t].trapped
    /\ \/ /\ running[t].current
          /\ code' = None
          /\ running' = [u \in Runners |-> IF u = t THEN None ELSE NotCurrent(u)]
       \/ /\ running' = [running EXCEPT ![t] = None]
          /\ UNCHANGED code
    /\ UNCHANGED <<log, monitor, comp, pending, recorded>>

Optional(x) == IF x = None THEN {} ELSE x

\* What the collector finds strongly reachable
Reachable ==
    Optional(speculations) \cup failedSpeculations \cup ({lastFailed} \ {None})
        \cup UNION {comp[c].reasons \cup ({comp[c].reason} \ {None}) : c \in Compilers}
        \cup UNION {IF running[t] = None THEN {} ELSE running[t].reasons : t \in Runners}

\* nmethod::do_unloading: code with a dead object is unloaded
Unload ==
    /\ code # None
    /\ ~ (code.reasons \subseteq Reachable)
    /\ code' = None
    /\ UNCHANGED <<log, monitor, comp, running, pending, recorded>>

-----------------------------------------------------------------------------
Compile(c) ==
    \/ CollectAdd(c) \/ CollectReset(c)
    \/ ReadSpeculations(c) \/ MakeSpeculations(c) \/ Register(c)

LogNext ==
    \/ \E c \in Compilers :
          \/ StartCompilation(c) \/ Compile(c) \/ Bailout(c) \/ Install(c)
          \/ \E r \in Reasons : MaySpeculate(c, r)
    \/ \E t \in Runners : Call(t) \/ Leave(t) \/ Fail(t) \/ RecordFailure(t) \/ UncommonTrap(t)
    \/ Unload

LogSpec == LogInit /\ [][LogNext]_logVars

\* A thread that has trapped goes on
FairLogSpec == LogSpec /\ \A t \in Runners : WF_logVars(RecordFailure(t))

-----------------------------------------------------------------------------
(* Properties                                                              *)

\* Every variable has its type
LogTypeOK ==
    /\ lastFailed \in Reasons \cup {None}
    /\ failedSpeculations \subseteq Reasons
    /\ speculations \in (SUBSET Reasons) \cup {None}
    /\ monitor \in Compilers \cup {None}
    /\ comp \in [Compilers -> CompType]
    /\ code \in CodeType \cup {None}
    /\ running \in [Runners -> ActType \cup {None}]
    /\ pending \in [Runners -> Reasons \cup {None}]
    /\ recorded \subseteq Reasons

\* A failure is lost for want of a log ("Speculation present but no speculation
\* log", deoptimization.cpp:1532) only if another compilation has collected a
\* failure after this one registered a reason and before its code was installed:
\* however else compilations meet in speculate, collectFailedSpeculations and
\* hasSpeculations (HotSpotCodeCacheProvider.java:115), the code has the log
LogAttached == \A t \in Runners : pending[t] # None => running[t].log \/ running[t].dropped

\* HotSpotSpeculationLog.java:41: the field speculations holds "Strong references
\* to all reasons embedded in the current nmethod"
ReasonsHeld == code # None => code.reasons \subseteq Optional(speculations)

\* If the method is compiled again and again, failed speculations cease, although
\* lastFailed holds only one of them and is reset under the writer's hands
\* (deoptimization.cpp:1529, HotSpotSpeculationLog.java:46)
DeoptimizationsEnd ==
    []<><<\E c \in Compilers : Install(c)>>_logVars => <>[](\A t \in Runners : pending[t] = None)

\* A compilation does not rely on a reason whose failure was stored before it
\* began (SpeculationLog.java:27, "Subsequent compilations then should not
\* speculate again on such invalidated reasons")
NotSpeculatedAgain == \A c \in Compilers : comp[c].reasons \cap comp[c].since = {}
=============================================================================
