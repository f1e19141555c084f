------------------------------ MODULE TickGate ------------------------------
(***************************************************************************)
(* How the hub coalesces automation ticks.  AutoRunScheduler (one tick     *)
(* loop per project) and OmcExecutionAutomation (one per program) share    *)
(* this discipline: a request arms one timer, a request made while a tick  *)
(* runs is remembered and re-armed when the tick ends, and the projects    *)
(* known to this process are asked for a tick periodically.  The state is  *)
(* in memory only: a hub restart clears it and seeds the known projects    *)
(* from the store.                                                         *)
(*                                                                         *)
(* One step is one turn of the hub's event loop.  What a tick does is left *)
(* to TaskBoard, which is shown to implement this module.                  *)
(***************************************************************************)
EXTENDS Naturals

CONSTANTS
    Projects,     \* the projects (or programs) that ticks are keyed by
    MaxRestarts   \* bound on hub restarts

ASSUME RestartsAssumption == MaxRestarts \in Nat

VARIABLES
    timers,    \* tickTimers: a timeout is armed for the project
    running,   \* runningTicks: its tick has started and not ended
    pending,   \* pendingTicks: a tick was requested during the running one
    known,     \* knownProjects: those the periodic timer asks for
    live,      \* projects of the store that are not archived
    owed,      \* history: requested in this boot, no tick started since
    carried,   \* history: owed, or interrupted, when an earlier boot ended
    boots      \* hub restarts so far

vars == <<timers, running, pending, known, live, owed, carried, boots>>

TypeOK ==
    /\ timers \subseteq Projects
    /\ running \subseteq Projects
    /\ pending \subseteq Projects
    /\ known \subseteq Projects
    /\ live \subseteq Projects
    /\ owed \subseteq Projects
    /\ carried \subseteq Projects
    /\ boots \in 0..MaxRestarts

Init ==
    /\ live \in SUBSET Projects
    /\ known = live
    /\ timers = {} /\ running = {} /\ pending = {}
    /\ owed = {} /\ carried = {}
    /\ boots = 0

(* requestTick for every project of S, in one turn. *)
Arm(S) ==
    /\ pending' = pending \cup (S \cap running)
    /\ timers' = timers \cup (S \ running)
    /\ owed' = owed \cup S

-----------------------------------------------------------------------------
(* A task, session, machine or project event, or a route, asks for a tick. *)
Request(p) ==
    /\ Arm({p})
    /\ known' = known \cup {p}
    /\ UNCHANGED <<running, live, carried, boots>>

(* The 15-minute timer asks for every known project. *)
RequestKnown ==
    /\ Arm(known)
    /\ UNCHANGED <<running, known, live, carried, boots>>

(* The timeout fires.  tickProject returns at once when a tick of the      *)
(* project is running.  What the tick itself requests, while it emits      *)
(* events, are Requests made while the project is in running.              *)
StartTick(p) ==
    /\ p \in timers
    /\ timers' = timers \ {p}
    /\ running' = running \cup {p}
    /\ owed' = owed \ ({p} \ running)
    /\ carried' = carried \ ({p} \ running)
    /\ UNCHANGED <<pending, known, live, boots>>

(* Mutant: the pending mark is taken away and nothing is armed. *)
FinishTickForgets(p) ==
    /\ p \in running
    /\ running' = running \ {p}
    /\ pending' = pending \ {p}
    /\ UNCHANGED <<timers, known, live, owed, carried, boots>>

(* The finally block of tickProject. *)
FinishTick(p) ==
    /\ p \in running
    /\ running' = running \ {p}
    /\ pending' = pending \ {p}
    /\ timers' = IF p \in pending THEN timers \cup {p} ELSE timers
    /\ UNCHANGED <<known, live, owed, carried, boots>>

(* A project is archived, which asks for one more tick: it returns early,  *)
(* as every later one of the project does.                                 *)
Archive(p) ==
    /\ p \in live
    /\ live' = live \ {p}
    /\ Arm({p})
    /\ known' = known \cup {p}
    /\ UNCHANGED <<running, carried, boots>>

(* Mutant: known projects are not seeded. *)
RestartUnseeded ==
    /\ boots < MaxRestarts
    /\ boots' = boots + 1
    /\ timers' = {} /\ running' = {} /\ pending' = {} /\ owed' = {} /\ known' = {}
    /\ carried' = carried \cup owed \cup running
    /\ UNCHANGED live

(* The hub stops at any point and starts again: the maps are empty and     *)
(* seedKnownProjects loads the projects that are not archived.             *)
Restart ==
    /\ boots < MaxRestarts
    /\ boots' = boots + 1
    /\ timers' = {} /\ running' = {} /\ pending' = {} /\ owed' = {}
    /\ carried' = carried \cup owed \cup running
    /\ known' = live
    /\ UNCHANGED live

Next ==
    \/ \E p \in Projects : Request(p)
    \/ RequestKnown
    \/ \E p \in Projects : StartTick(p)
    \/ \E p \in Projects : FinishTick(p)
    \/ \E p \in Projects : Archive(p)
    \/ Restart

Safety == Init /\ [][Next]_vars

(* Timeouts fire, the periodic timer fires, and a tick ends: every await   *)
(* of tickProject carries a timeout of its own.  Nothing makes events      *)
(* arrive, so requests, archiving and restarts have no fairness.           *)
Fairness ==
    /\ WF_vars(RequestKnown)
    /\ \A p \in Projects :
        /\ WF_vars(StartTick(p))
        /\ WF_vars(FinishTick(p))

Spec == Safety /\ Fairness

-----------------------------------------------------------------------------
(* The early return of tickProject for a running project is never taken:   *)
(* no timer is armed for a project whose tick runs, so no armed tick is    *)
(* swallowed by it.                                                        *)
NoSwallowedTick == timers \cap running = {}

(* A request is remembered only for the tick that will re-arm it. *)
PendingWhileRunning == pending \subseteq running

(* No lost wakeup: whatever was requested since the last tick of a project *)
(* started is held by a timer, or by the pending mark of a running tick,   *)
(* at every point where another turn could run.                            *)
NoLostRequest == \A p \in owed : p \in timers \/ p \in pending

(* What was asked for is served, also across a restart, as long as the     *)
(* project stays in the store.                                             *)
EveryRequestServed ==
    \A p \in Projects :
        (p \in owed \cup carried) ~> (p \notin owed \cup carried \/ p \notin live)

Inv ==
    /\ TypeOK
    /\ NoSwallowedTick
    /\ PendingWhileRunning
    /\ NoLostRequest
=============================================================================
