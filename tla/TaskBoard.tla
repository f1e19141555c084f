----------------------------- MODULE TaskBoard ------------------------------
(***************************************************************************)
(* The automation of one project's task board: the auto-run scheduler that *)
(* starts agent sessions for tasks, the task automation that moves tasks   *)
(* when those sessions report, the session cache that decides whether a    *)
(* session is alive, the user, and a hub that may restart.                 *)
(*                                                                         *)
(* The hub is one JavaScript event loop: a step is a turn, or a part of a  *)
(* turn of tickProject during which nothing else runs (HubIdle).  Awaits   *)
(* of session starts are where turns interleave: what was read before an   *)
(* await is kept in tick.snap and start[a] and used after it.              *)
(*                                                                         *)
(* One project with readiness "ready", simple sessions and the default     *)
(* workflow; its goal tasks belong to one goal whose own autopilot is off, *)
(* so project.autoRunEnabled drives it.  Agents never ask for permission.  *)
(* The todo.yml row of a goal task follows its status, as every status     *)
(* patch syncs it.                                                         *)
(***************************************************************************)
EXTENDS Naturals, FiniteSets

CONSTANTS
    Tasks,        \* tasks of the project
    GoalTasks,    \* those with a goalId
    InitSource,   \* InitSource[t]: task.source when the task was created
    Rank,         \* Rank[t]: position of t in the store's list order
    Sessions,     \* session ids the runner may hand out
    NoTask, NoSession,
    LaneLimit,    \* LaneLimit[l]: project.automationLaneLimits
    Packets,      \* the HOPI_ACTIONS packets that turns may report, or none
    UserOps,      \* the operations the user performs
    Faults,       \* the faults of the environment that may happen
    MaxRestarts   \* bound on hub restarts

Lanes == {"evaluator", "planner", "generator", "radar"}
Statuses == {"planning", "running", "review", "blocked", "done"}
Sources == {"manual", "planner", "radar", "evaluator"}
Blockers == {"none", "scheduler", "agent", "evaluator"}
PacketKinds == {"done", "review", "blocked", "planning", "running", "other"}
Actors == {"tick", "user"}

ASSUME BoardAssumption ==
    /\ GoalTasks \subseteq Tasks
    /\ NoTask \notin Tasks
    /\ IsFiniteSet(Sessions)
    /\ NoSession \notin Sessions
    /\ InitSource \in [Tasks -> {"manual", "planner", "radar"}]
    /\ Rank \in [Tasks -> Nat]
    /\ \A t, u \in Tasks : Rank[t] = Rank[u] => t = u
    /\ LaneLimit \in [Lanes -> Nat]
    /\ Packets \subseteq PacketKinds \cup {"none"}
    /\ MaxRestarts \in Nat

(* EVALUATOR_MISSING_ACTION_RETRY_MAX_ATTEMPTS *)
RetryMax == 1

VARIABLES
    task,      \* the tasks table
    sess,      \* sessions: the agent process, and what the hub holds of it
    latched,   \* appliedGoalActionPacketBySessionId
    gate,      \* tick timers and marks of the project (see TickGate)
    tick,      \* the running tickProject
    start,     \* the running startSessionFromTask of each caller
    runner,    \* the machine's runner is ready
    autoRun,   \* project.autoRunEnabled
    paused,    \* goal.automationPausedAt is set
    reload,    \* sessions that reloadAll has not announced yet
    boots      \* hub restarts so far

vars == <<task, sess, latched, gate, tick, start, runner, autoRun, paused, reload, boots>>

TaskRec == [status: Statuses, archived: BOOLEAN, source: Sources,
            session: Sessions \cup {NoSession},  \* activeSessionId
            blockedBy: Blockers,                 \* blockedSource
            waiting: BOOLEAN,                    \* initRuntime waits for the runner
            init: Sessions \cup {NoSession},     \* initRuntime.sessionId
            retry: 0..RetryMax]                  \* initRuntime.retryCount

SessRec == [proc: {"free", "running", "dead", "deleted"},
            active: BOOLEAN, thinking: BOOLEAN,  \* the hub's view
            turn: {"idle", "busy", "ended",      \* ended: ready event under way
                   "unheard"},                   \* idle after an ignored one
            mail: BOOLEAN,                       \* prompts the agent has not read
            task: Tasks \cup {NoTask},           \* metadata.taskId
            role: Lanes,                         \* metadata.hopiTaskRole
            packet: PacketKinds \cup {"none"}]   \* latest packet in its messages

NewTask(t) == [status |-> "planning", archived |-> FALSE, source |-> InitSource[t],
               session |-> NoSession, blockedBy |-> "none", waiting |-> FALSE,
               init |-> NoSession, retry |-> 0]
NewSession == [proc |-> "free", active |-> FALSE, thinking |-> FALSE, turn |-> "idle",
               mail |-> FALSE, task |-> NoTask, role |-> "generator", packet |-> "none"]
NoCount == [l \in Lanes |-> 0]
NoSnap == [t \in Tasks |-> NewTask(t)]
IdleTick == [pc |-> "idle", todo |-> {}, snap |-> NoSnap, busy |-> NoCount,
             started |-> NoCount, auto |-> FALSE]
IdleStart == [pc |-> "idle", task |-> NoTask, session |-> NoSession, prev |-> NoSession,
              review |-> FALSE, role |-> "generator", retry |-> 0]

GateRec == [timer: BOOLEAN, running: BOOLEAN, pending: BOOLEAN,
            owed: BOOLEAN, carried: BOOLEAN]

TickRec == [pc: {"idle", "enter", "scan", "await"},
            todo: SUBSET Tasks,                  \* candidates not yet looked at
            snap: [Tasks -> TaskRec],            \* their records, as they were read
            busy: [Lanes -> Nat],                \* thinking sessions, as counted
            started: [Lanes -> Nat],             \* starts of this tick
            auto: BOOLEAN]                       \* project.autoRunEnabled, as read

StartRec == [pc: {"idle", "spawn", "configure"}, task: Tasks \cup {NoTask},
             session: Sessions \cup {NoSession},
             prev: Sessions \cup {NoSession},    \* task.activeSessionId, as read
             review: BOOLEAN, role: Lanes, retry: 0..RetryMax]

TypeOK ==
    /\ task \in [Tasks -> TaskRec]
    /\ sess \in [Sessions -> SessRec]
    /\ latched \subseteq Sessions
    /\ gate \in GateRec
    /\ tick \in TickRec
    /\ start \in [Actors -> StartRec]
    /\ runner \in BOOLEAN /\ autoRun \in BOOLEAN /\ paused \in BOOLEAN
    /\ reload \subseteq Sessions
    /\ boots \in 0..MaxRestarts

InitFrom(tasks) ==
    /\ task = tasks
    /\ sess = [s \in Sessions |-> NewSession]
    /\ latched = {}
    /\ gate = [timer |-> FALSE, running |-> FALSE, pending |-> FALSE,
               owed |-> FALSE, carried |-> FALSE]
    /\ tick = IdleTick
    /\ start = [a \in Actors |-> IdleStart]
    /\ runner = TRUE /\ autoRun = TRUE /\ paused = FALSE
    /\ reload = {}
    /\ boots = 0

Init == InitFrom([t \in Tasks |-> NewTask(t)])

(* No turn is under way: tickProject runs from one await to the next, and  *)
(* the constructor announces every stored session, without interruption.   *)
HubIdle == tick.pc \notin {"enter", "scan"} /\ reload = {}

-----------------------------------------------------------------------------
(* Operators on one task *)

(* updateTaskByNamespace: a task that is not blocked has no blocker. *)
SetStatus(rec, st) ==
    [rec EXCEPT !.status = st, !.blockedBy = IF st = "blocked" THEN @ ELSE "none"]

Block(rec, by) == [rec EXCEPT !.status = "blocked", !.blockedBy = by]

(* getTaskAutomationLane *)
Lane(rec) ==
    IF rec.status = "review" THEN "evaluator"
    ELSE IF rec.source \in {"planner", "radar"} THEN rec.source ELSE "generator"

LanePriority == [evaluator |-> 0, planner |-> 1, generator |-> 2, radar |-> 3]

(* getGoalTaskActionRole and getGoalTaskRole; a plain task has no role and *)
(* its session counts in the generator lane.                               *)
ActionRole(t, rec) ==
    IF t \notin GoalTasks THEN "generator"
    ELSE IF rec.status = "review" THEN "evaluator"
    ELSE IF rec.source = "manual" THEN "generator" ELSE rec.source

(* Mutant: after its first start a tick no longer asks for the goal's.     *)
PolicyCached(t, auto) ==
    auto /\ (t \in GoalTasks => ~paused \/ \E l \in Lanes : tick.started[l] > 0)

(* getTaskAutopilotPolicy, given the project record the caller read *)
Policy(t, auto) == auto /\ (t \in GoalTasks => ~paused)

(* Mutant: a review that an evaluator has taken up may be started again. *)
AutoRunnableTwice(t, rec, ss, auto) ==
    LET linked == IF rec.session = NoSession THEN NewSession ELSE ss[rec.session] IN
    /\ rec.status \in {"planning", "review"} /\ ~rec.archived
    /\ rec.waiting => runner
    /\ rec.status = "planning" /\ linked.active => t \in GoalTasks /\ ~linked.thinking
    /\ Policy(t, auto)

(* Mutant: a task that once waited for the runner is never runnable. *)
AutoRunnableUnlessWaiting(t, rec, ss, auto) ==
    LET linked == IF rec.session = NoSession THEN NewSession ELSE ss[rec.session] IN
    /\ rec.status \in {"planning", "review"} /\ ~rec.archived /\ ~rec.waiting
    /\ rec.status = "planning" /\ linked.active => t \in GoalTasks /\ ~linked.thinking
    /\ rec.status = "review" => ~linked.thinking /\ rec.source # "evaluator"
    /\ Policy(t, auto)

(* isTaskAutoRunnable of the record the caller read, with the live caches *)
AutoRunnable(t, rec, ss, auto) ==
    LET linked == IF rec.session = NoSession THEN NewSession ELSE ss[rec.session] IN
    /\ rec.status \in {"planning", "review"}
    /\ ~rec.archived
    /\ rec.waiting => runner
    /\ rec.status = "planning" /\ linked.active => t \in GoalTasks /\ ~linked.thinking
    /\ rec.status = "review" => ~linked.thinking /\ rec.source # "evaluator"
    /\ Policy(t, auto)

(* requestTick of the scheduler for this project *)
Requested ==
    [gate EXCEPT !.pending = @ \/ gate.running,
                 !.timer = @ \/ ~gate.running,
                 !.owed = TRUE]

(* The scheduler's handling of a task-added or task-updated event *)
Announce(S, ts, ss, auto) ==
    gate' = IF \E t \in S : AutoRunnable(t, ts[t], ss, auto) THEN Requested ELSE gate

-----------------------------------------------------------------------------
(* What the task automation does with a session's report.  Each operator   *)
(* gives the new record of the linked task.                                *)

(* Mutant: done is done, whoever says so. *)
PacketPatchTrusting(t, rec, pkt) == IF pkt = "other" THEN rec ELSE SetStatus(rec, pkt)

(* applyGoalActionPacketFromSession, update_current_task *)
PacketPatch(t, rec, pkt) ==
    LET role == ActionRole(t, rec)
        st == IF pkt = "done" /\ role = "generator" THEN "review" ELSE pkt
    IN IF pkt = "other" THEN rec
       ELSE [SetStatus(rec, st) EXCEPT
                !.source = IF role = "evaluator" /\ st \in {"planning", "blocked", "review"}
                           THEN "manual" ELSE @]

(* Mutant: packets reach archived tasks. *)
ApplicableArchived(s) ==
    /\ sess[s].task \in GoalTasks
    /\ s \notin latched /\ sess[s].packet # "none"
    /\ task[sess[s].task].status \in {"running", "review"}

(* tryApplyGoalActionPacketFromSession answers applied: the packet of s is *)
(* still to be applied to its goal task, which runs or is in review.       *)
Applicable(s) ==
    /\ sess[s].task \in GoalTasks
    /\ ~task[sess[s].task].archived
    /\ s \notin latched
    /\ task[sess[s].task].status \in {"running", "review"}
    /\ sess[s].packet # "none"

(* It answers already_applied, whatever the session reported since. *)
AlreadyApplied(s) ==
    /\ sess[s].task \in GoalTasks
    /\ ~task[sess[s].task].archived
    /\ s \in latched

(* tryRecoverMissingEvaluatorActionPacket *)
Recoverable(s) ==
    LET rec == task[sess[s].task] IN
    /\ sess[s].task \in GoalTasks
    /\ ~rec.archived /\ rec.status = "review" /\ rec.source = "evaluator"
    /\ sess[s].role = "evaluator"

(* Mutant: queued again without a limit. *)
RecoveredForever(rec, s) ==
    [rec EXCEPT !.source = "manual", !.waiting = FALSE, !.init = s, !.retry = @ + 1]

(* An evaluator that reported no packet is queued again once, then blocks  *)
(* its task.                                                               *)
Recovered(rec, s) ==
    LET manual == [rec EXCEPT !.source = "manual", !.waiting = FALSE, !.init = s] IN
    IF rec.retry >= RetryMax THEN Block(manual, "evaluator")
    ELSE [manual EXCEPT !.retry = @ + 1]

(* The agent is the blocker; an initRuntime that waits in s blocks too. *)
BlockedByAgent(rec, s) ==
    [Block(rec, "agent") EXCEPT !.waiting = @ /\ rec.init # s]

(* Mutant: the fallback does not look at the status. *)
AfterInactiveBlocks(s) ==
    LET rec == task[sess[s].task] IN
    IF Applicable(s) THEN PacketPatch(sess[s].task, rec, sess[s].packet)
    ELSE IF AlreadyApplied(s) \/ rec.archived THEN rec
    ELSE IF Recoverable(s) THEN Recovered(rec, s)
    ELSE BlockedByAgent(rec, s)

(* Mutant: there is no fallback. *)
AfterInactiveWaits(s) ==
    LET rec == task[sess[s].task] IN
    IF Applicable(s) THEN PacketPatch(sess[s].task, rec, sess[s].packet)
    ELSE IF Recoverable(s) /\ ~AlreadyApplied(s) THEN Recovered(rec, s) ELSE rec

(* The linked task's record after tryResolveInactiveSession *)
AfterInactive(s) ==
    LET t == sess[s].task
        rec == task[t]
    IN CASE Applicable(s) -> PacketPatch(t, rec, sess[s].packet)
         [] AlreadyApplied(s) -> rec
         [] ~Applicable(s) /\ ~AlreadyApplied(s) /\ Recoverable(s) -> Recovered(rec, s)
         [] OTHER -> IF rec.archived \/ rec.status \in {"done", "blocked"} THEN rec
                     ELSE BlockedByAgent(rec, s)

(* Mutant: a silent evaluator is queued again only when its session ends. *)
AfterReadyPatient(s) ==
    LET t == sess[s].task
        rec == task[t]
    IN IF Applicable(s) THEN PacketPatch(t, rec, sess[s].packet)
       ELSE IF t \in GoalTasks \/ rec.archived \/ rec.status # "running" THEN rec
       ELSE SetStatus(rec, "review")

(* ... and after a ready event (handleMessageReceived) that speaks of a    *)
(* reply; a plain task moves to review from it.                            *)
AfterReady(s) ==
    LET t == sess[s].task
        rec == task[t]
    IN CASE Applicable(s) -> PacketPatch(t, rec, sess[s].packet)
         [] AlreadyApplied(s) -> rec
         [] ~Applicable(s) /\ ~AlreadyApplied(s) /\ Recoverable(s) -> Recovered(rec, s)
         [] OTHER -> IF t \in GoalTasks \/ rec.archived \/ rec.status # "running" THEN rec
                     ELSE SetStatus(rec, "review")

(* The hub takes the report of s: the linked task becomes new, an applied  *)
(* packet is latched and asks for a tick (project-updated), a task that    *)
(* became runnable asks for one, and so does a session that fell idle.     *)
Report(s, new, applied, fell, ss) ==
    LET t == sess[s].task IN
    /\ task' = [task EXCEPT ![t] = new]
    /\ latched' = IF applied THEN latched \cup {s} ELSE latched
    /\ gate' = IF \/ applied \/ fell
                  \/ new # task[t] /\ AutoRunnable(t, new, ss, autoRun)
               THEN Requested ELSE gate

-----------------------------------------------------------------------------
(* Sessions *)

(* session-alive: the periodic report of a live process, which may follow  *)
(* the end of its turn or find the session presumed inactive.  A thinking  *)
(* session moves its plain task back from review.                          *)
Heartbeat(s) ==
    LET t == sess[s].task
        thinks == sess[s].turn = "busy"
        ss == [sess EXCEPT ![s].active = TRUE, ![s].thinking = thinks]
        resumes == /\ thinks /\ t \in Tasks \ GoalTasks
                   /\ ~task[t].archived /\ task[t].status = "review"
    IN /\ HubIdle
       /\ sess[s].proc = "running"
       /\ sess' = ss
       /\ Report(s, IF resumes THEN SetStatus(task[t], "running") ELSE task[t],
                 FALSE, sess[s].thinking /\ ~thinks, ss)
       /\ UNCHANGED <<tick, start, runner, autoRun, paused, reload, boots>>

Resting(s) == sess[s].turn \in {"idle", "unheard"}

(* The agent takes the queued prompts and works on them. *)
StartTurn(s) ==
    /\ HubIdle
    /\ sess[s].proc = "running" /\ Resting(s) /\ sess[s].mail
    /\ sess' = [sess EXCEPT ![s].turn = "busy", ![s].mail = FALSE]
    /\ UNCHANGED <<task, latched, gate, tick, start, runner, autoRun, paused, reload, boots>>

(* The turn ends; its messages are stored, with a packet or without one.   *)
(* The ready event follows unless another prompt waits (emitReadyIfIdle).  *)
EndTurn(s, pkt) ==
    /\ HubIdle
    /\ sess[s].proc = "running" /\ sess[s].turn = "busy"
    /\ sess' = [sess EXCEPT ![s].turn = IF sess[s].mail THEN "idle" ELSE "ended",
                            ![s].packet = IF pkt = "none" THEN @ ELSE pkt]
    /\ UNCHANGED <<task, latched, gate, tick, start, runner, autoRun, paused, reload, boots>>

(* The hub receives the ready event. *)
Ready(s) ==
    /\ HubIdle
    /\ sess[s].turn = "ended"
    /\ sess' = [sess EXCEPT ![s].turn = "idle"]
    /\ Report(s, AfterReady(s), Applicable(s), FALSE, sess')
    /\ UNCHANGED <<tick, start, runner, autoRun, paused, reload, boots>>

(* The ready event says that there was no reply to the prompts, as it does *)
(* when the agent's messages are held back or lost: the hub ignores it.    *)
ReadyWithoutReply(s) ==
    /\ HubIdle
    /\ "mute" \in Faults
    /\ sess[s].turn = "ended"
    /\ sess' = [sess EXCEPT ![s].turn = "unheard"]
    /\ UNCHANGED <<task, latched, gate, tick, start, runner, autoRun, paused, reload, boots>>

(* A turn is interrupted and says so: tryBlockTaskFromInterruptionEvent. *)
Interrupt(s) ==
    LET rec == task[sess[s].task] IN
    /\ HubIdle
    /\ "interrupt" \in Faults
    /\ sess[s].proc = "running" /\ sess[s].turn = "busy"
    /\ sess' = [sess EXCEPT ![s].turn = "idle"]
    /\ Report(s, IF rec.archived \/ rec.status = "done" THEN rec ELSE BlockedByAgent(rec, s),
              FALSE, FALSE, sess')
    /\ UNCHANGED <<tick, start, runner, autoRun, paused, reload, boots>>

(* The process of a session ends: it crashes, or its finished task stops   *)
(* it (handleTaskMovedToFinished).  A ready event under way is lost.       *)
Die(s) ==
    /\ HubIdle
    /\ sess[s].proc = "running"
    /\ \/ "die" \in Faults
       \/ \E t \in Tasks : task[t].status = "done" /\ task[t].session = s
    /\ sess' = [sess EXCEPT ![s].proc = "dead", ![s].turn = "idle", ![s].mail = FALSE]
    /\ UNCHANGED <<task, latched, gate, tick, start, runner, autoRun, paused, reload, boots>>

(* handleSessionEnd, or expireInactive after 30 seconds of silence: the    *)
(* silence of a dead process, or of a live one that lost its connection.   *)
BecomeInactive(s) ==
    /\ HubIdle
    /\ sess[s].active
    /\ sess[s].proc = "dead" \/ "partition" \in Faults
    /\ sess' = [sess EXCEPT ![s].active = FALSE, ![s].thinking = FALSE]
    /\ Report(s, AfterInactive(s), Applicable(s), TRUE, sess')
    /\ UNCHANGED <<tick, start, runner, autoRun, paused, reload, boots>>

-----------------------------------------------------------------------------
(* startSessionFromTask: what it reads first is used after its awaits.     *)

(* Its first turn, up to the spawn of a session; it looks at no status. *)
BeginStart(a, t) ==
    start' = [start EXCEPT ![a] =
        [pc |-> "spawn", task |-> t, session |-> NoSession, prev |-> task[t].session,
         review |-> t \in GoalTasks /\ task[t].status = "review",
         role |-> ActionRole(t, task[t]), retry |-> task[t].retry]]

(* Mutant: the failure of a start does not get back to the tick. *)
FailUnseen(a) ==
    /\ start' = [start EXCEPT ![a] = IdleStart]
    /\ UNCHANGED <<task, tick>>

(* A failed start: nothing for the user's route; the tick blocks the task, *)
(* whatever became of it, and scans on.                                    *)
Fail(a) ==
    LET t == start[a].task IN
    /\ start' = [start EXCEPT ![a] = IdleStart]
    /\ IF a = "user" THEN UNCHANGED <<task, tick>>
       ELSE /\ task' = [task EXCEPT ![t] = Block(@, "scheduler")]
            /\ tick' = [tick EXCEPT !.pc = "scan"]

(* The runner refuses, the spawn times out, or the session is not active   *)
(* within 20 seconds; a session that comes up later is linked to nothing.  *)
SpawnFails(a) ==
    /\ HubIdle
    /\ start[a].pc = "spawn"
    /\ "spawn" \in Faults \/ ~runner \/ \A s \in Sessions : sess[s].proc # "free"
    /\ Fail(a)
    /\ UNCHANGED <<sess, latched, gate, runner, autoRun, paused, reload, boots>>

(* The spawned session became active: setSessionTaskLink, then the start   *)
(* waits for the session to be configured, or for its setup workflow.      *)
SpawnSucceeds(a, s) ==
    /\ HubIdle
    /\ start[a].pc = "spawn"
    /\ sess[s].proc = "free"
    /\ sess' = [sess EXCEPT ![s] = [NewSession EXCEPT !.proc = "running", !.active = TRUE,
                                        !.task = start[a].task, !.role = start[a].role]]
    /\ start' = [start EXCEPT ![a].pc = "configure", ![a].session = s]
    /\ UNCHANGED <<task, latched, gate, tick, runner, autoRun, paused, reload, boots>>

(* updateStartedTask.  A goal task in review keeps its previous session    *)
(* and waits for an evaluator; any other task runs.                        *)
Started(rec, st) ==
    [SetStatus(rec, IF st.review THEN "review" ELSE "running") EXCEPT
        !.session = IF st.review /\ st.prev # NoSession THEN st.prev ELSE st.session,
        !.source = IF st.review THEN "evaluator" ELSE rec.source,
        !.waiting = FALSE, !.init = st.session, !.retry = st.retry]

(* The started task, and the kickoff message: there is none when the setup *)
(* workflow of a plain task fails.                                         *)
FinishStart(a, setupOk) ==
    LET t == start[a].task
        s == start[a].session
    IN /\ HubIdle
       /\ start[a].pc = "configure"
       /\ t \in GoalTasks => setupOk
       /\ task' = [task EXCEPT ![t] = Started(@, start[a])]
       /\ sess' = [sess EXCEPT ![s].mail = @ \/ (setupOk /\ sess[s].proc = "running")]
       /\ start' = [start EXCEPT ![a] = IdleStart]
       /\ tick' = IF a = "tick" THEN [tick EXCEPT !.pc = "scan"] ELSE tick
       /\ UNCHANGED <<latched, gate, runner, autoRun, paused, reload, boots>>

-----------------------------------------------------------------------------
(* tickProject *)

(* The timeout fires; without auto-run the tick returns early. *)
StartTick ==
    /\ HubIdle
    /\ gate.timer
    /\ gate' = [gate EXCEPT !.timer = FALSE, !.running = TRUE,
                            !.owed = FALSE, !.carried = FALSE]
    /\ tick' = [IdleTick EXCEPT !.pc = IF autoRun THEN "enter" ELSE "scan",
                                !.auto = autoRun]
    /\ UNCHANGED <<task, sess, latched, start, runner, autoRun, paused, reload, boots>>

(* materializeReadyGoalTodoTaskOverlays brings back an archived goal task  *)
(* whose row is planning, recoverSchedulerRunnerOfflineBlocks a task that  *)
(* failed to start; then the candidates and the busy lanes are read.       *)
Restored(t) ==
    t \in GoalTasks /\ ~paused /\ task[t].archived /\ task[t].status = "planning"

RunnerOfflineBlock(t) ==
    /\ task[t].status = "blocked" /\ task[t].blockedBy = "scheduler"
    /\ ~task[t].archived /\ task[t].session = NoSession /\ task[t].waiting
    /\ Policy(t, autoRun)

Revived(t) ==
    IF Restored(t) THEN [task[t] EXCEPT !.archived = FALSE]
    ELSE IF RunnerOfflineBlock(t) THEN [SetStatus(task[t], "planning") EXCEPT !.retry = 0]
    ELSE task[t]

PrepareTick ==
    LET new == [t \in Tasks |-> Revived(t)]
        revived == {t \in Tasks : Restored(t) \/ RunnerOfflineBlock(t)}
        todo == {t \in Tasks : ~new[t].archived /\ new[t].status \in {"planning", "review"}}
    IN /\ tick.pc = "enter"
       /\ task' = new
       /\ Announce(revived, new, sess, autoRun)
       /\ tick' = [tick EXCEPT
             !.pc = "scan", !.todo = todo,
             !.snap = [t \in Tasks |-> IF t \in todo THEN new[t] ELSE NewTask(t)],
             !.busy = [l \in Lanes |->
                 Cardinality({s \in Sessions : /\ sess[s].thinking /\ sess[s].task # NoTask
                                               /\ sess[s].role = l})]]
       /\ UNCHANGED <<sess, latched, start, runner, autoRun, paused, reload, boots>>

(* sortAutomationCandidates: by lane, then review tasks before planned     *)
(* ones (only they are in the evaluator lane), then in list order.         *)
Before(t, u) ==
    LET l == LanePriority[Lane(tick.snap[t])]
        m == LanePriority[Lane(tick.snap[u])]
    IN l < m \/ (l = m /\ Rank[t] < Rank[u])

Candidate(t) ==
    /\ tick.pc = "scan" /\ t \in tick.todo
    /\ \A u \in tick.todo \ {t} : Before(t, u)

(* The checks of the loop, on the records the tick has read *)
Eligible(t) ==
    LET l == Lane(tick.snap[t]) IN
    /\ tick.busy[l] + tick.started[l] < LaneLimit[l]
    /\ AutoRunnable(t, tick.snap[t], sess, tick.auto)

(* continueTaskInLinkedSession, on the fresh record *)
Continuable(t) ==
    LET s == task[t].session IN
    /\ t \in GoalTasks /\ task[t].status = "planning" /\ s # NoSession
    /\ sess[s].active /\ ~sess[s].thinking

(* The candidate t is done with, and counts as started or not. *)
Passed(t, started) ==
    [tick EXCEPT !.todo = @ \ {t}, !.snap[t] = NewTask(t),
                 !.started[Lane(tick.snap[t])] = IF started THEN @ + 1 ELSE @]

ScanSkip(t) ==
    /\ Candidate(t) /\ ~Eligible(t)
    /\ tick' = Passed(t, FALSE)
    /\ UNCHANGED <<task, sess, latched, gate, start, runner, autoRun, paused, reload, boots>>

Continued(rec, s) ==
    [SetStatus(rec, "running") EXCEPT !.waiting = FALSE, !.init = s]

(* The linked session takes the kickoff, all in one turn. *)
ScanContinue(t) ==
    LET s == task[t].session IN
    /\ Candidate(t) /\ Eligible(t) /\ Continuable(t)
    /\ sess' = [sess EXCEPT ![s].task = t, ![s].role = ActionRole(t, task[t]),
                            ![s].mail = @ \/ sess[s].proc = "running"]
    /\ task' = [task EXCEPT ![t] = Continued(@, s)]
    /\ tick' = Passed(t, TRUE)
    /\ UNCHANGED <<latched, gate, start, runner, autoRun, paused, reload, boots>>

(* The initRuntime of a task that waits for the runner is built from old,  *)
(* the record that the tick read.                                          *)
WaitsForRunner(rec, old) ==
    [rec EXCEPT !.blockedBy = "none", !.waiting = TRUE, !.retry = 0,
                !.init = IF old.init # NoSession THEN old.init
                         ELSE IF old.session # NoSession THEN old.session
                         ELSE rec.session]

(* The runner is offline: the task waits for it, and the loop breaks. *)
ScanOffline(t) ==
    /\ Candidate(t) /\ Eligible(t) /\ ~Continuable(t)
    /\ ~runner
    /\ task' = [task EXCEPT ![t] = WaitsForRunner(@, tick.snap[t])]
    /\ Announce({t}, task', sess, autoRun)
    /\ tick' = [Passed(t, TRUE) EXCEPT !.todo = {}, !.snap = NoSnap]
    /\ UNCHANGED <<sess, latched, start, runner, autoRun, paused, reload, boots>>

(* A session is requested, and the tick awaits it. *)
ScanStart(t) ==
    /\ Candidate(t) /\ Eligible(t) /\ ~Continuable(t)
    /\ runner
    /\ BeginStart("tick", t)
    /\ tick' = [Passed(t, TRUE) EXCEPT !.pc = "await"]
    /\ UNCHANGED <<task, sess, latched, gate, runner, autoRun, paused, reload, boots>>

(* Mutant: requests made during the tick are forgotten. *)
FinishTickForgetful ==
    /\ tick.pc = "scan" /\ tick.todo = {}
    /\ tick' = IdleTick
    /\ gate' = [gate EXCEPT !.running = FALSE, !.pending = FALSE]
    /\ UNCHANGED <<task, sess, latched, start, runner, autoRun, paused, reload, boots>>

(* The finally block *)
FinishTick ==
    /\ tick.pc = "scan" /\ tick.todo = {}
    /\ tick' = IdleTick
    /\ gate' = [gate EXCEPT !.running = FALSE, !.pending = FALSE,
                            !.timer = @ \/ gate.pending]
    /\ UNCHANGED <<task, sess, latched, start, runner, autoRun, paused, reload, boots>>

(* The 15-minute timer: requestKnownProjectTicks *)
PeriodicTick ==
    /\ HubIdle
    /\ gate' = Requested
    /\ UNCHANGED <<task, sess, latched, tick, start, runner, autoRun, paused, reload, boots>>

-----------------------------------------------------------------------------
(* The user *)

UserOp(op) == HubIdle /\ op \in UserOps

(* PATCH /tasks/:taskId *)
UserMove(t, st) ==
    /\ UserOp("move")
    /\ ~task[t].archived /\ st # task[t].status
    /\ task' = [task EXCEPT ![t] = SetStatus(@, st)]
    /\ Announce({t}, task', sess, autoRun)
    /\ UNCHANGED <<sess, latched, tick, start, runner, autoRun, paused, reload, boots>>

(* POST /tasks/:taskId/archive *)
UserArchive(t) ==
    /\ UserOp("archive")
    /\ ~task[t].archived
    /\ task' = [task EXCEPT ![t].archived = TRUE]
    /\ UNCHANGED <<sess, latched, gate, tick, start, runner, autoRun, paused, reload, boots>>

(* A message typed to the session: task_prompted moves its task to running *)
(* from any status.                                                        *)
UserPrompt(s) ==
    LET t == sess[s].task IN
    /\ UserOp("prompt")
    /\ sess[s].proc = "running" /\ sess[s].active /\ ~sess[s].mail
    /\ sess' = [sess EXCEPT ![s].mail = TRUE]
    /\ task' = IF task[t].archived THEN task
               ELSE [task EXCEPT ![t] = SetStatus(@, "running")]
    /\ UNCHANGED <<latched, gate, tick, start, runner, autoRun, paused, reload, boots>>

(* POST /tasks/:taskId/start-session; an offline runner is only reported. *)
UserStart(t) ==
    /\ UserOp("start")
    /\ ~task[t].archived /\ runner
    /\ start["user"].pc = "idle"
    /\ BeginStart("user", t)
    /\ UNCHANGED <<task, sess, latched, gate, tick, runner, autoRun, paused, reload, boots>>

(* The automation switches of the goal and of the project ask for a tick. *)
UserPause ==
    /\ UserOp("pause")
    /\ paused' = ~paused
    /\ gate' = Requested
    /\ UNCHANGED <<task, sess, latched, tick, start, runner, autoRun, reload, boots>>

UserAutoRun ==
    /\ UserOp("autoRun")
    /\ autoRun' = ~autoRun
    /\ gate' = Requested
    /\ UNCHANGED <<task, sess, latched, tick, start, runner, paused, reload, boots>>

(* A session-updated event without news, as renaming a session emits: an   *)
(* inactive session is resolved again.                                     *)
UserRename(s) ==
    /\ UserOp("rename")
    /\ sess[s].proc \in {"running", "dead"} /\ ~sess[s].active
    /\ Report(s, AfterInactive(s), Applicable(s), FALSE, sess)
    /\ UNCHANGED <<sess, tick, start, runner, autoRun, paused, reload, boots>>

(* Session s is gone: what its process still says is refused. *)
DeleteFrom(owners, s) ==
    LET new == [t \in Tasks |-> IF t \in owners
                  THEN [task[t] EXCEPT !.session = NoSession, !.init = NoSession] ELSE task[t]]
    IN /\ UserOp("delete")
       /\ sess[s].proc \in {"running", "dead"} /\ ~sess[s].active
       /\ sess' = [sess EXCEPT ![s].proc = "deleted", ![s].turn = "idle", ![s].mail = FALSE]
       /\ latched' = latched \ {s}
       /\ task' = new
       /\ Announce(owners, new, sess', autoRun)
       /\ UNCHANGED <<tick, start, runner, autoRun, paused, reload, boots>>

(* Mutant: archived tasks are forgotten. *)
UserDeleteListed(s) == DeleteFrom({t \in Tasks : task[t].session = s /\ ~task[t].archived}, s)

(* deleteSession of a session that the hub takes for inactive, whether its *)
(* process lives or not: its tasks, archived ones too, lose it, and become *)
(* runnable without it.                                                    *)
UserDelete(s) == DeleteFrom({t \in Tasks : task[t].session = s}, s)

-----------------------------------------------------------------------------
(* The runner and the hub *)

RunnerStops ==
    /\ HubIdle /\ "runner" \in Faults
    /\ runner /\ runner' = FALSE
    /\ UNCHANGED <<task, sess, latched, gate, tick, start, autoRun, paused, reload, boots>>

(* machine-updated: ready again, so the projects of the machine get a tick. *)
RunnerReady ==
    /\ HubIdle
    /\ ~runner /\ runner' = TRUE
    /\ gate' = Requested
    /\ UNCHANGED <<task, sess, latched, tick, start, autoRun, paused, reload, boots>>

(* The hub stops between two turns and starts again.  Caches, timers and   *)
(* latches are gone; every stored session counts as inactive until its     *)
(* process reports, and reloadAll announces each of them.                  *)
Restart ==
    /\ HubIdle /\ boots < MaxRestarts
    /\ boots' = boots + 1
    /\ latched' = {}
    /\ gate' = [timer |-> FALSE, running |-> FALSE, pending |-> FALSE, owed |-> FALSE,
                carried |-> gate.carried \/ gate.owed \/ gate.running]
    /\ tick' = IdleTick
    /\ start' = [a \in Actors |-> IdleStart]
    /\ runner' = FALSE
    /\ sess' = [s \in Sessions |-> [sess[s] EXCEPT !.active = FALSE, !.thinking = FALSE]]
    /\ reload' = {s \in Sessions : sess[s].proc \in {"running", "dead"}}
    /\ UNCHANGED <<task, autoRun, paused>>

(* session-added of an inactive session: tryResolveInactiveSession *)
Reload(s) ==
    /\ s \in reload
    /\ reload' = reload \ {s}
    /\ Report(s, AfterInactive(s), Applicable(s), FALSE, sess)
    /\ UNCHANGED <<sess, tick, start, runner, autoRun, paused, boots>>

-----------------------------------------------------------------------------
SessionStep(s) ==
    \/ Heartbeat(s) \/ StartTurn(s) \/ Ready(s) \/ ReadyWithoutReply(s) \/ Interrupt(s)
    \/ \E pkt \in Packets : EndTurn(s, pkt)
    \/ Die(s) \/ BecomeInactive(s)

StartStep(a) ==
    \/ SpawnFails(a)
    \/ \E s \in Sessions : SpawnSucceeds(a, s)
    \/ \E ok \in BOOLEAN : FinishStart(a, ok)

TickStep ==
    \/ StartTick \/ PrepareTick \/ FinishTick
    \/ \E t \in Tasks : ScanSkip(t) \/ ScanContinue(t) \/ ScanOffline(t) \/ ScanStart(t)

UserStep ==
    \/ \E t \in Tasks, st \in Statuses : UserMove(t, st)
    \/ \E t \in Tasks : UserArchive(t) \/ UserStart(t)
    \/ \E s \in Sessions : UserPrompt(s) \/ UserRename(s) \/ UserDelete(s)
    \/ UserPause \/ UserAutoRun

HubStep ==
    \/ PeriodicTick \/ RunnerStops \/ RunnerReady \/ Restart
    \/ \E s \in Sessions : Reload(s)

Next ==
    \/ \E s \in Sessions : SessionStep(s)
    \/ \E a \in Actors : StartStep(a)
    \/ TickStep \/ UserStep \/ HubStep

Safety == Init /\ [][Next]_vars

(* The event loop takes up every timer, answer and message that is due, if *)
(* not at once then between two of the turns that keep coming: hence       *)
(* strong fairness.  The awaits of a start have timeouts, a turn of an     *)
(* agent ends, live sessions report every few seconds, a dead one is       *)
(* noticed, and an offline runner comes back.  Users and faults have none. *)
Fairness ==
    /\ WF_vars(TickStep)
    /\ WF_vars(\E s \in Sessions : Reload(s))
    /\ SF_vars(PeriodicTick)
    /\ SF_vars(RunnerReady)
    /\ \A a \in Actors : SF_vars(StartStep(a))
    /\ \A s \in Sessions :
        /\ SF_vars(\/ StartTurn(s) \/ Ready(s) \/ ReadyWithoutReply(s)
                   \/ \E pkt \in Packets : EndTurn(s, pkt))
        /\ SF_vars(Heartbeat(s) \/ (sess[s].proc = "dead" /\ BecomeInactive(s)))

Spec == Safety /\ Fairness

-----------------------------------------------------------------------------
(* The scheduler's tick discipline is the one of TickGate. *)
Gate == INSTANCE TickGate WITH
    Projects <- {"p"}, MaxRestarts <- MaxRestarts,
    timers <- {x \in {"p"} : gate.timer},
    running <- {x \in {"p"} : gate.running},
    pending <- {x \in {"p"} : gate.pending},
    known <- {"p"}, live <- {"p"},
    owed <- {x \in {"p"} : gate.owed},
    carried <- {x \in {"p"} : gate.carried},
    boots <- boots
(* Every behaviour of the board is a behaviour of TickGate: no request for *)
(* a tick is lost, whatever the tick awaits.                               *)
GateSafety == Gate!Safety

(* ... and with the fairness of TickGate, so that each request is served.  *)
GateSpec == Gate!Spec

-----------------------------------------------------------------------------
(* Safety *)

(* Only a blocked task names a blocker, so a blocker that was resolved by  *)
(* any path never shows up, nor steers a later recovery.                   *)
BlockerOnlyWhenBlocked ==
    \A t \in Tasks : task[t].blockedBy # "none" => task[t].status = "blocked"

(* Two agents never work on one task at a time: a session is started for a *)
(* task only when no other session of it has anything to do.               *)
Working(s) == sess[s].proc = "running" /\ (sess[s].turn = "busy" \/ sess[s].mail)
OneWorker ==
    \A s1, s2 \in Sessions :
        Working(s1) /\ Working(s2) /\ sess[s1].task = sess[s2].task => s1 = s2

(* A task that a generator works on is done only when an evaluator's       *)
(* session accepted it.                                                    *)
GeneratorTasks == {t \in GoalTasks : InitSource[t] = "manual"}
AcceptedByEvaluator ==
    \A t \in GeneratorTasks : task[t].status = "done" =>
        \E s \in Sessions : /\ sess[s].task = t /\ sess[s].role = "evaluator"
                            /\ sess[s].packet = "done"

(* An evaluator that keeps reporting nothing is started a bounded number   *)
(* of times for one task (when no task returns to planning).               *)
EvaluatorAttemptsBounded ==
    \A t \in Tasks :
        Cardinality({s \in Sessions : sess[s].task = t /\ sess[s].role = "evaluator"})
            <= RetryMax + 1

-----------------------------------------------------------------------------
(* Action properties *)

(* Done is final: no late report, retry, start or tick takes a task out of *)
(* done.                                                                   *)
DoneIsFinal ==
    [][\A t \in Tasks : task[t].status = "done" => task'[t].status = "done"]_vars

(* A generator's task goes from running to done only by the user's hand:   *)
(* whatever is reported, started or retried, it is reviewed first.  This   *)
(* holds while the user neither prompts, starts nor moves that task and no *)
(* packet says "running": an evaluator that makes its task run may end it. *)
NoShortcut ==
    [][\A t \in GeneratorTasks :
          task[t].status = "running" /\ task'[t].status = "done" => UserMove(t, "done")]_vars

(* The link of a task to its session never breaks: the session it points   *)
(* to exists and is linked back to that task, so its reports reach the     *)
(* task.  The only step that may break it is the end of a start that links *)
(* its task to a session which was deleted during the start's awaits.      *)
Reached(t) ==
    LET s == task[t].session IN
    s # NoSession => sess[s].proc \in {"running", "dead"} /\ sess[s].task = t
StartOfDeleted(t) ==
    \E a \in Actors :
        /\ start[a].pc = "configure" /\ start[a].task = t /\ start'[a].pc = "idle"
        /\ task'[t].session # NoSession /\ sess[task'[t].session].proc = "deleted"
        /\ task'[t].session \in {start[a].session, start[a].prev}
LinkHolds == [][\A t \in Tasks : Reached(t) => Reached(t)' \/ StartOfDeleted(t)]_vars

(* What sessions report never moves an archived task: only a start that    *)
(* was in flight, a tick that took it for a candidate before it was        *)
(* archived, or the user, does.                                            *)
Scanning(t) == tick.pc = "scan" /\ t \in tick.todo
ArchivedUntouched ==
    [][\A t \in Tasks :
          task[t].archived /\ task'[t].archived /\ start' = start /\ ~Scanning(t)
          => task'[t].status = task[t].status]_vars

(* A paused goal's tasks get no new session and no new work from the       *)
(* scheduler, even in a tick that began before the pause.                  *)
PausedNotStarted ==
    [][paused => \A t \in GoalTasks :
          /\ start["tick"].pc = "idle" /\ start'["tick"].pc = "spawn"
             => start'["tick"].task # t
          /\ tick.pc = "scan" /\ task[t].status # "running" => task'[t].status # "running"]_vars

-----------------------------------------------------------------------------
(* Liveness *)

(* Every goal task is worked on and judged: it ends up done or blocked,    *)
(* unless the session last started for it rests in vain, where only the    *)
(* user goes on: its ready event was ignored, or its task runs and it has  *)
(* reported no packet, or one was applied before and it is not heard again.*)
LeftToUser(t) ==
    LET s == task[t].init IN
    /\ s # NoSession /\ sess[s].proc = "running" /\ ~sess[s].mail
    /\ \/ task[t].status = "running"
       \/ task[t].status = "review" /\ task[t].source = "evaluator"
    /\ \/ sess[s].turn = "unheard"
       \/ /\ sess[s].turn = "idle" /\ task[t].status = "running"
          /\ sess[s].packet = "none" \/ s \in latched
GoalTasksSettle ==
    \A t \in GoalTasks : <>[](task[t].status \in {"done", "blocked"} \/ LeftToUser(t))

(* A running task does not stay with a session that died, provided the hub *)
(* had not yet noticed, no start of the task is in flight, and no packet   *)
(* of the session was applied before.                                      *)
Abandoned(t) ==
    /\ task[t].status = "running" /\ task[t].session # NoSession
    /\ sess[task[t].session].proc = "dead"
FreshlyAbandoned(t) ==
    /\ Abandoned(t) /\ sess[task[t].session].active
    /\ task[t].session \notin latched
    /\ \A a \in Actors : start[a].task # t
FreshDeadSessionReleased == \A t \in Tasks : FreshlyAbandoned(t) ~> ~Abandoned(t)

(* A task that waits for the runner is taken up, or blocked, once the      *)
(* runner stays online.                                                    *)
Waits(t) == task[t].waiting /\ task[t].status \in {"planning", "review"}
WaitersResume == <>[]runner => \A t \in Tasks : Waits(t) ~> ~Waits(t)
=============================================================================
