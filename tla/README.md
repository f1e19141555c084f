# HOPI in TLA+

HOPI keeps AI coding agents (Claude Code, Codex, Gemini, OpenCode) working on a product
goal: a hub holds a Kanban board, starts an agent session for each task when the lanes
allow it, moves the task when the session reports, and merges what was accepted. This
directory holds TLA+ models of the parts whose correctness depends on interleavings,
failures and stale reads, the TLC configurations that check them, and TLAPS proofs about them.

Paths below are relative to the repository root.

## 1. The system

```
  web PWA / Telegram          hub (one Node/Bun event loop, SQLite)          machine
  ------------------          ------------------------------------          -------
  REST, SSE            <-->   web/routes, sse, notifications
                              syncEngine + eventPublisher
                                autoRunScheduler  --spawn-->                 runner
                                taskSessionService --RPC------------------>   (cli/src/runner)
                                taskAutomation    <--messages, alive---       agent session
                                taskAutoMerge     --git RPC--------------->   (cli/src/agent,
                                sessionCache, machineCache, store              claude, codex, ...)
                              socket/handlers  <== socket.io ==>              api/apiSession
```

| Component | State | Operations | Hard behaviour | What makes it correct |
|---|---|---|---|---|
| Tick discipline of `hub/src/sync/autoRunScheduler.ts` (shared by `omc/executionAutomation.ts`) | `tickTimers`, `runningTicks`, `pendingTicks`, `knownProjects` | `requestTick`, `tickProject` entry and `finally`, periodic tick, seeding | requests arrive while a tick awaits; restart clears memory | no request is lost; a tick is never swallowed |
| Scheduler body (`autoRunScheduler.ts`) | a snapshot of the project and of the tasks, counts per lane | materialise, recover runner-offline blocks, scan, continue, start, block, wait | the snapshot is stale after each await | one worker per task, lane caps, holds and pauses respected |
| Session starts (`taskSessionService.ts`) | locals kept over awaits: previous session, role, retry count | spawn, wait for activity, link, prompt, set up | two callers, time-outs, late sessions, deletions | the session of a task reports to that task |
| Task automation (`taskAutomation.ts`, `goals/goalActionPacket.ts`) | `appliedGoalActionPacketBySessionId`, last `active` per session | ready event, interruption, inactivity, prompt, action packets | reports out of order, replays after restart, superseded sessions | review before done; dead sessions release their tasks |
| Sessions and machines in memory (`sessionCache.ts`, `machineCache.ts`) | `active`, `thinking`, `runnerReady` | alive, end, expire, refresh, rename, delete | inferred from heartbeats | reports reach the task that the session serves |
| Store (`hub/src/store`) | SQLite rows of tasks, goals, sessions, messages | updates with normalisation (blocker fields), versioned updates, numbered messages | concurrent versions | a version is written once; numbers have no gap |
| Auto-merge (`taskAutoMerge.ts`, merge routes of `web/routes/tasks.ts`) | `inFlightAutoMergeKeys`, `inFlightConversationMergeMonitorKeys`, `mergeRuntime` on the task | merge, ask for a repair, block, finish, cancel | three loops share a row and a worktree; git answers late or not at all | merged means landed; no work removed; bounded repairs |
| Versioned state (`cli/src/api/apiSession.ts`, `versionedUpdate.ts`, `utils/lock.ts`, hub handlers) | copies of metadata and agent state with their versions, `AsyncLock` | update, acknowledge, broadcast, hub-side edit | optimistic locking with lost answers | no edit lost, no older copy, every call ends |
| Message delivery (`apiSession.ts`, `messageService.ts`, `store/messages.ts`) | `lastSeenMessageSeq`, `needsBackfill`, `backfillInFlight` | live receive, disconnect, backfill pages | live and paged messages overtake each other | in order, once, nothing skipped without a reason |
| Agent session (`claudeRemoteLauncher.ts`, `claudeRemote.ts`, `loop.ts`, `MessageQueue2.ts`, `OutgoingMessageQueue.ts`, `permissionHandler.ts`) | queued prompts, the batch held back for the next process, the turn in flight, pending requests, delayed messages | push, batch, hand over, relaunch, ask, answer, abort, switch | prompts, answers, aborts and crashes at any await | prompts taken once, in order and in their mode; the end of a turn announced |
| Runner (`cli/src/runner`, `cli/src/persistence.ts`) | lock file, state file, tracked children, spawn awaiters | start, hand over, heartbeat, shutdown, spawn, webhook, stop | processes act between any two file operations; webhook races the time-out | one runner at a time; a session reported as started can be stopped |
| Goals, decisions, todo files (`goals/*`) | `todo.yml`, goal documents, decision topics | import, sync, decide | files and rows drift | rows and tasks agree |
| OMC programs (`sync/omc/*`) | JSON program files, attempts | plan, execute, review | file state and two automations | not modelled yet |
| Terminals, RPC, SSE, visibility, push, Telegram, tunnel, web PWA, website, OMC-client | registries and views | fan-out and presentation | time-outs | not modelled |

`PROJECT.json` lists all of them with their sources, and the hazards with their lines.

## 2. The modules

| Module | Models | Checked by | Proved in |
|---|---|---|---|
| `TickGate` | how ticks are coalesced, armed, remembered and re-armed; restarts | `tick_gate` | `TickGateProofs` |
| `TaskBoard` | scheduler body, starts, task automation, action packets, session life, user routes, restart | `board_*`, `v_restart_accepts` | `TaskBoardProofs`, `TaskBoardReviewProofs` |
| `TaskMerge` | the merge of one accepted task by the auto-merge, a user's request and its monitor | `auto_merge` | `TaskMergeProofs` |
| `RemoteAgent` | one Claude session on the machine: prompts, launches, turns, permissions, outgoing messages | `remote_agent` | `RemoteAgentProofs` |
| `Runner` | runner processes with their lock and state file, and the sessions they start | `runner`, `v_two_runners` | `RunnerProofs` |
| `VersionedState` | one session's metadata, edited optimistically by CLI processes and the hub | `versioned` | `VersionedStateProofs` |
| `MessageDelivery` | live messages and backfill pages through one handler | `delivery` | `MessageDeliveryProofs` |

`MC*` modules give the constants their values. `TaskBoard` contains an instance of
`TickGate` (`Gate`) whose variables are mapped from `gate`: `TaskBoard` is shown to implement
`TickGate` both by TLC (`board_live` with fairness, `board_users` across a restart) and by TLAPS
(`BoardImplementsGate`, the safety part). The modules meet at the turns of a session:
`TaskBoard` sees a session as an agent that takes its mail, ends its turn and reports;
`RemoteAgent` is that agent, `Runner` what makes and ends its process, `MessageDelivery` and
`VersionedState` the two ways in which hub and session talk, and `TaskMerge` what follows when
the board accepts a task. They are checked one by one: only `TickGate` and `TaskBoard` are composed.

Definitions marked `Mutant` are variants that a plausible slip in the code would give; no
specification uses them. Each shows that one of the properties can fail.

`TaskMerge`, `RemoteAgent` and `Runner` take a set of *scenes*: each behaviour picks one at the
start, and it says which faults and users that behaviour may meet. A run then checks many small
combinations instead of one that is too large.

### TickGate

`timers`, `running`, `pending` and `known` are the four maps of `AutoRunScheduler`. `live` is
the set of projects that are not archived. `owed` and `carried` are history variables:
what was requested and not yet served in this boot, or in an earlier one. One step is one
turn of the event loop. `Arm` is `requestTick`: a running project is marked, any other gets
one timer. A tick is a `StartTick` and a later `FinishTick` (the `finally` block); `Request`
may happen in between, as the tick itself emits events and awaits. `Archive` includes the
request that its `project-updated` event makes. `Restart` empties the maps and seeds `known`
with the live projects.

### TaskBoard

One project. A step is a turn of the hub, or the part of a turn of `tickProject` that handles
one candidate; during such a part nothing else runs (`HubIdle`). What the code reads before an
`await` is kept in `tick.snap`, `tick.auto` and `start[a]`, and used after it, as in the code.

| State | Code |
|---|---|
| `task[t]` | the row of `tasks`: status, `activeSessionId`, `blockedSource`, `source`, the parts of `initRuntime` that steer control |
| `sess[s]` | the agent process (`proc`, `turn`, `mail`), the hub's view (`active`, `thinking`), the link metadata (`task`, `role`), the last action packet in its messages |
| `latched` | `appliedGoalActionPacketBySessionId` |
| `gate`, `tick`, `start[a]` | tick maps, the locals of `tickProject`, the locals of `startSessionFromTaskInternal` for the scheduler and for the user |
| `runner`, `autoRun`, `paused` | the machine's readiness, the project's and the goal's switches |
| `reload` | sessions that `reloadAll` has still to announce after a restart |

| Actions | Code |
|---|---|
| `Heartbeat`, `BecomeInactive` | `sessionCache.handleSessionAlive`, `handleSessionEnd` and `expireInactive`, with what the scheduler and the automation do on the events they emit |
| `StartTurn`, `EndTurn`, `Ready`, `ReadyWithoutReply`, `Interrupt`, `Die` | the agent's turn, its ready event (`handleMessageReceived`), the same event when it says that there was no reply and the hub ignores it (fault `mute`), the interruption event, the death of its process (also by finishing its task) |
| `BeginStart`, `SpawnFails`, `SpawnSucceeds`, `FinishStart` | `startSessionFromTaskInternal` from one await to the next |
| `StartTick` ... `FinishTick` | `tickProject`: materialise and revive (`PrepareTick`), skip, continue in the linked session, wait for the runner, start |
| `UserMove` ... `UserDelete` | the routes of tasks, goals, projects and sessions; a session may be deleted when the hub takes it for inactive, also while its process lives: what that still says is refused, so the model ends it |
| `RunnerStops`, `RunnerReady`, `Restart`, `Reload` | machine events; the hub's restart and its announcements |

`Report` is the whole chain of one report: the new task record, the latch, the events emitted,
and the tick that they request.

What the module abstracts: automation readiness is "ready"; sessions are simple, so auto-merge
(the subject of `TaskMerge`) and auto-commit do nothing; the workflow is the default one; the
goal's own autopilot is off (the planner and radar tasks it would create exist only if they are
there at the start, see `InitSource`), so `project.autoRunEnabled` drives the board; agents ask
for no permission; there are no `project_init`, improvement or GSD tasks and no open decision
topics; the `todo.yml` row of a task follows its status because each status patch syncs it; the
agent flavor and model are left out. A session becomes active in the step that spawns it, and a
spawn whose session never becomes active is a failed spawn: the orphan it leaves is linked to no
task and inert. Writing the link metadata succeeds. The packet kind `other` stands for a packet
without a task update. Users act on tasks that are not archived.

The runs use `MCTaskScenes`. `board_core`, `board_settle` and `board_users` each join scenes, told
apart by the tasks that were retired before the start; `AgentsSpec`, of `board_live`, is the
specification without users. `v_restart_accepts` uses `MCTaskBoard`.

### TaskMerge

One goal task in review whose session works in a git worktree. Three loops may drive its merge:
`auto` is `autoMergeAcceptedTask`, `route` the handler of `POST worktree/merge`, and `monitor`
the loop that such a request leaves behind when the session is busy or has a conflict to repair.
They know of each other by one key in memory each and share the row of the task.

| State | Code |
|---|---|
| `task` | status, whether `worktreeMergedAt` is set, `mergeRuntime.status` (the five active ones as one), `mergeRuntime.retryCount` |
| `sess` | the session: active, busy, and whose prompts its turn answers |
| `repo` | versions: `src` is the newest in the worktree, `base` what both branches share, `landed` the newest on the target; whether the two clash; whether the worktree is there |
| `proc[l]` | each loop: its place between two awaits, git's answer, the repairs it counts, its copy of the row |
| `cancel` | a cancel request that awaits its abort, with the count that it read |

`Load`, `AutoState`/`RouteState`/`MonitorState`, `Merge`, `AutoAnswer`/`UserAnswer`, `Persist`,
`Cleanup` and `Kill` are the parts of a loop from one await to the next, `AutoRepaired`,
`MonitorRepaired` and `MonitorFree` the ends of its waits. `EndTurn` is the ready event of the
session, `Accept` and `RetryCommand` are what starts the auto-merge. A git answer may hide that
the merge landed. `crowd` is a history variable: two loops, or a loop and a working session, were
in the worktree at once; the code does not exclude it, and most properties end there. Not modelled:
the named steps of a merge workflow and workspaces with several repositories.

### RemoteAgent

One step is one turn of the event loop of a session's process. What the launcher does without
waiting for anything outside takes several steps, between which only the rest of a page of
prompts may arrive (`Settled`).

| State | Code |
|---|---|
| `queue` | `MessageQueue2.queue`; a prompt is its number, the hash of its mode, its permission mode, and whether it is a command that is handed over alone |
| `run` | the launcher: where it is, the batch kept for the next process (`pending`), the mode of the process, how the process ended, the exit asked for |
| `turn` | `turnInFlight` with `activeTurnHasAssistantReply`; how the last one ended |
| `perm`, `call`, `shown` | the permission mode, the tool calls and the one request awaited, the requests in the agent state |
| `out` | `OutgoingMessageQueue`: the messages not yet sent, which of them are held back, the timer |

`Launch`, `NextPrompt`, `Perish` are the loop of `claudeRemoteLauncher`; `FileFound`, `Say`,
`Use`, `Ask`, `ToolResult`, `Result` what `claudeRemote` reads of the agent; `Receive`,
`Answer`, `SetPerm`, `Abort`, `Switch` the RPCs and messages of the hub; `Deliver`, `Expire` the
timers of the outgoing queue. The agent itself may do anything: speak, call tools, end its turn,
crash. The local mode is one place of the launcher that ends. A crash is an exit with an error.

### Runner

`lock` and `state` are the two files, and every read or write of one is a step, since other
processes act in between. `proc[r]` is a runner process: its place in the start
(`startRunner`, `stopRunner`, `acquireRunnerLock`), in service (`up`, `retired`) or in shutdown,
what it last read, the attempts it has made at the lock, the version that it recorded when it wrote
the state. `check` is another command that found the runner dead and cleans up
(`checkIfRunnerRunningAndCleanupStaleState`): the parent of a `runner start` polls every 100 ms beside
the runner that it started (`commands/runner.ts:53-68`), also when a runner replaces itself, and `Look`
is enabled in every scene. One such command is between its steps at a time. `check.late` is a history
variable: a file that it removed was that of a live runner. `sess[s]`, `tracked`, `known` and
`answer` are the sessions, `pidToTrackedSession` with the ids reported so far, and what became of
each spawn. `Beat` and `BeatEnds` are the heartbeat around its read of the state file; `Report`
and `Hear` the webhook of a session, which goes to the runner that the state file names at that
time. Process numbers are not used twice. Heartbeats of two runners do not overlap: they take
milliseconds once a minute. `ForcedExit` is the one-second limit of a shutdown.

### VersionedState

`hub` is the row, `copy[c]` a client's value and version, `lock[c]` its `AsyncLock`,
`phase[u]` the place of a call of `updateMetadata` in lock, attempt, answer and backoff. A value
is the set of the edits it contains (the handlers that the code passes are merges), so an edit
is lost when a later value misses it. `up` and `down` are the two directions of the socket: in
order, and emptied by a disconnection, on which the pending acknowledgement is rejected.
`HubEdit` is an edit by the hub (task link, rename), which reads and stores in one turn and
does not tell the clients. The same module covers `updateAgentState`. Not modelled: answers
refused for lack of access, and values that the schema rejects.

### MessageDelivery

`store` is the session's message table: a message is its number, and only its author is kept.
`live` is what is under way on the socket, `run` the backfill in flight with its cursor and
the page answered. `Handle` is `handleIncomingMessage`, which both paths use. The null cursor is
0. `lost` is a history variable: a message enters it when something in the code gives it up (a
live message jumps over it, a backfill fails, is skipped for lack of a cursor, or is joined by a
later connection), so `EveryMessageArrives` says that nothing else loses one. HTTP works while
the socket is closed; the CLI's own messages are sent on an open socket.

## 3. What the runs check

| Run | Question | Bounds, and why they are enough |
|---|---|---|
| `tick_gate` | no request for a tick is lost; each is served, across restarts | two projects (they do not interact), two restarts (one during a tick, one after) |
| `board_core` | one worker per task, done only by an evaluator, an evaluator that reports nothing is retried once, done is final | scene "work": a goal task and a plain task compete for one machine with three sessions; deaths, interruptions, failed spawns, ignored ready events; every packet that changes what is checked. Scene "silent": a goal task in review whose evaluators may report nothing, with a session for each try and one to exceed the bound |
| `board_users` | links, the tick discipline and the review step outlive users and a restart; a pause holds even in a running tick; reports leave archived tasks alone | scene "switches": one goal task, two sessions; pause, auto-run, rename, delete and archive between any two turns, an unreliable runner, one restart at any idle point. Scene "prompts": a plain task that is moved, started and prompted while its sessions lose their connection and are deleted. Scene "hold": one tick has an evaluator to start for one task of the goal and a generator for another, and the pause may come between the two (a tick that no longer asks for the goal's switch after its first start is caught there) |
| `board_settle` | every goal task ends done, blocked or left to the user in the cases of `LeftToUser` | scene "pair": two tasks share a lane limit of one, their turns end with "done" or "blocked", spawns fail. Scene "alone": one task with three sessions, whose turns end with any packet or with none and whose ready events may be ignored: rounds, retries of a silent evaluator, second packets of a session |
| `board_live` | the board implements `TickGate` with its fairness; a dead session releases its task; a task that waits for the runner resumes | one task, two sessions; the runner stops and returns any number of times |
| `auto_merge` | merged means landed, no work is removed, repairs are bounded over restarts, an active merge has a loop at work on it, every loop ends | two versions of the worktree; up to three clashes for a limit of two repairs; two restarts; in the other scenes one request, prompts, moves and a cancellation. Errors and time-outs come at any await |
| `remote_agent` | prompts are taken once, in order and in their mode; the end of each turn is announced; a request is shown exactly while it is awaited; nothing stays stuck | two modes and two prompts (one batch, or one that must wait for a new process), two tool calls (one asked for, one before or after it); five scenes of aborts, switches, crashes, plans and commands |
| `runner` | one runner at a time through upgrades and crashes, up to a clean-up that comes late; duplicates end; starts settle; each spawn is answered; sessions reported as started can be stopped and keep their worktree | three runner processes (one serving, one that replaces it, one more), two attempts at the lock, one session; seven scenes, of which those with a session, and the one with both simultaneous starts and signals, have two runners |
| `versioned` | no edit lost, copies never go back, one update at a time, every call ends | two clients, two calls on one and one on the other, a hub edit, one disconnection and one error: an answer lost after it was stored, a queue on the lock, a copy two versions behind |
| `delivery` | in order, once, no unexplained gap, everything arrives | pages of two, five messages (three pages), two disconnections (so that one connects while a run is in flight), one resend, one failure |

Tasks start as `manual` ones in every run (`MCInitSource`); that planner and radar tasks keep types,
blockers and links is covered by the proofs. Types are checked by proof rather than by a run,
except in `delivery`.

### Disagreements between the code and its documents

Each `v_*` run checks one statement of a document or a test, and TLC refutes it with what the
code does.

| Run | Statement | What happens |
|---|---|---|
| `v_restart_accepts` | a generator's "done" leads to review (`taskAutomation.test.ts:1412`) | the latch is in memory (`taskAutomation.ts:637`): after a restart the generator's old packet is applied again, to its task now in review, where "done" is taken for an evaluator's |
| `v_two_runners` | the lock file "prevents multiple instances" (`persistence.ts:203`) | a command that found the runner dead removes the state and the lock of one that started in between (`persistence.ts:187`), and the next start runs beside it; `DuplicatesEnd` shows that all but one of them end later |

### Where the other properties end

These properties hold under the conditions named, and not beyond.

* `NoShortcut` fails when users prompt a goal task: a prompt that reaches the evaluator
  at the end of its turn moves the task to running, and its packet then moves it to done. An
  evaluator whose packet says "running" does the same.
* `OneWorker`, `DoneIsFinal` and `AcceptedByEvaluator` are proved for what section 5 calls an
  *unattended* board, and `EvaluatorAttemptsBounded` for one whose verdicts send no task back. Each
  exclusion is needed by at least one of them, and TLC finds what happens without it:
  * users start a session: the route begins another session for a running task and leaves the
    first one at work (`OneWorker`);
  * users prompt: the session of a finished turn works again beside its evaluator (`OneWorker`);
  * users move a task: "done" needs no evaluator (`AcceptedByEvaluator`);
  * a live session is taken for dead (`Faults` with `partition`): the evaluator is retried while
    the first one still works (`OneWorker`);
  * the runner goes offline: the wait for it resets the retry count (`EvaluatorAttemptsBounded`);
  * the hub restarts: the finding `v_restart_accepts` (`AcceptedByEvaluator`).
* `ArchivedUntouched` leaves out a tick that has read the task: archiving does not take it off the
  list, and `continueTaskInLinkedSession` (`taskSessionService.ts:1398`) does not look at
  `archivedAt` of the record it reads again.
* `LinkHolds` has one exception, which the code reaches: a session may be deleted while a start that
  holds its id awaits, and the end of that start links the task to it (`StartOfDeleted`).
* `GoalTasksSettle` has the exceptions of `LeftToUser`, in all of which the session last started for
  the task rests with nothing to do: the hub ignored its ready event, which said that there was no reply
  (`taskAutomation.ts:585`), and with it the packet and the retry of an evaluator; it ended its turn
  without a packet while the task runs; or its packet is the second one of the session, which the
  latch drops. TLC reaches each of them.
* `FreshDeadSessionReleased` speaks of sessions that no start still awaits: the start of one that
  died meanwhile writes `running` afterwards, and nothing looks at the session again.
* The merge properties hold as long as the loops keep out of each other's way (`~crowd`).
  `RuntimeHasRunner` ends with a restart, with a wait that runs out, and when a merge is left to a
  monitor that has merged already (`tasks.ts:1697` answers false, which its callers at 5735 and
  5883 ignore). The run has one request in each scene; the proof covers the last case.
* `HandedOver` is for starts that do not meet, without stop signals, and up to the first time that a
  command which saw a dead runner removes a file of a live one (`check.late`). The last is within the
  reach of a plain `runner start`, whose parent polls beside it: `v_two_runners`. Beyond these conditions
  `DuplicatesEnd` is what is left.
* `PromptsAccounted` counts prompts that were kept for the next process as discarded when the
  user leaves the remote mode or the session.
* `TurnReported` leaves out turns that end with a refused tool, with a plan or with a switch, which
  the code does not announce; a turn announced while its text is held back counts as one
  without a reply.

### Seen while modelling, and not stated as properties

* Board: a lane limit counts only sessions that said they think, so successive ticks exceed it;
  plain tasks in review get sessions from the scheduler; a start links its task to a session that was
  deleted while it awaited.
* Merge: a task that is accepted while its session is inactive is done without a merge
  (`taskAutomation.ts:616`); `retry_task_merge` does nothing for a blocked merge; the auto-merge does
  not look whether the session is busy; a cancellation does not stop it; a move during a merge is
  overwritten; nothing resumes an active merge after a restart.
* Session: a late reply may count for the next turn; prompts handed to a process that is being
  aborted count as taken; queued prompts keep the permission mode of their arrival.
* Runner: a crash between the creation of the lock and its writing leaves an empty lock that blocks
  later starts; a heartbeat writes the state even when it decided to end; a worktree is kept when a
  spawn timed out and its process dies later; sessions of an earlier runner are unknown to the next.

## 4. Fairness

`TickGate`: timers fire, and ticks end, since each await in them has a time-out. Nothing makes
events arrive.

`TaskBoard`: the turns of one event loop interleave, so an action that is due may be disabled for
the length of another turn (`HubIdle`) and enabled again; the loop takes it up between two turns.
That is strong fairness, for the agent's turns, the heartbeat of live sessions (sent every
few seconds), the expiry of dead ones, the awaits of starts (each with a time-out), the periodic
tick, and the return of an offline runner. The parts of a tick and the announcements after a
restart run without interruption and need weak fairness only. Users, deaths, interruptions
and restarts have none. The finite set of sessions only makes later spawns fail.

`TaskMerge`: each loop goes on (weak fairness of its steps): a git call answers or its RPC times
out, and the waits for the session have a time-out of their own. Nothing makes the session end
its turn. A wait can run out only in scenes with the fault `timeout`, and every scene has it.

`RemoteAgent`: the launcher runs on, timers fire, the session file is waited for at most ten
seconds, a killed process ends, and an agent that is not left without an answer ends its turns.
Users need do nothing, so `NothingStuck` excuses a session that waits for an answer.

`Runner`: processes run on, the time-out of a spawn fires, killed processes end, a command that
cleans up finishes. The heartbeat needs strong fairness, as the guard that keeps two of them apart
may disable it again and again. Crashes, signals, starts and upgrades have none.

`VersionedState` and `MessageDelivery`: timers fire, sockets reconnect and deliver, HTTP requests
are answered. Disconnections and failures are bounded and have no fairness: liveness is claimed
once they stop.

## 5. What is proved

For every value of the constants, from the assumptions named in the modules. The theorems of
`TaskBoardReviewProofs` also name, as hypotheses, the users and faults they exclude; all others hold
for every environment of the model. Each invariant and action property of a passing run is stated
by a theorem. Each module proves the types (`*TypeCorrect`); the rest is:

* **`TickGateProofs`** — `TickNoLostRequest`, `TickNeverSwallowed`, `TickPendingWhileRunning`.
  The inductive invariant is the conjunction of the type and the three properties. None of
  them is inductive alone: `FinishTick` keeps `NoLostRequest` because pending projects run, and
  `StartTick` because no timer is armed for a running one.
* **`TaskBoardProofs`** — `BoardBlockers`, `BoardLinks`, `BoardImplementsGate`, `BoardPauseHolds`,
  `BoardArchived`.
  `Typed` joins the type invariant and `BlockerOnlyWhenBlocked`; a lemma per record operator says
  it yields a *sound* record, and a lemma per group of actions follows. `BoardLinks` rests on
  `LinkCoherent`, which says that a session a task points to, deleted or not, was made for that task,
  and on `StartLinks`: the session that a start holds over its awaits, and the previous one it may
  write back, are linked to its task. `UserDelete`, the only step
  that deletes, clears the tasks that point to the session; which leaves the starts that hold it. `BoardImplementsGate` uses `Phases`, which says
  that `gate.running` holds exactly while a tick is under way and that timers and marks exclude
  each other; each group of steps maps to a step of `TickGate` or to a stutter.
  The two action properties follow from `Typed` and the guards, step by step: `BoardPauseHolds`
  because the tick looks at the goal again for each candidate, in the turn in which it starts it, and
  `BoardArchived` because every way from a report to a status (`Applicable`, the ready event, the
  interruption) asks whether the task is archived.
* **`TaskBoardReviewProofs`** — the work on a task and its review, in five theorems.
  - `BoardOneWorker`, `BoardDoneFinal` and `BoardAccepted` are for an `Unattended` board: users do
    not start, prompt or move (they may archive, pause, rename, delete and switch auto-run), live
    sessions keep their connection, and the runner and the hub stay up. Sessions die and are
    interrupted, spawns fail, packets say anything at any time. None of the three is inductive: a
    late packet, a start that awaits its spawn, and a candidate that a tick has read each carry
    an old view of the task. `Orderly` says of one task what those views are still worth: at most
    one session has something to do or to tell, and while it has, no other is being started and no
    tick considers the task, unless that session judges it (`Exclusive`); what a start and a scan
    may rely on after their awaits (`StartHolds`, `ScanHolds`); and that while a retry is left no
    evaluator without a verdict is forgotten, so that no attempt is given away twice (`Quota`).
    The lemmas take one operator at a time (a report, the ready event, the end of a start, a
    scan) and one task at a time.
  - `BoardAttempts` counts the evaluators started so far (`Counted`), for verdicts that send no task
    back (`NoneSentBack`): the retries used and one, and one fewer before another may start.
  - `BoardNoShortcut` needs less. For a board left to itself (`ByItself`: no start, prompt or move by
    users, no packet "running") it holds through restarts, lost connections and an offline runner:
    a task that runs never carries the source "evaluator", which alone makes "done" direct
    (`ReviewFirst`).
  - TLC checked the invariant of the first three before it was proved, in complete runs of one
    goal task with three and with four sessions, of two goal tasks, and of a goal task beside a
    plain one, with all packets and the faults that `Unattended` allows (`mute` excepted).
* **`TaskMergeProofs`** — `MergeRepairsBounded`, `MergeKeptUntilLanded`, `MergeRuntimeHasRunner`,
  `MergeMergedIsLanded`. All but the third hold up to the first `crowd`. The parts of the invariant: an active runtime has a loop (`Attended`);
  while `crowd` is false at most one loop is at work, and the session is idle while a loop merges
  (`Uncrowded`); then a loop that was told of success has all work on the target, and so has a
  task without worktree (`Landed`); the counts in the row, in a cancellation, in the loops and in
  their copies are not behind the repairs asked for (`Counted`), which is why restarts do not reset
  the bound.
* **`RemoteAgentProofs`** — `AgentPromptsAccounted`, `AgentTakenInOrder`, `AgentModeOfProcess`,
  `AgentTurnReported`, `AgentShownIsAsked`. `Orderly` says that what was handed over, what is
  kept for the next process and what is queued are apart and in the order of arrival; `Attentive`
  that the calls which a request may be about are those of this process; `Matches` relates the
  modes of the process, of the launcher and of the turn; `Told` says at which places of the launcher
  a turn is open.
* **`RunnerProofs`** — `RunnerHandedOver`, `RunnerSuccessIsKnown`, `RunnerTreeKept`.
  `Handing` is the argument of the handover: one start at a time; the state file names the runner
  that serves, unless it is being replaced; the lock is tried only when no runner is left in the
  file; a runner that is asked to stop is out of date and alone, and all others are up to date, or will
  be when they boot (`Fresh`). It holds up to a late clean-up, and one that is not late removes only
  files of dead runners (`CleanUpHands`). `Serving` says that the runner of a
  session was started, that worktrees are removed after death, and that success implies a known id.
* **`VersionedStateProofs`** — `VersionedCopies`, `VersionedNoLostEdit`, `VersionedOneAtATime`,
  `VersionedCopyNeverOlder`.
  The data half of the invariant says that the history of values grows
  (`History`), that each request under way is sensible (its version is a past one, and its value is
  that version's value plus its own edit: `Asked`), and that each row under way back to a client is
  a version of the hub (`Answered`). The lock half says that the permit is gone exactly while a call
  is busy (`Permit`), that the waiters are the waiting calls, each once (`Queue`), and that a busy
  call has one request or answer under way only while it is in flight (`OneUnderWay`).
  `VersionedCopyNeverOlder` is about the client that takes an acknowledgement without comparing
  versions: the rows under way to it are in the order of their versions (`Rising`), and no
  acknowledgement among them is older than its copy (`AcksFrom`), since the socket keeps order and a
  disconnection empties it.
* **`MessageDeliveryProofs`** — `DeliveryInOrder`, `DeliveryJumpsExplained`. Whatever is handled is
  an interval of numbers, so the handler passes on its newer end (`HandleInterval`); with `Caught`
  (nothing handed over is newer than the cursor) the order follows. For the gaps, `Reached` says
  that while no backfill is owed every missing message beyond the cursor is on the socket behind
  earlier ones only, and that the same holds beyond the end of a last page.

`BlockerOnlyWhenBlocked`, `NoSwallowedTick`, `PendingWhileRunning` and `CopyIsAVersion` are
proved and therefore not run.

Only model-checked: the liveness properties, which need fairness and `ENABLED`. That
`TaskBoard` implements `TickGate` is proved for its steps, and checked by TLC for its fairness
(`board_live`).

## 6. Plan

1. **Done**: `TickGate`, `TaskBoard`, `VersionedState`, `MessageDelivery`, `TaskMerge`,
   `RemoteAgent`, `Runner`, with their proofs.
2. Models to add, in this order:
   * `SocketOutbox`: what the CLI sends while it is offline (`cli/src/api/socketOutbox.ts`), in front
     of `MessageDelivery`.
   * the permission request of `taskAutomation.ts` in `TaskBoard`, and the permission adapters of the
     other agents beside that of Claude.
   * `GoalPlanner`: the planner and radar tasks of a goal's autopilot; decision topics as holds.
   * `TerminalRegistry`: limits, idle time-outs and detached sockets; `goalTodo` dependency cycles
     as a pure algorithm against a reference definition.
   * `OmcExecution`: the second user of the tick discipline.
3. Proofs to add: `BoardDoneFinal` and `BoardOneWorker` across an offline runner (with `Quota`
   restated for retries that are reset); an abstract specification of the life of one task (planned,
   running, reviewed, done) and the board as its implementation.

## 7. Not modelled

Presentation (web, website, OMC-client, Telegram, push), the tunnel, configuration and logging hold
no protocol of their own. Agent back ends are external programs: they appear as turns that end in
any packet, in none, or not at all; the launchers of the other agents are adapters around them.
OMC, goal documents, setup scripts and readiness checks are in the plan or are file and git
operations out of a model checker's reach. Most of the repository's lines are in these parts.
