------------------------------ MODULE TaskMerge ------------------------------
(***************************************************************************)
(* The merge of one accepted task whose session works in a git worktree.   *)
(* Three loops of the hub may drive it: autoMergeAcceptedTask ("auto"),    *)
(* the request of a user ("route") and the monitor that such a request     *)
(* leaves behind ("monitor").  They share the row of the task and the      *)
(* worktree, and know of each other only by a key in memory each.          *)
(*                                                                         *)
(* One step is what the hub, or the machine for a git command, does        *)
(* between two awaits.  Work is counted in versions: src is the newest one *)
(* in the worktree, landed the newest one on the target branch.            *)
(***************************************************************************)
EXTENDS Naturals, FiniteSets

CONSTANTS
    MaxAttempts,   \* conflictResolution.maxAttempts of the merge workflow
    MaxWork,       \* bound on the versions of the worktree
    Scenes         \* how often, and which, disturbances a behaviour may meet

Scene == [clashes : Nat, restarts : Nat, requests : Nat,
          faults : SUBSET {"die", "error", "unfixed", "timeout", "prompt", "move", "cancel"}]

ASSUME BoundsAssumption ==
    /\ MaxAttempts \in Nat \ {0}
    /\ MaxWork \in Nat \ {0}
    /\ Scenes \subseteq Scene

VARIABLES
    task,      \* the row: status, merged, rt (mergeRuntime.status), retry (mergeRuntime.retryCount)
    sess,      \* the session: active, busy, asked (whose prompts its turn answers)
    repo,      \* git: src, base (what both branches share), landed, clash, tree (the worktree is there)
    proc,      \* each loop: pc, out (git's answer), repairs (asked so far), snap (its copy of the row)
    cancel,    \* the cancel request that awaits its abort: the count that it read
    asks,      \* history: repairs that the auto-merge asked for, up to one too many
    adrift,    \* history: the hub restarted, a wait ran out or a merge was left to nobody, and no loop began since
    crowd,     \* history: two loops, or a merge and a turn, were at the worktree at once
    left       \* what the scene still allows

vars == <<task, sess, repo, proc, cancel, asks, adrift, crowd, left>>

Loops == {"auto", "route", "monitor"}

(* An "active" runtime is queued, waiting, approval_pending, running or    *)
(* retrying: no guard tells these apart.                                   *)
Task == [status : {"planning", "running", "review", "blocked", "done"},
         merged : BOOLEAN,
         rt : {"none", "active", "blocked", "canceled", "succeeded"},
         retry : Nat]

(* shouldMarkFinishedAfterSuccessfulMerge. *)
Finishes(row) == row.status = "review" \/ (row.status = "blocked" /\ row.rt = "blocked")

(* What a loop uses of the row that it read: whether a success finishes    *)
(* the task, its count, and whether it was blocked or canceled before.     *)
Snapshot(row) == [fin |-> Finishes(row), merged |-> row.merged, retry |-> row.retry,
                  again |-> row.rt \in {"blocked", "canceled"}]

Snap == [fin : BOOLEAN, merged : BOOLEAN, retry : Nat, again : BOOLEAN]
NoSnap == [fin |-> FALSE, merged |-> FALSE, retry |-> 0, again |-> FALSE]
LoopState == [pc : {"idle", "load", "state", "free", "merge", "answer", "repair", "persist", "cleanup", "kill"},
              out : {"none", "success", "conflict", "blocked"},
              repairs : Nat,
              snap : Snap]
Idle == [pc |-> "idle", out |-> "none", repairs |-> 0, snap |-> NoSnap]

TypeOK ==
    /\ task \in Task
    /\ sess \in [active : BOOLEAN, busy : BOOLEAN, asked : SUBSET {"auto", "monitor", "user"}]
    /\ repo \in [src : 0..MaxWork, base : 0..MaxWork, landed : 0..MaxWork, clash : BOOLEAN, tree : BOOLEAN]
    /\ repo.base <= repo.landed /\ repo.landed <= repo.src
    /\ proc \in [Loops -> LoopState]
    /\ cancel \in SUBSET Nat
    /\ asks \in 0..(MaxAttempts + 1)
    /\ {adrift, crowd} \subseteq BOOLEAN
    /\ left \in Scene

(* A goal task in review; its session has left work behind, or none.       *)
Init ==
    /\ task = [status |-> "review", merged |-> FALSE, rt |-> "none", retry |-> 0]
    /\ sess = [active |-> TRUE, busy |-> FALSE, asked |-> {}]
    /\ repo \in [src : {0, 1}, base : {0}, landed : {0}, clash : {FALSE}, tree : {TRUE}]
    /\ proc = [l \in Loops |-> Idle]
    /\ cancel = {} /\ asks = 0 /\ adrift = FALSE /\ crowd = FALSE
    /\ left \in Scenes

-----------------------------------------------------------------------------
(* updateMergeRuntime and updateTaskMergeRuntime: an active or blocked     *)
(* runtime puts the task in review, wherever it is by now.  The count is   *)
(* the caller's, who may have read it before an await.                     *)
WithRuntime(row, rt, retry) ==
    [row EXCEPT !.rt = rt, !.retry = retry,
                !.status = IF rt \in {"active", "blocked"} THEN "review" ELSE row.status]

(* isAutoMergeCandidate with resolveAutoMergeTaskSession.                  *)
Candidate(row) ==
    /\ row.status = "done" \/ (row.status = "review" /\ row.rt = "active")
    /\ ~row.merged
    /\ sess.active

(* A loop goes on with new locals, or at pc, or ends and forgets them. *)
Become(l, locals) == proc' = [proc EXCEPT ![l] = locals]
Goto(l, pc) == Become(l, [proc[l] EXCEPT !.pc = pc])
End(l) == Become(l, Idle)

(* Mutant: a resumed merge counts its repairs anew. *)
RequestAutoAnew(row) ==
    IF proc["auto"].pc = "idle" /\ Candidate(row)
    THEN /\ task' = WithRuntime(row, "active", row.retry)
         /\ Become("auto", [Idle EXCEPT !.pc = "load", !.snap = [NoSnap EXCEPT !.retry = row.retry]])
         /\ adrift' = FALSE
    ELSE /\ task' = row
         /\ UNCHANGED <<proc, adrift>>

(* requestAutoMergeAcceptedTask and the first turn of its loop: the row is *)
(* in review and running before anything is awaited.                       *)
RequestAuto(row) ==
    IF proc["auto"].pc = "idle" /\ Candidate(row)
    THEN /\ task' = WithRuntime(row, "active", row.retry)
         /\ Become("auto", [Idle EXCEPT !.pc = "load", !.repairs = row.retry,
                                         !.snap = [NoSnap EXCEPT !.retry = row.retry]])
         /\ adrift' = FALSE
    ELSE /\ task' = row
         /\ UNCHANGED <<proc, adrift>>

(* getNextMergeAttemptRetryCount, for the route; the other loops keep it. *)
Retry(snap) == snap.retry + (IF snap.again THEN 1 ELSE 0)

(* blockMerge and applyBlockedRuntime. *)
Block(l) ==
    /\ task' = WithRuntime(task, "blocked", Retry(proc[l].snap))
    /\ End(l)

-----------------------------------------------------------------------------
(* The evaluator's packet accepts the task, at a ready event or when its   *)
(* session is found inactive, and asks for the merge in the same turn.     *)
Accept ==
    /\ task.status = "review" /\ ~task.merged
    /\ RequestAuto([task EXCEPT !.status = "done"])
    /\ UNCHANGED <<sess, repo, cancel, asks, left>>

(* The command retry_task_merge. *)
RetryCommand ==
    /\ RequestAuto(task)
    /\ UNCHANGED <<sess, repo, cancel, asks, left>>

(* POST worktree/merge, answered at once while a monitor is at work on an  *)
(* active merge.  One request at a time.                                   *)
UserMerge ==
    /\ left.requests > 0
    /\ proc["route"].pc = "idle"
    /\ ~(task.rt = "active" /\ proc["monitor"].pc # "idle")
    /\ left' = [left EXCEPT !.requests = @ - 1]
    /\ Become("route", [Idle EXCEPT !.pc = "load", !.snap = Snapshot(task)])
    /\ UNCHANGED <<task, sess, repo, cancel, asks, adrift>>

(* The session is resolved, which for a user may resume it, and the merge  *)
(* contract is read.  An invalid one blocks the merge; a request that      *)
(* finds no session, or no target branch, answers an error.                *)
Load(l) ==
    /\ proc[l].pc = "load"
    /\ \/ /\ sess' = [sess EXCEPT !.active = @ \/ l = "route"]
          /\ Goto(l, "state")
          /\ UNCHANGED task
       \/ /\ "error" \in left.faults
          /\ Block(l) \/ (l = "route" /\ End(l) /\ UNCHANGED task)
          /\ UNCHANGED sess
    /\ UNCHANGED <<repo, cancel, asks, adrift, left>>

(* git-merge-worktree-state: it needs the session's process and the        *)
(* worktree.  A squashed branch stays ahead of its merge base.             *)
Mergeable == repo.src > repo.base
Reachable == sess.active /\ repo.tree
StateFails == ~Reachable \/ "error" \in left.faults

(* persistSkippedAutoMergeWithoutChanges, up to its first await. *)
SkipAuto ==
    /\ task' = [status |-> "done", merged |-> FALSE, rt |-> "succeeded", retry |-> proc["auto"].snap.retry]
    /\ Goto("auto", "cleanup")

(* Mutant: a branch that cannot be checked counts as one without changes. *)
AutoStateLenient ==
    /\ proc["auto"].pc = "state"
    /\ \/ StateFails /\ SkipAuto
       \/ Reachable /\ Mergeable /\ Goto("auto", "merge") /\ UNCHANGED task
       \/ Reachable /\ ~Mergeable /\ SkipAuto
    /\ UNCHANGED <<sess, repo, cancel, asks, adrift, left>>

AutoState ==
    /\ proc["auto"].pc = "state"
    /\ \/ StateFails /\ Block("auto")
       \/ Reachable /\ Mergeable /\ Goto("auto", "merge") /\ UNCHANGED task
       \/ Reachable /\ ~Mergeable /\ SkipAuto
    /\ UNCHANGED <<sess, repo, cancel, asks, adrift, left>>

(* Mutant: the request leaves no monitor behind. *)
Unscheduled(pc, repairs) == [proc EXCEPT !["route"] = Idle]

(* The monitor begins, unless one is at work: that one goes on instead.    *)
Scheduled(pc, repairs) ==
    LET ended == [proc EXCEPT !["route"] = Idle]
    IN IF proc["monitor"].pc # "idle" THEN ended
       ELSE [ended EXCEPT !["monitor"] = [Idle EXCEPT !.pc = pc, !.repairs = repairs]]

(* A monitor that has merged still counts as at work, but attempts no      *)
(* merge any more: one that is left to it is left to nobody.               *)
LeftToNobody == proc["monitor"].pc \in {"cleanup", "kill"}

(* The rest of the route's turn when computeMergeGitState answers: nothing *)
(* to merge finishes the task or only the runtime; a busy session defers   *)
(* the merge to the monitor; else the merge is attempted.                  *)
RouteState ==
    LET snap == proc["route"].snap
    IN /\ proc["route"].pc = "state"
       /\ \/ StateFails /\ Block("route") /\ UNCHANGED adrift
          \/ /\ Reachable /\ ~Mergeable
             /\ IF snap.fin /\ ~snap.merged
                THEN Goto("route", "persist") /\ UNCHANGED task
                ELSE task' = WithRuntime(task, "succeeded", snap.retry) /\ End("route")
             /\ UNCHANGED adrift
          \/ /\ Reachable /\ Mergeable /\ sess.busy
             /\ task' = WithRuntime(task, "active", Retry(snap))
             /\ proc' = Scheduled("free", 0)
             /\ adrift' = LeftToNobody
          \/ /\ Reachable /\ Mergeable /\ ~sess.busy
             /\ task' = WithRuntime(task, "active", Retry(snap))
             /\ Become("route", [proc["route"] EXCEPT !.pc = "merge",
                                     !.snap = [NoSnap EXCEPT !.fin = TRUE, !.retry = Retry(snap)]])
             /\ adrift' = FALSE
       /\ UNCHANGED <<sess, repo, cancel, asks, left>>

Read(row) == [Snapshot(row) EXCEPT !.again = FALSE, !.merged = FALSE]

(* The monitor of a deferred merge: the session is free, is inactive, or   *)
(* the wait runs out, which leaves the runtime active with nobody at it.   *)
MonitorFree ==
    /\ proc["monitor"].pc = "free"
    /\ \/ task.rt = "canceled" /\ End("monitor") /\ UNCHANGED <<task, adrift>>
       \/ /\ task.rt # "canceled" /\ sess.active /\ ~sess.busy
          /\ Become("monitor", [proc["monitor"] EXCEPT !.pc = "state", !.snap = Read(task)])
          /\ UNCHANGED <<task, adrift>>
       \/ /\ task.rt # "canceled" /\ ~sess.active
          /\ task' = WithRuntime(task, "blocked", task.retry)
          /\ End("monitor")
          /\ UNCHANGED adrift
       \/ /\ task.rt # "canceled" /\ "timeout" \in left.faults
          /\ task' = WithRuntime(task, "active", task.retry)
          /\ End("monitor")
          /\ adrift' = TRUE
    /\ UNCHANGED <<sess, repo, cancel, asks, left>>

MonitorState ==
    /\ proc["monitor"].pc = "state"
    /\ \/ StateFails /\ Block("monitor")
       \/ Reachable /\ Mergeable /\ Goto("monitor", "merge") /\ UNCHANGED task
       \/ /\ Reachable /\ ~Mergeable
          /\ task' = WithRuntime(task, "succeeded", proc["monitor"].snap.retry)
          /\ End("monitor")
    /\ UNCHANGED <<sess, repo, cancel, asks, adrift, left>>

-----------------------------------------------------------------------------
(* Mutant: a merge whose answer is lost counts as merged. *)
MergeTrusting(l) ==
    /\ proc[l].pc = "merge"
    /\ \E out \in {"success", "conflict"}, lands \in BOOLEAN :
          /\ out = "success" => lands \/ "error" \in left.faults
          /\ out = "conflict" => ~lands
          /\ Reachable /\ (out = "conflict") = repo.clash
          /\ repo' = IF lands THEN [repo EXCEPT !.landed = repo.src] ELSE repo
          /\ Become(l, [proc[l] EXCEPT !.pc = "answer", !.out = out])
    /\ UNCHANGED <<task, sess, cancel, asks, adrift, left>>

(* git-merge-worktree commits what the worktree holds and squashes it on   *)
(* the target.  An error may hide that it did: the answer is lost, or the  *)
(* snapshot check after it fails.                                          *)
Merge(l) ==
    /\ proc[l].pc = "merge"
    /\ \E out \in {"success", "conflict", "blocked"}, lands \in BOOLEAN :
          /\ out = "success" => Reachable /\ ~repo.clash /\ lands
          /\ out = "conflict" => Reachable /\ repo.clash /\ ~lands
          /\ out = "blocked" => (~Reachable /\ ~lands) \/ ("error" \in left.faults /\ (lands => Reachable /\ ~repo.clash))
          /\ repo' = IF lands THEN [repo EXCEPT !.landed = repo.src] ELSE repo
          /\ Become(l, [proc[l] EXCEPT !.pc = "answer", !.out = out])
    /\ UNCHANGED <<task, sess, cancel, asks, adrift, left>>

(* A repair prompt is queued for the session's next turn. *)
Prompted(who) == [sess EXCEPT !.busy = TRUE, !.asked = @ \cup {who}]

(* askAgentToRepairAutoMergeConflict, up to its wait: the count is in the  *)
(* row before the prompt is sent.                                          *)
AskRepair ==
    /\ task' = WithRuntime(task, "active", proc["auto"].repairs + 1)
    /\ Become("auto", [proc["auto"] EXCEPT !.pc = "repair", !.out = "none", !.repairs = proc["auto"].repairs + 1,
                                            !.snap = [NoSnap EXCEPT !.retry = proc["auto"].repairs + 1]])

AutoAnswer ==
    /\ proc["auto"].pc = "answer"
    /\ \/ /\ proc["auto"].out = "success"
          /\ Become("auto", [proc["auto"] EXCEPT !.pc = "persist", !.snap = [NoSnap EXCEPT !.retry = task.retry]])
          /\ UNCHANGED <<task, sess, asks>>
       \/ /\ proc["auto"].out = "blocked" \/ (proc["auto"].out = "conflict" /\ proc["auto"].repairs >= MaxAttempts)
          /\ Block("auto")
          /\ UNCHANGED <<sess, asks>>
       \/ /\ proc["auto"].out = "conflict" /\ proc["auto"].repairs < MaxAttempts
          /\ AskRepair
          /\ sess' = IF sess.active THEN Prompted("auto") ELSE sess
          /\ asks' = IF asks > MaxAttempts THEN asks ELSE asks + 1
    /\ UNCHANGED <<repo, cancel, adrift, left>>

(* Mutant: the wait for a repair has no time-out. *)
AutoRepairedPatient ==
    /\ proc["auto"].pc = "repair"
    /\ \/ /\ sess.active /\ ~sess.busy
          /\ Become("auto", [proc["auto"] EXCEPT !.pc = "merge", !.snap = [NoSnap EXCEPT !.retry = task.retry]])
          /\ UNCHANGED task
       \/ ~sess.active /\ Block("auto")
    /\ UNCHANGED <<sess, repo, cancel, asks, adrift, left>>

(* waitForAssistantCompletion: the turn is over, or the session is         *)
(* inactive, or half an hour has passed.                                   *)
AutoRepaired ==
    /\ proc["auto"].pc = "repair"
    /\ \/ /\ sess.active /\ ~sess.busy
          /\ Become("auto", [proc["auto"] EXCEPT !.pc = "merge", !.snap = [NoSnap EXCEPT !.retry = task.retry]])
          /\ UNCHANGED task
       \/ /\ ~sess.active \/ "timeout" \in left.faults
          /\ Block("auto")
    /\ UNCHANGED <<sess, repo, cancel, asks, adrift, left>>

(* The answer to a user's merge, in the route or in its monitor.  A        *)
(* conflict is handed to the session, and the monitor waits for it.        *)
UserAnswer(l) ==
    LET me == proc[l]
    IN /\ me.pc = "answer"
       /\ \/ me.out = "success" /\ Goto(l, "persist") /\ UNCHANGED <<task, sess, adrift>>
          \/ /\ me.out = "blocked" \/ (me.out = "conflict" /\ l = "monitor" /\ me.repairs >= MaxAttempts)
             /\ Block(l)
             /\ UNCHANGED <<sess, adrift>>
          \/ /\ me.out = "conflict" /\ (l = "route" \/ me.repairs < MaxAttempts)
             /\ sess' = IF sess.active THEN Prompted("monitor") ELSE sess
             /\ task' = WithRuntime(task, "active", me.snap.retry)
             /\ IF l = "route" THEN proc' = Scheduled("repair", 1)
                ELSE Become(l, [me EXCEPT !.pc = "repair", !.out = "none", !.repairs = me.repairs + 1])
             /\ adrift' = IF l = "route" THEN LeftToNobody ELSE adrift
       /\ UNCHANGED <<repo, cancel, asks, left>>

(* The monitor after a repair: as AutoRepaired, but it looks whether the   *)
(* merge was canceled, and a wait that runs out only changes the runtime.  *)
MonitorRepaired ==
    /\ proc["monitor"].pc = "repair"
    /\ \/ task.rt = "canceled" /\ End("monitor") /\ UNCHANGED <<task, adrift>>
       \/ /\ task.rt # "canceled" /\ sess.active /\ ~sess.busy
          /\ Become("monitor", [proc["monitor"] EXCEPT !.pc = "merge", !.snap = Read(task)])
          /\ UNCHANGED <<task, adrift>>
       \/ /\ task.rt # "canceled" /\ ~sess.active
          /\ task' = WithRuntime(task, "blocked", task.retry)
          /\ End("monitor")
          /\ UNCHANGED adrift
       \/ /\ task.rt # "canceled" /\ "timeout" \in left.faults
          /\ task' = WithRuntime(task, "active", task.retry)
          /\ End("monitor")
          /\ adrift' = TRUE
    /\ UNCHANGED <<sess, repo, cancel, asks, left>>

(* The row is written after the diff was read: by persistSuccessfulAutoMerge, *)
(* and by persistSuccessfulTaskMerge, which finishes a task that was in    *)
(* review when its loop read it.                                           *)
Persist(l) ==
    /\ proc[l].pc = "persist"
    /\ task' = [task EXCEPT !.merged = TRUE, !.rt = "succeeded", !.retry = proc[l].snap.retry,
                            !.status = IF l = "auto" \/ proc[l].snap.fin THEN "done" ELSE task.status]
    /\ Goto(l, "cleanup")
    /\ UNCHANGED <<sess, repo, cancel, asks, adrift, left>>

(* git-remove-worktree --force; a failure is only shown. *)
Cleanup(l) ==
    /\ proc[l].pc = "cleanup"
    /\ \E removed \in BOOLEAN :
          /\ removed => Reachable
          /\ removed \/ ~Reachable \/ "error" \in left.faults
          /\ repo' = [repo EXCEPT !.tree = @ /\ ~removed]
    /\ IF l = "auto" \/ proc[l].snap.fin THEN Goto(l, "kill") ELSE End(l)
    /\ UNCHANGED <<task, sess, cancel, asks, adrift, left>>

(* archiveSession, which a user's merge asks of handleTaskMovedToFinished, *)
(* if the task is still done.                                              *)
Kill(l) ==
    /\ proc[l].pc = "kill"
    /\ \/ (l = "auto" \/ task.status = "done") /\ sess' = [active |-> FALSE, busy |-> FALSE, asked |-> {}]
       \/ ((l # "auto" /\ task.status # "done") \/ "error" \in left.faults) /\ UNCHANGED sess
    /\ End(l)
    /\ UNCHANGED <<task, repo, cancel, asks, adrift, left>>

-----------------------------------------------------------------------------
(* The session.  A turn adds work; the one that answers a repair prompt    *)
(* merges the target into the branch, or fails to.  Its ready event asks   *)
(* for the auto-merge when it answers a repair prompt of either kind; that *)
(* of another prompt does so only once a packet of the session was applied.*)
Work ==
    /\ sess.active /\ sess.busy /\ repo.tree
    /\ repo.src < MaxWork
    /\ repo' = [repo EXCEPT !.src = @ + 1]
    /\ UNCHANGED <<task, sess, proc, cancel, asks, adrift, left>>

EndTurn ==
    /\ sess.busy
    /\ sess' = [sess EXCEPT !.busy = FALSE, !.asked = {}]
    /\ \/ sess.asked # {"user"} /\ repo.tree /\ repo' = [repo EXCEPT !.clash = FALSE, !.base = repo.landed]
       \/ (sess.asked = {"user"} \/ ~repo.tree \/ "unfixed" \in left.faults) /\ UNCHANGED repo
    /\ \/ RequestAuto(task)
       \/ "user" \in sess.asked /\ UNCHANGED <<task, proc, adrift>>
    /\ UNCHANGED <<cancel, asks, left>>

Die ==
    /\ "die" \in left.faults
    /\ sess.active
    /\ sess' = [active |-> FALSE, busy |-> FALSE, asked |-> {}]
    /\ UNCHANGED <<task, repo, proc, cancel, asks, adrift, left>>

(* Somebody commits to the target branch what clashes with the worktree.   *)
TargetMoves ==
    /\ left.clashes > 0
    /\ left' = [left EXCEPT !.clashes = @ - 1]
    /\ repo' = [repo EXCEPT !.clash = TRUE]
    /\ UNCHANGED <<task, sess, proc, cancel, asks, adrift>>

-----------------------------------------------------------------------------
(* A user's prompt takes the task back to work and forgets its merge. *)
UserPrompt ==
    /\ "prompt" \in left.faults
    /\ sess.active
    /\ task' = [task EXCEPT !.status = "running", !.merged = FALSE]
    /\ sess' = Prompted("user")
    /\ UNCHANGED <<repo, proc, cancel, asks, adrift, left>>

(* A user, or a report, moves the task elsewhere than to done. *)
Move ==
    /\ "move" \in left.faults
    /\ \E st \in {"planning", "review", "blocked"} : task' = [task EXCEPT !.status = st]
    /\ UNCHANGED <<sess, repo, proc, cancel, asks, adrift, left>>

(* POST merge/cancel aborts the turn and writes the row afterwards. *)
CancelMerge ==
    /\ "cancel" \in left.faults
    /\ cancel = {} /\ task.rt = "active"
    /\ cancel' = {task.retry}
    /\ UNCHANGED <<task, sess, repo, proc, asks, adrift, left>>

Canceled ==
    /\ \E retry \in cancel : task' = WithRuntime(task, "canceled", retry)
    /\ cancel' = {}
    /\ UNCHANGED <<sess, repo, proc, asks, adrift, left>>

(* The hub restarts: no loop survives, and nothing resumes one until a     *)
(* repair ends, a command or a user asks.                                  *)
Restart ==
    /\ left.restarts > 0
    /\ left' = [left EXCEPT !.restarts = @ - 1]
    /\ proc' = [l \in Loops |-> Idle]
    /\ cancel' = {} /\ adrift' = TRUE
    /\ UNCHANGED <<task, sess, repo, asks>>

-----------------------------------------------------------------------------
AtWork(l) == proc[l].pc # "idle"

Crowded ==
    \/ \E l, k \in Loops : l # k /\ AtWork(l) /\ AtWork(k)
    \/ \E l \in Loops : proc[l].pc \in {"merge", "answer", "persist", "cleanup"} /\ sess.busy
    \/ \E l \in Loops : AtWork(l) /\ cancel # {}

NoteCrowd == crowd' = (crowd \/ Crowded')

Step(l) ==
    /\ \/ Load(l) \/ Merge(l) \/ Persist(l) \/ Cleanup(l) \/ Kill(l)
       \/ l = "auto" /\ (AutoState \/ AutoAnswer \/ AutoRepaired)
       \/ l = "route" /\ RouteState
       \/ l = "monitor" /\ (MonitorFree \/ MonitorState \/ MonitorRepaired)
       \/ l # "auto" /\ UserAnswer(l)
    /\ NoteCrowd

Users == (Accept \/ RetryCommand \/ UserMerge \/ UserPrompt \/ Move \/ CancelMerge \/ Canceled) /\ NoteCrowd

World == (Work \/ EndTurn \/ Die \/ TargetMoves \/ Restart) /\ NoteCrowd

Next == (\E l \in Loops : Step(l)) \/ Users \/ World

(* Git answers, or its call times out, and every wait ends.                *)
Fairness == \A l \in Loops : WF_vars(Step(l))

Spec == Init /\ [][Next]_vars /\ Fairness

-----------------------------------------------------------------------------
(* The auto-merge asks for no more repairs than the workflow allows, over  *)
(* the whole life of the task: however often the hub restarts, the command *)
(* is repeated, or the task is prompted and accepted again.  The count is  *)
(* the row's, so it must be written before the prompt is sent.  This and   *)
(* what follows on the work holds up to the first time that two loops, or  *)
(* a loop and a working session, are at the worktree at once (crowd).      *)
RepairsBounded == ~crowd => asks <= MaxAttempts

(* A worktree is removed (with --force) only when the target branch has    *)
(* all that is in it: whatever git answers, and whichever loop merges.     *)
KeptUntilLanded == ~crowd /\ ~repo.tree => repo.landed = repo.src

(* A runtime that the board shows as active has a loop at work on it,      *)
(* unless the hub restarted, the wait of a monitor ran out, or the merge   *)
(* was left to a monitor that had merged already and was about to end.     *)
RuntimeHasRunner == task.rt = "active" => adrift \/ \E l \in Loops : AtWork(l)

(* A task is marked as merged only when its work is on the target branch.  *)
MergedIsLanded == [][~crowd /\ ~task.merged /\ task'.merged => repo.landed = repo.src]_vars

(* Every loop ends: repairs are bounded, and each wait has a time-out.     *)
LoopsEnd == \A l \in Loops : []<>~AtWork(l)
=============================================================================
