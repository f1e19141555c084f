------------------------------- MODULE Runner -------------------------------
(***************************************************************************)
(* The runner daemon of a machine, and the session processes it starts.    *)
(* Runner processes find each other through two files: the lock, which is  *)
(* created exclusively and holds a pid, and the state file, through which  *)
(* anyone finds the port of the running one.  Every read or write of a     *)
(* file is a step, since other processes act in between.                   *)
(*                                                                         *)
(* A process number is never used twice.                                   *)
(***************************************************************************)
EXTENDS Naturals, FiniteSets

CONSTANTS
    MaxProcs,     \* bound on the runner processes that are started
    MaxTries,     \* attempts at the lock: 5 in the code
    Sessions,     \* session processes that may be started
    Scenes        \* which of the following may happen in a behaviour

Faults == {"again", "crash", "stop", "upgrade", "fail", "spawn", "external", "kill", "worktree"}

ASSUME RunnerAssumption ==
    /\ MaxProcs \in Nat \ {0} /\ MaxTries \in Nat \ {0}
    /\ Scenes \subseteq SUBSET Faults

VARIABLES
    proc,       \* the runner processes: pc, seen, tries, asked, beat, ver
    installed,  \* TRUE when the CLI was upgraded
    lock,       \* runner.state.json.lock: owner, written
    state,      \* the pid in runner.state.json
    check,      \* a CLI command that looks for a runner: pc, late
    sess,       \* the session processes: life, by, doomed, post, tree
    tracked,    \* pidToTrackedSession of each runner
    known,      \* those of them whose session id was reported
    answer,     \* what became of each spawn
    scene       \* the choice of this behaviour

files == <<lock, state>>
children == <<sess, tracked, known, answer>>
vars == <<proc, installed, lock, state, check, sess, tracked, known, answer, scene>>

Procs == 1..MaxProcs
Nobody == 0
Terminal == 0

Free == [owner |-> Nobody, written |-> FALSE]

Starting == {"check", "match", "unstate", "unlock", "find", "ask", "wait", "lock", "stale", "write", "auth", "boot"}
Running == {"up", "retired", "down", "unstate2", "unlock2", "release"}

Process == [pc : {"off", "gone"} \cup Starting \cup Running, seen : Procs \cup {Nobody},
            tries : 0..(MaxTries - 1), asked : BOOLEAN, beat : BOOLEAN, ver : BOOLEAN]

Child == [life : {"none", "starting", "up", "dead"}, by : Procs \cup {Terminal},
          doomed : BOOLEAN, post : Procs \cup {Nobody}, tree : {"none", "there", "removed"}]

TypeOK ==
    /\ proc \in [Procs -> Process]
    /\ installed \in BOOLEAN
    /\ lock \in [owner : Procs \cup {Nobody}, written : BOOLEAN]
    /\ state \in Procs \cup {Nobody}
    /\ check \in [pc : {"idle", "unstate", "unlock"}, late : BOOLEAN]
    /\ sess \in [Sessions -> Child]
    /\ tracked \in [Procs -> SUBSET Sessions] /\ known \in [Procs -> SUBSET Sessions]
    /\ \A r \in Procs : known[r] \subseteq tracked[r]
    /\ answer \in [Sessions -> {"none", "awaited", "failed", "success", "error"}]
    /\ scene \in Scenes

(* Of the processes only the first few may come to run. *)
Init ==
    /\ scene \in Scenes
    /\ \E last \in Procs :
          proc = [r \in Procs |-> [pc |-> IF r <= last THEN "off" ELSE "gone", seen |-> Nobody, tries |-> 0, asked |-> FALSE, beat |-> FALSE, ver |-> FALSE]]
    /\ installed = FALSE
    /\ lock = Free /\ state = Nobody
    /\ check = [pc |-> "idle", late |-> FALSE]
    /\ sess = [s \in Sessions |-> [life |-> "none", by |-> Terminal, doomed |-> FALSE, post |-> Nobody, tree |-> "none"]]
    /\ tracked = [r \in Procs |-> {}] /\ known = [r \in Procs |-> {}]
    /\ answer = [s \in Sessions |-> "none"]

-----------------------------------------------------------------------------

(* Mutant: a runner counts as alive only while its server answers. *)
AliveByPort(r) == r # Nobody /\ proc[r].pc \in {"boot", "up", "retired", "down"}

Alive(r) == r # Nobody /\ proc[r].pc \notin {"off", "gone"}

(* The control server answers. *)
Served(r) == Alive(r) /\ proc[r].pc \in {"boot", "up", "retired", "down"}

Goes(r, pc) == proc' = [proc EXCEPT ![r].pc = pc]
Gone(p) == [p EXCEPT !.pc = "gone", !.seen = Nobody, !.tries = 0, !.asked = FALSE, !.beat = FALSE]
Ends(r) == proc' = [proc EXCEPT ![r] = Gone(@)]
Sees(r, pc, p) == proc' = [proc EXCEPT ![r].pc = pc, ![r].seen = p]

-----------------------------------------------------------------------------
(* A runner process is started by the user, by a session or by a runner    *)
(* that is out of date; "again" allows several starts at a time.           *)
Quiet == "again" \in scene \/ \A p \in Procs : proc[p].pc \notin Starting

Launched(p) == [p EXCEPT !.pc = "check"]

Start(r) ==
    /\ proc[r].pc = "off" /\ \A p \in 1..(r - 1) : proc[p].pc # "off"
    /\ Quiet
    /\ proc' = [proc EXCEPT ![r] = Launched(@)]
    /\ UNCHANGED <<installed, files, check, children, scene>>

(* isRunnerRunningCurrentlyInstalledHappyVersion: the state file is read,  *)
(* and read again for the version; the files of a dead runner are removed. *)
Check(r) ==
    /\ proc[r].pc = "check"
    /\ Sees(r, CASE state = Nobody -> "find" [] Alive(state) -> "match" [] OTHER -> "unstate", state)
    /\ UNCHANGED <<installed, files, check, children, scene>>

Match(r) ==
    /\ proc[r].pc = "match"
    /\ IF state # Nobody /\ proc[state].ver = installed THEN Ends(r) ELSE Goes(r, "find")
    /\ UNCHANGED <<installed, files, check, children, scene>>

(* clearRunnerState removes the files that are there by now. *)
RemoveState(r) ==
    /\ proc[r].pc = "unstate"
    /\ state' = Nobody
    /\ Goes(r, "unlock")
    /\ UNCHANGED <<installed, lock, check, children, scene>>

RemoveLock(r) ==
    /\ proc[r].pc = "unlock"
    /\ lock' = Free
    /\ Goes(r, "find")
    /\ UNCHANGED <<installed, state, check, children, scene>>

(* stopRunner: the runner of the state file is asked over HTTP, for which  *)
(* the file is read again; if it does not end in time it is killed.        *)
Find(r) ==
    /\ proc[r].pc = "find"
    /\ Sees(r, IF state = Nobody THEN "lock" ELSE "ask", state)
    /\ UNCHANGED <<installed, files, check, children, scene>>

AskStop(r) ==
    /\ proc[r].pc = "ask"
    /\ proc' = [p \in Procs |->
                   IF p = r THEN [proc[r] EXCEPT !.pc = "wait"]
                   ELSE IF p = state /\ Served(p) THEN [proc[p] EXCEPT !.asked = TRUE]
                   ELSE proc[p]]
    /\ UNCHANGED <<installed, files, check, children, scene>>

SeesDeath(r) ==
    /\ proc[r].pc = "wait" /\ ~Alive(proc[r].seen)
    /\ Goes(r, "lock")
    /\ UNCHANGED <<installed, files, check, children, scene>>

Kill(r) ==
    /\ proc[r].pc = "wait" /\ Alive(proc[r].seen)
    /\ proc' = [p \in Procs |->
                   IF p = proc[r].seen THEN Gone(proc[p])
                   ELSE IF p = r THEN [proc[r] EXCEPT !.pc = "lock"]
                   ELSE proc[p]]
    /\ UNCHANGED <<installed, files, check, children, scene>>

(* An attempt failed; after the last one the start gives up. *)
Tried(r) ==
    IF proc[r].tries + 1 = MaxTries THEN Ends(r)
    ELSE proc' = [proc EXCEPT ![r].tries = @ + 1, ![r].pc = "lock"]

(* acquireRunnerLock: the file is created, or a dead owner's is removed.   *)
(* A runner that was told to stop is gone before the attempts are.         *)
Acquire(r) ==
    /\ proc[r].pc = "lock"
    /\ \/ /\ lock = Free
          /\ lock' = [owner |-> r, written |-> FALSE]
          /\ Goes(r, "write")
       \/ /\ lock # Free /\ lock.written /\ ~Alive(lock.owner)
          /\ Goes(r, "stale")
          /\ UNCHANGED lock
       \/ /\ lock # Free /\ ~(lock.written /\ ~Alive(lock.owner))
          /\ Alive(lock.owner) => ~proc[lock.owner].asked
          /\ Tried(r)
          /\ UNCHANGED lock
    /\ UNCHANGED <<installed, state, check, children, scene>>

RemoveStale(r) ==
    /\ proc[r].pc = "stale"
    /\ lock' = Free
    /\ Tried(r)
    /\ UNCHANGED <<installed, state, check, children, scene>>

WritePid(r) ==
    /\ proc[r].pc = "write"
    /\ lock' = IF lock.owner = r THEN [lock EXCEPT !.written = TRUE] ELSE lock
    /\ Goes(r, "auth")
    /\ UNCHANGED <<installed, state, check, children, scene>>

(* The machine is set up, the control server started and the state written *)
(* with the version that is installed by now; then it is registered.       *)
Boot(r) ==
    /\ proc[r].pc = "auth"
    /\ state' = r
    /\ proc' = [proc EXCEPT ![r].pc = "boot", ![r].ver = installed]
    /\ UNCHANGED <<installed, lock, check, children, scene>>

Register(r) ==
    /\ proc[r].pc = "boot"
    /\ Goes(r, "up")
    /\ UNCHANGED <<installed, files, check, children, scene>>

(* A failure before that ends the process; the files stay. *)
StartFails(r) ==
    /\ "fail" \in scene /\ proc[r].pc \in {"auth", "boot"}
    /\ Ends(r)
    /\ UNCHANGED <<installed, files, check, children, scene>>

-----------------------------------------------------------------------------

(* The heartbeat: dead sessions are pruned, and a runner out of date       *)
(* starts the next one and waits to be stopped.  It comes once a minute    *)
(* and takes milliseconds: those of two runners do not overlap.            *)
Pruned(r) == {s \in tracked[r] : sess[s].life # "dead"}

Beat(r) ==
    /\ proc[r].pc = "up" /\ ~proc[r].asked /\ \A p \in Procs : ~proc[p].beat
    /\ proc[r].ver # installed => Quiet
    /\ tracked' = [tracked EXCEPT ![r] = Pruned(r)]
    /\ known' = [known EXCEPT ![r] = @ \cap Pruned(r)]
    /\ IF proc[r].ver # installed
       THEN LET next == {p \in Procs : proc[p].pc = "off" /\ \A q \in 1..(p - 1) : proc[q].pc # "off"}
            IN proc' = [p \in Procs |-> IF p = r THEN [proc[r] EXCEPT !.pc = "retired"]
                                        ELSE IF p \in next THEN Launched(proc[p]) ELSE proc[p]]
       ELSE proc' = [proc EXCEPT ![r].beat = TRUE, ![r].seen = state]
    /\ UNCHANGED <<installed, files, check, sess, answer, scene>>

(* Mutant: a heartbeat does not look who owns the state. *)
BeatUnowned(r) ==
    /\ proc[r].beat
    /\ proc' = [proc EXCEPT ![r].beat = FALSE]
    /\ state' = r
    /\ UNCHANGED <<installed, lock, check, children, scene>>

(* Mutant: a heartbeat does not write the state. *)
BeatSilent(r) ==
    /\ proc[r].beat
    /\ proc' = [proc EXCEPT ![r].beat = FALSE, ![r].asked = @ \/ proc[r].seen \notin {Nobody, r}]
    /\ UNCHANGED <<installed, files, check, children, scene>>

(* It has read the state file: a runner that finds another one there ends, *)
(* and writes itself in all the same.                                      *)
BeatEnds(r) ==
    /\ proc[r].beat
    /\ proc' = [proc EXCEPT ![r].beat = FALSE, ![r].asked = @ \/ proc[r].seen \notin {Nobody, r}]
    /\ state' = r
    /\ UNCHANGED <<installed, lock, check, children, scene>>

Retire(r) ==
    /\ proc[r].pc = "retired"
    /\ Ends(r)
    /\ UNCHANGED <<installed, files, check, children, scene>>

(* Told to stop, by a signal or the app, a runner that is up says goodbye  *)
(* to the hub, closes its server and removes its files, as far as it gets  *)
(* in a second: then it is gone.                                           *)
Signal(r) ==
    /\ "stop" \in scene /\ Alive(r) /\ ~proc[r].asked
    /\ proc' = [proc EXCEPT ![r].asked = TRUE]
    /\ UNCHANGED <<installed, files, check, children, scene>>

ShutDown(r) ==
    /\ proc[r].asked /\ ~proc[r].beat
    /\ \/ proc[r].pc \in {"up", "retired"} /\ Goes(r, "down")
       \/ proc[r].pc = "down" /\ Goes(r, "unstate2")
    /\ UNCHANGED <<installed, files, check, children, scene>>

LeaveState(r) ==
    /\ proc[r].pc = "unstate2"
    /\ state' = Nobody
    /\ Goes(r, "unlock2")
    /\ UNCHANGED <<installed, lock, check, children, scene>>

LeaveLock(r) ==
    /\ proc[r].pc \in {"unlock2", "release"}
    /\ lock' = Free
    /\ IF proc[r].pc = "unlock2" THEN Goes(r, "release") ELSE Ends(r)
    /\ UNCHANGED <<installed, state, check, children, scene>>

ForcedExit(r) ==
    /\ Alive(r) /\ proc[r].asked
    /\ Ends(r)
    /\ UNCHANGED <<installed, files, check, children, scene>>

Crash(r) ==
    /\ "crash" \in scene /\ Alive(r)
    /\ Ends(r)
    /\ UNCHANGED <<installed, files, check, children, scene>>

Upgrade ==
    /\ "upgrade" \in scene /\ ~installed
    /\ installed' = TRUE
    /\ UNCHANGED <<proc, files, check, children, scene>>

(* checkIfRunnerRunningAndCleanupStaleState in another process: the parent *)
(* of a `runner start` calls it every 100 ms while the runner that it      *)
(* started boots, other commands at any time.  The files are removed one   *)
(* after the other, whoever owns them by then; "late" tells that one of    *)
(* them was that of a live runner.                                         *)
Look ==
    /\ check.pc = "idle" /\ state # Nobody /\ ~Alive(state)
    /\ check' = [check EXCEPT !.pc = "unstate"]
    /\ UNCHANGED <<proc, installed, files, children, scene>>

CleanUp ==
    /\ \/ /\ check.pc = "unstate" /\ state' = Nobody /\ UNCHANGED lock
          /\ check' = [pc |-> "unlock", late |-> check.late \/ Alive(state)]
       \/ /\ check.pc = "unlock" /\ lock' = Free /\ UNCHANGED state
          /\ check' = [pc |-> "idle", late |-> check.late \/ Alive(lock.owner)]
    /\ UNCHANGED <<proc, installed, children, scene>>

-----------------------------------------------------------------------------
runners == <<proc, installed, lock, state, check, scene>>

(* spawnSession, up to the process and its awaiter; in a worktree or not. *)
Spawn(r, s) ==
    /\ "spawn" \in scene /\ Served(r)
    /\ sess[s].life = "none"
    /\ \E tree \in IF "worktree" \in scene THEN {"none", "there"} ELSE {"none"} :
          sess' = [sess EXCEPT ![s] = [@ EXCEPT !.life = "starting", !.by = r, !.tree = tree]]
    /\ tracked' = [tracked EXCEPT ![r] = @ \cup {s}]
    /\ answer' = [answer EXCEPT ![s] = "awaited"]
    /\ UNCHANGED <<known, runners>>

(* A session that the user starts in a terminal. *)
External(s) ==
    /\ "external" \in scene /\ sess[s].life = "none"
    /\ sess' = [sess EXCEPT ![s].life = "starting"]
    /\ UNCHANGED <<tracked, known, answer, runners>>

(* notifyRunnerSessionStarted: to the runner of the state file, if it      *)
(* lives; only once.                                                       *)
Report(s) ==
    /\ sess[s].life = "starting"
    /\ sess' = [sess EXCEPT ![s].life = "up", ![s].post = IF Alive(state) THEN state ELSE Nobody]
    /\ UNCHANGED <<tracked, known, answer, runners>>

(* Mutant: the id that a session reports is not kept. *)
HearUnnamed(s) ==
    LET r == sess[s].post
        own == s \in tracked[r] /\ sess[s].by = r
    IN /\ r # Nobody
       /\ sess' = [sess EXCEPT ![s].post = Nobody]
       /\ tracked' = IF Served(r) THEN [tracked EXCEPT ![r] = @ \cup {s}] ELSE tracked
       /\ answer' = IF Served(r) /\ own /\ answer[s] = "awaited" THEN [answer EXCEPT ![s] = "success"] ELSE answer
       /\ UNCHANGED <<known, runners>>

(* onHappySessionWebhook. *)
Hear(s) ==
    LET r == sess[s].post
        own == s \in tracked[r] /\ sess[s].by = r
    IN /\ r # Nobody
       /\ sess' = [sess EXCEPT ![s].post = Nobody]
       /\ tracked' = IF Served(r) THEN [tracked EXCEPT ![r] = @ \cup {s}] ELSE tracked
       /\ known' = IF Served(r) THEN [known EXCEPT ![r] = @ \cup {s}] ELSE known
       /\ answer' = IF Served(r) /\ own /\ answer[s] = "awaited" THEN [answer EXCEPT ![s] = "success"] ELSE answer
       /\ UNCHANGED runners

(* Mutant: a spawn has no time-out. *)
SpawnWaits(s) == FALSE /\ answer[s] = "awaited" /\ UNCHANGED vars

(* A session that does not report in fifteen seconds has failed. *)
SpawnTimesOut(s) ==
    /\ answer[s] = "awaited" /\ Alive(sess[s].by)
    /\ answer' = [answer EXCEPT ![s] = "failed"]
    /\ UNCHANGED <<sess, tracked, known, runners>>

(* Its runner hears of the end of a process. *)
HearExit(s) ==
    LET r == sess[s].by
    IN /\ sess[s].life = "dead" /\ Alive(r)
       /\ s \in tracked[r] \/ answer[s] = "awaited"
       /\ tracked' = [tracked EXCEPT ![r] = @ \ {s}]
       /\ known' = [known EXCEPT ![r] = @ \ {s}]
       /\ answer' = IF answer[s] = "awaited" THEN [answer EXCEPT ![s] = "failed"] ELSE answer
       /\ UNCHANGED <<sess, runners>>

(* Mutant: a late session counts as dead. *)
AnswerAtOnce(s) ==
    /\ answer[s] = "failed" /\ Alive(sess[s].by)
    /\ answer' = [answer EXCEPT ![s] = "error"]
    /\ sess' = [sess EXCEPT ![s].tree = IF @ = "there" THEN "removed" ELSE @]
    /\ UNCHANGED <<tracked, known, runners>>

(* The spawn that failed is answered, and its worktree removed, unless the *)
(* process is there all the same.                                          *)
AnswerFailure(s) ==
    /\ answer[s] = "failed" /\ Alive(sess[s].by)
    /\ answer' = [answer EXCEPT ![s] = "error"]
    /\ sess' = [sess EXCEPT ![s].tree = IF @ = "there" /\ sess[s].life = "dead" THEN "removed" ELSE @]
    /\ UNCHANGED <<tracked, known, runners>>

(* stopSession, by the session's id or by its pid. *)
StopSession(r, s) ==
    /\ "kill" \in scene /\ Served(r) /\ s \in tracked[r]
    /\ sess' = [sess EXCEPT ![s].doomed = TRUE]
    /\ tracked' = [tracked EXCEPT ![r] = @ \ {s}]
    /\ known' = [known EXCEPT ![r] = @ \ {s}]
    /\ UNCHANGED <<answer, runners>>

End(s) ==
    /\ sess[s].life \in {"starting", "up"}
    /\ sess[s].doomed \/ "kill" \in scene
    /\ sess' = [sess EXCEPT ![s].life = "dead"]
    /\ UNCHANGED <<tracked, known, answer, runners>>

Dies(s) == sess[s].doomed /\ End(s)

-----------------------------------------------------------------------------
(* What a runner does of itself, and what happens to it. *)
Step(r) ==
    \/ Check(r) \/ Match(r) \/ RemoveState(r) \/ RemoveLock(r)
    \/ Find(r) \/ AskStop(r) \/ SeesDeath(r) \/ Kill(r)
    \/ Acquire(r) \/ RemoveStale(r) \/ WritePid(r) \/ Boot(r) \/ Register(r)
    \/ Retire(r) \/ ShutDown(r) \/ LeaveState(r) \/ LeaveLock(r)

Event(r) == Start(r) \/ StartFails(r) \/ Signal(r) \/ ForcedExit(r) \/ Crash(r)

Session(s) ==
    \/ External(s) \/ Report(s) \/ Hear(s) \/ SpawnTimesOut(s) \/ HearExit(s) \/ AnswerFailure(s) \/ End(s)
    \/ \E r \in Procs : Spawn(r, s) \/ StopSession(r, s)

Next ==
    \/ \E r \in Procs : Step(r) \/ Event(r) \/ Beat(r) \/ BeatEnds(r)
    \/ \E s \in Sessions : Session(s)
    \/ Upgrade \/ Look \/ CleanUp

Safety == Init /\ [][Next]_vars

(* Processes run on, timers fire, and a process that is killed ends. *)
Fairness ==
    /\ \A r \in Procs : WF_vars(Step(r)) /\ SF_vars(Beat(r)) /\ WF_vars(BeatEnds(r)) /\ WF_vars(ForcedExit(r))
    /\ \A s \in Sessions : WF_vars(HearExit(s)) /\ WF_vars(SpawnTimesOut(s)) /\ WF_vars(AnswerFailure(s)) /\ WF_vars(Dies(s))
    /\ WF_vars(CleanUp)

Spec == Safety /\ Fairness

-----------------------------------------------------------------------------
(* Runners that hold the lock, as far as they know. *)
Holding == {r \in Procs : proc[r].pc \in {"write", "auth", "boot"} \cup (Running \ {"release"})}

(* The lock "prevents multiple runner instances". *)
OneRunner == Cardinality(Holding) <= 1

(* Where starts do not meet, no runner is told to stop from outside and no *)
(* command that cleans up after a dead runner comes so late that a file it *)
(* removes is that of a live one, a runner starts only when the one before *)
(* has let the lock go or is dead, also when that one crashed, or is out   *)
(* of date and has to be stopped.                                          *)
HandedOver == scene \cap {"again", "stop"} = {} /\ ~check.late => OneRunner

(* A session whose runner reported success, which still runs and which     *)
(* nobody stopped, can be stopped through that runner.                     *)
SuccessIsKnown ==
    \A s \in Sessions :
        LET r == sess[s].by
        IN answer[s] = "success" /\ Alive(r) /\ sess[s].life # "dead" /\ ~sess[s].doomed => s \in known[r]

(* A session that runs keeps its worktree, also when it is late. *)
TreeKept == \A s \in Sessions : sess[s].life \in {"starting", "up"} => sess[s].tree # "removed"

(* Of runners that serve side by side all but one end. *)
DuplicatesEnd == []<>OneRunner

(* Whoever is told to stop is gone in the end, and every start comes up or *)
(* gives up.                                                               *)
StartsSettle == []<>(\A r \in Procs : proc[r].pc \in {"off", "up", "gone"} /\ ~(Alive(r) /\ proc[r].asked))

(* A runner that stays up is found through the state file. *)
RunnerIsFound == []<>(\A r \in Procs : proc[r].pc = "up" => state = r)

(* Both. *)
RunnersSettle == StartsSettle /\ RunnerIsFound

(* Every spawn is answered, unless its runner ends. *)
SpawnsAnswered == []<>(\A s \in Sessions : answer[s] \in {"awaited", "failed"} => ~Alive(sess[s].by))

(* No runner keeps track of dead sessions for ever. *)
TrackedEnds == []<>(\A r \in Procs : \A s \in tracked[r] : proc[r].pc = "up" => sess[s].life # "dead")

(* Both. *)
SessionsSettle == SpawnsAnswered /\ TrackedEnds
=============================================================================
