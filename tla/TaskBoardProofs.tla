-------------------------- MODULE TaskBoardProofs ---------------------------
(* Theorems about TaskBoard, for every set of tasks and sessions, every    *)
(* lane limit and any number of restarts.                                  *)
EXTENDS TaskBoard, FiniteSetTheorems, TLAPS

(* What every operator on a task record keeps *)
Sound(rec) == rec \in TaskRec /\ (rec.blockedBy # "none" => rec.status = "blocked")

LEMMA NewTaskSound == \A t \in Tasks : Sound(NewTask(t))
BY BoardAssumption DEF Sound, TaskRec, NewTask, Statuses, Sources, Blockers, RetryMax

LEMMA SetStatusSound ==
    ASSUME NEW rec, Sound(rec), NEW st \in Statuses
    PROVE  /\ Sound(SetStatus(rec, st))
           /\ SetStatus(rec, st).session = rec.session
BY DEF Sound, SetStatus, TaskRec, Blockers

LEMMA BlockSound ==
    ASSUME NEW rec, Sound(rec), NEW by \in Blockers
    PROVE  Sound(Block(rec, by)) /\ Block(rec, by).session = rec.session
BY DEF Sound, Block, TaskRec, Statuses

LEMMA BlockedByAgentSound ==
    ASSUME NEW rec, Sound(rec), NEW s
    PROVE  Sound(BlockedByAgent(rec, s)) /\ BlockedByAgent(rec, s).session = rec.session
BY DEF Sound, BlockedByAgent, Block, TaskRec, Statuses, Blockers

LEMMA PacketPatchSound ==
    ASSUME NEW t, NEW rec, Sound(rec), NEW pkt \in PacketKinds
    PROVE  Sound(PacketPatch(t, rec, pkt)) /\ PacketPatch(t, rec, pkt).session = rec.session
<1> DEFINE st == IF pkt = "done" /\ ActionRole(t, rec) = "generator" THEN "review" ELSE pkt
<1>1. CASE pkt = "other"
  BY <1>1 DEF PacketPatch
<1>2. CASE pkt # "other"
  <2>1. st \in Statuses
    BY <1>2 DEF PacketKinds, Statuses
  <2>2. Sound(SetStatus(rec, st)) /\ SetStatus(rec, st).session = rec.session
    BY <2>1, SetStatusSound
  <2>3. PacketPatch(t, rec, pkt) =
           [SetStatus(rec, st) EXCEPT
              !.source = IF ActionRole(t, rec) = "evaluator"
                            /\ st \in {"planning", "blocked", "review"}
                         THEN "manual" ELSE @]
    BY <1>2 DEF PacketPatch
  <2> HIDE DEF st
  <2>4. QED
    BY <2>2, <2>3 DEF Sound, TaskRec, Sources
<1>3. QED
  BY <1>1, <1>2

LEMMA RecoveredSound ==
    ASSUME NEW rec, Sound(rec), NEW s \in Sessions
    PROVE  Sound(Recovered(rec, s)) /\ Recovered(rec, s).session = rec.session
<1> DEFINE manual == [rec EXCEPT !.source = "manual", !.waiting = FALSE, !.init = s]
<1>1. Sound(manual) /\ manual.session = rec.session /\ manual.retry = rec.retry
  BY DEF Sound, TaskRec, Sources
<1> HIDE DEF manual
<1>2. CASE rec.retry >= RetryMax
  <2>1. Sound(Block(manual, "evaluator"))
        /\ Block(manual, "evaluator").session = manual.session
    BY <1>1, BlockSound DEF Blockers
  <2>2. QED
    BY <1>1, <1>2, <2>1 DEF Recovered, manual
<1>3. CASE ~(rec.retry >= RetryMax)
  <2>1. Recovered(rec, s) = [manual EXCEPT !.retry = @ + 1]
    BY <1>3 DEF Recovered, manual
  <2>2. manual.retry + 1 \in 0..RetryMax
    BY <1>1, <1>3 DEF Sound, TaskRec, RetryMax
  <2>3. QED
    BY <1>1, <2>1, <2>2 DEF Sound, TaskRec
<1>4. QED
  BY <1>2, <1>3

-----------------------------------------------------------------------------
(* The types and the blockers, which need each other's facts about records *)

Typed == TypeOK /\ BlockerOnlyWhenBlocked

LEMMA TypedTasks ==
    ASSUME Typed, NEW t \in Tasks
    PROVE  Sound(task[t])
BY DEF Typed, TypeOK, BlockerOnlyWhenBlocked, Sound

LEMMA TypedSessions ==
    ASSUME Typed, NEW s \in Sessions
    PROVE  sess[s] \in SessRec
BY DEF Typed, TypeOK

(* The records that a report of a session leaves its task with *)
LEMMA ApplicablePacket ==
    ASSUME Typed, NEW s \in Sessions, Applicable(s)
    PROVE  LET t == sess[s].task
               new == PacketPatch(t, task[t], sess[s].packet)
           IN Sound(new) /\ new.session = task[t].session
<1>1. sess[s].task \in Tasks
  BY BoardAssumption DEF Applicable
<1>2. sess[s].packet \in PacketKinds
  BY TypedSessions DEF Applicable, SessRec
<1>3. QED
  BY <1>1, <1>2, TypedTasks, PacketPatchSound

LEMMA AfterInactiveSound ==
    ASSUME Typed, NEW s \in Sessions, sess[s].task \in Tasks
    PROVE  /\ Sound(AfterInactive(s))
           /\ AfterInactive(s).session = task[sess[s].task].session
<1> DEFINE t == sess[s].task
<1>1. Sound(task[t])
  BY TypedTasks
<1>2. CASE Applicable(s)
  <2>1. AfterInactive(s) = PacketPatch(t, task[t], sess[s].packet)
    BY <1>2 DEF AfterInactive, Applicable, AlreadyApplied
  <2>2. QED
    BY <1>2, <2>1, ApplicablePacket
<1>3. CASE ~Applicable(s) /\ AlreadyApplied(s)
  <2>1. AfterInactive(s) = task[t]
    BY <1>3 DEF AfterInactive
  <2>2. QED
    BY <1>1, <2>1
<1>4. CASE ~Applicable(s) /\ ~AlreadyApplied(s) /\ Recoverable(s)
  <2>1. AfterInactive(s) = Recovered(task[t], s)
    BY <1>4 DEF AfterInactive
  <2>2. QED
    BY <1>1, <2>1, RecoveredSound
<1>5. CASE ~Applicable(s) /\ ~AlreadyApplied(s) /\ ~Recoverable(s)
  <2>1. AfterInactive(s) \in {task[t], BlockedByAgent(task[t], s)}
    BY <1>5 DEF AfterInactive
  <2>2. QED
    BY <1>1, <2>1, BlockedByAgentSound
<1>6. QED
  BY <1>2, <1>3, <1>4, <1>5

LEMMA AfterReadySound ==
    ASSUME Typed, NEW s \in Sessions, sess[s].task \in Tasks
    PROVE  /\ Sound(AfterReady(s))
           /\ AfterReady(s).session = task[sess[s].task].session
<1> DEFINE t == sess[s].task
<1>1. Sound(task[t])
  BY TypedTasks
<1>2. CASE Applicable(s)
  <2>1. AfterReady(s) = PacketPatch(t, task[t], sess[s].packet)
    BY <1>2 DEF AfterReady, Applicable, AlreadyApplied
  <2>2. QED
    BY <1>2, <2>1, ApplicablePacket
<1>3. CASE ~Applicable(s) /\ AlreadyApplied(s)
  <2>1. AfterReady(s) = task[t]
    BY <1>3 DEF AfterReady
  <2>2. QED
    BY <1>1, <2>1
<1>4. CASE ~Applicable(s) /\ ~AlreadyApplied(s) /\ Recoverable(s)
  <2>1. AfterReady(s) = Recovered(task[t], s)
    BY <1>4 DEF AfterReady
  <2>2. QED
    BY <1>1, <2>1, RecoveredSound
<1>5. CASE ~Applicable(s) /\ ~AlreadyApplied(s) /\ ~Recoverable(s)
  <2>1. AfterReady(s) \in {task[t], SetStatus(task[t], "review")}
    BY <1>5 DEF AfterReady
  <2>2. QED
    BY <1>1, <2>1, SetStatusSound DEF Statuses
<1>6. QED
  BY <1>2, <1>3, <1>4, <1>5

(* What the tick, a request and a report may change *)
LEMMA RequestedType == ASSUME gate \in GateRec PROVE Requested \in GateRec
BY DEF GateRec, Requested

TasksSound(ts) == ts \in [Tasks -> TaskRec] /\ \A t \in Tasks : Sound(ts[t])

LEMMA ReportTyped ==
    ASSUME Typed, NEW s \in Sessions, NEW new, NEW applied, NEW fell, NEW ss,
           sess[s].task \in Tasks => Sound(new),
           Report(s, new, applied, fell, ss)
    PROVE  TasksSound(task') /\ latched' \subseteq Sessions /\ gate' \in GateRec
<1>1. TasksSound(task')
  <2>1. task' = [task EXCEPT ![sess[s].task] = new]
    BY DEF Report
  <2>2. QED
    BY <2>1, TypedTasks DEF TasksSound, Typed, TypeOK, Sound
<1>2. latched' \subseteq Sessions
  BY DEF Report, Typed, TypeOK
<1>3. gate' \in GateRec
  <2>1. gate' \in {gate, Requested}
    BY DEF Report
  <2>2. QED
    BY <2>1, RequestedType DEF Typed, TypeOK
<1>4. QED
  BY <1>1, <1>2, <1>3

LEMMA AnnounceTyped ==
    ASSUME Typed, NEW S, NEW ts, NEW ss, NEW auto, Announce(S, ts, ss, auto)
    PROVE  gate' \in GateRec
BY RequestedType DEF Announce, Typed, TypeOK

(* A step keeps the types once the parts it changes have theirs. *)
LEMMA TypedParts ==
    ASSUME TasksSound(task'), sess' \in [Sessions -> SessRec], latched' \subseteq Sessions,
           gate' \in GateRec, tick' \in TickRec, start' \in [Actors -> StartRec],
           runner' \in BOOLEAN, autoRun' \in BOOLEAN, paused' \in BOOLEAN,
           reload' \subseteq Sessions, boots' \in 0..MaxRestarts
    PROVE  Typed'
BY DEF Typed, TypeOK, BlockerOnlyWhenBlocked, TasksSound, Sound

LEMMA TypedInit == Init => Typed
<1> SUFFICES ASSUME Init PROVE Typed
  OBVIOUS
<1> USE DEF Init, InitFrom
<1>1. task \in [Tasks -> TaskRec] /\ BlockerOnlyWhenBlocked
  BY NewTaskSound DEF Sound, BlockerOnlyWhenBlocked
<1>2. sess \in [Sessions -> SessRec]
  BY DEF NewSession, SessRec, Lanes
<1>3. gate \in GateRec
  BY DEF GateRec
<1>4. tick \in TickRec
  BY NewTaskSound DEF Sound, IdleTick, TickRec, NoCount, NoSnap
<1>5. start \in [Actors -> StartRec]
  BY DEF IdleStart, StartRec, Lanes, RetryMax
<1>6. boots \in 0..MaxRestarts
  BY BoardAssumption
<1>7. QED
  BY <1>1, <1>2, <1>3, <1>4, <1>5, <1>6 DEF Typed, TypeOK

LEMMA TypedSessionStep ==
    ASSUME Typed, NEW s \in Sessions, SessionStep(s)
    PROVE  Typed'
<1> USE DEF Typed, TypeOK
<1>0. TasksSound(task)
  BY TypedTasks DEF TasksSound
<1>s. sess[s] \in SessRec
  OBVIOUS
<1>1. CASE Heartbeat(s)
  <2>1. PICK new, fell, ss : /\ Report(s, new, FALSE, fell, ss)
                             /\ sess[s].task \in Tasks => Sound(new)
    BY <1>1, TypedTasks, SetStatusSound DEF Heartbeat, Statuses
  <2>2. sess' \in [Sessions -> SessRec]
    BY <1>1, <1>s DEF Heartbeat, SessRec
  <2>3. QED
    BY <1>1, <2>1, <2>2, ReportTyped, TypedParts DEF Heartbeat
<1>2. CASE StartTurn(s)
  <2>1. sess' \in [Sessions -> SessRec]
    BY <1>2, <1>s DEF StartTurn, SessRec
  <2>2. QED
    BY <1>0, <1>2, <2>1, TypedParts DEF StartTurn, TasksSound
<1>3. CASE Ready(s)
  <2>1. sess' \in [Sessions -> SessRec]
    BY <1>3, <1>s DEF Ready, SessRec
  <2>2. QED
    BY <1>3, <2>1, ReportTyped, AfterReadySound, TypedParts DEF Ready
<1>4. CASE Interrupt(s)
  <2>1. sess' \in [Sessions -> SessRec]
    BY <1>4, <1>s DEF Interrupt, SessRec
  <2>2. QED
    BY <1>4, <2>1, ReportTyped, TypedTasks, BlockedByAgentSound, TypedParts DEF Interrupt
<1>5. CASE \E pkt \in Packets : EndTurn(s, pkt)
  <2>1. PICK pkt \in PacketKinds \cup {"none"} : EndTurn(s, pkt)
    BY <1>5, BoardAssumption
  <2>2. sess' \in [Sessions -> SessRec]
    <3>1. sess[s].packet \in PacketKinds \cup {"none"}
      BY <1>s DEF SessRec
    <3>2. (IF pkt = "none" THEN sess[s].packet ELSE pkt) \in PacketKinds \cup {"none"}
      BY <3>1
    <3>3. QED
      BY <1>s, <2>1, <3>2 DEF EndTurn, SessRec
  <2>3. QED
    BY <1>0, <2>1, <2>2, TypedParts DEF EndTurn, TasksSound
<1>6. CASE Die(s)
  <2>1. sess' \in [Sessions -> SessRec]
    BY <1>6, <1>s DEF Die, SessRec
  <2>2. QED
    BY <1>0, <1>6, <2>1, TypedParts DEF Die, TasksSound
<1>7. CASE BecomeInactive(s)
  <2>1. sess' \in [Sessions -> SessRec]
    BY <1>7, <1>s DEF BecomeInactive, SessRec
  <2>2. QED
    BY <1>7, <2>1, ReportTyped, AfterInactiveSound, TypedParts DEF BecomeInactive
<1>8. CASE ReadyWithoutReply(s)
  <2>1. sess' \in [Sessions -> SessRec]
    BY <1>8, <1>s DEF ReadyWithoutReply, SessRec
  <2>2. QED
    BY <1>0, <1>8, <2>1, TypedParts DEF ReadyWithoutReply, TasksSound
<1>9. QED
  BY <1>1, <1>2, <1>3, <1>4, <1>5, <1>6, <1>7, <1>8 DEF SessionStep

(* Starting a session reads the task's record. *)
LEMMA BeginStartTyped ==
    ASSUME Typed, NEW a \in Actors, NEW t \in Tasks, BeginStart(a, t)
    PROVE  start' \in [Actors -> StartRec]
<1>1. task[t] \in TaskRec
  BY TypedTasks DEF Sound
<1>2. ActionRole(t, task[t]) \in Lanes
  BY <1>1 DEF ActionRole, TaskRec, Sources, Lanes
<1>3. QED
  BY <1>1, <1>2 DEF BeginStart, StartRec, TaskRec, Typed, TypeOK

LEMMA StartedSound ==
    ASSUME NEW rec, Sound(rec), NEW st \in StartRec
    PROVE  Sound(Started(rec, st))
<1> DEFINE status == IF st.review THEN "review" ELSE "running"
           new == SetStatus(rec, status)
<1>1. Sound(new)
  BY SetStatusSound DEF Statuses
<1>2. Started(rec, st) =
        [new EXCEPT
           !.session = IF st.review /\ st.prev # NoSession THEN st.prev ELSE st.session,
           !.source = IF st.review THEN "evaluator" ELSE rec.source,
           !.waiting = FALSE, !.init = st.session, !.retry = st.retry]
  BY DEF Started
<1> HIDE DEF new
<1>3. QED
  BY <1>1, <1>2 DEF Sound, TaskRec, StartRec, Sources

LEMMA TypedStartStep ==
    ASSUME Typed, NEW a \in Actors, StartStep(a)
    PROVE  Typed'
<1> USE DEF Typed, TypeOK
<1>0. TasksSound(task)
  BY TypedTasks DEF TasksSound
<1>1. CASE SpawnFails(a)
  <2>1. start' \in [Actors -> StartRec]
    BY <1>1 DEF SpawnFails, Fail, IdleStart, StartRec, Lanes, RetryMax
  <2>2. TasksSound(task')
    BY <1>0, <1>1, BlockSound DEF SpawnFails, Fail, TasksSound, Blockers, Sound
  <2>3. tick' \in TickRec
    BY <1>1 DEF SpawnFails, Fail, TickRec
  <2>4. QED
    BY <1>1, <2>1, <2>2, <2>3, TypedParts DEF SpawnFails
<1>2. CASE \E s \in Sessions : SpawnSucceeds(a, s)
  <2>1. PICK s \in Sessions : SpawnSucceeds(a, s)
    BY <1>2
  <2>2. sess' \in [Sessions -> SessRec]
    <3>1. start[a].task \in Tasks \cup {NoTask} /\ start[a].role \in Lanes
      BY DEF StartRec
    <3>2. QED
      BY <2>1, <3>1 DEF SpawnSucceeds, SessRec, NewSession
  <2>3. start' \in [Actors -> StartRec]
    <3>1. start[a] \in StartRec
      OBVIOUS
    <3>2. [start[a] EXCEPT !.pc = "configure", !.session = s] \in StartRec
      BY <3>1 DEF StartRec
    <3>3. QED
      BY <2>1, <3>2 DEF SpawnSucceeds
  <2>4. QED
    BY <1>0, <2>1, <2>2, <2>3, TypedParts DEF SpawnSucceeds, TasksSound
<1>3. CASE \E ok \in BOOLEAN : FinishStart(a, ok)
  <2>1. PICK ok \in BOOLEAN : FinishStart(a, ok)
    BY <1>3
  <2>2. TasksSound(task')
    <3>1. task' = [task EXCEPT ![start[a].task] = Started(task[start[a].task], start[a])]
      BY <2>1 DEF FinishStart
    <3>2. QED
      BY <1>0, <3>1, StartedSound DEF TasksSound, Sound
  <2>3. sess' \in [Sessions -> SessRec]
    <3> DEFINE s == start[a].session
               mail == sess[s].mail \/ (ok /\ sess[s].proc = "running")
    <3>1. sess' = [sess EXCEPT ![s].mail = mail]
      BY <2>1 DEF FinishStart
    <3>2. ASSUME s \in Sessions PROVE mail \in BOOLEAN
      BY <3>2 DEF SessRec
    <3> HIDE DEF mail, s
    <3>3. ASSUME s \in Sessions PROVE [sess[s] EXCEPT !.mail = mail] \in SessRec
      BY <3>2, <3>3 DEF SessRec
    <3>4. sess' = [sess EXCEPT ![s] = [sess[s] EXCEPT !.mail = mail]]
      BY <3>1
    <3>5. QED
      BY <3>3, <3>4
  <2>4. start' \in [Actors -> StartRec]
    BY <2>1 DEF FinishStart, IdleStart, StartRec, Lanes, RetryMax
  <2>5. tick' \in TickRec
    BY <2>1 DEF FinishStart, TickRec
  <2>6. QED
    BY <2>1, <2>2, <2>3, <2>4, <2>5, TypedParts DEF FinishStart
<1>4. QED
  BY <1>1, <1>2, <1>3 DEF StartStep

(* The tick keeps its type as it passes over a candidate. *)
LEMMA LaneType == ASSUME NEW rec \in TaskRec PROVE Lane(rec) \in Lanes
BY DEF Lane, TaskRec, Sources, Lanes

LEMMA PassedType ==
    ASSUME tick \in TickRec, NEW t \in Tasks, NEW started \in BOOLEAN
    PROVE  Passed(t, started) \in TickRec
<1> DEFINE l == Lane(tick.snap[t])
           one == [tick EXCEPT !.todo = @ \ {t}, !.snap[t] = NewTask(t)]
<1>1. l \in Lanes
  BY LaneType DEF TickRec
<1>2. NewTask(t) \in TaskRec
  BY NewTaskSound DEF Sound
<1>3. one \in TickRec /\ one.started = tick.started
  BY <1>2 DEF TickRec
<1>4. Passed(t, started) =
        [one EXCEPT !.started =
            [tick.started EXCEPT ![l] = IF started THEN @ + 1 ELSE @]]
  BY DEF Passed, TickRec
<1> HIDE DEF one, l
<1>5. [tick.started EXCEPT ![l] = IF started THEN @ + 1 ELSE @] \in [Lanes -> Nat]
  BY <1>1 DEF TickRec
<1>6. QED
  BY <1>3, <1>4, <1>5 DEF TickRec

LEMMA ContinuedSound ==
    ASSUME NEW rec, Sound(rec), NEW s \in Sessions
    PROVE  Sound(Continued(rec, s))
<1> DEFINE new == SetStatus(rec, "running")
<1>1. Sound(new)
  BY SetStatusSound DEF Statuses
<1>2. Continued(rec, s) = [new EXCEPT !.waiting = FALSE, !.init = s]
  BY DEF Continued
<1> HIDE DEF new
<1>3. QED
  BY <1>1, <1>2 DEF Sound, TaskRec

LEMMA WaitsForRunnerSound ==
    ASSUME NEW rec, Sound(rec), NEW old \in TaskRec
    PROVE  Sound(WaitsForRunner(rec, old))
<1> DEFINE init == IF old.init # NoSession THEN old.init
                   ELSE IF old.session # NoSession THEN old.session ELSE rec.session
<1>1. init \in Sessions \cup {NoSession}
  BY DEF Sound, TaskRec
<1>2. 0 \in 0..RetryMax
  BY DEF RetryMax
<1>3. WaitsForRunner(rec, old) =
        [rec EXCEPT !.blockedBy = "none", !.waiting = TRUE, !.retry = 0, !.init = init]
  BY DEF WaitsForRunner
<1> HIDE DEF init
<1>4. QED
  BY <1>1, <1>2, <1>3 DEF Sound, TaskRec, Blockers

LEMMA RevivedSound ==
    ASSUME NEW t \in Tasks, Sound(task[t])
    PROVE  Sound(Revived(t)) /\ Revived(t).session = task[t].session
<1>1. CASE Restored(t)
  BY <1>1 DEF Revived, Sound, TaskRec
<1>2. CASE ~Restored(t) /\ RunnerOfflineBlock(t)
  <2> DEFINE new == SetStatus(task[t], "planning")
  <2>1. Sound(new) /\ new.session = task[t].session
    BY SetStatusSound DEF Statuses
  <2>2. Revived(t) = [new EXCEPT !.retry = 0]
    BY <1>2 DEF Revived
  <2> HIDE DEF new
  <2>3. QED
    BY <2>1, <2>2 DEF Sound, TaskRec, RetryMax
<1>3. CASE ~Restored(t) /\ ~RunnerOfflineBlock(t)
  BY <1>3 DEF Revived
<1>4. QED
  BY <1>1, <1>2, <1>3

LEMMA TypedTickStep == ASSUME Typed, TickStep PROVE Typed'
<1> USE DEF Typed, TypeOK
<1>0. TasksSound(task)
  BY TypedTasks DEF TasksSound
<1>1. CASE StartTick
  <2>1. tick' \in TickRec
    BY <1>1, NewTaskSound DEF StartTick, IdleTick, TickRec, NoCount, NoSnap, Sound
  <2>2. gate' \in GateRec
    BY <1>1 DEF StartTick, GateRec
  <2>3. QED
    BY <1>0, <1>1, <2>1, <2>2, TypedParts DEF StartTick, TasksSound
<1>2. CASE PrepareTick
  <2>1. task' = [t \in Tasks |-> Revived(t)]
    BY <1>2 DEF PrepareTick
  <2>2. TasksSound(task')
    BY <1>0, <2>1, RevivedSound DEF TasksSound, Sound
  <2>3. PICK todo \in SUBSET Tasks, snap \in [Tasks -> TaskRec], busy \in [Lanes -> Nat] :
           tick' = [tick EXCEPT !.pc = "scan", !.todo = todo, !.snap = snap, !.busy = busy]
    <3> DEFINE todo == {t \in Tasks : /\ ~task'[t].archived
                                      /\ task'[t].status \in {"planning", "review"}}
               snap == [t \in Tasks |-> IF t \in todo THEN task'[t] ELSE NewTask(t)]
               thinking(l) == {s \in Sessions : /\ sess[s].thinking
                                                /\ sess[s].task # NoTask
                                                /\ sess[s].role = l}
               busy == [l \in Lanes |-> Cardinality(thinking(l))]
    <3>1. todo \in SUBSET Tasks
      OBVIOUS
    <3>2. snap \in [Tasks -> TaskRec]
      BY <2>2, NewTaskSound DEF TasksSound, Sound
    <3>3. busy \in [Lanes -> Nat]
      <4>1. \A l \in Lanes : Cardinality(thinking(l)) \in Nat
        <5> TAKE l \in Lanes
        <5>1. thinking(l) \subseteq Sessions
          OBVIOUS
        <5>2. IsFiniteSet(thinking(l))
          BY <5>1, BoardAssumption, FS_Subset
        <5>3. QED
          BY <5>2, FS_CardinalityType
      <4>2. QED
        BY <4>1
    <3>4. tick' = [tick EXCEPT !.pc = "scan", !.todo = todo, !.snap = snap, !.busy = busy]
      BY <1>2, <2>1 DEF PrepareTick
    <3>5. QED
      BY <3>1, <3>2, <3>3, <3>4
  <2>4. tick' \in TickRec
    BY <2>3 DEF TickRec
  <2>5. gate' \in GateRec
    BY <1>2, AnnounceTyped DEF PrepareTick
  <2>6. QED
    BY <1>2, <2>2, <2>4, <2>5, TypedParts DEF PrepareTick
<1>3. CASE FinishTick
  <2>1. tick' \in TickRec
    BY <1>3, NewTaskSound DEF FinishTick, IdleTick, TickRec, NoCount, NoSnap, Sound
  <2>2. gate' \in GateRec
    BY <1>3 DEF FinishTick, GateRec
  <2>3. QED
    BY <1>0, <1>3, <2>1, <2>2, TypedParts DEF FinishTick, TasksSound
<1>4. ASSUME NEW t \in Tasks, ScanSkip(t) PROVE Typed'
  BY <1>0, <1>4, PassedType, TypedParts DEF ScanSkip, TasksSound
<1>5. ASSUME NEW t \in Tasks, ScanContinue(t) PROVE Typed'
  <2> DEFINE s == task[t].session
  <2>1. s \in Sessions /\ Sound(task[t])
    BY <1>0, <1>5 DEF ScanContinue, Continuable, TasksSound, Sound, TaskRec
  <2>2. ActionRole(t, task[t]) \in Lanes
    BY <2>1 DEF ActionRole, Sound, TaskRec, Sources, Lanes
  <2>3. sess' \in [Sessions -> SessRec]
    <3> DEFINE role == ActionRole(t, task[t])
    <3>1. sess' = [sess EXCEPT ![s].task = t, ![s].role = role,
                              ![s].mail = @ \/ sess[s].proc = "running"]
      BY <1>5 DEF ScanContinue
    <3>2. role \in Lanes /\ sess[s] \in SessRec
      BY <2>1, <2>2
    <3> HIDE DEF role, s
    <3>3. QED
      BY <3>1, <3>2 DEF SessRec
  <2>4. TasksSound(task')
    <3>1. task' = [task EXCEPT ![t] = Continued(task[t], s)]
      BY <1>5 DEF ScanContinue
    <3>2. QED
      BY <1>0, <2>1, <3>1, ContinuedSound DEF TasksSound, Sound
  <2>5. tick' \in TickRec
    BY <1>5, PassedType DEF ScanContinue
  <2>6. QED
    BY <1>5, <2>3, <2>4, <2>5, TypedParts DEF ScanContinue
<1>6. ASSUME NEW t \in Tasks, ScanOffline(t) PROVE Typed'
  <2>1. TasksSound(task')
    <3>1. task' = [task EXCEPT ![t] = WaitsForRunner(task[t], tick.snap[t])]
      BY <1>6 DEF ScanOffline
    <3>2. tick.snap[t] \in TaskRec
      BY DEF TickRec
    <3>3. QED
      BY <1>0, <3>1, <3>2, WaitsForRunnerSound DEF TasksSound, Sound
  <2>2. tick' \in TickRec
    <3>1. NoSnap \in [Tasks -> TaskRec]
      BY NewTaskSound DEF NoSnap, Sound
    <3>2. Passed(t, TRUE) \in TickRec
      BY PassedType
    <3>3. QED
      BY <1>6, <3>1, <3>2 DEF ScanOffline, TickRec
  <2>3. gate' \in GateRec
    BY <1>6, AnnounceTyped DEF ScanOffline
  <2>4. QED
    BY <1>6, <2>1, <2>2, <2>3, TypedParts DEF ScanOffline
<1>7. ASSUME NEW t \in Tasks, ScanStart(t) PROVE Typed'
  <2>1. start' \in [Actors -> StartRec]
    BY <1>7, BeginStartTyped DEF ScanStart, Actors
  <2>2. tick' \in TickRec
    <3>1. Passed(t, TRUE) \in TickRec
      BY PassedType
    <3>2. QED
      BY <1>7, <3>1 DEF ScanStart, TickRec
  <2>3. QED
    BY <1>0, <1>7, <2>1, <2>2, TypedParts DEF ScanStart, TasksSound
<1>8. QED
  BY <1>1, <1>2, <1>3, <1>4, <1>5, <1>6, <1>7 DEF TickStep

LEMMA TypedUserStep == ASSUME Typed, UserStep PROVE Typed'
<1> USE DEF Typed, TypeOK
<1>0. TasksSound(task)
  BY TypedTasks DEF TasksSound
<1>1. ASSUME NEW t \in Tasks, NEW st \in Statuses, UserMove(t, st) PROVE Typed'
  <2>1. TasksSound(task')
    <3>1. task' = [task EXCEPT ![t] = SetStatus(task[t], st)]
      BY <1>1 DEF UserMove
    <3>2. QED
      BY <1>0, <3>1, SetStatusSound DEF TasksSound, Sound
  <2>2. gate' \in GateRec
    BY <1>1, AnnounceTyped DEF UserMove
  <2>3. QED
    BY <1>1, <2>1, <2>2, TypedParts DEF UserMove
<1>2. ASSUME NEW t \in Tasks, UserArchive(t) PROVE Typed'
  <2>1. TasksSound(task')
    <3>1. task' = [task EXCEPT ![t] = [task[t] EXCEPT !.archived = TRUE]]
      BY <1>2 DEF UserArchive
    <3>2. Sound([task[t] EXCEPT !.archived = TRUE])
      BY <1>0 DEF TasksSound, Sound, TaskRec
    <3>3. QED
      BY <1>0, <3>1, <3>2 DEF TasksSound, Sound
  <2>2. QED
    BY <1>2, <2>1, TypedParts DEF UserArchive
<1>3. ASSUME NEW t \in Tasks, UserStart(t) PROVE Typed'
  BY <1>0, <1>3, BeginStartTyped, TypedParts DEF UserStart, TasksSound, Actors
<1>4. ASSUME NEW s \in Sessions, UserPrompt(s) PROVE Typed'
  <2>1. TasksSound(task')
    <3> DEFINE t == sess[s].task
    <3>1. task' \in {task, [task EXCEPT ![t] = SetStatus(task[t], "running")]}
      BY <1>4 DEF UserPrompt
    <3>2. QED
      BY <1>0, <3>1, SetStatusSound DEF TasksSound, Sound, Statuses
  <2>2. sess' \in [Sessions -> SessRec]
    <3>1. sess' = [sess EXCEPT ![s].mail = TRUE] /\ sess[s] \in SessRec
      BY <1>4 DEF UserPrompt
    <3>2. QED
      BY <3>1 DEF SessRec
  <2>3. QED
    BY <1>4, <2>1, <2>2, TypedParts DEF UserPrompt
<1>5. ASSUME NEW s \in Sessions, UserRename(s) PROVE Typed'
  BY <1>5, ReportTyped, AfterInactiveSound, TypedParts DEF UserRename
<1>6. ASSUME NEW s \in Sessions, UserDelete(s) PROVE Typed'
  <2> DEFINE new == [t \in Tasks |-> IF task[t].session = s
                       THEN [task[t] EXCEPT !.session = NoSession, !.init = NoSession]
                       ELSE task[t]]
  <2>1. task' = new
    BY <1>6 DEF UserDelete, DeleteFrom
  <2>2. TasksSound(new)
    BY <1>0 DEF TasksSound, Sound, TaskRec
  <2>3. sess' \in [Sessions -> SessRec]
    <3>1. sess[s] \in SessRec
      OBVIOUS
    <3>2. [sess[s] EXCEPT !.proc = "deleted", !.turn = "idle", !.mail = FALSE] \in SessRec
      BY <3>1 DEF SessRec
    <3>3. sess' = [sess EXCEPT ![s] =
                    [sess[s] EXCEPT !.proc = "deleted", !.turn = "idle", !.mail = FALSE]]
      BY <1>6 DEF UserDelete, DeleteFrom
    <3>4. QED
      BY <3>2, <3>3
  <2>4. gate' \in GateRec
    BY <1>6, AnnounceTyped DEF UserDelete, DeleteFrom
  <2>5. QED
    BY <1>6, <2>1, <2>2, <2>3, <2>4, TypedParts DEF UserDelete, DeleteFrom
<1>7. CASE UserPause
  BY <1>0, <1>7, RequestedType, TypedParts DEF UserPause, TasksSound
<1>8. CASE UserAutoRun
  BY <1>0, <1>8, RequestedType, TypedParts DEF UserAutoRun, TasksSound
<1>9. QED
  BY <1>1, <1>2, <1>3, <1>4, <1>5, <1>6, <1>7, <1>8 DEF UserStep

LEMMA TypedHubStep == ASSUME Typed, HubStep PROVE Typed'
<1> USE DEF Typed, TypeOK
<1>0. TasksSound(task)
  BY TypedTasks DEF TasksSound
<1>1. CASE PeriodicTick
  BY <1>0, <1>1, RequestedType, TypedParts DEF PeriodicTick, TasksSound
<1>2. CASE RunnerStops
  BY <1>0, <1>2, TypedParts DEF RunnerStops, TasksSound
<1>3. CASE RunnerReady
  BY <1>0, <1>3, RequestedType, TypedParts DEF RunnerReady, TasksSound
<1>4. CASE Restart
  <2>1. gate' \in GateRec
    BY <1>4 DEF Restart, GateRec
  <2>2. tick' \in TickRec
    BY <1>4, NewTaskSound DEF Restart, IdleTick, TickRec, NoCount, NoSnap, Sound
  <2>3. start' \in [Actors -> StartRec]
    <3>1. IdleStart \in StartRec
      BY DEF IdleStart, StartRec, Lanes, RetryMax
    <3>2. start' = [a \in Actors |-> IdleStart]
      BY <1>4 DEF Restart
    <3>3. QED
      BY <3>1, <3>2
  <2>4. sess' \in [Sessions -> SessRec]
    <3>1. \A s \in Sessions :
             [sess[s] EXCEPT !.active = FALSE, !.thinking = FALSE] \in SessRec
      BY DEF SessRec
    <3>2. sess' = [s \in Sessions |->
                    [sess[s] EXCEPT !.active = FALSE, !.thinking = FALSE]]
      BY <1>4 DEF Restart
    <3>3. QED
      BY <3>1, <3>2
  <2>5. boots' \in 0..MaxRestarts
    <3>1. boots \in 0..MaxRestarts /\ boots < MaxRestarts /\ boots' = boots + 1
      BY <1>4 DEF Restart
    <3>2. QED
      BY <3>1, BoardAssumption
  <2>6. QED
    BY <1>0, <1>4, <2>1, <2>2, <2>3, <2>4, <2>5, TypedParts DEF Restart, TasksSound
<1>5. ASSUME NEW s \in Sessions, Reload(s) PROVE Typed'
  <2>1. reload' \subseteq Sessions
    BY <1>5 DEF Reload
  <2>2. QED
    BY <1>5, <2>1, ReportTyped, AfterInactiveSound, TypedParts DEF Reload
<1>6. QED
  BY <1>1, <1>2, <1>3, <1>4, <1>5 DEF HubStep

LEMMA BoardTyped == Safety => []Typed
<1>1. Typed /\ [Next]_vars => Typed'
  <2> SUFFICES ASSUME Typed, [Next]_vars PROVE Typed'
    OBVIOUS
  <2>1. CASE UNCHANGED vars
    BY <2>1 DEF vars, Typed, TypeOK, BlockerOnlyWhenBlocked
  <2>2. QED
    BY <2>1, TypedSessionStep, TypedStartStep, TypedTickStep, TypedUserStep, TypedHubStep
       DEF Next
<1>2. QED
  BY <1>1, TypedInit, PTL DEF Safety

(* Every record of the board keeps its shape, whatever interleaves. *)
THEOREM BoardTypeCorrect == Spec => []TypeOK
BY BoardTyped, PTL DEF Spec, Typed

(* A blocker is named by blocked tasks only: every path that changes the   *)
(* status of a task, reports, starts, ticks and the user's, clears it.     *)
THEOREM BoardBlockers == Spec => []BlockerOnlyWhenBlocked
BY BoardTyped, PTL DEF Spec, Typed

-----------------------------------------------------------------------------
(* Links.  A start links what it read before its awaits: that the session  *)
(* a task points to was born, and for that task, is inductive only         *)
(* together with what those awaits may not have broken.                    *)

LinkCoherent ==
    \A t \in Tasks : task[t].session # NoSession =>
        /\ sess[task[t].session].proc # "free"
        /\ sess[task[t].session].task = t

Linked(s, t) == s \in Sessions /\ sess[s].proc # "free" /\ sess[s].task = t
LinkedNext(s, t) == s \in Sessions /\ sess'[s].proc # "free" /\ sess'[s].task = t

StartLinks ==
    \A a \in Actors : start[a].pc # "idle" =>
        /\ start[a].task \in Tasks
        /\ start[a].prev # NoSession => Linked(start[a].prev, start[a].task)
        /\ start[a].pc = "configure" => Linked(start[a].session, start[a].task)

Links == LinkCoherent /\ StartLinks

(* A session never changes its task, and no session becomes unborn, *)
SessionsBound ==
    \A s \in Sessions : sess[s].proc # "free" =>
        sess'[s].proc # "free" /\ sess'[s].task = sess[s].task

(* ... nor deleted. *)
SessionsKept ==
    /\ SessionsBound
    /\ \A s \in Sessions :
          sess[s].proc \in {"running", "dead"} => sess'[s].proc \in {"running", "dead"}

(* A task keeps its session, or has none. *)
TasksKept == \A t \in Tasks : task'[t].session \in {task[t].session, NoSession}

LEMMA LinkedKept ==
    ASSUME SessionsBound, NEW s, NEW t, Linked(s, t)
    PROVE  LinkedNext(s, t)
BY DEF SessionsBound, Linked, LinkedNext

LEMMA CoherentLinked ==
    ASSUME Typed, LinkCoherent, NEW t \in Tasks, task[t].session # NoSession
    PROVE  Linked(task[t].session, t)
BY TypedTasks DEF LinkCoherent, Linked, Sound, TaskRec

LEMMA CoherentKept ==
    ASSUME Typed, LinkCoherent, SessionsBound, TasksKept
    PROVE  LinkCoherent'
<1> SUFFICES ASSUME NEW t \in Tasks, task'[t].session # NoSession
             PROVE  /\ sess'[task'[t].session].proc # "free"
                    /\ sess'[task'[t].session].task = t
  BY DEF LinkCoherent
<1>1. task'[t].session = task[t].session
  BY DEF TasksKept
<1>2. Linked(task[t].session, t)
  BY <1>1, CoherentLinked
<1>3. QED
  BY <1>1, <1>2 DEF Linked, SessionsBound

LEMMA StartLinksKept ==
    ASSUME StartLinks, SessionsBound, UNCHANGED start
    PROVE  StartLinks'
BY LinkedKept DEF StartLinks, Linked, LinkedNext

LEMMA LinksKept ==
    ASSUME Typed, Links, SessionsBound, TasksKept, UNCHANGED start
    PROVE  Links'
BY CoherentKept, StartLinksKept DEF Links

(* What a step may do to the tasks whose sessions reach them *)
LinkStep == \A t \in Tasks : Reached(t) => Reached(t)' \/ StartOfDeleted(t)

LEMMA ReachedKept ==
    ASSUME Typed, SessionsKept, TasksKept
    PROVE  LinkStep
<1> SUFFICES ASSUME NEW t \in Tasks, Reached(t), task'[t].session # NoSession
             PROVE  Reached(t)'
  BY DEF LinkStep, Reached
<1>1. task'[t].session = task[t].session
  BY DEF TasksKept
<1>2. task[t].session \in Sessions
  BY <1>1, TypedTasks DEF Sound, TaskRec
<1>3. QED
  BY <1>1, <1>2 DEF Reached, SessionsKept, SessionsBound

LEMMA AllKept ==
    ASSUME Typed, Links, SessionsKept, TasksKept, UNCHANGED start
    PROVE  Links' /\ LinkStep
BY LinksKept, ReachedKept DEF SessionsKept

LEMMA ReportKeeps ==
    ASSUME Typed, NEW s \in Sessions, NEW new, NEW applied, NEW fell, NEW ss,
           sess[s].task \in Tasks => new.session = task[sess[s].task].session,
           Report(s, new, applied, fell, ss)
    PROVE  TasksKept
<1>1. task' = [task EXCEPT ![sess[s].task] = new]
  BY DEF Report
<1>2. QED
  BY <1>1 DEF TasksKept, Typed, TypeOK

LEMMA LinksSessionStep ==
    ASSUME Typed, Links, NEW s \in Sessions, SessionStep(s)
    PROVE  Links' /\ LinkStep
<1> USE DEF Typed, TypeOK
<1>s. sess[s] \in SessRec
  OBVIOUS
<1>1. CASE Heartbeat(s)
  <2>1. PICK new, fell, ss : /\ Report(s, new, FALSE, fell, ss)
                             /\ sess[s].task \in Tasks
                                  => new.session = task[sess[s].task].session
    BY <1>1, TypedTasks, SetStatusSound DEF Heartbeat, Statuses
  <2>2. SessionsKept
    BY <1>1 DEF Heartbeat, SessionsKept, SessionsBound
  <2>3. QED
    BY <1>1, <2>1, <2>2, ReportKeeps, AllKept DEF Heartbeat
<1>2. CASE StartTurn(s)
  BY <1>2, AllKept DEF StartTurn, SessionsKept, SessionsBound, TasksKept
<1>3. CASE Ready(s)
  <2>1. SessionsKept
    BY <1>3 DEF Ready, SessionsKept, SessionsBound
  <2>2. QED
    BY <1>3, <2>1, ReportKeeps, AfterReadySound, AllKept DEF Ready
<1>4. CASE Interrupt(s)
  <2>1. SessionsKept
    BY <1>4 DEF Interrupt, SessionsKept, SessionsBound
  <2>2. QED
    BY <1>4, <2>1, ReportKeeps, TypedTasks, BlockedByAgentSound, AllKept DEF Interrupt
<1>5. CASE \E pkt \in Packets : EndTurn(s, pkt)
  BY <1>5, AllKept DEF EndTurn, SessionsKept, SessionsBound, TasksKept
<1>6. CASE Die(s)
  BY <1>6, AllKept DEF Die, SessionsKept, SessionsBound, TasksKept
<1>7. CASE BecomeInactive(s)
  <2>1. SessionsKept
    BY <1>7 DEF BecomeInactive, SessionsKept, SessionsBound
  <2>2. QED
    BY <1>7, <2>1, ReportKeeps, AfterInactiveSound, AllKept DEF BecomeInactive
<1>8. CASE ReadyWithoutReply(s)
  BY <1>8, AllKept DEF ReadyWithoutReply, SessionsKept, SessionsBound, TasksKept
<1>9. QED
  BY <1>1, <1>2, <1>3, <1>4, <1>5, <1>6, <1>7, <1>8 DEF SessionStep

LEMMA BeginStartLinks ==
    ASSUME Typed, Links, NEW a \in Actors, NEW t \in Tasks, BeginStart(a, t),
           UNCHANGED <<task, sess>>
    PROVE  Links' /\ LinkStep
<1> USE DEF Typed, TypeOK
<1>1. LinkCoherent'
  BY DEF Links, LinkCoherent
<1>2. StartLinks'
  <2>1. start'[a].task = t /\ start'[a].prev = task[t].session /\ start'[a].pc = "spawn"
    BY DEF BeginStart
  <2>2. \A b \in Actors \ {a} : start'[b] = start[b]
    BY DEF BeginStart
  <2>3. task[t].session # NoSession => Linked(task[t].session, t)
    BY CoherentLinked DEF Links
  <2>4. QED
    BY <2>1, <2>2, <2>3 DEF StartLinks, Links, Linked
<1>3. LinkStep
  BY DEF LinkStep, Reached
<1>4. QED
  BY <1>1, <1>2, <1>3 DEF Links

LEMMA LinksStartStep ==
    ASSUME Typed, Links, NEW a \in Actors, StartStep(a)
    PROVE  Links' /\ LinkStep
<1> USE DEF Typed, TypeOK
<1>1. CASE SpawnFails(a)
  <2>1. UNCHANGED sess /\ TasksKept
    <3> DEFINE t == start[a].task
    <3>1. task' \in {task, [task EXCEPT ![t] = Block(task[t], "scheduler")]}
      BY <1>1 DEF SpawnFails, Fail
    <3>2. UNCHANGED sess
      BY <1>1 DEF SpawnFails
    <3>3. QED
      BY <3>1, <3>2, TypedTasks, BlockSound DEF TasksKept, Blockers
  <2>2. LinkCoherent'
    BY <2>1, CoherentKept DEF SessionsKept, SessionsBound, Links
  <2>3. StartLinks'
    BY <1>1, <2>1 DEF SpawnFails, Fail, IdleStart, StartLinks, Links, Linked
  <2>4. LinkStep
    BY <2>1, ReachedKept DEF SessionsKept, SessionsBound
  <2>5. QED
    BY <2>2, <2>3, <2>4 DEF Links
<1>2. CASE \E s \in Sessions : SpawnSucceeds(a, s)
  <2>1. PICK s \in Sessions : SpawnSucceeds(a, s)
    BY <1>2
  <2>2. SessionsKept /\ TasksKept
    BY <2>1 DEF SpawnSucceeds, SessionsKept, SessionsBound, TasksKept
  <2>3. LinkCoherent' /\ LinkStep
    BY <2>2, CoherentKept, ReachedKept DEF Links, SessionsKept
  <2>4. ASSUME NEW b \in Actors, start'[b].pc # "idle"
        PROVE  /\ start'[b].task \in Tasks
               /\ start'[b].prev # NoSession => LinkedNext(start'[b].prev, start'[b].task)
               /\ start'[b].pc = "configure" => LinkedNext(start'[b].session, start'[b].task)
    <3>1. /\ start[b].pc # "idle"
          /\ start'[b].task = start[b].task /\ start'[b].prev = start[b].prev
      BY <2>1, <2>4 DEF SpawnSucceeds, StartRec
    <3>2. /\ start[b].task \in Tasks
          /\ start[b].prev # NoSession => LinkedNext(start[b].prev, start[b].task)
      BY <2>2, <3>1, LinkedKept DEF Links, StartLinks, SessionsKept
    <3>3. CASE b = a
      BY <2>1, <3>1, <3>2, <3>3 DEF SpawnSucceeds, NewSession, LinkedNext, StartRec
    <3>4. CASE b # a
      BY <2>1, <2>2, <3>1, <3>2, <3>4, LinkedKept
         DEF SpawnSucceeds, Links, StartLinks, SessionsKept
    <3>5. QED
      BY <3>3, <3>4
  <2>5. QED
    BY <2>3, <2>4 DEF Links, StartLinks, Linked, LinkedNext
<1>3. CASE \E ok \in BOOLEAN : FinishStart(a, ok)
  <2>1. PICK ok \in BOOLEAN : FinishStart(a, ok)
    BY <1>3
  <2> DEFINE st == start[a]
             new == Started(task[st.task], st)
  <2>2. /\ st.task \in Tasks
        /\ Linked(st.session, st.task)
        /\ st.prev # NoSession => Linked(st.prev, st.task)
    BY <2>1 DEF FinishStart, Links, StartLinks
  <2>3. task' = [task EXCEPT ![st.task] = new]
    BY <2>1 DEF FinishStart
  <2>4. Linked(new.session, st.task)
    <3>1. new.session = IF st.review /\ st.prev # NoSession THEN st.prev ELSE st.session
      BY <2>2, TypedTasks DEF Started, SetStatus, Sound, TaskRec
    <3>2. QED
      BY <2>2, <3>1
  <2>5. SessionsKept
    BY <2>1 DEF FinishStart, SessionsKept, SessionsBound
  <2>6. LinkCoherent'
    <3> HIDE DEF new
    <3> SUFFICES ASSUME NEW t \in Tasks, task'[t].session # NoSession
                 PROVE  LinkedNext(task'[t].session, t)
      BY DEF LinkCoherent, LinkedNext
    <3>1. Linked(task'[t].session, t)
      BY <2>2, <2>3, <2>4, CoherentLinked DEF Links
    <3>2. QED
      BY <2>5, <3>1, LinkedKept DEF SessionsKept
  <2>7. StartLinks'
    <3>1. \A b \in Actors : start'[b].pc # "idle" => b # a /\ start'[b] = start[b]
      BY <2>1 DEF FinishStart, IdleStart
    <3>2. QED
      BY <2>5, <3>1, LinkedKept DEF Links, StartLinks, Linked, LinkedNext, SessionsKept
  <2>8. LinkStep
    <3>1. new.session = IF st.review /\ st.prev # NoSession THEN st.prev ELSE st.session
      BY <2>2, TypedTasks DEF Started, SetStatus, Sound, TaskRec
    <3> HIDE DEF new
    <3> SUFFICES ASSUME NEW t \in Tasks, Reached(t), ~StartOfDeleted(t)
                 PROVE  Reached(t)'
      BY DEF LinkStep
    <3>2. CASE t # st.task
      <4>1. task'[t] = task[t] /\ (task[t].session # NoSession => task[t].session \in Sessions)
        BY <2>3, <3>2, TypedTasks DEF Sound, TaskRec
      <4>2. QED
        BY <2>5, <4>1 DEF Reached, SessionsKept, SessionsBound
    <3>3. CASE t = st.task
      <4>1. task'[t].session = new.session /\ LinkedNext(new.session, t)
        BY <2>2, <2>3, <2>4, <2>5, <3>3, LinkedKept DEF SessionsKept
      <4>2. st.pc = "configure" /\ start'[a].pc = "idle" /\ new.session \in {st.session, st.prev}
        BY <2>1, <3>1 DEF FinishStart, IdleStart
      <4>3. sess[new.session].proc # "deleted"
        <5>1. new.session # NoSession
          BY <2>4, BoardAssumption DEF Linked
        <5>2. QED
          BY <3>3, <4>1, <4>2, <5>1 DEF StartOfDeleted
      <4>4. sess[new.session].proc \in {"running", "dead"}
        BY <2>4, <4>3 DEF Linked, SessRec
      <4>5. QED
        BY <2>4, <2>5, <4>1, <4>4 DEF Reached, SessionsKept, Linked, LinkedNext
    <3>4. QED
      BY <3>2, <3>3
  <2>9. QED
    BY <2>6, <2>7, <2>8 DEF Links
<1>4. QED
  BY <1>1, <1>2, <1>3 DEF StartStep

LEMMA LinksTickStep == ASSUME Typed, Links, TickStep PROVE Links' /\ LinkStep
<1> USE DEF Typed, TypeOK
<1>1. CASE StartTick
  BY <1>1, AllKept DEF StartTick, SessionsKept, SessionsBound, TasksKept
<1>2. CASE PrepareTick
  <2>1. task' = [t \in Tasks |-> Revived(t)]
    BY <1>2 DEF PrepareTick
  <2>2. TasksKept
    BY <2>1, TypedTasks, RevivedSound DEF TasksKept
  <2>3. QED
    BY <1>2, <2>2, AllKept DEF PrepareTick, SessionsKept, SessionsBound
<1>3. CASE FinishTick
  BY <1>3, AllKept DEF FinishTick, SessionsKept, SessionsBound, TasksKept
<1>4. ASSUME NEW t \in Tasks, ScanSkip(t) PROVE Links' /\ LinkStep
  BY <1>4, AllKept DEF ScanSkip, SessionsKept, SessionsBound, TasksKept
<1>5. ASSUME NEW t \in Tasks, ScanContinue(t) PROVE Links' /\ LinkStep
  <2> DEFINE s == task[t].session
  <2>1. Linked(s, t)
    BY <1>5, CoherentLinked DEF ScanContinue, Continuable, Links
  <2>2. SessionsKept
    <3>1. \A r \in Sessions \ {s} : sess'[r] = sess[r]
      BY <1>5 DEF ScanContinue
    <3>2. sess'[s].proc = sess[s].proc /\ sess'[s].task = t
      BY <1>5, <2>1 DEF ScanContinue, Linked, SessRec
    <3>3. QED
      BY <2>1, <3>1, <3>2 DEF SessionsKept, SessionsBound, Linked
  <2>3. TasksKept
    <3>1. task' = [task EXCEPT ![t] = Continued(task[t], s)]
      BY <1>5 DEF ScanContinue
    <3>2. Continued(task[t], s).session = task[t].session
      BY TypedTasks DEF Continued, SetStatus, Sound, TaskRec
    <3>3. QED
      BY <3>1, <3>2 DEF TasksKept
  <2>4. QED
    BY <1>5, <2>2, <2>3, AllKept DEF ScanContinue
<1>6. ASSUME NEW t \in Tasks, ScanOffline(t) PROVE Links' /\ LinkStep
  <2>1. TasksKept
    <3>1. task' = [task EXCEPT ![t] = WaitsForRunner(task[t], tick.snap[t])]
      BY <1>6 DEF ScanOffline
    <3>2. WaitsForRunner(task[t], tick.snap[t]).session = task[t].session
      BY TypedTasks DEF WaitsForRunner, Sound, TaskRec
    <3>3. QED
      BY <3>1, <3>2 DEF TasksKept
  <2>2. QED
    BY <1>6, <2>1, AllKept DEF ScanOffline, SessionsKept, SessionsBound
<1>7. ASSUME NEW t \in Tasks, ScanStart(t) PROVE Links' /\ LinkStep
  BY <1>7, BeginStartLinks DEF ScanStart, Actors
<1>8. QED
  BY <1>1, <1>2, <1>3, <1>4, <1>5, <1>6, <1>7 DEF TickStep

LEMMA LinksUserStep == ASSUME Typed, Links, UserStep PROVE Links' /\ LinkStep
<1> USE DEF Typed, TypeOK
<1>1. ASSUME NEW t \in Tasks, NEW st \in Statuses, UserMove(t, st) PROVE Links' /\ LinkStep
  <2>1. task' = [task EXCEPT ![t] = SetStatus(task[t], st)]
    BY <1>1 DEF UserMove
  <2>2. TasksKept
    BY <2>1, TypedTasks, SetStatusSound DEF TasksKept
  <2>3. QED
    BY <1>1, <2>2, AllKept DEF UserMove, SessionsKept, SessionsBound
<1>2. ASSUME NEW t \in Tasks, UserArchive(t) PROVE Links' /\ LinkStep
  <2>1. TasksKept
    BY <1>2 DEF UserArchive, TasksKept, TaskRec
  <2>2. QED
    BY <1>2, <2>1, AllKept DEF UserArchive, SessionsKept, SessionsBound
<1>3. ASSUME NEW t \in Tasks, UserStart(t) PROVE Links' /\ LinkStep
  BY <1>3, BeginStartLinks DEF UserStart, Actors
<1>4. ASSUME NEW s \in Sessions, UserPrompt(s) PROVE Links' /\ LinkStep
  <2>1. TasksKept
    <3> DEFINE t == sess[s].task
    <3>1. task' \in {task, [task EXCEPT ![t] = SetStatus(task[t], "running")]}
      BY <1>4 DEF UserPrompt
    <3>2. QED
      BY <3>1, TypedTasks, SetStatusSound DEF TasksKept, Statuses
  <2>2. SessionsKept
    BY <1>4 DEF UserPrompt, SessionsKept, SessionsBound
  <2>3. QED
    BY <1>4, <2>1, <2>2, AllKept DEF UserPrompt
<1>5. ASSUME NEW s \in Sessions, UserRename(s) PROVE Links' /\ LinkStep
  BY <1>5, ReportKeeps, AfterInactiveSound, AllKept DEF UserRename, SessionsKept, SessionsBound
<1>6. ASSUME NEW s \in Sessions, UserDelete(s) PROVE Links' /\ LinkStep
  <2>1. /\ TasksKept
        /\ \A t \in Tasks : task[t].session = s => task'[t].session = NoSession
    BY <1>6 DEF UserDelete, DeleteFrom, TasksKept, TaskRec
  <2>2. /\ SessionsBound
        /\ \A r \in Sessions \ {s} : sess'[r] = sess[r]
    BY <1>6 DEF UserDelete, DeleteFrom, SessionsBound, SessRec
  <2>3. LinkStep
    <3> SUFFICES ASSUME NEW t \in Tasks, Reached(t), task'[t].session # NoSession
                 PROVE  Reached(t)'
      BY DEF LinkStep, Reached
    <3>1. task'[t].session = task[t].session /\ task[t].session # s
      BY <2>1 DEF TasksKept
    <3>2. task[t].session \in Sessions
      BY <3>1, TypedTasks DEF Sound, TaskRec
    <3>3. QED
      BY <2>2, <3>1, <3>2 DEF Reached
  <2>4. QED
    BY <1>6, <2>1, <2>2, <2>3, LinksKept DEF UserDelete, DeleteFrom
<1>7. CASE UserPause
  BY <1>7, AllKept DEF UserPause, SessionsKept, SessionsBound, TasksKept
<1>8. CASE UserAutoRun
  BY <1>8, AllKept DEF UserAutoRun, SessionsKept, SessionsBound, TasksKept
<1>9. QED
  BY <1>1, <1>2, <1>3, <1>4, <1>5, <1>6, <1>7, <1>8 DEF UserStep

LEMMA LinksHubStep == ASSUME Typed, Links, HubStep PROVE Links' /\ LinkStep
<1> USE DEF Typed, TypeOK
<1>1. CASE PeriodicTick
  BY <1>1, AllKept DEF PeriodicTick, SessionsKept, SessionsBound, TasksKept
<1>2. CASE RunnerStops
  BY <1>2, AllKept DEF RunnerStops, SessionsKept, SessionsBound, TasksKept
<1>3. CASE RunnerReady
  BY <1>3, AllKept DEF RunnerReady, SessionsKept, SessionsBound, TasksKept
<1>4. CASE Restart
  <2>1. SessionsKept
    BY <1>4 DEF Restart, SessionsKept, SessionsBound, SessRec
  <2>2. LinkCoherent' /\ LinkStep
    BY <1>4, <2>1, CoherentKept, ReachedKept DEF Restart, TasksKept, Links, SessionsKept
  <2>3. StartLinks'
    BY <1>4 DEF Restart, StartLinks, IdleStart
  <2>4. QED
    BY <2>2, <2>3 DEF Links
<1>5. ASSUME NEW s \in Sessions, Reload(s) PROVE Links' /\ LinkStep
  BY <1>5, ReportKeeps, AfterInactiveSound, AllKept DEF Reload, SessionsKept, SessionsBound
<1>6. QED
  BY <1>1, <1>2, <1>3, <1>4, <1>5 DEF HubStep

LEMMA LinksNext == ASSUME Typed, Links, [Next]_vars PROVE Links' /\ LinkStep
<1>1. CASE UNCHANGED vars
  BY <1>1, AllKept DEF vars, SessionsKept, SessionsBound, TasksKept
<1>2. QED
  BY <1>1, LinksSessionStep, LinksStartStep, LinksTickStep, LinksUserStep, LinksHubStep
     DEF Next

LEMMA BoardLinked == Safety => []Links
<1>1. Init => Links
  BY DEF Init, InitFrom, Links, LinkCoherent, StartLinks, NewTask, IdleStart
<1>2. QED
  BY <1>1, LinksNext, BoardTyped, PTL DEF Safety

(* Whatever starts, reports, deletions and restarts interleave: the        *)
(* session a task points to exists and is linked back to the task, for as  *)
(* long as no start ends that links a session deleted during its awaits.   *)
THEOREM BoardLinks == Spec => LinkHolds
<1>1. ASSUME Typed, Links, [Next]_vars
      PROVE  [\A t \in Tasks : Reached(t) => Reached(t)' \/ StartOfDeleted(t)]_vars
  BY <1>1, LinksNext DEF LinkStep
<1>2. QED
  BY <1>1, BoardLinked, BoardTyped, PTL DEF Spec, Safety, LinkHolds

-----------------------------------------------------------------------------
(* The tick discipline.  That the board implements TickGate rests on where *)
(* the tick and its start stand while the marks of TickGate are set.       *)

Phases ==
    /\ tick.pc # "idle" <=> gate.running
    /\ start["tick"].pc # "idle" <=> tick.pc = "await"
    /\ ~(gate.timer /\ gate.running)
    /\ gate.pending => gate.running

LEMMA RequestedPhases ==
    ASSUME Typed, Phases, gate' \in {gate, Requested},
           UNCHANGED <<tick, start>>
    PROVE  Phases'
BY DEF Typed, TypeOK, GateRec, Phases, Requested

(* A step of the board that asks for a tick, or does not touch its marks *)
LEMMA GateRequest ==
    ASSUME Typed, gate' \in {gate, Requested}, UNCHANGED boots
    PROVE  [Gate!Next]_(Gate!vars)
<1>1. CASE gate' = gate
  BY <1>1 DEF Gate!vars
<1>2. CASE gate' = Requested
  <2>1. Gate!Request("p")
    BY <1>2 DEF Gate!Request, Gate!Arm, Requested, Typed, TypeOK, GateRec
  <2>2. QED
    BY <2>1 DEF Gate!Next
<1>3. QED
  BY <1>1, <1>2

LEMMA GateStartTick ==
    ASSUME Typed, Phases, StartTick
    PROVE  Gate!StartTick("p")
BY DEF StartTick, Phases, Gate!StartTick, Typed, TypeOK, GateRec

LEMMA GateFinishTick ==
    ASSUME Typed, Phases, FinishTick
    PROVE  Gate!FinishTick("p")
BY DEF FinishTick, Phases, Gate!FinishTick, Typed, TypeOK, GateRec

LEMMA GateRestart ==
    ASSUME Typed, Phases, Restart
    PROVE  Gate!Restart
BY DEF Restart, Phases, Gate!Restart, Typed, TypeOK, GateRec

(* What both lemmas on a step conclude *)
GateStep == Phases' /\ [Gate!Next]_(Gate!vars)

LEMMA MarkStep ==
    ASSUME Typed, Phases, gate' \in {gate, Requested}, UNCHANGED <<tick, start, boots>>
    PROVE  GateStep
BY RequestedPhases, GateRequest DEF GateStep

LEMMA GateSessionStep ==
    ASSUME Typed, Phases, NEW s \in Sessions, SessionStep(s)
    PROVE  GateStep
<1>1. gate' \in {gate, Requested} /\ UNCHANGED <<tick, start, boots>>
  BY DEF SessionStep, Heartbeat, StartTurn, Ready, ReadyWithoutReply,
         Interrupt, EndTurn, Die, BecomeInactive,
         Report
<1>2. QED
  BY <1>1, MarkStep

LEMMA GateStartStep ==
    ASSUME Typed, Phases, NEW a \in Actors, StartStep(a)
    PROVE  GateStep
<1> USE DEF Typed, TypeOK
<1>1. UNCHANGED <<gate, boots>>
  BY DEF StartStep, SpawnFails, SpawnSucceeds, FinishStart
<1>2. Phases'
  <2>1. CASE SpawnFails(a)
    BY <1>1, <2>1 DEF SpawnFails, Fail, Phases, IdleStart, Actors, TickRec
  <2>2. CASE \E s \in Sessions : SpawnSucceeds(a, s)
    <3>1. PICK s \in Sessions : SpawnSucceeds(a, s)
      BY <2>2
    <3>2. start[a].pc = "spawn" /\ start'[a].pc = "configure" /\ UNCHANGED tick
      BY <3>1 DEF SpawnSucceeds, StartRec
    <3>3. \A b \in Actors \ {a} : start'[b] = start[b]
      BY <3>1 DEF SpawnSucceeds
    <3>4. QED
      BY <1>1, <3>2, <3>3 DEF Phases, Actors
  <2>3. CASE \E ok \in BOOLEAN : FinishStart(a, ok)
    BY <1>1, <2>3 DEF FinishStart, Phases, IdleStart, Actors, TickRec
  <2>4. QED
    BY <2>1, <2>2, <2>3 DEF StartStep
<1>3. QED
  BY <1>1, <1>2, GateRequest DEF GateStep

LEMMA GateTickStep == ASSUME Typed, Phases, TickStep PROVE GateStep
<1> USE DEF Typed, TypeOK
<1>1. CASE StartTick
  <2>1. Phases'
    BY <1>1 DEF StartTick, Phases, IdleTick, HubIdle, GateRec
  <2>2. QED
    BY <1>1, <2>1, GateStartTick DEF GateStep, Gate!Next
<1>2. CASE PrepareTick
  <2>1. gate' \in {gate, Requested} /\ UNCHANGED <<start, boots>>
    BY <1>2 DEF PrepareTick, Announce
  <2>2. tick.pc = "enter" /\ tick'.pc = "scan"
    BY <1>2 DEF PrepareTick, TickRec
  <2>3. Phases'
    BY <2>1, <2>2 DEF Phases, Requested, GateRec
  <2>4. QED
    BY <2>1, <2>3, GateRequest DEF GateStep
<1>3. CASE FinishTick
  <2>1. Phases'
    BY <1>3 DEF FinishTick, Phases, IdleTick, GateRec
  <2>2. QED
    BY <1>3, <2>1, GateFinishTick DEF GateStep, Gate!Next
<1>4. ASSUME NEW t \in Tasks, ScanSkip(t) \/ ScanContinue(t) PROVE GateStep
  <2>1. UNCHANGED <<gate, start, boots>>
    BY <1>4 DEF ScanSkip, ScanContinue
  <2>2. tick.pc = "scan" /\ tick'.pc = "scan"
    BY <1>4 DEF ScanSkip, ScanContinue, Candidate, Passed, TickRec
  <2>3. QED
    BY <2>1, <2>2, GateRequest DEF GateStep, Phases
<1>5. ASSUME NEW t \in Tasks, ScanOffline(t) PROVE GateStep
  <2>1. gate' \in {gate, Requested} /\ UNCHANGED <<start, boots>>
    BY <1>5 DEF ScanOffline, Announce
  <2>2. tick.pc = "scan" /\ tick'.pc = "scan"
    BY <1>5 DEF ScanOffline, Candidate, Passed, TickRec
  <2>3. Phases'
    BY <2>1, <2>2 DEF Phases, Requested, GateRec
  <2>4. QED
    BY <2>1, <2>3, GateRequest DEF GateStep
<1>6. ASSUME NEW t \in Tasks, ScanStart(t) PROVE GateStep
  <2>1. UNCHANGED <<gate, boots>> /\ tick.pc = "scan"
    BY <1>6 DEF ScanStart, Candidate
  <2>2. tick'.pc = "await"
    <3>1. Passed(t, TRUE) \in TickRec
      BY PassedType
    <3>2. QED
      BY <1>6, <3>1 DEF ScanStart, TickRec
  <2>3. start'["tick"].pc = "spawn"
    BY <1>6 DEF ScanStart, BeginStart, Actors
  <2>4. QED
    BY <2>1, <2>2, <2>3, GateRequest DEF GateStep, Phases
<1>7. QED
  BY <1>1, <1>2, <1>3, <1>4, <1>5, <1>6 DEF TickStep

LEMMA GateUserStep == ASSUME Typed, Phases, UserStep PROVE GateStep
<1>1. ASSUME NEW t \in Tasks, UserStart(t) PROVE GateStep
  <2>1. UNCHANGED <<gate, tick, boots>> /\ start'["tick"] = start["tick"]
    BY <1>1 DEF UserStart, BeginStart, Actors, Typed, TypeOK
  <2>2. QED
    BY <2>1, GateRequest DEF GateStep, Phases
<1>2. CASE ~\E t \in Tasks : UserStart(t)
  <2>1. gate' \in {gate, Requested} /\ UNCHANGED <<tick, start, boots>>
    BY <1>2 DEF UserStep, UserMove, UserArchive, UserPrompt, UserRename,
         UserDelete, DeleteFrom,
               UserPause, UserAutoRun, Announce, Report
  <2>2. QED
    BY <2>1, MarkStep
<1>3. QED
  BY <1>1, <1>2

LEMMA GateHubStep == ASSUME Typed, Phases, HubStep PROVE GateStep
<1>1. CASE Restart
  <2>1. Phases'
    BY <1>1 DEF Restart, Phases, IdleTick, IdleStart, Actors
  <2>2. QED
    BY <1>1, <2>1, GateRestart DEF GateStep, Gate!Next
<1>2. CASE ~Restart
  <2>1. gate' \in {gate, Requested} /\ UNCHANGED <<tick, start, boots>>
    BY <1>2 DEF HubStep, PeriodicTick, RunnerStops, RunnerReady, Reload, Report
  <2>2. QED
    BY <2>1, MarkStep
<1>3. QED
  BY <1>1, <1>2

LEMMA PhasesInit == Init => Phases /\ Gate!Init
BY DEF Init, InitFrom, Phases, IdleTick, IdleStart, Actors, Gate!Init

LEMMA GateEveryStep == Typed /\ Phases /\ [Next]_vars => GateStep
<1> SUFFICES ASSUME Typed, Phases, [Next]_vars PROVE GateStep
  OBVIOUS
<1>1. CASE UNCHANGED vars
  BY <1>1, MarkStep DEF vars
<1>2. QED
  BY <1>1, GateSessionStep, GateStartStep, GateTickStep, GateUserStep, GateHubStep DEF Next

LEMMA BoardPhases == Safety => []Phases
BY PhasesInit, GateEveryStep, BoardTyped, PTL DEF Safety, GateStep

(* Every behaviour of the board is one of TickGate: the awaits, reports,   *)
(* starts and restarts of the board never lose a requested tick, so the    *)
(* theorems of TickGateProofs hold of the scheduler.                       *)
THEOREM BoardImplementsGate == Spec => GateSafety
<1>1. Safety => []Typed
  BY BoardTyped
<1>2. QED
  BY <1>1, PhasesInit, GateEveryStep, PTL DEF Spec, Safety, GateSafety, Gate!Safety, GateStep

-----------------------------------------------------------------------------
(* What a step may never do, whatever the constants *)

(* A hub that restarted announces its sessions before it ticks. *)
ReloadFirst == reload # {} => tick.pc = "idle"

LEMMA ReloadFirstKept == ReloadFirst /\ [Next]_vars => ReloadFirst'
<1> SUFFICES ASSUME ReloadFirst, [Next]_vars PROVE ReloadFirst'
  OBVIOUS
<1>1. CASE UNCHANGED <<tick, reload>>
  BY <1>1 DEF ReloadFirst
<1>2. ASSUME NEW s \in Sessions, SessionStep(s) PROVE UNCHANGED <<tick, reload>>
  BY <1>2 DEF SessionStep, Heartbeat, StartTurn, Ready, ReadyWithoutReply,
         Interrupt, EndTurn, Die, BecomeInactive
<1>3. ASSUME NEW a \in Actors, StartStep(a) PROVE ReloadFirst'
  BY <1>3 DEF StartStep, SpawnFails, SpawnSucceeds, FinishStart, HubIdle, ReloadFirst
<1>4. ASSUME TickStep PROVE ReloadFirst'
  BY <1>4 DEF TickStep, StartTick, PrepareTick, FinishTick, ScanSkip, ScanContinue, ScanOffline,
              ScanStart, Candidate, HubIdle, ReloadFirst
<1>5. ASSUME UserStep PROVE UNCHANGED <<tick, reload>>
  BY <1>5 DEF UserStep, UserMove, UserArchive, UserStart, UserPrompt, UserRename,
         UserDelete, DeleteFrom,
              UserPause, UserAutoRun
<1>6. ASSUME HubStep PROVE ReloadFirst'
  <2>1. CASE Restart
    BY <2>1 DEF Restart, IdleTick, ReloadFirst
  <2>2. CASE \E s \in Sessions : Reload(s)
    BY <2>2 DEF Reload, ReloadFirst
  <2>3. CASE PeriodicTick \/ RunnerStops \/ RunnerReady
    BY <2>3 DEF PeriodicTick, RunnerStops, RunnerReady, ReloadFirst
  <2>4. QED
    BY <1>6, <2>1, <2>2, <2>3 DEF HubStep
<1>7. QED
  BY <1>1, <1>2, <1>3, <1>4, <1>5, <1>6 DEF Next, vars

LEMMA BoardReloads == Safety => []ReloadFirst
<1>1. Init => ReloadFirst
  BY DEF Init, InitFrom, ReloadFirst
<1>2. QED
  BY <1>1, ReloadFirstKept, PTL DEF Safety

(* The tick requests a session for a task only in its scan, ... *)
LEMMA RequestsInScan ==
    ASSUME Typed, Next, start["tick"].pc = "idle", start'["tick"].pc = "spawn"
    PROVE  \E t \in Tasks : ScanStart(t)
<1> USE DEF Typed, TypeOK, Actors
<1>1. ASSUME NEW s \in Sessions, SessionStep(s) PROVE UNCHANGED start
  BY <1>1 DEF SessionStep, Heartbeat, StartTurn, Ready, ReadyWithoutReply,
         Interrupt, EndTurn, Die, BecomeInactive
<1>2. ASSUME NEW a \in Actors, StartStep(a)
      PROVE  start'["tick"].pc # "spawn" \/ start'["tick"] = start["tick"]
  <2>1. CASE SpawnFails(a) \/ \E ok \in BOOLEAN : FinishStart(a, ok)
    BY <1>2, <2>1 DEF SpawnFails, Fail, FinishStart, IdleStart
  <2>2. CASE \E s \in Sessions : SpawnSucceeds(a, s)
    <3>1. start[a] \in StartRec
      BY <1>2
    <3>2. QED
      BY <2>2, <3>1 DEF SpawnSucceeds, StartRec
  <2>3. QED
    BY <1>2, <2>1, <2>2 DEF StartStep
<1>3. ASSUME TickStep PROVE UNCHANGED start \/ \E t \in Tasks : ScanStart(t)
  BY <1>3 DEF TickStep, StartTick, PrepareTick, FinishTick, ScanSkip, ScanContinue, ScanOffline
<1>4. ASSUME UserStep PROVE start'["tick"] = start["tick"]
  BY <1>4 DEF UserStep, UserMove, UserArchive, UserStart, UserPrompt, UserRename,
         UserDelete, DeleteFrom,
              UserPause, UserAutoRun, BeginStart
<1>5. ASSUME HubStep PROVE UNCHANGED start \/ start'["tick"] = IdleStart
  BY <1>5 DEF HubStep, PeriodicTick, RunnerStops, RunnerReady, Restart, Reload
<1>6. QED
  BY <1>1, <1>2, <1>3, <1>4, <1>5 DEF Next, IdleStart

(* ... where it also continues one; nothing else happens in the scan. *)
LEMMA ScanAlone ==
    ASSUME Next, ReloadFirst, tick.pc = "scan"
    PROVE  \/ UNCHANGED task
           \/ \E t \in Tasks : ScanContinue(t) \/ ScanOffline(t)
<1>1. ~HubIdle /\ reload = {}
  BY DEF HubIdle, ReloadFirst
<1>2. TickStep
  <2>1. ASSUME NEW s \in Sessions PROVE ~SessionStep(s)
    BY <1>1 DEF SessionStep, Heartbeat, StartTurn, Ready, ReadyWithoutReply,
         Interrupt, EndTurn, Die, BecomeInactive
  <2>2. ASSUME NEW a \in Actors PROVE ~StartStep(a)
    BY <1>1 DEF StartStep, SpawnFails, SpawnSucceeds, FinishStart
  <2>3. ~UserStep
    BY <1>1 DEF UserStep, UserMove, UserArchive, UserStart, UserPrompt, UserRename,
         UserDelete, DeleteFrom,
               UserPause, UserAutoRun, UserOp
  <2>4. ~HubStep
    BY <1>1 DEF HubStep, PeriodicTick, RunnerStops, RunnerReady, Restart, Reload
  <2>5. QED
    BY <2>1, <2>2, <2>3, <2>4 DEF Next
<1>3. QED
  BY <1>1, <1>2 DEF TickStep, StartTick, PrepareTick, FinishTick, ScanSkip, ScanStart

(* A pause takes effect at once: a tick that began before it, and that     *)
(* awaited a start when it came, starts and continues no task of the goal. *)
THEOREM BoardPauseHolds == Spec => PausedNotStarted
<1> DEFINE Held == paused => \A t \in GoalTasks :
              /\ start["tick"].pc = "idle" /\ start'["tick"].pc = "spawn"
                 => start'["tick"].task # t
              /\ tick.pc = "scan" /\ task[t].status # "running" => task'[t].status # "running"
<1>1. Typed /\ ReloadFirst /\ [Next]_vars => Held
  <2> SUFFICES ASSUME Typed, ReloadFirst, [Next]_vars, paused, NEW t \in GoalTasks
               PROVE  /\ start["tick"].pc = "idle" /\ start'["tick"].pc = "spawn"
                         => start'["tick"].task # t
                      /\ tick.pc = "scan" /\ task[t].status # "running"
                         => task'[t].status # "running"
    OBVIOUS
  <2>0. \A u \in GoalTasks : ~Eligible(u)
    BY DEF Eligible, AutoRunnable, Policy
  <2>1. ASSUME start["tick"].pc = "idle", start'["tick"].pc = "spawn"
        PROVE  start'["tick"].task # t
    <3>1. PICK u \in Tasks : ScanStart(u)
      BY <2>1, RequestsInScan DEF vars
    <3>2. start'["tick"].task = u
      BY <3>1 DEF ScanStart, BeginStart, Typed, TypeOK, Actors
    <3>3. QED
      BY <2>0, <3>1, <3>2 DEF ScanStart
  <2>2. ASSUME tick.pc = "scan", task[t].status # "running"
        PROVE  task'[t].status # "running"
    <3>1. CASE UNCHANGED task
      BY <2>2, <3>1
    <3>2. CASE \E u \in Tasks : ScanContinue(u)
      BY <2>0, <3>2 DEF ScanContinue, Continuable
    <3>3. CASE \E u \in Tasks : ScanOffline(u)
      <4>1. PICK u \in Tasks : ScanOffline(u)
        BY <3>3
      <4>2. task' = [task EXCEPT ![u] = WaitsForRunner(task[u], tick.snap[u])]
        BY <4>1 DEF ScanOffline
      <4>3. WaitsForRunner(task[u], tick.snap[u]).status = task[u].status
        BY TypedTasks DEF WaitsForRunner, Sound, TaskRec
      <4>4. QED
        BY <2>2, <4>2, <4>3, BoardAssumption DEF Typed, TypeOK
    <3>4. QED
      BY <2>2, <3>1, <3>2, <3>3, ScanAlone DEF vars
  <2>3. QED
    BY <2>1, <2>2
<1>2. QED
  BY <1>1, BoardTyped, BoardReloads, PTL DEF Spec, Safety, PausedNotStarted

(* A report leaves an archived task as it was. *)
LEMMA ReportsLeaveArchived ==
    ASSUME NEW s \in Sessions, task[sess[s].task].archived
    PROVE  /\ AfterReady(s) = task[sess[s].task]
           /\ AfterInactive(s) = task[sess[s].task]
BY DEF AfterReady, AfterInactive, Applicable, AlreadyApplied, Recoverable

(* An archived task that stays archived keeps its status. *)
Left(t) == task[t].archived /\ task'[t].archived => task'[t].status = task[t].status

LEMMA ReportLeaves ==
    ASSUME Typed, NEW s \in Sessions, NEW new, NEW applied, NEW fell, NEW ss,
           sess[s].task \in Tasks /\ task[sess[s].task].archived
               => new.status = task[sess[s].task].status,
           Report(s, new, applied, fell, ss)
    PROVE  \A t \in Tasks : Left(t)
BY DEF Report, Left, Typed, TypeOK

LEMMA SessionsLeave ==
    ASSUME Typed, NEW s \in Sessions, SessionStep(s) \/ UserRename(s) \/ Reload(s)
    PROVE  \A t \in Tasks : Left(t)
<1>1. CASE Heartbeat(s)
  <2>1. PICK new, fell, ss :
           /\ Report(s, new, FALSE, fell, ss)
           /\ task[sess[s].task].archived => new = task[sess[s].task]
    BY <1>1 DEF Heartbeat
  <2>2. QED
    BY <2>1, ReportLeaves
<1>2. CASE Ready(s)
  BY <1>2, ReportLeaves, ReportsLeaveArchived DEF Ready
<1>3. CASE Interrupt(s)
  BY <1>3, ReportLeaves DEF Interrupt
<1>4. CASE BecomeInactive(s) \/ UserRename(s) \/ Reload(s)
  BY <1>4, ReportLeaves, ReportsLeaveArchived DEF BecomeInactive, UserRename, Reload
<1>5. CASE \/ StartTurn(s) \/ ReadyWithoutReply(s) \/ Die(s)
           \/ \E pkt \in Packets : EndTurn(s, pkt)
  BY <1>5 DEF StartTurn, ReadyWithoutReply, Die, EndTurn, Left
<1>6. QED
  BY <1>1, <1>2, <1>3, <1>4, <1>5 DEF SessionStep

(* Sessions report what they like: an archived task stays where it is.     *)
(* Only the user, a start under way, or a tick that had read the task      *)
(* before moves it.                                                        *)
THEOREM BoardArchived == Spec => ArchivedUntouched
<1>1. Typed /\ [Next]_vars =>
        \A t \in Tasks : start' = start /\ ~Scanning(t) => Left(t)
  <2> SUFFICES ASSUME Typed, [Next]_vars, start' = start, NEW t \in Tasks, ~Scanning(t)
               PROVE  Left(t)
    OBVIOUS
  <2> USE DEF Typed, TypeOK
  <2>1. CASE UNCHANGED task
    BY <2>1 DEF Left
  <2>2. ASSUME NEW s \in Sessions, SessionStep(s) PROVE Left(t)
    BY <2>2, SessionsLeave
  <2>3. ASSUME NEW a \in Actors, StartStep(a) PROVE UNCHANGED task
    <3>1. start[a] \in StartRec /\ start'[a] = start[a]
      OBVIOUS
    <3>2. ~SpawnFails(a) /\ \A ok \in BOOLEAN : ~FinishStart(a, ok)
      BY <3>1 DEF SpawnFails, Fail, FinishStart, IdleStart
    <3>3. QED
      BY <2>3, <3>2 DEF StartStep, SpawnSucceeds
  <2>4. ASSUME TickStep PROVE Left(t)
    <3>1. CASE PrepareTick
      <4>1. task'[t] = Revived(t)
        BY <3>1 DEF PrepareTick
      <4>2. task[t] \in TaskRec
        OBVIOUS
      <4>3. CASE Restored(t)
        BY <4>1, <4>2, <4>3 DEF Revived, TaskRec, Left
      <4>4. CASE ~Restored(t) /\ task[t].archived
        BY <4>1, <4>4 DEF Revived, RunnerOfflineBlock, Left
      <4>5. QED
        BY <4>3, <4>4 DEF Left
    <3>2. ASSUME NEW u \in Tasks, ScanContinue(u) \/ ScanOffline(u) PROVE Left(t)
      <4>1. u # t
        BY <3>2 DEF ScanContinue, ScanOffline, Candidate, Scanning
      <4>2. QED
        BY <3>2, <4>1 DEF ScanContinue, ScanOffline, Left
    <3>3. QED
      BY <2>1, <2>4, <3>1, <3>2 DEF TickStep, StartTick, FinishTick, ScanSkip, ScanStart
  <2>5. ASSUME UserStep PROVE Left(t)
    <3>1. ASSUME NEW u \in Tasks, NEW st \in Statuses, UserMove(u, st) PROVE Left(t)
      BY <3>1 DEF UserMove, Left
    <3>2. ASSUME NEW u \in Tasks, UserArchive(u) \/ UserStart(u) PROVE Left(t)
      BY <3>2 DEF UserArchive, UserStart, Left
    <3>3. ASSUME NEW s \in Sessions, UserPrompt(s) PROVE Left(t)
      BY <3>3 DEF UserPrompt, Left
    <3>4. ASSUME NEW s \in Sessions, UserRename(s) PROVE Left(t)
      BY <3>4, SessionsLeave
    <3>5. ASSUME NEW s \in Sessions, UserDelete(s) PROVE Left(t)
      BY <3>5 DEF UserDelete, DeleteFrom, Left, TaskRec
    <3>6. CASE UserPause \/ UserAutoRun
      BY <2>1, <3>6 DEF UserPause, UserAutoRun
    <3>7. QED
      BY <2>5, <3>1, <3>2, <3>3, <3>4, <3>5, <3>6 DEF UserStep
  <2>6. ASSUME HubStep PROVE Left(t)
    <3>1. ASSUME NEW s \in Sessions, Reload(s) PROVE Left(t)
      BY <3>1, SessionsLeave
    <3>2. QED
      BY <2>1, <2>6, <3>1 DEF HubStep, PeriodicTick, RunnerStops, RunnerReady, Restart
  <2>7. QED
    BY <2>1, <2>2, <2>3, <2>4, <2>5, <2>6 DEF Next, vars
<1>2. Typed /\ [Next]_vars =>
        \A t \in Tasks :
          task[t].archived /\ task'[t].archived /\ start' = start /\ ~Scanning(t)
          => task'[t].status = task[t].status
  BY <1>1 DEF Left
<1>3. QED
  BY <1>2, BoardTyped, PTL DEF Spec, Safety, ArchivedUntouched
=============================================================================
