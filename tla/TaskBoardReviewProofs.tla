------------------------ MODULE TaskBoardReviewProofs -----------------------
(* Theorems about the work on a task and its review, for every set of      *)
(* tasks and sessions: one agent at a time, an evaluator's verdict before  *)
(* a task is done, and an end of the evaluators that say nothing.          *)
EXTENDS TaskBoardProofs

(* What these theorems suppose of the environment: the user does not step  *)
(* in by hand, live sessions keep their connection, the runner and the hub *)
(* stay up.  Each of these breaks at least one of the properties.          *)
Unattended ==
    /\ UserOps \cap {"move", "prompt", "start"} = {}
    /\ Faults \cap {"partition", "runner"} = {}
    /\ MaxRestarts = 0

-----------------------------------------------------------------------------
(* The inductive invariant.  It speaks of one task t at a time: of the     *)
(* sessions of t that have something to do or to tell, and of those of its *)
(* evaluators whose verdict was not applied.                               *)

Present(s) == sess[s].proc \in {"running", "dead"}
Occupied(s) == sess[s].mail \/ sess[s].turn \in {"busy", "ended"}
Untold(s) == sess[s].task \in GoalTasks /\ s \notin latched /\ sess[s].packet # "none"

Engaged(t) ==
    {s \in Sessions : Present(s) /\ sess[s].task = t /\ (Occupied(s) \/ Untold(s))}
Undecided(t) ==
    {s \in Sessions : /\ Present(s) /\ sess[s].task = t
                      /\ sess[s].role = "evaluator" /\ s \notin latched}
Single(S) == \A r, s \in S : r = s

(* The tick is starting a session for t. *)
InFlight(t) == start["tick"].pc # "idle" /\ start["tick"].task = t

(* An evaluator has taken up the review of t, as rec tells. *)
Judging(t, rec) == t \in GoalTasks /\ rec.status = "review" /\ rec.source = "evaluator"

(* At most one session of t is engaged; then no other is being started, no *)
(* tick considers t, and t runs, is blocked or is judged by that session.  *)
Exclusive(t) ==
    /\ Single(Engaged(t))
    /\ Judging(t, task[t]) => Engaged(t) \subseteq Undecided(t)
    /\ Engaged(t) # {} =>
          /\ ~InFlight(t)
          /\ task[t].status \in {"running", "blocked"} \/ Judging(t, task[t])
          /\ t \in tick.todo => Judging(t, tick.snap[t])
          /\ t \in GoalTasks /\ task[t].status = "running" => task[t].source # "evaluator"

(* What the start of a session still finds after its awaits *)
StartHolds(t) ==
    LET st == start["tick"] IN
    InFlight(t) =>
        /\ t \notin tick.todo
        /\ task[t].status # "done"
        /\ t \in GoalTasks => task[t].source # "evaluator"
        /\ st.review <=> st.role = "evaluator"
        /\ st.review => t \in GoalTasks
        /\ st.pc = "spawn" => st.session = NoSession
        /\ st.pc = "configure" => sess[st.session].role = st.role /\ st.session \notin latched

(* What the tick still finds of a candidate it has read *)
ScanHolds(t) ==
    /\ t \in tick.todo /\ (t \in GoalTasks /\ task[t].source = "evaluator")
          => Judging(t, tick.snap[t])
    /\ t \in tick.todo /\ task[t].status = "done" => Judging(t, tick.snap[t])

PlannedByOthers(t) ==
    t \in GoalTasks /\ task[t].status = "planning" => task[t].source # "evaluator"

(* While t has an attempt left, no silent evaluator of it is undecided: an *)
(* evaluator that ends without a verdict uses the attempt up.              *)
Quota(t) ==
    t \in GoalTasks =>
        /\ InFlight(t) /\ start["tick"].retry = 0
              => Undecided(t) \subseteq {start["tick"].session}
        /\ ~InFlight(t) /\ task[t].retry = 0 /\ task[t].status # "blocked"
              => IF Judging(t, task[t]) THEN Single(Undecided(t)) ELSE Undecided(t) = {}
        /\ t \in tick.todo /\ task[t].retry = 0 /\ ~Judging(t, tick.snap[t])
              => Undecided(t) = {}

Orderly(t) ==
    Exclusive(t) /\ StartHolds(t) /\ ScanHolds(t) /\ PlannedByOthers(t) /\ Quota(t)

(* Without users and faults of that kind, sessions are lost by dying only. *)
AtRest(s) ==
    /\ sess[s].proc = "running" => sess[s].active
    /\ sess[s].proc # "running" => sess[s].turn = "idle" /\ ~sess[s].mail
    /\ sess[s].mail => sess[s].turn \notin {"busy", "ended"}
    /\ sess[s].proc # "free" => sess[s].task \in Tasks
    /\ sess[s].proc = "free" => sess[s].task = NoTask /\ s \notin latched

Calm ==
    /\ runner /\ reload = {} /\ start["user"].pc = "idle"
    /\ \A t \in Tasks : ~task[t].waiting
    /\ \A s \in Sessions : AtRest(s)

Reviewing == Calm /\ \A t \in Tasks : Orderly(t)

(* The facts about the board that are proved for every environment *)
Board == Typed /\ Links /\ Phases

-----------------------------------------------------------------------------
(* Steps that add nothing to a task: no session of it becomes engaged or   *)
(* undecided, and it keeps its status or is blocked.                       *)
Adds(t) ==
    \/ ~(Engaged(t)' \subseteq Engaged(t))
    \/ ~(Undecided(t)' \subseteq Undecided(t))
    \/ ~(Engaged(t)' \cap Undecided(t) \subseteq Undecided(t)')

BlockedOrSame(new, rec) ==
    /\ new.source = rec.source /\ new.retry = rec.retry
    /\ new.status \in {rec.status, "blocked"}
    /\ rec.status = "done" => new.status = "done"
    /\ new.waiting => rec.waiting

Same(t) ==
    /\ BlockedOrSame(task'[t], task[t])
    /\ ~Adds(t)
    /\ t \in tick'.todo => t \in tick.todo /\ tick'.snap[t] = tick.snap[t]
    /\ InFlight(t)' =>
          /\ InFlight(t) /\ start'["tick"] = start["tick"]
          /\ LET s == start["tick"].session IN
             start["tick"].pc = "configure" =>
                sess'[s].role = sess[s].role /\ (s \in latched' => s \in latched)
    /\ InFlight(t) => InFlight(t)' \/ task'[t].status = "blocked"

(* What each step does for each task: the invariant holds after it, and    *)
(* what was done is done.                                                  *)
Final(t) == task[t].status = "done" => task'[t].status = "done"
Advance(t) == Orderly(t)' /\ ~task'[t].waiting /\ Final(t)

LEMMA SameKept ==
    ASSUME NEW t \in Tasks, Reviewing, Same(t)
    PROVE  Advance(t)
<1> USE DEF Same, Adds, BlockedOrSame
<1>0. Orderly(t) /\ ~task[t].waiting
  BY DEF Reviewing, Calm
<1>1. Judging(t, task[t])' => Judging(t, task[t])
  BY DEF Judging
<1>2. Exclusive(t)'
  BY <1>0, <1>1 DEF Orderly, Exclusive, Single, Judging
<1>3. StartHolds(t)'
  BY <1>0 DEF Orderly, StartHolds, InFlight
<1>4. ScanHolds(t)'
  BY <1>0 DEF Orderly, ScanHolds, Judging
<1>5. PlannedByOthers(t)'
  BY <1>0 DEF Orderly, PlannedByOthers
<1>6. Quota(t)'
  BY <1>0 DEF Orderly, Quota, InFlight, Judging, Single
<1>7. QED
  BY <1>0, <1>2, <1>3, <1>4, <1>5, <1>6 DEF Orderly, Advance, Final

(* A step of the session s: the others stay, and s keeps task and role. *)
OnlySession(s) ==
    /\ \A r \in Sessions \ {s} : sess'[r] = sess[r] /\ (r \in latched' <=> r \in latched)
    /\ sess'[s].task = sess[s].task /\ sess'[s].role = sess[s].role

LEMMA OtherSessions ==
    ASSUME NEW s \in Sessions, OnlySession(s), NEW t
    PROVE  /\ Engaged(t)' \ {s} = Engaged(t) \ {s}
           /\ Undecided(t)' \ {s} = Undecided(t) \ {s}
           /\ t # sess[s].task => Engaged(t)' = Engaged(t) /\ Undecided(t)' = Undecided(t)
BY DEF OnlySession, Engaged, Undecided, Present, Occupied, Untold

(* The start under way is for a task that its session is linked to. *)
LEMMA StartedLink ==
    ASSUME Board, NEW t, InFlight(t)
    PROVE  /\ t \in Tasks
           /\ start["tick"].pc = "configure"
                => Linked(start["tick"].session, t)
BY DEF Board, Links, StartLinks, InFlight, Actors

(* A session that became neither engaged nor undecided, and a task that    *)
(* stayed or was blocked                                                   *)
LEMMA SessionSame ==
    ASSUME Board, NEW s \in Sessions, OnlySession(s), UNCHANGED <<tick, start>>,
           NEW t \in Tasks,
           BlockedOrSame(task'[t], task[t]),
           s \in Engaged(t)' => s \in Engaged(t),
           s \in latched' => s \in latched \/ (t # sess[s].task),
           Present(s)' => Present(s),
           s \in latched /\ Present(s)' => s \in latched'
    PROVE  Same(t)
<1>1. ~Adds(t)
  <2>1. Engaged(t)' \subseteq Engaged(t)
    BY OtherSessions
  <2>2. Undecided(t)' \subseteq Undecided(t)
    BY OtherSessions DEF Undecided, OnlySession
  <2>3. Engaged(t)' \cap Undecided(t) \subseteq Undecided(t)'
    BY OtherSessions DEF Undecided, Engaged, OnlySession
  <2>4. QED
    BY <2>1, <2>2, <2>3 DEF Adds
<1>2. ASSUME InFlight(t), start["tick"].pc = "configure"
      PROVE  LET r == start["tick"].session IN
             sess'[r].role = sess[r].role /\ (r \in latched' => r \in latched)
  <2>1. Linked(start["tick"].session, t)
    BY <1>2, StartedLink
  <2>2. QED
    BY <2>1 DEF Linked, OnlySession
<1>3. QED
  BY <1>1, <1>2 DEF Same, InFlight

-----------------------------------------------------------------------------
(* Reports.  The engaged session of t is done with its report: whatever    *)
(* becomes of t, nothing is engaged, and no attempt of it is open.         *)
LEMMA Disengaged ==
    ASSUME NEW t \in Tasks, Orderly(t), Engaged(t) # {}, Engaged(t)' = {},
           UNCHANGED <<tick, start>>,
           PlannedByOthers(t)',
           t \in GoalTasks /\ task'[t].retry = 0 => Undecided(t)' = {}
    PROVE  Orderly(t)'
<1>1. ~InFlight(t) /\ (t \in tick.todo => Judging(t, tick.snap[t]))
  BY DEF Orderly, Exclusive
<1>2. ~InFlight(t)' /\ (t \in tick'.todo => Judging(t, tick.snap[t])')
  BY <1>1 DEF InFlight, Judging
<1>3. Exclusive(t)'
  BY DEF Exclusive, Single
<1>4. StartHolds(t)'
  BY <1>2 DEF StartHolds
<1>5. ScanHolds(t)'
  BY <1>2 DEF ScanHolds
<1>6. Quota(t)'
  BY <1>2 DEF Quota, Single
<1>7. QED
  BY <1>3, <1>4, <1>5, <1>6 DEF Orderly

LEMMA PacketPatchFacts ==
    ASSUME NEW t \in GoalTasks, NEW rec, Sound(rec), NEW pkt \in PacketKinds,
           rec.status \in {"running", "review"}
    PROVE  LET new == PacketPatch(t, rec, pkt) IN
           /\ new.retry = rec.retry /\ new.waiting = rec.waiting
           /\ new.status = "planning" => new.source # "evaluator"
<1> DEFINE st == IF pkt = "done" /\ ActionRole(t, rec) = "generator" THEN "review" ELSE pkt
           set == SetStatus(rec, st)
           source == IF ActionRole(t, rec) = "evaluator" /\ st \in {"planning", "blocked", "review"}
                     THEN "manual" ELSE set.source
<1>1. CASE pkt = "other"
  BY <1>1 DEF PacketPatch
<1>2. CASE pkt # "other"
  <2>1. st \in Statuses
    BY <1>2 DEF PacketKinds, Statuses
  <2>2. /\ set \in TaskRec /\ set.status = st /\ set.source = rec.source
        /\ set.retry = rec.retry /\ set.waiting = rec.waiting
    BY <2>1 DEF SetStatus, Sound, TaskRec, Blockers
  <2>3. PacketPatch(t, rec, pkt) = [set EXCEPT !.source = source]
    BY <1>2 DEF PacketPatch
  <2>4. rec.source = "evaluator" => ActionRole(t, rec) = "evaluator"
    BY DEF ActionRole
  <2>5. st = "planning" => source # "evaluator"
    BY <2>2, <2>4
  <2> HIDE DEF st, set, source
  <2>6. QED
    BY <2>2, <2>3, <2>5 DEF TaskRec
<1>3. QED
  BY <1>1, <1>2

(* A session whose packet is due is the engaged one. *)
LEMMA ApplicableEngaged ==
    ASSUME Board, NEW s \in Sessions, Present(s), Applicable(s)
    PROVE  /\ sess[s].task \in Tasks /\ sess[s].task \in GoalTasks
           /\ sess[s].packet \in PacketKinds
           /\ s \in Engaged(sess[s].task)
<1>1. sess[s].task \in Tasks
  BY BoardAssumption DEF Applicable
<1>2. sess[s].packet \in PacketKinds
  BY TypedSessions DEF Applicable, SessRec, Board
<1>3. QED
  BY <1>1, <1>2 DEF Applicable, Engaged, Untold

(* The packet of a session is applied. *)
LEMMA PacketOrderly ==
    ASSUME Board, NEW s \in Sessions, Present(s), Applicable(s), OnlySession(s),
           UNCHANGED <<tick, start>>, NEW t \in Tasks, t = sess[s].task, Orderly(t),
           task'[t] = PacketPatch(t, task[t], sess[s].packet),
           s \in latched', ~Occupied(s)'
    PROVE  Orderly(t)' /\ task'[t].waiting = task[t].waiting
<1>1. s \in Engaged(t) /\ t \in GoalTasks /\ sess[s].packet \in PacketKinds
  BY ApplicableEngaged
<1>2. Engaged(t) = {s}
  BY <1>1 DEF Orderly, Exclusive, Single
<1>3. Engaged(t)' = {}
  <2>1. s \notin Engaged(t)'
    BY DEF Engaged, Untold
  <2>2. QED
    BY <1>2, <2>1, OtherSessions
<1>4. /\ task'[t].retry = task[t].retry /\ task'[t].waiting = task[t].waiting
      /\ PlannedByOthers(t)'
  BY <1>1, TypedTasks, PacketPatchFacts DEF Applicable, PlannedByOthers, Board
<1>5. ASSUME task[t].retry = 0 PROVE Undecided(t)' = {}
  <2>1. Undecided(t) \subseteq {s}
    <3>1. CASE Judging(t, task[t])
      <4>1. s \in Undecided(t)
        BY <1>1, <3>1 DEF Orderly, Exclusive
      <4>2. QED
        BY <1>1, <1>5, <3>1, <4>1 DEF Orderly, Exclusive, Quota, Single, Judging
    <3>2. CASE ~Judging(t, task[t])
      <4>1. task[t].status # "blocked"
        BY DEF Applicable
      <4>2. QED
        BY <1>1, <1>5, <3>2, <4>1 DEF Orderly, Exclusive, Quota
    <3>3. QED
      BY <3>1, <3>2
  <2>2. s \notin Undecided(t)'
    BY DEF Undecided
  <2>3. QED
    BY <2>1, <2>2, OtherSessions
<1>6. QED
  BY <1>2, <1>3, <1>4, <1>5, Disengaged

LEMMA RecoveredFacts ==
    ASSUME NEW rec, Sound(rec), NEW s \in Sessions
    PROVE  LET new == Recovered(rec, s) IN
           /\ new.source = "manual" /\ ~new.waiting
           /\ rec.retry = 0 => new.retry = 1 /\ new.status = rec.status
           /\ rec.retry # 0 => new.retry = rec.retry /\ new.status = "blocked"
<1>1. rec \in TaskRec /\ rec.retry \in {0, 1}
  BY DEF Sound, TaskRec, RetryMax
<1>2. CASE rec.retry = 0
  BY <1>1, <1>2 DEF Recovered, TaskRec, RetryMax
<1>3. CASE rec.retry = 1
  BY <1>1, <1>3 DEF Recovered, Block, TaskRec, RetryMax
<1>4. QED
  BY <1>1, <1>2, <1>3

(* An evaluator ended without a packet: while an attempt is left no other  *)
(* session is engaged, and then its task is blocked.                       *)
LEMMA RecoveredOrderly ==
    ASSUME Board, NEW s \in Sessions, Present(s), Recoverable(s), ~Applicable(s),
           s \notin latched, OnlySession(s), UNCHANGED <<tick, start>>,
           NEW t \in Tasks, t = sess[s].task, Orderly(t),
           task'[t] = Recovered(task[t], s),
           s \notin latched', ~Occupied(s)', sess'[s].packet = sess[s].packet
    PROVE  Orderly(t)' /\ ~task'[t].waiting
<1>1. Judging(t, task[t]) /\ s \in Undecided(t)
  BY DEF Recoverable, Judging, Undecided
<1>2. ~InFlight(t) /\ ~InFlight(t)' /\ (t \in tick.todo => Judging(t, tick.snap[t]))
  BY <1>1 DEF Orderly, StartHolds, ScanHolds, Judging, InFlight
<1>3. s \notin Engaged(t)'
  BY DEF Applicable, Recoverable, Engaged, Untold, OnlySession
<1>4. Engaged(t)' \subseteq Engaged(t) \ {s}
  BY <1>3, OtherSessions
<1>5. /\ task'[t].source = "manual" /\ ~task'[t].waiting
      /\ task[t].retry = 0 => task'[t].retry = 1 /\ task'[t].status = "review"
      /\ task[t].retry # 0 => task'[t].retry = task[t].retry /\ task'[t].status = "blocked"
  BY <1>1, TypedTasks, RecoveredFacts DEF Board, Judging
<1>6. task[t].retry = 0 => Engaged(t)' = {}
  <2>1. task[t].retry = 0 => Single(Undecided(t))
    BY <1>1, <1>2 DEF Orderly, Quota, Judging
  <2>2. Engaged(t) \subseteq Undecided(t)
    BY <1>1 DEF Orderly, Exclusive
  <2>3. QED
    BY <1>1, <1>4, <2>1, <2>2 DEF Single
<1>7. ~Judging(t, task[t])'
  BY <1>5 DEF Judging
<1>8. Exclusive(t)'
  <2>1. t \in tick'.todo => Judging(t, tick.snap[t])'
    BY <1>2 DEF Judging
  <2>2. Single(Engaged(t))'
    BY <1>4 DEF Orderly, Exclusive, Single
  <2>3. Engaged(t)' # {} => task'[t].status = "blocked"
    BY <1>5, <1>6
  <2>4. QED
    BY <1>2, <1>7, <2>1, <2>2, <2>3 DEF Exclusive
<1>9. StartHolds(t)' /\ Quota(t)'
  BY <1>2, <1>5 DEF StartHolds, Quota
<1>10. ScanHolds(t)' /\ PlannedByOthers(t)'
  BY <1>5 DEF ScanHolds, PlannedByOthers
<1>11. QED
  BY <1>5, <1>8, <1>9, <1>10 DEF Orderly

LEMMA BlockedByAgentFacts ==
    ASSUME NEW rec, Sound(rec), NEW s, rec.status # "done"
    PROVE  BlockedOrSame(BlockedByAgent(rec, s), rec)
BY DEF BlockedByAgent, Block, BlockedOrSame, Sound, TaskRec

(* What the linked task becomes after a report.  Only a ready event moves  *)
(* a plain task to review.                                                 *)
Outcome(s, new) ==
    \/ Applicable(s) /\ new = PacketPatch(sess[s].task, task[sess[s].task], sess[s].packet)
    \/ ~Applicable(s) /\ s \notin latched /\ Recoverable(s)
         /\ new = Recovered(task[sess[s].task], s)
    \/ ~Applicable(s) /\ BlockedOrSame(new, task[sess[s].task])

PlainReview(s, new) ==
    /\ ~Applicable(s) /\ sess[s].task \notin GoalTasks
    /\ task[sess[s].task].status = "running"
    /\ new = SetStatus(task[sess[s].task], "review")

LEMMA AfterInactiveOutcome ==
    ASSUME Board, NEW s \in Sessions, sess[s].task \in Tasks
    PROVE  Outcome(s, AfterInactive(s))
<1> DEFINE t == sess[s].task
<1>1. Sound(task[t])
  BY TypedTasks DEF Board
<1>2. /\ BlockedOrSame(task[t], task[t])
      /\ task[t].status # "done" => BlockedOrSame(BlockedByAgent(task[t], s), task[t])
  BY <1>1, BlockedByAgentFacts DEF BlockedOrSame
<1>3. CASE Applicable(s)
  BY <1>3 DEF AfterInactive, Applicable, AlreadyApplied, Outcome
<1>4. CASE ~Applicable(s) /\ AlreadyApplied(s)
  BY <1>2, <1>4 DEF AfterInactive, Outcome
<1>5. CASE ~Applicable(s) /\ ~AlreadyApplied(s) /\ Recoverable(s)
  BY <1>5 DEF AfterInactive, AlreadyApplied, Recoverable, Outcome
<1>6. CASE ~Applicable(s) /\ ~AlreadyApplied(s) /\ ~Recoverable(s)
  <2>1. \/ AfterInactive(s) = task[t]
        \/ task[t].status # "done" /\ AfterInactive(s) = BlockedByAgent(task[t], s)
    BY <1>6 DEF AfterInactive
  <2>2. QED
    BY <1>2, <1>6, <2>1 DEF Outcome
<1>7. QED
  BY <1>3, <1>4, <1>5, <1>6

LEMMA AfterReadyOutcome ==
    ASSUME NEW s \in Sessions, sess[s].task \in Tasks
    PROVE  Outcome(s, AfterReady(s)) \/ PlainReview(s, AfterReady(s))
<1> DEFINE t == sess[s].task
<1>1. BlockedOrSame(task[t], task[t])
  BY DEF BlockedOrSame
<1>2. CASE Applicable(s)
  BY <1>2 DEF AfterReady, Applicable, AlreadyApplied, Outcome
<1>3. CASE ~Applicable(s) /\ AlreadyApplied(s)
  BY <1>1, <1>3 DEF AfterReady, Outcome
<1>4. CASE ~Applicable(s) /\ ~AlreadyApplied(s) /\ Recoverable(s)
  BY <1>4 DEF AfterReady, AlreadyApplied, Recoverable, Outcome
<1>5. CASE ~Applicable(s) /\ ~AlreadyApplied(s) /\ ~Recoverable(s)
  <2>1. \/ AfterReady(s) = task[t]
        \/ /\ t \notin GoalTasks /\ task[t].status = "running"
           /\ AfterReady(s) = SetStatus(task[t], "review")
    BY <1>5 DEF AfterReady
  <2>2. QED
    BY <1>1, <1>5, <2>1 DEF Outcome, PlainReview
<1>6. QED
  BY <1>2, <1>3, <1>4, <1>5

(* A step that only concerns the session s, and engages it with nothing *)
LEMMA SessionQuiet ==
    ASSUME Board, Reviewing, NEW s \in Sessions, OnlySession(s),
           UNCHANGED <<tick, start>>,
           \A t \in Tasks : BlockedOrSame(task'[t], task[t]),
           \A t \in Tasks : s \in Engaged(t)' => s \in Engaged(t),
           s \in latched' => s \in latched,
           Present(s)' => Present(s),
           s \in latched /\ Present(s)' => s \in latched'
    PROVE  \A t \in Tasks : Advance(t)
<1> TAKE t \in Tasks
<1>1. Same(t)
  BY SessionSame
<1>2. QED
  BY <1>1, SameKept

LEMMA ReportOrderly ==
    ASSUME Board, Reviewing, NEW s \in Sessions, Present(s), OnlySession(s),
           UNCHANGED <<tick, start>>, NEW new, NEW fell, NEW ss,
           Report(s, new, Applicable(s), fell, ss),
           sess[s].task \in Tasks => Outcome(s, new) \/ (Occupied(s) /\ PlainReview(s, new)),
           ~Occupied(s)', Present(s)', sess'[s].packet = sess[s].packet
    PROVE  \A t \in Tasks : Advance(t)
<1> TAKE t \in Tasks
<1>t. task \in [Tasks -> TaskRec]
  BY DEF Board, Typed, TypeOK
<1>o. Orderly(t) /\ ~task[t].waiting
  BY DEF Reviewing, Calm
<1>l. latched' = IF Applicable(s) THEN latched \cup {s} ELSE latched
  BY DEF Report
<1>1. CASE t # sess[s].task
  <2>1. task'[t] = task[t]
    BY <1>t, <1>1 DEF Report
  <2>2. s \notin Engaged(t)'
    BY <1>1 DEF Engaged, OnlySession
  <2>3. Same(t)
    BY <1>1, <1>l, <2>1, <2>2, SessionSame DEF BlockedOrSame
  <2>4. QED
    BY <2>3, SameKept
<1>2. CASE t = sess[s].task
  <2>1. task'[t] = new /\ (Outcome(s, new) \/ (Occupied(s) /\ PlainReview(s, new)))
    BY <1>t, <1>2 DEF Report
  <2>2. CASE Applicable(s) /\ new = PacketPatch(t, task[t], sess[s].packet)
    <3>1. Orderly(t)' /\ task'[t].waiting = task[t].waiting
      BY <1>2, <1>o, <1>l, <2>1, <2>2, PacketOrderly
    <3>2. QED
      BY <1>2, <1>o, <2>2, <3>1 DEF Advance, Final, Applicable
  <2>3. CASE ~Applicable(s) /\ s \notin latched /\ Recoverable(s) /\ new = Recovered(task[t], s)
    <3>1. Orderly(t)' /\ ~task'[t].waiting
      BY <1>2, <1>o, <1>l, <2>1, <2>3, RecoveredOrderly
    <3>2. QED
      BY <1>2, <2>3, <3>1 DEF Advance, Final, Recoverable
  <2>4. CASE ~Applicable(s) /\ BlockedOrSame(new, task[t])
    <3>1. s \in Engaged(t)' => s \in Engaged(t)
      BY <1>l, <2>4 DEF Engaged, Untold, OnlySession
    <3>2. Same(t)
      BY <1>l, <2>1, <2>4, <3>1, SessionSame
    <3>3. QED
      BY <3>2, SameKept
  <2>5. CASE /\ ~Applicable(s) /\ Occupied(s) /\ t \notin GoalTasks
             /\ task[t].status = "running" /\ new = SetStatus(task[t], "review")
    <3>1. Engaged(t) = {s}
      <4>1. s \in Engaged(t)
        BY <1>2, <2>5 DEF Engaged
      <4>2. QED
        BY <1>o, <4>1 DEF Orderly, Exclusive, Single
    <3>2. Engaged(t)' = {}
      <4>1. s \notin Engaged(t)'
        BY <1>2, <2>5 DEF Engaged, Untold, OnlySession
      <4>2. QED
        BY <3>1, <4>1, OtherSessions
    <3>3. ~task'[t].waiting
      BY <1>t, <1>o, <2>1, <2>5 DEF SetStatus, TaskRec
    <3>4. Orderly(t)'
      BY <1>o, <2>5, <3>1, <3>2, Disengaged DEF PlannedByOthers
    <3>5. QED
      BY <2>5, <3>3, <3>4 DEF Advance, Final
  <2>6. QED
    BY <1>2, <2>1, <2>2, <2>3, <2>4, <2>5 DEF Outcome, PlainReview
<1>3. QED
  BY <1>1, <1>2

-----------------------------------------------------------------------------
(* The rest of the invariant, and the steps of the sessions *)

LEMMA CalmKept ==
    ASSUME Calm, runner', reload' = {}, start'["user"].pc = "idle",
           \A t \in Tasks : Advance(t), \A s \in Sessions : AtRest(s)'
    PROVE  Reviewing'
BY DEF Reviewing, Calm, Advance

(* What a step of the session s leaves of the others *)
LEMMA OthersAtRest ==
    ASSUME Calm, NEW s \in Sessions, OnlySession(s), AtRest(s)'
    PROVE  \A r \in Sessions : AtRest(r)'
BY DEF Calm, AtRest, OnlySession

(* The goal of each lemma on a step *)
Progress == Reviewing' /\ \A t \in Tasks : Final(t)

LEMMA SessionProgress ==
    ASSUME Calm, NEW s \in Sessions, OnlySession(s), AtRest(s)',
           UNCHANGED <<start, runner, reload>>,
           \A t \in Tasks : Advance(t)
    PROVE  Progress
BY OthersAtRest, CalmKept DEF Progress, Advance, Calm

LEMMA HeartbeatReviews ==
    ASSUME Board, Reviewing, NEW s \in Sessions, Heartbeat(s)
    PROVE  Progress
<1> DEFINE t == sess[s].task
           thinks == sess[s].turn = "busy"
<1>0. sess[s] \in SessRec /\ sess \in [Sessions -> SessRec] /\ task \in [Tasks -> TaskRec]
  BY DEF Board, Typed, TypeOK
<1>1. sess' = [sess EXCEPT ![s].active = TRUE, ![s].thinking = thinks]
  BY DEF Heartbeat
<1>2. /\ sess'[s].proc = sess[s].proc /\ sess'[s].mail = sess[s].mail
      /\ sess'[s].turn = sess[s].turn /\ sess'[s].task = t
      /\ sess'[s].role = sess[s].role /\ sess'[s].packet = sess[s].packet
      /\ sess'[s].active
  BY <1>0, <1>1 DEF SessRec
<1>3. OnlySession(s) /\ UNCHANGED <<latched, tick, start, runner, reload>>
  BY <1>0, <1>1, <1>2 DEF OnlySession, Heartbeat, Report
<1>4. thinks /\ t \in Tasks \ GoalTasks => task[t].status # "review"
  <2>1. SUFFICES ASSUME thinks, t \in Tasks \ GoalTasks PROVE task[t].status # "review"
    OBVIOUS
  <2>2. s \in Engaged(t)
    BY <2>1 DEF Heartbeat, Engaged, Present, Occupied
  <2>3. QED
    BY <2>1, <2>2 DEF Reviewing, Orderly, Exclusive, Judging
<1>5. UNCHANGED task
  BY <1>0, <1>4 DEF Heartbeat, Report
<1>6. \A u \in Tasks : s \in Engaged(u)' => s \in Engaged(u)
  BY <1>2, <1>3 DEF Engaged, Present, Occupied, Untold
<1>7. \A u \in Tasks : Advance(u)
  BY <1>2, <1>3, <1>5, <1>6, SessionQuiet DEF BlockedOrSame, Present
<1>8. AtRest(s)'
  BY <1>2, <1>3 DEF AtRest, Reviewing, Calm, Heartbeat
<1>9. QED
  BY <1>3, <1>7, <1>8, SessionProgress DEF Reviewing

LEMMA StartTurnReviews ==
    ASSUME Board, Reviewing, NEW s \in Sessions, StartTurn(s)
    PROVE  Progress
<1>0. sess[s] \in SessRec /\ sess \in [Sessions -> SessRec]
  BY DEF Board, Typed, TypeOK
<1>1. sess' = [sess EXCEPT ![s].turn = "busy", ![s].mail = FALSE]
  BY DEF StartTurn
<1>2. /\ sess'[s].proc = sess[s].proc /\ ~sess'[s].mail
      /\ sess'[s].task = sess[s].task /\ sess'[s].active = sess[s].active
      /\ sess'[s].role = sess[s].role /\ sess'[s].packet = sess[s].packet
  BY <1>0, <1>1 DEF SessRec
<1>3. OnlySession(s) /\ UNCHANGED <<task, latched, tick, start, runner, reload>>
  BY <1>0, <1>1, <1>2 DEF OnlySession, StartTurn
<1>4. \A u \in Tasks : s \in Engaged(u)' => s \in Engaged(u)
  BY <1>2 DEF Engaged, Present, Occupied, StartTurn
<1>5. \A u \in Tasks : Advance(u)
  BY <1>2, <1>3, <1>4, SessionQuiet DEF BlockedOrSame, Present
<1>6. AtRest(s)'
  BY <1>2, <1>3 DEF AtRest, Reviewing, Calm, StartTurn
<1>7. QED
  BY <1>3, <1>5, <1>6, SessionProgress DEF Reviewing

LEMMA EndTurnReviews ==
    ASSUME Board, Reviewing, NEW s \in Sessions, NEW pkt, EndTurn(s, pkt)
    PROVE  Progress
<1> DEFINE turn == IF sess[s].mail THEN "idle" ELSE "ended"
           packet == IF pkt = "none" THEN sess[s].packet ELSE pkt
<1>0. sess[s] \in SessRec /\ sess \in [Sessions -> SessRec]
  BY DEF Board, Typed, TypeOK
<1>1. sess' = [sess EXCEPT ![s].turn = turn, ![s].packet = packet]
  BY DEF EndTurn
<1>2. /\ sess'[s].proc = sess[s].proc /\ sess'[s].mail = sess[s].mail
      /\ sess'[s].task = sess[s].task /\ sess'[s].active = sess[s].active
      /\ sess'[s].role = sess[s].role
  BY <1>0, <1>1 DEF SessRec
<1>3. OnlySession(s) /\ UNCHANGED <<task, latched, tick, start, runner, reload>>
  BY <1>0, <1>1, <1>2 DEF OnlySession, EndTurn
<1>4. \A u \in Tasks : s \in Engaged(u)' => s \in Engaged(u)
  BY <1>2 DEF Engaged, Present, Occupied, EndTurn
<1>5. \A u \in Tasks : Advance(u)
  BY <1>2, <1>3, <1>4, SessionQuiet DEF BlockedOrSame, Present
<1>6. AtRest(s)'
  BY <1>2, <1>3 DEF AtRest, Reviewing, Calm, EndTurn
<1>7. QED
  BY <1>3, <1>5, <1>6, SessionProgress DEF Reviewing

LEMMA DieReviews ==
    ASSUME Board, Reviewing, NEW s \in Sessions, Die(s)
    PROVE  Progress
<1>0. sess[s] \in SessRec /\ sess \in [Sessions -> SessRec]
  BY DEF Board, Typed, TypeOK
<1>1. sess' = [sess EXCEPT ![s].proc = "dead", ![s].turn = "idle", ![s].mail = FALSE]
  BY DEF Die
<1>2. /\ sess'[s].proc = "dead" /\ sess'[s].turn = "idle" /\ ~sess'[s].mail
      /\ sess'[s].task = sess[s].task
      /\ sess'[s].role = sess[s].role /\ sess'[s].packet = sess[s].packet
  BY <1>0, <1>1 DEF SessRec
<1>3. OnlySession(s) /\ UNCHANGED <<task, latched, tick, start, runner, reload>>
  BY <1>0, <1>1, <1>2 DEF OnlySession, Die
<1>4. \A u \in Tasks : s \in Engaged(u)' => s \in Engaged(u)
  BY <1>2, <1>3 DEF Engaged, Present, Occupied, Untold, Die
<1>5. \A u \in Tasks : Advance(u)
  BY <1>2, <1>3, <1>4, SessionQuiet DEF BlockedOrSame, Present, Die
<1>6. AtRest(s)'
  BY <1>2, <1>3 DEF AtRest, Reviewing, Calm, Die
<1>7. QED
  BY <1>3, <1>5, <1>6, SessionProgress DEF Reviewing

LEMMA InterruptReviews ==
    ASSUME Board, Reviewing, NEW s \in Sessions, Interrupt(s)
    PROVE  Progress
<1>0. sess[s] \in SessRec /\ sess \in [Sessions -> SessRec] /\ task \in [Tasks -> TaskRec]
  BY DEF Board, Typed, TypeOK
<1>1. sess' = [sess EXCEPT ![s].turn = "idle"]
  BY DEF Interrupt
<1>2. /\ sess'[s].proc = sess[s].proc /\ sess'[s].mail = sess[s].mail
      /\ sess'[s].turn = "idle"
      /\ sess'[s].task = sess[s].task /\ sess'[s].active = sess[s].active
      /\ sess'[s].role = sess[s].role /\ sess'[s].packet = sess[s].packet
  BY <1>0, <1>1 DEF SessRec
<1>3. OnlySession(s) /\ UNCHANGED <<latched, tick, start, runner, reload>>
  BY <1>0, <1>1, <1>2 DEF OnlySession, Interrupt, Report
<1>4. \A u \in Tasks : s \in Engaged(u)' => s \in Engaged(u)
  BY <1>2 DEF Engaged, Present, Occupied, Interrupt
<1>5. ASSUME NEW u \in Tasks PROVE BlockedOrSame(task'[u], task[u])
  <2>1. CASE u # sess[s].task
    BY <1>0, <2>1 DEF Interrupt, Report, BlockedOrSame
  <2>2. CASE u = sess[s].task
    <3>1. \/ task'[u] = task[u]
          \/ task'[u] = BlockedByAgent(task[u], s) /\ task[u].status # "done"
      BY <1>0, <2>2 DEF Interrupt, Report
    <3>2. QED
      BY <3>1, TypedTasks, BlockedByAgentFacts DEF Board, BlockedOrSame
  <2>3. QED
    BY <2>1, <2>2
<1>6. \A u \in Tasks : Advance(u)
  BY <1>2, <1>3, <1>4, <1>5, SessionQuiet DEF Present
<1>7. AtRest(s)'
  BY <1>2, <1>3 DEF AtRest, Reviewing, Calm, Interrupt
<1>8. QED
  BY <1>3, <1>6, <1>7, SessionProgress DEF Reviewing

LEMMA ReadyWithoutReplyReviews ==
    ASSUME Board, Reviewing, NEW s \in Sessions, ReadyWithoutReply(s)
    PROVE  Progress
<1>0. sess[s] \in SessRec /\ sess \in [Sessions -> SessRec]
  BY DEF Board, Typed, TypeOK
<1>1. sess' = [sess EXCEPT ![s].turn = "unheard"]
  BY DEF ReadyWithoutReply
<1>2. /\ sess'[s].proc = sess[s].proc /\ sess'[s].mail = sess[s].mail
      /\ sess'[s].turn = "unheard"
      /\ sess'[s].task = sess[s].task /\ sess'[s].active = sess[s].active
      /\ sess'[s].role = sess[s].role /\ sess'[s].packet = sess[s].packet
  BY <1>0, <1>1 DEF SessRec
<1>3. OnlySession(s) /\ UNCHANGED <<task, latched, tick, start, runner, reload>>
  BY <1>0, <1>1, <1>2 DEF OnlySession, ReadyWithoutReply
<1>4. \A u \in Tasks : s \in Engaged(u)' => s \in Engaged(u)
  BY <1>2 DEF Engaged, Present, Occupied, ReadyWithoutReply
<1>5. \A u \in Tasks : Advance(u)
  BY <1>2, <1>3, <1>4, SessionQuiet DEF BlockedOrSame, Present
<1>6. AtRest(s)'
  BY <1>2, <1>3 DEF AtRest, Reviewing, Calm, ReadyWithoutReply
<1>7. QED
  BY <1>3, <1>5, <1>6, SessionProgress DEF Reviewing

LEMMA ReadyReviews ==
    ASSUME Board, Reviewing, NEW s \in Sessions, Ready(s)
    PROVE  Progress
<1>0. sess[s] \in SessRec /\ sess \in [Sessions -> SessRec]
  BY DEF Board, Typed, TypeOK
<1>1. sess' = [sess EXCEPT ![s].turn = "idle"]
  BY DEF Ready
<1>2. /\ sess'[s].proc = sess[s].proc /\ sess'[s].mail = sess[s].mail
      /\ sess'[s].turn = "idle"
      /\ sess'[s].task = sess[s].task /\ sess'[s].active = sess[s].active
      /\ sess'[s].role = sess[s].role /\ sess'[s].packet = sess[s].packet
  BY <1>0, <1>1 DEF SessRec
<1>3. sess[s].proc = "running" /\ ~sess[s].mail /\ sess[s].turn = "ended"
  BY <1>0 DEF Ready, Reviewing, Calm, AtRest
<1>4. OnlySession(s) /\ UNCHANGED <<tick, start, runner, reload>>
  BY <1>0, <1>1, <1>2 DEF OnlySession, Ready, Report
<1>5. sess[s].task \in Tasks
         => Outcome(s, AfterReady(s)) \/ (Occupied(s) /\ PlainReview(s, AfterReady(s)))
  BY <1>3, AfterReadyOutcome DEF Occupied
<1>6. Report(s, AfterReady(s), Applicable(s), FALSE, sess')
  BY DEF Ready
<1>7. \A u \in Tasks : Advance(u)
  BY <1>2, <1>3, <1>4, <1>5, <1>6, ReportOrderly DEF Present, Occupied
<1>8. AtRest(s)'
  BY <1>2, <1>3 DEF AtRest, Reviewing, Calm
<1>9. QED
  BY <1>4, <1>7, <1>8, SessionProgress DEF Reviewing

LEMMA BecomeInactiveReviews ==
    ASSUME Board, Reviewing, NEW s \in Sessions, BecomeInactive(s),
           "partition" \notin Faults
    PROVE  Progress
<1>0. sess[s] \in SessRec /\ sess \in [Sessions -> SessRec]
  BY DEF Board, Typed, TypeOK
<1>1. sess' = [sess EXCEPT ![s].active = FALSE, ![s].thinking = FALSE]
  BY DEF BecomeInactive
<1>2. /\ sess'[s].proc = sess[s].proc /\ sess'[s].mail = sess[s].mail
      /\ sess'[s].turn = sess[s].turn /\ sess'[s].task = sess[s].task
      /\ sess'[s].role = sess[s].role /\ sess'[s].packet = sess[s].packet
  BY <1>0, <1>1 DEF SessRec
<1>3. sess[s].proc = "dead" /\ ~sess[s].mail /\ sess[s].turn = "idle"
  BY <1>0 DEF BecomeInactive, Reviewing, Calm, AtRest
<1>4. OnlySession(s) /\ UNCHANGED <<tick, start, runner, reload>>
  BY <1>0, <1>1, <1>2 DEF OnlySession, BecomeInactive, Report
<1>5. Report(s, AfterInactive(s), Applicable(s), TRUE, sess')
  BY DEF BecomeInactive
<1>6. \A u \in Tasks : Advance(u)
  BY <1>2, <1>3, <1>4, <1>5, AfterInactiveOutcome, ReportOrderly DEF Present, Occupied
<1>7. AtRest(s)'
  BY <1>2, <1>3 DEF AtRest, Reviewing, Calm
<1>8. QED
  BY <1>4, <1>6, <1>7, SessionProgress DEF Reviewing

LEMMA UserRenameReviews ==
    ASSUME Board, Reviewing, NEW s \in Sessions, UserRename(s)
    PROVE  Progress
<1>1. sess[s].proc = "dead" /\ ~sess[s].mail /\ sess[s].turn = "idle"
  BY DEF UserRename, Reviewing, Calm, AtRest
<1>2. OnlySession(s) /\ UNCHANGED <<sess, tick, start, runner, reload>>
  BY DEF OnlySession, UserRename, Report
<1>3. Report(s, AfterInactive(s), Applicable(s), FALSE, sess)
  BY DEF UserRename
<1>4. \A u \in Tasks : Advance(u)
  BY <1>1, <1>2, <1>3, AfterInactiveOutcome, ReportOrderly DEF Present, Occupied
<1>5. AtRest(s)'
  BY <1>1, <1>2 DEF AtRest, Reviewing, Calm
<1>6. QED
  BY <1>2, <1>4, <1>5, SessionProgress DEF Reviewing

-----------------------------------------------------------------------------
(* The steps of a start, which only the tick makes *)

LEMMA SpawnFailsReviews ==
    ASSUME Board, Reviewing, NEW a \in Actors, SpawnFails(a)
    PROVE  Progress
<1> DEFINE t == start["tick"].task
<1>t. /\ task \in [Tasks -> TaskRec] /\ start \in [Actors -> StartRec] /\ tick \in TickRec
      /\ sess \in [Sessions -> SessRec]
  BY DEF Board, Typed, TypeOK
<1>1. a = "tick" /\ start["tick"].pc = "spawn"
  BY DEF SpawnFails, Reviewing, Calm, Actors
<1>2. /\ task' = [task EXCEPT ![t] = Block(@, "scheduler")]
      /\ start' = [start EXCEPT !["tick"] = IdleStart]
      /\ tick' = [tick EXCEPT !.pc = "scan"]
      /\ UNCHANGED <<sess, latched, runner, reload>>
  BY <1>1 DEF SpawnFails, Fail
<1>3. InFlight(t)
  BY <1>1 DEF InFlight
<1>4. /\ start'["tick"].pc = "idle" /\ start'["user"] = start["user"]
      /\ tick'.todo = tick.todo /\ tick'.snap = tick.snap
  BY <1>t, <1>2 DEF Actors, IdleStart, TickRec
<1>5. ASSUME NEW u \in Tasks PROVE Same(u)
  <2>1. ~Adds(u)
    BY <1>2 DEF Adds, Engaged, Undecided, Present, Occupied, Untold
  <2>2. CASE u = t
    <3>1. task'[u] = Block(task[u], "scheduler")
      BY <1>t, <1>2, <2>2
    <3>2. task[u].status # "done"
      BY <1>3, <2>2 DEF Reviewing, Orderly, StartHolds
    <3>3. BlockedOrSame(task'[u], task[u]) /\ task'[u].status = "blocked"
      BY <1>t, <3>1, <3>2 DEF Block, BlockedOrSame, TaskRec
    <3>4. QED
      BY <1>4, <2>1, <3>3 DEF Same, InFlight
  <2>3. CASE u # t
    <3>1. task'[u] = task[u]
      BY <1>t, <1>2, <2>3
    <3>2. QED
      BY <1>4, <2>1, <2>3, <3>1 DEF Same, InFlight, BlockedOrSame
  <2>4. QED
    BY <2>2, <2>3
<1>6. \A u \in Tasks : Advance(u)
  BY <1>5, SameKept
<1>7. \A r \in Sessions : AtRest(r)'
  BY <1>2 DEF AtRest, Reviewing, Calm
<1>8. QED
  BY <1>2, <1>4, <1>6, <1>7, CalmKept DEF Progress, Advance, Reviewing, Calm

(* A session is new to every task: nobody is engaged by it. *)
LEMMA SpawnSucceedsReviews ==
    ASSUME Board, Reviewing, NEW a \in Actors, NEW s \in Sessions, SpawnSucceeds(a, s)
    PROVE  Progress
<1> DEFINE st == start["tick"]
<1>t. /\ start \in [Actors -> StartRec] /\ sess \in [Sessions -> SessRec]
  BY DEF Board, Typed, TypeOK
<1>1. a = "tick" /\ st.pc = "spawn" /\ sess[s].proc = "free"
  BY DEF SpawnSucceeds, Reviewing, Calm, Actors
<1>p. PICK t \in Tasks : t = st.task
  BY <1>1, StartedLink DEF InFlight
<1> DEFINE made == [NewSession EXCEPT !.proc = "running", !.active = TRUE,
                                      !.task = t, !.role = st.role]
<1>2. /\ sess' = [sess EXCEPT ![s] = made]
      /\ start' = [start EXCEPT !["tick"].pc = "configure", !["tick"].session = s]
      /\ UNCHANGED <<task, latched, tick, runner, reload>>
  BY <1>1, <1>p DEF SpawnSucceeds
<1>3. InFlight(t)
  BY <1>1, <1>p DEF InFlight
<1>4. /\ sess'[s].proc = "running" /\ sess'[s].active /\ sess'[s].turn = "idle"
      /\ ~sess'[s].mail /\ sess'[s].packet = "none"
      /\ sess'[s].task = t /\ sess'[s].role = st.role
  BY <1>t, <1>2 DEF NewSession
<1>5. s \notin latched /\ sess[s].task = NoTask
  BY <1>1 DEF Reviewing, Calm, AtRest
<1>6. st \in StartRec
  BY <1>t DEF Actors
<1>7. /\ start'["tick"].pc = "configure" /\ start'["tick"].session = s
      /\ start'["tick"].task = t /\ start'["tick"].role = st.role
      /\ start'["tick"].review = st.review /\ start'["tick"].retry = st.retry
      /\ start'["user"] = start["user"]
  BY <1>t, <1>2, <1>6, <1>p DEF Actors, StartRec
<1>8. \A r \in Sessions \ {s} : sess'[r] = sess[r]
  BY <1>t, <1>2
<1>9. ASSUME NEW u \in Tasks
      PROVE  /\ Engaged(u)' = Engaged(u)
             /\ u # t => Undecided(u)' = Undecided(u)
             /\ Undecided(u)' \subseteq Undecided(u) \cup {s}
  <2>1. s \notin Engaged(u) /\ s \notin Engaged(u)' /\ s \notin Undecided(u)
    BY <1>1, <1>2, <1>4, <1>5 DEF Engaged, Undecided, Present, Occupied, Untold
  <2>2. u # t => s \notin Undecided(u)'
    BY <1>4 DEF Undecided
  <2>3. \A r \in Sessions \ {s} :
           /\ r \in Engaged(u)' <=> r \in Engaged(u)
           /\ r \in Undecided(u)' <=> r \in Undecided(u)
    BY <1>2, <1>8 DEF Engaged, Undecided, Present, Occupied, Untold
  <2>4. QED
    BY <2>1, <2>2, <2>3 DEF Engaged, Undecided
<1>10. ASSUME NEW u \in Tasks, u # t PROVE Advance(u)
  <2>1. ~Adds(u)
    BY <1>9, <1>10 DEF Adds
  <2>2. Same(u)
    BY <1>2, <1>p, <1>7, <1>10, <2>1 DEF Same, InFlight, BlockedOrSame
  <2>3. QED
    BY <2>2, SameKept
<1>11. Advance(t)
  <2>1. Orderly(t) /\ ~task[t].waiting
    BY <1>3 DEF Reviewing, Calm
  <2>2. Engaged(t) = {} /\ t \notin tick.todo
    BY <1>3, <2>1 DEF Orderly, Exclusive, StartHolds
  <2>3. Exclusive(t)'
    BY <1>3, <1>9, <2>2 DEF Exclusive, Single
  <2>4. StartHolds(t)'
    BY <1>2, <1>3, <1>4, <1>5, <1>7, <2>1 DEF Orderly, StartHolds, InFlight
  <2>5. ScanHolds(t)' /\ PlannedByOthers(t)'
    BY <1>2, <2>1 DEF Orderly, ScanHolds, PlannedByOthers, Judging
  <2>6. Quota(t)'
    <3>1. t \in GoalTasks /\ st.retry = 0 => Undecided(t) = {}
      <4>1. t \in GoalTasks /\ st.retry = 0 => Undecided(t) \subseteq {st.session}
        BY <1>3, <2>1 DEF Orderly, Quota
      <4>2. st.session = NoSession
        BY <1>1, <1>3, <2>1 DEF Orderly, StartHolds
      <4>3. QED
        BY <4>1, <4>2, BoardAssumption DEF Undecided
    <3>2. InFlight(t)'
      BY <1>7 DEF InFlight
    <3>3. t \notin tick'.todo
      BY <1>2, <2>2
    <3>4. t \in GoalTasks /\ start'["tick"].retry = 0
             => Undecided(t)' \subseteq {start'["tick"].session}
      BY <1>3, <1>7, <1>9, <3>1
    <3>5. QED
      BY <3>2, <3>3, <3>4 DEF Quota
  <2>7. QED
    BY <1>2, <2>1, <2>3, <2>4, <2>5, <2>6 DEF Orderly, Advance, Final
<1>12. \A r \in Sessions : AtRest(r)'
  <2>1. AtRest(s)'
    BY <1>3, <1>4 DEF AtRest
  <2>2. \A r \in Sessions \ {s} : AtRest(r)'
    BY <1>2, <1>8 DEF AtRest, Reviewing, Calm
  <2>3. QED
    BY <2>1, <2>2
<1>13. \A u \in Tasks : Advance(u)
  BY <1>10, <1>11
<1>14. QED
  BY <1>2, <1>7, <1>12, <1>13, CalmKept DEF Progress, Advance, Reviewing, Calm

LEMMA StartedFacts ==
    ASSUME NEW rec, Sound(rec), NEW st \in StartRec
    PROVE  LET new == Started(rec, st) IN
           /\ ~new.waiting /\ new.retry = st.retry
           /\ new.status = IF st.review THEN "review" ELSE "running"
           /\ new.source = IF st.review THEN "evaluator" ELSE rec.source
BY DEF Started, SetStatus, Sound, TaskRec

(* The started session is the one engaged session of its task. *)
LEMMA FinishStartReviews ==
    ASSUME Board, Reviewing, NEW a \in Actors, NEW ok \in BOOLEAN, FinishStart(a, ok)
    PROVE  Progress
<1> DEFINE st == start["tick"]
<1>t. /\ task \in [Tasks -> TaskRec] /\ start \in [Actors -> StartRec] /\ tick \in TickRec
      /\ sess \in [Sessions -> SessRec] /\ st \in StartRec
  BY DEF Board, Typed, TypeOK, Actors
<1>1. a = "tick" /\ st.pc = "configure"
  BY DEF FinishStart, Reviewing, Calm, Actors
<1>p. PICK t \in Tasks, s \in Sessions :
         t = st.task /\ s = st.session /\ InFlight(t) /\ Linked(s, t)
  BY <1>1, StartedLink DEF InFlight, Linked
<1> DEFINE mail == sess[s].mail \/ (ok /\ sess[s].proc = "running")
<1>2. /\ task' = [task EXCEPT ![t] = Started(@, st)]
      /\ sess' = [sess EXCEPT ![s].mail = mail]
      /\ start' = [start EXCEPT !["tick"] = IdleStart]
      /\ tick' = [tick EXCEPT !.pc = "scan"]
      /\ UNCHANGED <<latched, runner, reload>>
  BY <1>1, <1>p DEF FinishStart
<1>3. InFlight(t) /\ sess[s].proc # "free" /\ sess[s].task = t
  BY <1>p DEF Linked
<1>4. /\ start'["tick"].pc = "idle" /\ start'["user"] = start["user"]
      /\ tick'.todo = tick.todo /\ tick'.snap = tick.snap
  BY <1>t, <1>2 DEF Actors, IdleStart, TickRec
<1>5. /\ sess'[s].proc = sess[s].proc /\ sess'[s].turn = sess[s].turn
      /\ sess'[s].task = t /\ sess'[s].active = sess[s].active
      /\ sess'[s].role = sess[s].role /\ sess'[s].packet = sess[s].packet
      /\ sess'[s].mail = mail
  <2> HIDE DEF mail
  <2>1. sess[s] \in SessRec
    BY <1>t, <1>3
  <2>2. QED
    BY <1>t, <1>2, <1>3, <2>1 DEF SessRec
<1>6. \A r \in Sessions \ {s} : sess'[r] = sess[r]
  BY <1>t, <1>2
<1>7. OnlySession(s)
  BY <1>2, <1>3, <1>5, <1>6 DEF OnlySession
<1>8. ASSUME NEW u \in Tasks, u # t PROVE Advance(u)
  <2>1. ~Adds(u)
    BY <1>3, <1>7, <1>8, OtherSessions DEF Adds
  <2>2. task'[u] = task[u]
    BY <1>t, <1>2, <1>8
  <2>3. Same(u)
    BY <1>p, <1>4, <1>8, <2>1, <2>2 DEF Same, InFlight, BlockedOrSame
  <2>4. QED
    BY <2>3, SameKept
<1>o. Orderly(t)
  BY <1>3 DEF Reviewing
<1>9. Engaged(t) = {} /\ t \notin tick.todo /\ task[t].status # "done"
  BY <1>3, <1>o DEF Orderly, Exclusive, StartHolds
<1>10. Advance(t)
  <2>1. /\ ~task'[t].waiting /\ task'[t].retry = st.retry
        /\ task'[t].status = IF st.review THEN "review" ELSE "running"
        /\ task'[t].source = IF st.review THEN "evaluator" ELSE task[t].source
    BY <1>t, <1>2, <1>3, TypedTasks, StartedFacts DEF Board
  <2>2. /\ st.review <=> sess[s].role = "evaluator"
        /\ st.review => t \in GoalTasks
        /\ t \in GoalTasks => task[t].source # "evaluator"
        /\ s \notin latched
    BY <1>1, <1>p, <1>3, <1>o DEF Orderly, StartHolds
  <2>3. Engaged(t)' \subseteq {s} /\ Undecided(t)' = Undecided(t)
    <3>1. Engaged(t)' \subseteq {s} /\ Undecided(t)' \ {s} = Undecided(t) \ {s}
      BY <1>3, <1>7, <1>9, OtherSessions
    <3>2. s \in Undecided(t)' <=> s \in Undecided(t)
      BY <1>2, <1>3, <1>5 DEF Undecided, Present
    <3>3. QED
      BY <3>1, <3>2
  <2>4. ~InFlight(t)' /\ t \notin tick'.todo
    BY <1>4, <1>9 DEF InFlight
  <2>5. Exclusive(t)'
    <3>1. st.review => Engaged(t)' \subseteq Undecided(t)'
      BY <1>2, <1>3, <1>5, <2>2, <2>3 DEF Engaged, Undecided
    <3>2. st.review => Judging(t, task[t])'
      BY <2>1, <2>2 DEF Judging
    <3>3. Judging(t, task[t])' => st.review
      BY <2>1 DEF Judging
    <3>4. Single(Engaged(t))'
      BY <2>3 DEF Single
    <3>5. QED
      BY <2>1, <2>2, <2>4, <3>1, <3>2, <3>3, <3>4 DEF Exclusive
  <2>6. StartHolds(t)' /\ ScanHolds(t)'
    BY <2>4 DEF StartHolds, ScanHolds
  <2>7. PlannedByOthers(t)'
    BY <2>1 DEF PlannedByOthers
  <2>8. Quota(t)'
    <3>1. SUFFICES ASSUME t \in GoalTasks, st.retry = 0
                   PROVE  IF st.review THEN Single(Undecided(t)) ELSE Undecided(t) = {}
      BY <2>1, <2>3, <2>4 DEF Quota, Judging, Single
    <3>2. Undecided(t) \subseteq {s}
      BY <1>p, <1>3, <1>o, <3>1 DEF Orderly, Quota
    <3>3. ~st.review => s \notin Undecided(t)
      BY <2>2 DEF Undecided
    <3>4. QED
      BY <3>2, <3>3 DEF Single
  <2>9. QED
    BY <1>9, <2>1, <2>5, <2>6, <2>7, <2>8 DEF Orderly, Advance, Final
<1>11. \A r \in Sessions : AtRest(r)'
  <2>1. AtRest(s)'
    <3>1. AtRest(s)
      BY <1>3 DEF Reviewing, Calm
    <3>2. sess[s].proc = "running" => sess[s].turn \notin {"busy", "ended"} /\ ~sess[s].mail
      BY <1>3, <1>9 DEF Engaged, Present, Occupied
    <3>3. QED
      BY <1>2, <1>3, <1>5, <3>1, <3>2 DEF AtRest
  <2>2. QED
    BY <1>3, <1>7, <2>1, OthersAtRest DEF Reviewing
<1>12. \A u \in Tasks : Advance(u)
  BY <1>8, <1>10
<1>13. QED
  BY <1>2, <1>4, <1>11, <1>12, CalmKept DEF Progress, Advance, Reviewing, Calm

-----------------------------------------------------------------------------
(* The steps of a tick *)

LEMMA PassedFacts ==
    ASSUME Board, NEW t \in Tasks, NEW started \in BOOLEAN
    PROVE  LET new == Passed(t, started) IN
           /\ new.todo = tick.todo \ {t} /\ new.pc = tick.pc
           /\ \A u \in Tasks \ {t} : new.snap[u] = tick.snap[u]
BY DEF Passed, Board, Typed, TypeOK, TickRec

(* No session changes, nor what a tick or a start would still find of a    *)
(* task.                                                                   *)
LEMMA StillSame ==
    ASSUME UNCHANGED <<sess, latched>>, start'["tick"] = start["tick"], NEW t \in Tasks,
           BlockedOrSame(task'[t], task[t]),
           t \in tick'.todo => t \in tick.todo /\ tick'.snap[t] = tick.snap[t]
    PROVE  Same(t)
<1>1. ~Adds(t)
  BY DEF Adds, Engaged, Undecided, Present, Occupied, Untold
<1>2. QED
  BY <1>1 DEF Same, InFlight

LEMMA StillProgress ==
    ASSUME Board, Reviewing, UNCHANGED <<sess, latched, start, runner, reload>>,
           \A t \in Tasks :
              /\ BlockedOrSame(task'[t], task[t])
              /\ t \in tick'.todo => t \in tick.todo /\ tick'.snap[t] = tick.snap[t]
    PROVE  Progress
<1>1. \A t \in Tasks : Advance(t)
  BY StillSame, SameKept
<1>2. \A s \in Sessions : AtRest(s)'
  BY DEF AtRest, Reviewing, Calm
<1>3. QED
  BY <1>1, <1>2, CalmKept DEF Progress, Advance, Reviewing, Calm

LEMMA TickEndsReviews ==
    ASSUME Board, Reviewing, StartTick \/ FinishTick
    PROVE  Progress
<1>1. UNCHANGED <<task, sess, latched, start, runner, reload>>
  BY DEF StartTick, FinishTick
<1>2. tick'.todo = {}
  <2>1. CASE StartTick
    <3>1. tick' \in {[IdleTick EXCEPT !.pc = pc, !.auto = autoRun] : pc \in {"enter", "scan"}}
      BY <2>1 DEF StartTick
    <3>2. QED
      BY <3>1 DEF IdleTick
  <2>2. CASE FinishTick
    BY <2>2 DEF FinishTick, IdleTick
  <2>3. QED
    BY <2>1, <2>2
<1>3. QED
  BY <1>1, <1>2, StillProgress DEF BlockedOrSame

LEMMA ScanSkipReviews ==
    ASSUME Board, Reviewing, NEW t \in Tasks, ScanSkip(t)
    PROVE  Progress
<1>1. tick' = Passed(t, FALSE) /\ UNCHANGED <<task, sess, latched, start, runner, reload>>
  BY DEF ScanSkip
<1>2. tick'.todo = tick.todo \ {t} /\ \A u \in Tasks \ {t} : tick'.snap[u] = tick.snap[u]
  BY <1>1, PassedFacts
<1>3. QED
  BY <1>1, <1>2, StillProgress DEF BlockedOrSame

(* The tick reads its candidates: no start is under way. *)
LEMMA PrepareTickReviews ==
    ASSUME Board, Reviewing, PrepareTick
    PROVE  Progress
<1>t. task \in [Tasks -> TaskRec] /\ tick \in TickRec
  BY DEF Board, Typed, TypeOK
<1>1. /\ task' = [t \in Tasks |-> Revived(t)]
      /\ UNCHANGED <<sess, latched, start, runner, reload>>
      /\ tick.pc = "enter"
  BY DEF PrepareTick
<1>2. ASSUME NEW t \in Tasks
      PROVE  /\ task'[t].status = task[t].status /\ task'[t].source = task[t].source
             /\ task'[t].retry = task[t].retry /\ task'[t].waiting = task[t].waiting
  <2>1. ~RunnerOfflineBlock(t)
    BY DEF RunnerOfflineBlock, Reviewing, Calm
  <2>2. Revived(t) \in {task[t], [task[t] EXCEPT !.archived = FALSE]}
    BY <2>1 DEF Revived
  <2>3. task[t] \in TaskRec
    BY <1>t
  <2>4. QED
    BY <1>1, <2>2, <2>3 DEF TaskRec
<1>3. ASSUME NEW t \in Tasks, t \in tick'.todo
      PROVE  task'[t].status \in {"planning", "review"} /\ tick'.snap[t] = task'[t]
  <2> DEFINE todo == {u \in Tasks : ~task'[u].archived /\ task'[u].status \in {"planning", "review"}}
             snap == [u \in Tasks |-> IF u \in todo THEN task'[u] ELSE NewTask(u)]
  <2>1. tick'.todo = todo /\ tick'.snap = snap
    BY <1>t, <1>1 DEF PrepareTick, TickRec
  <2>2. QED
    BY <1>3, <2>1
<1>4. ASSUME NEW t \in Tasks PROVE Advance(t)
  <2>0. Orderly(t) /\ ~task[t].waiting
    BY DEF Reviewing, Calm
  <2>1. /\ Engaged(t)' = Engaged(t) /\ Undecided(t)' = Undecided(t)
        /\ Judging(t, task[t])' <=> Judging(t, task[t])
    BY <1>1, <1>2 DEF Engaged, Undecided, Present, Occupied, Untold, Judging
  <2>2. ~InFlight(t) /\ ~InFlight(t)'
    BY <1>1 DEF InFlight, Board, Phases
  <2>3. t \in tick'.todo /\ ~Judging(t, tick.snap[t])' => ~Judging(t, task[t])
    BY <1>2, <1>3 DEF Judging
  <2>4. t \in tick'.todo => task[t].status \in {"planning", "review"}
    BY <1>2, <1>3
  <2>5. Exclusive(t)'
    BY <1>2, <2>0, <2>1, <2>2, <2>3, <2>4 DEF Orderly, Exclusive, Single
  <2>6. StartHolds(t)'
    BY <2>2 DEF StartHolds
  <2>7. PlannedByOthers(t)'
    BY <1>2, <2>0 DEF Orderly, PlannedByOthers
  <2>8. ScanHolds(t)'
    <3>1. t \in tick'.todo => task[t].status # "done"
      BY <2>4
    <3>2. t \in tick'.todo /\ t \in GoalTasks /\ task[t].source = "evaluator"
             => Judging(t, task[t])
      BY <2>0, <2>4 DEF Orderly, PlannedByOthers, Judging
    <3>3. QED
      BY <1>2, <2>3, <3>1, <3>2 DEF ScanHolds
  <2>9. Quota(t)'
    <3>1. t \in GoalTasks /\ task[t].retry = 0 /\ task[t].status # "blocked"
             => IF Judging(t, task[t]) THEN Single(Undecided(t)) ELSE Undecided(t) = {}
      BY <2>0, <2>2 DEF Orderly, Quota
    <3>2. QED
      BY <1>2, <2>1, <2>2, <2>3, <2>4, <3>1 DEF Quota, Single
  <2>10. QED
    BY <1>2, <2>0, <2>5, <2>6, <2>7, <2>8, <2>9 DEF Orderly, Advance, Final
<1>5. \A s \in Sessions : AtRest(s)'
  BY <1>1 DEF AtRest, Reviewing, Calm
<1>6. QED
  BY <1>1, <1>4, <1>5, CalmKept DEF Progress, Advance, Reviewing, Calm

(* What the tick may start or continue: a task that nobody is engaged in,  *)
(* and that no evaluator has taken up since it was read.                   *)
LEMMA CandidateFacts ==
    ASSUME Board, Reviewing, NEW t \in Tasks, Candidate(t), Eligible(t)
    PROVE  /\ Engaged(t) = {} /\ task[t].status # "done"
           /\ t \in GoalTasks => task[t].source # "evaluator"
           /\ t \in GoalTasks /\ task[t].retry = 0 => Undecided(t) = {}
           /\ start["tick"].pc = "idle"
<1>1. t \in tick.todo /\ tick.pc = "scan"
  BY DEF Candidate
<1>2. ~Judging(t, tick.snap[t])
  BY DEF Eligible, AutoRunnable, Judging
<1>3. Orderly(t)
  BY DEF Reviewing
<1>4. start["tick"].pc = "idle"
  BY <1>1 DEF Board, Phases
<1>5. QED
  BY <1>1, <1>2, <1>3, <1>4 DEF Orderly, Exclusive, ScanHolds, Quota

LEMMA ScanStartReviews ==
    ASSUME Board, Reviewing, NEW t \in Tasks, ScanStart(t)
    PROVE  Progress
<1>t. /\ start \in [Actors -> StartRec] /\ tick \in TickRec
      /\ task \in [Tasks -> TaskRec]
  BY DEF Board, Typed, TypeOK
<1>1. /\ Engaged(t) = {} /\ task[t].status # "done"
      /\ t \in GoalTasks => task[t].source # "evaluator"
      /\ t \in GoalTasks /\ task[t].retry = 0 => Undecided(t) = {}
      /\ start["tick"].pc = "idle"
  BY CandidateFacts DEF ScanStart
<1>2. UNCHANGED <<task, sess, latched, runner, reload>>
  BY DEF ScanStart
<1>3. /\ start'["tick"].pc = "spawn" /\ start'["tick"].task = t
      /\ start'["tick"].session = NoSession
      /\ start'["tick"].review <=> (t \in GoalTasks /\ task[t].status = "review")
      /\ start'["tick"].role = ActionRole(t, task[t])
      /\ start'["tick"].retry = task[t].retry
      /\ start'["user"] = start["user"]
  BY <1>t DEF ScanStart, BeginStart, Actors
<1>4. tick'.todo = tick.todo \ {t} /\ \A u \in Tasks \ {t} : tick'.snap[u] = tick.snap[u]
  <2> DEFINE new == Passed(t, TRUE)
  <2>1. new.todo = tick.todo \ {t} /\ \A u \in Tasks \ {t} : new.snap[u] = tick.snap[u]
    BY PassedFacts
  <2>2. tick' = [new EXCEPT !.pc = "await"] /\ new \in TickRec
    BY <1>t, PassedType DEF ScanStart
  <2> HIDE DEF new
  <2>3. QED
    BY <2>1, <2>2 DEF TickRec
<1>5. ASSUME NEW u \in Tasks
      PROVE  Engaged(u)' = Engaged(u) /\ Undecided(u)' = Undecided(u)
  BY <1>2 DEF Engaged, Undecided, Present, Occupied, Untold
<1>6. ASSUME NEW u \in Tasks, u # t PROVE Advance(u)
  <2>1. Same(u)
    BY <1>1, <1>2, <1>3, <1>4, <1>5, <1>6 DEF Same, Adds, InFlight, BlockedOrSame
  <2>2. QED
    BY <2>1, SameKept
<1>7. Advance(t)
  <2>0. Orderly(t) /\ ~task[t].waiting
    BY DEF Reviewing, Calm
  <2>1. InFlight(t)' /\ t \notin tick'.todo
    BY <1>3, <1>4 DEF InFlight
  <2>2. Exclusive(t)'
    BY <1>1, <1>5 DEF Exclusive, Single
  <2>3. StartHolds(t)'
    <3>1. start'["tick"].review <=> start'["tick"].role = "evaluator"
      BY <1>1, <1>3 DEF ActionRole
    <3>2. QED
      BY <1>1, <1>2, <1>3, <2>1, <3>1 DEF StartHolds
  <2>4. ScanHolds(t)' /\ PlannedByOthers(t)'
    BY <1>2, <2>0, <2>1 DEF Orderly, ScanHolds, PlannedByOthers
  <2>5. Quota(t)'
    BY <1>1, <1>3, <1>5, <2>1 DEF Quota
  <2>6. QED
    BY <1>2, <2>0, <2>2, <2>3, <2>4, <2>5 DEF Orderly, Advance, Final
<1>8. \A s \in Sessions : AtRest(s)'
  BY <1>2 DEF AtRest, Reviewing, Calm
<1>9. \A u \in Tasks : Advance(u)
  BY <1>6, <1>7
<1>10. QED
  BY <1>2, <1>3, <1>8, <1>9, CalmKept DEF Progress, Advance, Reviewing, Calm

(* The linked session takes the kickoff, in the role of the task. *)
LEMMA ScanContinueReviews ==
    ASSUME Board, Reviewing, NEW t \in Tasks, ScanContinue(t)
    PROVE  Progress
<1>t. /\ task \in [Tasks -> TaskRec] /\ sess \in [Sessions -> SessRec]
  BY DEF Board, Typed, TypeOK
<1>1. /\ Engaged(t) = {} /\ task[t].status = "planning"
      /\ t \in GoalTasks /\ task[t].source # "evaluator"
      /\ task[t].retry = 0 => Undecided(t) = {}
      /\ start["tick"].pc = "idle"
  BY CandidateFacts DEF ScanContinue, Continuable
<1>2. PICK s \in Sessions : s = task[t].session /\ Linked(s, t)
  BY CoherentLinked DEF ScanContinue, Continuable, Board, Links, Linked
<1> DEFINE role == ActionRole(t, task[t])
           mail == sess[s].mail \/ sess[s].proc = "running"
<1>3. /\ sess' = [sess EXCEPT ![s].task = t, ![s].role = role, ![s].mail = mail]
      /\ task' = [task EXCEPT ![t] = Continued(@, s)]
      /\ tick' = Passed(t, TRUE)
      /\ UNCHANGED <<latched, start, runner, reload>>
  BY <1>2 DEF ScanContinue
<1>4. sess[s] \in SessRec /\ sess[s].proc # "free" /\ sess[s].task = t
  BY <1>t, <1>2 DEF Linked
<1>5. /\ sess'[s].proc = sess[s].proc /\ sess'[s].turn = sess[s].turn
      /\ sess'[s].active = sess[s].active /\ sess'[s].packet = sess[s].packet
      /\ sess'[s].task = t /\ sess'[s].role = role /\ sess'[s].mail = mail
  <2> HIDE DEF role, mail
  <2>1. QED
    BY <1>t, <1>3, <1>4 DEF SessRec
<1>6. \A r \in Sessions \ {s} : sess'[r] = sess[r]
  BY <1>t, <1>3
<1>7. role # "evaluator"
  BY <1>1 DEF ActionRole
<1>8. tick'.todo = tick.todo \ {t} /\ \A u \in Tasks \ {t} : tick'.snap[u] = tick.snap[u]
  BY <1>3, PassedFacts
<1>9. ASSUME NEW u \in Tasks
      PROVE  /\ Engaged(u)' \ {s} = Engaged(u) \ {s}
             /\ Undecided(u)' = Undecided(u) \ {s}
             /\ u # t => s \notin Engaged(u)' /\ s \notin Undecided(u)
  <2>1. \A r \in Sessions \ {s} :
           /\ r \in Engaged(u)' <=> r \in Engaged(u)
           /\ r \in Undecided(u)' <=> r \in Undecided(u)
    BY <1>3, <1>6 DEF Engaged, Undecided, Present, Occupied, Untold
  <2>2. s \notin Undecided(u)'
    BY <1>5, <1>7 DEF Undecided
  <2>3. u # t => s \notin Engaged(u)' /\ s \notin Undecided(u)
    BY <1>4, <1>5 DEF Engaged, Undecided
  <2>4. QED
    BY <2>1, <2>2, <2>3 DEF Engaged, Undecided
<1>10. ASSUME NEW u \in Tasks, u # t PROVE Advance(u)
  <2>1. ~Adds(u)
    BY <1>9, <1>10 DEF Adds
  <2>2. task'[u] = task[u]
    BY <1>t, <1>3, <1>10
  <2>3. Same(u)
    BY <1>1, <1>3, <1>8, <1>10, <2>1, <2>2 DEF Same, InFlight, BlockedOrSame
  <2>4. QED
    BY <2>3, SameKept
<1>11. Advance(t)
  <2>0. Orderly(t)
    BY DEF Reviewing
  <2>1. /\ ~task'[t].waiting /\ task'[t].status = "running"
        /\ task'[t].retry = task[t].retry /\ task'[t].source = task[t].source
    BY <1>t, <1>3 DEF Continued, SetStatus, TaskRec
  <2>2. ~InFlight(t)' /\ t \notin tick'.todo
    BY <1>1, <1>3, <1>8 DEF InFlight
  <2>3. Engaged(t)' \subseteq {s}
    BY <1>1, <1>9
  <2>4. Exclusive(t)'
    BY <1>1, <2>1, <2>2, <2>3 DEF Exclusive, Single, Judging
  <2>5. StartHolds(t)' /\ ScanHolds(t)' /\ PlannedByOthers(t)'
    BY <2>1, <2>2 DEF StartHolds, ScanHolds, PlannedByOthers
  <2>6. Quota(t)'
    <3>1. task[t].retry = 0 => Undecided(t)' = {}
      BY <1>1, <1>9
    <3>2. QED
      BY <2>1, <2>2, <3>1 DEF Quota, Single
  <2>7. QED
    BY <1>1, <2>1, <2>4, <2>5, <2>6 DEF Orderly, Advance, Final
<1>12. \A r \in Sessions : AtRest(r)'
  <2>1. AtRest(s)'
    <3>1. AtRest(s)
      BY DEF Reviewing, Calm
    <3>2. sess[s].proc = "running" => sess[s].turn \notin {"busy", "ended"} /\ ~sess[s].mail
      BY <1>1, <1>4 DEF Engaged, Present, Occupied
    <3>3. QED
      BY <1>3, <1>4, <1>5, <3>1, <3>2 DEF AtRest
  <2>2. \A r \in Sessions \ {s} : AtRest(r)'
    BY <1>3, <1>6 DEF AtRest, Reviewing, Calm
  <2>3. QED
    BY <2>1, <2>2
<1>13. \A u \in Tasks : Advance(u)
  BY <1>10, <1>11
<1>14. QED
  BY <1>3, <1>12, <1>13, CalmKept DEF Progress, Advance, Reviewing, Calm

-----------------------------------------------------------------------------
(* The user, and the whole of a step *)

LEMMA UserArchiveReviews ==
    ASSUME Board, Reviewing, NEW t \in Tasks, UserArchive(t)
    PROVE  Progress
<1>1. UNCHANGED <<sess, latched, tick, start, runner, reload>>
  BY DEF UserArchive
<1>2. \A u \in Tasks : BlockedOrSame(task'[u], task[u])
  BY DEF UserArchive, BlockedOrSame, Board, Typed, TypeOK, TaskRec
<1>3. QED
  BY <1>1, <1>2, StillProgress

(* Here only dead sessions are inactive, so only they can be deleted. *)
LEMMA UserDeleteReviews ==
    ASSUME Board, Reviewing, NEW s \in Sessions, UserDelete(s)
    PROVE  Progress
<1>0. /\ sess[s] \in SessRec /\ sess \in [Sessions -> SessRec]
      /\ task \in [Tasks -> TaskRec]
  BY DEF Board, Typed, TypeOK
<1>1. /\ sess' = [sess EXCEPT ![s].proc = "deleted", ![s].turn = "idle", ![s].mail = FALSE]
      /\ sess[s].proc = "dead"
      /\ latched' = latched \ {s}
      /\ UNCHANGED <<tick, start, runner, reload>>
  BY DEF UserDelete, DeleteFrom, Reviewing, Calm, AtRest
<1>2. /\ sess'[s].proc = "deleted" /\ ~sess'[s].mail
      /\ sess'[s].turn = "idle" /\ sess'[s].task = sess[s].task
      /\ sess'[s].role = sess[s].role
  BY <1>0, <1>1 DEF SessRec
<1>3. OnlySession(s)
  BY <1>0, <1>1, <1>2 DEF OnlySession
<1>4. ASSUME NEW u \in Tasks PROVE BlockedOrSame(task'[u], task[u])
  <2>1. task'[u] \in {task[u], [task[u] EXCEPT !.session = NoSession, !.init = NoSession]}
    BY <1>0 DEF UserDelete, DeleteFrom
  <2>2. task[u] \in TaskRec
    BY <1>0
  <2>3. QED
    BY <2>1, <2>2 DEF BlockedOrSame, TaskRec
<1>5. \A u \in Tasks : Advance(u)
  BY <1>1, <1>2, <1>3, <1>4, SessionQuiet DEF Present, Engaged
<1>6. AtRest(s)'
  BY <1>1, <1>2 DEF AtRest, Reviewing, Calm
<1>7. QED
  BY <1>1, <1>3, <1>5, <1>6, SessionProgress DEF Reviewing

LEMMA SwitchReviews ==
    ASSUME Board, Reviewing, UserPause \/ UserAutoRun \/ PeriodicTick
    PROVE  Progress
<1>1. UNCHANGED <<task, sess, latched, tick, start, runner, reload>>
  BY DEF UserPause, UserAutoRun, PeriodicTick
<1>2. QED
  BY <1>1, StillProgress DEF BlockedOrSame

LEMMA ReviewingStep ==
    ASSUME Unattended, Board, Reviewing, [Next]_vars
    PROVE  Progress
<1>0. UserOps \cap {"move", "prompt", "start"} = {} /\ Faults \cap {"partition", "runner"} = {}
      /\ MaxRestarts = 0
  BY DEF Unattended
<1>1. CASE UNCHANGED vars
  <2>1. UNCHANGED <<task, sess, latched, tick, start, runner, reload>>
    BY <1>1 DEF vars
  <2>2. QED
    BY <2>1, StillProgress DEF BlockedOrSame
<1>2. ASSUME NEW s \in Sessions, SessionStep(s) PROVE Progress
  <2>1. "partition" \notin Faults
    BY <1>0
  <2>2. QED
    BY <1>2, <2>1, HeartbeatReviews, StartTurnReviews, ReadyReviews,
       ReadyWithoutReplyReviews, InterruptReviews,
       EndTurnReviews, DieReviews, BecomeInactiveReviews DEF SessionStep
<1>3. ASSUME NEW a \in Actors, StartStep(a) PROVE Progress
  BY <1>3, SpawnFailsReviews, SpawnSucceedsReviews, FinishStartReviews DEF StartStep
<1>4. ASSUME TickStep PROVE Progress
  <2>1. \A t \in Tasks : ~ScanOffline(t)
    BY DEF ScanOffline, Reviewing, Calm
  <2>2. QED
    BY <1>4, <2>1, TickEndsReviews, PrepareTickReviews, ScanSkipReviews, ScanContinueReviews,
       ScanStartReviews DEF TickStep
<1>5. ASSUME UserStep PROVE Progress
  <2>1. /\ \A t \in Tasks, st \in Statuses : ~UserMove(t, st)
        /\ \A t \in Tasks : ~UserStart(t)
        /\ \A s \in Sessions : ~UserPrompt(s)
    BY <1>0 DEF UserMove, UserStart, UserPrompt, UserOp
  <2>2. QED
    BY <1>5, <2>1, UserArchiveReviews, UserRenameReviews, UserDeleteReviews, SwitchReviews
       DEF UserStep
<1>6. ASSUME HubStep PROVE Progress
  <2>1. ~RunnerStops /\ ~RunnerReady /\ \A s \in Sessions : ~Reload(s)
    BY <1>0 DEF RunnerStops, RunnerReady, Reload, Reviewing, Calm
  <2>2. ~Restart
    BY <1>0 DEF Restart, Board, Typed, TypeOK
  <2>3. QED
    BY <1>6, <2>1, <2>2, SwitchReviews DEF HubStep
<1>7. QED
  BY <1>1, <1>2, <1>3, <1>4, <1>5, <1>6 DEF Next

LEMMA ReviewingInit == Init => Reviewing
<1> SUFFICES ASSUME Init PROVE Reviewing
  OBVIOUS
<1> USE DEF Init, InitFrom
<1>1. \A s \in Sessions : sess[s] = NewSession
  OBVIOUS
<1>2. Calm
  BY <1>1 DEF Calm, AtRest, NewSession, NewTask, IdleStart, Actors
<1>3. ASSUME NEW t \in Tasks PROVE Orderly(t)
  <2>1. Engaged(t) = {} /\ Undecided(t) = {}
    BY <1>1 DEF Engaged, Undecided, Present, NewSession
  <2>2. ~InFlight(t) /\ t \notin tick.todo
    BY DEF InFlight, IdleStart, IdleTick, Actors
  <2>3. task[t].source # "evaluator"
    BY BoardAssumption DEF NewTask
  <2>4. QED
    BY <2>1, <2>2, <2>3 DEF Orderly, Exclusive, StartHolds, ScanHolds, PlannedByOthers, Quota,
                            Single
<1>4. QED
  BY <1>2, <1>3 DEF Reviewing

LEMMA BoardFacts == Safety => []Board
BY BoardTyped, BoardLinked, BoardPhases, PTL DEF Board

LEMMA BoardReviewing ==
    ASSUME Unattended
    PROVE  Safety => []Reviewing
<1>1. Board /\ Reviewing /\ [Next]_vars => Reviewing'
  BY ReviewingStep DEF Progress
<1>2. QED
  BY <1>1, ReviewingInit, BoardFacts, PTL DEF Safety

-----------------------------------------------------------------------------
(* One worker at a time: a session is started for a task, or continued,    *)
(* only when no other session of that task has prompts to read, a turn to  *)
(* end or a packet to report, whatever dies, is interrupted or deleted     *)
(* while the tick awaits.                                                  *)
THEOREM BoardOneWorker ==
    ASSUME Unattended
    PROVE  Spec => []OneWorker
<1>1. Board /\ Reviewing => OneWorker
  <2> SUFFICES ASSUME Reviewing, NEW r \in Sessions, NEW s \in Sessions,
                      Working(r), Working(s), sess[r].task = sess[s].task
               PROVE  r = s
    BY DEF OneWorker
  <2>1. sess[s].task \in Tasks
    BY DEF Working, Reviewing, Calm, AtRest
  <2>2. r \in Engaged(sess[s].task) /\ s \in Engaged(sess[s].task)
    BY DEF Working, Engaged, Present, Occupied
  <2>3. QED
    BY <2>1, <2>2 DEF Reviewing, Orderly, Exclusive, Single
<1>2. QED
  BY <1>1, BoardFacts, BoardReviewing, PTL DEF Spec

(* Done is final: no report, retry, start or tick that is still under way  *)
(* when a task is done takes it out of done.                               *)
THEOREM BoardDoneFinal ==
    ASSUME Unattended
    PROVE  Spec => DoneIsFinal
<1>1. Board /\ Reviewing /\ [Next]_vars =>
         \A t \in Tasks : task[t].status = "done" => task'[t].status = "done"
  BY ReviewingStep DEF Progress, Final
<1>2. QED
  BY <1>1, BoardFacts, BoardReviewing, PTL DEF Spec, Safety, DoneIsFinal

-----------------------------------------------------------------------------
(* Who is done, and by whose word.  These facts need no hypothesis on the  *)
(* environment.                                                            *)

(* A packet makes a task done only in the evaluator's or a planner's role. *)
LEMMA PacketDone ==
    ASSUME NEW t \in GoalTasks, NEW rec, Sound(rec), NEW pkt \in PacketKinds,
           rec.status # "done", PacketPatch(t, rec, pkt).status = "done"
    PROVE  pkt = "done" /\ ActionRole(t, rec) # "generator"
<1> DEFINE st == IF pkt = "done" /\ ActionRole(t, rec) = "generator" THEN "review" ELSE pkt
<1>1. pkt # "other"
  BY DEF PacketPatch
<1>2. PacketPatch(t, rec, pkt).status = st
  <2>1. st \in Statuses
    BY <1>1 DEF PacketKinds, Statuses
  <2>2. SetStatus(rec, st) \in TaskRec /\ SetStatus(rec, st).status = st
    BY <2>1 DEF SetStatus, Sound, TaskRec, Blockers
  <2>3. PacketPatch(t, rec, pkt) =
          [SetStatus(rec, st) EXCEPT
             !.source = IF ActionRole(t, rec) = "evaluator"
                           /\ st \in {"planning", "blocked", "review"}
                        THEN "manual" ELSE @]
    BY <1>1 DEF PacketPatch
  <2> HIDE DEF st
  <2>4. QED
    BY <2>2, <2>3 DEF TaskRec
<1>3. QED
  BY <1>2

Accepts(s, t) ==
    /\ s \in Sessions /\ Applicable(s) /\ sess[s].task = t
    /\ task'[t] = PacketPatch(t, task[t], sess[s].packet)

(* A report makes a task done only by an applicable packet. *)
LEMMA ReportDone ==
    ASSUME Board, NEW s \in Sessions, NEW new, NEW applied, NEW fell, NEW ss,
           Report(s, new, applied, fell, ss),
           sess[s].task \in Tasks => Outcome(s, new) \/ PlainReview(s, new),
           NEW t \in Tasks, task[t].status # "done", task'[t].status = "done"
    PROVE  Accepts(s, t)
<1>1. task \in [Tasks -> TaskRec] /\ Sound(task[t])
  BY TypedTasks DEF Board, Typed, TypeOK
<1>2. sess[s].task = t /\ task'[t] = new
  BY <1>1 DEF Report
<1>3. SetStatus(task[t], "review").status = "review"
  BY <1>1 DEF SetStatus, TaskRec
<1>4. ASSUME Recoverable(s) PROVE Recovered(task[t], s).status # "done"
  <2>1. task[t].retry \in {0, 1} /\ task[t].status = "review"
    BY <1>1, <1>2, <1>4 DEF TaskRec, RetryMax, Recoverable
  <2>2. QED
    BY <1>1, <2>1, RecoveredFacts
<1>5. QED
  BY <1>2, <1>3, <1>4 DEF Outcome, PlainReview, BlockedOrSame, Accepts

(* What makes a task done: the user, or the report of a session that has   *)
(* a packet to tell.                                                       *)
Reports(s) == Ready(s) \/ BecomeInactive(s) \/ UserRename(s) \/ Reload(s)

LEMMA DoneBy ==
    ASSUME Board, Next, NEW t \in Tasks,
           task[t].status # "done", task'[t].status = "done"
    PROVE  \/ UserMove(t, "done")
           \/ \E s \in Sessions : Reports(s) /\ Accepts(s, t)
<1>t. task \in [Tasks -> TaskRec] /\ start \in [Actors -> StartRec] /\ Sound(task[t])
  BY TypedTasks DEF Board, Typed, TypeOK
<1>1. ASSUME NEW s \in Sessions, Reports(s) PROVE Accepts(s, t)
  <2>1. PICK new, applied, fell, ss :
           /\ Report(s, new, applied, fell, ss)
           /\ new \in {AfterReady(s), AfterInactive(s)}
    BY <1>1 DEF Reports, Ready, BecomeInactive, UserRename, Reload
  <2>2. QED
    BY <2>1, AfterReadyOutcome, AfterInactiveOutcome, ReportDone
<1>2. ASSUME NEW s \in Sessions, Heartbeat(s) PROVE FALSE
  <2>1. task'[t] \in {task[t], SetStatus(task[t], "running")}
    BY <1>t, <1>2 DEF Heartbeat, Report
  <2>2. SetStatus(task[t], "running").status = "running"
    BY <1>t DEF SetStatus, TaskRec
  <2>3. QED
    BY <2>1, <2>2
<1>3. ASSUME NEW s \in Sessions, Interrupt(s) PROVE FALSE
  <2>1. task'[t] \in {task[t], BlockedByAgent(task[t], s)}
    BY <1>t, <1>3 DEF Interrupt, Report
  <2>2. QED
    BY <1>t, <2>1, BlockedByAgentFacts DEF BlockedOrSame
<1>4. ASSUME NEW a \in Actors, StartStep(a) PROVE FALSE
  <2>1. CASE SpawnFails(a)
    <3>1. task'[t] \in {task[t], Block(task[t], "scheduler")}
      BY <1>t, <2>1 DEF SpawnFails, Fail
    <3>2. QED
      BY <1>t, <3>1 DEF Block, TaskRec
  <2>2. CASE \E s \in Sessions : SpawnSucceeds(a, s)
    BY <2>2 DEF SpawnSucceeds
  <2>3. CASE \E ok \in BOOLEAN : FinishStart(a, ok)
    <3>1. task'[t] \in {task[t], Started(task[t], start[a])}
      BY <1>t, <2>3 DEF FinishStart
    <3>2. QED
      BY <1>t, <3>1, StartedFacts
  <2>4. QED
    BY <1>4, <2>1, <2>2, <2>3 DEF StartStep
<1>5. ASSUME TickStep PROVE FALSE
  <2>1. CASE PrepareTick
    <3>1. task'[t] = Revived(t)
      BY <2>1 DEF PrepareTick
    <3>2. Revived(t) \in {task[t], [task[t] EXCEPT !.archived = FALSE],
                          [SetStatus(task[t], "planning") EXCEPT !.retry = 0]}
      BY DEF Revived
    <3>3. QED
      BY <1>t, <3>1, <3>2 DEF SetStatus, TaskRec
  <2>2. ASSUME NEW u \in Tasks, ScanContinue(u) PROVE FALSE
    <3>1. task'[t] \in {task[t], Continued(task[t], task[t].session)}
      BY <1>t, <2>2 DEF ScanContinue
    <3>2. QED
      BY <1>t, <3>1 DEF Continued, SetStatus, TaskRec
  <2>3. ASSUME NEW u \in Tasks, ScanOffline(u) PROVE FALSE
    <3>1. task'[t] \in {task[t], WaitsForRunner(task[t], tick.snap[t])}
      BY <1>t, <2>3 DEF ScanOffline
    <3>2. QED
      BY <1>t, <3>1 DEF WaitsForRunner, TaskRec
  <2>4. QED
    BY <1>5, <2>1, <2>2, <2>3 DEF TickStep, StartTick, FinishTick, ScanSkip, ScanStart
<1>6. ASSUME NEW u \in Tasks, NEW st \in Statuses, UserMove(u, st) PROVE UserMove(t, "done")
  <2>1. u = t
    BY <1>t, <1>6 DEF UserMove
  <2>2. st = "done"
    BY <1>t, <1>6, <2>1 DEF UserMove, SetStatus, TaskRec
  <2>3. QED
    BY <1>6, <2>1, <2>2
<1>7. ASSUME NEW u \in Tasks, UserArchive(u) PROVE FALSE
  BY <1>t, <1>7 DEF UserArchive, TaskRec
<1>8. ASSUME NEW s \in Sessions, UserPrompt(s) PROVE FALSE
  <2>1. task'[t] \in {task[t], SetStatus(task[t], "running")}
    BY <1>t, <1>8 DEF UserPrompt
  <2>2. QED
    BY <1>t, <2>1 DEF SetStatus, TaskRec
<1>9. ASSUME NEW s \in Sessions, UserDelete(s) PROVE FALSE
  BY <1>t, <1>9 DEF UserDelete, DeleteFrom, TaskRec
<1>10. ~UNCHANGED task
  OBVIOUS
<1>11. ASSUME NEW s \in Sessions, SessionStep(s) PROVE Accepts(s, t) /\ Reports(s)
  BY <1>1, <1>2, <1>3, <1>10, <1>11
     DEF SessionStep, StartTurn, ReadyWithoutReply, EndTurn, Die, Reports
<1>12. ASSUME UserStep
       PROVE  UserMove(t, "done") \/ \E s \in Sessions : Reports(s) /\ Accepts(s, t)
  BY <1>1, <1>6, <1>7, <1>8, <1>9, <1>10, <1>12
     DEF UserStep, UserStart, UserPause, UserAutoRun, Reports
<1>13. ASSUME HubStep PROVE \E s \in Sessions : Reports(s) /\ Accepts(s, t)
  BY <1>1, <1>10, <1>13 DEF HubStep, PeriodicTick, RunnerStops, RunnerReady, Restart, Reports
<1>14. QED
  BY <1>4, <1>5, <1>11, <1>12, <1>13 DEF Next

(* What a step may change of a session's link, role and latest packet *)
Identity(s) ==
    /\ sess'[s].task = sess[s].task /\ sess'[s].role = sess[s].role
    /\ sess'[s].packet = sess[s].packet

LEMMA IdentityKept ==
    ASSUME Board, [Next]_vars, NEW s \in Sessions
    PROVE  \/ Identity(s)
           \/ \E pkt \in Packets : EndTurn(s, pkt)
           \/ SpawnSucceeds("tick", s) \/ SpawnSucceeds("user", s)
           \/ \E t \in Tasks : ScanContinue(t) /\ s = task[t].session
<1>t. sess \in [Sessions -> SessRec]
  BY DEF Board, Typed, TypeOK
<1>s. sess[s] \in SessRec
  BY <1>t
<1> USE DEF Identity
<1>0. CASE UNCHANGED sess
  BY <1>0
<1>1. ASSUME NEW r \in Sessions, SessionStep(r), \A pkt \in Packets : ~EndTurn(s, pkt)
      PROVE  Identity(s)
  <2>1. CASE Heartbeat(r)
    BY <1>t, <1>s, <2>1 DEF Heartbeat, SessRec
  <2>2. CASE StartTurn(r) \/ Ready(r) \/ ReadyWithoutReply(r) \/ Interrupt(r)
    <3>1. CASE StartTurn(r)
      BY <1>t, <1>s, <3>1 DEF StartTurn, SessRec
    <3>2. CASE Ready(r)
      BY <1>t, <1>s, <3>2 DEF Ready, SessRec
    <3>3. CASE Interrupt(r)
      BY <1>t, <1>s, <3>3 DEF Interrupt, SessRec
    <3>4. CASE ReadyWithoutReply(r)
      BY <1>t, <1>s, <3>4 DEF ReadyWithoutReply, SessRec
    <3>5. QED
      BY <2>2, <3>1, <3>2, <3>3, <3>4
  <2>3. CASE Die(r)
    BY <1>t, <1>s, <2>3 DEF Die, SessRec
  <2>4. CASE BecomeInactive(r)
    BY <1>t, <1>s, <2>4 DEF BecomeInactive, SessRec
  <2>5. CASE \E pkt \in Packets : EndTurn(r, pkt)
    <3>1. r # s
      BY <1>1, <2>5
    <3>2. QED
      BY <1>t, <2>5, <3>1 DEF EndTurn
  <2>6. QED
    BY <1>1, <2>1, <2>2, <2>3, <2>4, <2>5 DEF SessionStep
<1>2. ASSUME NEW a \in Actors, StartStep(a), ~SpawnSucceeds("tick", s), ~SpawnSucceeds("user", s)
      PROVE  Identity(s)
  <2>1. CASE SpawnFails(a)
    BY <1>0, <2>1 DEF SpawnFails
  <2>2. CASE \E r \in Sessions : SpawnSucceeds(a, r)
    <3>1. PICK r \in Sessions : SpawnSucceeds(a, r)
      BY <2>2
    <3>2. r # s
      BY <1>2, <3>1 DEF Actors
    <3>3. QED
      BY <1>t, <3>1, <3>2 DEF SpawnSucceeds
  <2>3. CASE \E ok \in BOOLEAN : FinishStart(a, ok)
    BY <1>t, <2>3 DEF FinishStart, SessRec
  <2>4. QED
    BY <1>2, <2>1, <2>2, <2>3 DEF StartStep
<1>3. ASSUME TickStep, \A t \in Tasks : ~(ScanContinue(t) /\ s = task[t].session)
      PROVE  Identity(s)
  <2>1. ASSUME NEW t \in Tasks, ScanContinue(t) PROVE Identity(s)
    <3>1. s # task[t].session
      BY <1>3, <2>1
    <3>2. QED
      BY <1>t, <2>1, <3>1 DEF ScanContinue
  <2>2. QED
    BY <1>0, <1>3, <2>1 DEF TickStep, StartTick, PrepareTick, FinishTick, ScanSkip, ScanOffline,
                            ScanStart
<1>4. ASSUME UserStep PROVE Identity(s)
  <2>1. ASSUME NEW r \in Sessions, UserPrompt(r) PROVE Identity(s)
    BY <1>t, <1>s, <2>1 DEF UserPrompt, SessRec
  <2>2. ASSUME NEW r \in Sessions, UserDelete(r) PROVE Identity(s)
    BY <1>t, <1>s, <2>2 DEF UserDelete, DeleteFrom, SessRec
  <2>3. QED
    BY <1>0, <1>4, <2>1, <2>2 DEF UserStep, UserMove, UserArchive, UserStart, UserRename, UserPause,
                            UserAutoRun
<1>5. ASSUME HubStep PROVE Identity(s)
  <2>1. CASE Restart
    BY <1>t, <2>1 DEF Restart, SessRec
  <2>2. QED
    BY <1>0, <1>5, <2>1 DEF HubStep, PeriodicTick, RunnerStops, RunnerReady, Reload
<1>6. QED
  BY <1>0, <1>1, <1>2, <1>3, <1>4, <1>5 DEF Next, vars

(* The source of a task is the one it was created with, "manual" or        *)
(* "evaluator".                                                            *)
SourceKept(t) == task'[t].source \in {task[t].source, "manual", "evaluator"}

LEMMA PacketSource ==
    ASSUME NEW t, NEW rec, Sound(rec), NEW pkt \in PacketKinds
    PROVE  PacketPatch(t, rec, pkt).source \in {rec.source, "manual"}
<1> DEFINE st == IF pkt = "done" /\ ActionRole(t, rec) = "generator" THEN "review" ELSE pkt
<1>1. CASE pkt = "other"
  BY <1>1 DEF PacketPatch
<1>2. CASE pkt # "other"
  <2>1. SetStatus(rec, st) \in TaskRec /\ SetStatus(rec, st).source = rec.source
    BY <1>2 DEF SetStatus, Sound, TaskRec, Blockers, PacketKinds, Statuses
  <2>2. PacketPatch(t, rec, pkt) =
          [SetStatus(rec, st) EXCEPT
             !.source = IF ActionRole(t, rec) = "evaluator"
                           /\ st \in {"planning", "blocked", "review"}
                        THEN "manual" ELSE @]
    BY <1>2 DEF PacketPatch
  <2> HIDE DEF st
  <2>3. QED
    BY <2>1, <2>2 DEF TaskRec
<1>3. QED
  BY <1>1, <1>2

LEMMA ReportSource ==
    ASSUME Board, NEW s \in Sessions, NEW new, NEW applied, NEW fell, NEW ss,
           Report(s, new, applied, fell, ss),
           sess[s].task \in Tasks => Outcome(s, new) \/ PlainReview(s, new),
           NEW t \in Tasks
    PROVE  SourceKept(t)
<1>1. task \in [Tasks -> TaskRec] /\ Sound(task[t])
  BY TypedTasks DEF Board, Typed, TypeOK
<1>2. CASE t # sess[s].task
  BY <1>1, <1>2 DEF Report, SourceKept
<1>3. CASE t = sess[s].task
  <2>1. task'[t] = new
    BY <1>1, <1>3 DEF Report
  <2>2. Applicable(s) => PacketPatch(t, task[t], sess[s].packet).source \in {task[t].source, "manual"}
    <3>1. Applicable(s) => sess[s].packet \in PacketKinds
      BY TypedSessions DEF Applicable, SessRec, Board
    <3>2. QED
      BY <1>1, <3>1, PacketSource
  <2>3. Recovered(task[t], s).source = "manual"
    BY <1>1, RecoveredFacts
  <2>4. SetStatus(task[t], "review").source = task[t].source
    BY <1>1 DEF SetStatus, TaskRec
  <2>5. QED
    BY <1>3, <2>1, <2>2, <2>3, <2>4 DEF Outcome, PlainReview, BlockedOrSame, SourceKept
<1>4. QED
  BY <1>2, <1>3

LEMMA SourceStep ==
    ASSUME Board, [Next]_vars, NEW t \in Tasks
    PROVE  SourceKept(t)
<1>t. /\ task \in [Tasks -> TaskRec] /\ start \in [Actors -> StartRec] /\ Sound(task[t])
  BY TypedTasks DEF Board, Typed, TypeOK
<1>0. CASE UNCHANGED task
  BY <1>0 DEF SourceKept
<1>1. ASSUME NEW s \in Sessions, Reports(s) PROVE SourceKept(t)
  <2>1. PICK new, applied, fell, ss :
           /\ Report(s, new, applied, fell, ss)
           /\ new \in {AfterReady(s), AfterInactive(s)}
    BY <1>1 DEF Reports, Ready, BecomeInactive, UserRename, Reload
  <2>2. QED
    BY <2>1, AfterReadyOutcome, AfterInactiveOutcome, ReportSource
<1>2. ASSUME NEW s \in Sessions, Heartbeat(s) \/ Interrupt(s) PROVE SourceKept(t)
  <2>1. task'[t] \in {task[t], SetStatus(task[t], "running"), BlockedByAgent(task[t], s)}
    BY <1>t, <1>2 DEF Heartbeat, Interrupt, Report
  <2>2. SetStatus(task[t], "running").source = task[t].source
    BY <1>t DEF SetStatus, TaskRec
  <2>3. BlockedByAgent(task[t], s).source = task[t].source
    BY <1>t DEF BlockedByAgent, Block, TaskRec
  <2>4. QED
    BY <2>1, <2>2, <2>3 DEF SourceKept
<1>3. ASSUME NEW a \in Actors, StartStep(a) PROVE SourceKept(t)
  <2>1. task'[t] \in {task[t], Block(task[t], "scheduler"), Started(task[t], start[a])}
    BY <1>t, <1>3 DEF StartStep, SpawnFails, Fail, SpawnSucceeds, FinishStart
  <2>2. Block(task[t], "scheduler").source = task[t].source
    BY <1>t DEF Block, TaskRec
  <2>3. Started(task[t], start[a]).source \in {task[t].source, "evaluator"}
    BY <1>t, StartedFacts
  <2>4. QED
    BY <2>1, <2>2, <2>3 DEF SourceKept
<1>4. ASSUME TickStep PROVE SourceKept(t)
  <2>1. CASE PrepareTick
    <3>1. task'[t] = Revived(t)
      BY <2>1 DEF PrepareTick
    <3>2. Revived(t) \in {task[t], [task[t] EXCEPT !.archived = FALSE],
                          [SetStatus(task[t], "planning") EXCEPT !.retry = 0]}
      BY DEF Revived
    <3>3. QED
      BY <1>t, <3>1, <3>2 DEF SetStatus, TaskRec, SourceKept
  <2>2. ASSUME NEW u \in Tasks, ScanContinue(u) PROVE SourceKept(t)
    <3>1. task'[t] \in {task[t], Continued(task[t], task[t].session)}
      BY <1>t, <2>2 DEF ScanContinue
    <3>2. QED
      BY <1>t, <3>1 DEF Continued, SetStatus, TaskRec, SourceKept
  <2>3. ASSUME NEW u \in Tasks, ScanOffline(u) PROVE SourceKept(t)
    <3>1. task'[t] \in {task[t], WaitsForRunner(task[t], tick.snap[t])}
      BY <1>t, <2>3 DEF ScanOffline
    <3>2. QED
      BY <1>t, <3>1 DEF WaitsForRunner, TaskRec, SourceKept
  <2>4. QED
    BY <1>0, <1>4, <2>1, <2>2, <2>3 DEF TickStep, StartTick, FinishTick, ScanSkip, ScanStart
<1>5. ASSUME UserStep PROVE SourceKept(t)
  <2>1. ASSUME NEW u \in Tasks, NEW st \in Statuses, UserMove(u, st) PROVE SourceKept(t)
    BY <1>t, <2>1 DEF UserMove, SetStatus, TaskRec, SourceKept
  <2>2. ASSUME NEW u \in Tasks, UserArchive(u) PROVE SourceKept(t)
    BY <1>t, <2>2 DEF UserArchive, TaskRec, SourceKept
  <2>3. ASSUME NEW s \in Sessions, UserPrompt(s) PROVE SourceKept(t)
    <3>1. task'[t] \in {task[t], SetStatus(task[t], "running")}
      BY <1>t, <2>3 DEF UserPrompt
    <3>2. QED
      BY <1>t, <3>1 DEF SetStatus, TaskRec, SourceKept
  <2>4. ASSUME NEW s \in Sessions, UserDelete(s) PROVE SourceKept(t)
    BY <1>t, <2>4 DEF UserDelete, DeleteFrom, TaskRec, SourceKept
  <2>5. QED
    BY <1>0, <1>1, <1>5, <2>1, <2>2, <2>3, <2>4
       DEF UserStep, UserStart, UserPause, UserAutoRun, Reports
<1>6. ASSUME HubStep PROVE SourceKept(t)
  BY <1>0, <1>1, <1>6 DEF HubStep, PeriodicTick, RunnerStops, RunnerReady, Restart, Reports
<1>7. ASSUME NEW s \in Sessions, SessionStep(s) PROVE SourceKept(t)
  BY <1>0, <1>1, <1>2, <1>7
     DEF SessionStep, StartTurn, ReadyWithoutReply, EndTurn, Die, Reports
<1>8. QED
  BY <1>0, <1>3, <1>4, <1>5, <1>6, <1>7 DEF Next, vars

GeneratorSources == \A t \in GeneratorTasks : task[t].source \in {"manual", "evaluator"}

LEMMA BoardSources == Safety => []GeneratorSources
<1>1. Init => GeneratorSources
  BY BoardAssumption DEF Init, InitFrom, NewTask, GeneratorSources, GeneratorTasks
<1>2. Board /\ GeneratorSources /\ [Next]_vars => GeneratorSources'
  <2> SUFFICES ASSUME Board, GeneratorSources, [Next]_vars, NEW t \in GeneratorTasks
               PROVE  task'[t].source \in {"manual", "evaluator"}
    BY DEF GeneratorSources
  <2>1. SourceKept(t)
    BY SourceStep, BoardAssumption DEF GeneratorTasks
  <2>2. QED
    BY <2>1 DEF SourceKept, GeneratorSources
<1>3. QED
  BY <1>1, <1>2, BoardFacts, PTL DEF Safety

(* A generator's task is done only by the verdict of a session that was    *)
(* started as its evaluator, and that verdict stays on record.             *)
THEOREM BoardAccepted ==
    ASSUME Unattended
    PROVE  Spec => []AcceptedByEvaluator
<1>1. Init => AcceptedByEvaluator
  BY BoardAssumption DEF Init, InitFrom, NewTask, AcceptedByEvaluator, GeneratorTasks
<1>2. Board /\ Reviewing /\ GeneratorSources /\ AcceptedByEvaluator /\ [Next]_vars
        => AcceptedByEvaluator'
  <2> SUFFICES ASSUME Board, Reviewing, GeneratorSources, AcceptedByEvaluator, [Next]_vars,
                      NEW t \in GeneratorTasks, task'[t].status = "done"
               PROVE  \E s \in Sessions : /\ sess'[s].task = t /\ sess'[s].role = "evaluator"
                                          /\ sess'[s].packet = "done"
    BY DEF AcceptedByEvaluator
  <2>1. t \in Tasks /\ t \in GoalTasks /\ Orderly(t)
    BY BoardAssumption DEF GeneratorTasks, Reviewing
  <2>2. ASSUME NEW s \in Sessions, sess[s].task = t, s \notin Engaged(t),
               task[t].status # "planning"
        PROVE  Identity(s)
    <3>1. sess[s].proc # "free"
      BY <2>1, <2>2, BoardAssumption DEF Reviewing, Calm, AtRest
    <3>2. \A pkt \in Packets : ~EndTurn(s, pkt)
      BY <2>2 DEF EndTurn, Engaged, Present, Occupied
    <3>3. ASSUME NEW u \in Tasks, ScanContinue(u), s = task[u].session PROVE FALSE
      <4>1. sess[s].task = u
        BY <3>3, CoherentLinked DEF ScanContinue, Continuable, Board, Links, Linked
      <4>2. QED
        BY <2>2, <3>3, <4>1 DEF ScanContinue, Continuable
    <3>4. QED
      BY <3>1, <3>2, <3>3, IdentityKept DEF SpawnSucceeds
  <2>3. CASE task[t].status = "done"
    <3>1. PICK s \in Sessions : /\ sess[s].task = t /\ sess[s].role = "evaluator"
                                /\ sess[s].packet = "done"
      BY <2>3 DEF AcceptedByEvaluator
    <3>2. Engaged(t) = {}
      BY <2>1, <2>3 DEF Orderly, Exclusive, Judging
    <3>3. Identity(s)
      BY <2>2, <2>3, <3>1, <3>2
    <3>4. QED
      BY <3>1, <3>3 DEF Identity
  <2>4. CASE task[t].status # "done"
    <3>1. Next
      BY <2>4 DEF vars
    <3>2. ~UserMove(t, "done")
      BY DEF Unattended, UserMove, UserOp
    <3>3. PICK s \in Sessions : Reports(s) /\ Accepts(s, t)
      BY <2>1, <2>4, <3>1, <3>2, DoneBy
    <3>4. Present(s)
      BY <3>3 DEF Unattended, Reports, Ready, BecomeInactive, UserRename, Reload, Present,
                  Reviewing, Calm, AtRest
    <3>5. s \in Engaged(t)
      BY <3>3, <3>4 DEF Accepts, Applicable, Engaged, Untold
    <3>6. sess[s].packet = "done" /\ ActionRole(t, task[t]) # "generator"
      <4>1. sess[s].packet \in PacketKinds
        BY <3>3, TypedSessions DEF Accepts, Applicable, SessRec, Board
      <4>2. QED
        BY <2>1, <2>4, <3>3, <4>1, PacketDone, TypedTasks DEF Accepts, Board
    <3>7. Judging(t, task[t])
      <4>1. task[t].status \in {"running", "review"}
        BY <3>3 DEF Accepts, Applicable
      <4>2. task[t].source \in {"manual", "evaluator"}
        BY DEF GeneratorSources
      <4>3. QED
        BY <2>1, <3>5, <3>6, <4>1, <4>2 DEF Orderly, Exclusive, Judging, ActionRole
    <3>8. sess[s].role = "evaluator" /\ sess[s].task = t
      BY <2>1, <3>5, <3>7 DEF Orderly, Exclusive, Undecided
    <3>9. Identity(s)
      <4>1. sess[s] \in SessRec /\ sess \in [Sessions -> SessRec]
        BY DEF Board, Typed, TypeOK
      <4>2. CASE Ready(s)
        BY <4>1, <4>2 DEF Ready, SessRec, Identity
      <4>3. CASE BecomeInactive(s)
        BY <4>1, <4>3 DEF BecomeInactive, SessRec, Identity
      <4>4. CASE UserRename(s) \/ Reload(s)
        BY <4>4 DEF UserRename, Reload, Identity
      <4>5. QED
        BY <3>3, <4>2, <4>3, <4>4 DEF Reports
    <3>10. QED
      BY <3>6, <3>8, <3>9 DEF Identity
  <2>5. QED
    BY <2>3, <2>4
<1>3. QED
  BY <1>1, <1>2, BoardFacts, BoardReviewing, BoardSources, PTL DEF Spec, Safety

-----------------------------------------------------------------------------
(* Review comes first.  Here restarts, an offline runner and sessions that *)
(* lose their connection are allowed; only the user's hand, and a packet   *)
(* that asks for "running", are not.                                       *)

ByItself ==
    /\ UserOps \cap {"move", "prompt", "start"} = {}
    /\ "running" \notin Packets

(* A task carries the source "evaluator" from the start of its evaluator   *)
(* to the evaluator's verdict: it does not run, no start of it is under    *)
(* way, and no tick that read it before will start one.                    *)
ReviewFirst(t) ==
    /\ task[t].source = "evaluator" =>
          /\ task[t].status \notin {"planning", "running"} /\ ~task[t].waiting
          /\ ~InFlight(t)
          /\ t \in tick.todo => Judging(t, tick.snap[t])
    /\ InFlight(t) => t \notin tick.todo

Reviewed ==
    /\ start["user"].pc = "idle"
    /\ \A t \in GeneratorTasks : ReviewFirst(t)

PacketsKnown == \A s \in Sessions : sess[s].packet \in Packets \cup {"none"}

LEMMA BoardPackets == Safety => []PacketsKnown
<1>1. Init => PacketsKnown
  BY DEF Init, InitFrom, NewSession, PacketsKnown
<1>2. Board /\ PacketsKnown /\ [Next]_vars => PacketsKnown'
  <2> SUFFICES ASSUME Board, PacketsKnown, [Next]_vars, NEW s \in Sessions
               PROVE  sess'[s].packet \in Packets \cup {"none"}
    BY DEF PacketsKnown
  <2>t. sess \in [Sessions -> SessRec] /\ sess[s] \in SessRec
    BY DEF Board, Typed, TypeOK
  <2>1. CASE Identity(s) \/ \E t \in Tasks : ScanContinue(t)
    <3>1. ASSUME NEW t \in Tasks, ScanContinue(t) PROVE sess'[s].packet = sess[s].packet
      <4> DEFINE role == ActionRole(t, task[t])
                 mail == sess[task[t].session].mail \/ sess[task[t].session].proc = "running"
      <4>1. sess' = [sess EXCEPT ![task[t].session] =
                       [@ EXCEPT !.task = t, !.role = role, !.mail = mail]]
        BY <2>t, <3>1 DEF ScanContinue
      <4> HIDE DEF role, mail
      <4>2. QED
        BY <2>t, <4>1 DEF SessRec
    <3>3. sess'[s].packet = sess[s].packet
      BY <2>1, <3>1 DEF Identity
    <3>2. QED
      BY <3>3 DEF PacketsKnown
  <2>2. CASE \E pkt \in Packets : EndTurn(s, pkt)
    <3>1. PICK pkt \in Packets : EndTurn(s, pkt)
      BY <2>2
    <3> DEFINE packet == IF pkt = "none" THEN sess[s].packet ELSE pkt
               turn == IF sess[s].mail THEN "idle" ELSE "ended"
    <3>2. sess' = [sess EXCEPT ![s].turn = turn, ![s].packet = packet]
      BY <3>1 DEF EndTurn
    <3>3. packet \in Packets \cup {"none"}
      BY DEF PacketsKnown
    <3> HIDE DEF packet, turn
    <3>4. QED
      BY <2>t, <3>2, <3>3 DEF SessRec
  <2>3. CASE SpawnSucceeds("tick", s) \/ SpawnSucceeds("user", s)
    BY <2>t, <2>3 DEF SpawnSucceeds, NewSession
  <2>4. QED
    BY <2>1, <2>2, <2>3, IdentityKept
<1>3. QED
  BY <1>1, <1>2, BoardFacts, PTL DEF Safety

(* A step that does not take up the review of t *)
MildTo(new, rec) ==
    new.source = "evaluator" =>
        /\ rec.source = "evaluator"
        /\ new.status \in {rec.status, "blocked", "done"}
        /\ new.waiting => rec.waiting

Mild(t) ==
    /\ MildTo(task'[t], task[t])
    /\ InFlight(t)' => InFlight(t)
    /\ t \in tick'.todo => t \in tick.todo /\ tick'.snap[t] = tick.snap[t]

LEMMA MildKept ==
    ASSUME NEW t, ReviewFirst(t), Mild(t)
    PROVE  ReviewFirst(t)'
BY DEF ReviewFirst, Mild, MildTo, Judging

LEMMA PacketMild ==
    ASSUME NEW t \in GoalTasks, NEW rec, Sound(rec), NEW pkt \in PacketKinds \ {"running"}
    PROVE  MildTo(PacketPatch(t, rec, pkt), rec)
<1> DEFINE st == IF pkt = "done" /\ ActionRole(t, rec) = "generator" THEN "review" ELSE pkt
           set == SetStatus(rec, st)
           source == IF ActionRole(t, rec) = "evaluator" /\ st \in {"planning", "blocked", "review"}
                     THEN "manual" ELSE set.source
<1>1. CASE pkt = "other"
  BY <1>1 DEF PacketPatch, MildTo
<1>2. CASE pkt # "other"
  <2>1. st \in {"done", "review", "blocked", "planning"}
    BY <1>2 DEF PacketKinds
  <2>2. /\ set \in TaskRec /\ set.status = st /\ set.source = rec.source
        /\ set.waiting = rec.waiting
    BY <2>1 DEF SetStatus, Sound, TaskRec, Blockers, Statuses
  <2>3. PacketPatch(t, rec, pkt) = [set EXCEPT !.source = source]
    BY <1>2 DEF PacketPatch
  <2>4. rec.source = "evaluator" => ActionRole(t, rec) = "evaluator"
    BY DEF ActionRole
  <2>5. source = "evaluator" => rec.source = "evaluator" /\ st = "done"
    BY <2>1, <2>2, <2>4
  <2> HIDE DEF st, set, source
  <2>6. QED
    BY <2>2, <2>3, <2>5 DEF TaskRec, MildTo
<1>3. QED
  BY <1>1, <1>2

LEMMA ReportMild ==
    ASSUME ByItself, Board, PacketsKnown, NEW s \in Sessions, Reports(s), NEW t \in GoalTasks
    PROVE  Mild(t)
<1>t. t \in Tasks /\ task \in [Tasks -> TaskRec] /\ Sound(task[t])
  BY BoardAssumption, TypedTasks DEF Board, Typed, TypeOK
<1>1. PICK new, applied, fell, ss :
         /\ Report(s, new, applied, fell, ss)
         /\ new \in {AfterReady(s), AfterInactive(s)}
  BY DEF Reports, Ready, BecomeInactive, UserRename, Reload
<1>2. UNCHANGED <<tick, start>>
  BY DEF Reports, Ready, BecomeInactive, UserRename, Reload
<1>3. MildTo(task'[t], task[t])
  <2>1. CASE t # sess[s].task
    BY <1>t, <1>1, <2>1 DEF Report, MildTo
  <2>2. CASE t = sess[s].task
    <3>1. task'[t] = new
      BY <1>t, <1>1, <2>2 DEF Report
    <3>2. Outcome(s, new)
      BY <1>t, <1>1, <2>2, AfterReadyOutcome, AfterInactiveOutcome DEF PlainReview
    <3>3. Applicable(s) => MildTo(PacketPatch(t, task[t], sess[s].packet), task[t])
      <4>1. Applicable(s) => sess[s].packet \in PacketKinds \ {"running"}
        BY BoardAssumption DEF Applicable, PacketsKnown, ByItself
      <4>2. QED
        BY <1>t, <4>1, PacketMild
    <3>4. MildTo(Recovered(task[t], s), task[t])
      BY <1>t, RecoveredFacts DEF MildTo
    <3>5. QED
      BY <2>2, <3>1, <3>2, <3>3, <3>4 DEF Outcome, BlockedOrSame, MildTo
  <2>3. QED
    BY <2>1, <2>2
<1>4. QED
  BY <1>2, <1>3 DEF Mild, InFlight

(* The steps that leave tick and start alone *)
LEMMA TaskMild ==
    ASSUME UNCHANGED <<tick, start>>, NEW t, MildTo(task'[t], task[t])
    PROVE  Mild(t)
BY DEF Mild, InFlight

LEMMA ReviewedSessionStep ==
    ASSUME ByItself, Board, PacketsKnown, Reviewed, NEW s \in Sessions, SessionStep(s)
    PROVE  Reviewed'
<1>0. start["user"].pc = "idle" /\ UNCHANGED <<tick, start>>
  BY DEF Reviewed, SessionStep, Heartbeat, StartTurn, Ready, ReadyWithoutReply,
         Interrupt, EndTurn, Die, BecomeInactive
<1> SUFFICES ASSUME NEW t \in GeneratorTasks PROVE ReviewFirst(t)'
  BY <1>0 DEF Reviewed
<1>t. /\ t \in Tasks /\ t \in GoalTasks /\ task \in [Tasks -> TaskRec] /\ Sound(task[t])
      /\ ReviewFirst(t)
  BY BoardAssumption, TypedTasks DEF Board, Typed, TypeOK, GeneratorTasks, Reviewed
<1>1. CASE Reports(s)
  BY <1>1, <1>t, ReportMild, MildKept
<1>2. CASE UNCHANGED task
  BY <1>0, <1>2, <1>t, TaskMild, MildKept DEF MildTo
<1>3. CASE Heartbeat(s)
  <2>1. task'[t] = task[t]
    BY <1>t, <1>3 DEF Heartbeat, Report
  <2>2. QED
    BY <1>0, <1>t, <2>1, TaskMild, MildKept DEF MildTo
<1>4. CASE Interrupt(s)
  <2>1. task'[t] \in {task[t], BlockedByAgent(task[t], s)}
    BY <1>t, <1>4 DEF Interrupt, Report
  <2>2. MildTo(BlockedByAgent(task[t], s), task[t])
    BY <1>t DEF BlockedByAgent, Block, TaskRec, MildTo
  <2>3. MildTo(task'[t], task[t])
    BY <2>1, <2>2 DEF MildTo
  <2>4. QED
    BY <1>0, <1>t, <2>3, TaskMild, MildKept
<1>5. QED
  BY <1>1, <1>2, <1>3, <1>4
     DEF SessionStep, StartTurn, ReadyWithoutReply, EndTurn, Die, Reports

LEMMA ReviewedStartStep ==
    ASSUME Board, Reviewed, NEW a \in Actors, StartStep(a)
    PROVE  Reviewed'
<1> DEFINE st == start["tick"]
<1>s. start \in [Actors -> StartRec] /\ st \in StartRec /\ tick \in TickRec
  BY DEF Board, Typed, TypeOK, Actors
<1>0. a = "tick" /\ start'["user"] = start["user"] /\ start["user"].pc = "idle"
  <2>1. start[a].pc # "idle"
    BY DEF StartStep, SpawnFails, SpawnSucceeds, FinishStart
  <2>2. a = "tick" /\ start["user"].pc = "idle"
    BY <2>1 DEF Reviewed, Actors
  <2>3. start'["user"] = start["user"]
    BY <1>s, <2>2 DEF StartStep, SpawnFails, Fail, SpawnSucceeds, FinishStart, Actors
  <2>4. QED
    BY <2>2, <2>3
<1> SUFFICES ASSUME NEW t \in GeneratorTasks PROVE ReviewFirst(t)'
  BY <1>0 DEF Reviewed
<1>t. /\ t \in Tasks /\ task \in [Tasks -> TaskRec] /\ Sound(task[t]) /\ ReviewFirst(t)
  BY BoardAssumption, TypedTasks DEF Board, Typed, TypeOK, GeneratorTasks, Reviewed
<1>1. CASE SpawnFails("tick")
  <2>1. task'[t] \in {task[t], Block(task[t], "scheduler")}
    BY <1>t, <1>1 DEF SpawnFails, Fail
  <2>2. MildTo(task'[t], task[t])
    BY <1>t, <2>1 DEF Block, TaskRec, MildTo
  <2>3. start'["tick"].pc = "idle" /\ tick'.todo = tick.todo /\ tick'.snap = tick.snap
    BY <1>s, <1>1 DEF SpawnFails, Fail, IdleStart, TickRec, Actors
  <2>4. QED
    BY <1>t, <2>2, <2>3, MildKept DEF Mild, InFlight
<1>2. CASE \E s \in Sessions : SpawnSucceeds("tick", s)
  <2>1. PICK s \in Sessions : SpawnSucceeds("tick", s)
    BY <1>2
  <2>2. UNCHANGED <<task, tick>> /\ st.pc = "spawn"
    BY <2>1 DEF SpawnSucceeds
  <2>3. start'["tick"].task = st.task
    BY <1>s, <2>1 DEF SpawnSucceeds, StartRec, Actors
  <2>4. QED
    BY <1>t, <2>2, <2>3, MildKept DEF Mild, MildTo, InFlight
<1>3. CASE \E ok \in BOOLEAN : FinishStart("tick", ok)
  <2>1. /\ task' = [task EXCEPT ![st.task] = Started(@, st)] /\ st.pc = "configure"
        /\ start'["tick"].pc = "idle" /\ tick'.todo = tick.todo /\ tick'.snap = tick.snap
    BY <1>s, <1>3 DEF FinishStart, IdleStart, TickRec, Actors
  <2>2. CASE t = st.task
    <3>1. task'[t] = Started(task[t], st)
      BY <1>t, <2>1, <2>2
    <3>2. /\ ~task'[t].waiting
          /\ task'[t].status = IF st.review THEN "review" ELSE "running"
          /\ task'[t].source = IF st.review THEN "evaluator" ELSE task[t].source
      BY <1>s, <1>t, <3>1, StartedFacts
    <3>3. t \notin tick.todo /\ task[t].source # "evaluator"
      BY <1>t, <2>1, <2>2 DEF ReviewFirst, InFlight
    <3>4. QED
      BY <2>1, <3>2, <3>3 DEF ReviewFirst, InFlight
  <2>3. CASE t # st.task
    BY <1>t, <2>1, <2>3, MildKept DEF Mild, MildTo, InFlight
  <2>4. QED
    BY <2>2, <2>3
<1>4. QED
  BY <1>0, <1>1, <1>2, <1>3 DEF StartStep

LEMMA PassedKeeps ==
    ASSUME Board, NEW u \in Tasks, NEW started \in BOOLEAN, tick' = Passed(u, started),
           NEW t \in Tasks
    PROVE  t \in tick'.todo => t \in tick.todo /\ tick'.snap[t] = tick.snap[t]
<1> DEFINE new == Passed(u, started)
<1>1. new.todo = tick.todo \ {u} /\ \A v \in Tasks \ {u} : new.snap[v] = tick.snap[v]
  BY PassedFacts
<1>2. tick' = new
  OBVIOUS
<1> HIDE DEF new
<1>3. QED
  BY <1>1, <1>2

LEMMA ReviewedTickStep == ASSUME Board, Reviewed, TickStep PROVE Reviewed'
<1>s. start \in [Actors -> StartRec] /\ tick \in TickRec
  BY DEF Board, Typed, TypeOK
<1>0. start["user"].pc = "idle" /\ start'["user"] = start["user"]
  BY <1>s DEF Reviewed, TickStep, StartTick, PrepareTick, FinishTick, ScanSkip, ScanContinue,
              ScanOffline, ScanStart, BeginStart, Actors
<1> SUFFICES ASSUME NEW t \in GeneratorTasks PROVE ReviewFirst(t)'
  BY <1>0 DEF Reviewed
<1>t. /\ t \in Tasks /\ t \in GoalTasks /\ task \in [Tasks -> TaskRec] /\ Sound(task[t])
      /\ ReviewFirst(t)
  BY BoardAssumption, TypedTasks DEF Board, Typed, TypeOK, GeneratorTasks, Reviewed
<1>1. CASE StartTick
  <2>1. tick'.todo = {} /\ UNCHANGED <<task, start>>
    <3>1. tick' \in {[IdleTick EXCEPT !.pc = pc, !.auto = autoRun] : pc \in {"enter", "scan"}}
      BY <1>1 DEF StartTick
    <3>2. QED
      BY <1>1, <3>1 DEF StartTick, IdleTick
  <2>2. QED
    BY <1>t, <2>1, MildKept DEF Mild, MildTo, InFlight
<1>2. CASE FinishTick
  BY <1>2, <1>t, MildKept DEF FinishTick, IdleTick, Mild, MildTo, InFlight
<1>3. CASE PrepareTick
  <2>1. ~InFlight(t) /\ ~InFlight(t)'
    BY <1>3 DEF PrepareTick, InFlight, Board, Phases
  <2>2. task' = [u \in Tasks |-> Revived(u)]
    BY <1>3 DEF PrepareTick
  <2>3. t \in tick'.todo => task'[t].status \in {"planning", "review"} /\ tick'.snap[t] = task'[t]
    <3> DEFINE todo == {u \in Tasks : /\ ~task'[u].archived
                                      /\ task'[u].status \in {"planning", "review"}}
               snap == [u \in Tasks |-> IF u \in todo THEN task'[u] ELSE NewTask(u)]
    <3>1. tick'.todo = todo /\ tick'.snap = snap
      BY <1>s, <1>3, <2>2 DEF PrepareTick, TickRec
    <3>2. QED
      BY <1>t, <3>1
  <2>4. task[t].source = "evaluator" =>
           /\ task'[t].status = task[t].status /\ task'[t].waiting = task[t].waiting
           /\ task'[t].source = "evaluator"
    <3>1. task[t].source = "evaluator" => ~RunnerOfflineBlock(t)
      BY <1>t DEF ReviewFirst, RunnerOfflineBlock
    <3>2. task[t].source = "evaluator"
             => task'[t] \in {task[t], [task[t] EXCEPT !.archived = FALSE]}
      BY <1>t, <2>2, <3>1 DEF Revived
    <3>3. QED
      BY <1>t, <3>2 DEF TaskRec
  <2>5. task'[t].source = task[t].source
    <3>1. task'[t] \in {task[t], [task[t] EXCEPT !.archived = FALSE],
                        [SetStatus(task[t], "planning") EXCEPT !.retry = 0]}
      BY <1>t, <2>2 DEF Revived
    <3>2. QED
      BY <1>t, <3>1 DEF SetStatus, TaskRec
  <2>6. QED
    BY <1>t, <2>1, <2>3, <2>4, <2>5 DEF ReviewFirst, Judging
<1>4. ASSUME NEW u \in Tasks, ScanSkip(u) PROVE ReviewFirst(t)'
  <2>1. /\ t \in tick'.todo => t \in tick.todo /\ tick'.snap[t] = tick.snap[t]
        /\ UNCHANGED <<task, start>>
    BY <1>t, <1>4, PassedKeeps DEF ScanSkip
  <2>2. QED
    BY <1>t, <2>1, MildKept DEF Mild, MildTo, InFlight
<1>5. ASSUME NEW u \in Tasks, Candidate(u), Eligible(u), t = u
      PROVE  task[t].source # "evaluator"
  BY <1>5, <1>t DEF Candidate, Eligible, AutoRunnable, ReviewFirst, Judging
<1>6. ASSUME NEW u \in Tasks, ScanContinue(u) PROVE ReviewFirst(t)'
  <2>1. /\ t \in tick'.todo => t \in tick.todo /\ tick'.snap[t] = tick.snap[t]
        /\ UNCHANGED start
    BY <1>t, <1>6, PassedKeeps DEF ScanContinue
  <2>2. MildTo(task'[t], task[t])
    <3>1. CASE t = u
      <4>1. task'[t] = Continued(task[t], task[t].session)
        BY <1>t, <1>6, <3>1 DEF ScanContinue
      <4>2. task'[t].source = task[t].source
        BY <1>t, <4>1 DEF Continued, SetStatus, TaskRec
      <4>3. QED
        BY <1>5, <1>6, <3>1, <4>2 DEF ScanContinue, MildTo
    <3>2. CASE t # u
      BY <1>t, <1>6, <3>2 DEF ScanContinue, MildTo
    <3>3. QED
      BY <3>1, <3>2
  <2>3. QED
    BY <1>t, <2>1, <2>2, MildKept DEF Mild, InFlight
<1>7. ASSUME NEW u \in Tasks, ScanOffline(u) PROVE ReviewFirst(t)'
  <2>1. tick'.todo = {} /\ UNCHANGED start
    <3> DEFINE new == Passed(u, TRUE)
    <3>1. tick' = [new EXCEPT !.todo = {}, !.snap = NoSnap] /\ new \in TickRec
      BY <1>7, <1>s, PassedType DEF ScanOffline
    <3> HIDE DEF new
    <3>2. QED
      BY <1>7, <3>1 DEF ScanOffline, TickRec
  <2>2. MildTo(task'[t], task[t])
    <3>1. CASE t = u
      <4>1. task'[t] = WaitsForRunner(task[t], tick.snap[t])
        BY <1>t, <1>7, <3>1 DEF ScanOffline
      <4>2. task'[t].source = task[t].source
        BY <1>t, <4>1 DEF WaitsForRunner, TaskRec
      <4>3. QED
        BY <1>5, <1>7, <3>1, <4>2 DEF ScanOffline, MildTo
    <3>2. CASE t # u
      BY <1>t, <1>7, <3>2 DEF ScanOffline, MildTo
    <3>3. QED
      BY <3>1, <3>2
  <2>3. QED
    BY <1>t, <2>1, <2>2, MildKept DEF Mild, InFlight
<1>8. ASSUME NEW u \in Tasks, ScanStart(u) PROVE ReviewFirst(t)'
  <2>1. UNCHANGED task /\ start'["tick"].task = u
    BY <1>8, <1>s DEF ScanStart, BeginStart, Actors
  <2>2. tick'.todo = tick.todo \ {u} /\ \A v \in Tasks \ {u} : tick'.snap[v] = tick.snap[v]
    <3> DEFINE new == Passed(u, TRUE)
    <3>1. new.todo = tick.todo \ {u} /\ \A v \in Tasks \ {u} : new.snap[v] = tick.snap[v]
      BY PassedFacts
    <3>2. tick' = [new EXCEPT !.pc = "await"] /\ new \in TickRec
      BY <1>8, <1>s, PassedType DEF ScanStart
    <3> HIDE DEF new
    <3>3. QED
      BY <3>1, <3>2 DEF TickRec
  <2>3. CASE t = u
    BY <1>5, <1>8, <2>1, <2>2, <2>3 DEF ScanStart, ReviewFirst
  <2>4. CASE t # u
    BY <1>t, <2>1, <2>2, <2>4, MildKept DEF Mild, MildTo, InFlight
  <2>5. QED
    BY <2>3, <2>4
<1>9. QED
  BY <1>1, <1>2, <1>3, <1>4, <1>6, <1>7, <1>8 DEF TickStep

LEMMA ReviewedUserStep ==
    ASSUME ByItself, Board, PacketsKnown, Reviewed, UserStep
    PROVE  Reviewed'
<1>0. /\ \A t \in Tasks, st \in Statuses : ~UserMove(t, st)
      /\ \A t \in Tasks : ~UserStart(t)
      /\ \A s \in Sessions : ~UserPrompt(s)
  BY DEF ByItself, UserMove, UserStart, UserPrompt, UserOp
<1>1. UNCHANGED <<tick, start>>
  BY <1>0 DEF UserStep, UserArchive, UserRename, UserDelete, DeleteFrom,
         UserPause, UserAutoRun
<1> SUFFICES ASSUME NEW t \in GeneratorTasks PROVE ReviewFirst(t)'
  BY <1>1 DEF Reviewed
<1>t. /\ t \in Tasks /\ t \in GoalTasks /\ task \in [Tasks -> TaskRec] /\ Sound(task[t])
      /\ ReviewFirst(t)
  BY BoardAssumption, TypedTasks DEF Board, Typed, TypeOK, GeneratorTasks, Reviewed
<1>2. ASSUME NEW s \in Sessions, UserRename(s) PROVE Mild(t)
  BY <1>2, <1>t, ReportMild DEF Reports
<1>3. ASSUME NEW u \in Tasks, UserArchive(u) PROVE Mild(t)
  <2>1. MildTo(task'[t], task[t])
    BY <1>t, <1>3 DEF UserArchive, TaskRec, MildTo
  <2>2. QED
    BY <1>1, <2>1, TaskMild
<1>4. ASSUME NEW s \in Sessions, UserDelete(s) PROVE Mild(t)
  <2>1. MildTo(task'[t], task[t])
    BY <1>t, <1>4 DEF UserDelete, DeleteFrom, TaskRec, MildTo
  <2>2. QED
    BY <1>1, <2>1, TaskMild
<1>5. CASE UserPause \/ UserAutoRun
  <2>1. MildTo(task'[t], task[t])
    BY <1>5 DEF UserPause, UserAutoRun, MildTo
  <2>2. QED
    BY <1>1, <1>t, <2>1, TaskMild, MildKept
<1>6. QED
  BY <1>0, <1>t, <1>2, <1>3, <1>4, <1>5, MildKept DEF UserStep

LEMMA ReviewedHubStep ==
    ASSUME ByItself, Board, PacketsKnown, Reviewed, HubStep
    PROVE  Reviewed'
<1>1. ASSUME Restart PROVE Reviewed'
  <2>1. start'["user"].pc = "idle" /\ start'["tick"].pc = "idle" /\ tick'.todo = {}
    BY <1>1 DEF Restart, IdleStart, IdleTick, Actors
  <2>2. UNCHANGED task
    BY <1>1 DEF Restart
  <2>3. QED
    BY <2>1, <2>2, MildKept DEF Reviewed, Mild, MildTo, InFlight
<1>2. ASSUME NEW s \in Sessions, Reload(s) PROVE Reviewed'
  <2>1. \A t \in GeneratorTasks : Mild(t)
    BY <1>2, ReportMild DEF Reports, GeneratorTasks
  <2>2. UNCHANGED start
    BY <1>2 DEF Reload
  <2>3. QED
    BY <2>1, <2>2, MildKept DEF Reviewed
<1>3. ASSUME PeriodicTick \/ RunnerStops \/ RunnerReady PROVE Reviewed'
  <2>1. UNCHANGED <<task, tick, start>>
    BY <1>3 DEF PeriodicTick, RunnerStops, RunnerReady
  <2>2. QED
    BY <2>1, TaskMild, MildKept DEF Reviewed, MildTo
<1>4. QED
  BY <1>1, <1>2, <1>3 DEF HubStep

LEMMA BoardReviewed ==
    ASSUME ByItself
    PROVE  Safety => []Reviewed
<1>1. Init => Reviewed
  <2> SUFFICES ASSUME Init PROVE Reviewed
    OBVIOUS
  <2>1. \A t \in GeneratorTasks : task[t].source = "manual"
    BY BoardAssumption DEF Init, InitFrom, NewTask, GeneratorTasks
  <2>2. tick.todo = {} /\ start["user"].pc = "idle"
    BY DEF Init, InitFrom, IdleTick, IdleStart, Actors
  <2>3. QED
    BY <2>1, <2>2 DEF Reviewed, ReviewFirst
<1>2. Board /\ PacketsKnown /\ Reviewed /\ [Next]_vars => Reviewed'
  <2> SUFFICES ASSUME Board, PacketsKnown, Reviewed, [Next]_vars PROVE Reviewed'
    OBVIOUS
  <2>1. CASE UNCHANGED vars
    BY <2>1 DEF vars, Reviewed, ReviewFirst, InFlight, Judging
  <2>2. QED
    BY <2>1, ReviewedSessionStep, ReviewedStartStep, ReviewedTickStep, ReviewedUserStep,
       ReviewedHubStep DEF Next
<1>3. QED
  BY <1>1, <1>2, BoardFacts, BoardPackets, PTL DEF Safety

(* No shortcut: left to itself, a generator's task goes to review before   *)
(* it is done, whatever packet is reported late, whatever start was under  *)
(* way and however often the hub restarts.                                 *)
THEOREM BoardNoShortcut ==
    ASSUME ByItself
    PROVE  Spec => NoShortcut
<1>1. Board /\ GeneratorSources /\ Reviewed /\ [Next]_vars =>
        \A t \in GeneratorTasks :
          task[t].status = "running" /\ task'[t].status = "done" => UserMove(t, "done")
  <2> SUFFICES ASSUME Board, GeneratorSources, Reviewed, [Next]_vars, NEW t \in GeneratorTasks,
                      task[t].status = "running", task'[t].status = "done",
                      ~UserMove(t, "done")
               PROVE  FALSE
    OBVIOUS
  <2>1. t \in Tasks /\ t \in GoalTasks /\ Sound(task[t]) /\ Next
    BY BoardAssumption, TypedTasks DEF GeneratorTasks, Board, vars
  <2>2. PICK s \in Sessions : Accepts(s, t)
    BY <2>1, DoneBy
  <2>3. ActionRole(t, task[t]) # "generator"
    <3>1. sess[s].packet \in PacketKinds
      BY <2>2, TypedSessions DEF Accepts, Applicable, SessRec, Board
    <3>2. QED
      BY <2>1, <2>2, <3>1, PacketDone DEF Accepts
  <2>4. task[t].source = "manual"
    BY DEF GeneratorSources, Reviewed, ReviewFirst
  <2>5. QED
    BY <2>1, <2>3, <2>4 DEF ActionRole
<1>2. QED
  BY <1>1, BoardFacts, BoardSources, BoardReviewed, PTL DEF Spec, Safety, NoShortcut

-----------------------------------------------------------------------------
(* The evaluators of one task.  A verdict may send a task back to planning *)
(* or to another review; where none does, only an evaluator that ends      *)
(* without a verdict is followed by a second one.                          *)

NoneSentBack == Packets \cap {"planning", "review"} = {}

Evaluators(t) == {s \in Sessions : sess[s].task = t /\ sess[s].role = "evaluator"}

(* Another evaluator may be started for t, as rec tells. *)
Open(t, rec) == rec.status # "blocked" /\ (t \in GoalTasks => rec.source # "evaluator")

(* Every evaluator of t but the last one was counted as a retry, and the   *)
(* last one too before another is started.                                 *)
Attempts(t) ==
    /\ Cardinality(Evaluators(t)) <= task[t].retry + 1
    /\ InFlight(t) =>
          /\ start["tick"].retry = task[t].retry
          /\ Cardinality(Evaluators(t) \ {start["tick"].session}) <= task[t].retry
    /\ ~InFlight(t) /\ Open(t, task[t]) => Cardinality(Evaluators(t)) <= task[t].retry
    /\ t \in tick.todo /\ ~Judging(t, tick.snap[t]) => Cardinality(Evaluators(t)) <= task[t].retry

Counted == \A t \in Tasks : Attempts(t)

LEMMA SomeSessions ==
    ASSUME NEW S \in SUBSET Sessions
    PROVE  IsFiniteSet(S) /\ Cardinality(S) \in Nat
<1>1. IsFiniteSet(S)
  BY BoardAssumption, FS_Subset
<1>2. QED
  BY <1>1, FS_CardinalityType

LEMMA FewerSessions ==
    ASSUME NEW S \in SUBSET Sessions, NEW T \in SUBSET S
    PROVE  Cardinality(T) <= Cardinality(S)
BY SomeSessions, FS_Subset

LEMMA OneFewer ==
    ASSUME NEW S \in SUBSET Sessions, NEW s
    PROVE  Cardinality(S) <= Cardinality(S \ {s}) + 1
<1>1. IsFiniteSet(S) /\ Cardinality(S) \in Nat
  BY SomeSessions
<1>2. Cardinality(S \ {s}) = IF s \in S THEN Cardinality(S) - 1 ELSE Cardinality(S)
  BY <1>1, FS_RemoveElement
<1>3. QED
  BY <1>1, <1>2

(* A session becomes an evaluator of t by a start only. *)
LEMMA EvaluatorsKept ==
    ASSUME Board, Reviewing, [Next]_vars, NEW t \in Tasks, NEW s \in Sessions,
           s \in Evaluators(t)', s \notin Evaluators(t)
    PROVE  SpawnSucceeds("tick", s)
<1>t. sess \in [Sessions -> SessRec] /\ sess[s] \in SessRec
  BY DEF Board, Typed, TypeOK
<1>0. ~Identity(s)
  BY DEF Identity, Evaluators
<1>1. \A pkt \in Packets : ~EndTurn(s, pkt)
  <2>1. ASSUME NEW pkt \in Packets, EndTurn(s, pkt)
        PROVE  sess'[s].task = sess[s].task /\ sess'[s].role = sess[s].role
    <3> DEFINE packet == IF pkt = "none" THEN sess[s].packet ELSE pkt
               turn == IF sess[s].mail THEN "idle" ELSE "ended"
    <3>1. sess' = [sess EXCEPT ![s].turn = turn, ![s].packet = packet]
      BY <2>1 DEF EndTurn
    <3> HIDE DEF packet, turn
    <3>2. QED
      BY <1>t, <3>1 DEF SessRec
  <2>2. QED
    BY <2>1 DEF Evaluators
<1>2. ~SpawnSucceeds("user", s)
  BY DEF SpawnSucceeds, Reviewing, Calm
<1>3. \A u \in Tasks : ~(ScanContinue(u) /\ s = task[u].session)
  <2> SUFFICES ASSUME NEW u \in Tasks, ScanContinue(u), s = task[u].session PROVE FALSE
    OBVIOUS
  <2> DEFINE role == ActionRole(u, task[u])
             mail == sess[s].mail \/ sess[s].proc = "running"
  <2>1. sess' = [sess EXCEPT ![s] = [@ EXCEPT !.task = u, !.role = role, !.mail = mail]]
    BY <1>t DEF ScanContinue
  <2>2. role # "evaluator"
    <3>1. u \in GoalTasks /\ task[u].status = "planning"
      BY DEF ScanContinue, Continuable
    <3>2. task[u].source # "evaluator"
      BY <3>1 DEF Reviewing, Orderly, PlannedByOthers
    <3>3. QED
      BY <3>1, <3>2 DEF ActionRole
  <2>3. sess'[s].role = role
    <3> HIDE DEF role, mail
    <3>1. QED
      BY <1>t, <2>1 DEF SessRec
  <2>4. QED
    BY <2>2, <2>3 DEF Evaluators
<1>4. QED
  BY <1>0, <1>1, <1>2, <1>3, IdentityKept

-----------------------------------------------------------------------------
(* Steps that start no evaluator of t *)

(* What becomes of the record: the retries stay, and it opens no further   *)
(* review; or the evaluator that took up the review counts as one.         *)
Tally(t, new, rec) ==
    \/ new.retry = rec.retry /\ (Open(t, new) => Open(t, rec))
    \/ new.retry = rec.retry + 1 /\ t \in GoalTasks /\ rec.source = "evaluator"

Untried(t) ==
    /\ Evaluators(t)' \subseteq Evaluators(t)
    /\ Tally(t, task'[t], task[t])
    /\ InFlight(t)' => InFlight(t) /\ start'["tick"] = start["tick"]
    /\ InFlight(t) /\ ~InFlight(t)' => ~Open(t, task'[t])
    /\ t \in tick'.todo => t \in tick.todo /\ tick'.snap[t] = tick.snap[t]

LEMMA UntriedKept ==
    ASSUME Board, Reviewing, NEW t \in Tasks, Attempts(t), Untried(t)
    PROVE  Attempts(t)'
<1> DEFINE ev == Cardinality(Evaluators(t))
           others == Cardinality(Evaluators(t) \ {start["tick"].session})
           retry == task[t].retry
<1>1. retry \in Nat /\ Orderly(t)
  <2>1. Sound(task[t])
    BY TypedTasks DEF Board
  <2>2. QED
    BY <2>1 DEF Sound, TaskRec, RetryMax, Reviewing
<1>2. ev \in Nat /\ others \in Nat
  BY SomeSessions DEF Evaluators
<1>3. Cardinality(Evaluators(t)') \in Nat /\ Cardinality(Evaluators(t)') <= ev
  <2>1. Evaluators(t)' \in SUBSET Evaluators(t) /\ Evaluators(t) \in SUBSET Sessions
    BY DEF Untried, Evaluators
  <2>2. QED
    BY <2>1, SomeSessions, FewerSessions
<1>4. InFlight(t)' => Cardinality(Evaluators(t)' \ {start["tick"].session}) <= others
  <2>1. /\ Evaluators(t)' \ {start["tick"].session}
             \in SUBSET (Evaluators(t) \ {start["tick"].session})
        /\ Evaluators(t) \ {start["tick"].session} \in SUBSET Sessions
    BY DEF Untried, Evaluators
  <2>2. QED
    BY <2>1, FewerSessions
<1>5. Cardinality(Evaluators(t)' \ {start["tick"].session}) \in Nat
  BY SomeSessions DEF Evaluators
<1>6. CASE task'[t].retry = retry /\ (Open(t, task'[t]) => Open(t, task[t]))
  <2>1. Cardinality(Evaluators(t)') <= task'[t].retry + 1
    BY <1>1, <1>2, <1>3, <1>6 DEF Attempts
  <2>2. InFlight(t)' =>
           /\ start'["tick"].retry = task'[t].retry
           /\ Cardinality(Evaluators(t)' \ {start'["tick"].session}) <= task'[t].retry
    BY <1>1, <1>2, <1>4, <1>5, <1>6 DEF Attempts, Untried
  <2>3. (~InFlight(t))' /\ Open(t, task'[t]) => Cardinality(Evaluators(t)') <= task'[t].retry
    <3>1. (~InFlight(t))' /\ Open(t, task'[t]) => ev <= retry
      BY <1>6 DEF Attempts, Untried
    <3>2. QED
      BY <1>1, <1>2, <1>3, <1>6, <3>1
  <2>4. t \in tick'.todo /\ ~Judging(t, tick'.snap[t])
          => Cardinality(Evaluators(t)') <= task'[t].retry
    <3>1. t \in tick'.todo /\ ~Judging(t, tick'.snap[t]) => ev <= retry
      BY DEF Attempts, Untried, Judging
    <3>2. QED
      BY <1>1, <1>2, <1>3, <1>6, <3>1
  <2>5. QED
    BY <2>1, <2>2, <2>3, <2>4 DEF Attempts, Open, Judging
<1>7. CASE task'[t].retry = retry + 1 /\ t \in GoalTasks /\ task[t].source = "evaluator"
  <2>1. ~InFlight(t)'
    BY <1>1, <1>7 DEF Untried, Orderly, StartHolds
  <2>2. Cardinality(Evaluators(t)') <= task'[t].retry
    BY <1>1, <1>2, <1>3, <1>7 DEF Attempts
  <2>3. task'[t].retry \in Nat
    BY <1>1, <1>7
  <2>4. Cardinality(Evaluators(t)') <= task'[t].retry + 1
    BY <1>3, <2>2, <2>3
  <2>5. QED
    BY <2>1, <2>2, <2>4 DEF Attempts
<1>8. QED
  BY <1>6, <1>7 DEF Untried, Tally

LEMMA NoSpawn ==
    ASSUME Board, UNCHANGED start, NEW s \in Sessions
    PROVE  ~SpawnSucceeds("tick", s)
<1> SUFFICES ASSUME SpawnSucceeds("tick", s) PROVE FALSE
  OBVIOUS
<1>1. start["tick"].pc = "spawn" /\ start'["tick"].pc = "configure"
  BY DEF SpawnSucceeds, Board, Typed, TypeOK, StartRec, Actors
<1>2. QED
  BY <1>1

(* Steps of the board that leave tick and start alone *)
LEMMA StillUntried ==
    ASSUME Board, Reviewing, [Next]_vars, UNCHANGED <<tick, start>>,
           NEW t \in Tasks, Tally(t, task'[t], task[t])
    PROVE  Untried(t)
<1>1. \A s \in Sessions : ~SpawnSucceeds("tick", s)
  BY NoSpawn
<1>2. Evaluators(t)' \subseteq Evaluators(t)
  <2>1. ASSUME NEW s \in Evaluators(t)' PROVE s \in Evaluators(t)
    <3>1. s \in Sessions
      BY DEF Evaluators
    <3>2. QED
      BY <1>1, <3>1, EvaluatorsKept
  <2>2. QED
    BY <2>1
<1>3. QED
  BY <1>2 DEF Untried, InFlight

LEMMA PacketTally ==
    ASSUME NEW t, NEW rec, Sound(rec), rec.status # "blocked",
           NEW pkt \in PacketKinds \ {"planning", "review"}
    PROVE  Tally(t, PacketPatch(t, rec, pkt), rec)
<1> DEFINE st == IF pkt = "done" /\ ActionRole(t, rec) = "generator" THEN "review" ELSE pkt
           set == SetStatus(rec, st)
           source == IF ActionRole(t, rec) = "evaluator" /\ st \in {"planning", "blocked", "review"}
                     THEN "manual" ELSE set.source
<1>1. CASE pkt = "other"
  BY <1>1 DEF PacketPatch, Tally
<1>2. CASE pkt # "other"
  <2>1. /\ st \in {"done", "review", "blocked", "running"}
        /\ st = "review" => ActionRole(t, rec) # "evaluator"
    BY <1>2 DEF PacketKinds
  <2>2. /\ set \in TaskRec /\ set.status = st /\ set.source = rec.source
        /\ set.retry = rec.retry
    BY <2>1 DEF SetStatus, Sound, TaskRec, Blockers, Statuses
  <2>3. PacketPatch(t, rec, pkt) = [set EXCEPT !.source = source]
    BY <1>2 DEF PacketPatch
  <2>4. source = rec.source \/ st = "blocked"
    BY <2>1, <2>2
  <2> HIDE DEF st, set, source
  <2>5. QED
    BY <2>2, <2>3, <2>4 DEF TaskRec, Tally, Open
<1>3. QED
  BY <1>1, <1>2

LEMMA ReportTally ==
    ASSUME NoneSentBack, Board, PacketsKnown, NEW s \in Sessions, Reports(s), NEW t \in Tasks
    PROVE  Tally(t, task'[t], task[t])
<1>t. task \in [Tasks -> TaskRec] /\ Sound(task[t])
  BY TypedTasks DEF Board, Typed, TypeOK
<1>1. PICK new, applied, fell, ss :
         /\ Report(s, new, applied, fell, ss)
         /\ new \in {AfterReady(s), AfterInactive(s)}
  BY DEF Reports, Ready, BecomeInactive, UserRename, Reload
<1>2. CASE t # sess[s].task
  BY <1>t, <1>1, <1>2 DEF Report, Tally
<1>3. CASE t = sess[s].task
  <2>1. task'[t] = new
    BY <1>t, <1>1, <1>3 DEF Report
  <2>2. Outcome(s, new) \/ PlainReview(s, new)
    BY <1>1, <1>3, AfterReadyOutcome, AfterInactiveOutcome
  <2>3. Applicable(s) => Tally(t, PacketPatch(t, task[t], sess[s].packet), task[t])
    <3>1. Applicable(s) => /\ sess[s].packet \in PacketKinds \ {"planning", "review"}
                           /\ task[t].status # "blocked"
      BY <1>3, BoardAssumption DEF Applicable, PacketsKnown, NoneSentBack
    <3>2. QED
      BY <1>t, <3>1, PacketTally
  <2>4. Recoverable(s) => Tally(t, Recovered(task[t], s), task[t])
    <3>1. task[t].retry \in {0, 1}
      BY <1>t DEF Sound, TaskRec, RetryMax
    <3>2. CASE task[t].retry = 0
      BY <1>t, <1>3, <3>2, RecoveredFacts DEF Recoverable, Tally
    <3>3. CASE task[t].retry = 1
      BY <1>t, <3>3, RecoveredFacts DEF Tally, Open
    <3>4. QED
      BY <3>1, <3>2, <3>3
  <2>5. PlainReview(s, new) => Tally(t, new, task[t])
    <3>1. SetStatus(task[t], "review").source = task[t].source
          /\ SetStatus(task[t], "review").retry = task[t].retry
      BY <1>t DEF SetStatus, TaskRec
    <3>2. QED
      BY <1>3, <3>1 DEF PlainReview, Tally, Open
  <2>6. BlockedOrSame(new, task[t]) => Tally(t, new, task[t])
    BY DEF BlockedOrSame, Tally, Open
  <2>7. QED
    BY <1>3, <2>1, <2>2, <2>3, <2>4, <2>5, <2>6 DEF Outcome
<1>4. QED
  BY <1>2, <1>3

LEMMA SessionAttempts ==
    ASSUME NoneSentBack, Board, PacketsKnown, Reviewing, Counted,
           NEW s \in Sessions, SessionStep(s)
    PROVE  Counted'
<1>0. UNCHANGED <<tick, start>>
  BY DEF SessionStep, Heartbeat, StartTurn, Ready, ReadyWithoutReply,
         Interrupt, EndTurn, Die, BecomeInactive
<1> SUFFICES ASSUME NEW t \in Tasks PROVE Attempts(t)'
  BY DEF Counted
<1>t. task \in [Tasks -> TaskRec] /\ Sound(task[t]) /\ Attempts(t)
  BY TypedTasks DEF Board, Typed, TypeOK, Counted
<1>n. [Next]_vars
  BY DEF Next
<1>1. Tally(t, task[t], task[t])
  BY DEF Tally
<1>2. Tally(t, task'[t], task[t])
  <2>1. CASE Reports(s)
    BY <2>1, ReportTally
  <2>2. CASE UNCHANGED task
    BY <1>1, <2>2
  <2>3. CASE Heartbeat(s)
    <3>1. \/ task'[t] = task[t]
          \/ /\ task'[t] = SetStatus(task[t], "running") /\ t \notin GoalTasks
             /\ task[t].status = "review"
      BY <1>t, <2>3 DEF Heartbeat, Report
    <3>2. SetStatus(task[t], "running").retry = task[t].retry
      BY <1>t DEF SetStatus, TaskRec
    <3>3. QED
      BY <1>1, <3>1, <3>2 DEF Tally, Open
  <2>4. CASE Interrupt(s)
    <3>1. task'[t] \in {task[t], BlockedByAgent(task[t], s)}
      BY <1>t, <2>4 DEF Interrupt, Report
    <3>2. BlockedByAgent(task[t], s).retry = task[t].retry
          /\ BlockedByAgent(task[t], s).status = "blocked"
      BY <1>t DEF BlockedByAgent, Block, TaskRec
    <3>3. QED
      BY <1>1, <3>1, <3>2 DEF Tally, Open
  <2>5. QED
    BY <2>1, <2>2, <2>3, <2>4
       DEF SessionStep, StartTurn, ReadyWithoutReply, EndTurn, Die, Reports
<1>3. QED
  BY <1>0, <1>t, <1>n, <1>2, StillUntried, UntriedKept

LEMMA UserAttempts ==
    ASSUME Unattended, NoneSentBack, Board, PacketsKnown, Reviewing, Counted, UserStep
    PROVE  Counted'
<1>0. /\ \A t \in Tasks, st \in Statuses : ~UserMove(t, st)
      /\ \A t \in Tasks : ~UserStart(t)
      /\ \A s \in Sessions : ~UserPrompt(s)
  BY DEF Unattended, UserMove, UserStart, UserPrompt, UserOp
<1>1. UNCHANGED <<tick, start>>
  BY <1>0 DEF UserStep, UserArchive, UserRename, UserDelete, DeleteFrom,
         UserPause, UserAutoRun
<1> SUFFICES ASSUME NEW t \in Tasks PROVE Attempts(t)'
  BY DEF Counted
<1>t. task \in [Tasks -> TaskRec] /\ Sound(task[t]) /\ Attempts(t)
  BY TypedTasks DEF Board, Typed, TypeOK, Counted
<1>n. [Next]_vars
  BY DEF Next
<1>2. Tally(t, task'[t], task[t])
  <2>1. ASSUME NEW s \in Sessions, UserRename(s) PROVE Tally(t, task'[t], task[t])
    BY <2>1, ReportTally DEF Reports
  <2>2. ASSUME NEW u \in Tasks, UserArchive(u) PROVE Tally(t, task'[t], task[t])
    BY <1>t, <2>2 DEF UserArchive, TaskRec, Tally, Open
  <2>3. ASSUME NEW s \in Sessions, UserDelete(s) PROVE Tally(t, task'[t], task[t])
    BY <1>t, <2>3 DEF UserDelete, DeleteFrom, TaskRec, Tally, Open
  <2>4. CASE UserPause \/ UserAutoRun
    BY <2>4 DEF UserPause, UserAutoRun, Tally
  <2>5. QED
    BY <1>0, <2>1, <2>2, <2>3, <2>4 DEF UserStep
<1>3. QED
  BY <1>1, <1>t, <1>n, <1>2, StillUntried, UntriedKept

LEMMA HubAttempts ==
    ASSUME Unattended, NoneSentBack, Board, PacketsKnown, Reviewing, Counted, HubStep
    PROVE  Counted'
<1>0. ~Restart
  BY BoardAssumption DEF Unattended, Restart, Board, Typed, TypeOK
<1>1. UNCHANGED <<tick, start>>
  BY <1>0 DEF HubStep, PeriodicTick, RunnerStops, RunnerReady, Reload
<1> SUFFICES ASSUME NEW t \in Tasks PROVE Attempts(t)'
  BY DEF Counted
<1>t. Attempts(t)
  BY DEF Counted
<1>n. [Next]_vars
  BY DEF Next
<1>2. Tally(t, task'[t], task[t])
  <2>1. ASSUME NEW s \in Sessions, Reload(s) PROVE Tally(t, task'[t], task[t])
    BY <2>1, ReportTally DEF Reports
  <2>2. CASE PeriodicTick \/ RunnerStops \/ RunnerReady
    BY <2>2 DEF PeriodicTick, RunnerStops, RunnerReady, Tally
  <2>3. QED
    BY <1>0, <2>1, <2>2 DEF HubStep
<1>3. QED
  BY <1>1, <1>t, <1>n, <1>2, StillUntried, UntriedKept

-----------------------------------------------------------------------------
(* The steps of a start *)

LEMMA SpawnAttempts ==
    ASSUME Board, Reviewing, Counted, NEW s \in Sessions, SpawnSucceeds("tick", s)
    PROVE  Counted'
<1> DEFINE st == start["tick"]
<1>1. /\ UNCHANGED <<task, tick>> /\ st.pc = "spawn"
      /\ start'["tick"] = [st EXCEPT !.pc = "configure", !.session = s]
      /\ sess' = [sess EXCEPT ![s] = [NewSession EXCEPT !.proc = "running", !.active = TRUE,
                                         !.task = st.task, !.role = st.role]]
  BY DEF SpawnSucceeds, Board, Typed, TypeOK, Actors
<1>2. /\ start'["tick"].pc = "configure" /\ start'["tick"].task = st.task
      /\ start'["tick"].session = s /\ start'["tick"].retry = st.retry
  <2>1. st \in StartRec
    BY DEF Board, Typed, TypeOK, Actors
  <2>2. QED
    BY <1>1, <2>1 DEF StartRec
<1>3. ASSUME NEW t \in Tasks PROVE InFlight(t)' <=> InFlight(t)
  BY <1>1, <1>2 DEF InFlight
<1>4. ASSUME NEW t \in Tasks, ~InFlight(t) PROVE Evaluators(t)' = Evaluators(t)
  <2>1. sess \in [Sessions -> SessRec] /\ sess[s].proc = "free" /\ sess[s].task = NoTask
    BY DEF Board, Typed, TypeOK, SpawnSucceeds, Reviewing, Calm, AtRest
  <2>2. st.task # t
    BY <1>1, <1>4 DEF InFlight
  <2>3. \A r \in Sessions \ {s} : sess'[r] = sess[r]
    BY <1>1, <2>1
  <2>4. sess'[s].task = st.task
    BY <1>1, <2>1 DEF NewSession
  <2>5. QED
    BY <2>1, <2>2, <2>3, <2>4, BoardAssumption DEF Evaluators
<1>5. ASSUME NEW t \in Tasks
      PROVE  Evaluators(t)' \ {s} \subseteq Evaluators(t)
  <2>1. \A r \in Sessions \ {s} : sess'[r] = sess[r]
    BY <1>1 DEF Board, Typed, TypeOK
  <2>2. QED
    BY <2>1 DEF Evaluators
<1> SUFFICES ASSUME NEW t \in Tasks PROVE Attempts(t)'
  BY DEF Counted
<1>t. Attempts(t) /\ Orderly(t) /\ Sound(task[t])
  BY TypedTasks DEF Counted, Reviewing, Board
<1>6. CASE ~InFlight(t)
  BY <1>t, <1>1, <1>3, <1>4, <1>6 DEF Attempts, Open, Judging
<1>7. CASE InFlight(t)
  <2>0. task[t].retry \in Nat
    BY <1>t DEF Sound, TaskRec, RetryMax
  <2>1. Cardinality(Evaluators(t)) \in Nat /\ Cardinality(Evaluators(t)) <= task[t].retry
    <3>1. st.session = NoSession
      BY <1>t, <1>1, <1>7 DEF Orderly, StartHolds
    <3>2. Evaluators(t) \ {st.session} = Evaluators(t)
      BY <3>1, BoardAssumption DEF Evaluators
    <3>3. QED
      BY <1>t, <1>7, <3>2, SomeSessions DEF Attempts, Evaluators
  <2>2. Cardinality(Evaluators(t)' \ {s}) <= task[t].retry
    <3>1. Evaluators(t)' \ {s} \in SUBSET Evaluators(t) /\ Evaluators(t) \in SUBSET Sessions
      BY <1>5 DEF Evaluators
    <3>2. Cardinality(Evaluators(t)' \ {s}) <= Cardinality(Evaluators(t))
      BY <3>1, FewerSessions
    <3>3. Cardinality(Evaluators(t)' \ {s}) \in Nat
      BY <3>1, SomeSessions
    <3>4. QED
      BY <2>0, <2>1, <3>2, <3>3
  <2>3. Cardinality(Evaluators(t)') <= task[t].retry + 1
    <3>1. Evaluators(t)' \in SUBSET Sessions
      BY DEF Evaluators
    <3>2. IsFiniteSet(Evaluators(t)') /\ Cardinality(Evaluators(t)') \in Nat
      BY <3>1, SomeSessions
    <3>3. Cardinality(Evaluators(t)') <= Cardinality(Evaluators(t)' \ {s}) + 1
      BY <3>1, OneFewer
    <3>4. Cardinality(Evaluators(t)' \ {s}) \in Nat
      BY SomeSessions DEF Evaluators
    <3>5. QED
      BY <2>0, <2>2, <3>2, <3>3, <3>4
  <2>4. t \notin tick.todo /\ st.retry = task[t].retry
    BY <1>t, <1>7 DEF Orderly, StartHolds, Attempts
  <2>5. InFlight(t)'
    BY <1>3, <1>7
  <2>6. QED
    BY <1>1, <1>2, <2>2, <2>3, <2>4, <2>5 DEF Attempts
<1>8. QED
  BY <1>6, <1>7

(* A start ends: its evaluator, if it has one, has taken up the review, or *)
(* the task is blocked.                                                    *)
LEMMA FinishAttempts ==
    ASSUME Board, Reviewing, Counted, NEW ok \in BOOLEAN, FinishStart("tick", ok)
    PROVE  Counted'
<1> DEFINE st == start["tick"]
<1>s. /\ start \in [Actors -> StartRec] /\ st \in StartRec /\ tick \in TickRec
      /\ task \in [Tasks -> TaskRec] /\ sess \in [Sessions -> SessRec]
  BY DEF Board, Typed, TypeOK, Actors
<1>1. /\ task' = [task EXCEPT ![st.task] = Started(@, st)] /\ st.pc = "configure"
      /\ start'["tick"].pc = "idle" /\ tick'.todo = tick.todo /\ tick'.snap = tick.snap
  BY <1>s DEF FinishStart, IdleStart, TickRec, Actors
<1>2. ASSUME NEW t \in Tasks PROVE Evaluators(t)' = Evaluators(t)
  <2>1. \A r \in Sessions : sess'[r].task = sess[r].task /\ sess'[r].role = sess[r].role
    <3> DEFINE mail == sess[st.session].mail \/ (ok /\ sess[st.session].proc = "running")
    <3>1. sess' = [sess EXCEPT ![st.session].mail = mail]
      BY DEF FinishStart
    <3> HIDE DEF mail
    <3>2. QED
      BY <1>s, <3>1 DEF SessRec
  <2>2. QED
    BY <2>1 DEF Evaluators
<1> SUFFICES ASSUME NEW t \in Tasks PROVE Attempts(t)'
  BY DEF Counted
<1>t. Attempts(t) /\ Orderly(t) /\ Sound(task[t])
  BY TypedTasks DEF Counted, Reviewing, Board
<1>3. ~InFlight(t)'
  BY <1>1 DEF InFlight
<1>4. CASE t # st.task
  <2>1. task'[t] = task[t] /\ ~InFlight(t)
    BY <1>s, <1>1, <1>4 DEF InFlight
  <2>2. QED
    BY <1>t, <1>1, <1>2, <1>3, <2>1 DEF Attempts, Open, Judging
<1>5. CASE t = st.task
  <2>1. InFlight(t) /\ task'[t] = Started(task[t], st)
    BY <1>s, <1>1, <1>5 DEF InFlight
  <2>2. /\ task'[t].retry = st.retry
        /\ task'[t].status = IF st.review THEN "review" ELSE "running"
        /\ task'[t].source = IF st.review THEN "evaluator" ELSE task[t].source
    BY <1>s, <1>t, <2>1, StartedFacts
  <2>3. /\ st.retry = task[t].retry /\ t \notin tick.todo
        /\ st.review <=> st.role = "evaluator"
        /\ st.review => t \in GoalTasks
        /\ sess[st.session].role = st.role
    BY <1>t, <1>1, <2>1 DEF Attempts, Orderly, StartHolds
  <2>4. ~st.review => Cardinality(Evaluators(t)) <= task[t].retry
    <3>1. ~st.review => Evaluators(t) \ {st.session} = Evaluators(t)
      BY <2>3 DEF Evaluators
    <3>2. QED
      BY <1>t, <2>1, <3>1 DEF Attempts
  <2>5. Open(t, task'[t]) => ~st.review
    BY <2>2, <2>3 DEF Open
  <2>6. QED
    BY <1>t, <1>1, <1>2, <1>3, <2>2, <2>3, <2>4, <2>5 DEF Attempts, Open
<1>6. QED
  BY <1>4, <1>5

LEMMA StartAttempts ==
    ASSUME Board, Reviewing, Counted, NEW a \in Actors, StartStep(a)
    PROVE  Counted'
<1>0. a = "tick"
  BY DEF StartStep, SpawnFails, SpawnSucceeds, FinishStart, Reviewing, Calm, Actors
<1>1. CASE SpawnFails("tick")
  <2>s. /\ start \in [Actors -> StartRec] /\ tick \in TickRec /\ task \in [Tasks -> TaskRec]
    BY DEF Board, Typed, TypeOK
  <2> SUFFICES ASSUME NEW t \in Tasks PROVE Attempts(t)'
    BY DEF Counted
  <2>t. Attempts(t) /\ Sound(task[t])
    BY TypedTasks DEF Counted, Board
  <2>1. IF t = start["tick"].task THEN task'[t] = Block(task[t], "scheduler")
                                  ELSE task'[t] = task[t]
    BY <2>s, <1>1 DEF SpawnFails, Fail
  <2>2. start'["tick"].pc = "idle" /\ tick'.todo = tick.todo /\ tick'.snap = tick.snap
    BY <2>s, <1>1 DEF SpawnFails, Fail, IdleStart, TickRec, Actors
  <2>3. Block(task[t], "scheduler").status = "blocked"
        /\ Block(task[t], "scheduler").retry = task[t].retry
    BY <2>s DEF Block, TaskRec
  <2>4. Tally(t, task'[t], task[t])
    BY <2>1, <2>3 DEF Tally, Open
  <2>5. InFlight(t) => ~Open(t, task'[t])
    BY <2>1, <2>3 DEF InFlight, Open
  <2>6. Evaluators(t)' = Evaluators(t)
    BY <1>1 DEF SpawnFails, Evaluators
  <2>7. Untried(t)
    BY <2>2, <2>4, <2>5, <2>6 DEF Untried, InFlight
  <2>8. QED
    BY <2>t, <2>7, UntriedKept
<1>2. QED
  BY <1>0, <1>1, SpawnAttempts, FinishAttempts DEF StartStep

-----------------------------------------------------------------------------
(* The steps of a tick *)

LEMMA PrepareAttempts ==
    ASSUME Board, Reviewing, Counted, PrepareTick
    PROVE  Counted'
<1>s. tick \in TickRec /\ task \in [Tasks -> TaskRec]
  BY DEF Board, Typed, TypeOK
<1>1. task' = [t \in Tasks |-> Revived(t)] /\ UNCHANGED <<sess, start>>
  BY DEF PrepareTick
<1> SUFFICES ASSUME NEW t \in Tasks PROVE Attempts(t)'
  BY DEF Counted
<1>t. Attempts(t) /\ Orderly(t) /\ Sound(task[t]) /\ ~task[t].waiting
  BY TypedTasks DEF Counted, Reviewing, Calm, Board
<1>2. Evaluators(t)' = Evaluators(t)
  BY <1>1 DEF Evaluators
<1>3. ~InFlight(t) /\ ~InFlight(t)'
  BY DEF PrepareTick, InFlight, Board, Phases
<1>4. /\ task'[t].status = task[t].status /\ task'[t].source = task[t].source
      /\ task'[t].retry = task[t].retry
  <2>1. task'[t] \in {task[t], [task[t] EXCEPT !.archived = FALSE]}
    BY <1>t, <1>1 DEF Revived, RunnerOfflineBlock
  <2>2. QED
    BY <1>s, <2>1 DEF TaskRec
<1>5. t \in tick'.todo => task'[t].status \in {"planning", "review"} /\ tick'.snap[t] = task'[t]
  <2> DEFINE todo == {u \in Tasks : /\ ~task'[u].archived
                                    /\ task'[u].status \in {"planning", "review"}}
             snap == [u \in Tasks |-> IF u \in todo THEN task'[u] ELSE NewTask(u)]
  <2>1. tick'.todo = todo /\ tick'.snap = snap
    BY <1>s, <1>1 DEF PrepareTick, TickRec
  <2>2. QED
    BY <2>1
<1>6. t \in tick'.todo /\ ~Judging(t, tick'.snap[t]) => Open(t, task[t])
  BY <1>t, <1>4, <1>5 DEF Judging, Open, Orderly, PlannedByOthers
<1>7. QED
  BY <1>t, <1>2, <1>3, <1>4, <1>6 DEF Attempts, Open, Judging

LEMMA ScanStartAttempts ==
    ASSUME Board, Reviewing, Counted, NEW u \in Tasks, ScanStart(u)
    PROVE  Counted'
<1>s. start \in [Actors -> StartRec] /\ tick \in TickRec
  BY DEF Board, Typed, TypeOK
<1>1. UNCHANGED <<task, sess>> /\ start["tick"].pc = "idle"
  BY CandidateFacts DEF ScanStart
<1>2. /\ start'["tick"].pc = "spawn" /\ start'["tick"].task = u
      /\ start'["tick"].session = NoSession /\ start'["tick"].retry = task[u].retry
  BY <1>s DEF ScanStart, BeginStart, Actors
<1>3. tick'.todo = tick.todo \ {u} /\ \A v \in Tasks \ {u} : tick'.snap[v] = tick.snap[v]
  <2> DEFINE new == Passed(u, TRUE)
  <2>1. new.todo = tick.todo \ {u} /\ \A v \in Tasks \ {u} : new.snap[v] = tick.snap[v]
    BY PassedFacts
  <2>2. tick' = [new EXCEPT !.pc = "await"] /\ new \in TickRec
    BY <1>s, PassedType DEF ScanStart
  <2> HIDE DEF new
  <2>3. QED
    BY <2>1, <2>2 DEF TickRec
<1> SUFFICES ASSUME NEW t \in Tasks PROVE Attempts(t)'
  BY DEF Counted
<1>t. Attempts(t)
  BY DEF Counted
<1>4. Evaluators(t)' = Evaluators(t) /\ ~InFlight(t)
  BY <1>1 DEF Evaluators, InFlight
<1>5. CASE t # u
  BY <1>t, <1>1, <1>2, <1>3, <1>4, <1>5 DEF Attempts, InFlight, Open, Judging
<1>6. CASE t = u
  <2>1. t \in tick.todo /\ ~Judging(t, tick.snap[t])
    BY <1>6 DEF ScanStart, Candidate, Eligible, AutoRunnable, Judging
  <2>2. Cardinality(Evaluators(t)) <= task[t].retry
    BY <1>t, <2>1 DEF Attempts
  <2>3. Evaluators(t) \ {NoSession} = Evaluators(t)
    BY BoardAssumption DEF Evaluators
  <2>4. InFlight(t)' /\ t \notin tick'.todo
    BY <1>2, <1>3, <1>6 DEF InFlight
  <2>5. QED
    BY <1>t, <1>1, <1>2, <1>4, <1>6, <2>2, <2>3, <2>4 DEF Attempts
<1>7. QED
  BY <1>5, <1>6

LEMMA TickAttempts ==
    ASSUME Board, Reviewing, Counted, TickStep
    PROVE  Counted'
<1>n. [Next]_vars
  BY DEF Next
<1>0. \A u \in Tasks : ~ScanOffline(u)
  BY DEF ScanOffline, Reviewing, Calm
<1>1. CASE PrepareTick
  BY <1>1, PrepareAttempts
<1>2. CASE \E u \in Tasks : ScanStart(u)
  BY <1>2, ScanStartAttempts
<1>3. ASSUME NEW t \in Tasks, Tally(t, task'[t], task[t]), UNCHANGED start,
             t \in tick'.todo => t \in tick.todo /\ tick'.snap[t] = tick.snap[t]
      PROVE  Attempts(t)'
  <2>1. ASSUME NEW s \in Evaluators(t)' PROVE s \in Evaluators(t)
    <3>1. s \in Sessions
      BY DEF Evaluators
    <3>2. QED
      BY <1>n, <1>3, <3>1, NoSpawn, EvaluatorsKept
  <2>2. Untried(t)
    BY <1>3, <2>1 DEF Untried, InFlight
  <2>3. QED
    BY <2>2, UntriedKept DEF Counted
<1>4. CASE StartTick \/ FinishTick
  <2>1. UNCHANGED <<task, start, sess>> /\ tick'.todo = {}
    <3>1. CASE StartTick
      <4>1. tick' \in {[IdleTick EXCEPT !.pc = pc, !.auto = autoRun] : pc \in {"enter", "scan"}}
        BY <3>1 DEF StartTick
      <4>2. QED
        BY <3>1, <4>1 DEF StartTick, IdleTick
    <3>2. CASE FinishTick
      BY <3>2 DEF FinishTick, IdleTick
    <3>3. QED
      BY <1>4, <3>1, <3>2
  <2>2. QED
    BY <1>3, <2>1 DEF Tally, Counted
<1>5. ASSUME NEW u \in Tasks, ScanSkip(u) \/ ScanContinue(u), NEW t \in Tasks
      PROVE  Attempts(t)'
  <2>t. task \in [Tasks -> TaskRec] /\ Sound(task[t])
    BY TypedTasks DEF Board, Typed, TypeOK
  <2>1. UNCHANGED start /\ (t \in tick'.todo => t \in tick.todo /\ tick'.snap[t] = tick.snap[t])
    BY <1>5, PassedKeeps DEF ScanSkip, ScanContinue
  <2>2. Tally(t, task'[t], task[t])
    <3>1. \/ task'[t] = task[t]
          \/ task'[t] = Continued(task[t], task[t].session) /\ task[t].status = "planning"
      BY <2>t, <1>5 DEF ScanSkip, ScanContinue, Continuable
    <3>2. Continued(task[t], task[t].session).source = task[t].source
          /\ Continued(task[t], task[t].session).retry = task[t].retry
      BY <2>t DEF Continued, SetStatus, TaskRec
    <3>3. QED
      BY <3>1, <3>2 DEF Tally, Open
  <2>3. QED
    BY <1>3, <2>1, <2>2
<1>6. QED
  BY <1>0, <1>1, <1>2, <1>4, <1>5 DEF TickStep, Counted

LEMMA CountedStep ==
    ASSUME Unattended, NoneSentBack, Board, PacketsKnown, Reviewing, Counted, [Next]_vars
    PROVE  Counted'
<1>1. CASE UNCHANGED vars
  BY <1>1 DEF vars, Counted, Attempts, Evaluators, InFlight, Open, Judging
<1>2. QED
  BY <1>1, SessionAttempts, StartAttempts, TickAttempts, UserAttempts, HubAttempts DEF Next

(* A bounded number of evaluators: where no verdict sends a task back, two *)
(* at most are started for it, whatever they report, whether they die, are *)
(* interrupted or cannot be spawned.                                       *)
THEOREM BoardAttempts ==
    ASSUME Unattended, NoneSentBack
    PROVE  Spec => []EvaluatorAttemptsBounded
<1>1. Init => Counted
  <2> SUFFICES ASSUME Init, NEW t \in Tasks PROVE Attempts(t)
    BY DEF Counted
  <2>1. Evaluators(t) = {}
    BY BoardAssumption DEF Init, InitFrom, NewSession, Evaluators
  <2>2. Cardinality(Evaluators(t)) = 0
    BY <2>1, FS_EmptySet
  <2>3. task[t].retry = 0 /\ tick.todo = {} /\ start["tick"].pc = "idle"
    BY DEF Init, InitFrom, NewTask, IdleTick, IdleStart, Actors
  <2>4. QED
    BY <2>2, <2>3 DEF Attempts, InFlight
<1>2. Board /\ PacketsKnown /\ Reviewing /\ Counted /\ [Next]_vars => Counted'
  BY CountedStep
<1>3. Board /\ Counted => EvaluatorAttemptsBounded
  <2> SUFFICES ASSUME Board, Counted, NEW t \in Tasks
               PROVE  Cardinality(Evaluators(t)) <= RetryMax + 1
    BY DEF EvaluatorAttemptsBounded, Evaluators
  <2>1. task[t].retry \in {0, 1}
    BY TypedTasks DEF Board, Sound, TaskRec, RetryMax
  <2>2. Cardinality(Evaluators(t)) <= task[t].retry + 1
    BY DEF Counted, Attempts
  <2>3. Cardinality(Evaluators(t)) \in Nat
    BY SomeSessions DEF Evaluators
  <2>4. QED
    BY <2>1, <2>2, <2>3 DEF RetryMax
<1>4. QED
  BY <1>1, <1>2, <1>3, BoardFacts, BoardPackets, BoardReviewing, PTL DEF Spec, Safety
=============================================================================
