--------------------------- MODULE TaskMergeProofs ---------------------------
(* Proofs about TaskMerge, for every workflow, bound and scene.            *)
EXTENDS TaskMerge, TLAPS

-----------------------------------------------------------------------------
(* Rows and locals                                                         *)

Runtimes == {"none", "active", "blocked", "canceled", "succeeded"}
Pcs == {"idle", "load", "state", "free", "merge", "answer", "repair", "persist", "cleanup", "kill"}
Outs == {"none", "success", "conflict", "blocked"}

LEMMA RowParts ==
    ASSUME NEW row \in Task
    PROVE  row.merged \in BOOLEAN /\ row.rt \in Runtimes /\ row.retry \in Nat
BY DEF Task, Runtimes

LEMMA SnapTyped ==
    ASSUME NEW row \in Task
    PROVE  /\ Snapshot(row) \in Snap /\ Snapshot(row).retry = row.retry
           /\ Read(row) \in Snap /\ Read(row).retry = row.retry
<1>1. Finishes(row) \in BOOLEAN /\ (row.rt \in {"blocked", "canceled"}) \in BOOLEAN
  BY DEF Finishes
<1>2. row.merged \in BOOLEAN /\ row.retry \in Nat
  BY RowParts
<1> DEFINE s == Snapshot(row)
<1>3. s \in Snap /\ s.retry = row.retry
  BY <1>1, <1>2 DEF Snapshot, Snap
<1>4. [s EXCEPT !.again = FALSE, !.merged = FALSE] \in Snap
      /\ [s EXCEPT !.again = FALSE, !.merged = FALSE].retry = s.retry
  <2> HIDE DEF s
  <2> QED BY <1>3 DEF Snap
<1>5. QED
  BY <1>3, <1>4 DEF Read

LEMMA RetryTyped ==
    ASSUME NEW snap \in Snap
    PROVE  Retry(snap) \in Nat /\ Retry(snap) >= snap.retry /\ snap.retry \in Nat
BY DEF Retry, Snap

LEMMA IdleTyped == Idle \in LoopState /\ Idle.pc = "idle"
BY DEF Idle, LoopState, NoSnap, Snap

LEMMA LoopParts ==
    ASSUME NEW p \in LoopState
    PROVE  p.pc \in Pcs /\ p.out \in Outs /\ p.repairs \in Nat /\ p.snap \in Snap
BY DEF LoopState, Pcs, Outs

LEMMA Becomes ==
    ASSUME proc \in [Loops -> LoopState], NEW l \in Loops, NEW p \in LoopState, Become(l, p)
    PROVE  proc' \in [Loops -> LoopState] /\ proc'[l] = p /\ \A k \in Loops \ {l} : proc'[k] = proc[k]
BY DEF Become

-----------------------------------------------------------------------------
(* The inductive invariant.  An active runtime is attended by a loop that  *)
(* will write the row again; who goes on as if all had landed is right;    *)
(* and no copy of the count, wherever it is kept, is behind the history.   *)
Attends(l, p) ==
    \/ l = "auto" /\ p.pc \in {"load", "state", "merge", "answer", "repair", "persist"}
    \/ l = "route" /\ p.pc \in {"merge", "answer", "persist"}
    \/ l = "monitor" /\ p.pc \in {"load", "free", "state", "merge", "answer", "repair", "persist"}
Attended == task.rt = "active" => adrift \/ \E l \in Loops : Attends(l, proc[l])

Uncrowded == ~crowd => ~Crowded

Whole == repo.landed = repo.src
Trusts(p) == p.pc \in {"persist", "cleanup"} \/ (p.pc = "answer" /\ p.out = "success")
Landed == ~crowd => (~repo.tree => Whole) /\ \A l \in Loops : Trusts(proc[l]) => Whole

Counts(l, p) == p.pc # "idle" /\ ~(l = "monitor" /\ p.pc \in {"free", "repair"})
Counted ==
    ~crowd =>
        /\ asks <= MaxAttempts /\ asks <= task.retry
        /\ \A n \in cancel : asks <= n
        /\ \A l \in Loops : Counts(l, proc[l]) =>
              asks <= proc[l].snap.retry /\ (l = "auto" => asks <= proc[l].repairs)

Inv == TypeOK /\ Attended /\ Uncrowded /\ Landed /\ Counted

LEMMA Noted ==
    ASSUME crowd \in BOOLEAN, NoteCrowd
    PROVE  crowd' \in BOOLEAN /\ (crowd => crowd') /\ Uncrowded'
<1>1. Crowded' \in BOOLEAN
  BY Zenon DEF Crowded
<1>2. QED
  BY <1>1 DEF NoteCrowd, Uncrowded

Sess == [active : BOOLEAN, busy : BOOLEAN, asked : SUBSET {"auto", "monitor", "user"}]
Repo == [src : 0..MaxWork, base : 0..MaxWork, landed : 0..MaxWork, clash : BOOLEAN, tree : BOOLEAN]

LEMMA TypeParts ==
    ASSUME TypeOK
    PROVE  /\ task \in Task /\ sess \in Sess /\ repo \in Repo /\ proc \in [Loops -> LoopState]
           /\ cancel \in SUBSET Nat /\ asks \in Nat /\ asks <= MaxAttempts + 1
           /\ adrift \in BOOLEAN /\ crowd \in BOOLEAN /\ left \in Scene
           /\ repo.base <= repo.landed /\ repo.landed <= repo.src
           /\ MaxAttempts \in Nat /\ MaxWork \in Nat
BY BoundsAssumption DEF TypeOK, Sess, Repo

(* A step in which one loop goes on and the counts are kept.  What remains *)
(* to be shown of an action is what it does to that loop.                  *)
LEMMA LoopStep ==
    ASSUME Inv, NoteCrowd, NEW l \in Loops, NEW p \in LoopState, Become(l, p),
           task' \in Task, sess' \in Sess, repo' \in Repo, adrift' \in BOOLEAN, left' \in Scene,
           UNCHANGED <<cancel, asks>>,
           repo'.base <= repo'.landed, repo'.landed <= repo'.src,
           Whole => Whole',
           ~crowd /\ ~repo'.tree => Whole',
           ~crowd /\ Trusts(p) => Whole',
           \/ task'.rt # "active" \/ adrift' \/ Attends(l, p)
           \/ task'.rt = task.rt /\ adrift' = adrift /\ ~Attends(l, proc[l]),
           ~crowd => task'.retry >= asks,
           ~crowd /\ Counts(l, p) => asks <= p.snap.retry /\ (l = "auto" => asks <= p.repairs)
    PROVE  Inv'
<1> USE DEF Inv
<1>1. proc' \in [Loops -> LoopState] /\ proc'[l] = p /\ \A k \in Loops \ {l} : proc'[k] = proc[k]
  BY TypeParts, Becomes
<1>2. crowd' \in BOOLEAN /\ (crowd => crowd') /\ Uncrowded'
  BY TypeParts, Noted
<1>3. TypeOK'
  BY <1>1, <1>2, TypeParts DEF TypeOK, Sess, Repo
<1>4. Attended'
  BY <1>1 DEF Attended
<1>5. Landed'
  BY <1>1, <1>2 DEF Landed
<1>6. Counted'
  BY <1>1, <1>2, TypeParts, <1>3, RowParts DEF Counted
<1>7. QED
  BY <1>2, <1>3, <1>4, <1>5, <1>6

(* A step in which no loop takes part. *)
LEMMA QuietStep ==
    ASSUME Inv, NoteCrowd, UNCHANGED <<proc, asks, adrift>>,
           task' \in Task, sess' \in Sess, repo' \in Repo, cancel' \in SUBSET Nat, left' \in Scene,
           repo'.base <= repo'.landed, repo'.landed <= repo'.src,
           \/ crowd' \/ (Whole => Whole')
           \/ repo.tree /\ \A l \in Loops : ~Trusts(proc[l]),
           repo'.tree = repo.tree,
           task'.rt # "active" \/ task'.rt = task.rt,
           ~crowd => task'.retry >= asks /\ \A n \in cancel' : asks <= n
    PROVE  Inv'
<1> USE DEF Inv
<1>1. crowd' \in BOOLEAN /\ (crowd => crowd') /\ Uncrowded'
  BY TypeParts, Noted
<1>2. TypeOK'
  BY <1>1, TypeParts DEF TypeOK, Sess, Repo
<1>3. Attended'
  BY DEF Attended
<1>4. Landed'
  BY <1>1 DEF Landed
<1>5. Counted'
  BY <1>1, <1>2, TypeParts, RowParts DEF Counted
<1>6. QED
  BY <1>1, <1>2, <1>3, <1>4, <1>5

LEMMA BlockStep ==
    ASSUME Inv, NoteCrowd, NEW l \in Loops, Block(l), Counts(l, proc[l]),
           UNCHANGED <<sess, repo, cancel, asks, adrift, left>>
    PROVE  Inv'
<1> DEFINE n == Retry(proc[l].snap)
<1>1. n \in Nat /\ n >= proc[l].snap.retry /\ proc[l].snap.retry \in Nat
  BY TypeParts, LoopParts, RetryTyped DEF Inv
<1>2. task' \in Task /\ task'.rt = "blocked" /\ task'.retry = n
  <2>1. task' = WithRuntime(task, "blocked", n)
    BY DEF Block
  <2> HIDE DEF n
  <2> QED BY <1>1, <2>1, TypeParts DEF Inv, WithRuntime, Task
<1>3. Become(l, Idle) /\ Idle \in LoopState /\ ~Trusts(Idle) /\ ~Counts(l, Idle)
  BY IdleTyped DEF Block, End, Trusts, Counts, Idle
<1>4. ~crowd => asks <= proc[l].snap.retry
  BY DEF Inv, Counted
<1>5. ~crowd /\ ~repo.tree => Whole
  BY DEF Inv, Landed
<1> HIDE DEF n
<1>6. ~crowd => task'.retry >= asks
  BY <1>1, <1>2, <1>4, TypeParts DEF Inv
<1>7. QED
  BY <1>2, <1>3, <1>5, <1>6, LoopStep, TypeParts DEF Inv, Whole

(* A request for the auto-merge, perhaps with the end of a turn. *)
LEMMA RequestStep ==
    ASSUME Inv, NoteCrowd, NEW row \in Task, row.retry = task.retry, row.rt = task.rt, RequestAuto(row),
           sess' \in Sess, repo' \in Repo, repo'.base <= repo'.landed,
           repo'.src = repo.src, repo'.landed = repo.landed, repo'.tree = repo.tree,
           UNCHANGED <<cancel, asks, left>>
    PROVE  Inv'
<1> USE DEF Inv
<1>1. repo'.landed <= repo'.src /\ (Whole => Whole') /\ (~crowd /\ ~repo'.tree => Whole')
  BY TypeParts DEF Whole, Landed
<1>2. row.retry \in Nat /\ task.retry \in Nat /\ (~crowd => asks <= task.retry)
  BY TypeParts, RowParts DEF Counted
<1>3. CASE proc["auto"].pc = "idle" /\ Candidate(row)
  <2> DEFINE n == row.retry
             p == [Idle EXCEPT !.pc = "load", !.repairs = n, !.snap = [NoSnap EXCEPT !.retry = n]]
  <2>1. task' = WithRuntime(row, "active", n) /\ Become("auto", p) /\ adrift' = FALSE
    BY <1>3 DEF RequestAuto
  <2>2. task' \in Task /\ task'.retry = n
    BY <2>1, <1>2 DEF WithRuntime, Task
  <2>3. p \in LoopState /\ p.pc = "load" /\ p.repairs = n /\ p.snap.retry = n
    <3> HIDE DEF n
    <3>1. n \in Nat
      BY <1>2 DEF n
    <3>2. QED
      BY <3>1 DEF Idle, NoSnap, LoopState, Snap
  <2> HIDE DEF p
  <2>4. Attends("auto", p) /\ ~Trusts(p)
    BY <2>3 DEF Attends, Trusts
  <2>5. "auto" \in Loops
    BY DEF Loops
  <2>6. QED
    BY <1>1, <1>2, <2>1, <2>2, <2>3, <2>4, <2>5, LoopStep, TypeParts
<1>4. CASE ~(proc["auto"].pc = "idle" /\ Candidate(row))
  <2>1. task' = row /\ UNCHANGED <<proc, adrift>>
    BY <1>4 DEF RequestAuto
  <2>2. \A n \in cancel' : ~crowd => asks <= n
    BY DEF Counted
  <2>3. QED
    BY <1>1, <1>2, <2>1, <2>2, QuietStep, TypeParts
<1>5. QED
  BY <1>3, <1>4

(* A user's merge that is left to the monitor. *)
LEMMA ScheduledStep ==
    ASSUME Inv, NoteCrowd, NEW pc \in {"free", "repair"}, NEW n \in Nat, NEW m \in Nat,
           proc' = Scheduled(pc, n), task' = WithRuntime(task, "active", m), ~crowd => m >= asks,
           adrift' = LeftToNobody, sess' \in Sess, UNCHANGED <<repo, cancel, asks, left>>
    PROVE  Inv'
<1> USE DEF Inv
<1>1. task' \in Task /\ task'.retry = m
  BY TypeParts DEF WithRuntime, Task
<1>2. crowd' \in BOOLEAN /\ (crowd => crowd') /\ Uncrowded'
  BY TypeParts, Noted
<1> DEFINE q == [Idle EXCEPT !.pc = pc, !.repairs = n]
<1>3. q \in LoopState /\ q.pc = pc
  BY DEF Idle, NoSnap, LoopState, Snap
<1>4. /\ proc' \in [Loops -> LoopState]
      /\ proc'["route"] = Idle /\ proc'["auto"] = proc["auto"]
      /\ \/ proc["monitor"].pc # "idle" /\ proc'["monitor"] = proc["monitor"]
         \/ proc["monitor"].pc = "idle" /\ proc'["monitor"] = q
  <2> HIDE DEF q
  <2>1. Idle \in LoopState
    BY IdleTyped
  <2>2. CASE proc["monitor"].pc # "idle"
    <3>1. proc' = [proc EXCEPT !["route"] = Idle]
      BY <2>2 DEF Scheduled
    <3>2. QED
      BY <2>1, <2>2, <3>1, TypeParts DEF Loops
  <2>3. CASE proc["monitor"].pc = "idle"
    <3>1. proc' = [[proc EXCEPT !["route"] = Idle] EXCEPT !["monitor"] = q]
      BY <2>3 DEF Scheduled, q
    <3>2. QED
      BY <1>3, <2>1, <2>3, <3>1, TypeParts DEF Loops
  <2>4. QED
    BY <2>2, <2>3
<1> HIDE DEF q
<1>5. Idle.pc = "idle" /\ \A l \in Loops : l \in {"auto", "route", "monitor"}
  BY IdleTyped DEF Loops
<1>6. adrift' \in BOOLEAN
  BY DEF LeftToNobody
<1>7. TypeOK'
  BY <1>1, <1>2, <1>4, <1>6, TypeParts DEF TypeOK, Sess, Repo
<1>8. Attended'
  <2>1. proc'["monitor"].pc \in Pcs /\ "monitor" \in Loops
    BY <1>4, LoopParts DEF Loops
  <2>2. CASE LeftToNobody
    BY <2>2 DEF Attended
  <2>3. CASE ~LeftToNobody
    <3>1. Attends("monitor", proc'["monitor"]) \/ proc'["monitor"].pc = "idle"
      BY <1>3, <1>4, <2>1, <2>3 DEF LeftToNobody, Attends, Pcs
    <3>2. proc'["monitor"].pc # "idle"
      BY <1>3, <1>4
    <3>3. QED
      BY <2>1, <3>1, <3>2 DEF Attended
  <2>4. QED
    BY <2>2, <2>3
<1>9. \A l \in Loops : \/ proc'[l] = proc[l]
                       \/ ~Trusts(proc'[l]) /\ ~Counts(l, proc'[l])
  BY <1>3, <1>4, <1>5 DEF Trusts, Counts, Loops
<1>10. Landed'
  BY <1>2, <1>9 DEF Landed, Whole
<1>11. Counted'
  BY <1>1, <1>2, <1>9, TypeParts DEF Counted
<1>12. QED
  BY <1>2, <1>7, <1>8, <1>10, <1>11

-----------------------------------------------------------------------------
(* The steps of the loops *)

(* What a loop at work knows. *)
LEMMA Known ==
    ASSUME Inv, NEW l \in Loops
    PROVE  /\ proc[l] \in LoopState /\ proc[l].snap \in Snap /\ proc[l].snap.retry \in Nat /\ proc[l].repairs \in Nat
           /\ task.retry \in Nat /\ (~crowd => asks <= task.retry /\ asks <= MaxAttempts)
           /\ ~crowd /\ Counts(l, proc[l]) => asks <= proc[l].snap.retry /\ (l = "auto" => asks <= proc[l].repairs)
           /\ ~crowd /\ Trusts(proc[l]) => Whole
           /\ ~crowd /\ ~repo.tree => Whole
BY TypeParts, LoopParts, RetryTyped, RowParts DEF Inv, Counted, Landed

LEMMA GotoLocals ==
    ASSUME NEW p \in LoopState, NEW pc \in Pcs
    PROVE  LET q == [p EXCEPT !.pc = pc]
           IN q \in LoopState /\ q.pc = pc /\ q.out = p.out /\ q.repairs = p.repairs /\ q.snap = p.snap
BY DEF LoopState, Pcs

(* A loop goes on, and nothing else happens that matters. *)
LEMMA GotoStep ==
    ASSUME Inv, NoteCrowd, NEW l \in Loops, NEW pc \in Pcs \ {"idle", "persist", "cleanup", "answer"}, Goto(l, pc),
           task' \in Task, sess' \in Sess, task'.rt = task.rt, task'.retry = task.retry,
           UNCHANGED <<repo, cancel, asks, adrift, left>>,
           Counts(l, proc[l]), Attends(l, proc[l]) => Attends(l, [proc[l] EXCEPT !.pc = pc])
    PROVE  Inv'
<1> DEFINE p == [proc[l] EXCEPT !.pc = pc]
<1>1. p \in LoopState /\ p.pc = pc /\ p.repairs = proc[l].repairs /\ p.snap = proc[l].snap
  BY Known, GotoLocals
<1>2. Become(l, p)
  BY DEF Goto
<1>3. Attends(l, proc[l]) => Attends(l, p)
  OBVIOUS
<1> HIDE DEF p
<1>4. ~Trusts(p)
  BY <1>1 DEF Trusts
<1>5. QED
  BY <1>1, <1>2, <1>3, <1>4, Known, LoopStep, TypeParts DEF Inv, Whole

LEMMA EndStep ==
    ASSUME Inv, NoteCrowd, NEW l \in Loops, End(l),
           task' \in Task, sess' \in Sess, adrift' \in BOOLEAN, UNCHANGED <<repo, cancel, asks, left>>,
           \/ task'.rt # "active" \/ adrift'
           \/ task'.rt = task.rt /\ adrift' = adrift /\ ~Attends(l, proc[l]),
           ~crowd => task'.retry >= asks
    PROVE  Inv'
<1>1. Become(l, Idle) /\ Idle \in LoopState /\ ~Trusts(Idle) /\ ~Counts(l, Idle)
  BY IdleTyped DEF End, Trusts, Counts, Idle
<1>2. QED
  BY <1>1, Known, LoopStep, TypeParts DEF Inv, Whole

LEMMA LoadStep == ASSUME Inv, NEW l \in Loops, Load(l), NoteCrowd PROVE Inv'
<1>1. Counts(l, proc[l]) /\ proc[l].pc = "load"
  BY DEF Load, Counts
<1>2. CASE sess' = [sess EXCEPT !.active = @ \/ l = "route"] /\ Goto(l, "state") /\ UNCHANGED task
  <2>1. sess' \in Sess
    BY <1>2, TypeParts DEF Inv, Sess
  <2>2. Attends(l, proc[l]) => Attends(l, [proc[l] EXCEPT !.pc = "state"])
    BY <1>1, Known, GotoLocals DEF Attends, Pcs
  <2>3. QED
    BY <1>1, <1>2, <2>1, <2>2, GotoStep, TypeParts DEF Load, Pcs, Inv
<1>3. CASE Block(l) /\ UNCHANGED sess
  BY <1>1, <1>3, BlockStep DEF Load
<1>4. CASE l = "route" /\ End(l) /\ UNCHANGED <<task, sess>>
  BY <1>1, <1>4, EndStep, TypeParts, Known DEF Load, Attends, Inv
<1>5. QED
  BY <1>2, <1>3, <1>4 DEF Load

LEMMA SkipStep == ASSUME Inv, NoteCrowd, proc["auto"].pc = "state", SkipAuto, Whole,
                         UNCHANGED <<sess, repo, cancel, asks, adrift, left>>
                  PROVE  Inv'
<1> DEFINE p == [proc["auto"] EXCEPT !.pc = "cleanup"]
<1>1. "auto" \in Loops /\ Counts("auto", proc["auto"])
  BY DEF Loops, Counts
<1>2. p \in LoopState /\ p.pc = "cleanup" /\ p.repairs = proc["auto"].repairs /\ p.snap = proc["auto"].snap
  BY <1>1, Known, GotoLocals DEF Pcs
<1>3. Become("auto", p)
  BY DEF SkipAuto, Goto
<1>4. task' \in Task /\ task'.rt = "succeeded" /\ task'.retry = proc["auto"].snap.retry
  <2> DEFINE n == proc["auto"].snap.retry
  <2>1. task' = [status |-> "done", merged |-> FALSE, rt |-> "succeeded", retry |-> n] /\ n \in Nat
    BY <1>1, Known DEF SkipAuto
  <2> HIDE DEF n
  <2>2. task' \in Task /\ task'.rt = "succeeded" /\ task'.retry = n
    BY <2>1 DEF Task
  <2>3. QED
    BY <2>2 DEF n
<1> HIDE DEF p
<1>5. QED
  BY <1>1, <1>2, <1>3, <1>4, Known, LoopStep, TypeParts DEF Inv, Whole

LEMMA NothingToMerge == ASSUME TypeOK, ~Mergeable PROVE Whole
<1>1. repo.src \in Nat /\ repo.base \in Nat /\ repo.landed \in Nat
  BY TypeParts DEF Repo
<1>2. QED
  BY <1>1, TypeParts DEF Mergeable, Whole

LEMMA AutoStateStep == ASSUME Inv, AutoState, NoteCrowd PROVE Inv'
<1>1. "auto" \in Loops /\ Counts("auto", proc["auto"]) /\ proc["auto"].pc = "state"
  BY DEF AutoState, Loops, Counts
<1>2. CASE Block("auto")
  BY <1>1, <1>2, BlockStep DEF AutoState
<1>3. CASE Goto("auto", "merge") /\ UNCHANGED task
  <2>1. Attends("auto", [proc["auto"] EXCEPT !.pc = "merge"])
    BY <1>1, Known, GotoLocals DEF Attends, Pcs
  <2>2. QED
    BY <1>1, <1>3, <2>1, GotoStep, TypeParts DEF AutoState, Pcs, Inv
<1>4. CASE ~Mergeable /\ SkipAuto
  BY <1>1, <1>4, NothingToMerge, SkipStep DEF AutoState, Inv
<1>5. QED
  BY <1>2, <1>3, <1>4 DEF AutoState

LEMMA RouteStateStep == ASSUME Inv, RouteState, NoteCrowd PROVE Inv'
<1> DEFINE snap == proc["route"].snap
<1>1. /\ "route" \in Loops /\ Counts("route", proc["route"]) /\ proc["route"].pc = "state"
      /\ UNCHANGED <<sess, repo, cancel, asks, left>>
  BY DEF RouteState, Loops, Counts
<1>2. Retry(snap) \in Nat /\ Retry(snap) >= snap.retry /\ snap.retry \in Nat /\ (~crowd => asks <= snap.retry)
  BY <1>1, Known, RetryTyped
<1>3. sess' \in Sess
  BY <1>1, TypeParts DEF Inv
<1>4. ~crowd => Retry(snap) >= asks
  BY <1>2, TypeParts DEF Inv
<1>5. CASE Block("route") /\ UNCHANGED adrift
  BY <1>1, <1>5, BlockStep
<1>6. CASE ~Mergeable /\ Goto("route", "persist") /\ UNCHANGED <<task, adrift>>
  <2> DEFINE p == [proc["route"] EXCEPT !.pc = "persist"]
  <2>1. p \in LoopState /\ p.pc = "persist" /\ p.repairs = proc["route"].repairs /\ p.snap = snap
    BY <1>1, Known, GotoLocals DEF Pcs
  <2>2. Become("route", p) /\ Whole
    BY <1>6, NothingToMerge DEF Goto, Inv
  <2> HIDE DEF p
  <2>3. Attends("route", p)
    BY <2>1 DEF Attends
  <2>4. QED
    BY <1>1, <1>2, <1>6, <2>1, <2>2, <2>3, Known, LoopStep, TypeParts DEF Inv, Whole
<1>7. CASE task' = WithRuntime(task, "succeeded", snap.retry) /\ End("route") /\ UNCHANGED adrift
  <2> DEFINE n == snap.retry
  <2>1. task' = WithRuntime(task, "succeeded", n) /\ n \in Nat /\ (~crowd => asks <= n)
    BY <1>2, <1>7
  <2> HIDE DEF n
  <2>2. task' \in Task /\ task'.rt = "succeeded" /\ task'.retry = n
    BY <2>1, TypeParts DEF Inv, WithRuntime, Task
  <2>3. QED
    BY <1>1, <1>3, <1>7, <2>1, <2>2, EndStep, TypeParts DEF Inv
<1>8. CASE task' = WithRuntime(task, "active", Retry(snap)) /\ proc' = Scheduled("free", 0) /\ adrift' = LeftToNobody
  <2> DEFINE n == Retry(snap)
  <2>1. n \in Nat /\ (~crowd => n >= asks)
    BY <1>2, <1>4
  <2>2. task' = WithRuntime(task, "active", n)
    BY <1>8
  <2> HIDE DEF n
  <2>3. QED
    BY <1>1, <1>3, <1>8, <2>1, <2>2, ScheduledStep
<1>9. CASE /\ task' = WithRuntime(task, "active", Retry(snap))
           /\ Become("route", [proc["route"] EXCEPT !.pc = "merge",
                                  !.snap = [NoSnap EXCEPT !.fin = TRUE, !.retry = Retry(snap)]])
           /\ adrift' = FALSE
  <2> DEFINE n == Retry(snap)
             p == [proc["route"] EXCEPT !.pc = "merge", !.snap = [NoSnap EXCEPT !.fin = TRUE, !.retry = n]]
             old == proc["route"]
  <2>1. n \in Nat /\ (~crowd => n >= asks)
    BY <1>2, <1>4
  <2>2. task' = WithRuntime(task, "active", n) /\ Become("route", p)
    BY <1>9
  <2>3. old \in LoopState
    BY <1>1, Known
  <2> HIDE DEF n, old
  <2>4. p = [old EXCEPT !.pc = "merge", !.snap = [NoSnap EXCEPT !.fin = TRUE, !.retry = n]]
    BY DEF old
  <2> HIDE DEF p
  <2>5. p \in LoopState /\ p.pc = "merge" /\ p.snap.retry = n
    BY <2>1, <2>3, <2>4 DEF LoopState, NoSnap, Snap
  <2>6. task' \in Task /\ task'.retry = n
    BY <2>1, <2>2, TypeParts DEF Inv, WithRuntime, Task
  <2>7. Attends("route", p) /\ ~Trusts(p)
    BY <2>5 DEF Attends, Trusts
  <2>8. QED
    BY <1>1, <1>9, <2>1, <2>2, <2>5, <2>6, <2>7, Known, LoopStep, TypeParts DEF Inv, Whole
<1>10. QED
  BY <1>5, <1>6, <1>7, <1>8, <1>9 DEF RouteState

(* The end of a wait of the monitor: the merge was canceled, the session   *)
(* is free, or inactive, or the wait ran out.                              *)
LEMMA WaitStep ==
    ASSUME Inv, NoteCrowd, NEW pc \in {"free", "repair"}, NEW to \in {"state", "merge"},
           proc["monitor"].pc = pc, UNCHANGED <<sess, repo, cancel, asks, left>>,
           \/ task.rt = "canceled" /\ End("monitor") /\ UNCHANGED <<task, adrift>>
           \/ /\ Become("monitor", [proc["monitor"] EXCEPT !.pc = to, !.snap = Read(task)])
              /\ UNCHANGED <<task, adrift>>
           \/ task' = WithRuntime(task, "blocked", task.retry) /\ End("monitor") /\ UNCHANGED adrift
           \/ task' = WithRuntime(task, "active", task.retry) /\ End("monitor") /\ adrift' = TRUE
    PROVE  Inv'
<1>1. "monitor" \in Loops /\ task.retry \in Nat /\ (~crowd => asks <= task.retry)
  BY Known DEF Loops
<1>2. sess' \in Sess /\ adrift \in BOOLEAN /\ task \in Task
  BY TypeParts DEF Inv
<1>3. CASE task.rt = "canceled" /\ End("monitor") /\ UNCHANGED <<task, adrift>>
  BY <1>1, <1>2, <1>3, EndStep, TypeParts DEF Inv
<1>4. CASE /\ Become("monitor", [proc["monitor"] EXCEPT !.pc = to, !.snap = Read(task)])
           /\ UNCHANGED <<task, adrift>>
  <2> DEFINE old == proc["monitor"]
             snap == Read(task)
             p == [proc["monitor"] EXCEPT !.pc = to, !.snap = Read(task)]
  <2>1. Become("monitor", p) /\ old \in LoopState /\ snap \in Snap /\ snap.retry = task.retry
    BY <1>1, <1>2, <1>4, Known, SnapTyped
  <2> HIDE DEF old, snap
  <2>2. p = [old EXCEPT !.pc = to, !.snap = snap]
    BY DEF old, snap
  <2> HIDE DEF p
  <2>3. p \in LoopState /\ p.pc = to /\ p.snap.retry = task.retry
    BY <2>1, <2>2 DEF LoopState
  <2>4. Attends("monitor", p) /\ ~Trusts(p)
    BY <2>3 DEF Attends, Trusts
  <2>5. QED
    BY <1>1, <1>2, <1>4, <2>1, <2>3, <2>4, Known, LoopStep, TypeParts DEF Inv, Whole
<1>5. ASSUME NEW rt \in {"active", "blocked"}, task' = WithRuntime(task, rt, task.retry)
      PROVE  task' \in Task /\ task'.rt = rt /\ task'.retry = task.retry
  BY <1>1, <1>2, <1>5 DEF WithRuntime, Task
<1>6. CASE task' = WithRuntime(task, "blocked", task.retry) /\ End("monitor") /\ UNCHANGED adrift
  BY <1>1, <1>2, <1>5, <1>6, EndStep, TypeParts DEF Inv
<1>7. CASE task' = WithRuntime(task, "active", task.retry) /\ End("monitor") /\ adrift' = TRUE
  BY <1>1, <1>2, <1>5, <1>7, EndStep, TypeParts DEF Inv
<1>8. QED
  BY <1>3, <1>4, <1>6, <1>7

LEMMA MonitorFreeStep == ASSUME Inv, MonitorFree, NoteCrowd PROVE Inv'
BY WaitStep DEF MonitorFree

LEMMA MonitorRepairedStep == ASSUME Inv, MonitorRepaired, NoteCrowd PROVE Inv'
BY WaitStep DEF MonitorRepaired

LEMMA MonitorStateStep == ASSUME Inv, MonitorState, NoteCrowd PROVE Inv'
<1> DEFINE n == proc["monitor"].snap.retry
<1>1. "monitor" \in Loops /\ Counts("monitor", proc["monitor"]) /\ proc["monitor"].pc = "state"
  BY DEF MonitorState, Loops, Counts
<1>2. n \in Nat /\ (~crowd => asks <= n)
  BY <1>1, Known
<1>3. CASE Block("monitor")
  BY <1>1, <1>3, BlockStep DEF MonitorState
<1>4. CASE Goto("monitor", "merge") /\ UNCHANGED task
  <2>1. Attends("monitor", [proc["monitor"] EXCEPT !.pc = "merge"])
    BY <1>1, Known, GotoLocals DEF Attends, Pcs
  <2>2. QED
    BY <1>1, <1>4, <2>1, GotoStep, TypeParts DEF MonitorState, Pcs, Inv
<1>5. CASE task' = WithRuntime(task, "succeeded", n) /\ End("monitor")
  <2> HIDE DEF n
  <2>1. task' \in Task /\ task'.rt = "succeeded" /\ task'.retry = n
    BY <1>2, <1>5, TypeParts DEF Inv, WithRuntime, Task
  <2>2. QED
    BY <1>1, <1>2, <1>5, <2>1, EndStep, TypeParts DEF MonitorState, Inv
<1>6. QED
  BY <1>3, <1>4, <1>5 DEF MonitorState

LEMMA MergeStep == ASSUME Inv, NEW l \in Loops, Merge(l), NoteCrowd PROVE Inv'
<1>1. PICK out \in {"success", "conflict", "blocked"}, lands \in BOOLEAN :
          /\ out = "success" => lands
          /\ repo' = IF lands THEN [repo EXCEPT !.landed = repo.src] ELSE repo
          /\ Become(l, [proc[l] EXCEPT !.pc = "answer", !.out = out])
  BY Zenon DEF Merge
<1> DEFINE old == proc[l]
           p == [proc[l] EXCEPT !.pc = "answer", !.out = out]
<1>2. old \in LoopState /\ Counts(l, old) /\ old.pc = "merge"
  BY Known DEF Merge, Counts
<1>3. UNCHANGED <<task, sess, cancel, asks, adrift, left>> /\ Become(l, p)
  BY <1>1 DEF Merge
<1> HIDE DEF old
<1>4. p = [old EXCEPT !.pc = "answer", !.out = out]
  BY DEF old
<1> HIDE DEF p
<1>5. p \in LoopState /\ p.pc = "answer" /\ p.out = out /\ p.snap = old.snap /\ p.repairs = old.repairs
  BY <1>2, <1>4 DEF LoopState
<1>6. repo' \in Repo /\ repo'.base <= repo'.landed /\ repo'.landed <= repo'.src
      /\ (Whole => Whole') /\ repo'.tree = repo.tree /\ (lands => Whole')
  BY <1>1, TypeParts DEF Inv, Repo, Whole
<1>7. Trusts(p) => Whole'
  BY <1>1, <1>5, <1>6 DEF Trusts
<1>8. Attends(l, old) => Attends(l, p)
  BY <1>2, <1>5 DEF Attends
<1>9. /\ ~crowd => asks <= task.retry
      /\ ~crowd /\ Counts(l, old) => asks <= old.snap.retry /\ (l = "auto" => asks <= old.repairs)
      /\ ~crowd /\ ~repo.tree => Whole
  BY Known DEF old
<1>10. task \in Task /\ sess \in Sess /\ adrift \in BOOLEAN /\ left \in Scene
  BY TypeParts DEF Inv
<1>11. QED
  BY <1>2, <1>3, <1>5, <1>6, <1>7, <1>8, <1>9, <1>10, LoopStep DEF old

(* The count of a repair is the first that is above the history. *)
LEMMA AskStep ==
    ASSUME Inv, NoteCrowd, proc["auto"].pc = "answer", proc["auto"].repairs < MaxAttempts, AskRepair,
           sess' \in Sess, asks' = IF asks > MaxAttempts THEN asks ELSE asks + 1,
           UNCHANGED <<repo, cancel, adrift, left>>
    PROVE  Inv'
<1> DEFINE old == proc["auto"]
           n == proc["auto"].repairs + 1
           p == [proc["auto"] EXCEPT !.pc = "repair", !.out = "none", !.repairs = n,
                                     !.snap = [NoSnap EXCEPT !.retry = n]]
<1>1. "auto" \in Loops /\ Counts("auto", old) /\ old.pc = "answer"
  BY DEF Loops, Counts
<1>2. old \in LoopState /\ n \in Nat /\ n <= MaxAttempts /\ (~crowd => asks <= MaxAttempts /\ asks + 1 <= n)
  BY <1>1, Known, TypeParts DEF Inv
<1>3. task' = WithRuntime(task, "active", n) /\ Become("auto", p)
  BY DEF AskRepair
<1> HIDE DEF old, n
<1>4. p = [old EXCEPT !.pc = "repair", !.out = "none", !.repairs = n, !.snap = [NoSnap EXCEPT !.retry = n]]
  BY DEF old
<1> HIDE DEF p
<1>5. p \in LoopState /\ p.pc = "repair" /\ p.repairs = n /\ p.snap.retry = n
  BY <1>2, <1>4 DEF LoopState, NoSnap, Snap
<1>6. task' \in Task /\ task'.rt = "active" /\ task'.retry = n
  BY <1>2, <1>3, TypeParts DEF Inv, WithRuntime, Task
<1>7. proc' \in [Loops -> LoopState] /\ proc'["auto"] = p /\ \A k \in Loops \ {"auto"} : proc'[k] = proc[k]
  BY <1>1, <1>3, <1>5, TypeParts, Becomes DEF Inv
<1>8. crowd' \in BOOLEAN /\ (crowd => crowd') /\ Uncrowded'
  BY TypeParts, Noted DEF Inv
<1>9. asks' \in 0..(MaxAttempts + 1)
  BY TypeParts DEF Inv
<1>10. TypeOK'
  BY <1>6, <1>7, <1>8, <1>9, TypeParts DEF Inv, TypeOK, Sess, Repo
<1>11. Attended'
  BY <1>1, <1>5, <1>7 DEF Attended, Attends
<1>12. Landed'
  BY <1>5, <1>7, <1>8 DEF Inv, Landed, Trusts, Whole
<1>13. ~crowd => cancel = {} /\ \A k \in Loops \ {"auto"} : proc[k].pc = "idle"
  BY <1>1 DEF Inv, Uncrowded, Crowded, AtWork, old
<1>14. Counted'
  <2> SUFFICES ASSUME ~crowd'
               PROVE  /\ asks' <= MaxAttempts /\ asks' <= task'.retry
                      /\ \A k \in cancel' : asks' <= k
                      /\ \A l \in Loops : Counts(l, proc'[l]) =>
                            asks' <= proc'[l].snap.retry /\ (l = "auto" => asks' <= proc'[l].repairs)
    BY DEF Counted
  <2>1. asks' = asks + 1 /\ asks' <= n /\ asks' <= MaxAttempts
    BY <1>2, <1>8, TypeParts DEF Inv
  <2>2. cancel' = {}
    BY <1>8, <1>13
  <2>3. \A l \in Loops \ {"auto"} : ~Counts(l, proc'[l])
    BY <1>7, <1>8, <1>13 DEF Counts
  <2>4. QED
    BY <1>5, <1>6, <1>7, <2>1, <2>2, <2>3
<1>15. QED
  BY <1>8, <1>10, <1>11, <1>12, <1>14 DEF Inv

(* A loop goes on with a fresh copy of the count. *)
LEMMA RecountStep ==
    ASSUME Inv, NoteCrowd, NEW pc \in {"merge", "persist"},
           Become("auto", [proc["auto"] EXCEPT !.pc = pc, !.snap = [NoSnap EXCEPT !.retry = task.retry]]),
           Counts("auto", proc["auto"]), pc = "persist" => Trusts(proc["auto"]),
           UNCHANGED <<task, sess, repo, cancel, asks, adrift, left>>
    PROVE  Inv'
<1> DEFINE old == proc["auto"]
           n == task.retry
           p == [proc["auto"] EXCEPT !.pc = pc, !.snap = [NoSnap EXCEPT !.retry = task.retry]]
<1>1. "auto" \in Loops
  BY DEF Loops
<1>2. old \in LoopState /\ n \in Nat /\ Become("auto", p)
  BY <1>1, Known
<1> HIDE DEF old, n
<1>3. p = [old EXCEPT !.pc = pc, !.snap = [NoSnap EXCEPT !.retry = n]]
  BY DEF old, n
<1> HIDE DEF p
<1>4. p \in LoopState /\ p.pc = pc /\ p.repairs = old.repairs /\ p.snap.retry = n
  BY <1>2, <1>3 DEF LoopState, NoSnap, Snap
<1>5. Attends("auto", p) /\ (Trusts(p) => Trusts(old))
  BY <1>4 DEF Attends, Trusts, old
<1>6. QED
  BY <1>1, <1>2, <1>4, <1>5, Known, LoopStep, TypeParts DEF Inv, Whole, old, n

LEMMA PromptedTyped == ASSUME TypeOK, NEW who \in {"auto", "monitor", "user"} PROVE Prompted(who) \in Sess
BY TypeParts DEF Prompted, Sess

LEMMA AutoAnswerStep == ASSUME Inv, AutoAnswer, NoteCrowd PROVE Inv'
<1>1. "auto" \in Loops /\ Counts("auto", proc["auto"]) /\ proc["auto"].pc = "answer"
  BY DEF AutoAnswer, Loops, Counts
<1>2. CASE /\ proc["auto"].out = "success"
           /\ Become("auto", [proc["auto"] EXCEPT !.pc = "persist", !.snap = [NoSnap EXCEPT !.retry = task.retry]])
           /\ UNCHANGED <<task, sess, asks>>
  <2>1. Trusts(proc["auto"])
    BY <1>1, <1>2 DEF Trusts
  <2>2. QED
    BY <1>1, <1>2, <2>1, RecountStep DEF AutoAnswer
<1>3. CASE Block("auto") /\ UNCHANGED <<sess, asks>>
  BY <1>1, <1>3, BlockStep DEF AutoAnswer
<1>4. CASE /\ proc["auto"].repairs < MaxAttempts /\ AskRepair
           /\ sess' = IF sess.active THEN Prompted("auto") ELSE sess
           /\ asks' = IF asks > MaxAttempts THEN asks ELSE asks + 1
  <2>1. sess' \in Sess
    BY <1>4, PromptedTyped, TypeParts DEF Inv
  <2>2. QED
    BY <1>1, <1>4, <2>1, AskStep DEF AutoAnswer
<1>5. QED
  BY <1>2, <1>3, <1>4 DEF AutoAnswer

LEMMA AutoRepairedStep == ASSUME Inv, AutoRepaired, NoteCrowd PROVE Inv'
<1>1. "auto" \in Loops /\ Counts("auto", proc["auto"])
  BY DEF AutoRepaired, Loops, Counts
<1>2. CASE Block("auto")
  BY <1>1, <1>2, BlockStep DEF AutoRepaired
<1>3. CASE /\ Become("auto", [proc["auto"] EXCEPT !.pc = "merge", !.snap = [NoSnap EXCEPT !.retry = task.retry]])
           /\ UNCHANGED task
  BY <1>1, <1>3, RecountStep DEF AutoRepaired
<1>4. QED
  BY <1>2, <1>3 DEF AutoRepaired

LEMMA UserAnswerStep == ASSUME Inv, NEW l \in {"route", "monitor"}, UserAnswer(l), NoteCrowd PROVE Inv'
<1> DEFINE old == proc[l]
<1>1. /\ l \in Loops /\ Counts(l, old) /\ old.pc = "answer" /\ old \in LoopState /\ old.snap.retry \in Nat
      /\ UNCHANGED <<repo, cancel, asks, left>>
  BY Known DEF UserAnswer, Loops, Counts
<1>2. ~crowd => asks <= old.snap.retry
  BY <1>1, Known
<1>3. CASE old.out = "success" /\ Goto(l, "persist") /\ UNCHANGED <<task, sess, adrift>>
  <2> DEFINE p == [old EXCEPT !.pc = "persist"]
  <2>1. p \in LoopState /\ p.pc = "persist" /\ p.repairs = old.repairs /\ p.snap = old.snap
    BY <1>1, GotoLocals DEF Pcs
  <2>2. Become(l, p) /\ Trusts(old)
    BY <1>1, <1>3 DEF Goto, Trusts
  <2> HIDE DEF p
  <2>3. Attends(l, p)
    BY <2>1 DEF Attends
  <2>4. QED
    BY <1>1, <1>2, <1>3, <2>1, <2>2, <2>3, Known, LoopStep, TypeParts DEF Inv, Whole
<1>4. CASE Block(l) /\ UNCHANGED <<sess, adrift>>
  BY <1>1, <1>4, BlockStep
<1>5. CASE /\ sess' = IF sess.active THEN Prompted("monitor") ELSE sess
           /\ task' = WithRuntime(task, "active", old.snap.retry)
           /\ IF l = "route" THEN proc' = Scheduled("repair", 1)
              ELSE Become(l, [old EXCEPT !.pc = "repair", !.out = "none", !.repairs = old.repairs + 1])
           /\ adrift' = IF l = "route" THEN LeftToNobody ELSE adrift
  <2> DEFINE n == old.snap.retry
             m == old.repairs + 1
             p == [old EXCEPT !.pc = "repair", !.out = "none", !.repairs = m]
  <2>1. sess' \in Sess
    BY <1>5, PromptedTyped, TypeParts DEF Inv
  <2>2. n \in Nat /\ task' = WithRuntime(task, "active", n) /\ (~crowd => n >= asks)
    BY <1>1, <1>2, <1>5, TypeParts DEF Inv
  <2>3. CASE l = "route"
    <3> HIDE DEF n
    <3>1. QED
      BY <1>1, <1>5, <2>1, <2>2, <2>3, ScheduledStep
  <2>4. CASE l = "monitor"
    <3>1. Become(l, p) /\ m \in Nat
      BY <1>1, <1>5, <2>4, LoopParts
    <3> HIDE DEF old, n, m
    <3>2. p = [old EXCEPT !.pc = "repair", !.out = "none", !.repairs = m]
      OBVIOUS
    <3> HIDE DEF p
    <3>3. p \in LoopState /\ p.pc = "repair"
      BY <1>1, <3>1, <3>2 DEF LoopState
    <3>4. task' \in Task /\ task'.retry = n
      BY <2>2, TypeParts DEF Inv, WithRuntime, Task
    <3>5. Attends(l, p) /\ ~Trusts(p) /\ ~Counts(l, p)
      BY <2>4, <3>3 DEF Attends, Trusts, Counts
    <3>6. QED
      BY <1>1, <1>5, <2>1, <2>2, <2>4, <3>1, <3>3, <3>4, <3>5, Known, LoopStep, TypeParts DEF Inv, Whole
  <2>5. QED
    BY <2>3, <2>4
<1>6. QED
  BY <1>3, <1>4, <1>5 DEF UserAnswer

LEMMA PersistStep == ASSUME Inv, NEW l \in Loops, Persist(l), NoteCrowd PROVE Inv'
<1> DEFINE old == proc[l]
           n == proc[l].snap.retry
           p == [proc[l] EXCEPT !.pc = "cleanup"]
<1>1. Counts(l, old) /\ old.pc = "persist" /\ Trusts(old) /\ n \in Nat /\ (~crowd => asks <= n)
  BY Known DEF Persist, Counts, Trusts
<1>2. p \in LoopState /\ p.pc = "cleanup" /\ p.repairs = old.repairs /\ p.snap = old.snap
  BY Known, GotoLocals DEF Pcs
<1>3. Become(l, p)
  BY DEF Persist, Goto
<1>4. task' \in Task /\ task'.rt = "succeeded" /\ task'.retry = n
  <2>1. PICK st \in {"done", task.status} :
             task' = [task EXCEPT !.merged = TRUE, !.rt = "succeeded", !.retry = n, !.status = st]
    BY DEF Persist
  <2> HIDE DEF n
  <2>2. QED
    BY <1>1, <2>1, TypeParts DEF Inv, Task
<1> HIDE DEF p
<1>5. QED
  BY <1>1, <1>2, <1>3, <1>4, Known, LoopStep, TypeParts DEF Persist, Inv, Whole

LEMMA CleanupStep == ASSUME Inv, NEW l \in Loops, Cleanup(l), NoteCrowd PROVE Inv'
<1> DEFINE old == proc[l]
           p == [proc[l] EXCEPT !.pc = "kill"]
<1>1. /\ Counts(l, old) /\ Trusts(old) /\ UNCHANGED <<task, sess, cancel, asks, adrift, left>>
      /\ ~Attends(l, old)
  BY DEF Cleanup, Counts, Trusts, Attends
<1>2. PICK tree \in BOOLEAN : repo' = [repo EXCEPT !.tree = tree]
  <2>1. PICK removed \in BOOLEAN : repo' = [repo EXCEPT !.tree = repo.tree /\ ~removed]
    BY DEF Cleanup
  <2>2. (repo.tree /\ ~removed) \in BOOLEAN
    OBVIOUS
  <2>3. QED
    BY <2>1, <2>2
<1>3. repo' \in Repo /\ repo'.base <= repo'.landed /\ repo'.landed <= repo'.src /\ (Whole => Whole')
  BY <1>2, TypeParts DEF Inv, Repo, Whole
<1>4. p \in LoopState /\ p.pc = "kill" /\ p.repairs = old.repairs /\ p.snap = old.snap
  BY Known, GotoLocals DEF Pcs
<1>5. Idle \in LoopState /\ ~Trusts(Idle) /\ ~Counts(l, Idle) /\ ~Attends(l, Idle)
  BY IdleTyped DEF Trusts, Counts, Idle, Attends
<1>6. ~crowd => Whole
  BY <1>1, Known
<1>7. Become(l, p) \/ Become(l, Idle)
  BY DEF Cleanup, Goto, End
<1> HIDE DEF p
<1>8. ~Trusts(p) /\ ~Attends(l, p)
  BY <1>4 DEF Trusts, Attends
<1>9. CASE Become(l, p)
  BY <1>1, <1>3, <1>4, <1>6, <1>8, <1>9, Known, LoopStep, TypeParts DEF Inv
<1>10. CASE Become(l, Idle)
  BY <1>1, <1>3, <1>5, <1>6, <1>10, Known, LoopStep, TypeParts DEF Inv
<1>11. QED
  BY <1>7, <1>9, <1>10

LEMMA KillStep == ASSUME Inv, NEW l \in Loops, Kill(l), NoteCrowd PROVE Inv'
<1>1. sess' \in Sess
  <2>1. sess' = sess \/ sess' = [active |-> FALSE, busy |-> FALSE, asked |-> {}]
    BY DEF Kill
  <2>2. [active |-> FALSE, busy |-> FALSE, asked |-> {}] \in Sess
    BY DEF Sess
  <2>3. QED
    BY <2>1, <2>2, TypeParts DEF Inv
<1>2. ~Attends(l, proc[l])
  BY DEF Kill, Attends
<1>3. QED
  BY <1>1, <1>2, Known, EndStep, TypeParts DEF Kill, Inv

-----------------------------------------------------------------------------
(* The steps of users and of the world *)

(* A step that changes only the row, and leaves its runtime and its count. *)
LEMMA RowStep ==
    ASSUME Inv, NoteCrowd, task' \in Task, task'.rt = task.rt, task'.retry = task.retry, sess' \in Sess,
           UNCHANGED <<repo, proc, cancel, asks, adrift>>, left' \in Scene
    PROVE  Inv'
<1>1. cancel' \in SUBSET Nat /\ (~crowd => task'.retry >= asks /\ \A n \in cancel' : asks <= n)
  BY TypeParts, RowParts DEF Inv, Counted
<1>2. QED
  BY <1>1, QuietStep, TypeParts DEF Inv, Whole

LEMMA AcceptStep == ASSUME Inv, Accept, NoteCrowd PROVE Inv'
<1> DEFINE row == [task EXCEPT !.status = "done"]
<1>1. row \in Task /\ row.retry = task.retry /\ row.rt = task.rt
  BY TypeParts DEF Inv, Task
<1>2. RequestAuto(row) /\ UNCHANGED <<sess, repo, cancel, asks, left>>
  BY DEF Accept
<1> HIDE DEF row
<1>3. QED
  BY <1>1, <1>2, RequestStep, TypeParts DEF Inv

LEMMA RetryCommandStep == ASSUME Inv, RetryCommand, NoteCrowd PROVE Inv'
BY RequestStep, TypeParts DEF RetryCommand, Inv

LEMMA UserMergeStep == ASSUME Inv, UserMerge, NoteCrowd PROVE Inv'
<1> DEFINE snap == Snapshot(task)
           p == [Idle EXCEPT !.pc = "load", !.snap = Snapshot(task)]
<1>1. /\ "route" \in Loops /\ proc["route"].pc = "idle" /\ Become("route", p)
      /\ UNCHANGED <<task, sess, repo, cancel, asks, adrift>>
  BY DEF UserMerge, Loops
<1>2. snap \in Snap /\ snap.retry = task.retry
  BY TypeParts, SnapTyped DEF Inv
<1>3. left' \in Scene
  <2>1. left \in Scene /\ left.requests > 0 /\ left' = [left EXCEPT !.requests = left.requests - 1]
    BY TypeParts DEF UserMerge, Inv
  <2>2. left.requests - 1 \in Nat
    BY <2>1 DEF Scene
  <2>3. QED
    BY <2>1, <2>2 DEF Scene
<1> HIDE DEF snap
<1>4. p = [Idle EXCEPT !.pc = "load", !.snap = snap]
  BY DEF snap
<1> HIDE DEF p
<1>5. p \in LoopState /\ p.pc = "load" /\ p.snap = snap
  BY <1>2, <1>4 DEF Idle, NoSnap, LoopState, Snap
<1>6. ~Trusts(p) /\ ~Attends("route", proc["route"])
  BY <1>1, <1>5 DEF Trusts, Attends
<1>7. QED
  BY <1>1, <1>2, <1>3, <1>5, <1>6, Known, LoopStep, TypeParts DEF Inv, Whole

LEMMA UserPromptStep == ASSUME Inv, UserPrompt, NoteCrowd PROVE Inv'
<1>1. task' \in Task /\ task'.rt = task.rt /\ task'.retry = task.retry
  BY TypeParts DEF UserPrompt, Inv, Task
<1>2. QED
  BY <1>1, RowStep, PromptedTyped, TypeParts DEF UserPrompt, Inv

LEMMA MoveStep == ASSUME Inv, Move, NoteCrowd PROVE Inv'
<1>1. task' \in Task /\ task'.rt = task.rt /\ task'.retry = task.retry
  BY TypeParts DEF Move, Inv, Task
<1>2. QED
  BY <1>1, RowStep, TypeParts DEF Move, Inv

LEMMA CancelMergeStep == ASSUME Inv, CancelMerge, NoteCrowd PROVE Inv'
<1>1. task.retry \in Nat /\ (~crowd => asks <= task.retry)
  BY TypeParts, RowParts DEF Inv, Counted
<1>2. cancel' \in SUBSET Nat /\ (~crowd => task'.retry >= asks /\ \A n \in cancel' : asks <= n)
  BY <1>1, TypeParts DEF CancelMerge, Inv
<1>3. QED
  BY <1>2, QuietStep, TypeParts DEF CancelMerge, Inv, Whole

LEMMA CanceledStep == ASSUME Inv, Canceled, NoteCrowd PROVE Inv'
<1>1. PICK n \in cancel : task' = WithRuntime(task, "canceled", n)
  BY DEF Canceled
<1>2. n \in Nat /\ (~crowd => asks <= n)
  BY TypeParts DEF Inv, Counted
<1>3. task' \in Task /\ task'.rt = "canceled" /\ task'.retry = n
  BY <1>1, <1>2, TypeParts DEF Inv, WithRuntime, Task
<1>4. cancel' \in SUBSET Nat /\ (~crowd => task'.retry >= asks /\ \A k \in cancel' : asks <= k)
  BY <1>2, <1>3, TypeParts DEF Canceled, Inv
<1>5. QED
  BY <1>3, <1>4, QuietStep, TypeParts DEF Canceled, Inv, Whole

LEMMA WorldStep ==
    ASSUME Inv, NoteCrowd, UNCHANGED <<task, proc, cancel, asks, adrift>>,
           sess' \in Sess, repo' \in Repo, left' \in Scene, repo'.base <= repo'.landed, repo'.landed <= repo'.src,
           repo'.tree = repo.tree,
           \/ crowd' \/ (Whole => Whole')
           \/ repo.tree /\ \A l \in Loops : ~Trusts(proc[l])
    PROVE  Inv'
<1>1. cancel' \in SUBSET Nat /\ (~crowd => task'.retry >= asks /\ \A n \in cancel' : asks <= n)
  BY TypeParts, RowParts DEF Inv, Counted
<1>2. QED
  BY <1>1, QuietStep, TypeParts DEF Inv

(* Work is added only where no loop merges, and the worktree is there. *)
LEMMA WorkStep == ASSUME Inv, Work, NoteCrowd PROVE Inv'
<1>1. repo' = [repo EXCEPT !.src = repo.src + 1] /\ repo.src + 1 <= MaxWork /\ repo.src + 1 \in Nat
  BY TypeParts DEF Work, Inv, Repo
<1>2. repo' \in Repo /\ repo'.base <= repo'.landed /\ repo'.landed <= repo'.src /\ repo'.tree = repo.tree
  BY <1>1, TypeParts DEF Inv, Repo
<1>3. ~crowd => \A l \in Loops : ~Trusts(proc[l])
  BY DEF Work, Inv, Uncrowded, Crowded, Trusts
<1>4. crowd \in BOOLEAN /\ (crowd => crowd')
  BY TypeParts, Noted DEF Inv
<1>5. QED
  BY <1>2, <1>3, <1>4, WorldStep, TypeParts DEF Work, Inv

LEMMA EndTurnStep == ASSUME Inv, EndTurn, NoteCrowd PROVE Inv'
<1>1. sess' \in Sess
  BY TypeParts DEF EndTurn, Sess, Inv
<1>2. repo' = repo \/ repo' = [repo EXCEPT !.clash = FALSE, !.base = repo.landed]
  BY DEF EndTurn
<1>3. /\ repo' \in Repo /\ repo'.base <= repo'.landed /\ repo'.landed <= repo'.src
      /\ repo'.src = repo.src /\ repo'.landed = repo.landed /\ repo'.tree = repo.tree
  <2>1. repo \in Repo /\ repo.base <= repo.landed /\ repo.landed <= repo.src /\ MaxWork \in Nat
    BY TypeParts DEF Inv
  <2>2. CASE repo' = repo
    BY <2>1, <2>2
  <2>3. CASE repo' = [repo EXCEPT !.clash = FALSE, !.base = repo.landed]
    <3> DEFINE n == repo.landed
    <3>1. n \in 0..MaxWork /\ repo' = [repo EXCEPT !.clash = FALSE, !.base = n]
      BY <2>1, <2>3 DEF Repo
    <3> HIDE DEF n
    <3>2. repo' \in Repo /\ repo'.base = n /\ repo'.landed = repo.landed /\ repo'.src = repo.src
          /\ repo'.tree = repo.tree
      BY <2>1, <3>1 DEF Repo
    <3>3. QED
      BY <2>1, <3>1, <3>2 DEF n
  <2>4. QED
    BY <1>2, <2>2, <2>3
<1>4. CASE RequestAuto(task)
  BY <1>1, <1>3, <1>4, RequestStep, TypeParts DEF EndTurn, Inv
<1>5. CASE UNCHANGED <<task, proc, adrift>>
  BY <1>1, <1>3, <1>5, WorldStep, TypeParts DEF EndTurn, Inv, Whole
<1>6. QED
  BY <1>4, <1>5 DEF EndTurn

LEMMA DieStep == ASSUME Inv, Die, NoteCrowd PROVE Inv'
<1>1. sess' \in Sess
  BY DEF Die, Sess
<1>2. QED
  BY <1>1, WorldStep, TypeParts DEF Die, Inv, Whole

LEMMA TargetMovesStep == ASSUME Inv, TargetMoves, NoteCrowd PROVE Inv'
<1>1. left \in Scene /\ left.clashes > 0 /\ left' = [left EXCEPT !.clashes = left.clashes - 1]
  BY TypeParts DEF TargetMoves, Inv
<1>2. left.clashes - 1 \in Nat
  BY <1>1 DEF Scene
<1>3. left' \in Scene
  BY <1>1, <1>2 DEF Scene
<1>4. /\ repo' \in Repo /\ repo'.base <= repo'.landed /\ repo'.landed <= repo'.src
      /\ repo'.src = repo.src /\ repo'.landed = repo.landed /\ repo'.tree = repo.tree
  BY TypeParts DEF TargetMoves, Inv, Repo
<1>5. QED
  BY <1>3, <1>4, WorldStep, TypeParts DEF TargetMoves, Inv, Whole

LEMMA RestartStep == ASSUME Inv, Restart, NoteCrowd PROVE Inv'
<1>1. left \in Scene /\ left.restarts > 0 /\ left' = [left EXCEPT !.restarts = left.restarts - 1]
  BY TypeParts DEF Restart, Inv
<1>2. left.restarts - 1 \in Nat
  BY <1>1 DEF Scene
<1>3. left' \in Scene
  BY <1>1, <1>2 DEF Scene
<1>4. /\ UNCHANGED <<task, sess, repo, asks>> /\ cancel' = {} /\ adrift' = TRUE
      /\ proc' \in [Loops -> LoopState] /\ \A l \in Loops : proc'[l].pc = "idle"
  BY IdleTyped DEF Restart
<1>5. crowd' \in BOOLEAN /\ (crowd => crowd') /\ Uncrowded'
  BY TypeParts, Noted DEF Inv
<1>6. TypeOK'
  BY <1>3, <1>4, <1>5, TypeParts DEF Inv, TypeOK, Sess, Repo
<1>7. Attended'
  BY <1>4 DEF Attended
<1>8. Landed'
  BY <1>4, <1>5 DEF Inv, Landed, Whole, Trusts
<1>9. Counted'
  BY <1>4, <1>5 DEF Inv, Counted, Counts
<1>10. QED
  BY <1>5, <1>6, <1>7, <1>8, <1>9 DEF Inv

-----------------------------------------------------------------------------
LEMMA InvInit == ASSUME Init PROVE Inv
<1>1. task \in Task /\ task.rt = "none" /\ task.retry = 0
  BY DEF Init, Task
<1>2. sess \in Sess
  BY DEF Init, Sess
<1>3. repo \in Repo /\ repo.base <= repo.landed /\ repo.landed <= repo.src /\ repo.tree
  <2>1. MaxWork \in Nat /\ 0 \in 0..MaxWork /\ 1 \in 0..MaxWork
    BY BoundsAssumption
  <2>2. PICK n \in {0, 1} : repo = [src |-> n, base |-> 0, landed |-> 0, clash |-> FALSE, tree |-> TRUE]
    BY DEF Init
  <2>3. QED
    BY <2>1, <2>2 DEF Repo
<1>4. proc \in [Loops -> LoopState] /\ \A l \in Loops : proc[l].pc = "idle"
  BY IdleTyped DEF Init
<1>5. cancel = {} /\ asks = 0 /\ adrift = FALSE /\ crowd = FALSE /\ left \in Scene
  BY BoundsAssumption DEF Init
<1>6. TypeOK
  <2>1. cancel \in SUBSET Nat /\ asks \in 0..(MaxAttempts + 1)
    BY <1>5, BoundsAssumption
  <2>2. {adrift, crowd} \subseteq BOOLEAN
    BY <1>5
  <2>3. QED
    BY <1>1, <1>2, <1>3, <1>4, <1>5, <2>1, <2>2 DEF TypeOK, Sess, Repo
<1>7. Attended
  BY <1>1 DEF Attended
<1>8. Uncrowded
  BY <1>4, <1>5 DEF Uncrowded, Crowded, AtWork
<1>9. Landed
  BY <1>3, <1>4 DEF Landed, Trusts
<1>10. Counted
  BY <1>1, <1>4, <1>5, BoundsAssumption DEF Counted, Counts
<1>11. QED
  BY <1>6, <1>7, <1>8, <1>9, <1>10 DEF Inv

LEMMA InvNext == ASSUME Inv, [Next]_vars PROVE Inv'
<1>1. ASSUME NEW l \in Loops, Step(l) PROVE Inv'
  <2>1. NoteCrowd
    BY <1>1 DEF Step
  <2>2. CASE Load(l) \/ Merge(l) \/ Persist(l) \/ Cleanup(l) \/ Kill(l)
    BY <2>1, <2>2, LoadStep, MergeStep, PersistStep, CleanupStep, KillStep
  <2>3. CASE AutoState \/ AutoAnswer \/ AutoRepaired
    BY <2>1, <2>3, AutoStateStep, AutoAnswerStep, AutoRepairedStep
  <2>4. CASE RouteState
    BY <2>1, <2>4, RouteStateStep
  <2>5. CASE MonitorFree \/ MonitorState \/ MonitorRepaired
    BY <2>1, <2>5, MonitorFreeStep, MonitorStateStep, MonitorRepairedStep
  <2>6. CASE l # "auto" /\ UserAnswer(l)
    <3>1. l \in {"route", "monitor"}
      BY <2>6 DEF Loops
    <3>2. QED
      BY <2>1, <2>6, <3>1, UserAnswerStep
  <2>7. QED
    BY <1>1, <2>2, <2>3, <2>4, <2>5, <2>6 DEF Step
<1>2. CASE Users
  <2>1. NoteCrowd
    BY <1>2 DEF Users
  <2>2. QED
    BY <1>2, <2>1, AcceptStep, RetryCommandStep, UserMergeStep, UserPromptStep, MoveStep, CancelMergeStep,
       CanceledStep DEF Users
<1>3. CASE World
  BY <1>3, WorkStep, EndTurnStep, DieStep, TargetMovesStep, RestartStep DEF World
<1>4. CASE UNCHANGED vars
  <2>1. TypeOK'
    BY <1>4 DEF vars, Inv, TypeOK
  <2>2. Attended' /\ Landed' /\ Counted'
    BY <1>4 DEF vars, Inv, Attended, Landed, Counted, Whole
  <2>3. Uncrowded'
    BY <1>4 DEF vars, Inv, Uncrowded, Crowded, AtWork
  <2>4. QED
    BY <2>1, <2>2, <2>3 DEF Inv
<1>5. QED
  BY <1>1, <1>2, <1>3, <1>4 DEF Next

(* The inductive invariant holds throughout; each result below is a part of it. *)
THEOREM MergeInvariant == Spec => []Inv
<1>1. Init => Inv
  BY InvInit
<1>2. Inv /\ [Next]_vars => Inv'
  BY InvNext
<1>3. QED
  BY <1>1, <1>2, PTL DEF Spec

(* Every variable of the merge keeps its type, and git's versions their    *)
(* order: what both branches share, what landed, what the worktree has.    *)
THEOREM MergeTypeCorrect == Spec => []TypeOK
<1>1. Inv => TypeOK
  BY DEF Inv
<1>2. QED
  BY <1>1, MergeInvariant, PTL

(* The auto-merge never asks for more repairs than the workflow allows,    *)
(* while the loops keep out of each other's way: the count in the row, the *)
(* loop's own and its copies are never behind the repairs asked for.       *)
THEOREM MergeRepairsBounded == Spec => []RepairsBounded
<1>1. Inv => RepairsBounded
  BY DEF Inv, Counted, RepairsBounded
<1>2. QED
  BY <1>1, MergeInvariant, PTL

(* Up to a crowd, no worktree is removed before all in it has landed. *)
THEOREM MergeKeptUntilLanded == Spec => []KeptUntilLanded
<1>1. Inv => KeptUntilLanded
  BY DEF Inv, Landed, Whole, KeptUntilLanded
<1>2. QED
  BY <1>1, MergeInvariant, PTL

(* An active runtime has a loop at work on it, unless a restart, a wait    *)
(* that ran out or a monitor that was about to end left it alone.          *)
THEOREM MergeRuntimeHasRunner == Spec => []RuntimeHasRunner
<1>1. ASSUME NEW l \in Loops, Attends(l, proc[l]) PROVE AtWork(l)
  BY <1>1 DEF Attends, AtWork
<1>2. Inv => RuntimeHasRunner
  BY <1>1 DEF Inv, Attended, RuntimeHasRunner
<1>3. QED
  BY <1>2, MergeInvariant, PTL

-----------------------------------------------------------------------------
(* Who marks a task as merged *)

LEMMA RuntimeKeepsMark ==
    ASSUME NEW row \in Task, NEW rt, NEW n, task' = WithRuntime(row, rt, n)
    PROVE  task'.merged = row.merged
BY DEF WithRuntime, Task

LEMMA RequestKeepsMark ==
    ASSUME NEW row \in Task, RequestAuto(row)
    PROVE  task'.merged = row.merged
BY RuntimeKeepsMark DEF RequestAuto

LEMMA BlockKeepsMark ==
    ASSUME TypeOK, NEW l \in Loops, Block(l)
    PROVE  task'.merged = task.merged
BY RuntimeKeepsMark, TypeParts DEF Block

(* Only persistSuccessfulTaskMerge and persistSuccessfulAutoMerge do. *)
LEMMA OnlyPersistMarks ==
    ASSUME TypeOK, [Next]_vars, ~task.merged, task'.merged
    PROVE  \E l \in Loops : Persist(l)
<1>1. task \in Task
  BY TypeParts
<1>2. SUFFICES ASSUME \A l \in Loops : ~Persist(l)
               PROVE  task'.merged = task.merged \/ ~task'.merged
  OBVIOUS
<1>3. ASSUME NEW l \in Loops, Step(l) PROVE task'.merged = task.merged \/ ~task'.merged
  <2>1. CASE Load(l)
    BY <1>1, <2>1, BlockKeepsMark DEF Load
  <2>2. CASE Merge(l) \/ Cleanup(l) \/ Kill(l)
    BY <2>2 DEF Merge, Cleanup, Kill
  <2>3. CASE AutoState
    <3>1. "auto" \in Loops
      BY DEF Loops
    <3>2. CASE SkipAuto
      BY <3>2 DEF SkipAuto
    <3>3. QED
      BY <2>3, <3>1, <3>2, BlockKeepsMark DEF AutoState
  <2>4. CASE AutoAnswer
    <3>1. "auto" \in Loops
      BY DEF Loops
    <3>2. CASE AskRepair
      BY <1>1, <3>2, RuntimeKeepsMark DEF AskRepair
    <3>3. QED
      BY <2>4, <3>1, <3>2, BlockKeepsMark DEF AutoAnswer
  <2>5. CASE AutoRepaired
    BY <2>5, BlockKeepsMark DEF AutoRepaired, Loops
  <2>6. CASE RouteState
    BY <1>1, <2>6, BlockKeepsMark, RuntimeKeepsMark DEF RouteState, Loops
  <2>7. CASE MonitorFree \/ MonitorRepaired
    BY <1>1, <2>7, RuntimeKeepsMark DEF MonitorFree, MonitorRepaired
  <2>8. CASE MonitorState
    BY <1>1, <2>8, BlockKeepsMark, RuntimeKeepsMark DEF MonitorState, Loops
  <2>9. CASE UserAnswer(l)
    BY <1>1, <2>9, BlockKeepsMark, RuntimeKeepsMark DEF UserAnswer
  <2>10. QED
    BY <1>2, <1>3, <2>1, <2>2, <2>3, <2>4, <2>5, <2>6, <2>7, <2>8, <2>9 DEF Step
<1>4. CASE Users
  <2>1. CASE Accept
    <3> DEFINE row == [task EXCEPT !.status = "done"]
    <3>1. row \in Task /\ row.merged = task.merged /\ RequestAuto(row)
      BY <1>1, <2>1 DEF Accept, Task
    <3> HIDE DEF row
    <3>2. QED
      BY <3>1, RequestKeepsMark
  <2>2. CASE RetryCommand
    BY <1>1, <2>2, RequestKeepsMark DEF RetryCommand
  <2>3. CASE UserPrompt
    BY <1>1, <2>3 DEF UserPrompt, Task
  <2>4. CASE Move
    BY <1>1, <2>4 DEF Move, Task
  <2>5. CASE Canceled
    BY <1>1, <2>5, RuntimeKeepsMark DEF Canceled
  <2>6. CASE UserMerge \/ CancelMerge
    BY <2>6 DEF UserMerge, CancelMerge
  <2>7. QED
    BY <1>4, <2>1, <2>2, <2>3, <2>4, <2>5, <2>6 DEF Users
<1>5. CASE World
  <2>1. CASE EndTurn
    BY <1>1, <2>1, RequestKeepsMark DEF EndTurn
  <2>2. CASE Work \/ Die \/ TargetMoves \/ Restart
    BY <2>2 DEF Work, Die, TargetMoves, Restart
  <2>3. QED
    BY <1>5, <2>1, <2>2 DEF World
<1>6. CASE UNCHANGED vars
  BY <1>6 DEF vars
<1>7. QED
  BY <1>3, <1>4, <1>5, <1>6 DEF Next

(* A task is marked as merged only when its work is on the target branch. *)
THEOREM MergeMergedIsLanded == Spec => MergedIsLanded
<1>1. ASSUME Inv, [Next]_vars, ~crowd, ~task.merged, task'.merged PROVE repo.landed = repo.src
  <2>1. PICK l \in Loops : Persist(l)
    BY <1>1, OnlyPersistMarks DEF Inv
  <2>2. Trusts(proc[l])
    BY <2>1 DEF Persist, Trusts
  <2>3. QED
    BY <1>1, <2>2 DEF Inv, Landed, Whole
<1>2. Inv /\ [Next]_vars => [~crowd /\ ~task.merged /\ task'.merged => repo.landed = repo.src]_vars
  BY <1>1
<1>3. QED
  BY <1>2, MergeInvariant, PTL DEF Spec, MergedIsLanded
=============================================================================
