---------------------------- MODULE RunnerProofs ----------------------------
(***************************************************************************)
(* Proofs about Runner, for any number of processes and sessions.  The     *)
(* handover of the lock (Handing) relates three things that live apart:    *)
(* the state file, the lock file and the processes that read them.  The    *)
(* sessions (Serving) need no more than that a process never comes back.   *)
(***************************************************************************)
EXTENDS Runner, FiniteSetTheorems, TLAPS

-----------------------------------------------------------------------------
(* Types: what each update of a process gives is a process. *)

Pcs == {"off", "gone"} \cup Starting \cup Running

LEMMA Numbers == Nobody \notin Procs /\ Terminal \notin Procs
BY DEF Procs, Nobody, Terminal

LEMMA ProcessParts ==
    ASSUME NEW p \in Process
    PROVE  /\ p.pc \in Pcs /\ p.seen \in Procs \cup {Nobody} /\ p.tries \in 0..(MaxTries - 1)
           /\ p.asked \in BOOLEAN /\ p.beat \in BOOLEAN /\ p.ver \in BOOLEAN
BY RunnerAssumption DEF Process, Pcs

LEMMA FieldTyped ==
    ASSUME NEW p \in Process
    PROVE  /\ \A pc \in Pcs : [p EXCEPT !.pc = pc] \in Process
           /\ \A q \in Procs \cup {Nobody} : [p EXCEPT !.seen = q] \in Process
           /\ \A n \in 0..(MaxTries - 1) : [p EXCEPT !.tries = n] \in Process
           /\ \A b \in BOOLEAN : /\ [p EXCEPT !.asked = b] \in Process
                                /\ [p EXCEPT !.beat = b] \in Process
                                /\ [p EXCEPT !.ver = b] \in Process
BY DEF Process, Pcs

LEMMA GoneTyped == ASSUME NEW p \in Process PROVE Gone(p) \in Process
<1> DEFINE q == [p EXCEPT !.pc = "gone"]
           r == [q EXCEPT !.seen = Nobody]
           s == [r EXCEPT !.tries = 0]
           t == [s EXCEPT !.asked = FALSE]
<1>1. 0 \in 0..(MaxTries - 1) /\ "gone" \in Pcs
  BY RunnerAssumption DEF Pcs
<1>2. q \in Process
  BY <1>1, FieldTyped
<1>3. r \in Process
  <2> HIDE DEF q
  <2> QED BY <1>2, FieldTyped
<1>4. s \in Process
  <2> HIDE DEF r
  <2> QED BY <1>1, <1>3, FieldTyped
<1>5. t \in Process
  <2> HIDE DEF s
  <2> QED BY <1>4, FieldTyped
<1>6. [t EXCEPT !.beat = FALSE] \in Process
  <2> HIDE DEF t
  <2> QED BY <1>5, FieldTyped
<1>7. QED
  BY <1>6 DEF Gone

LEMMA LaunchedTyped == ASSUME NEW p \in Process PROVE Launched(p) \in Process
BY FieldTyped DEF Launched, Pcs, Starting

LEMMA GoesTyped ==
    ASSUME proc \in [Procs -> Process], NEW r \in Procs, NEW pc \in Pcs, Goes(r, pc)
    PROVE  proc' \in [Procs -> Process]
BY FieldTyped DEF Goes

LEMMA SeesTyped ==
    ASSUME proc \in [Procs -> Process], NEW r \in Procs, NEW pc \in Pcs, NEW p \in Procs \cup {Nobody}, Sees(r, pc, p)
    PROVE  proc' \in [Procs -> Process]
<1>1. [proc[r] EXCEPT !.pc = pc, !.seen = p] \in Process
  BY DEF Process, Pcs
<1>2. QED
  BY <1>1 DEF Sees

LEMMA EndsTyped ==
    ASSUME proc \in [Procs -> Process], NEW r \in Procs, Ends(r)
    PROVE  proc' \in [Procs -> Process]
BY GoneTyped DEF Ends

LEMMA TriedTyped ==
    ASSUME proc \in [Procs -> Process], NEW r \in Procs, Tried(r)
    PROVE  proc' \in [Procs -> Process]
<1>1. CASE proc[r].tries + 1 = MaxTries
  BY <1>1, EndsTyped DEF Tried
<1>2. CASE proc[r].tries + 1 # MaxTries
  <2> DEFINE n == proc[r].tries + 1
             q == [proc[r] EXCEPT !.tries = n]
  <2>1. n \in 0..(MaxTries - 1)
    BY <1>2, RunnerAssumption, ProcessParts
  <2>2. q \in Process
    <3> HIDE DEF n
    <3> QED BY <2>1, FieldTyped
  <2>3. "lock" \in Pcs
    BY DEF Pcs, Starting
  <2>4. [q EXCEPT !.pc = "lock"] \in Process
    <3> HIDE DEF q
    <3> QED BY <2>2, <2>3, FieldTyped
  <2>5. proc' = [proc EXCEPT ![r] = [q EXCEPT !.pc = "lock"]]
    BY <1>2 DEF Tried
  <2>6. QED
    BY <2>4, <2>5
<1>3. QED
  BY <1>1, <1>2

LEMMA ChildTyped ==
    ASSUME NEW c \in Child
    PROVE  /\ \A life \in {"none", "starting", "up", "dead"} : [c EXCEPT !.life = life] \in Child
           /\ \A r \in Procs : [c EXCEPT !.by = r] \in Child
           /\ \A r \in Procs \cup {Nobody} : [c EXCEPT !.post = r] \in Child
           /\ \A tree \in {"none", "there", "removed"} : [c EXCEPT !.tree = tree] \in Child
           /\ [c EXCEPT !.doomed = TRUE] \in Child
BY DEF Child

LEMMA LockTyped ==
    ASSUME TypeOK, NEW r \in Procs
    PROVE  /\ Free \in [owner : Procs \cup {Nobody}, written : BOOLEAN]
           /\ [owner |-> r, written |-> FALSE] \in [owner : Procs \cup {Nobody}, written : BOOLEAN]
           /\ [lock EXCEPT !.written = TRUE] \in [owner : Procs \cup {Nobody}, written : BOOLEAN]
BY DEF TypeOK, Free

LEMMA StepTyped ==
    ASSUME TypeOK, NEW r \in Procs, Step(r)
    PROVE  TypeOK'
<1>1. /\ \A pc \in {"match", "unstate", "unlock", "find", "ask", "wait", "lock", "stale", "write", "auth", "boot",
                     "up", "down", "unstate2", "unlock2", "release"} : pc \in Pcs
      /\ proc \in [Procs -> Process] /\ state \in Procs \cup {Nobody}
  BY DEF Pcs, Starting, Running, TypeOK
<1>2. CASE Check(r)
  <2>1. CASE state = Nobody
    BY <1>1, <1>2, <2>1, SeesTyped DEF Check, TypeOK, files, children
  <2>2. CASE state # Nobody /\ Alive(state)
    BY <1>1, <1>2, <2>2, SeesTyped DEF Check, TypeOK, files, children
  <2>3. CASE state # Nobody /\ ~Alive(state)
    BY <1>1, <1>2, <2>3, SeesTyped DEF Check, TypeOK, files, children
  <2>4. QED
    BY <2>1, <2>2, <2>3
<1>3. CASE Match(r)
  BY <1>1, <1>3, GoesTyped, EndsTyped DEF Match, TypeOK, files, children
<1>4. CASE RemoveState(r)
  BY <1>1, <1>4, GoesTyped DEF RemoveState, TypeOK, children
<1>5. CASE RemoveLock(r)
  BY <1>1, <1>5, GoesTyped, LockTyped DEF RemoveLock, TypeOK, children
<1>6. CASE Find(r)
  BY <1>1, <1>6, SeesTyped DEF Find, TypeOK, files, children
<1>7. CASE AskStop(r)
  <2>1. \A p \in Procs : [proc[p] EXCEPT !.pc = "wait"] \in Process /\ [proc[p] EXCEPT !.asked = TRUE] \in Process
    BY <1>1, FieldTyped
  <2>2. QED
    BY <1>1, <1>7, <2>1 DEF AskStop, TypeOK, files, children
<1>8. CASE SeesDeath(r)
  BY <1>1, <1>8, GoesTyped DEF SeesDeath, TypeOK, files, children
<1>9. CASE Kill(r)
  <2>1. \A p \in Procs : [proc[p] EXCEPT !.pc = "lock"] \in Process /\ Gone(proc[p]) \in Process
    BY <1>1, FieldTyped, GoneTyped
  <2>2. QED
    BY <1>9, <2>1 DEF Kill, TypeOK, files, children
<1>10. CASE Acquire(r)
  <2>1. proc' \in [Procs -> Process]
    BY <1>1, <1>10, GoesTyped, TriedTyped DEF Acquire
  <2>2. QED
    BY <1>10, <2>1, LockTyped DEF Acquire, TypeOK, children
<1>11. CASE RemoveStale(r)
  BY <1>1, <1>11, TriedTyped, LockTyped DEF RemoveStale, TypeOK, children
<1>12. CASE WritePid(r)
  BY <1>1, <1>12, GoesTyped, LockTyped DEF WritePid, TypeOK, children
<1>13. CASE Boot(r)
  <2> DEFINE q == [proc[r] EXCEPT !.pc = "boot"]
  <2>1. q \in Process
    BY <1>1, FieldTyped
  <2>2. [q EXCEPT !.ver = installed] \in Process
    <3> HIDE DEF q
    <3> QED BY <2>1, FieldTyped DEF TypeOK
  <2>3. proc' = [proc EXCEPT ![r] = [q EXCEPT !.ver = installed]]
    BY <1>1, <1>13 DEF Boot
  <2>4. QED
    BY <1>1, <1>13, <2>2, <2>3 DEF Boot, TypeOK, children
<1>14. CASE Register(r)
  BY <1>1, <1>14, GoesTyped DEF Register, TypeOK, files, children
<1>15. CASE Retire(r)
  BY <1>1, <1>15, EndsTyped DEF Retire, TypeOK, files, children
<1>16. CASE ShutDown(r)
  BY <1>1, <1>16, GoesTyped DEF ShutDown, TypeOK, files, children
<1>17. CASE LeaveState(r)
  BY <1>1, <1>17, GoesTyped DEF LeaveState, TypeOK, children
<1>18. CASE LeaveLock(r)
  BY <1>1, <1>18, GoesTyped, EndsTyped, LockTyped DEF LeaveLock, TypeOK, children
<1>19. QED
  BY <1>2, <1>3, <1>4, <1>5, <1>6, <1>7, <1>8, <1>9, <1>10, <1>11, <1>12, <1>13, <1>14, <1>15, <1>16, <1>17, <1>18
     DEF Step

LEMMA OtherTyped ==
    ASSUME TypeOK, NEW r \in Procs, Event(r) \/ Beat(r) \/ BeatEnds(r)
    PROVE  TypeOK'
<1>1. proc \in [Procs -> Process] /\ state \in Procs \cup {Nobody} /\ installed \in BOOLEAN
  BY DEF TypeOK
<1>2. \A p \in Procs : /\ Launched(proc[p]) \in Process /\ Gone(proc[p]) \in Process
                       /\ [proc[p] EXCEPT !.asked = TRUE] \in Process
                       /\ [proc[p] EXCEPT !.pc = "retired"] \in Process
  <2>1. "retired" \in Pcs
    BY DEF Pcs, Running
  <2>2. QED
    BY <1>1, <2>1, LaunchedTyped, GoneTyped, FieldTyped
<1>3. CASE Start(r)
  BY <1>1, <1>2, <1>3 DEF Start, TypeOK, files, children
<1>4. CASE StartFails(r) \/ ForcedExit(r) \/ Crash(r)
  BY <1>1, <1>4, EndsTyped DEF StartFails, ForcedExit, Crash, TypeOK, files, children
<1>5. CASE Signal(r)
  BY <1>1, <1>2, <1>5 DEF Signal, TypeOK, files, children
<1>6. CASE Beat(r)
  <2>1. proc' \in [Procs -> Process]
    <3>1. CASE proc[r].ver # installed
      BY <1>1, <1>2, <1>6, <3>1 DEF Beat
    <3>2. CASE proc[r].ver = installed
      <4> DEFINE q == [proc[r] EXCEPT !.beat = TRUE]
      <4>1. q \in Process
        BY <1>1, FieldTyped
      <4>2. [q EXCEPT !.seen = state] \in Process
        <5> HIDE DEF q
        <5> QED BY <1>1, <4>1, FieldTyped
      <4>3. proc' = [proc EXCEPT ![r] = [q EXCEPT !.seen = state]]
        BY <1>1, <1>6, <3>2 DEF Beat
      <4>4. QED
        BY <1>1, <4>2, <4>3
    <3>3. QED
      BY <3>1, <3>2
  <2>2. QED
    BY <1>6, <2>1 DEF Beat, Pruned, TypeOK, files
<1>7. CASE BeatEnds(r)
  <2> DEFINE q == [proc[r] EXCEPT !.beat = FALSE]
             a == proc[r].asked \/ proc[r].seen \notin {Nobody, r}
  <2>1. q \in Process /\ a \in BOOLEAN
    BY <1>1, FieldTyped, ProcessParts
  <2>2. [q EXCEPT !.asked = a] \in Process
    <3> HIDE DEF q, a
    <3> QED BY <2>1, FieldTyped
  <2>3. proc' = [proc EXCEPT ![r] = [q EXCEPT !.asked = a]]
    BY <1>1, <1>7 DEF BeatEnds
  <2>4. QED
    BY <1>1, <1>7, <2>2, <2>3 DEF BeatEnds, TypeOK, children
<1>8. QED
  BY <1>3, <1>4, <1>5, <1>6, <1>7 DEF Event

LEMMA SessionTyped ==
    ASSUME TypeOK, NEW s \in Sessions, Session(s)
    PROVE  TypeOK'
<1>1. /\ sess \in [Sessions -> Child] /\ state \in Procs \cup {Nobody}
      /\ tracked \in [Procs -> SUBSET Sessions] /\ known \in [Procs -> SUBSET Sessions]
  BY DEF TypeOK
<1>2. CASE External(s)
  BY <1>1, <1>2, ChildTyped DEF External, TypeOK, runners
<1>3. CASE Report(s)
  <2> DEFINE c == [sess[s] EXCEPT !.life = "up"]
             q == IF Alive(state) THEN state ELSE Nobody
  <2>1. c \in Child /\ q \in Procs \cup {Nobody}
    BY <1>1, ChildTyped
  <2>2. [c EXCEPT !.post = q] \in Child
    <3> HIDE DEF c, q
    <3> QED BY <2>1, ChildTyped
  <2>3. sess' = [sess EXCEPT ![s] = [c EXCEPT !.post = q]]
    BY <1>1, <1>3 DEF Report
  <2>4. QED
    BY <1>1, <1>3, <2>2, <2>3 DEF Report, TypeOK, runners
<1>4. CASE Hear(s)
  <2>1. sess[s].post \in Procs
    BY <1>1, <1>4 DEF Hear, Child
  <2>2. sess' \in [Sessions -> Child]
    BY <1>1, <1>4, ChildTyped DEF Hear
  <2>3. QED
    BY <1>1, <1>4, <2>1, <2>2 DEF Hear, TypeOK, runners
<1>5. CASE SpawnTimesOut(s)
  BY <1>5 DEF SpawnTimesOut, TypeOK, runners
<1>6. CASE HearExit(s)
  BY <1>1, <1>6 DEF HearExit, TypeOK, runners
<1>7. CASE AnswerFailure(s)
  <2> DEFINE t == IF sess[s].tree = "there" /\ sess[s].life = "dead" THEN "removed" ELSE sess[s].tree
  <2>1. t \in {"none", "there", "removed"}
    BY <1>1 DEF Child
  <2>2. sess' = [sess EXCEPT ![s].tree = t]
    BY <1>1, <1>7 DEF AnswerFailure
  <2>3. sess' \in [Sessions -> Child]
    <3> HIDE DEF t
    <3> QED BY <1>1, <2>1, <2>2, ChildTyped
  <2>4. QED
    BY <1>7, <2>3 DEF AnswerFailure, TypeOK, runners
<1>8. CASE End(s)
  BY <1>1, <1>8, ChildTyped DEF End, TypeOK, runners
<1>9. ASSUME NEW r \in Procs, Spawn(r, s) PROVE TypeOK'
  <2> PICK tree \in {"none", "there"} :
             sess' = [sess EXCEPT ![s] = [@ EXCEPT !.life = "starting", !.by = r, !.tree = tree]]
    BY <1>9 DEF Spawn
  <2> DEFINE c == [sess[s] EXCEPT !.life = "starting"]
             d == [c EXCEPT !.by = r]
  <2>1. c \in Child
    BY <1>1, ChildTyped
  <2>2. d \in Child
    <3> HIDE DEF c
    <3> QED BY <2>1, ChildTyped
  <2>3. [d EXCEPT !.tree = tree] \in Child
    <3> HIDE DEF d
    <3> QED BY <2>2, ChildTyped
  <2>4. sess' \in [Sessions -> Child]
    BY <1>1, <2>3
  <2>5. QED
    BY <1>1, <1>9, <2>4 DEF Spawn, TypeOK, runners
<1>10. ASSUME NEW r \in Procs, StopSession(r, s) PROVE TypeOK'
  BY <1>1, <1>10, ChildTyped DEF StopSession, TypeOK, runners
<1>11. QED
  BY <1>2, <1>3, <1>4, <1>5, <1>6, <1>7, <1>8, <1>9, <1>10 DEF Session

LEMMA RunnerTyped == Safety => []TypeOK
<1>1. ASSUME Init PROVE TypeOK
  <2>1. \A pc \in {"off", "gone"} :
           [pc |-> pc, seen |-> Nobody, tries |-> 0, asked |-> FALSE, beat |-> FALSE, ver |-> FALSE] \in Process
    BY RunnerAssumption DEF Process
  <2>2. [life |-> "none", by |-> Terminal, doomed |-> FALSE, post |-> Nobody, tree |-> "none"] \in Child
    BY DEF Child
  <2>3. proc \in [Procs -> Process]
    BY <1>1, <2>1 DEF Init
  <2>4. QED
    BY <1>1, <2>2, <2>3 DEF Init, TypeOK, Free
<1>2. TypeOK /\ [Next]_vars => TypeOK'
  <2> SUFFICES ASSUME TypeOK, [Next]_vars PROVE TypeOK'
    OBVIOUS
  <2>1. CASE UNCHANGED vars
    BY <2>1 DEF vars, TypeOK
  <2>2. CASE Upgrade \/ Look
    <3>1. CASE Upgrade
      BY <3>1 DEF Upgrade, TypeOK, files, children
    <3>2. CASE Look
      BY <3>2 DEF Look, TypeOK, files, children
    <3>3. QED
      BY <2>2, <3>1, <3>2
  <2>3. CASE CleanUp
    <3>1. Free \in [owner : Procs \cup {Nobody}, written : BOOLEAN]
      BY DEF Free
    <3>2. \A p \in Procs \cup {Nobody} : Alive(p) \in BOOLEAN
      BY DEF Alive
    <3>3. check.late \in BOOLEAN /\ state \in Procs \cup {Nobody} /\ lock.owner \in Procs \cup {Nobody}
      BY DEF TypeOK
    <3>4. check' \in [pc : {"idle", "unstate", "unlock"}, late : BOOLEAN]
      BY <2>3, <3>2, <3>3 DEF CleanUp
    <3>5. QED
      BY <2>3, <3>1, <3>4 DEF CleanUp, TypeOK, children
  <2>4. QED
    BY <2>1, <2>2, <2>3, StepTyped, OtherTyped, SessionTyped DEF Next
<1>3. QED
  BY <1>1, <1>2, PTL DEF Safety

-----------------------------------------------------------------------------
(* What the updates of a process leave alone. *)
LEMMA FieldsKept ==
    ASSUME NEW p \in Process
    PROVE  /\ \A pc : LET q == [p EXCEPT !.pc = pc] IN q = [p EXCEPT !.pc = pc] /\ q.pc = pc /\ q.seen = p.seen /\ q.asked = p.asked /\ q.beat = p.beat /\ q.ver = p.ver
           /\ \A x : LET q == [p EXCEPT !.seen = x] IN q.seen = x /\ q.pc = p.pc /\ q.asked = p.asked /\ q.beat = p.beat /\ q.ver = p.ver
           /\ \A x : LET q == [p EXCEPT !.tries = x] IN q.pc = p.pc /\ q.seen = p.seen /\ q.asked = p.asked /\ q.beat = p.beat /\ q.ver = p.ver
           /\ \A x : LET q == [p EXCEPT !.asked = x] IN q.asked = x /\ q.pc = p.pc /\ q.seen = p.seen /\ q.beat = p.beat /\ q.ver = p.ver
           /\ \A x : LET q == [p EXCEPT !.beat = x] IN q.beat = x /\ q.pc = p.pc /\ q.seen = p.seen /\ q.asked = p.asked /\ q.ver = p.ver
           /\ \A x : LET q == [p EXCEPT !.ver = x] IN q.ver = x /\ q.pc = p.pc /\ q.seen = p.seen /\ q.asked = p.asked /\ q.beat = p.beat
BY DEF Process

LEMMA GoneMeans ==
    ASSUME NEW p \in Process
    PROVE  LET q == Gone(p) IN q.pc = "gone" /\ q.seen = Nobody /\ ~q.asked /\ ~q.beat /\ q.ver = p.ver
BY DEF Process, Gone

LEMMA LaunchedMeans ==
    ASSUME NEW p \in Process
    PROVE  LET q == Launched(p) IN q.pc = "check" /\ q.seen = p.seen /\ q.asked = p.asked /\ q.beat = p.beat /\ q.ver = p.ver
BY DEF Process, Launched

LEMMA GoesMeans ==
    ASSUME proc \in [Procs -> Process], NEW r \in Procs, NEW pc, Goes(r, pc)
    PROVE  /\ proc'[r].pc = pc /\ proc'[r].seen = proc[r].seen /\ proc'[r].asked = proc[r].asked
           /\ proc'[r].beat = proc[r].beat /\ proc'[r].ver = proc[r].ver
           /\ \A p \in Procs \ {r} : proc'[p] = proc[p]
BY DEF Goes, Process

LEMMA BootMeans ==
    ASSUME proc \in [Procs -> Process], NEW r \in Procs, Boot(r)
    PROVE  /\ proc'[r].pc = "boot" /\ proc'[r].seen = proc[r].seen /\ proc'[r].asked = proc[r].asked
           /\ proc'[r].beat = proc[r].beat /\ proc'[r].ver = installed
           /\ \A p \in Procs \ {r} : proc'[p] = proc[p]
BY DEF Boot, Process

LEMMA SeesMeans ==
    ASSUME proc \in [Procs -> Process], NEW r \in Procs, NEW pc, NEW x, Sees(r, pc, x)
    PROVE  /\ proc'[r].pc = pc /\ proc'[r].seen = x /\ proc'[r].asked = proc[r].asked
           /\ proc'[r].beat = proc[r].beat /\ proc'[r].ver = proc[r].ver
           /\ \A p \in Procs \ {r} : proc'[p] = proc[p]
BY DEF Sees, Process

LEMMA EndsMeans ==
    ASSUME proc \in [Procs -> Process], NEW r \in Procs, Ends(r)
    PROVE  /\ proc'[r].pc = "gone" /\ proc'[r].seen = Nobody /\ ~proc'[r].asked
           /\ ~proc'[r].beat /\ proc'[r].ver = proc[r].ver
           /\ \A p \in Procs \ {r} : proc'[p] = proc[p]
BY GoneMeans DEF Ends

LEMMA TriedMeans ==
    ASSUME proc \in [Procs -> Process], NEW r \in Procs, Tried(r)
    PROVE  /\ \/ proc'[r].pc = "gone" /\ proc'[r].seen = Nobody /\ ~proc'[r].asked /\ ~proc'[r].beat
              \/ /\ proc'[r].pc = "lock" /\ proc'[r].seen = proc[r].seen
                 /\ proc'[r].asked = proc[r].asked /\ proc'[r].beat = proc[r].beat
           /\ proc'[r].ver = proc[r].ver
           /\ \A p \in Procs \ {r} : proc'[p] = proc[p]
BY EndsMeans DEF Tried, Process

-----------------------------------------------------------------------------
(* The handover.  While starts do not meet, no runner is told to stop from *)
(* outside and no clean-up came late, a runner is found through the state  *)
(* file from its boot to its shutdown, and a start comes to the lock only  *)
(* when no such runner is left.                                            *)
Undisturbed == scene \cap {"again", "stop"} = {} /\ ~check.late

InFile(r) == proc[r].pc \in {"boot", "up", "retired", "down", "unstate2"}

OneStart == \A p, q \in Procs : proc[p].pc \in Starting /\ proc[q].pc \in Starting => p = q

StateNames == \A r \in Procs : InFile(r) => state = r

LocksAlone == \A q, r \in Procs : proc[q].pc \in {"lock", "stale", "write", "auth"} => ~InFile(r)

CleansDead ==
    \A q, r \in Procs : proc[q].pc \in {"unstate", "unlock"} => ~InFile(r) /\ proc[r].pc # "unlock2"

StopsNamed == \A q, r \in Procs : proc[q].pc \in {"ask", "wait"} /\ InFile(r) => proc[q].seen = r

(* Only a runner that is out of date is asked to stop, and a start that    *)
(* does not wait for it is up to date: so no two runners are ever asked.   *)
StopsOutdated ==
    \A q, r \in Procs : proc[q].pc \in {"find", "ask"} /\ InFile(r) => ~proc[r].ver /\ installed

LeavesAsked == \A r \in Procs : proc[r].pc \in {"down", "unstate2", "unlock2", "release"} => proc[r].asked

AskedOutdated == \A r \in Procs : proc[r].asked => proc[r].pc \in Running /\ ~proc[r].ver /\ installed

(* A runner is up to date, or will be by the time of its boot. *)
Fresh(r) == proc[r].ver \/ (installed /\ proc[r].pc \in Starting \ {"boot"})

AskedAlone == \A p, r \in Procs : proc[p].asked /\ p # r /\ Alive(r) => Fresh(r)

(* The second release of a runner that leaves may free the lock of the     *)
(* next one; that one is up to date and will not be asked.                 *)
OwnsLock == \A r \in Procs : InFile(r) \/ proc[r].pc \in {"write", "auth"} => lock.owner = r \/ Fresh(r)

LetsGo ==
    \A q, r \in Procs :
        proc[r].pc = "unlock2" => lock.owner = r /\ state = Nobody /\ proc[q].pc \notin {"write", "auth"}

StaleDead == \A q \in Procs : proc[q].pc = "stale" => ~Alive(lock.owner)

BeatsUp == \A r \in Procs : proc[r].beat => proc[r].pc = "up" /\ proc[r].seen = r

NewAfter == \A r \in Procs : proc[r].ver => installed

Handing ==
    /\ OneStart /\ StateNames /\ LocksAlone /\ CleansDead /\ StopsNamed /\ StopsOutdated /\ LeavesAsked
    /\ AskedOutdated /\ AskedAlone /\ OwnsLock /\ LetsGo /\ StaleDead /\ BeatsUp /\ NewAfter

LEMMA AskStopMeans ==
    ASSUME proc \in [Procs -> Process], NEW r \in Procs, AskStop(r)
    PROVE  /\ proc'[r].pc = "wait" /\ proc'[r].seen = proc[r].seen /\ proc'[r].asked = proc[r].asked
           /\ proc'[r].beat = proc[r].beat /\ proc'[r].ver = proc[r].ver
           /\ \A p \in Procs \ {r} :
                 /\ proc'[p].pc = proc[p].pc /\ proc'[p].seen = proc[p].seen
                 /\ proc'[p].beat = proc[p].beat /\ proc'[p].ver = proc[p].ver
                 /\ proc[p].asked => proc'[p].asked
                 /\ proc'[p].asked => proc[p].asked \/ (p = state /\ Served(p))
<1>1. proc' = [p \in Procs |->
                   IF p = r THEN [proc[r] EXCEPT !.pc = "wait"]
                   ELSE IF p = state /\ Served(p) THEN [proc[p] EXCEPT !.asked = TRUE]
                   ELSE proc[p]]
  BY DEF AskStop
<1>2. \A p \in Procs : proc[p].asked \in BOOLEAN
  BY ProcessParts
<1>3. proc'[r] = [proc[r] EXCEPT !.pc = "wait"]
  BY <1>1
<1>4. ASSUME NEW p \in Procs \ {r}
      PROVE  /\ proc'[p].pc = proc[p].pc /\ proc'[p].seen = proc[p].seen
             /\ proc'[p].beat = proc[p].beat /\ proc'[p].ver = proc[p].ver
             /\ proc[p].asked => proc'[p].asked
             /\ proc'[p].asked => proc[p].asked \/ (p = state /\ Served(p))
  <2>1. CASE p = state /\ Served(p)
    <3>1. proc'[p] = [proc[p] EXCEPT !.asked = TRUE]
      BY <1>1, <1>4, <2>1
    <3>2. QED
      BY <2>1, <3>1 DEF Process
  <2>2. CASE ~(p = state /\ Served(p))
    BY <1>1, <1>2, <1>4, <2>2
  <2>3. QED
    BY <2>1, <2>2
<1>5. QED
  BY <1>3, <1>4 DEF Process

LEMMA AskStopHands == ASSUME TypeOK, Handing, NEW r \in Procs, AskStop(r) PROVE Handing'
<1>1. /\ proc \in [Procs -> Process] /\ lock.owner \in Procs \cup {Nobody}
      /\ \A p \in Procs : proc[p].pc \in {"off", "gone"} \cup Starting \cup Running
  BY ProcessParts DEF TypeOK, Pcs
<1>2. /\ proc'[r].pc = "wait" /\ proc'[r].seen = proc[r].seen
      /\ proc'[r].beat = proc[r].beat /\ proc'[r].ver = proc[r].ver
      /\ \A p \in Procs \ {r} :
            /\ proc'[p].pc = proc[p].pc /\ proc'[p].seen = proc[p].seen
            /\ proc'[p].beat = proc[p].beat /\ proc'[p].ver = proc[p].ver
  BY <1>1, AskStopMeans
<1>3. \A p \in Procs : proc[p].asked => proc'[p].asked
  BY <1>1, AskStopMeans
<1>4. \A p \in Procs : proc'[p].asked => proc[p].asked \/ (p # r /\ p = state /\ Served(p))
  BY <1>1, AskStopMeans
<1>5. proc[r].pc = "ask" /\ state' = state /\ installed' = installed /\ lock' = lock
  BY DEF AskStop, files
<1> USE Numbers DEF Alive, Starting, Running, InFile
<1>6. ASSUME NEW p \in Procs, p # r, p = state, Served(p)
      PROVE  /\ InFile(p) /\ proc[p].pc \in Running /\ ~proc[p].ver /\ installed /\ proc[r].seen = p
             /\ \A q \in Procs : proc[q].asked => p = q
  BY <1>5, <1>6 DEF Served, Handing, OneStart, StopsOutdated, StopsNamed, AskedAlone, Fresh
<1>7. OneStart' /\ StateNames' /\ LocksAlone' /\ CleansDead' /\ StopsNamed' /\ OwnsLock'
  BY <1>2, <1>5 DEF Handing, OneStart, StateNames, LocksAlone, CleansDead, StopsNamed, OwnsLock, Fresh
<1>8. LetsGo' /\ StaleDead' /\ NewAfter'
  BY <1>1, <1>2, <1>5 DEF Handing, LetsGo, StaleDead, NewAfter
<1>9. StopsOutdated' /\ BeatsUp'
  BY <1>2, <1>5 DEF Handing, StopsOutdated, BeatsUp
<1>10. LeavesAsked'
  BY <1>2, <1>3, <1>5 DEF Handing, LeavesAsked
<1>11. AskedOutdated'
  BY <1>2, <1>4, <1>5, <1>6 DEF Handing, AskedOutdated
<1>12. AskedAlone'
  <2>1. ASSUME NEW p \in Procs, NEW q \in Procs, proc'[p].asked, p # q, Alive(q)'
        PROVE  Fresh(q)'
    <3>1. CASE proc[p].asked
      BY <1>2, <1>5, <2>1, <3>1 DEF Handing, AskedAlone, Fresh
    <3>2. CASE p # r /\ p = state /\ Served(p)
      <4>1. CASE q = r
        BY <1>2, <1>5, <1>6, <3>2, <4>1 DEF Fresh
      <4>2. CASE q # r
        BY <1>1, <1>2, <1>5, <1>6, <2>1, <3>2, <4>2 DEF Handing, OneStart, StateNames, LeavesAsked
      <4>3. QED
        BY <4>1, <4>2
    <3>3. QED
      BY <1>4, <2>1, <3>1, <3>2
  <2>2. QED
    BY <2>1 DEF AskedAlone
<1>13. QED
  BY <1>7, <1>8, <1>9, <1>10, <1>11, <1>12 DEF Handing

LEMMA StepHands ==
    ASSUME TypeOK, TypeOK', Handing, NEW r \in Procs, Step(r)
    PROVE  Handing'
<1>1. /\ proc \in [Procs -> Process] /\ state \in Procs \cup {Nobody} /\ proc' \in [Procs -> Process]
      /\ lock.owner \in Procs \cup {Nobody} /\ installed \in BOOLEAN /\ \A p \in Procs : proc[p].ver \in BOOLEAN
  BY ProcessParts DEF TypeOK
<1> USE Numbers DEF Handing, OneStart, StateNames, LocksAlone, CleansDead, StopsNamed, StopsOutdated,
                    LeavesAsked, AskedOutdated, AskedAlone, OwnsLock, LetsGo, StaleDead, BeatsUp, NewAfter, Fresh,
                    InFile, Alive, files, Starting, Running
<1>2. CASE Check(r)
  BY <1>1, <1>2, SeesMeans DEF Check
<1>3. CASE Match(r)
  BY <1>1, <1>3, GoesMeans, EndsMeans DEF Match
<1>4. CASE RemoveState(r)
  BY <1>1, <1>4, GoesMeans DEF RemoveState
<1>5. CASE RemoveLock(r)
  BY <1>1, <1>5, GoesMeans DEF RemoveLock, Free
<1>6. CASE Find(r)
  BY <1>1, <1>6, SeesMeans DEF Find
<1>7. CASE AskStop(r)
  BY <1>7, AskStopHands
<1>8. CASE SeesDeath(r)
  BY <1>1, <1>8, GoesMeans DEF SeesDeath
<1>9. CASE Kill(r)
  BY <1>1, <1>9, FieldsKept, GoneMeans DEF Kill
<1>10. CASE Acquire(r)
  <2> proc[r].pc = "lock" /\ state' = state /\ installed' = installed
    BY <1>10 DEF Acquire
  <2>1. CASE lock = Free /\ lock' = [owner |-> r, written |-> FALSE] /\ Goes(r, "write")
    BY <1>1, <2>1, GoesMeans DEF Free
  <2>2. CASE ~Alive(lock.owner) /\ Goes(r, "stale") /\ UNCHANGED lock
    BY <1>1, <2>2, GoesMeans
  <2>3. CASE Tried(r) /\ UNCHANGED lock
    BY <1>1, <2>3, TriedMeans
  <2>4. QED
    BY <1>10, <2>1, <2>2, <2>3 DEF Acquire
<1>11. CASE RemoveStale(r)
  BY <1>1, <1>11, TriedMeans DEF RemoveStale, Free
<1>12. CASE WritePid(r)
  BY <1>1, <1>12, GoesMeans DEF WritePid
<1>13. CASE Boot(r)
  <2>1. proc[r].pc = "auth" /\ state' = r /\ lock' = lock /\ installed' = installed
    BY <1>13 DEF Boot
  <2>2. /\ proc'[r].pc = "boot" /\ proc'[r].seen = proc[r].seen /\ proc'[r].asked = proc[r].asked
        /\ proc'[r].beat = proc[r].beat /\ proc'[r].ver = installed
        /\ \A p \in Procs \ {r} : proc'[p] = proc[p]
    BY <1>1, <1>13, BootMeans
  <2>3. QED
    BY <1>1, <2>1, <2>2
<1>14. CASE Register(r)
  BY <1>1, <1>14, GoesMeans DEF Register
<1>15. CASE Retire(r)
  BY <1>1, <1>15, EndsMeans DEF Retire
<1>16. CASE ShutDown(r)
  BY <1>1, <1>16, GoesMeans DEF ShutDown
<1>17. CASE LeaveState(r)
  BY <1>1, <1>17, GoesMeans DEF LeaveState
<1>18. CASE LeaveLock(r)
  BY <1>1, <1>18, GoesMeans, EndsMeans DEF LeaveLock, Free
<1>19. QED
  BY <1>2, <1>3, <1>4, <1>5, <1>6, <1>7, <1>8, <1>9, <1>10, <1>11, <1>12, <1>13, <1>14, <1>15, <1>16, <1>17, <1>18
     DEF Step

(* A process enters the start where no other does, and one that was up may *)
(* retire.                                                                 *)
LEMMA LaunchHands ==
    ASSUME TypeOK, Handing, UNCHANGED <<installed, files>>,
           \A p \in Procs : proc[p].pc \notin Starting,
           \A p \in Procs :
              \/ proc'[p] = proc[p]
              \/ /\ proc[p].pc = "off" /\ proc'[p].pc = "check" /\ proc'[p].ver = proc[p].ver
                 /\ proc'[p].asked = proc[p].asked /\ proc'[p].beat = proc[p].beat
              \/ /\ proc[p].pc = "up" /\ proc'[p].pc = "retired" /\ proc'[p].ver = proc[p].ver
                 /\ proc'[p].asked = proc[p].asked /\ proc'[p].beat = proc[p].beat /\ ~proc[p].beat,
           \A p, q \in Procs : proc'[p].pc = "check" /\ proc'[q].pc = "check" => p = q
    PROVE  Handing'
<1>1. /\ lock.owner \in Procs \cup {Nobody} /\ installed \in BOOLEAN
      /\ \A p \in Procs : proc[p].pc \in {"off", "gone"} \cup Starting \cup Running
  BY ProcessParts DEF TypeOK, Pcs
<1>2. \A p \in Procs : /\ proc'[p].pc \in Starting => proc'[p].pc = "check"
                       /\ InFile(p)' <=> InFile(p)
                       /\ Alive(p)' /\ ~Alive(p) => proc'[p].pc = "check"
                       /\ proc'[p].ver = proc[p].ver
                       /\ proc'[p].asked = proc[p].asked /\ proc'[p].beat = proc[p].beat
                       /\ proc[p].asked => proc'[p].pc \in Running /\ Alive(p)
  BY Numbers DEF InFile, Starting, Running, Alive, Handing, AskedOutdated
<1> USE <1>2 DEF Handing, Starting, Running
<1>3. OneStart' /\ LocksAlone' /\ CleansDead' /\ StopsNamed' /\ StopsOutdated' /\ StaleDead'
  BY DEF OneStart, LocksAlone, CleansDead, StopsNamed, StopsOutdated, StaleDead
<1>4. StateNames' /\ OwnsLock'
  BY DEF StateNames, OwnsLock, Fresh, files, InFile, Alive
<1>5. LeavesAsked' /\ AskedOutdated'
  BY DEF LeavesAsked, AskedOutdated
<1>6. AskedAlone'
  BY <1>1 DEF AskedAlone, AskedOutdated, Fresh
<1>7. LetsGo' /\ BeatsUp' /\ NewAfter'
  BY <1>1 DEF LetsGo, BeatsUp, NewAfter, files
<1>8. QED
  BY <1>3, <1>4, <1>5, <1>6, <1>7

LEMMA EventHands ==
    ASSUME TypeOK, TypeOK', Handing, Undisturbed, NEW r \in Procs, Event(r) \/ Beat(r) \/ BeatEnds(r)
    PROVE  Handing'
<1>1. /\ proc \in [Procs -> Process] /\ lock.owner \in Procs \cup {Nobody} /\ state \in Procs \cup {Nobody}
      /\ installed \in BOOLEAN
      /\ \A p \in Procs : proc[p].ver \in BOOLEAN /\ proc[p].asked \in BOOLEAN /\ proc[p].beat \in BOOLEAN
  BY ProcessParts DEF TypeOK
<1>2. CASE Start(r)
  <2>1. proc'[r] = Launched(proc[r]) /\ \A p \in Procs \ {r} : proc'[p] = proc[p]
    BY <1>1, <1>2 DEF Start
  <2>2. /\ proc[r].pc = "off" /\ proc'[r].pc = "check" /\ proc'[r].ver = proc[r].ver
        /\ proc'[r].asked = proc[r].asked /\ proc'[r].beat = proc[r].beat
    BY <1>1, <1>2, <2>1, LaunchedMeans DEF Start
  <2>3. \A p \in Procs : proc[p].pc \notin Starting
    BY <1>2 DEF Start, Quiet, Undisturbed
  <2>4. \A p, q \in Procs : proc'[p].pc = "check" /\ proc'[q].pc = "check" => p = q
    BY <2>1, <2>3 DEF Starting
  <2>5. UNCHANGED <<installed, files>>
    BY <1>2 DEF Start, files
  <2>6. QED
    BY <2>1, <2>2, <2>3, <2>4, <2>5, LaunchHands
<1>3. CASE StartFails(r) \/ ForcedExit(r) \/ Crash(r)
  <2>1. Ends(r) /\ lock' = lock /\ state' = state /\ installed' = installed
    BY <1>3 DEF StartFails, ForcedExit, Crash, files
  <2>2. /\ proc'[r].pc = "gone" /\ ~proc'[r].asked /\ ~proc'[r].beat /\ proc'[r].ver = proc[r].ver
        /\ \A p \in Procs \ {r} : proc'[p] = proc[p]
    BY <1>1, <2>1, EndsMeans
  <2>3. QED
    BY <1>1, <2>1, <2>2, Numbers
       DEF Handing, OneStart, StateNames, LocksAlone, CleansDead, StopsNamed, StopsOutdated,
           LeavesAsked, AskedOutdated, AskedAlone, OwnsLock, LetsGo, StaleDead, BeatsUp, NewAfter, Fresh,
           InFile, Alive, Starting, Running
<1>4. CASE Signal(r)
  BY <1>4 DEF Signal, Undisturbed
<1>5. CASE Beat(r)
  <2>1. CASE proc[r].ver # installed
    <3> DEFINE next == {p \in Procs : proc[p].pc = "off" /\ \A q \in 1..(p - 1) : proc[q].pc # "off"}
    <3>1. proc' = [p \in Procs |-> IF p = r THEN [proc[r] EXCEPT !.pc = "retired"]
                                   ELSE IF p \in next THEN Launched(proc[p]) ELSE proc[p]]
      BY <1>5, <2>1 DEF Beat
    <3>2. \A p, q \in next : p = q
      BY DEF Procs
    <3>3. proc[r].pc = "up" /\ ~proc[r].beat /\ UNCHANGED <<installed, files>>
      BY <1>5 DEF Beat, files
    <3>4. \A p \in Procs : proc[p].pc \notin Starting
      BY <1>5, <2>1 DEF Beat, Quiet, Undisturbed
    <3>5. \A p \in next : /\ p # r /\ proc[p].pc = "off" /\ proc'[p].pc = "check" /\ proc'[p].ver = proc[p].ver
                          /\ proc'[p].asked = proc[p].asked /\ proc'[p].beat = proc[p].beat
      BY <1>1, <3>1, <3>3, LaunchedMeans
    <3>6. /\ proc'[r].pc = "retired" /\ proc'[r].ver = proc[r].ver
          /\ proc'[r].asked = proc[r].asked /\ proc'[r].beat = proc[r].beat
      <4>1. proc'[r] = [proc[r] EXCEPT !.pc = "retired"]
        BY <3>1
      <4>2. QED
        BY <1>1, <4>1 DEF Process
    <3>7. \A p \in Procs \ {r} : p \notin next => proc'[p] = proc[p]
      BY <3>1
    <3> HIDE DEF next
    <3>8. \A p, q \in Procs : proc'[p].pc = "check" /\ proc'[q].pc = "check" => p = q
      BY <3>2, <3>4, <3>6, <3>7 DEF Starting
    <3>9. QED
      BY <3>3, <3>4, <3>5, <3>6, <3>7, <3>8, LaunchHands
  <2>2. CASE proc[r].ver = installed
    <3>1. /\ proc'[r].pc = proc[r].pc /\ proc'[r].seen = state /\ proc'[r].asked = proc[r].asked
          /\ proc'[r].beat = TRUE /\ proc'[r].ver = proc[r].ver
          /\ \A p \in Procs \ {r} : proc'[p] = proc[p]
      BY <1>1, <1>5, <2>2 DEF Beat, Process
    <3>2. proc[r].pc = "up" /\ lock' = lock /\ state' = state /\ installed' = installed
      BY <1>5 DEF Beat, files
    <3>3. QED
      BY <1>1, <3>1, <3>2, Numbers
         DEF Handing, OneStart, StateNames, LocksAlone, CleansDead, StopsNamed, StopsOutdated,
             LeavesAsked, AskedOutdated, AskedAlone, OwnsLock, LetsGo, StaleDead, BeatsUp, NewAfter, Fresh,
             InFile, Alive, Starting, Running
  <2>3. QED
    BY <2>1, <2>2
<1>6. CASE BeatEnds(r)
  <2>1. proc[r].pc = "up" /\ proc[r].seen = r /\ state = r
    BY <1>6 DEF BeatEnds, Handing, BeatsUp, StateNames, InFile
  <2>2. lock' = lock /\ state' = state /\ installed' = installed
    BY <1>6, <2>1 DEF BeatEnds
  <2>3. /\ proc'[r].pc = proc[r].pc /\ proc'[r].seen = proc[r].seen /\ proc'[r].asked = proc[r].asked
        /\ proc'[r].beat = FALSE /\ proc'[r].ver = proc[r].ver
        /\ \A p \in Procs \ {r} : proc'[p] = proc[p]
    BY <1>1, <1>6, <2>1 DEF BeatEnds, Process
  <2>4. QED
    BY <1>1, <2>1, <2>2, <2>3, Numbers
       DEF Handing, OneStart, StateNames, LocksAlone, CleansDead, StopsNamed, StopsOutdated,
           LeavesAsked, AskedOutdated, AskedAlone, OwnsLock, LetsGo, StaleDead, BeatsUp, NewAfter, Fresh,
           InFile, Alive, Starting, Running
<1>7. QED
  BY <1>2, <1>3, <1>4, <1>5, <1>6 DEF Event

LEMMA CleanUpMeans ==
    ASSUME CleanUp
    PROVE  /\ check.late => check'.late
           /\ \/ check.pc = "unstate" /\ state' = Nobody /\ lock' = lock /\ (Alive(state) => check'.late)
              \/ check.pc = "unlock" /\ lock' = Free /\ state' = state /\ (Alive(lock.owner) => check'.late)
<1>1. CASE /\ check.pc = "unstate" /\ state' = Nobody /\ UNCHANGED lock
           /\ check' = [pc |-> "unlock", late |-> check.late \/ Alive(state)]
  <2>1. check'.late = (check.late \/ Alive(state))
    BY <1>1, Zenon
  <2>2. QED
    BY <1>1, <2>1, Zenon
<1>2. CASE /\ check.pc = "unlock" /\ lock' = Free /\ UNCHANGED state
           /\ check' = [pc |-> "idle", late |-> check.late \/ Alive(lock.owner)]
  <2>1. check'.late = (check.late \/ Alive(lock.owner))
    BY <1>2, Zenon
  <2>2. QED
    BY <1>2, <2>1, Zenon
<1>3. QED
  BY <1>1, <1>2, Zenon DEF CleanUp

(* Another command cleans up after a runner that is dead, and not late. *)
LEMMA CleanUpHands ==
    ASSUME TypeOK, Handing, CleanUp, ~check'.late
    PROVE  Handing'
<1>1. \/ state' = Nobody /\ lock' = lock /\ ~Alive(state)
      \/ lock' = Free /\ state' = state /\ ~Alive(lock.owner)
  BY CleanUpMeans
<1>2. /\ lock.owner \in Procs \cup {Nobody} /\ state \in Procs \cup {Nobody}
      /\ proc' = proc /\ installed' = installed
  BY DEF TypeOK, CleanUp
<1> USE Numbers DEF Handing, OneStart, StateNames, LocksAlone, CleansDead, StopsNamed, StopsOutdated,
                    LeavesAsked, AskedOutdated, AskedAlone, OwnsLock, LetsGo, StaleDead, BeatsUp, NewAfter, Fresh,
                    InFile, Alive, Starting, Running
<1>3. CASE state' = Nobody /\ lock' = lock /\ ~Alive(state)
  BY <1>2, <1>3
<1>4. CASE lock' = Free /\ state' = state /\ ~Alive(lock.owner)
  <2>1. lock'.owner = Nobody
    BY <1>4 DEF Free
  <2>2. QED
    BY <1>2, <1>4, <2>1
<1>5. QED
  BY <1>1, <1>3, <1>4

LEMMA RunnerHands == Safety => [](Undisturbed => Handing)
<1> DEFINE Inv == Undisturbed => Handing
<1>1. ASSUME Init PROVE Inv
  <2>1. \A p \in Procs : proc[p].pc \in {"off", "gone"} /\ ~proc[p].asked /\ ~proc[p].beat /\ ~proc[p].ver
    BY <1>1 DEF Init
  <2>2. Handing
    BY <2>1 DEF Handing, OneStart, StateNames, LocksAlone, CleansDead, StopsNamed, StopsOutdated,
                LeavesAsked, AskedOutdated, AskedAlone, OwnsLock, LetsGo, StaleDead, BeatsUp, NewAfter, Fresh,
                InFile, Alive, Starting
  <2>3. QED
    BY <1>1, <2>2 DEF Init
<1>2. TypeOK /\ TypeOK' /\ Inv /\ [Next]_vars => Inv'
  <2> SUFFICES ASSUME TypeOK, TypeOK', Inv, [Next]_vars, Undisturbed' PROVE Handing'
    OBVIOUS
  <2>1. scene' = scene /\ ~check'.late /\ Undisturbed /\ Handing
    <3>1. scene' = scene
      BY DEF Next, Step, Event, Session, Check, Match, RemoveState, RemoveLock, Find, AskStop, SeesDeath, Kill,
             Acquire, RemoveStale, WritePid, Boot, Register, Retire, ShutDown, LeaveState, LeaveLock,
             Start, StartFails, Signal, ForcedExit, Crash, Beat, BeatEnds, Upgrade, Look, CleanUp,
             External, Report, Hear, SpawnTimesOut, HearExit, AnswerFailure, End, Spawn, StopSession,
             runners, vars
    <3>2. CASE CleanUp
      BY <3>1, <3>2, CleanUpMeans DEF Undisturbed
    <3>3. CASE Look
      <4>1. check'.late = check.late
        BY <3>3 DEF Look, TypeOK
      <4>2. QED
        BY <3>1, <4>1 DEF Undisturbed
    <3>4. CASE check' = check
      BY <3>1, <3>4 DEF Undisturbed
    <3>5. QED
      BY <3>2, <3>3, <3>4
         DEF Next, Step, Event, Session, Check, Match, RemoveState, RemoveLock, Find, AskStop, SeesDeath, Kill,
             Acquire, RemoveStale, WritePid, Boot, Register, Retire, ShutDown, LeaveState, LeaveLock,
             Start, StartFails, Signal, ForcedExit, Crash, Beat, BeatEnds, Upgrade,
             External, Report, Hear, SpawnTimesOut, HearExit, AnswerFailure, End, Spawn, StopSession,
             runners, vars
  <2>2. ASSUME NEW r \in Procs, Step(r) \/ Event(r) \/ Beat(r) \/ BeatEnds(r)
        PROVE  Handing'
    BY <2>1, <2>2, StepHands, EventHands
  <2>3. CASE CleanUp
    BY <2>1, <2>3, CleanUpHands
  <2>4. CASE Upgrade \/ Look
    BY <2>1, <2>4 DEF Upgrade, Look, files, Handing, OneStart, StateNames, LocksAlone, CleansDead, StopsNamed, StopsOutdated,
           LeavesAsked, AskedOutdated, AskedAlone, OwnsLock, LetsGo, StaleDead, BeatsUp, NewAfter, Fresh, InFile, Alive
  <2>5. ASSUME UNCHANGED runners PROVE Handing'
    BY <2>1, <2>5 DEF runners, Handing, OneStart, StateNames, LocksAlone, CleansDead, StopsNamed, StopsOutdated,
           LeavesAsked, AskedOutdated, AskedAlone, OwnsLock, LetsGo, StaleDead, BeatsUp, NewAfter, Fresh, InFile, Alive
  <2>6. ASSUME NEW s \in Sessions, Session(s) PROVE Handing'
    <3>1. UNCHANGED runners
      BY <2>6 DEF Session, External, Report, Hear, SpawnTimesOut, HearExit, AnswerFailure, End, Spawn, StopSession
    <3>2. QED
      BY <2>5, <3>1
  <2>7. CASE UNCHANGED vars
    <3>1. UNCHANGED runners
      BY <2>7 DEF vars, runners
    <3>2. QED
      BY <2>1, <2>5, <3>1
  <2>8. QED
    BY <2>1, <2>2, <2>3, <2>4, <2>5, <2>6, <2>7 DEF Next
<1>3. QED
  BY <1>1, <1>2, RunnerTyped, PTL DEF Safety

(* Two runners never hold the lock at a time where starts do not meet, no  *)
(* runner is told to stop from outside, and no command that cleans up      *)
(* after a dead runner has removed a file of a live one: an upgrade, or a  *)
(* crash at any point, does not leave two behind.                          *)
THEOREM RunnerHandedOver == Spec => []HandedOver
<1>1. TypeOK /\ (Undisturbed => Handing) => HandedOver
  <2> SUFFICES ASSUME TypeOK, Undisturbed, Handing PROVE OneRunner
    BY DEF HandedOver, Undisturbed
  <2>1. \A p, q \in Holding : p = q
    BY Numbers DEF Holding, Handing, OneStart, StateNames, LocksAlone, LetsGo, InFile, Starting, Running
  <2>2. CASE Holding = {}
    BY <2>2, FS_EmptySet DEF OneRunner
  <2>3. CASE Holding # {}
    <3>1. PICK p \in Holding : TRUE
      BY <2>3
    <3>2. Holding = {p}
      BY <2>1, <3>1
    <3>3. Cardinality(Holding) = 1
      BY <3>2, FS_Singleton
    <3>4. QED
      BY <3>3 DEF OneRunner
  <2>4. QED
    BY <2>2, <2>3
<1>2. QED
  BY <1>1, RunnerTyped, RunnerHands, PTL DEF Spec

-----------------------------------------------------------------------------
(* The sessions.  A process never comes back. *)
Onward ==
    \A p \in Procs :
        /\ proc[p].pc # "off" => proc'[p].pc # "off"
        /\ proc[p].pc = "gone" => proc'[p].pc = "gone"

LEMMA StepOnward == ASSUME TypeOK, NEW r \in Procs, Step(r) PROVE Onward
<1>1. proc \in [Procs -> Process]
  BY DEF TypeOK
<1>2. CASE Check(r) \/ Find(r)
  BY <1>1, <1>2, SeesMeans DEF Check, Find, Onward
<1>3. CASE Match(r) \/ LeaveLock(r)
  BY <1>1, <1>3, GoesMeans, EndsMeans DEF Match, LeaveLock, Onward
<1>4. CASE RemoveState(r) \/ RemoveLock(r) \/ SeesDeath(r) \/ WritePid(r) \/ Boot(r) \/ Register(r)
           \/ ShutDown(r) \/ LeaveState(r)
  <2>1. CASE Boot(r)
    BY <1>1, <2>1, BootMeans DEF Boot, Onward
  <2>2. CASE ~Boot(r)
    BY <1>1, <1>4, <2>2, GoesMeans
       DEF RemoveState, RemoveLock, SeesDeath, WritePid, Register, ShutDown, LeaveState, Onward
  <2>3. QED
    BY <2>1, <2>2
<1>5. CASE AskStop(r)
  BY <1>1, <1>5, AskStopMeans DEF AskStop, Onward
<1>6. CASE Kill(r)
  BY <1>1, <1>6, FieldsKept, GoneMeans DEF Kill, Onward, Alive
<1>7. CASE Acquire(r) \/ RemoveStale(r)
  BY <1>1, <1>7, GoesMeans, TriedMeans DEF Acquire, RemoveStale, Onward
<1>8. CASE Retire(r)
  BY <1>1, <1>8, EndsMeans DEF Retire, Onward
<1>9. QED
  BY <1>2, <1>3, <1>4, <1>5, <1>6, <1>7, <1>8 DEF Step

LEMMA OtherOnward == ASSUME TypeOK, NEW r \in Procs, Event(r) \/ Beat(r) \/ BeatEnds(r) PROVE Onward
<1>1. proc \in [Procs -> Process]
  BY DEF TypeOK
<1>2. CASE Start(r)
  BY <1>1, <1>2, LaunchedMeans DEF Start, Onward
<1>3. CASE StartFails(r) \/ ForcedExit(r) \/ Crash(r)
  BY <1>1, <1>3, EndsMeans DEF StartFails, ForcedExit, Crash, Onward
<1>4. CASE Signal(r) \/ BeatEnds(r)
  <2>1. \A p \in Procs : proc'[p].pc = proc[p].pc
    BY <1>1, <1>4 DEF Signal, BeatEnds, Process
  <2>2. QED
    BY <2>1 DEF Onward
<1>5. CASE Beat(r)
  <2>1. CASE proc[r].ver # installed
    <3>1. proc[r].pc = "up" /\ proc'[r] = [proc[r] EXCEPT !.pc = "retired"]
      BY <1>1, <1>5, <2>1 DEF Beat
    <3>2. proc'[r].pc = "retired"
      BY <1>1, <3>1 DEF Process
    <3>3. \A p \in Procs \ {r} : proc'[p] = proc[p] \/ (proc[p].pc = "off" /\ proc'[p] = Launched(proc[p]))
      BY <1>1, <1>5, <2>1 DEF Beat
    <3>4. QED
      BY <1>1, <3>1, <3>2, <3>3, LaunchedMeans DEF Onward
  <2>2. CASE proc[r].ver = installed
    <3>1. \A p \in Procs : proc'[p].pc = proc[p].pc
      BY <1>1, <1>5, <2>2 DEF Beat, Process
    <3>2. QED
      BY <3>1 DEF Onward
  <2>3. QED
    BY <2>1, <2>2
<1>6. QED
  BY <1>2, <1>3, <1>4, <1>5 DEF Event

Started == \A s \in Sessions : sess[s].by # Terminal => proc[sess[s].by].pc # "off"

Kept == \A s \in Sessions : sess[s].tree = "removed" => sess[s].life = "dead"

Serving == Started /\ Kept /\ SuccessIsKnown

(* What the runners do, with or without pruning, keeps this. *)
LEMMA RunnersServe ==
    ASSUME TypeOK, Serving, Onward, sess' = sess, answer' = answer,
           \A r \in Procs : known'[r] = known[r] \/ known'[r] = known[r] \cap Pruned(r)
    PROVE  Serving'
<1>1. \A s \in Sessions : sess[s].by \in Procs \cup {Terminal}
  BY DEF TypeOK, Child
<1>2. Started'
  BY <1>1, Numbers DEF Serving, Started, Onward
<1>3. Kept'
  BY DEF Serving, Kept
<1>4. SuccessIsKnown'
  <2> SUFFICES ASSUME NEW s \in Sessions, answer[s] = "success", Alive(sess[s].by)', sess[s].life # "dead",
                      ~sess[s].doomed
               PROVE  s \in known'[sess[s].by]
    BY DEF SuccessIsKnown
  <2>1. sess[s].by \in Procs /\ Alive(sess[s].by)
    BY <1>1, Numbers DEF Alive, Serving, Started, Onward, Nobody, Terminal
  <2>2. s \in known[sess[s].by] /\ s \in tracked[sess[s].by]
    BY <2>1 DEF Serving, SuccessIsKnown, TypeOK
  <2>3. QED
    BY <2>1, <2>2 DEF Pruned
<1>5. QED
  BY <1>2, <1>3, <1>4 DEF Serving

(* What happens to a session. *)
LEMMA SessionServes ==
    ASSUME TypeOK, Serving, NEW s \in Sessions, Session(s)
    PROVE  Serving'
<1>1. /\ sess \in [Sessions -> Child] /\ known \in [Procs -> SUBSET Sessions]
      /\ tracked \in [Procs -> SUBSET Sessions] /\ answer \in [Sessions -> {"none", "awaited", "failed", "success", "error"}]
      /\ \A u \in Sessions : sess[u].by \in Procs \cup {Terminal} /\ sess[u].post \in Procs \cup {Nobody}
  BY DEF TypeOK, Child
<1>2. proc' = proc
  BY DEF Session, External, Report, Hear, SpawnTimesOut, HearExit, AnswerFailure, End, Spawn, StopSession, runners
<1> USE <1>1, <1>2 DEF Serving, Started, Kept, SuccessIsKnown, Alive
<1>3. CASE External(s)
  BY <1>3 DEF External, Child
<1>4. CASE Report(s)
  BY <1>4 DEF Report, Child
<1>5. CASE Hear(s)
  BY <1>5 DEF Hear, Child, Served
<1>6. CASE SpawnTimesOut(s)
  BY <1>6 DEF SpawnTimesOut
<1>7. CASE HearExit(s)
  BY <1>7 DEF HearExit
<1>8. CASE AnswerFailure(s)
  BY <1>8 DEF AnswerFailure, Child
<1>9. CASE End(s)
  BY <1>9 DEF End, Child
<1>10. ASSUME NEW r \in Procs, Spawn(r, s) PROVE Serving'
  BY <1>10 DEF Spawn, Child, Served
<1>11. ASSUME NEW r \in Procs, StopSession(r, s) PROVE Serving'
  BY <1>11 DEF StopSession, Child
<1>12. QED
  BY <1>3, <1>4, <1>5, <1>6, <1>7, <1>8, <1>9, <1>10, <1>11 DEF Session

LEMMA RunnerServes == Safety => []Serving
<1>1. Init => Serving
  BY Numbers DEF Init, Serving, Started, Kept, SuccessIsKnown
<1>2. TypeOK /\ TypeOK' /\ Serving /\ [Next]_vars => Serving'
  <2> SUFFICES ASSUME TypeOK, TypeOK', Serving, [Next]_vars PROVE Serving'
    OBVIOUS
  <2>1. ASSUME NEW r \in Procs, Step(r) \/ Event(r) \/ BeatEnds(r) PROVE Serving'
    <3>1. sess' = sess /\ answer' = answer /\ known' = known
      BY <2>1 DEF Step, Event, Check, Match, RemoveState, RemoveLock, Find, AskStop, SeesDeath, Kill,
             Acquire, RemoveStale, WritePid, Boot, Register, Retire, ShutDown, LeaveState, LeaveLock,
             Start, StartFails, Signal, ForcedExit, Crash, BeatEnds, children
    <3>2. QED
      BY <2>1, <3>1, StepOnward, OtherOnward, RunnersServe
  <2>2. ASSUME NEW r \in Procs, Beat(r) PROVE Serving'
    <3>1. sess' = sess /\ answer' = answer
      BY <2>2 DEF Beat
    <3>2. \A p \in Procs : known'[p] = known[p] \/ known'[p] = known[p] \cap Pruned(p)
      BY <2>2 DEF Beat, TypeOK
    <3>3. QED
      BY <2>2, <3>1, <3>2, OtherOnward, RunnersServe
  <2>3. ASSUME UNCHANGED <<proc, children>> PROVE Serving'
    BY <2>3 DEF children, Serving, Started, Kept, SuccessIsKnown, Alive
  <2>4. CASE Upgrade \/ Look \/ CleanUp \/ UNCHANGED vars
    <3>1. UNCHANGED <<proc, children>>
      BY <2>4 DEF Upgrade, Look, CleanUp, vars, children
    <3>2. QED
      BY <2>3, <3>1
  <2>5. QED
    BY <2>1, <2>2, <2>4, SessionServes DEF Next
<1>3. QED
  BY <1>1, <1>2, RunnerTyped, PTL DEF Safety

(* A runner that answered success for a session knows its id as long as it *)
(* runs, whatever came between the report and the answer, and whatever the *)
(* heartbeat pruned.                                                       *)
THEOREM RunnerSuccessIsKnown == Spec => []SuccessIsKnown
<1>1. Serving => SuccessIsKnown
  BY DEF Serving
<1>2. QED
  BY <1>1, RunnerServes, PTL DEF Spec

(* The worktree of a session is removed only when its process is dead.     *)
THEOREM RunnerTreeKept == Spec => []TreeKept
<1>1. Serving => TreeKept
  BY DEF Serving, Kept, TreeKept
<1>2. QED
  BY <1>1, RunnerServes, PTL DEF Spec

(* Every variable keeps its type, for any number of processes and sessions.*)
THEOREM RunnerTypeCorrect == Spec => []TypeOK
BY RunnerTyped, PTL DEF Spec
=============================================================================
