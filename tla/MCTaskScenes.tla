---------------------------- MODULE MCTaskScenes ----------------------------
(* TLC instances of TaskBoard that start in one of several scenes: which   *)
(* tasks matter, and which agents, faults and users take part.  The scenes *)
(* are told apart by the tasks that are retired in them, as nothing takes  *)
(* a finished task out of the archive.                                     *)
EXTENDS MCTaskBoard

(* A task that was finished and archived before: no action touches it. *)
Retired(t) == [NewTask(t) EXCEPT !.status = "done", !.archived = TRUE]

(* A task that the user has moved to review. *)
UnderReview(t) == SetStatus(NewTask(t), "review")

Scheduler == TickStep \/ PeriodicTick \/ \E a \in Actors : StartStep(a)

Alive(s) == Heartbeat(s) \/ StartTurn(s) \/ Ready(s) \/ ReadyWithoutReply(s)

Noticed(s) == sess[s].proc = "dead" /\ BecomeInactive(s)

-----------------------------------------------------------------------------
(* No user takes part: sessions work, and the faults of the instance.      *)
Agents ==
    \/ Scheduler \/ RunnerStops \/ RunnerReady
    \/ \E s \in Sessions : Alive(s) \/ Die(s) \/ Noticed(s)
    \/ \E s \in Sessions, pkt \in Packets : EndTurn(s, pkt)

AgentsSpec == Init /\ [][Agents]_vars /\ Fairness

(* Scene "pair": two tasks, whose turns all report done or blocked and are *)
(* heard.  Scene "alone": one task, with every packet of the instance,     *)
(* silent turns and ignored ready events.                                  *)
Pair == ~task[g2].archived

SettleInit ==
    \/ Init
    \/ InitFrom([t \in Tasks |-> IF t = g1 THEN NewTask(t) ELSE Retired(t)])

SettleNext ==
    \/ Scheduler
    \/ \E s \in Sessions : Heartbeat(s) \/ StartTurn(s) \/ Ready(s)
    \/ \E s \in Sessions : ~Pair /\ ReadyWithoutReply(s)
    \/ \E s \in Sessions, pkt \in {"done", "blocked"} : Pair /\ EndTurn(s, pkt)
    \/ \E s \in Sessions, pkt \in Packets : ~Pair /\ EndTurn(s, pkt)
    \/ \E s \in Sessions : Die(s) \/ Noticed(s)

SettleSpec == SettleInit /\ [][SettleNext]_vars /\ Fairness

-----------------------------------------------------------------------------
(* Scene "work": both tasks run from the start, and agents are interrupted *)
(* or die.  Scene "silent": g1 awaits its evaluator, and sessions may      *)
(* report nothing.                                                         *)
CoreInit ==
    \/ InitFrom([t \in Tasks |-> NewTask(t)])
    \/ InitFrom([t \in Tasks |-> IF t = g1 THEN UnderReview(t) ELSE Retired(t)])

Silent == task[p1].archived

CoreNext ==
    \/ Scheduler
    \/ \E s \in Sessions : Alive(s) \/ Interrupt(s) \/ Die(s) \/ Noticed(s)
    \/ \E s \in Sessions, pkt \in Packets : ~Silent /\ EndTurn(s, pkt)
    \/ \E s \in Sessions, pkt \in {"done", "none"} : Silent /\ EndTurn(s, pkt)

CoreSafety == CoreInit /\ [][CoreNext]_vars

-----------------------------------------------------------------------------
(* Scene "switches": the user pauses, archives, renames and deletes around *)
(* the goal's task, the runner stops and the hub restarts.  Scene          *)
(* "prompts": the user prompts, starts and moves the plain task, whose     *)
(* sessions also lose their connection, and are deleted.  Scene "hold":    *)
(* the user pauses and resumes the goal while one tick starts an evaluator *)
(* for g1 and a generator for g2.                                          *)
UsersInit ==
    \/ InitFrom([t \in Tasks |-> IF t = g1 THEN NewTask(t) ELSE Retired(t)])
    \/ InitFrom([t \in Tasks |-> IF t = p1 THEN NewTask(t) ELSE Retired(t)])
    \/ InitFrom([t \in Tasks |-> CASE t = g1 -> UnderReview(t) [] t = g2 -> NewTask(t)
                                    [] OTHER -> Retired(t)])

Prompts == ~task[p1].archived
Hold == ~task[g2].archived
Switches == ~Prompts /\ ~Hold

UsersNext ==
    \/ Scheduler
    \/ \E s \in Sessions : Alive(s)
    \/ \E s \in Sessions, pkt \in Packets : ~Prompts /\ EndTurn(s, pkt)
    \/ \E s \in Sessions : Switches /\ Die(s)
    \/ \E s \in Sessions : Switches /\ Noticed(s)
    \/ \E t \in Tasks : Switches /\ UserArchive(t)
    \/ \E s \in Sessions : Switches /\ UserRename(s)
    \/ \E s \in Sessions : ~Hold /\ UserDelete(s)
    \/ ~Prompts /\ UserPause
    \/ Switches /\ UserAutoRun
    \/ Switches /\ RunnerStops
    \/ Switches /\ RunnerReady
    \/ Switches /\ Restart
    \/ \E s \in Sessions : Switches /\ Reload(s)
    \/ \E s \in Sessions : Prompts /\ EndTurn(s, "done")
    \/ \E s \in Sessions : Prompts /\ BecomeInactive(s)
    \/ \E t \in Tasks, st \in Statuses : Prompts /\ UserMove(t, st)
    \/ \E t \in Tasks : Prompts /\ UserStart(t)
    \/ \E s \in Sessions : Prompts /\ UserPrompt(s)

UsersSafety == UsersInit /\ [][UsersNext]_vars
=============================================================================
