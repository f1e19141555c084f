----------------------------- MODULE RemoteAgent -----------------------------
(***************************************************************************)
(* The process of one Claude session on the machine: the prompts that wait *)
(* (MessageQueue2), the launcher that hands them to one agent process      *)
(* after the other, the permission that the agent waits for, and the       *)
(* messages on their way to the hub (OutgoingMessageQueue).  A session is  *)
(* either remote, driven by prompts, or local, driven from its terminal.   *)
(*                                                                         *)
(* One step is one turn of the event loop.  What the launcher does without *)
(* waiting for anything outside takes several steps, between which only    *)
(* the rest of a page of prompts may arrive (see Settled).                 *)
(***************************************************************************)
EXTENDS Naturals, Sequences, FiniteSets

CONSTANTS
    Models,        \* what the hash of a prompt's mode tells apart
    MaxPrompts,    \* bound on the prompts that arrive
    MaxCalls,      \* bound on the tool calls of the agents
    Scenes         \* which of the following may happen in a behaviour

NoModel == "none"

ASSUME BoundsAssumption ==
    /\ Models # {} /\ NoModel \notin Models
    /\ MaxPrompts \in Nat /\ MaxCalls \in Nat
    /\ Scenes \subseteq SUBSET {"local", "special", "crash", "abort", "switch", "tool", "plan", "early", "say", "bypass"}

VARIABLES
    arrived,   \* number of prompts that arrived
    queue,     \* MessageQueue2.queue
    run,       \* the launcher: pc, pending, hash, proc, relay, fate, exit
    turn,      \* the turn in flight, or the last one: live, ids, hash, said, reply, over
    perm,      \* permissionMode: "ask" or "bypass"
    call,      \* the agent's tool calls: count, open, known, plans, refused, base, late, ask
    shown,     \* the requests in the agent state, which the user sees
    out,       \* OutgoingMessageQueue.queue with its timer
    taken,     \* history: prompts that were handed over
    dropped,   \* history: prompts that the user discarded, or that left with their launcher
    scene      \* the choice of this behaviour

vars == <<arrived, queue, run, turn, perm, call, shown, out, taken, dropped, scene>>

Perms == {"ask", "bypass"}
NoCall == 0

(* The plan's restart prompt has the number 0. *)
Prompt == [id : 0..MaxPrompts, hash : Models, perm : Perms, kind : {"text", "compact", "clear"}]
Alone(p) == p.kind # "text"
Ids(s) == {s[i].id : i \in DOMAIN s} \ {0}

Run == [pc : {"enter", "local", "leave", "launch", "first", "init", "turn", "next", "gone"},
        pending : Seq(Prompt),
        hash : Models \cup {NoModel}, proc : Models \cup {NoModel}, relay : BOOLEAN,
        fate : {"alive", "aborted", "crashed"}, exit : {"none", "switch", "exit"}]

Turn == [live : BOOLEAN, ids : SUBSET (1..MaxPrompts), hash : Models \cup {NoModel},
         said : BOOLEAN, reply : BOOLEAN,
         over : {"open", "announced", "refused", "cleared", "left", "silent"}]

Calling == [count : 0..MaxCalls, open : SUBSET (1..MaxCalls), known : SUBSET (1..MaxCalls),
            plans : SUBSET (1..MaxCalls), refused : SUBSET (1..MaxCalls),
            base : 0..MaxCalls, late : 0..MaxCalls, ask : 0..MaxCalls]

Item == [kind : {"text", "call", "result"}, call : 0..MaxCalls, held : BOOLEAN]
Out == [items : Seq(Item), armed : BOOLEAN]

TypeOK ==
    /\ arrived \in 0..MaxPrompts
    /\ queue \in Seq(Prompt)
    /\ run \in Run /\ turn \in Turn /\ call \in Calling /\ out \in Out
    /\ perm \in Perms
    /\ shown \subseteq 1..MaxCalls
    /\ taken \subseteq 1..arrived /\ dropped \subseteq 1..arrived
    /\ scene \in Scenes

NoTurn == [live |-> FALSE, ids |-> {}, hash |-> NoModel, said |-> FALSE, reply |-> FALSE, over |-> "left"]

Init ==
    /\ scene \in Scenes
    /\ arrived = 0 /\ queue = <<>> /\ taken = {} /\ dropped = {} /\ shown = {}
    /\ run = [pc |-> IF "local" \in scene THEN "enter" ELSE "launch", pending |-> <<>>,
              hash |-> NoModel, proc |-> NoModel, relay |-> FALSE, fate |-> "alive", exit |-> "none"]
    /\ turn = NoTurn
    /\ perm = "ask"
    /\ call = [count |-> 0, open |-> {}, known |-> {}, plans |-> {}, refused |-> {}, base |-> 0, late |-> NoCall, ask |-> NoCall]
    /\ out = [items |-> <<>>, armed |-> FALSE]

-----------------------------------------------------------------------------
(* The launcher is at rest: it waits for a prompt, for the agent, or for a *)
(* timer.                                                                  *)
Settled ==
    /\ run.pc # "launch"
    /\ ~(run.pc \in {"first", "next"} /\ queue # <<>>)
    /\ ~(run.pc = "turn" /\ run.fate # "alive")
    /\ ~(run.pc = "next" /\ run.fate = "aborted")

(* collectBatch: a command alone, or the longest prefix of one mode. *)
Batch(q) ==
    LET together == {k \in 1..Len(q) : \A i \in 1..k : q[i].hash = q[1].hash /\ ~Alone(q[i])}
        size == IF Alone(q[1]) THEN 1 ELSE Cardinality(together)
    IN SubSeq(q, 1, size)

Rest(q) == SubSeq(q, Len(Batch(q)) + 1, Len(q))

(* Append to the outgoing queue, and arm its timer; release a call's items. *)
Sends(o, kind, c, held) ==
    [items |-> Append(o.items, [kind |-> kind, call |-> c, held |-> held]), armed |-> TRUE]

Freed(o, c) ==
    [items |-> [i \in DOMAIN o.items |-> IF o.items[i].call = c THEN [o.items[i] EXCEPT !.held = FALSE] ELSE o.items[i]],
     armed |-> TRUE]

(* The prompts b become the turn; their permission mode replaces that of   *)
(* the session, and the turn before is forgotten.                          *)
Begun(b) ==
    [live |-> TRUE, ids |-> Ids(b), hash |-> b[1].hash,
     said |-> FALSE, reply |-> FALSE, over |-> "open"]

(* emitReadyForInFlightTurn. *)
Announced == IF turn.live THEN [turn EXCEPT !.live = FALSE, !.over = "announced"] ELSE turn

(* Mutant: an error is not announced. *)
FinishedQuietly(thrown, over) ==
    LET last == IF run.exit = "none" /\ run.fate = "aborted" THEN Announced ELSE turn
    IN IF last.live THEN [last EXCEPT !.live = FALSE, !.over = IF run.exit = "none" THEN over ELSE "left"] ELSE last

(* What becomes of the turn when a launch ends: one that an abort or an    *)
(* error ended is announced, unless the launcher exits; over says what     *)
(* becomes of any other.                                                   *)
Finished(thrown, over) ==
    LET ready == run.exit = "none" /\ (thrown \/ run.fate = "aborted")
        last == IF ready THEN Announced ELSE turn
    IN IF last.live THEN [last EXCEPT !.live = FALSE, !.over = IF run.exit = "none" THEN over ELSE "left"] ELSE last

(* The launcher goes on to its next launch, to the local session, or ends. *)
Idling == [run EXCEPT !.hash = NoModel, !.proc = NoModel, !.relay = FALSE, !.fate = "alive", !.exit = "none"]

(* Mutant: the pending batch is forgotten. *)
RelaunchedAnew(pending) ==
    [Idling EXCEPT !.pc = CASE run.exit = "none" -> "launch" [] run.exit = "switch" -> "enter" [] OTHER -> "gone"]

Relaunched(pending) ==
    [Idling EXCEPT !.pc = CASE run.exit = "none" -> "launch" [] run.exit = "switch" -> "enter" [] OTHER -> "gone",
                   !.pending = IF run.exit = "none" THEN pending ELSE <<>>]

(* A launch ends, in the finally block of runMainLoop: what is left to say *)
(* is said, no call stays open, and no request is shown.  A prompt that    *)
(* waits for the next launch is lost with the launcher.                    *)
EndLaunch(thrown, pending, over) ==
    /\ turn' = Finished(thrown, over)
    /\ run' = Relaunched(pending)
    /\ dropped' = IF run.exit = "none" THEN dropped ELSE dropped \cup Ids(pending)
    /\ call' = [call EXCEPT !.open = {}, !.known = {}, !.plans = {}, !.refused = {}, !.base = call.count, !.ask = NoCall]
    /\ shown' = {}
    /\ out' = [items |-> <<>>, armed |-> FALSE]

(* The first prompt of a launch starts a process in its mode.  A batch     *)
(* that waited as pending does not set modeHash.  /clear starts nothing.   *)
Start(b, waited) ==
    /\ perm' = b[1].perm
    /\ taken' = taken \cup Ids(b)
    /\ IF b[1].kind = "clear"
       THEN /\ turn' = [Begun(b) EXCEPT !.live = FALSE, !.over = "cleared"]
            /\ run' = [run EXCEPT !.pc = "launch", !.pending = <<>>]
       ELSE /\ turn' = Begun(b)
            /\ run' = [run EXCEPT !.pc = "init", !.pending = <<>>, !.proc = b[1].hash, !.relay = waited,
                                  !.hash = IF waited THEN NoModel ELSE b[1].hash]

Launching == run.pc = "launch" \/ (run.pc = "first" /\ queue # <<>>)

LaunchPending ==
    /\ Launching /\ run.pending # <<>>
    /\ Start(run.pending, TRUE)
    /\ UNCHANGED <<arrived, queue, call, shown, out, dropped, scene>>

LaunchQueued ==
    /\ Launching /\ run.pending = <<>> /\ queue # <<>> /\ ~Alone(queue[1])
    /\ Start(Batch(queue), FALSE)
    /\ queue' = Rest(queue)
    /\ UNCHANGED <<arrived, call, shown, out, dropped, scene>>

(* A command waits for a launch of its own. *)
LaunchAlone ==
    /\ Launching /\ run.pending = <<>> /\ queue # <<>> /\ Alone(queue[1])
    /\ run' = [run EXCEPT !.pc = "launch", !.pending = Batch(queue)]
    /\ queue' = Rest(queue)
    /\ UNCHANGED <<arrived, turn, perm, call, shown, out, taken, dropped, scene>>

AwaitPrompt ==
    /\ run.pc = "launch" /\ run.pending = <<>> /\ queue = <<>>
    /\ run' = [run EXCEPT !.pc = "first"]
    /\ UNCHANGED <<arrived, queue, turn, perm, call, shown, out, taken, dropped, scene>>

Launch == LaunchPending \/ LaunchQueued \/ LaunchAlone \/ AwaitPrompt

(* Mutant: the mode of the next prompt is not compared. *)
NextPromptAnyMode ==
    /\ run.pc = "next" /\ queue # <<>>
    /\ queue' = Rest(queue)
    /\ LET b == Batch(queue)
       IN IF Alone(b[1])
          THEN /\ EndLaunch(FALSE, b, "silent")
               /\ UNCHANGED <<perm, taken>>
          ELSE /\ run' = [run EXCEPT !.hash = b[1].hash, !.pc = IF run.fate = "alive" THEN "init" ELSE "turn"]
               /\ perm' = b[1].perm
               /\ turn' = Begun(b)
               /\ taken' = taken \cup Ids(b)
               /\ UNCHANGED <<call, shown, out, dropped>>
    /\ UNCHANGED <<arrived, scene>>

(* The next prompt goes to the same process, dead or alive, or ends it.    *)
NextPrompt ==
    /\ run.pc = "next" /\ queue # <<>>
    /\ queue' = Rest(queue)
    /\ LET b == Batch(queue)
       IN IF Alone(b[1]) \/ (run.hash # NoModel /\ b[1].hash # run.hash)
          THEN /\ EndLaunch(FALSE, b, "silent")
               /\ UNCHANGED <<perm, taken>>
          ELSE /\ run' = [run EXCEPT !.hash = b[1].hash, !.pc = IF run.fate = "alive" THEN "init" ELSE "turn"]
               /\ perm' = b[1].perm
               /\ turn' = Begun(b)
               /\ taken' = taken \cup Ids(b)
               /\ UNCHANGED <<call, shown, out, dropped>>
    /\ UNCHANGED <<arrived, scene>>

(* The launcher notices that its process is gone. *)
Perish ==
    /\ \/ run.pc = "turn" /\ run.fate # "alive" /\ EndLaunch(TRUE, <<>>, "silent")
       \/ run.pc = "next" /\ run.fate = "aborted" /\ queue = <<>> /\ EndLaunch(FALSE, <<>>, "silent")
    /\ UNCHANGED <<arrived, queue, perm, taken, scene>>

-----------------------------------------------------------------------------
(* While a permission is awaited, nothing more of the process is read; a   *)
(* process before this one may still be looking for its call.              *)
Blocked == call.ask # NoCall \/ call.late > call.base

(* The agent calls a tool.  The message with the call is sent at once or   *)
(* held back for a moment.                                                 *)
Calls(c, held) ==
    /\ call' = [call EXCEPT !.count = c, !.open = call.open \cup {c}, !.known = call.known \cup {c}]
    /\ out' = Sends(out, "call", c, held)

(* The result message ends the turn: onReady, if no prompt waits. *)
EndOfTurn ==
    /\ turn' = IF queue = <<>> THEN Announced ELSE turn
    /\ run' = [run EXCEPT !.pc = "next"]

(* The process has written its session file, and the launcher reads on:    *)
(* also what a process that is dead by now had said before.                *)
FileFound ==
    /\ run.pc = "init"
    /\ \/ /\ run' = [run EXCEPT !.pc = "turn"]
          /\ \/ call.late > call.count /\ \E held \in BOOLEAN : Calls(call.late, held)
             \/ call.late <= call.count /\ UNCHANGED <<call, out>>
          /\ UNCHANGED turn
       \/ /\ run.fate # "alive" /\ ~Blocked
          /\ EndOfTurn
          /\ UNCHANGED <<call, out>>
    /\ UNCHANGED <<arrived, queue, perm, shown, taken, dropped, scene>>

Reading == Settled /\ run.pc = "turn" /\ ~Blocked

Say ==
    /\ "say" \in scene /\ Reading /\ ~turn.said
    /\ turn' = [turn EXCEPT !.said = TRUE]
    /\ out' = Sends(out, "text", NoCall, FALSE)
    /\ UNCHANGED <<arrived, queue, run, perm, call, shown, taken, dropped, scene>>

Use ==
    /\ "tool" \in scene /\ Reading
    /\ call.count < MaxCalls
    /\ \E held \in BOOLEAN : Calls(call.count + 1, held)
    /\ UNCHANGED <<arrived, queue, run, turn, perm, shown, taken, dropped, scene>>

UsePlan ==
    /\ "plan" \in scene /\ Reading
    /\ call.count < MaxCalls
    /\ call' = [call EXCEPT !.count = call.count + 1, !.open = call.open \cup {call.count + 1},
                            !.known = call.known \cup {call.count + 1}, !.plans = call.plans \cup {call.count + 1}]
    /\ out' = Sends(out, "call", call.count + 1, FALSE)
    /\ UNCHANGED <<arrived, queue, run, turn, perm, shown, taken, dropped, scene>>

(* handlePermissionRequest: the user is asked, and sees the call. *)
Asked(c) ==
    /\ call' = [call EXCEPT !.known = call.known \ {c}, !.late = NoCall, !.ask = c]
    /\ shown' = shown \cup {c}
    /\ out' = Freed(out, c)

Ask ==
    /\ Reading /\ perm = "ask"
    /\ \E c \in call.known : Asked(c)
    /\ UNCHANGED <<arrived, queue, run, turn, perm, taken, dropped, scene>>

(* The request is read before the message with its call: handleToolCall    *)
(* looks again after a second, when the process may be another one.        *)
EarlyAsk ==
    /\ "early" \in scene /\ run.pc = "init" /\ run.fate = "alive" /\ ~Blocked
    /\ perm = "ask" /\ call.count < MaxCalls
    /\ call' = [call EXCEPT !.late = call.count + 1]
    /\ UNCHANGED <<arrived, queue, run, turn, perm, shown, out, taken, dropped, scene>>

LateAsk ==
    /\ Settled
    /\ call.late # NoCall
    /\ \/ call.late \in call.known /\ Asked(call.late)
       \/ call.late \notin call.known /\ call' = [call EXCEPT !.late = NoCall] /\ UNCHANGED <<shown, out>>
    /\ UNCHANGED <<arrived, queue, run, turn, perm, taken, dropped, scene>>

(* The tool's result; one that the user refused, and any plan, ends the    *)
(* launch in the middle of the turn.                                       *)
ToolResult ==
    /\ Reading
    /\ \E c \in call.open :
          IF c \in call.refused \cup call.plans
          THEN EndLaunch(FALSE, <<>>, "refused")
          ELSE /\ call' = [call EXCEPT !.open = call.open \ {c}, !.known = call.known \ {c}]
               /\ out' = Sends(Freed(out, c), "result", c, FALSE)
               /\ UNCHANGED <<run, turn, shown, dropped>>
    /\ UNCHANGED <<arrived, queue, perm, taken, scene>>

Result ==
    /\ Reading
    /\ EndOfTurn
    /\ UNCHANGED <<arrived, queue, perm, call, shown, out, taken, dropped, scene>>

(* The process dies, which the launcher notices only when it reads. *)
Crash ==
    /\ "crash" \in scene
    /\ run.pc \in {"init", "turn", "next"} /\ Settled /\ run.fate = "alive"
    /\ run' = [run EXCEPT !.fate = "crashed"]
    /\ UNCHANGED <<arrived, queue, turn, perm, call, shown, out, taken, dropped, scene>>

-----------------------------------------------------------------------------

(* The message queue's timer: what stands before the first held message is *)
(* sent, and a reply that is sent during a turn counts as the turn's.      *)
Deliver ==
    /\ Settled /\ out.armed
    /\ LET n == Cardinality({k \in 1..Len(out.items) : \A i \in 1..k : ~out.items[i].held})
           texts == {i \in 1..n : out.items[i].kind = "text"}
       IN /\ out' = [items |-> SubSeq(out.items, n + 1, Len(out.items)), armed |-> FALSE]
          /\ turn' = [turn EXCEPT !.reply = turn.reply \/ (turn.live /\ texts # {})]
    /\ UNCHANGED <<arrived, queue, run, perm, call, shown, taken, dropped, scene>>

(* A held message has waited long enough. *)
Expire ==
    /\ Settled
    /\ \E i \in DOMAIN out.items :
          /\ out.items[i].held
          /\ out' = [items |-> [out.items EXCEPT ![i].held = FALSE], armed |-> TRUE]
    /\ UNCHANGED <<arrived, queue, run, turn, perm, call, shown, taken, dropped, scene>>

-----------------------------------------------------------------------------

(* Mutant: a prompt is put before the others. *)
PushInFront(p) == IF Alone(p) THEN <<p>> ELSE <<p>> \o queue

(* MessageQueue2.push, and pushIsolateAndClear for a command. *)
Push(p) == IF Alone(p) THEN <<p>> ELSE Append(queue, p)

(* A prompt arrives, alone or in a page, with the session's permission     *)
(* mode; a command discards those that wait.  A local session switches.    *)
Receive ==
    /\ arrived < MaxPrompts
    /\ Settled \/ (run.pc \in {"first", "next"} /\ run.fate # "aborted")
    /\ run.pc # "gone"
    /\ arrived' = arrived + 1
    /\ \E hash \in Models, kind \in {"text", "compact", "clear"} :
          LET p == [id |-> arrived + 1, hash |-> hash, perm |-> perm, kind |-> kind]
          IN /\ Alone(p) => "special" \in scene
             /\ queue' = Push(p)
             /\ dropped' = IF Alone(p) THEN dropped \cup Ids(queue) ELSE dropped
    /\ run' = IF run.pc = "local" /\ run.exit = "none" THEN [run EXCEPT !.exit = "switch", !.fate = "aborted"] ELSE run
    /\ UNCHANGED <<turn, perm, call, shown, out, taken, scene>>

(* The user answers the request that is shown, and may lift the questions  *)
(* for good.  An approved plan is refused, to be worked out in a launch of *)
(* its own, whose prompt goes before all others.                           *)
Answer ==
    /\ Settled /\ call.ask # NoCall
    /\ shown' = shown \ {call.ask}
    /\ \/ /\ call' = [call EXCEPT !.ask = NoCall, !.refused = call.refused \cup {call.ask}]
          /\ UNCHANGED <<perm, queue>>
       \/ /\ call' = [call EXCEPT !.ask = NoCall]
          /\ perm' \in IF "bypass" \in scene THEN Perms ELSE {perm}
          /\ IF call.ask \in call.plans
             THEN queue' = <<[id |-> 0, hash |-> CHOOSE m \in Models : TRUE, perm |-> perm', kind |-> "text"]>> \o queue
             ELSE UNCHANGED queue
    /\ UNCHANGED <<arrived, run, turn, out, taken, dropped, scene>>

(* Mutant: the answered request stays in the agent state. *)
SetPermUnseen ==
    /\ "bypass" \in scene /\ Settled
    /\ perm' \in Perms \ {perm}
    /\ IF perm' = "bypass" /\ call.ask # NoCall /\ call.ask \notin call.plans
       THEN call' = [call EXCEPT !.ask = NoCall]
       ELSE UNCHANGED call
    /\ UNCHANGED <<arrived, queue, run, turn, shown, out, taken, dropped, scene>>

(* set-session-config, which answers what the new mode need not ask.       *)
SetPerm ==
    /\ "bypass" \in scene /\ Settled
    /\ perm' \in Perms \ {perm}
    /\ IF perm' = "bypass" /\ call.ask # NoCall /\ call.ask \notin call.plans
       THEN call' = [call EXCEPT !.ask = NoCall] /\ shown' = shown \ {call.ask}
       ELSE UNCHANGED <<call, shown>>
    /\ UNCHANGED <<arrived, queue, run, turn, out, taken, dropped, scene>>

(* The RPCs abort and switch, and the exit from the terminal, in a remote  *)
(* session: the process is killed, which a launcher that waits for it, or  *)
(* for a prompt, notices at once.                                          *)
Stop(exit) ==
    LET r == [run EXCEPT !.fate = "aborted", !.exit = IF run.exit = "none" THEN exit ELSE run.exit]
    IN /\ Settled /\ run.pc \in {"first", "init", "turn", "next"}
       /\ run' = IF run.pc = "first" THEN [r EXCEPT !.pc = "next"] ELSE r
       /\ UNCHANGED <<arrived, queue, turn, perm, call, shown, out, taken, dropped, scene>>

Abort == "abort" \in scene /\ run.fate # "aborted" /\ Stop("none")
Switch == "switch" \in scene /\ run.exit = "none" /\ (Stop("switch") \/ Stop("exit"))

-----------------------------------------------------------------------------

(* Mutant: the queue is not looked at before the local session. *)
EnterLocalBlindly ==
    /\ run.pc = "enter"
    /\ run' = [run EXCEPT !.pc = "local"]
    /\ UNCHANGED <<arrived, queue, turn, perm, call, shown, out, taken, dropped, scene>>

(* The local session, once its scanner is there, looks for prompts first.  *)
EnterLocal ==
    /\ run.pc = "enter"
    /\ run' = [run EXCEPT !.pc = IF queue = <<>> THEN "local" ELSE "leave"]
    /\ UNCHANGED <<arrived, queue, turn, perm, call, shown, out, taken, dropped, scene>>

(* The user of the terminal ends it, or it fails, or it was told to.       *)
LocalEnds ==
    /\ run.pc = "local"
    /\ \E pc \in IF run.exit = "none" THEN {"gone", "leave"} ELSE {"leave"} :
          run' = [run EXCEPT !.pc = pc, !.exit = "none", !.fate = "alive"]
    /\ UNCHANGED <<arrived, queue, turn, perm, call, shown, out, taken, dropped, scene>>

LocalKilled == run.fate = "aborted" /\ LocalEnds

(* The RPCs abort, which discards the prompts, and switch. *)
LocalStop ==
    /\ run.pc = "local"
    /\ \/ "abort" \in scene /\ queue' = <<>> /\ dropped' = dropped \cup Ids(queue)
       \/ "switch" \in scene /\ UNCHANGED <<queue, dropped>>
    /\ run' = [run EXCEPT !.exit = "switch", !.fate = "aborted"]
    /\ UNCHANGED <<arrived, turn, perm, call, shown, out, taken, scene>>

Leave ==
    /\ run.pc = "leave"
    /\ run' = [run EXCEPT !.pc = "launch"]
    /\ UNCHANGED <<arrived, queue, turn, perm, call, shown, out, taken, dropped, scene>>

-----------------------------------------------------------------------------
Launcher == Launch \/ NextPrompt \/ Perish \/ EnterLocal \/ Leave

Agent == FileFound \/ Say \/ Use \/ UsePlan \/ Ask \/ EarlyAsk \/ LateAsk \/ ToolResult \/ Result \/ Crash

User == Receive \/ Answer \/ SetPerm \/ Abort \/ Switch \/ LocalStop \/ LocalEnds

Next == Launcher \/ Agent \/ User \/ Deliver \/ Expire

(* The event loop runs on, a killed process ends, the session file is      *)
(* waited for at most ten seconds, and the agent ends its turns unless it  *)
(* is left without an answer.                                              *)
Fairness ==
    /\ WF_vars(Launcher) /\ WF_vars(Deliver) /\ WF_vars(Expire)
    /\ WF_vars(FileFound) /\ WF_vars(LateAsk) /\ WF_vars(LocalKilled) /\ WF_vars(Result)

Spec == Init /\ [][Next]_vars /\ Fairness

-----------------------------------------------------------------------------
Idle == run.pc = "first" \/ (run.pc = "next" /\ queue = <<>>)

(* No prompt is lost or handed over twice: each one waits in one place,    *)
(* was handed over, or was discarded by its user.                          *)
PromptsAccounted ==
    LET waiting == queue \o run.pending
        ids == Ids(waiting)
    IN /\ \A i, j \in DOMAIN waiting : i # j /\ waiting[i].id # 0 => waiting[i].id # waiting[j].id
       /\ ids \cap taken = {} /\ (ids \cup taken) \cap dropped = {}
       /\ ids \cup taken \cup dropped = 1..arrived

(* Prompts are handed over in the order in which they arrived. *)
TakenInOrder == [][\A i \in taken' \ taken, j \in taken : j < i]_vars

(* A process only works on prompts of the mode that it was started with,   *)
(* unless it was started with a prompt that had waited for it.             *)
ModeOfProcess == run.pc \in {"init", "turn"} => turn.hash = run.proc \/ run.relay

(* When the session waits for its user, the hub has heard that the last    *)
(* turn is over, unless the user refused a tool of it, left for the        *)
(* terminal, or only cleared the session.                                  *)
IdleIsAnnounced == Idle => turn.over \in {"announced", "refused", "cleared", "left"}

(* The user sees a request exactly as long as a process waits for its      *)
(* answer, whatever ends the process.                                      *)
ShownIsAsked == shown = {call.ask} \ {NoCall}

(* What the agent said in the turn in flight is counted as its reply, or   *)
(* its message still waits in the outgoing queue.  (A turn that is         *)
(* announced in that moment is announced as one without a reply.)          *)
ReplyCounted == turn.live /\ turn.said => turn.reply \/ \E i \in DOMAIN out.items : out.items[i].kind = "text"

(* What the hub hears of a turn: that it is over, and whether there was an *)
(* answer.                                                                 *)
TurnReported == IdleIsAnnounced /\ ReplyCounted

(* Every prompt is handed over or discarded, unless the user is gone or    *)
(* owes an answer.                                                         *)
PromptsTaken == \A p \in 1..MaxPrompts : p \in Ids(queue) ~> p \notin Ids(queue) \/ call.ask # NoCall \/ run.pc = "gone"

(* Whoever asked to stop is answered: the process is dropped. *)
StopEnds == []<>(run.fate # "aborted")

(* Nothing stays unsent. *)
OutDrains == []<>(out.items = <<>>)

(* Prompts, requests to stop and messages all get through. *)
NothingStuck == PromptsTaken /\ StopEnds /\ OutDrains
=============================================================================
