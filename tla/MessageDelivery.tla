--------------------------- MODULE MessageDelivery ---------------------------
(***************************************************************************)
(* How the messages of one session reach its CLI process.                  *)
(*                                                                         *)
(* The hub numbers and stores every message and emits those of the web     *)
(* side to the CLI socket if it is connected.  After a reconnection the    *)
(* CLI asks over HTTP for the pages after the last number it has seen,     *)
(* while live messages already arrive again.  Both paths go through one    *)
(* handler that drops what is not newer than the last number seen.         *)
(*                                                                         *)
(* A message is its sequence number; the store keeps only who wrote it.    *)
(***************************************************************************)
EXTENDS Naturals, Sequences, FiniteSets, FiniteSetsExt

CONSTANTS
    Limit,          \* messages per page of the HTTP answer (200 in the code)
    MaxMessages,    \* bound: messages of the session
    MaxResends,     \* bound: web requests repeated with the same localId
    MaxDrops,       \* bound: disconnections
    MaxFailures     \* bound: HTTP requests that fail

ASSUME LimitAssumption == Limit \in Nat \ {0}
ASSUME BoundsAssumption ==
    /\ MaxMessages \in Nat /\ MaxResends \in Nat
    /\ MaxDrops \in Nat /\ MaxFailures \in Nat

VARIABLES
    store,              \* the author of message 1, 2, ...
    connected, hasConnectedOnce,
    live,               \* messages under way on the socket
    lastSeen,           \* lastSeenMessageSeq, 0 for null
    needsBackfill,
    run,                \* backfillInFlight: [pc, cursor, page]
    delivered,          \* history: what the handler passed on, in order
    lost,               \* history: messages something made undeliverable
    resends, drops, failures

hub == <<store, resends>>
cli == <<lastSeen, delivered>>
bounds == <<drops, failures>>
vars == <<hub, connected, hasConnectedOnce, live, cli, needsBackfill, run, lost, bounds>>

Seqs == 1 .. Len(store)
NoRun == [pc |-> "idle", cursor |-> 0, page |-> <<>>]
Got == {delivered[i] : i \in 1 .. Len(delivered)}
\* What the web side wrote and the CLI has not been handed.
Missing == {i \in Seqs : store[i] = "web" /\ i \notin Got}

TypeOK ==
    /\ store \in Seq({"web", "cli"})
    /\ connected \in BOOLEAN /\ hasConnectedOnce \in BOOLEAN
    /\ needsBackfill \in BOOLEAN
    /\ live \in Seq(Seqs) /\ delivered \in Seq(Seqs)
    /\ lastSeen \in 0 .. Len(store)
    /\ run \in [pc : {"idle", "asked", "answered"}, cursor : 0 .. Len(store), page : Seq(Seqs)]
    /\ lost \subseteq Seqs
    /\ resends \in 0 .. MaxResends /\ drops \in 0 .. MaxDrops
    /\ failures \in 0 .. MaxFailures

Init ==
    /\ store = <<>> /\ live = <<>> /\ delivered = <<>>
    /\ connected = FALSE /\ hasConnectedOnce = FALSE
    /\ lastSeen = 0 /\ needsBackfill = FALSE /\ run = NoRun
    /\ lost = {}
    /\ resends = 0 /\ drops = 0 /\ failures = 0

-----------------------------------------------------------------------------
(* The hub.                                                                *)

\* io.to(room).emit: only a connected socket is in the room.
Emit(i) == live' = IF connected THEN Append(live, i) ELSE live

\* injectMessage: the next number is taken, stored and emitted in one turn.
WebSend ==
    /\ Len(store) < MaxMessages
    /\ store' = Append(store, "web")
    /\ Emit(Len(store) + 1)
    /\ UNCHANGED <<resends, connected, hasConnectedOnce, cli, needsBackfill, run, lost, bounds>>

\* The request repeated: addMessage finds the localId, the number is emitted again.
WebResend(i) ==
    /\ store[i] = "web"
    /\ resends < MaxResends
    /\ resends' = resends + 1
    /\ Emit(i)
    /\ UNCHANGED <<store, connected, hasConnectedOnce, cli, needsBackfill, run, lost, bounds>>

\* The CLI's own message: stored, emitted to everyone in the room but its sender.
CliSend ==
    /\ connected
    /\ Len(store) < MaxMessages
    /\ store' = Append(store, "cli")
    /\ UNCHANGED <<resends, connected, hasConnectedOnce, live, cli, needsBackfill, run, lost, bounds>>

\* Mutant: the page ends before the limit and the next one starts after it.
PageAfterShort(cursor) == [i \in 1 .. Min({Limit, Len(store) - cursor}) |-> cursor + i + 1]

\* getMessagesAfter: the first Limit messages after the cursor.
PageAfter(cursor) == [i \in 1 .. Min({Limit, Len(store) - cursor}) |-> cursor + i]

HubAnswer ==
    /\ run.pc = "asked"
    /\ run' = [run EXCEPT !.pc = "answered", !.page = PageAfter(run.cursor)]
    /\ UNCHANGED <<hub, connected, hasConnectedOnce, live, cli, needsBackfill, lost, bounds>>

-----------------------------------------------------------------------------
(* The CLI.                                                                *)

\* Mutant: the handler passes everything on and keeps the number it saw last.
HandleAll(messages) ==
    /\ delivered' = delivered \o messages
    /\ lastSeen' = IF messages = <<>> THEN lastSeen ELSE messages[Len(messages)]

\* handleIncomingMessage for the messages in turn: those newer than lastSeen are
\* passed on and move it.  They are in ascending order, so the old ones come first.
Handle(messages) ==
    LET old == Cardinality({i \in DOMAIN messages : messages[i] <= lastSeen})
        fresh == SubSeq(messages, old + 1, Len(messages)) IN
    /\ delivered' = delivered \o fresh
    /\ lastSeen' = IF fresh = <<>> THEN lastSeen ELSE fresh[Len(fresh)]

\* A live message.  What it jumps over can no longer be passed on.
Receive ==
    /\ live # <<>>
    /\ live' = Tail(live)
    /\ Handle(<<Head(live)>>)
    /\ lost' = lost \cup {i \in Missing : i < Head(live)}
    /\ UNCHANGED <<hub, connected, hasConnectedOnce, needsBackfill, run, bounds>>

Disconnect ==
    /\ connected
    /\ drops < MaxDrops
    /\ drops' = drops + 1
    /\ connected' = FALSE
    /\ live' = <<>>
    /\ needsBackfill' = TRUE
    /\ UNCHANGED <<hub, hasConnectedOnce, cli, run, lost, failures>>

\* Mutant: only the first connection is noticed.
ConnectOnce ==
    /\ ~connected
    /\ connected' = TRUE /\ hasConnectedOnce' = TRUE
    /\ UNCHANGED <<hub, live, cli, needsBackfill, run, lost, bounds>>

\* on("connect"): after the first one a backfill is needed.  backfillIfNeeded
\* starts a run from lastSeen, joins the run in flight, or, with no number
\* seen yet, skips it and takes it for done.
Connect ==
    /\ ~connected
    /\ connected' = TRUE /\ hasConnectedOnce' = TRUE
    /\ IF ~hasConnectedOnce /\ ~needsBackfill
         THEN /\ lost' = lost \cup Missing
              /\ UNCHANGED <<needsBackfill, run>>
       ELSE IF run.pc # "idle"
         THEN /\ needsBackfill' = TRUE
              /\ lost' = lost \cup Missing
              /\ UNCHANGED run
       ELSE IF lastSeen = 0
         THEN /\ needsBackfill' = FALSE
              /\ lost' = lost \cup Missing
              /\ UNCHANGED run
         ELSE /\ needsBackfill' = TRUE
              /\ run' = [pc |-> "asked", cursor |-> lastSeen, page |-> <<>>]
              /\ UNCHANGED <<lost>>
    /\ UNCHANGED <<hub, live, cli, bounds>>

\* Mutant: a full page ends the run.
LastOfFull(page) == Len(page) <= Limit

\* A page shorter than the limit is the last one.
Last(page) == Len(page) < Limit

\* The answer is handled; the next request asks from the furthest number seen.
TakePage ==
    LET page == run.page
        next == Max({run.cursor, lastSeen'} \cup {page[i] : i \in 1 .. Len(page)})
    IN
    /\ run.pc = "answered"
    /\ Handle(page)
    /\ IF Last(page) \/ next <= run.cursor
         THEN run' = NoRun /\ needsBackfill' = FALSE
         ELSE /\ run' = [pc |-> "asked", cursor |-> next, page |-> <<>>]
              /\ UNCHANGED needsBackfill
    /\ UNCHANGED <<hub, connected, hasConnectedOnce, live, lost, bounds>>

\* The request fails or times out; nothing tries again before the next connect.
BackfillFails ==
    /\ run.pc # "idle"
    /\ failures < MaxFailures
    /\ failures' = failures + 1
    /\ run' = NoRun
    /\ needsBackfill' = TRUE
    /\ lost' = lost \cup Missing
    /\ UNCHANGED <<hub, connected, hasConnectedOnce, live, cli, drops>>

-----------------------------------------------------------------------------
Next ==
    \/ WebSend \/ CliSend \/ HubAnswer
    \/ \E i \in Seqs : WebResend(i)
    \/ Receive \/ Disconnect \/ Connect \/ TakePage \/ BackfillFails

\* The socket delivers and reconnects, and an HTTP request is answered.
Fairness ==
    /\ WF_vars(Receive) /\ WF_vars(Connect)
    /\ WF_vars(HubAnswer) /\ WF_vars(TakePage)

Spec == Init /\ [][Next]_vars /\ Fairness

-----------------------------------------------------------------------------
(* Properties.                                                             *)

\* No message reaches the agent twice or after a later one, although it may
\* come live, in a page and by a repeated request.
InOrder ==
    \A i, j \in 1 .. Len(delivered) : i < j => delivered[i] < delivered[j]

\* A live message jumps over a missing one only while a backfill is owed: no
\* page and no end of a backfill leaves a gap that nothing accounts for.
JumpsExplained ==
    [][\A i \in Missing \ lost :
          lastSeen < i /\ i < lastSeen' /\ i \notin Got' => needsBackfill]_vars

\* Every message of the web side is handed over in the end, unless a live one
\* overtook it, or a run failed, was joined or was skipped while it was missing.
EveryMessageArrives ==
    \A i \in 1 .. MaxMessages :
        (i \in Missing) ~> (i \in Got \/ i \in lost)
=============================================================================
