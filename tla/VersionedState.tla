--------------------------- MODULE VersionedState ---------------------------
(***************************************************************************)
(* The metadata (or agent state) of one session, held by the hub with a    *)
(* version number and edited optimistically by the CLI processes of the    *)
(* session and by the hub itself.                                          *)
(*                                                                         *)
(* A CLI client serialises its updates with an AsyncLock.  Each attempt    *)
(* computes the new value from the client's copy, sends it with the        *)
(* version it was computed from and waits for an acknowledgement; a        *)
(* mismatch, an error or a disconnection throws, and the attempt is made   *)
(* again after a backoff.  A value is the set of the edits it contains: an *)
(* edit is lost when a later value does not contain it.                    *)
(***************************************************************************)
EXTENDS Naturals, Sequences

CONSTANTS
    Clients,        \* the CLI processes connected for the session
    Updates,        \* the calls of updateMetadata / updateAgentState
    Owner,          \* the client that makes each call
    HubEdits,       \* the edits the hub makes itself (task link, rename)
    MaxDrops,       \* bound: disconnections
    MaxErrors       \* bound: answers "error" of the hub (a SQLite failure)

ASSUME OwnerAssumption == Owner \in [Updates -> Clients]
ASSUME EditsAssumption == Updates \cap HubEdits = {}
ASSUME BoundsAssumption == MaxDrops \in Nat /\ MaxErrors \in Nat

Edits == Updates \cup HubEdits
Values == SUBSET Edits

VARIABLES
    hub,            \* the row: [value, version]
    hist,           \* history variable: the value of every version so far
    copy,           \* copy[c]: the client's [value, version]
    lock,           \* lock[c]: [permits, waiters] of the client's AsyncLock
    phase,          \* phase[u]: where the call u stands
    up,             \* up[c]: requests on their way to the hub
    down,           \* down[c]: acknowledgements and updates on their way back
    connected,      \* connected[c]: the client's socket
    drops, errors   \* counters of the two bounds

vars == <<hub, hist, copy, lock, phase, up, down, connected, drops, errors>>

Phases == {"idle", "waiting", "running", "inflight", "backoff", "done"}
Versions == Nat \ {0}
Rows == [value : Values, version : Versions]
Requests == [update : Updates, row : Rows]
Answers == [kind : {"success", "mismatch", "update"}, row : Rows, update : Updates]
           \cup [kind : {"error"}, update : Updates]

TypeOK ==
    /\ hub \in Rows
    /\ hist \in [1 .. hub.version -> Values]
    /\ copy \in [Clients -> Rows]
    /\ lock \in [Clients -> [permits : {0, 1}, waiters : Seq(Updates)]]
    /\ phase \in [Updates -> Phases]
    /\ up \in [Clients -> Seq(Requests)]
    /\ down \in [Clients -> Seq(Answers)]
    /\ connected \in [Clients -> BOOLEAN]
    /\ drops \in 0 .. MaxDrops
    /\ errors \in 0 .. MaxErrors

\* A session is created with version 1 and the client that created it (or
\* fetched it) holds that row.
Init ==
    /\ hub = [value |-> {}, version |-> 1]
    /\ hist = [v \in {1} |-> {}]
    /\ copy = [c \in Clients |-> hub]
    /\ lock = [c \in Clients |-> [permits |-> 1, waiters |-> <<>>]]
    /\ phase = [u \in Updates |-> "idle"]
    /\ up = [c \in Clients |-> <<>>]
    /\ down = [c \in Clients |-> <<>>]
    /\ connected = [c \in Clients |-> TRUE]
    /\ drops = 0
    /\ errors = 0

-----------------------------------------------------------------------------
(* The client's lock and its updates.                                      *)

\* Mutant: the permit is not consumed.
CallUnlocked(u) ==
    /\ phase[u] = "idle"
    /\ phase' = [phase EXCEPT ![u] = "running"]
    /\ UNCHANGED <<hub, hist, copy, lock, up, down, connected, drops, errors>>

\* updateMetadata(handler): take the permit or join the queue.
Call(u) ==
    LET c == Owner[u] IN
    /\ phase[u] = "idle"
    /\ IF lock[c].permits > 0
         THEN /\ lock' = [lock EXCEPT ![c].permits = lock[c].permits - 1]
              /\ phase' = [phase EXCEPT ![u] = "running"]
         ELSE /\ lock' = [lock EXCEPT ![c].waiters = Append(lock[c].waiters, u)]
              /\ phase' = [phase EXCEPT ![u] = "waiting"]
    /\ UNCHANGED <<hub, hist, copy, up, down, connected, drops, errors>>

\* One attempt under the lock, the first or one after a backoff.  An emit on a
\* closed socket waits in the socket's buffer until it opens again.
Attempt(u) ==
    LET c == Owner[u]
        row == [value |-> copy[c].value \cup {u}, version |-> copy[c].version]
    IN
    /\ phase[u] \in {"running", "backoff"}
    /\ up' = [up EXCEPT ![c] = Append(up[c], [update |-> u, row |-> row])]
    /\ phase' = [phase EXCEPT ![u] = "inflight"]
    /\ UNCHANGED <<hub, hist, copy, lock, down, connected, drops, errors>>

\* What unlock leaves: the permit goes straight to the first waiter.
Unlocked(l) ==
    IF l.waiters = <<>> THEN [l EXCEPT !.permits = l.permits + 1]
                        ELSE [l EXCEPT !.waiters = Tail(l.waiters)]

\* The waiter whose promise unlock resolves.
Woken(l) == IF l.waiters = <<>> THEN {} ELSE {Head(l.waiters)}

-----------------------------------------------------------------------------
(* The hub.                                                                *)

\* Mutant: the statement does not compare versions.
StoredBlindly(row, expected, value) ==
    [value |-> value, version |-> row.version + 1]

\* Mutant: the version written is the one given plus one.
StoredAtExpected(row, expected, value) ==
    [value |-> value, version |-> expected + 1]

\* UPDATE ... WHERE version = expected, which adds one to the version.
Stored(row, expected, value) ==
    IF row.version = expected
      THEN [value |-> value, version |-> row.version + 1] ELSE row

\* The history after the row became r.
Recorded(r) == [v \in 1 .. r.version |-> IF v = r.version THEN r.value ELSE hist[v]]

\* What the other connected clients of the session's room are sent.
Broadcast(c, u, row) ==
    [d \in Clients |->
        IF d # c /\ connected[d]
          THEN Append(down[d], [kind |-> "update", row |-> row, update |-> u])
          ELSE down[d]]

\* handleUpdateMetadata: store, acknowledge, and tell the others on success.
HubUpdate(c) ==
    LET request == Head(up[c])
        u == request.update
        row == Stored(hub, request.row.version, request.row.value)
        kind == IF row = hub THEN "mismatch" ELSE "success"
        others == IF kind = "success" THEN Broadcast(c, u, row) ELSE down
    IN
    /\ connected[c] /\ up[c] # <<>>
    /\ up' = [up EXCEPT ![c] = Tail(up[c])]
    /\ hub' = row
    /\ hist' = Recorded(row)
    /\ down' = [others EXCEPT ![c] =
                  Append(down[c], [kind |-> kind, row |-> row, update |-> u])]
    /\ UNCHANGED <<copy, lock, phase, connected, drops, errors>>

\* The statement throws: the answer is "error" and nothing is stored.
HubError(c) ==
    /\ connected[c] /\ up[c] # <<>>
    /\ errors < MaxErrors
    /\ errors' = errors + 1
    /\ down' = [down EXCEPT ![c] =
                  Append(down[c], [kind |-> "error", update |-> Head(up[c]).update])]
    /\ up' = [up EXCEPT ![c] = Tail(up[c])]
    /\ UNCHANGED <<hub, hist, copy, lock, phase, connected, drops>>

\* The hub's own writers read the row and store it again in one turn of the
\* event loop; the clients are not told.
HubEdit(e) ==
    LET row == Stored(hub, hub.version, hub.value \cup {e}) IN
    /\ e \notin hub.value
    /\ hub' = row
    /\ hist' = Recorded(row)
    /\ UNCHANGED <<copy, lock, phase, up, down, connected, drops, errors>>

-----------------------------------------------------------------------------
(* Answers and the socket.                                                 *)

\* applyVersionedAck: both answers that carry a row replace the copy.
Applied(mine, row) == row

\* A success ends the call; anything else throws into the backoff.
ReceiveAck(c) ==
    LET answer == Head(down[c])
        u == answer.update
    IN
    /\ down[c] # <<>> /\ answer.kind # "update"
    /\ down' = [down EXCEPT ![c] = Tail(down[c])]
    /\ copy' = IF answer.kind = "error" THEN copy
               ELSE [copy EXCEPT ![c] = Applied(copy[c], answer.row)]
    /\ IF answer.kind = "success"
         THEN /\ lock' = [lock EXCEPT ![c] = Unlocked(lock[c])]
              /\ phase' = [x \in Updates |->
                           IF x = u THEN "done"
                           ELSE IF x \in Woken(lock[c]) THEN "running" ELSE phase[x]]
         ELSE /\ phase' = [phase EXCEPT ![u] = "backoff"]
              /\ UNCHANGED lock
    /\ UNCHANGED <<hub, hist, up, connected, drops, errors>>

\* The "update-session" event: taken only if it is newer than the copy.
Newer(mine, row) == IF row.version > mine.version THEN row ELSE mine

ReceiveUpdate(c) ==
    LET answer == Head(down[c]) IN
    /\ down[c] # <<>> /\ answer.kind = "update"
    /\ down' = [down EXCEPT ![c] = Tail(down[c])]
    /\ copy' = [copy EXCEPT ![c] = Newer(copy[c], answer.row)]
    /\ UNCHANGED <<hub, hist, lock, phase, up, connected, drops, errors>>

\* Mutant: the pending call is never rejected.
DisconnectSilently(c) ==
    /\ connected[c]
    /\ drops < MaxDrops
    /\ drops' = drops + 1
    /\ connected' = [connected EXCEPT ![c] = FALSE]
    /\ up' = [up EXCEPT ![c] = <<>>]
    /\ down' = [down EXCEPT ![c] = <<>>]
    /\ UNCHANGED <<hub, hist, copy, lock, phase, errors>>

\* The socket closes: what is under way is lost and the pending call rejects.
Disconnect(c) ==
    /\ connected[c]
    /\ drops < MaxDrops
    /\ drops' = drops + 1
    /\ connected' = [connected EXCEPT ![c] = FALSE]
    /\ up' = [up EXCEPT ![c] = <<>>]
    /\ down' = [down EXCEPT ![c] = <<>>]
    /\ phase' = [u \in Updates |->
                   IF Owner[u] = c /\ phase[u] = "inflight" THEN "backoff" ELSE phase[u]]
    /\ UNCHANGED <<hub, hist, copy, lock, errors>>

\* The socket opens again; nothing fetches the session again.
Reconnect(c) ==
    /\ ~connected[c]
    /\ connected' = [connected EXCEPT ![c] = TRUE]
    /\ UNCHANGED <<hub, hist, copy, lock, phase, up, down, drops, errors>>

-----------------------------------------------------------------------------
Next ==
    \/ \E u \in Updates : Call(u) \/ Attempt(u)
    \/ \E c \in Clients : \/ HubUpdate(c) \/ HubError(c)
                          \/ ReceiveAck(c) \/ ReceiveUpdate(c)
                          \/ Disconnect(c) \/ Reconnect(c)
    \/ \E e \in HubEdits : HubEdit(e)

\* Timers fire, sockets reconnect for ever and deliver what they carry.
Fairness ==
    /\ \A u \in Updates : WF_vars(Attempt(u))
    /\ \A c \in Clients : /\ WF_vars(HubUpdate(c))
                          /\ WF_vars(ReceiveAck(c))
                          /\ WF_vars(ReceiveUpdate(c))
                          /\ WF_vars(Reconnect(c))

Spec == Init /\ [][Next]_vars /\ Fairness

-----------------------------------------------------------------------------
(* Properties.                                                             *)

\* A client's copy is the value the hub really had at the version it says:
\* an update computed from the copy under that version overwrites nothing
\* the client has not seen.
CopyIsAVersion ==
    \A c \in Clients :
        /\ copy[c].version <= hub.version
        /\ copy[c].value = hist[copy[c].version]

\* Optimistic locking loses no edit, with concurrent writers, lost answers and
\* retries: a later value contains every earlier one, and the call of an update
\* that returned is in the hub's value.
NoLostEdit ==
    /\ \A v, w \in 1 .. hub.version : v <= w => hist[v] \subseteq hist[w]
    /\ \A u \in Updates : phase[u] = "done" => u \in hub.value

\* The calls of one client run one at a time, and no permit is free while one
\* runs: the lock hands its permit over without releasing it.
Busy(u) == phase[u] \in {"running", "inflight", "backoff"}

OneAtATime ==
    \A u \in Updates :
        Busy(u) => /\ lock[Owner[u]].permits = 0
                   /\ \A w \in Updates : Busy(w) /\ Owner[w] = Owner[u] => w = u

\* Acknowledgements and events never take a client's copy back to an older
\* version: applyVersionedAck does not compare versions, the order of the
\* socket's messages has to ensure it.
CopyNeverOlder ==
    [][\A c \in Clients : copy'[c].version >= copy[c].version]_vars

\* Every call of updateMetadata eventually returns, through mismatches, errors
\* and lost connections, once these stop.
EveryCallEnds ==
    \A u \in Updates : (phase[u] # "idle") ~> (phase[u] = "done")
=============================================================================
