------------------------ MODULE VersionedStateProofs ------------------------
(***************************************************************************)
(* Proofs that the optimistic updates of VersionedState lose no edit.      *)
(*                                                                         *)
(* NoLostEdit and CopyIsAVersion are not inductive: what is on its way     *)
(* between a client and the hub has to be related to the versions too.     *)
(***************************************************************************)
EXTENDS VersionedState, TLAPS

\* A row that some version of the hub's row was.
Version(row) ==
    /\ row.version <= hub.version
    /\ row.value = hist[row.version]

\* The row is its latest version, and the versions only gain edits.
History ==
    /\ hub.value = hist[hub.version]
    /\ \A v, w \in 1 .. hub.version : v <= w => hist[v] \subseteq hist[w]

\* A request asks for the version it names with its own edit added.
Sensible(r) ==
    /\ r.row.version <= hub.version
    /\ r.row.value = hist[r.row.version] \cup {r.update}

Asked == \A c \in Clients : \A i \in 1 .. Len(up[c]) : Sensible(up[c][i])

\* An answer carries a version; a success carries one that has the edit.
Truthful(a) ==
    /\ a.kind # "error" => Version(a.row)
    /\ a.kind = "success" => a.update \in a.row.value

Answered ==
    \A c \in Clients : \A i \in 1 .. Len(down[c]) : Truthful(down[c][i])

Kept == \A u \in Updates : phase[u] = "done" => u \in hub.value

\* The permit is free only when nobody holds or wants it, and one holds it.
Permit ==
    /\ \A c \in Clients : lock[c].permits = 1 =>
          /\ lock[c].waiters = <<>>
          /\ \A u \in Updates : Owner[u] = c => ~Busy(u)
    /\ \A u, w \in Updates : Busy(u) /\ Busy(w) /\ Owner[u] = Owner[w] => u = w

\* The queue of a lock holds waiting calls of its client, each once.
Waiting(c, u) == u \in Updates /\ Owner[u] = c /\ phase[u] = "waiting"

Queue ==
    \A c \in Clients :
        /\ \A i \in 1 .. Len(lock[c].waiters) : Waiting(c, lock[c].waiters[i])
        /\ \A i, j \in 1 .. Len(lock[c].waiters) :
              lock[c].waiters[i] = lock[c].waiters[j] => i = j

\* A call in flight has one request or one answer under way, and no other.
Pending(c, u) == u \in Updates /\ Owner[u] = c /\ phase[u] = "inflight"

OneUnderWay ==
    \A c \in Clients :
        /\ Len(up[c]) <= 1
        /\ \A i \in 1 .. Len(up[c]) : Pending(c, up[c][i].update)
        /\ \A i \in 1 .. Len(down[c]) : down[c][i].kind # "update" =>
              /\ Pending(c, down[c][i].update)
              /\ up[c] = <<>>
              /\ \A j \in 1 .. Len(down[c]) : down[c][j].kind # "update" => i = j

Locked == Permit /\ Queue /\ OneUnderWay

Inv == TypeOK /\ History /\ CopyIsAVersion /\ Asked /\ Answered /\ Kept

-----------------------------------------------------------------------------
(* A write adds to the history and disturbs nothing in it.                 *)

LEMMA Growth ==
    ASSUME TypeOK, History, hub' \in Rows, hist' = Recorded(hub'),
           \/ hub' = hub
           \/ hub'.version = hub.version + 1 /\ hub.value \subseteq hub'.value
    PROVE  /\ History'
           /\ hist' \in [1 .. hub'.version -> Values]
           /\ hub.version <= hub'.version
           /\ hub.value \subseteq hub'.value
           /\ \A v \in 1 .. hub.version : hist'[v] = hist[v]
<1>1. /\ hub \in Rows /\ hist \in [1 .. hub.version -> Values]
      /\ hub.version \in Nat /\ hub.version >= 1
      /\ hub'.version \in Nat /\ hub'.version >= 1
  BY DEF TypeOK, Rows, Versions
<1>2. hist' = [v \in 1 .. hub'.version |-> IF v = hub'.version THEN hub'.value ELSE hist[v]]
  BY DEF Recorded
<1>3. \A v \in 1 .. hub.version : hist'[v] = hist[v]
  BY <1>1, <1>2 DEF History
<1>4. hist'[hub'.version] = hub'.value
  BY <1>1, <1>2
<1>5. hist' \in [1 .. hub'.version -> Values]
  BY <1>1, <1>2 DEF Rows
<1>6. ASSUME NEW v \in 1 .. hub'.version, NEW w \in 1 .. hub'.version, v <= w
      PROVE  hist'[v] \subseteq hist'[w]
  <2>1. CASE w <= hub.version
    BY <2>1, <1>1, <1>3, <1>6 DEF History
  <2>2. CASE w > hub.version /\ v <= hub.version
    <3>1. w = hub'.version /\ hub.value \subseteq hub'.value
      BY <2>2, <1>1
    <3>2. hist[v] \subseteq hub.value
      BY <2>2, <1>1 DEF History
    <3> QED BY <3>1, <3>2, <1>3, <1>4, <2>2, <1>1
  <2>3. CASE v > hub.version
    BY <2>3, <1>1, <1>6
  <2> QED BY <2>1, <2>2, <2>3, <1>1
<1> QED BY <1>1, <1>3, <1>4, <1>5, <1>6 DEF History

\* The hub's own statement, whoever runs it, writes such a row.
LEMMA StoredGrows ==
    ASSUME TypeOK, History, NEW expected \in Versions, NEW value \in Values,
           expected = hub.version => hub.value \subseteq value
    PROVE  LET row == Stored(hub, expected, value) IN
           /\ row \in Rows
           /\ \/ row = hub
              \/ /\ row.version = hub.version + 1 /\ row.value = value
                 /\ hub.value \subseteq row.value
<1>1. hub \in Rows /\ hub.version \in Nat /\ hub.version >= 1
  BY DEF TypeOK, Rows, Versions
<1> QED BY <1>1 DEF Stored, Rows, Versions

-----------------------------------------------------------------------------
LEMMA Begins == Init => Inv
<1> SUFFICES ASSUME Init PROVE Inv
  OBVIOUS
<1>1. TypeOK
  BY BoundsAssumption DEF Init, TypeOK, Rows, Values, Versions, Phases
<1>2. History /\ CopyIsAVersion /\ Kept
  BY DEF Init, History, CopyIsAVersion, Kept
<1>3. Asked /\ Answered
  BY DEF Init, Asked, Sensible, Answered, Truthful
<1> QED BY <1>1, <1>2, <1>3 DEF Inv

\* What a growing history leaves true of the copies, the requests, the answers
\* and the calls that an action does not touch.
LEMMA Undisturbed ==
    ASSUME Inv, hub.version <= hub'.version, hub'.version \in Nat,
           hub.value \subseteq hub'.value,
           \A v \in 1 .. hub.version : hist'[v] = hist[v]
    PROVE  /\ copy' = copy => CopyIsAVersion'
           /\ \A c \in Clients : \A i \in 1 .. Len(up[c]) :
                 LET r == up[c][i] IN
                 /\ r.row.version <= hub'.version
                 /\ r.row.value = hist'[r.row.version] \cup {r.update}
           /\ \A c \in Clients : \A i \in 1 .. Len(down[c]) :
                 LET a == down[c][i] IN
                 /\ a.kind # "error" => /\ a.row.version <= hub'.version
                                        /\ a.row.value = hist'[a.row.version]
                 /\ a.kind = "success" => a.update \in a.row.value
           /\ phase' = phase => Kept'
<1>1. hub.version \in Nat /\ \A c \in Clients : copy[c] \in Rows
  BY DEF Inv, TypeOK, Rows, Versions
<1>2. copy' = copy => CopyIsAVersion'
  BY <1>1 DEF Inv, CopyIsAVersion, Rows, Versions
<1>3. ASSUME NEW c \in Clients, NEW i \in 1 .. Len(up[c])
      PROVE  /\ up[c][i].row.version <= hub'.version
             /\ up[c][i].row.value = hist'[up[c][i].row.version] \cup {up[c][i].update}
  <2>1. up[c][i] \in Requests
    BY DEF Inv, TypeOK
  <2>2. /\ up[c][i].row.version <= hub.version
        /\ up[c][i].row.value = hist[up[c][i].row.version] \cup {up[c][i].update}
    BY DEF Inv, Asked, Sensible
  <2> QED BY <2>1, <2>2, <1>1 DEF Requests, Rows, Versions
<1>4. ASSUME NEW c \in Clients, NEW i \in 1 .. Len(down[c])
      PROVE  LET a == down[c][i] IN
             /\ a.kind # "error" => /\ a.row.version <= hub'.version
                                    /\ a.row.value = hist'[a.row.version]
             /\ a.kind = "success" => a.update \in a.row.value
  <2>1. down[c][i] \in Answers
    BY DEF Inv, TypeOK
  <2>2. /\ down[c][i].kind # "error" => Version(down[c][i].row)
        /\ down[c][i].kind = "success" => down[c][i].update \in down[c][i].row.value
    BY DEF Inv, Answered, Truthful
  <2>3. down[c][i].kind # "error" => down[c][i].row \in Rows
    BY <2>1 DEF Answers
  <2> QED BY <2>2, <2>3, <1>1 DEF Version, Rows, Versions
<1>5. phase' = phase => Kept'
  BY DEF Inv, Kept
<1> QED BY <1>2, <1>3, <1>4, <1>5

-----------------------------------------------------------------------------
(* One lemma per action.                                                   *)

\* Under an unchanged hub every conjunct is about the variables it names.
LEMMA Quiet ==
    ASSUME Inv, hub' = hub, hist' = hist
    PROVE  /\ History'
           /\ copy' = copy => CopyIsAVersion'
           /\ up' = up => Asked'
           /\ down' = down => Answered'
           /\ phase' = phase => Kept'
BY DEF Inv, History, CopyIsAVersion, Asked, Sensible, Answered, Truthful, Kept, Version

LEMMA CallKeeps ==
    ASSUME Inv, NEW u \in Updates, Call(u) PROVE Inv'
<1> DEFINE c == Owner[u]
<1>0. c \in Clients /\ lock[c] \in [permits : {0, 1}, waiters : Seq(Updates)]
  BY OwnerAssumption DEF Inv, TypeOK
<1>1. lock' \in [Clients -> [permits : {0, 1}, waiters : Seq(Updates)]]
  <2>1. CASE lock[c].permits > 0
    <3>1. [lock[c] EXCEPT !.permits = lock[c].permits - 1]
             \in [permits : {0, 1}, waiters : Seq(Updates)]
      BY <2>1, <1>0
    <3>2. lock' = [lock EXCEPT ![c] = [lock[c] EXCEPT !.permits = lock[c].permits - 1]]
      BY <2>1, <1>0 DEF Call, Inv, TypeOK
    <3> QED BY <3>1, <3>2, <1>0 DEF Inv, TypeOK
  <2>2. CASE ~(lock[c].permits > 0)
    <3>1. [lock[c] EXCEPT !.waiters = Append(lock[c].waiters, u)]
             \in [permits : {0, 1}, waiters : Seq(Updates)]
      BY <1>0
    <3>2. lock' = [lock EXCEPT ![c] = [lock[c] EXCEPT !.waiters = Append(lock[c].waiters, u)]]
      BY <2>2, <1>0 DEF Call, Inv, TypeOK
    <3> QED BY <3>1, <3>2, <1>0 DEF Inv, TypeOK
  <2> QED BY <2>1, <2>2
<1>2. phase' \in [Updates -> Phases] /\ Kept'
  BY DEF Call, Inv, TypeOK, Phases, Kept
<1>3. TypeOK'
  BY <1>1, <1>2 DEF Call, Inv, TypeOK
<1> QED BY <1>2, <1>3, Quiet DEF Call, Inv

LEMMA AttemptKeeps ==
    ASSUME Inv, NEW u \in Updates, Attempt(u) PROVE Inv'
<1> DEFINE c == Owner[u]
           row == [value |-> copy[c].value \cup {u}, version |-> copy[c].version]
           request == [update |-> u, row |-> row]
<1>0. c \in Clients /\ copy[c] \in Rows /\ up[c] \in Seq(Requests)
  BY OwnerAssumption DEF Inv, TypeOK
<1>1. request \in Requests
  BY <1>0 DEF Requests, Rows, Values, Edits
<1>2. up' = [up EXCEPT ![c] = Append(up[c], request)]
  BY DEF Attempt
<1>3. up' \in [Clients -> Seq(Requests)]
  BY <1>0, <1>1, <1>2 DEF Inv, TypeOK
<1>4. phase' \in [Updates -> Phases] /\ Kept'
  BY DEF Attempt, Inv, TypeOK, Phases, Kept
<1>5. TypeOK'
  BY <1>3, <1>4 DEF Attempt, Inv, TypeOK
<1>6. Asked'
  <2> SUFFICES ASSUME NEW d \in Clients, NEW i \in 1 .. Len(up'[d])
               PROVE  /\ up'[d][i].row.version <= hub.version
                      /\ up'[d][i].row.value
                           = hist[up'[d][i].row.version] \cup {up'[d][i].update}
    BY DEF Asked, Sensible, Attempt
  <2>1. CASE d = c /\ i = Len(up[c]) + 1
    <3> HIDE DEF request
    <3>0. up'[d] = Append(up[c], request)
      BY <2>1, <1>0, <1>2 DEF Inv, TypeOK
    <3>1. up'[d][i] = request
      BY <3>0, <2>1, <1>0, <1>1
    <3>2. copy[c].version <= hub.version /\ copy[c].value = hist[copy[c].version]
      BY <1>0 DEF Inv, CopyIsAVersion
    <3>3. /\ request.row.version = copy[c].version
          /\ request.row.value = copy[c].value \cup {u}
          /\ request.update = u
      BY DEF request
    <3> QED BY <3>1, <3>2, <3>3
  <2>2. CASE ~(d = c /\ i = Len(up[c]) + 1)
    <3>1. i \in 1 .. Len(up[d]) /\ up'[d][i] = up[d][i]
      BY <2>2, <1>0, <1>2 DEF Inv, TypeOK
    <3> QED BY <3>1 DEF Inv, Asked, Sensible
  <2> QED BY <2>1, <2>2
<1> QED BY <1>4, <1>5, <1>6, Quiet DEF Attempt, Inv

LEMMA TailElement ==
    ASSUME NEW S, NEW s \in Seq(S), s # <<>>, NEW i \in 1 .. Len(Tail(s))
    PROVE  i + 1 \in 1 .. Len(s) /\ Tail(s)[i] = s[i + 1]
OBVIOUS

\* Taking the first element of one channel leaves the other elements.
LEMMA TailOf ==
    ASSUME NEW S, NEW f \in [Clients -> Seq(S)], NEW c \in Clients, f[c] # <<>>,
           NEW d \in Clients, NEW i \in 1 .. Len([f EXCEPT ![c] = Tail(f[c])][d])
    PROVE  \E j \in 1 .. Len(f[d]) : [f EXCEPT ![c] = Tail(f[c])][d][i] = f[d][j]
<1>1. CASE d = c
  <2>1. [f EXCEPT ![c] = Tail(f[c])][d] = Tail(f[c]) /\ f[c] \in Seq(S)
    BY <1>1
  <2>2. i + 1 \in 1 .. Len(f[c]) /\ Tail(f[c])[i] = f[c][i + 1]
    BY <2>1, TailElement
  <2> QED BY <1>1, <2>1, <2>2
<1>2. CASE d # c
  BY <1>2
<1> QED BY <1>1, <1>2

\* Taking a request leaves the others sensible, whatever the hub stored.
LEMMA AskedTail ==
    ASSUME Inv, hub.version <= hub'.version, hub'.version \in Nat,
           hub.value \subseteq hub'.value,
           \A v \in 1 .. hub.version : hist'[v] = hist[v],
           NEW c \in Clients, up[c] # <<>>, up' = [up EXCEPT ![c] = Tail(up[c])]
    PROVE  Asked'
<1>1. SUFFICES ASSUME NEW d \in Clients, NEW i \in 1 .. Len(up'[d])
               PROVE  Sensible(up[d][i])'
  BY DEF Asked
<1>2. up \in [Clients -> Seq(Requests)]
  BY DEF Inv, TypeOK
<1>3. PICK j \in 1 .. Len(up[d]) : up'[d][i] = up[d][j]
  BY <1>2, TailOf
<1>4. /\ up[d][j].row.version <= hub'.version
      /\ up[d][j].row.value = hist'[up[d][j].row.version] \cup {up[d][j].update}
  BY Undisturbed
<1> QED BY <1>3, <1>4 DEF Sensible

\* Replacing the waiters of a lock keeps its permits.
LEMMA Rewaited ==
    ASSUME NEW l \in [permits : {0, 1}, waiters : Seq(Updates)], NEW w
    PROVE  [l EXCEPT !.waiters = w] = [permits |-> l.permits, waiters |-> w]
OBVIOUS

LEMMA HubErrorKeeps ==
    ASSUME Inv, NEW c \in Clients, HubError(c) PROVE Inv'
<1> DEFINE answer == [kind |-> "error", update |-> Head(up[c]).update]
<1>0. up[c] \in Seq(Requests) /\ up[c] # <<>> /\ down[c] \in Seq(Answers)
  BY DEF Inv, TypeOK, HubError
<1>1. Head(up[c]) \in Requests /\ Tail(up[c]) \in Seq(Requests)
  BY <1>0
<1>2. answer \in Answers
  BY <1>1 DEF Requests, Answers
<1>3. /\ up' = [up EXCEPT ![c] = Tail(up[c])]
      /\ down' = [down EXCEPT ![c] = Append(down[c], answer)]
  BY DEF HubError
<1>4. up' \in [Clients -> Seq(Requests)] /\ down' \in [Clients -> Seq(Answers)]
  BY <1>0, <1>1, <1>2, <1>3 DEF Inv, TypeOK
<1>5. errors' \in 0 .. MaxErrors
  BY BoundsAssumption DEF HubError, Inv, TypeOK
<1>6. TypeOK'
  BY <1>4, <1>5 DEF HubError, Inv, TypeOK
<1>7. Asked'
  <2>1. hub.version \in Nat
    BY DEF Inv, TypeOK, Rows, Versions
  <2>2. hub' = hub /\ hist' = hist
    BY DEF HubError
  <2>3. /\ hub.version <= hub'.version /\ hub'.version \in Nat
        /\ hub.value \subseteq hub'.value
        /\ \A v \in 1 .. hub.version : hist'[v] = hist[v]
    BY <2>1, <2>2
  <2> QED BY <2>3, <1>0, <1>3, AskedTail
<1>8. Answered'
  <2> SUFFICES ASSUME NEW d \in Clients, NEW i \in 1 .. Len(down'[d])
               PROVE  \/ i \in 1 .. Len(down[d]) /\ down'[d][i] = down[d][i]
                      \/ down'[d][i] = answer
    BY DEF Inv, Answered, Truthful, Version, HubError
  <2> QED BY <1>0, <1>3 DEF Inv, TypeOK
<1> QED BY <1>6, <1>7, <1>8, Quiet DEF HubError, Inv

LEMMA ReconnectKeeps ==
    ASSUME Inv, NEW c \in Clients, Reconnect(c) PROVE Inv'
<1>1. TypeOK'
  BY DEF Reconnect, Inv, TypeOK
<1> QED BY <1>1, Quiet DEF Reconnect, Inv

LEMMA DisconnectKeeps ==
    ASSUME Inv, NEW c \in Clients, Disconnect(c) PROVE Inv'
<1>1. /\ up' = [up EXCEPT ![c] = <<>>]
      /\ down' = [down EXCEPT ![c] = <<>>]
  BY DEF Disconnect
<1>2. up' \in [Clients -> Seq(Requests)] /\ down' \in [Clients -> Seq(Answers)]
  BY <1>1 DEF Inv, TypeOK
<1>3. phase' \in [Updates -> Phases] /\ Kept'
  BY DEF Disconnect, Inv, TypeOK, Phases, Kept
<1>4. drops' \in 0 .. MaxDrops
  BY BoundsAssumption DEF Disconnect, Inv, TypeOK
<1>5. TypeOK'
  BY <1>2, <1>3, <1>4 DEF Disconnect, Inv, TypeOK
<1>6. Asked'
  <2> SUFFICES ASSUME NEW d \in Clients, NEW i \in 1 .. Len(up'[d])
               PROVE  i \in 1 .. Len(up[d]) /\ up'[d][i] = up[d][i]
    BY DEF Inv, Asked, Sensible, Disconnect
  <2> QED BY <1>1 DEF Inv, TypeOK
<1>7. Answered'
  <2> SUFFICES ASSUME NEW d \in Clients, NEW i \in 1 .. Len(down'[d])
               PROVE  i \in 1 .. Len(down[d]) /\ down'[d][i] = down[d][i]
    BY DEF Inv, Answered, Truthful, Version, Disconnect
  <2> QED BY <1>1 DEF Inv, TypeOK
<1> QED BY <1>3, <1>5, <1>6, <1>7, Quiet DEF Disconnect, Inv
\* Taking the first answer leaves the others as they were.
LEMMA TailKeeps ==
    ASSUME Inv, NEW c \in Clients, down[c] # <<>>,
           hub' = hub, hist' = hist, down' = [down EXCEPT ![c] = Tail(down[c])]
    PROVE  Answered'
<1>1. ASSUME NEW d \in Clients, NEW i \in 1 .. Len(down'[d])
      PROVE  \E j \in 1 .. Len(down[d]) : down'[d][i] = down[d][j]
  <2>1. down \in [Clients -> Seq(Answers)]
    BY DEF Inv, TypeOK
  <2> QED BY <2>1, TailOf
<1>2. SUFFICES ASSUME NEW d \in Clients, NEW i \in 1 .. Len(down'[d])
               PROVE  Truthful(down[d][i])'
  BY DEF Answered
<1>3. PICK j \in 1 .. Len(down[d]) : down'[d][i] = down[d][j]
  BY <1>1
<1>4. Truthful(down[d][j])
  BY DEF Inv, Answered
<1> QED BY <1>3, <1>4 DEF Truthful, Version

LEMMA ReceiveUpdateKeeps ==
    ASSUME Inv, NEW c \in Clients, ReceiveUpdate(c) PROVE Inv'
<1> DEFINE answer == Head(down[c])
<1>0. down[c] \in Seq(Answers) /\ down[c] # <<>> /\ copy[c] \in Rows
  BY DEF Inv, TypeOK, ReceiveUpdate
<1>1. /\ answer \in Answers /\ answer.kind = "update"
      /\ answer = down[c][1] /\ 1 \in 1 .. Len(down[c])
      /\ Tail(down[c]) \in Seq(Answers)
  BY <1>0 DEF ReceiveUpdate
<1>2. answer.row \in Rows /\ Version(answer.row)
  BY <1>1 DEF Answers, Inv, Answered, Truthful
<1>3. /\ down' = [down EXCEPT ![c] = Tail(down[c])]
      /\ copy' = [copy EXCEPT ![c] = Newer(copy[c], answer.row)]
  BY DEF ReceiveUpdate
<1>4. Newer(copy[c], answer.row) \in Rows
  BY <1>0, <1>2 DEF Newer
<1>5. copy' \in [Clients -> Rows] /\ down' \in [Clients -> Seq(Answers)]
  BY <1>1, <1>3, <1>4 DEF Inv, TypeOK
<1>6. TypeOK'
  BY <1>5 DEF ReceiveUpdate, Inv, TypeOK
<1>7. CopyIsAVersion'
  BY <1>2, <1>3 DEF ReceiveUpdate, Inv, TypeOK, CopyIsAVersion, Newer, Version
<1>8. Answered'
  BY <1>0, <1>3, TailKeeps DEF ReceiveUpdate
<1> QED BY <1>6, <1>7, <1>8, Quiet DEF ReceiveUpdate, Inv

LEMMA ReceiveAckKeeps ==
    ASSUME Inv, Locked, NEW c \in Clients, ReceiveAck(c) PROVE Inv'
<1> DEFINE answer == Head(down[c])
           u == answer.update
<1>0. /\ down[c] \in Seq(Answers) /\ down[c] # <<>> /\ copy[c] \in Rows
      /\ lock[c] \in [permits : {0, 1}, waiters : Seq(Updates)]
  BY DEF Inv, TypeOK, ReceiveAck
<1>1. /\ answer \in Answers /\ answer.kind # "update"
      /\ answer = down[c][1] /\ 1 \in 1 .. Len(down[c])
      /\ Tail(down[c]) \in Seq(Answers)
  BY <1>0 DEF ReceiveAck
<1>2. u \in Updates /\ Pending(c, u)
  BY <1>1 DEF Answers, Locked, OneUnderWay
<1>3. answer.kind # "error" => answer.row \in Rows /\ Version(answer.row)
  BY <1>1 DEF Answers, Inv, Answered, Truthful
<1>4. /\ down' = [down EXCEPT ![c] = Tail(down[c])]
      /\ copy' = IF answer.kind = "error" THEN copy
                 ELSE [copy EXCEPT ![c] = answer.row]
  BY DEF ReceiveAck, Applied
<1>5. copy' \in [Clients -> Rows] /\ down' \in [Clients -> Seq(Answers)]
  BY <1>1, <1>3, <1>4 DEF Inv, TypeOK
<1>6. lock[c].permits = 0
  BY <1>0, <1>2 DEF Pending, Locked, Permit, Busy
<1>7. lock' \in [Clients -> [permits : {0, 1}, waiters : Seq(Updates)]]
  <2>1. Unlocked(lock[c]) \in [permits : {0, 1}, waiters : Seq(Updates)]
    <3>1. CASE lock[c].waiters = <<>>
      <4>1. [lock[c] EXCEPT !.permits = lock[c].permits + 1]
               = [permits |-> 1, waiters |-> lock[c].waiters]
        BY <1>0, <1>6
      <4>2. lock[c].waiters \in Seq(Updates)
        BY <1>0
      <4> HIDE <1>0, <1>6
      <4>3. Unlocked(lock[c]) = [permits |-> 1, waiters |-> lock[c].waiters]
        BY <3>1, <4>1 DEF Unlocked
      <4> QED BY <4>2, <4>3
    <3>2. CASE lock[c].waiters # <<>>
      <4>1. [lock[c] EXCEPT !.waiters = Tail(lock[c].waiters)]
               = [permits |-> 0, waiters |-> Tail(lock[c].waiters)]
        BY <1>0, <1>6, Rewaited
      <4>2. Tail(lock[c].waiters) \in Seq(Updates)
        BY <3>2, <1>0
      <4> QED BY <3>2, <4>1, <4>2 DEF Unlocked
    <3> QED BY <3>1, <3>2
  <2> QED BY <2>1 DEF ReceiveAck, Inv, TypeOK
<1>8. phase' \in [Updates -> Phases]
  BY <1>2 DEF ReceiveAck, Inv, TypeOK, Phases
<1>9. TypeOK'
  BY <1>5, <1>7, <1>8 DEF ReceiveAck, Inv, TypeOK
<1>10. CopyIsAVersion'
  BY <1>3, <1>4 DEF ReceiveAck, Inv, TypeOK, CopyIsAVersion, Version
<1>11. Answered'
  BY <1>0, <1>4, TailKeeps DEF ReceiveAck
<1>12. Kept'
  <2>1. answer.kind = "success" => u \in hub.value
    <3> SUFFICES ASSUME answer.kind = "success" PROVE u \in hub.value
      OBVIOUS
    <3>1. u \in answer.row.value /\ answer.row.value = hist[answer.row.version]
          /\ answer.row.version <= hub.version
      BY <1>1, <1>3 DEF Inv, Answered, Truthful, Version
    <3>2. /\ answer.row.version \in 1 .. hub.version
          /\ hub.version \in 1 .. hub.version
      BY <3>1, <1>3 DEF Rows, Versions, Inv, TypeOK
    <3> QED BY <3>1, <3>2 DEF Inv, History
  <2>2. hub' = hub
    BY DEF ReceiveAck
  <2>3. \A w \in Updates : phase'[w] = "done" =>
           phase[w] = "done" \/ (w = u /\ answer.kind = "success")
    BY <1>2 DEF ReceiveAck, Inv, TypeOK
  <2> QED BY <2>1, <2>2, <2>3 DEF Inv, Kept
<1> QED BY <1>9, <1>10, <1>11, <1>12, Quiet DEF ReceiveAck, Inv
LEMMA HubEditKeeps ==
    ASSUME Inv, NEW e \in HubEdits, HubEdit(e) PROVE Inv'
<1> DEFINE value == hub.value \cup {e}
<1>0. /\ hub \in Rows /\ hub.version \in Versions /\ value \in Values
      /\ TypeOK /\ History
  BY DEF Inv, TypeOK, Rows, Values, Edits
<1>1. hub' = Stored(hub, hub.version, value) /\ hist' = Recorded(hub')
  BY DEF HubEdit
<1>2. /\ hub' \in Rows
      /\ hub' = hub \/ (hub'.version = hub.version + 1 /\ hub.value \subseteq hub'.value)
  BY <1>0, <1>1, StoredGrows
<1>3. /\ History'
      /\ hist' \in [1 .. hub'.version -> Values]
      /\ hub.version <= hub'.version
      /\ hub.value \subseteq hub'.value
      /\ \A v \in 1 .. hub.version : hist'[v] = hist[v]
  BY <1>0, <1>1, <1>2, Growth
<1>4. hub'.version \in Nat
  BY <1>2 DEF Rows, Versions
<1>5. TypeOK'
  BY <1>2, <1>3 DEF HubEdit, Inv, TypeOK
<1>6. CopyIsAVersion' /\ Kept'
  BY <1>3, <1>4, Undisturbed DEF HubEdit
<1>7. Asked'
  <2> SUFFICES ASSUME NEW d \in Clients, NEW i \in 1 .. Len(up[d])
               PROVE  /\ up[d][i].row.version <= hub'.version
                      /\ up[d][i].row.value
                           = hist'[up[d][i].row.version] \cup {up[d][i].update}
    BY DEF HubEdit, Asked, Sensible
  <2> QED BY <1>3, <1>4, Undisturbed
<1>8. Answered'
  <2> SUFFICES ASSUME NEW d \in Clients, NEW i \in 1 .. Len(down[d])
               PROVE  LET a == down[d][i] IN
                      /\ a.kind # "error" => /\ a.row.version <= hub'.version
                                             /\ a.row.value = hist'[a.row.version]
                      /\ a.kind = "success" => a.update \in a.row.value
    BY DEF HubEdit, Answered, Truthful, Version
  <2> QED BY <1>3, <1>4, Undisturbed
<1> QED BY <1>3, <1>5, <1>6, <1>7, <1>8 DEF Inv

\* An answer the hub appends, to the caller or to the others, is truthful.
LEMMA HubUpdateKeeps ==
    ASSUME Inv, NEW c \in Clients, HubUpdate(c) PROVE Inv'
<1> DEFINE request == Head(up[c])
           u == request.update
           row == Stored(hub, request.row.version, request.row.value)
           kind == IF row = hub THEN "mismatch" ELSE "success"
           answer == [kind |-> kind, row |-> row, update |-> u]
           event == [kind |-> "update", row |-> row, update |-> u]
<1>0. up[c] \in Seq(Requests) /\ up[c] # <<>> /\ down \in [Clients -> Seq(Answers)]
  BY DEF Inv, TypeOK, HubUpdate
<1>1. /\ request \in Requests /\ request = up[c][1] /\ 1 \in 1 .. Len(up[c])
      /\ Tail(up[c]) \in Seq(Requests)
  BY <1>0
<1>2. /\ u \in Updates /\ request.row \in Rows
      /\ request.row.version \in Versions /\ request.row.value \in Values
  BY <1>1 DEF Requests, Rows
<1>3. /\ request.row.version <= hub.version
      /\ request.row.value = hist[request.row.version] \cup {u}
  BY <1>1 DEF Inv, Asked, Sensible
<1>4. request.row.version = hub.version => hub.value \subseteq request.row.value
  BY <1>3 DEF Inv, History
<1>5. hub' = row /\ hist' = Recorded(hub')
  BY DEF HubUpdate
<1>6. /\ hub' \in Rows
      /\ \/ hub' = hub
         \/ /\ hub'.version = hub.version + 1 /\ hub'.value = request.row.value
            /\ hub.value \subseteq hub'.value
  BY <1>2, <1>4, <1>5, StoredGrows DEF Inv
<1>7. /\ History'
      /\ hist' \in [1 .. hub'.version -> Values]
      /\ hub.version <= hub'.version
      /\ hub.value \subseteq hub'.value
      /\ \A v \in 1 .. hub.version : hist'[v] = hist[v]
  BY <1>5, <1>6, Growth DEF Inv
<1>8. hub'.version \in Nat
  BY <1>6 DEF Rows, Versions
<1>9. answer \in Answers /\ event \in Answers
  BY <1>2, <1>5, <1>6 DEF Answers
<1>10. /\ up' = [up EXCEPT ![c] = Tail(up[c])]
       /\ \A d \in Clients : \/ down'[d] = down[d]
                             \/ down'[d] = Append(down[d], answer)
                             \/ down'[d] = Append(down[d], event)
       /\ DOMAIN down' = Clients /\ down' = [d \in Clients |-> down'[d]]
  BY <1>0 DEF HubUpdate, Broadcast
<1>11. up' \in [Clients -> Seq(Requests)] /\ down' \in [Clients -> Seq(Answers)]
  <2> HIDE DEF answer, event
  <2>1. ASSUME NEW d \in Clients PROVE down'[d] \in Seq(Answers)
    <3>1. down[d] \in Seq(Answers)
      BY <1>0
    <3>2. Append(down[d], answer) \in Seq(Answers) /\ Append(down[d], event) \in Seq(Answers)
      BY <3>1, <1>9
    <3> QED BY <3>1, <3>2, <1>10
  <2> QED BY <2>1, <1>1, <1>10 DEF Inv, TypeOK
<1>12. TypeOK'
  BY <1>6, <1>7, <1>11 DEF HubUpdate, Inv, TypeOK
<1>13. CopyIsAVersion' /\ Kept'
  BY <1>7, <1>8, Undisturbed DEF HubUpdate
<1>14. Asked'
  BY <1>7, <1>8, <1>0, <1>10, AskedTail
<1>15. /\ answer.row = hub' /\ event.row = hub' /\ event.kind = "update"
       /\ answer.update = u /\ answer.kind = kind
       /\ kind = "success" => u \in hub'.value
  BY <1>2, <1>3, <1>5, <1>6
<1>16. Answered'
  <2> HIDE DEF answer, event
  <2>1. SUFFICES ASSUME NEW d \in Clients, NEW i \in 1 .. Len(down'[d])
                 PROVE  Truthful(down[d][i])'
    BY DEF Answered
  <2>2. down[d] \in Seq(Answers)
    BY <1>0
  <2>3. \/ i \in 1 .. Len(down[d]) /\ down'[d][i] = down[d][i]
        \/ down'[d][i] = answer
        \/ down'[d][i] = event
    BY <1>9, <1>10, <2>2
  <2>4. CASE i \in 1 .. Len(down[d]) /\ down'[d][i] = down[d][i]
    <3>1. LET a == down[d][i] IN
          /\ a.kind # "error" => /\ a.row.version <= hub'.version
                                 /\ a.row.value = hist'[a.row.version]
          /\ a.kind = "success" => a.update \in a.row.value
      BY <2>4, <1>7, <1>8, Undisturbed
    <3> QED BY <3>1, <2>4 DEF Truthful, Version
  <2>5. hub'.version <= hub'.version /\ hub'.value = hist'[hub'.version]
    BY <1>7, <1>8 DEF History
  <2>6. CASE down'[d][i] = answer
    BY <2>5, <2>6, <1>15 DEF Truthful, Version
  <2>7. CASE down'[d][i] = event
    BY <2>5, <2>7, <1>15 DEF Truthful, Version
  <2> QED BY <2>3, <2>4, <2>6, <2>7
<1> QED BY <1>7, <1>12, <1>13, <1>14, <1>16 DEF Inv
-----------------------------------------------------------------------------
(* The lock: what each action does to Permit, Queue and OneUnderWay.       *)

LEMMA CallLocks ==
    ASSUME Inv, Locked, NEW u \in Updates, Call(u) PROVE Locked'
<1> DEFINE c == Owner[u]
<1>0. /\ c \in Clients /\ lock \in [Clients -> [permits : {0, 1}, waiters : Seq(Updates)]]
      /\ phase \in [Updates -> Phases] /\ phase[u] = "idle"
      /\ lock[c].waiters \in Seq(Updates)
  BY OwnerAssumption DEF Inv, TypeOK, Call
<1>1. OneUnderWay'
  BY <1>0 DEF Call, Locked, OneUnderWay, Pending
<1>2. CASE lock[c].permits > 0
  <2>1. /\ lock[c].waiters = <<>>
        /\ \A w \in Updates : Owner[w] = c => ~Busy(w)
    BY <1>0, <1>2 DEF Locked, Permit
  <2>2. /\ lock' = [lock EXCEPT ![c] = [lock[c] EXCEPT !.permits = lock[c].permits - 1]]
        /\ phase' = [phase EXCEPT ![u] = "running"]
    BY <1>2, <1>0 DEF Call
  <2>3. \A d \in Clients : /\ lock'[d].waiters = lock[d].waiters
                           /\ lock'[d].permits = IF d = c THEN 0 ELSE lock[d].permits
    BY <2>2, <1>0, <1>2
  <2>4. Permit'
    BY <2>1, <2>2, <2>3, <1>0 DEF Locked, Permit, Busy
  <2>5. Queue'
    BY <2>2, <2>3, <1>0 DEF Locked, Queue, Waiting
  <2> QED BY <2>4, <2>5, <1>1 DEF Locked
<1>3. CASE ~(lock[c].permits > 0)
  <2>1. /\ lock' = [lock EXCEPT ![c] = [lock[c] EXCEPT !.waiters = Append(lock[c].waiters, u)]]
        /\ phase' = [phase EXCEPT ![u] = "waiting"]
    BY <1>3, <1>0 DEF Call
  <2>2. \A d \in Clients : /\ lock'[d].permits = lock[d].permits
                           /\ lock'[d].waiters = IF d = c THEN Append(lock[c].waiters, u)
                                                  ELSE lock[d].waiters
    BY <2>1, <1>0
  <2>3. Permit'
    BY <2>1, <2>2, <1>0, <1>3 DEF Locked, Permit, Busy
  <2>4. Queue'
    <3>0. \A d \in Clients, w \in Updates : Waiting(d, w) => Waiting(d, w)' /\ w # u
      BY <2>1, <1>0 DEF Waiting
    <3>1. Waiting(c, u)'
      BY <2>1, <1>0 DEF Waiting
    <3>2. /\ Len(lock'[c].waiters) = Len(lock[c].waiters) + 1
          /\ lock'[c].waiters[Len(lock[c].waiters) + 1] = u
          /\ \A i \in 1 .. Len(lock[c].waiters) :
                lock'[c].waiters[i] = lock[c].waiters[i]
          /\ Len(lock[c].waiters) \in Nat
      <4>1. lock'[c].waiters = Append(lock[c].waiters, u) /\ lock[c].waiters \in Seq(Updates)
        BY <2>2, <1>0
      <4> HIDE <1>0, <2>2
      <4> QED BY <4>1
    <3>3. \A d \in Clients : \A i \in 1 .. Len(lock[d].waiters) :
             /\ lock[d].waiters[i] \in Updates
             /\ Waiting(d, lock[d].waiters[i])
      BY DEF Locked, Queue, Waiting
    <3>4. SUFFICES ASSUME NEW d \in Clients
                   PROVE  /\ \A i \in 1 .. Len(lock'[d].waiters) : Waiting(d, lock[d].waiters[i])'
                          /\ \A i, j \in 1 .. Len(lock'[d].waiters) :
                                lock'[d].waiters[i] = lock'[d].waiters[j] => i = j
      BY DEF Queue
    <3>5. CASE d # c
      <4>1. lock'[d].waiters = lock[d].waiters
        BY <3>5, <2>2
      <4> QED BY <4>1, <3>0, <3>3 DEF Locked, Queue, Waiting
    <3>6. CASE d = c
      <4>1. ASSUME NEW i \in 1 .. Len(lock'[c].waiters)
            PROVE  \/ i = Len(lock[c].waiters) + 1
                   \/ i \in 1 .. Len(lock[c].waiters)
        BY <3>2
      <4>2. \A i, j \in 1 .. Len(lock[c].waiters) :
               lock[c].waiters[i] = lock[c].waiters[j] => i = j
        BY <1>0 DEF Locked, Queue
      <4>3. \A i \in 1 .. Len(lock[c].waiters) : lock[c].waiters[i] # u
        BY <1>0, <3>0, <3>3
      <4>4. ASSUME NEW i \in 1 .. Len(lock'[c].waiters)
            PROVE  Waiting(c, lock[c].waiters[i])'
        <5>1. CASE i = Len(lock[c].waiters) + 1
          <6>1. lock'[c].waiters[i] = u
            BY <5>1, <3>2
          <6> QED BY <6>1, <3>1 DEF Waiting
        <5>2. CASE i \in 1 .. Len(lock[c].waiters)
          <6>1. lock'[c].waiters[i] = lock[c].waiters[i] /\ Waiting(c, lock[c].waiters[i])
            BY <5>2, <3>2, <3>3, <1>0
          <6> QED BY <6>1, <3>0, <1>0 DEF Waiting
        <5> QED BY <4>1, <5>1, <5>2
      <4>5. \A i, j \in 1 .. Len(lock'[c].waiters) :
               lock'[c].waiters[i] = lock'[c].waiters[j] => i = j
        BY <4>1, <4>2, <4>3, <3>2
      <4> QED BY <3>6, <4>4, <4>5
    <3> QED BY <3>5, <3>6
  <2> QED BY <2>3, <2>4, <1>1 DEF Locked
<1> QED BY <1>2, <1>3
LEMMA QuietLocks ==
    ASSUME Locked, lock' = lock, phase' = phase
    PROVE  Permit' /\ Queue' /\ (up' = up /\ down' = down => OneUnderWay')
BY DEF Locked, Permit, Queue, OneUnderWay, Pending, Waiting, Busy

\* While a call is being attempted nothing of its client is under way.
LEMMA NothingUnderWay ==
    ASSUME Inv, Locked, NEW u \in Updates, phase[u] \in {"running", "backoff"}
    PROVE  /\ up[Owner[u]] = <<>>
           /\ \A i \in 1 .. Len(down[Owner[u]]) : down[Owner[u]][i].kind = "update"
<1> DEFINE c == Owner[u]
<1>0. c \in Clients /\ up[c] \in Seq(Requests) /\ Busy(u)
  BY OwnerAssumption DEF Inv, TypeOK, Busy
<1>1. ASSUME NEW w, Pending(c, w) PROVE FALSE
  BY <1>0, <1>1 DEF Locked, Permit, Pending, Busy
<1>2. \A i \in 1 .. Len(up[c]) : FALSE
  BY <1>0, <1>1 DEF Locked, OneUnderWay
<1>3. \A i \in 1 .. Len(down[c]) : down[c][i].kind = "update"
  BY <1>0, <1>1 DEF Locked, OneUnderWay
<1> QED BY <1>0, <1>2, <1>3

LEMMA AttemptLocks ==
    ASSUME Inv, Locked, NEW u \in Updates, Attempt(u) PROVE Locked'
<1> DEFINE c == Owner[u]
           request == [update |-> u, row |-> [value |-> copy[c].value \cup {u},
                                              version |-> copy[c].version]]
<1>0. /\ c \in Clients /\ up \in [Clients -> Seq(Requests)]
      /\ phase \in [Updates -> Phases] /\ phase[u] \in {"running", "backoff"}
      /\ phase' = [phase EXCEPT ![u] = "inflight"]
      /\ lock' = lock /\ down' = down
  BY OwnerAssumption DEF Inv, TypeOK, Attempt
<1>1. up' = [up EXCEPT ![c] = Append(up[c], request)] /\ request.update = u
  BY DEF Attempt
<1> HIDE DEF request
<1>2. Permit'
  BY <1>0 DEF Locked, Permit, Busy
<1>3. Queue'
  BY <1>0 DEF Locked, Queue, Waiting
<1>4. /\ up[c] = <<>>
      /\ \A i \in 1 .. Len(down[c]) : down[c][i].kind = "update"
  BY <1>0, NothingUnderWay
<1>5. up'[c] = <<request>> /\ \A d \in Clients : d # c => up'[d] = up[d]
  BY <1>0, <1>1, <1>4
<1>6. Pending(c, u)' /\ \A d \in Clients, w \in Updates : Pending(d, w) => Pending(d, w)'
  BY <1>0 DEF Pending
<1>7. \A d \in Clients : \A w : Pending(d, w) => w \in Updates
  BY DEF Pending
<1>8. OneUnderWay'
  <2>1. SUFFICES ASSUME NEW d \in Clients
                 PROVE  /\ Len(up'[d]) <= 1
                        /\ \A i \in 1 .. Len(up'[d]) : Pending(d, up[d][i].update)'
                        /\ \A i \in 1 .. Len(down[d]) : down[d][i].kind # "update" =>
                              /\ Pending(d, down[d][i].update)'
                              /\ up'[d] = <<>>
                              /\ \A j \in 1 .. Len(down[d]) :
                                    down[d][j].kind # "update" => i = j
    BY <1>0 DEF OneUnderWay
  <2>2. CASE d = c
    BY <2>2, <1>1, <1>4, <1>5, <1>6, <1>0 DEF Pending
  <2>3. CASE d # c
    BY <2>3, <1>5, <1>6, <1>7, <1>0 DEF Locked, OneUnderWay, Pending
  <2> QED BY <2>2, <2>3
<1> QED BY <1>2, <1>3, <1>8 DEF Locked

LEMMA OneRequest ==
    ASSUME Inv, Locked, NEW c \in Clients, up[c] # <<>>
    PROVE  Len(up[c]) = 1 /\ Head(up[c]) = up[c][1]
<1>1. up[c] \in Seq(Requests)
  BY DEF Inv, TypeOK
<1>2. Len(up[c]) <= 1
  BY DEF Locked, OneUnderWay
<1>3. Len(up[c]) \in Nat /\ Len(up[c]) # 0
  BY <1>1
<1>4. Head(up[c]) = up[c][1]
  BY <1>1
<1>5. Len(up[c]) = 1
  <2> HIDE <1>1
  <2> DEFINE n == Len(up[c])
  <2>1. n \in Nat /\ n # 0 /\ n <= 1
    BY <1>2, <1>3
  <2> HIDE DEF n
  <2>2. n = 1
    BY <2>1
  <2> QED BY <2>2 DEF n
<1> QED BY <1>4, <1>5

LEMMA EmptyChannel ==
    ASSUME NEW s, s = <<>> PROVE Len(s) <= 1 /\ \A i \in 1 .. Len(s) : FALSE
OBVIOUS

LEMMA AppendElement ==
    ASSUME NEW S, NEW s \in Seq(S), NEW x \in S, NEW i \in 1 .. Len(Append(s, x))
    PROVE  \/ i \in 1 .. Len(s) /\ Append(s, x)[i] = s[i]
           \/ i = Len(s) + 1 /\ Append(s, x)[i] = x
OBVIOUS

\* An answer takes the place of the request it answers; the events the others
\* get are not answers.
LEMMA Answering ==
    ASSUME Inv, Locked, NEW c \in Clients, up[c] # <<>>,
           lock' = lock, phase' = phase, up' = [up EXCEPT ![c] = Tail(up[c])],
           NEW answer \in Answers, answer.kind # "update",
           answer.update = Head(up[c]).update,
           NEW event \in Answers, event.kind = "update", down'[c] = Append(down[c], answer),
           \A d \in Clients : d # c =>
               down'[d] = down[d] \/ down'[d] = Append(down[d], event)
    PROVE  Locked'
<1>0. up \in [Clients -> Seq(Requests)] /\ down \in [Clients -> Seq(Answers)]
  BY DEF Inv, TypeOK
<1>1. Len(up[c]) = 1 /\ Head(up[c]) = up[c][1]
  BY OneRequest
<1>2. up'[c] = <<>> /\ \A d \in Clients : d # c => up'[d] = up[d]
  BY <1>0, <1>1
<1>3. Pending(c, answer.update)
  BY <1>1 DEF Locked, OneUnderWay
<1>4. \A i \in 1 .. Len(down[c]) : down[c][i].kind = "update"
  BY DEF Locked, OneUnderWay
<1>5. \A d \in Clients : \A w : Pending(d, w) => Pending(d, w)'
  BY DEF Pending
<1>6. OneUnderWay'
  <2>1. SUFFICES ASSUME NEW d \in Clients
                 PROVE  /\ Len(up'[d]) <= 1
                        /\ \A i \in 1 .. Len(up'[d]) : Pending(d, up[d][i].update)'
                        /\ \A i \in 1 .. Len(down'[d]) : down'[d][i].kind # "update" =>
                              /\ Pending(d, down[d][i].update)'
                              /\ up'[d] = <<>>
                              /\ \A j \in 1 .. Len(down'[d]) :
                                    down'[d][j].kind # "update" => i = j
    BY DEF OneUnderWay
  <2>0. down[d] \in Seq(Answers) /\ Len(down[d]) \in Nat
    BY <1>0
  <2>2. CASE d = c
    <3>1. \A i \in 1 .. Len(down'[c]) :
             \/ i \in 1 .. Len(down[c]) /\ down'[c][i] = down[c][i]
             \/ i = Len(down[c]) + 1 /\ down'[c][i] = answer
      <4>1. down[c] \in Seq(Answers) /\ down'[c] = Append(down[c], answer)
        BY <1>0
      <4> QED BY <4>1, AppendElement
    <3>2. \A i \in 1 .. Len(down'[c]) : down'[c][i].kind # "update" =>
             i = Len(down[c]) + 1 /\ down'[c][i] = answer
      BY <3>1, <1>4
    <3>3. Len(up'[c]) <= 1 /\ \A i \in 1 .. Len(up'[c]) : FALSE
      BY <1>2, EmptyChannel
    <3>4. ASSUME NEW i \in 1 .. Len(down'[c]), down'[c][i].kind # "update"
          PROVE  Pending(c, down[c][i].update)'
      <4>1. down'[c][i].update = answer.update
        BY <3>2, <3>4
      <4>2. phase' = phase
        OBVIOUS
      <4> QED BY <4>1, <4>2, <1>3 DEF Pending
    <3>5. \A i, j \in 1 .. Len(down'[c]) :
             down'[c][i].kind # "update" /\ down'[c][j].kind # "update" => i = j
      BY <3>2
    <3> QED BY <2>2, <3>3, <3>4, <3>5, <1>2
  <2>3. CASE d # c
    <3>1. \A i \in 1 .. Len(down'[d]) : down'[d][i].kind # "update" =>
             i \in 1 .. Len(down[d]) /\ down'[d][i] = down[d][i]
      <4>1. CASE down'[d] = down[d]
        BY <4>1 DEF Pending
      <4>2. CASE down'[d] = Append(down[d], event)
        BY <4>2, <2>0, AppendElement
      <4> QED BY <4>1, <4>2, <2>3
    <3>2. /\ Len(up[d]) <= 1
          /\ \A i \in 1 .. Len(up[d]) : Pending(d, up[d][i].update)
          /\ \A i \in 1 .. Len(down[d]) : down[d][i].kind # "update" =>
                /\ Pending(d, down[d][i].update)
                /\ up[d] = <<>>
                /\ \A j \in 1 .. Len(down[d]) : down[d][j].kind # "update" => i = j
      BY DEF Locked, OneUnderWay
    <3>3. up'[d] = up[d]
      BY <2>3, <1>2
    <3>4. \A i \in 1 .. Len(up'[d]) : Pending(d, up[d][i].update)'
      BY <3>2, <3>3 DEF Pending
    <3>5. \A i \in 1 .. Len(down'[d]) : down'[d][i].kind # "update" =>
             Pending(d, down[d][i].update)'
      BY <3>1, <3>2 DEF Pending
    <3>6. \A i, j \in 1 .. Len(down'[d]) :
             down'[d][i].kind # "update" /\ down'[d][j].kind # "update" => i = j
      BY <3>1, <3>2
    <3> QED BY <3>1, <3>2, <3>3, <3>4, <3>5, <3>6
  <2> QED BY <2>2, <2>3
<1> QED BY <1>6, QuietLocks DEF Locked
LEMMA HubErrorLocks ==
    ASSUME Inv, Locked, NEW c \in Clients, HubError(c) PROVE Locked'
<1> DEFINE answer == [kind |-> "error", update |-> Head(up[c]).update]
<1>0. down \in [Clients -> Seq(Answers)] /\ up[c] \in Seq(Requests) /\ up[c] # <<>>
  BY DEF Inv, TypeOK, HubError
<1>1. Head(up[c]) \in Requests
  BY <1>0
<1>2. /\ answer \in Answers /\ answer.kind # "update" /\ answer.update = Head(up[c]).update
      /\ down' = [down EXCEPT ![c] = Append(down[c], answer)]
      /\ lock' = lock /\ phase' = phase /\ up' = [up EXCEPT ![c] = Tail(up[c])]
  BY <1>1 DEF Requests, Answers, HubError
<1> HIDE DEF answer
<1>3. down'[c] = Append(down[c], answer) /\ \A d \in Clients : d # c => down'[d] = down[d]
  BY <1>0, <1>2
<1>4. \E event \in Answers : event.kind = "update"
  <2>1. hub \in Rows
    BY DEF Inv, TypeOK
  <2>2. [kind |-> "update", row |-> hub, update |-> Head(up[c]).update] \in Answers
    BY <1>1, <2>1 DEF Requests, Answers
  <2> QED BY <2>2
<1>5. PICK event \in Answers : event.kind = "update"
  BY <1>4
<1> QED BY <1>0, <1>2, <1>3, <1>5, Answering

LEMMA HubUpdateLocks ==
    ASSUME Inv, Locked, NEW c \in Clients, HubUpdate(c) PROVE Locked'
<1> DEFINE request == Head(up[c])
           row == Stored(hub, request.row.version, request.row.value)
           kind == IF row = hub THEN "mismatch" ELSE "success"
           answer == [kind |-> kind, row |-> row, update |-> request.update]
           event == [kind |-> "update", row |-> row, update |-> request.update]
<1>0. /\ down \in [Clients -> Seq(Answers)] /\ up[c] \in Seq(Requests) /\ up[c] # <<>>
      /\ hub \in Rows /\ hub.version \in Nat /\ hub.version >= 1
  BY DEF Inv, TypeOK, HubUpdate, Rows, Versions
<1>1. request \in Requests
  BY <1>0
<1>2. request.update \in Updates /\ request.row \in Rows
  BY <1>1 DEF Requests
<1>3. row \in Rows
  BY <1>0, <1>2 DEF Stored, Rows, Versions
<1>4. /\ answer \in Answers /\ answer.kind # "update" /\ answer.update = Head(up[c]).update
      /\ event \in Answers /\ event.kind = "update"
  BY <1>2, <1>3 DEF Answers
<1>5. /\ lock' = lock /\ phase' = phase /\ up' = [up EXCEPT ![c] = Tail(up[c])]
      /\ down'[c] = Append(down[c], answer)
      /\ \A d \in Clients : d # c => down'[d] = down[d] \/ down'[d] = Append(down[d], event)
  BY <1>0 DEF HubUpdate, Broadcast
<1> HIDE DEF answer, event
<1> QED BY <1>0, <1>4, <1>5, Answering

LEMMA DisconnectLocks ==
    ASSUME Inv, Locked, NEW c \in Clients, Disconnect(c) PROVE Locked'
<1>0. /\ phase' = [u \in Updates |->
                     IF Owner[u] = c /\ phase[u] = "inflight" THEN "backoff" ELSE phase[u]]
      /\ up' = [up EXCEPT ![c] = <<>>] /\ down' = [down EXCEPT ![c] = <<>>]
      /\ lock' = lock
  BY DEF Disconnect
<1>1. \A u \in Updates : (Busy(u)' <=> Busy(u))
  BY <1>0 DEF Busy
<1>2. Permit'
  BY <1>0, <1>1 DEF Locked, Permit, Busy
<1>3. Queue'
  BY <1>0 DEF Locked, Queue, Waiting
<1>4. /\ up'[c] = <<>> /\ down'[c] = <<>>
      /\ \A d \in Clients : d # c => up'[d] = up[d] /\ down'[d] = down[d]
  BY <1>0 DEF Inv, TypeOK
<1>5. OneUnderWay'
  <2>1. SUFFICES ASSUME NEW d \in Clients
                 PROVE  /\ Len(up'[d]) <= 1
                        /\ \A i \in 1 .. Len(up'[d]) : Pending(d, up[d][i].update)'
                        /\ \A i \in 1 .. Len(down'[d]) : down'[d][i].kind # "update" =>
                              /\ Pending(d, down[d][i].update)'
                              /\ up'[d] = <<>>
                              /\ \A j \in 1 .. Len(down'[d]) :
                                    down'[d][j].kind # "update" => i = j
    BY DEF OneUnderWay
  <2>2. CASE d = c
    <3>1. /\ Len(up'[c]) <= 1 /\ \A i \in 1 .. Len(up'[c]) : FALSE
          /\ \A i \in 1 .. Len(down'[c]) : FALSE
      BY <1>4, EmptyChannel
    <3> QED BY <3>1, <2>2
  <2>3. CASE d # c
    <3>1. up'[d] = up[d] /\ down'[d] = down[d]
      BY <2>3, <1>4
    <3>2. \A w : Pending(d, w) => w \in Updates /\ Owner[w] = d /\ phase'[w] = "inflight"
      BY <2>3, <1>0 DEF Pending
    <3> QED BY <3>1, <3>2 DEF Locked, OneUnderWay, Pending
  <2> QED BY <2>2, <2>3
<1> QED BY <1>2, <1>3, <1>5 DEF Locked
\* Taking an answer or an event off the channel.
LEMMA Taking ==
    ASSUME Inv, Locked, NEW c \in Clients, down[c] # <<>>,
           down' = [down EXCEPT ![c] = Tail(down[c])], up' = up,
           \A d \in Clients, x \in Updates :
               Pending(d, x) /\ (Head(down[c]).kind = "update" \/ x # Head(down[c]).update)
               => Pending(d, x)'
    PROVE  OneUnderWay'
<1>0. /\ down \in [Clients -> Seq(Answers)] /\ down[c] \in Seq(Answers)
      /\ up[c] \in Seq(Requests)
  BY DEF Inv, TypeOK
<1>1. /\ 1 \in 1 .. Len(down[c]) /\ Head(down[c]) = down[c][1] /\ Len(down[c]) \in Nat
      /\ \A i \in 1 .. Len(Tail(down[c])) : i + 1 # 1
  BY <1>0
<1>2. down'[c] = Tail(down[c]) /\ \A d \in Clients : d # c => down'[d] = down[d]
  BY <1>0
<1>3. SUFFICES ASSUME NEW d \in Clients
               PROVE  /\ Len(up[d]) <= 1
                      /\ \A i \in 1 .. Len(up[d]) : Pending(d, up[d][i].update)'
                      /\ \A i \in 1 .. Len(down'[d]) : down'[d][i].kind # "update" =>
                            /\ Pending(d, down[d][i].update)'
                            /\ up[d] = <<>>
                            /\ \A j \in 1 .. Len(down'[d]) :
                                  down'[d][j].kind # "update" => i = j
  BY DEF OneUnderWay
<1>4. /\ Len(up[d]) <= 1
      /\ \A i \in 1 .. Len(up[d]) : Pending(d, up[d][i].update)
      /\ \A i \in 1 .. Len(down[d]) : down[d][i].kind # "update" =>
            /\ Pending(d, down[d][i].update)
            /\ up[d] = <<>>
            /\ \A j \in 1 .. Len(down[d]) : down[d][j].kind # "update" => i = j
  BY DEF Locked, OneUnderWay
<1>5. CASE d # c
  <2>1. \A x : Pending(d, x) => x # Head(down[c]).update \/ Head(down[c]).kind = "update"
    <3>1. Head(down[c]).kind # "update" => Pending(c, Head(down[c]).update)
      BY <1>1 DEF Locked, OneUnderWay
    <3> QED BY <3>1, <1>5 DEF Pending
  <2>2. \A x : Pending(d, x) => Pending(d, x)'
    BY <2>1 DEF Pending
  <2>3. \A i \in 1 .. Len(up[d]) : Pending(d, up[d][i].update)'
    BY <2>2, <1>4 DEF Pending
  <2>4. \A i \in 1 .. Len(down'[d]) : down'[d][i].kind # "update" =>
           Pending(d, down[d][i].update)'
    BY <2>2, <1>2, <1>4, <1>5 DEF Pending
  <2> QED BY <2>3, <2>4, <1>2, <1>4, <1>5
<1>6. CASE d = c
  <2>1. ASSUME NEW i \in 1 .. Len(down'[c])
        PROVE  i + 1 \in 1 .. Len(down[c]) /\ down'[c][i] = down[c][i + 1]
    BY <1>0, <1>2, TailElement
  <2>2. CASE Head(down[c]).kind = "update"
    <3>1. \A x : Pending(c, x) => Pending(c, x)'
      BY <2>2 DEF Pending
    <3>2. \A i \in 1 .. Len(up[c]) : Pending(c, up[c][i].update)'
      BY <3>1, <1>4, <1>6 DEF Pending
    <3>3. \A i \in 1 .. Len(down'[c]) : down'[c][i].kind # "update" =>
             Pending(c, down[c][i].update)' /\ up[c] = <<>>
      BY <3>1, <2>1, <1>4, <1>6 DEF Pending
    <3>4. ASSUME NEW i \in 1 .. Len(down'[c]), NEW j \in 1 .. Len(down'[c]),
                 down'[c][i].kind # "update", down'[c][j].kind # "update"
          PROVE  i = j
      <4>1. i + 1 = j + 1
        BY <3>4, <2>1, <1>4, <1>6
      <4>2. Len(down'[c]) \in Nat
        BY <1>0, <1>2
      <4> QED BY <4>1, <4>2
    <3>5. Len(up[c]) <= 1
      BY <1>4, <1>6
    <3> HIDE <1>4
    <3>6. \A i \in 1 .. Len(down'[c]) : down'[c][i].kind # "update" =>
             /\ Pending(c, down[c][i].update)'
             /\ up[c] = <<>>
             /\ \A j \in 1 .. Len(down'[c]) : down'[c][j].kind # "update" => i = j
      BY <3>3, <3>4
    <3> QED BY <3>2, <3>5, <3>6, <1>6
  <2>3. CASE Head(down[c]).kind # "update"
    <3>1. /\ up[c] = <<>>
          /\ \A j \in 1 .. Len(down[c]) : down[c][j].kind # "update" => 1 = j
      BY <2>3, <1>1, <1>4, <1>6
    <3>2. \A i \in 1 .. Len(up[c]) : FALSE
      BY <3>1, EmptyChannel
    <3>3. ASSUME NEW i \in 1 .. Len(down'[c]), down'[c][i].kind # "update" PROVE FALSE
      <4>1. i + 1 = 1
        BY <3>1, <3>3, <2>1
      <4> QED BY <4>1, <1>1, <1>2
    <3> QED BY <3>2, <3>3, <1>4, <1>6
  <2> QED BY <2>2, <2>3
<1> QED BY <1>5, <1>6

LEMMA ReceiveUpdateLocks ==
    ASSUME Inv, Locked, NEW c \in Clients, ReceiveUpdate(c) PROVE Locked'
<1>1. /\ down[c] # <<>> /\ down' = [down EXCEPT ![c] = Tail(down[c])]
      /\ up' = up /\ phase' = phase /\ lock' = lock
  BY DEF ReceiveUpdate
<1>2. OneUnderWay'
  BY <1>1, Taking DEF Pending
<1> QED BY <1>1, <1>2, QuietLocks DEF Locked

\* The end of a call: the permit is free, or the first waiter has it.
LEMMA ReceiveAckLocks ==
    ASSUME Inv, Locked, NEW c \in Clients, ReceiveAck(c) PROVE Locked'
<1> DEFINE answer == Head(down[c])
           u == answer.update
<1>0. /\ down[c] \in Seq(Answers) /\ down[c] # <<>> /\ answer.kind # "update"
      /\ lock \in [Clients -> [permits : {0, 1}, waiters : Seq(Updates)]]
      /\ lock[c].waiters \in Seq(Updates) /\ phase \in [Updates -> Phases]
      /\ down' = [down EXCEPT ![c] = Tail(down[c])] /\ up' = up
  BY DEF Inv, TypeOK, ReceiveAck
<1>1. 1 \in 1 .. Len(down[c]) /\ answer = down[c][1]
  BY <1>0
<1>2. Pending(c, u)
  BY <1>0, <1>1 DEF Locked, OneUnderWay
<1>3. u \in Updates /\ Owner[u] = c /\ phase[u] = "inflight" /\ Busy(u)
  BY <1>2 DEF Pending, Busy
<1>4. \A w \in Updates : Owner[w] = c /\ Busy(w) => w = u
  BY <1>3 DEF Locked, Permit
<1>5. CASE answer.kind # "success"
  <2>1. phase' = [phase EXCEPT ![u] = "backoff"] /\ lock' = lock
    BY <1>5 DEF ReceiveAck
  <2>2. Permit'
    BY <2>1, <1>0, <1>3 DEF Locked, Permit, Busy
  <2>3. Queue'
    BY <2>1, <1>0, <1>3 DEF Locked, Queue, Waiting
  <2>4. \A d \in Clients, x \in Updates : Pending(d, x) /\ x # u => Pending(d, x)'
    BY <2>1, <1>0 DEF Pending
  <2>5. OneUnderWay'
    BY <2>4, <1>0, Taking
  <2> QED BY <2>2, <2>3, <2>5 DEF Locked
<1>6. CASE answer.kind = "success"
  <2>1. /\ lock' = [lock EXCEPT ![c] = Unlocked(lock[c])]
        /\ phase' = [x \in Updates |->
                        IF x = u THEN "done"
                        ELSE IF x \in Woken(lock[c]) THEN "running" ELSE phase[x]]
    BY <1>6 DEF ReceiveAck
  <2>2. \A d \in Clients : d # c => lock'[d] = lock[d]
    BY <2>1, <1>0
  <2>3. \A x \in Woken(lock[c]) : Waiting(c, x)
    <3>1. lock[c].waiters # <<>> => /\ Head(lock[c].waiters) = lock[c].waiters[1]
                                   /\ 1 \in 1 .. Len(lock[c].waiters)
      BY <1>0
    <3> QED BY <3>1 DEF Woken, Locked, Queue
  <2>4. \A d \in Clients, x \in Updates : Pending(d, x) /\ x # u => Pending(d, x)'
    BY <2>1, <2>3 DEF Pending, Waiting
  <2>5. OneUnderWay'
    BY <2>4, <1>0, Taking
  <2>6. \A x \in Updates : Owner[x] # c => phase'[x] = phase[x]
    BY <2>1, <2>3, <1>3 DEF Waiting
  <2>7. CASE lock[c].waiters = <<>>
    <3>1. lock'[c].waiters = <<>> /\ lock'[c].permits = lock[c].permits + 1
      BY <2>7, <2>1, <1>0 DEF Unlocked
    <3>2. \A x \in Updates : x # u => phase'[x] = phase[x]
      BY <2>7, <2>1 DEF Woken
    <3>3. phase'[u] = "done"
      BY <2>1, <1>3
    <3>4. \A x \in Updates : Owner[x] = c => ~Busy(x)'
      BY <3>2, <3>3, <1>4 DEF Busy
    <3>5. \A x \in Updates : Busy(x)' => Busy(x)
      BY <3>2, <3>3 DEF Busy
    <3>6. Permit'
      BY <3>1, <3>4, <3>5, <2>2 DEF Locked, Permit
    <3>7. Queue'
      <4>1. \A i \in 1 .. Len(lock'[c].waiters) : FALSE
        BY <3>1, EmptyChannel
      <4>2. \A d \in Clients : \A x : Waiting(d, x) => Waiting(d, x)'
        BY <3>2, <1>3 DEF Waiting
      <4> QED BY <4>1, <4>2, <2>2 DEF Locked, Queue, Waiting
    <3> QED BY <3>6, <3>7, <2>5 DEF Locked
  <2>8. CASE lock[c].waiters # <<>>
    <3> DEFINE w == Head(lock[c].waiters)
    <3>1. lock'[c].waiters = Tail(lock[c].waiters) /\ lock'[c].permits = lock[c].permits
      BY <2>8, <2>1, <1>0 DEF Unlocked
    <3>2. Waiting(c, w) /\ w # u
      BY <2>8, <2>3, <1>3 DEF Woken, Waiting
    <3>3. /\ phase'[u] = "done" /\ phase'[w] = "running"
          /\ \A x \in Updates : x # u /\ x # w => phase'[x] = phase[x]
      BY <2>8, <2>1, <1>3, <3>2 DEF Woken, Waiting
    <3>4. lock[c].permits = 0
      BY <1>0, <1>3 DEF Locked, Permit
    <3>5. \A x \in Updates : Owner[x] = c /\ Busy(x)' => x = w
      BY <3>3, <1>4 DEF Busy
    <3>6. \A x \in Updates : Owner[x] # c => (Busy(x)' <=> Busy(x))
      BY <2>6 DEF Busy
    <3>7. Permit'
      <4>1. \A d \in Clients : lock'[d].permits = 1 => d # c /\ lock'[d] = lock[d]
        BY <3>1, <3>4, <2>2
      <4>2. \A x, y \in Updates : Busy(x)' /\ Busy(y)' /\ Owner[x] = Owner[y] => x = y
        BY <3>5, <3>6 DEF Locked, Permit
      <4> QED BY <4>1, <4>2, <3>6 DEF Locked, Permit
    <3>8. Queue'
      <4>1. \A d \in Clients : \A x : Waiting(d, x) /\ x # w => Waiting(d, x)'
        BY <3>3, <1>3 DEF Waiting
      <4>2. ASSUME NEW i \in 1 .. Len(lock'[c].waiters)
            PROVE  /\ i + 1 \in 1 .. Len(lock[c].waiters)
                   /\ lock'[c].waiters[i] = lock[c].waiters[i + 1]
        BY <3>1, <2>8, <1>0, TailElement
      <4>3. SUFFICES ASSUME NEW d \in Clients
                     PROVE  /\ \A i \in 1 .. Len(lock'[d].waiters) :
                                  Waiting(d, lock[d].waiters[i])'
                            /\ \A i, j \in 1 .. Len(lock'[d].waiters) :
                                  lock'[d].waiters[i] = lock'[d].waiters[j] => i = j
        BY DEF Queue
      <4>4. /\ \A i \in 1 .. Len(lock[d].waiters) : Waiting(d, lock[d].waiters[i])
            /\ \A i, j \in 1 .. Len(lock[d].waiters) :
                  lock[d].waiters[i] = lock[d].waiters[j] => i = j
        BY DEF Locked, Queue
      <4>5. CASE d # c
        <5>1. \A x : Waiting(d, x) => Waiting(d, x)'
          BY <4>1, <4>5, <3>2 DEF Waiting
        <5> QED BY <5>1, <4>4, <4>5, <2>2 DEF Waiting
      <4>6. CASE d = c
        <5>0. /\ Len(lock[c].waiters) \in Nat /\ w = lock[c].waiters[1]
              /\ 1 \in 1 .. Len(lock[c].waiters)
          BY <1>0, <2>8
        <5>1. ASSUME NEW i \in 1 .. Len(lock'[c].waiters)
              PROVE  Waiting(c, lock[c].waiters[i])'
          <6>1. /\ i + 1 # 1 /\ i + 1 \in 1 .. Len(lock[c].waiters)
                /\ lock'[c].waiters[i] = lock[c].waiters[i + 1]
            <7>1. i \in Nat /\ i >= 1
              BY <4>2, <3>1, <1>0, <2>8
            <7> QED BY <7>1, <4>2
          <6>2. lock[c].waiters[i + 1] # w
            BY <6>1, <5>0, <4>4, <4>6
          <6>3. Waiting(c, lock[c].waiters[i + 1])
            BY <6>1, <4>4, <4>6
          <6> QED BY <6>1, <6>2, <6>3, <4>1 DEF Waiting
        <5>2. ASSUME NEW i \in 1 .. Len(lock'[c].waiters),
                     NEW j \in 1 .. Len(lock'[c].waiters),
                     lock'[c].waiters[i] = lock'[c].waiters[j]
              PROVE  i = j
          <6>1. i + 1 = j + 1
            BY <4>2, <4>4, <4>6, <5>2
          <6>2. Len(lock'[c].waiters) \in Nat
            BY <3>1, <1>0, <2>8
          <6> QED BY <6>1, <6>2
        <5> QED BY <5>1, <5>2, <4>6
      <4> QED BY <4>5, <4>6
    <3> QED BY <3>7, <3>8, <2>5 DEF Locked
  <2> QED BY <2>7, <2>8
<1> QED BY <1>5, <1>6
-----------------------------------------------------------------------------
(* The theorems.                                                           *)

LEMMA BeginsUnlocked == Init => Locked
<1> SUFFICES ASSUME Init PROVE Locked
  OBVIOUS
<1>1. Permit
  BY DEF Init, Permit, Busy
<1>0. 1 .. Len(<<>>) = {}
  OBVIOUS
<1>2. \A c \in Clients : lock[c].waiters = <<>> /\ up[c] = <<>> /\ down[c] = <<>>
  BY DEF Init
<1>3. Queue
  <2> SUFFICES ASSUME NEW c \in Clients
               PROVE  /\ \A i \in 1 .. Len(lock[c].waiters) : Waiting(c, lock[c].waiters[i])
                      /\ \A i, j \in 1 .. Len(lock[c].waiters) :
                            lock[c].waiters[i] = lock[c].waiters[j] => i = j
    BY DEF Queue
  <2>1. 1 .. Len(lock[c].waiters) = {}
    BY <1>0, <1>2
  <2> QED BY <2>1
<1>4. OneUnderWay
  <2> SUFFICES ASSUME NEW c \in Clients
               PROVE  /\ Len(up[c]) <= 1
                      /\ \A i \in 1 .. Len(up[c]) : Pending(c, up[c][i].update)
                      /\ \A i \in 1 .. Len(down[c]) : down[c][i].kind # "update" =>
                            /\ Pending(c, down[c][i].update)
                            /\ up[c] = <<>>
                            /\ \A j \in 1 .. Len(down[c]) :
                                  down[c][j].kind # "update" => i = j
    BY DEF OneUnderWay
  <2>1. up[c] = <<>> /\ Len(<<>>) = 0
    BY <1>2
  <2>2. 1 .. Len(up[c]) = {} /\ 1 .. Len(down[c]) = {}
    BY <1>0, <1>2
  <2> QED BY <2>1, <2>2
<1> QED BY <1>1, <1>3, <1>4 DEF Locked

LEMMA EveryStepKeeps == Inv /\ Locked /\ [Next]_vars => Inv' /\ Locked'
<1> SUFFICES ASSUME Inv, Locked, [Next]_vars PROVE Inv' /\ Locked'
  OBVIOUS
<1>1. ASSUME NEW u \in Updates, Call(u) PROVE Inv' /\ Locked'
  BY <1>1, CallKeeps, CallLocks
<1>2. ASSUME NEW u \in Updates, Attempt(u) PROVE Inv' /\ Locked'
  BY <1>2, AttemptKeeps, AttemptLocks
<1>3. ASSUME NEW c \in Clients, HubUpdate(c) PROVE Inv' /\ Locked'
  BY <1>3, HubUpdateKeeps, HubUpdateLocks
<1>4. ASSUME NEW c \in Clients, HubError(c) PROVE Inv' /\ Locked'
  BY <1>4, HubErrorKeeps, HubErrorLocks
<1>5. ASSUME NEW c \in Clients, ReceiveAck(c) PROVE Inv' /\ Locked'
  BY <1>5, ReceiveAckKeeps, ReceiveAckLocks
<1>6. ASSUME NEW c \in Clients, ReceiveUpdate(c) PROVE Inv' /\ Locked'
  BY <1>6, ReceiveUpdateKeeps, ReceiveUpdateLocks
<1>7. ASSUME NEW c \in Clients, Disconnect(c) PROVE Inv' /\ Locked'
  BY <1>7, DisconnectKeeps, DisconnectLocks
<1>8. ASSUME NEW c \in Clients, Reconnect(c) PROVE Inv' /\ Locked'
  BY <1>8, ReconnectKeeps, QuietLocks DEF Reconnect, Locked
<1>9. ASSUME NEW e \in HubEdits, HubEdit(e) PROVE Inv' /\ Locked'
  BY <1>9, HubEditKeeps, QuietLocks DEF HubEdit, Locked
<1>10. CASE UNCHANGED vars
  <2>1. TypeOK'
    BY <1>10 DEF vars, Inv, TypeOK
  <2> QED BY <2>1, <1>10, Quiet, QuietLocks DEF vars, Inv, Locked
<1> QED BY <1>1, <1>2, <1>3, <1>4, <1>5, <1>6, <1>7, <1>8, <1>9, <1>10 DEF Next

LEMMA Invariance == Spec => [](Inv /\ Locked)
BY Begins, BeginsUnlocked, EveryStepKeeps, PTL DEF Spec

\* Every value a client or the hub holds, and every message between them, has
\* its shape, and a lock never has more than its one permit.
THEOREM VersionedTypeCorrect == Spec => []TypeOK
BY Invariance, PTL DEF Inv

\* A client's copy is a value the hub really had, at the version it says.
THEOREM VersionedCopies == Spec => []CopyIsAVersion
BY Invariance, PTL DEF Inv

\* A later value contains every earlier one, and a call that returned left its
\* edit in the hub's value, whatever was lost, refused or repeated meanwhile.
THEOREM VersionedNoLostEdit == Spec => []NoLostEdit
<1>1. Inv => NoLostEdit
  BY DEF Inv, History, Kept, NoLostEdit
<1> QED BY <1>1, Invariance, PTL

\* The calls of a client are attempted one at a time, under its lock.
THEOREM VersionedOneAtATime == Spec => []OneAtATime
<1>1. Inv /\ Locked => OneAtATime
  <2> SUFFICES ASSUME Inv, Locked, NEW u \in Updates, Busy(u)
               PROVE  /\ lock[Owner[u]].permits = 0
                      /\ \A w \in Updates : Busy(w) /\ Owner[w] = Owner[u] => w = u
    BY DEF OneAtATime
  <2>1. Owner[u] \in Clients /\ lock[Owner[u]] \in [permits : {0, 1}, waiters : Seq(Updates)]
    BY OwnerAssumption DEF Inv, TypeOK
  <2> QED BY <2>1 DEF Locked, Permit
<1> QED BY <1>1, Invariance, PTL

-----------------------------------------------------------------------------
(* The order of the socket's messages.  An acknowledgement is applied      *)
(* without looking at its version, so what is under way must never be      *)
(* older than the copy it will replace.                                    *)

HasRow(a) == a.kind # "error"
IsAck(a) == a.kind \in {"success", "mismatch"}

\* The rows of a channel come in the order of their versions.
Rising(s) ==
    \A i, j \in 1 .. Len(s) :
        i < j /\ HasRow(s[i]) /\ HasRow(s[j]) => s[i].row.version <= s[j].row.version

\* No acknowledgement on a channel carries a version below n.
AcksFrom(s, n) == \A i \in 1 .. Len(s) : IsAck(s[i]) => n <= s[i].row.version

InOrder == \A c \in Clients : Rising(down[c]) /\ AcksFrom(down[c], copy[c].version)

LEMMA RowVersions ==
    ASSUME NEW s \in Seq(Answers), NEW i \in 1 .. Len(s), HasRow(s[i])
    PROVE  s[i].row.version \in Nat
<1>1. s[i] \in Answers
  OBVIOUS
<1> QED BY <1>1 DEF Answers, HasRow, Rows, Versions

LEMMA EmptyInOrder == ASSUME NEW n PROVE Rising(<<>>) /\ AcksFrom(<<>>, n)
<1>1. 1 .. Len(<<>>) = {}
  OBVIOUS
<1> QED BY <1>1 DEF Rising, AcksFrom

\* A row that is no older than the channel and the copy may be appended.
LEMMA AppendInOrder ==
    ASSUME NEW s \in Seq(Answers), NEW a \in Answers, NEW n \in Nat,
           Rising(s), AcksFrom(s, n),
           HasRow(a) => \A i \in 1 .. Len(s) :
                           HasRow(s[i]) => s[i].row.version <= a.row.version,
           IsAck(a) => n <= a.row.version
    PROVE  Rising(Append(s, a)) /\ AcksFrom(Append(s, a), n)
<1>0. Len(s) \in Nat
  OBVIOUS
<1>1. \A i \in 1 .. Len(Append(s, a)) : \/ i \in 1 .. Len(s) /\ Append(s, a)[i] = s[i]
                                        \/ i = Len(s) + 1 /\ Append(s, a)[i] = a
  BY AppendElement
<1>2. Rising(Append(s, a))
  <2> SUFFICES ASSUME NEW i \in 1 .. Len(Append(s, a)), NEW j \in 1 .. Len(Append(s, a)),
                      i < j, HasRow(Append(s, a)[i]), HasRow(Append(s, a)[j])
               PROVE  Append(s, a)[i].row.version <= Append(s, a)[j].row.version
    BY DEF Rising
  <2>1. i \in 1 .. Len(s) /\ Append(s, a)[i] = s[i]
    <3>1. CASE i = Len(s) + 1 /\ j = Len(s) + 1
      BY <1>0, <3>1
    <3>2. CASE i = Len(s) + 1 /\ j \in 1 .. Len(s)
      BY <1>0, <3>2
    <3> QED BY <1>1, <3>1, <3>2
  <2> QED BY <1>1, <2>1 DEF Rising
<1>3. AcksFrom(Append(s, a), n)
  BY <1>1 DEF AcksFrom
<1> QED BY <1>2, <1>3

\* What follows the first row of a channel is no older than it.
LEMMA TailInOrder ==
    ASSUME NEW s \in Seq(Answers), s # <<>>, NEW n \in Nat, Rising(s), AcksFrom(s, n)
    PROVE  /\ Rising(Tail(s)) /\ AcksFrom(Tail(s), n)
           /\ HasRow(Head(s)) => AcksFrom(Tail(s), Head(s).row.version)
<1>0. /\ Len(Tail(s)) \in Nat /\ Head(s) = s[1] /\ 1 \in 1 .. Len(s)
  OBVIOUS
<1>1. \A i \in 1 .. Len(Tail(s)) : i + 1 \in 1 .. Len(s) /\ Tail(s)[i] = s[i + 1]
  BY TailElement
<1>2. Rising(Tail(s))
  <2> SUFFICES ASSUME NEW i \in 1 .. Len(Tail(s)), NEW j \in 1 .. Len(Tail(s)),
                      i < j, HasRow(Tail(s)[i]), HasRow(Tail(s)[j])
               PROVE  Tail(s)[i].row.version <= Tail(s)[j].row.version
    BY DEF Rising
  <2>1. i + 1 < j + 1
    BY <1>0
  <2>2. /\ i + 1 \in 1 .. Len(s) /\ Tail(s)[i] = s[i + 1]
        /\ j + 1 \in 1 .. Len(s) /\ Tail(s)[j] = s[j + 1]
    BY <1>1
  <2> QED BY <2>1, <2>2 DEF Rising
<1>3. AcksFrom(Tail(s), n)
  BY <1>1 DEF AcksFrom
<1>4. ASSUME HasRow(Head(s)), NEW i \in 1 .. Len(Tail(s)), IsAck(Tail(s)[i])
      PROVE  Head(s).row.version <= Tail(s)[i].row.version
  <2>1. 1 < i + 1
    BY <1>0
  <2>2. HasRow(Tail(s)[i])
    BY <1>4 DEF IsAck, HasRow
  <2> QED BY <1>0, <1>1, <1>4, <2>1, <2>2 DEF Rising
<1> QED BY <1>2, <1>3, <1>4 DEF AcksFrom

\* The hub's answer to one client and its event to the others carry its row.
LEMMA HubInOrder ==
    ASSUME Inv, InOrder, hub.version <= hub'.version, hub'.version \in Nat, copy' = copy,
           NEW a \in Answers, HasRow(a) => a.row = hub',
           NEW b \in Answers, HasRow(b) => b.row = hub',
           \A c \in Clients : down'[c] \in {down[c], Append(down[c], a), Append(down[c], b)}
    PROVE  InOrder'
<1> SUFFICES ASSUME NEW c \in Clients
             PROVE  Rising(down'[c]) /\ AcksFrom(down'[c], copy[c].version)
  BY DEF InOrder
<1>1. /\ down[c] \in Seq(Answers) /\ copy[c].version \in Nat /\ hub.version \in Nat
      /\ copy[c].version <= hub'.version
  <2>1. copy[c] \in Rows /\ hub \in Rows /\ down[c] \in Seq(Answers)
    BY DEF Inv, TypeOK
  <2>2. copy[c].version <= hub.version
    BY DEF Inv, CopyIsAVersion
  <2>3. copy[c].version \in Nat /\ hub.version \in Nat
    BY <2>1 DEF Rows, Versions
  <2> QED BY <2>1, <2>2, <2>3
<1>2. Rising(down[c]) /\ AcksFrom(down[c], copy[c].version)
  BY DEF InOrder
<1>3. ASSUME NEW i \in 1 .. Len(down[c]), HasRow(down[c][i])
      PROVE  down[c][i].row.version <= hub'.version
  <2>1. down[c][i].row.version <= hub.version
    BY <1>3 DEF Inv, Answered, Truthful, Version, HasRow
  <2>2. down[c][i].row.version \in Nat
    BY <1>1, <1>3, RowVersions
  <2> QED BY <1>1, <2>1, <2>2
<1>4. ASSUME NEW x \in Answers, HasRow(x) => x.row = hub', down'[c] = Append(down[c], x)
      PROVE  Rising(down'[c]) /\ AcksFrom(down'[c], copy[c].version)
  <2>1. IsAck(x) => copy[c].version <= x.row.version
    BY <1>1, <1>4 DEF IsAck, HasRow
  <2>2. HasRow(x) => \A i \in 1 .. Len(down[c]) :
                        HasRow(down[c][i]) => down[c][i].row.version <= x.row.version
    BY <1>3, <1>4
  <2>3. Rising(Append(down[c], x)) /\ AcksFrom(Append(down[c], x), copy[c].version)
    BY <1>1, <1>2, <2>1, <2>2, AppendInOrder
  <2> QED BY <1>4, <2>3
<1> QED BY <1>2, <1>4

\* Reading a channel: the copy becomes the first row or stays, and the copy is
\* not taken back.
LEMMA ReadInOrder ==
    ASSUME Inv, InOrder, NEW c \in Clients, down[c] # <<>>,
           down' = [down EXCEPT ![c] = Tail(down[c])],
           NEW row \in Rows, copy' = [copy EXCEPT ![c] = row],
           \/ row = copy[c]
           \/ /\ HasRow(Head(down[c])) /\ row = Head(down[c]).row
              /\ copy[c].version <= row.version
    PROVE  InOrder' /\ \A d \in Clients : copy'[d].version >= copy[d].version
<1>1. /\ down \in [Clients -> Seq(Answers)] /\ copy \in [Clients -> Rows]
      /\ \A d \in Clients : copy[d].version \in Nat
      /\ row.version \in Nat
  BY DEF Inv, TypeOK, Rows, Versions
<1>2. /\ Rising(Tail(down[c])) /\ AcksFrom(Tail(down[c]), copy[c].version)
      /\ HasRow(Head(down[c])) => AcksFrom(Tail(down[c]), Head(down[c]).row.version)
  BY <1>1, TailInOrder DEF InOrder
<1>3. AcksFrom(Tail(down[c]), row.version)
  BY <1>2
<1>4. down'[c] = Tail(down[c]) /\ copy'[c] = row
  BY <1>1
<1>5. \A d \in Clients : d # c => down'[d] = down[d] /\ copy'[d] = copy[d]
  BY <1>1
<1>6. InOrder'
  BY <1>2, <1>3, <1>4, <1>5 DEF InOrder
<1> QED BY <1>1, <1>4, <1>5, <1>6

LEMMA InOrderStep ==
    ASSUME Inv, Locked, InOrder, [Next]_vars
    PROVE  InOrder' /\ \A c \in Clients : copy'[c].version >= copy[c].version
<1>t. /\ down \in [Clients -> Seq(Answers)] /\ copy \in [Clients -> Rows]
      /\ up \in [Clients -> Seq(Requests)] /\ hub \in Rows
      /\ hub.version \in Nat /\ hub.version >= 1
      /\ \A c \in Clients : copy[c].version \in Nat
  BY DEF Inv, TypeOK, Rows, Versions
<1>0. UNCHANGED copy => \A c \in Clients : copy'[c].version >= copy[c].version
  BY <1>t
<1>1. CASE UNCHANGED <<down, copy>>
  BY <1>0, <1>1 DEF InOrder
<1>2. ASSUME NEW c \in Clients, HubUpdate(c) PROVE InOrder'
  <2> DEFINE request == Head(up[c])
             row == Stored(hub, request.row.version, request.row.value)
             kind == IF row = hub THEN "mismatch" ELSE "success"
             a == [kind |-> kind, row |-> row, update |-> request.update]
             b == [kind |-> "update", row |-> row, update |-> request.update]
  <2>1. request \in Requests
    BY <1>t, <1>2 DEF HubUpdate
  <2>2. request.update \in Updates /\ request.row \in Rows
    BY <2>1 DEF Requests
  <2>3. /\ hub' = row /\ row \in Rows /\ row.version \in Nat /\ hub.version <= row.version
    BY <1>t, <1>2, <2>2 DEF HubUpdate, Stored, Rows, Versions
  <2>4. a \in Answers /\ b \in Answers /\ a.row = row /\ b.row = row
    BY <2>2, <2>3 DEF Answers
  <2>5. \A d \in Clients : down'[d] \in {down[d], Append(down[d], a), Append(down[d], b)}
    BY <1>t, <1>2 DEF HubUpdate, Broadcast
  <2>6. copy' = copy
    BY <1>2 DEF HubUpdate
  <2> HIDE DEF a, b, row
  <2> QED BY <2>3, <2>4, <2>5, <2>6, HubInOrder
<1>3. ASSUME NEW c \in Clients, HubError(c) PROVE InOrder'
  <2> DEFINE a == [kind |-> "error", update |-> Head(up[c]).update]
  <2>1. Head(up[c]) \in Requests
    BY <1>t, <1>3 DEF HubError
  <2>2. a \in Answers /\ ~HasRow(a)
    BY <2>1 DEF Requests, Answers, HasRow
  <2>3. hub' = hub /\ copy' = copy /\ down' = [down EXCEPT ![c] = Append(down[c], a)]
    BY <1>3 DEF HubError
  <2> HIDE DEF a
  <2>4. \A d \in Clients : down'[d] \in {down[d], Append(down[d], a)}
    BY <1>t, <2>3
  <2> QED BY <1>t, <2>2, <2>3, <2>4, HubInOrder
<1>4. ASSUME NEW c \in Clients, Disconnect(c) PROVE InOrder'
  <2>1. copy' = copy /\ \A d \in Clients : down'[d] = IF d = c THEN <<>> ELSE down[d]
    BY <1>t, <1>4 DEF Disconnect
  <2> QED BY <2>1, EmptyInOrder DEF InOrder
<1>5. ASSUME NEW c \in Clients, ReceiveAck(c)
      PROVE  InOrder' /\ \A d \in Clients : copy'[d].version >= copy[d].version
  <2> DEFINE answer == Head(down[c])
  <2>1. /\ down[c] # <<>> /\ answer.kind # "update"
        /\ down' = [down EXCEPT ![c] = Tail(down[c])]
        /\ copy' = IF answer.kind = "error" THEN copy
                   ELSE [copy EXCEPT ![c] = answer.row]
    BY <1>5 DEF ReceiveAck, Applied
  <2>2. answer \in Answers /\ answer = down[c][1] /\ 1 \in 1 .. Len(down[c])
    BY <1>t, <2>1
  <2>3. CASE answer.kind = "error"
    <3>1. copy' = [copy EXCEPT ![c] = copy[c]]
      BY <1>t, <2>1, <2>3
    <3> QED BY <1>t, <2>1, <3>1, ReadInOrder
  <2>4. CASE answer.kind # "error"
    <3>1. answer.row \in Rows /\ IsAck(answer) /\ HasRow(answer)
      BY <2>1, <2>2, <2>4 DEF Answers, IsAck, HasRow
    <3>2. copy[c].version <= answer.row.version
      BY <2>2, <3>1 DEF InOrder, AcksFrom
    <3> QED BY <2>1, <2>4, <3>1, <3>2, ReadInOrder
  <2> QED BY <2>3, <2>4
<1>6. ASSUME NEW c \in Clients, ReceiveUpdate(c)
      PROVE  InOrder' /\ \A d \in Clients : copy'[d].version >= copy[d].version
  <2> DEFINE answer == Head(down[c])
             row == Newer(copy[c], answer.row)
  <2>1. /\ down[c] # <<>> /\ answer.kind = "update"
        /\ down' = [down EXCEPT ![c] = Tail(down[c])]
        /\ copy' = [copy EXCEPT ![c] = row]
    BY <1>6 DEF ReceiveUpdate
  <2>2. answer \in Answers
    BY <1>t, <2>1
  <2>3. answer.row \in Rows /\ HasRow(answer)
    BY <2>1, <2>2 DEF Answers, HasRow
  <2>4. /\ row \in Rows
        /\ row = copy[c] \/ (row = answer.row /\ copy[c].version <= row.version)
    BY <1>t, <2>3 DEF Newer, Rows, Versions
  <2> HIDE DEF row
  <2> QED BY <2>1, <2>3, <2>4, ReadInOrder
<1> QED BY <1>0, <1>1, <1>2, <1>3, <1>4, <1>5, <1>6
        DEF Next, vars, Call, Attempt, HubEdit, Reconnect, HubUpdate, HubError, Disconnect

\* No message takes a client's copy back to an older version, though an
\* acknowledgement replaces the copy unseen: the socket's order ensures it, for
\* every number of clients, updates, disconnections and failures.
THEOREM VersionedCopyNeverOlder == Spec => CopyNeverOlder
<1>1. Init => InOrder
  BY EmptyInOrder DEF Init, InOrder
<1>2. Inv /\ Locked /\ InOrder /\ [Next]_vars => InOrder'
  BY InOrderStep
<1>3. Inv /\ Locked /\ InOrder /\ [Next]_vars
        => \A c \in Clients : copy'[c].version >= copy[c].version
  BY InOrderStep
<1> QED BY <1>1, <1>2, <1>3, Invariance, PTL DEF Spec, CopyNeverOlder
=============================================================================
