-------------------------- MODULE RemoteAgentProofs --------------------------
(***************************************************************************)
(* Proofs about RemoteAgent, for every number of prompts, models and tool  *)
(* calls, and every scene.  The inductive invariant Inv has four parts     *)
(* besides the types, each about one thing that the launcher's states do   *)
(* not tell by themselves: where each prompt is (Orderly), which calls may *)
(* be asked for (Attentive), which mode the process works in (Matches) and *)
(* what was said of the turn (Told).                                       *)
(***************************************************************************)
EXTENDS RemoteAgent, FiniteSetTheorems, SequenceTheorems, TLAPS

-----------------------------------------------------------------------------
(* Queues of prompts *)

(* The prompts of s that arrived, by their places; the restart prompt of a *)
(* plan, whose number is 0, is not one of them.                            *)
Nums(s) == {i \in DOMAIN s : s[i].id # 0}

LEMMA IdsAre == ASSUME NEW s PROVE \A n : n \in Ids(s) <=> \E i \in Nums(s) : s[i].id = n
BY DEF Ids, Nums

LEMMA PromptParts ==
    ASSUME NEW p \in Prompt
    PROVE  p.id \in 0..MaxPrompts /\ p.id \in Nat /\ p.hash \in Models /\ p.perm \in Perms
BY BoundsAssumption DEF Prompt

LEMMA EmptyQueue == Ids(<<>>) = {} /\ Nums(<<>>) = {} /\ <<>> \in Seq(Prompt)
BY DEF Ids, Nums

LEMMA SeqParts ==
    ASSUME NEW S, NEW s \in Seq(S)
    PROVE  Len(s) \in Nat /\ DOMAIN s = 1..Len(s) /\ \A i \in DOMAIN s : s[i] \in S
OBVIOUS

(* A batch is a first part of its queue, and the rest is what follows.     *)
LEMMA BatchIsFirst ==
    ASSUME NEW q \in Seq(Prompt), q # <<>>
    PROVE  \E n \in 1..Len(q) : Batch(q) = SubSeq(q, 1, n) /\ Rest(q) = SubSeq(q, n + 1, Len(q))
<1> DEFINE together == {k \in 1..Len(q) : \A i \in 1..k : q[i].hash = q[1].hash /\ ~Alone(q[i])}
           size == IF Alone(q[1]) THEN 1 ELSE Cardinality(together)
<1>1. Len(q) \in Nat /\ Len(q) >= 1
  OBVIOUS
<1>2. IsFiniteSet(1..Len(q)) /\ Cardinality(1..Len(q)) = Len(q)
  BY <1>1, FS_Interval
<1>3. IsFiniteSet(together) /\ Cardinality(together) \in Nat /\ Cardinality(together) <= Len(q)
  BY <1>2, FS_Subset, FS_CardinalityType
<1>4. ~Alone(q[1]) => Cardinality(together) # 0
  <2>1. ~Alone(q[1]) => 1 \in together
    BY <1>1
  <2>2. QED
    BY <1>3, <2>1, FS_EmptySet
<1>5. size \in 1..Len(q)
  BY <1>1, <1>3, <1>4
<1>6. Batch(q) = SubSeq(q, 1, size)
  BY DEF Batch
<1> HIDE DEF size
<1>7. Len(SubSeq(q, 1, size)) = size
  BY <1>1, <1>5
<1>8. Rest(q) = SubSeq(q, size + 1, Len(q))
  BY <1>6, <1>7 DEF Rest
<1>9. QED
  BY <1>5, <1>6, <1>8

(* What a queue promises about the numbers in it. *)
Ascends(s) == \A i, j \in Nums(s) : i < j => s[i].id < s[j].id
Before(S, T) == \A m \in S, n \in T : m < n

LEMMA BatchAndRest ==
    ASSUME NEW q \in Seq(Prompt), q # <<>>
    PROVE  /\ Batch(q) \in Seq(Prompt) /\ Batch(q) # <<>> /\ Batch(q)[1] \in Prompt /\ Rest(q) \in Seq(Prompt)
           /\ Ids(q) = Ids(Batch(q)) \cup Ids(Rest(q))
           /\ Ascends(q) => Ascends(Batch(q)) /\ Ascends(Rest(q)) /\ Before(Ids(Batch(q)), Ids(Rest(q)))
<1>1. PICK n \in 1..Len(q) : Batch(q) = SubSeq(q, 1, n) /\ Rest(q) = SubSeq(q, n + 1, Len(q))
  BY BatchIsFirst
<1> DEFINE b == SubSeq(q, 1, n)
           r == SubSeq(q, n + 1, Len(q))
<1>2. Len(q) \in Nat /\ n \in Nat /\ 1 <= n /\ n <= Len(q) /\ DOMAIN q = 1..Len(q) /\ \A i \in DOMAIN q : q[i] \in Prompt
  OBVIOUS
<1>3. b \in Seq(Prompt) /\ Len(b) = n /\ DOMAIN b = 1..n /\ \A i \in 1..n : b[i] = q[i]
  BY <1>2, SubSeqProperties
<1>4. r \in Seq(Prompt) /\ DOMAIN r = 1..(Len(q) - n) /\ \A i \in 1..(Len(q) - n) : r[i] = q[n + i]
  BY <1>2, SubSeqProperties
<1> HIDE DEF b, r
<1>5. b # <<>> /\ b[1] \in Prompt
  BY <1>2, <1>3
<1>6. \A i : i \in Nums(b) <=> i \in 1..n /\ q[i].id # 0
  BY <1>3 DEF Nums
<1>7. \A i : i \in Nums(r) <=> i \in 1..(Len(q) - n) /\ q[n + i].id # 0
  BY <1>4 DEF Nums
<1>8. \A i : i \in Nums(q) <=> i \in 1..Len(q) /\ q[i].id # 0
  BY <1>2 DEF Nums
<1>9. Ids(q) = Ids(b) \cup Ids(r)
  <2>1. ASSUME NEW m \in Ids(q) PROVE m \in Ids(b) \cup Ids(r)
    <3>1. PICK i \in Nums(q) : q[i].id = m
      BY <2>1, IdsAre
    <3>2. CASE i <= n
      <4>1. i \in Nums(b) /\ b[i].id = m
        BY <1>2, <1>3, <1>6, <1>8, <3>1, <3>2
      <4>2. QED
        BY <4>1, IdsAre
    <3>3. CASE i > n
      <4>1. i - n \in 1..(Len(q) - n) /\ n + (i - n) = i
        BY <1>2, <1>8, <3>1, <3>3
      <4>2. i - n \in Nums(r) /\ r[i - n].id = m
        BY <1>4, <1>7, <1>8, <3>1, <4>1
      <4>3. QED
        BY <4>2, IdsAre
    <3>4. QED
      BY <1>2, <1>8, <3>1, <3>2, <3>3
  <2>2. ASSUME NEW m \in Ids(b) PROVE m \in Ids(q)
    <3>1. PICK i \in Nums(b) : b[i].id = m
      BY <2>2, IdsAre
    <3>2. i \in Nums(q) /\ q[i].id = m
      BY <1>2, <1>3, <1>6, <1>8, <3>1
    <3>3. QED
      BY <3>2, IdsAre
  <2>3. ASSUME NEW m \in Ids(r) PROVE m \in Ids(q)
    <3>1. PICK i \in Nums(r) : r[i].id = m
      BY <2>3, IdsAre
    <3>2. n + i \in Nums(q) /\ q[n + i].id = m
      BY <1>2, <1>4, <1>7, <1>8, <3>1
    <3>3. QED
      BY <3>2, IdsAre
  <2>4. QED
    BY <2>1, <2>2, <2>3
<1>10. ASSUME Ascends(q) PROVE Ascends(b) /\ Ascends(r) /\ Before(Ids(b), Ids(r))
  <2>1. Ascends(b)
    BY <1>2, <1>3, <1>6, <1>8, <1>10 DEF Ascends
  <2>2. ASSUME NEW i \in Nums(r), NEW j \in Nums(r), i < j PROVE r[i].id < r[j].id
    <3>1. n + i \in Nums(q) /\ n + j \in Nums(q) /\ n + i < n + j
      BY <1>2, <1>7, <1>8, <2>2
    <3>2. r[i] = q[n + i] /\ r[j] = q[n + j]
      BY <1>4, <1>7
    <3>3. QED
      BY <1>10, <3>1, <3>2 DEF Ascends
  <2>3. ASSUME NEW i \in Nums(b), NEW j \in Nums(r) PROVE b[i].id < r[j].id
    <3>1. i \in Nums(q) /\ n + j \in Nums(q) /\ i < n + j
      BY <1>2, <1>6, <1>7, <1>8
    <3>2. b[i] = q[i] /\ r[j] = q[n + j]
      BY <1>3, <1>4, <1>6, <1>7
    <3>3. QED
      BY <1>10, <3>1, <3>2 DEF Ascends
  <2>4. Before(Ids(b), Ids(r))
    BY <2>3, IdsAre DEF Before
  <2>5. QED
    BY <2>1, <2>2, <2>4 DEF Ascends
<1>11. QED
  BY <1>1, <1>3, <1>4, <1>5, <1>9, <1>10 DEF b, r

-----------------------------------------------------------------------------
(* Types *)

Overs == {"open", "announced", "refused", "cleared", "left", "silent"}

LEMMA IdsNumbers ==
    ASSUME NEW s \in Seq(Prompt)
    PROVE  Ids(s) \subseteq 1..MaxPrompts
<1>1. ASSUME NEW n \in Ids(s) PROVE n \in 1..MaxPrompts
  <2>1. PICK i \in Nums(s) : s[i].id = n
    BY <1>1, IdsAre
  <2>2. s[i] \in Prompt /\ s[i].id # 0
    BY <2>1, SeqParts DEF Nums
  <2>3. QED
    BY <2>1, <2>2, PromptParts, BoundsAssumption
<1>2. QED
  BY <1>1

LEMMA BegunTyped ==
    ASSUME NEW b \in Seq(Prompt), b # <<>>
    PROVE  Begun(b) \in Turn
<1>1. b[1] \in Prompt
  OBVIOUS
<1>2. QED
  BY <1>1, IdsNumbers, PromptParts DEF Begun, Turn

LEMMA AnnouncedTyped ==
    ASSUME TypeOK
    PROVE  Announced \in Turn
BY DEF TypeOK, Announced, Turn

LEMMA FinishedTyped ==
    ASSUME TypeOK, NEW thrown, NEW over \in Overs
    PROVE  Finished(thrown, over) \in Turn
<1> DEFINE ready == run.exit = "none" /\ (thrown \/ run.fate = "aborted")
           last == IF ready THEN Announced ELSE turn
<1>1. last \in Turn
  BY AnnouncedTyped DEF TypeOK
<1>2. Finished(thrown, over) = IF last.live THEN [last EXCEPT !.live = FALSE, !.over = IF run.exit = "none" THEN over ELSE "left"] ELSE last
  BY DEF Finished
<1> HIDE DEF last
<1> DEFINE end == IF run.exit = "none" THEN over ELSE "left"
<1>3. end \in Overs
  BY DEF Overs
<1> HIDE DEF end
<1>4. [last EXCEPT !.live = FALSE, !.over = end] \in Turn
  BY <1>1, <1>3 DEF Turn, Overs
<1>5. QED
  BY <1>1, <1>2, <1>4 DEF end

LEMMA RelaunchedTyped ==
    ASSUME TypeOK, NEW pending \in Seq(Prompt)
    PROVE  Relaunched(pending) \in Run
<1>1. Idling \in Run
  BY DEF TypeOK, Run, Idling
<1>2. <<>> \in Seq(Prompt)
  OBVIOUS
<1> DEFINE r == Idling
<1>3. Relaunched(pending) = [r EXCEPT !.pc = CASE run.exit = "none" -> "launch" [] run.exit = "switch" -> "enter" [] OTHER -> "gone",
                                    !.pending = IF run.exit = "none" THEN pending ELSE <<>>]
  BY DEF Relaunched
<1> HIDE DEF r
<1>4. r \in Run
  BY <1>1 DEF r
<1>5. QED
  BY <1>2, <1>3, <1>4 DEF Run

LEMMA SendsTyped ==
    ASSUME NEW o \in Out, NEW kind \in {"text", "call", "result"}, NEW c \in 0..MaxCalls, NEW held \in BOOLEAN
    PROVE  Sends(o, kind, c, held) \in Out
<1>1. [kind |-> kind, call |-> c, held |-> held] \in Item
  BY DEF Item
<1>2. o.items \in Seq(Item)
  BY DEF Out
<1>3. Append(o.items, [kind |-> kind, call |-> c, held |-> held]) \in Seq(Item)
  BY <1>1, <1>2
<1>4. QED
  BY <1>3 DEF Sends, Out

LEMMA FreedTyped ==
    ASSUME NEW o \in Out, NEW c
    PROVE  Freed(o, c) \in Out
<1> DEFINE items == o.items
           free == [i \in DOMAIN items |-> IF items[i].call = c THEN [items[i] EXCEPT !.held = FALSE] ELSE items[i]]
<1>1. items \in Seq(Item)
  BY DEF Out
<1>2. Len(items) \in Nat /\ DOMAIN items = 1..Len(items) /\ \A i \in DOMAIN items : items[i] \in Item
  BY <1>1, SeqParts
<1> HIDE DEF items
<1>3. ASSUME NEW i \in DOMAIN items PROVE free[i] \in Item
  BY <1>2 DEF Item
<1>4. free \in [1..Len(items) -> Item]
  BY <1>2, <1>3
<1>5. free \in Seq(Item)
  BY <1>2, <1>4, IsASeq
<1>6. QED
  BY <1>5 DEF Freed, Out, items

LEMMA EndLaunchTyped ==
    ASSUME TypeOK, NEW thrown, NEW pending \in Seq(Prompt), NEW over \in Overs,
           EndLaunch(thrown, pending, over), Ids(pending) \subseteq 1..arrived
    PROVE  /\ turn' \in Turn /\ run' \in Run /\ call' \in Calling /\ out' \in Out
           /\ shown' \subseteq 1..MaxCalls /\ dropped' \subseteq 1..arrived
<1>1. turn' \in Turn
  BY FinishedTyped DEF EndLaunch
<1>2. run' \in Run
  BY RelaunchedTyped DEF EndLaunch
<1>3. call' \in Calling
  <2>1. call \in Calling
    BY DEF TypeOK
  <2>2. call' = [call EXCEPT !.open = {}, !.known = {}, !.plans = {}, !.refused = {}, !.base = call.count, !.ask = NoCall]
    BY DEF EndLaunch
  <2>3. call.count \in 0..MaxCalls /\ NoCall \in 0..MaxCalls
    BY <2>1, BoundsAssumption DEF Calling, NoCall
  <2>4. {} \in SUBSET (1..MaxCalls)
    OBVIOUS
  <2>5. QED
    BY <2>1, <2>2, <2>3, <2>4 DEF Calling
<1>4. out' \in Out /\ shown' \subseteq 1..MaxCalls
  BY DEF EndLaunch, Out
<1>5. dropped' \subseteq 1..arrived
  BY DEF EndLaunch, TypeOK
<1>6. QED
  BY <1>1, <1>2, <1>3, <1>4, <1>5

(* Where the prompts are, q waiting in the queue, p pending for the next   *)
(* launch, t taken and d dropped, of n that arrived: in one place each, and *)
(* in their order.                                                         *)
Filed(q, p, t, d, n) ==
    /\ Ascends(q) /\ Ascends(p) /\ Before(Ids(p), Ids(q)) /\ Before(t, Ids(p) \cup Ids(q))
    /\ (Ids(q) \cup Ids(p) \cup t) \cap d = {}
    /\ Ids(q) \cup Ids(p) \cup t \cup d = 1..n

Apart == Filed(queue, run.pending, taken, dropped, arrived)

LEMMA CallsTyped ==
    ASSUME TypeOK, NEW c \in 1..MaxCalls, NEW held \in BOOLEAN, Calls(c, held)
    PROVE  call' \in Calling /\ out' \in Out
<1>1. call' \in Calling
  <2>1. call \in Calling /\ call' = [call EXCEPT !.count = c, !.open = call.open \cup {c}, !.known = call.known \cup {c}]
    BY DEF Calls, TypeOK
  <2>2. c \in 0..MaxCalls /\ call.open \cup {c} \subseteq 1..MaxCalls /\ call.known \cup {c} \subseteq 1..MaxCalls
    BY <2>1, BoundsAssumption DEF Calling
  <2>3. QED
    BY <2>1, <2>2 DEF Calling
<1>2. c \in 0..MaxCalls
  BY BoundsAssumption
<1>3. out' \in Out
  BY <1>2, SendsTyped DEF Calls, TypeOK
<1>4. QED
  BY <1>1, <1>3

LEMMA AskedTyped ==
    ASSUME TypeOK, NEW c \in 1..MaxCalls, Asked(c)
    PROVE  call' \in Calling /\ shown' \subseteq 1..MaxCalls /\ out' \in Out
<1>1. call' \in Calling
  <2>1. c \in 0..MaxCalls /\ NoCall \in 0..MaxCalls
    BY BoundsAssumption DEF NoCall
  <2>2. QED
    BY <2>1 DEF Asked, TypeOK, Calling
<1>2. out' \in Out
  BY FreedTyped DEF Asked, TypeOK
<1>3. QED
  BY <1>1, <1>2 DEF Asked, TypeOK

LEMMA StartTyped ==
    ASSUME TypeOK, NEW b \in Seq(Prompt), b # <<>>, Ids(b) \subseteq 1..arrived, NEW waited \in BOOLEAN,
           Start(b, waited)
    PROVE  perm' \in Perms /\ taken' \subseteq 1..arrived /\ turn' \in Turn /\ run' \in Run
<1>1. b[1] \in Prompt /\ b[1].perm \in Perms /\ b[1].hash \in Models
  BY PromptParts
<1>2. Begun(b) \in Turn
  BY BegunTyped
<1> DEFINE begun == Begun(b)
           hash == b[1].hash
<1>3. turn' \in {begun, [begun EXCEPT !.live = FALSE, !.over = "cleared"]}
  BY DEF Start
<1>4. run' \in {[run EXCEPT !.pc = "launch", !.pending = <<>>],
                [run EXCEPT !.pc = "init", !.pending = <<>>, !.proc = hash, !.relay = waited,
                            !.hash = IF waited THEN NoModel ELSE hash]}
  BY DEF Start
<1>5. run \in Run /\ <<>> \in Seq(Prompt)
  BY DEF TypeOK
<1>6. begun \in Turn /\ hash \in Models
  BY <1>1, <1>2
<1> HIDE DEF begun, hash
<1>7. turn' \in Turn
  BY <1>3, <1>6 DEF Turn
<1>8. run' \in Run
  BY <1>4, <1>5, <1>6 DEF Run
<1>9. QED
  BY <1>1, <1>7, <1>8 DEF Start, TypeOK

LEMMA LaunchTyped ==
    ASSUME TypeOK, Apart, Launch
    PROVE  TypeOK'
<1>1. CASE LaunchPending
  <2>1. run.pending \in Seq(Prompt) /\ run.pending # <<>> /\ Ids(run.pending) \subseteq 1..arrived
    BY <1>1 DEF TypeOK, Run, Apart, Filed, LaunchPending
  <2>2. Start(run.pending, TRUE)
    BY <1>1 DEF LaunchPending
  <2>3. QED
    BY <1>1, <2>1, <2>2, StartTyped DEF LaunchPending, TypeOK
<1>2. CASE LaunchQueued
  <2>1. queue \in Seq(Prompt) /\ queue # <<>> /\ Ids(queue) \subseteq 1..arrived
    BY <1>2 DEF TypeOK, Apart, Filed, LaunchQueued
  <2>2. Batch(queue) \in Seq(Prompt) /\ Batch(queue) # <<>> /\ Ids(Batch(queue)) \subseteq 1..arrived /\ Rest(queue) \in Seq(Prompt)
    BY <2>1, BatchAndRest
  <2>3. Start(Batch(queue), FALSE)
    BY <1>2 DEF LaunchQueued
  <2>4. QED
    BY <1>2, <2>2, <2>3, StartTyped DEF LaunchQueued, TypeOK
<1>3. CASE LaunchAlone
  <2>1. queue \in Seq(Prompt) /\ queue # <<>>
    BY <1>3 DEF TypeOK, LaunchAlone
  <2>2. Batch(queue) \in Seq(Prompt) /\ Rest(queue) \in Seq(Prompt)
    BY <2>1, BatchAndRest
  <2> DEFINE b == Batch(queue)
  <2>3. run' = [run EXCEPT !.pc = "launch", !.pending = b]
    BY <1>3 DEF LaunchAlone
  <2>4. b \in Seq(Prompt) /\ run \in Run
    BY <2>2 DEF TypeOK
  <2> HIDE DEF b
  <2>5. run' \in Run
    BY <2>3, <2>4 DEF Run
  <2>6. QED
    BY <1>3, <2>2, <2>5 DEF LaunchAlone, TypeOK
<1>4. CASE AwaitPrompt
  <2>1. run' \in Run
    BY <1>4 DEF AwaitPrompt, TypeOK, Run
  <2>2. QED
    BY <1>4, <2>1 DEF AwaitPrompt, TypeOK
<1>5. QED
  BY <1>1, <1>2, <1>3, <1>4 DEF Launch

LEMMA NextPromptTyped ==
    ASSUME TypeOK, Apart, NextPrompt
    PROVE  TypeOK'
<1> DEFINE b == Batch(queue)
<1>1. queue \in Seq(Prompt) /\ queue # <<>> /\ Ids(queue) \subseteq 1..arrived
  BY DEF TypeOK, Apart, Filed, NextPrompt
<1>2. /\ b \in Seq(Prompt) /\ b # <<>> /\ Ids(b) \subseteq 1..arrived /\ Rest(queue) \in Seq(Prompt)
      /\ b[1] \in Prompt
  BY <1>1, BatchAndRest
<1>3. queue' = Rest(queue) /\ UNCHANGED <<arrived, scene>>
  BY DEF NextPrompt
<1>4. \/ EndLaunch(FALSE, b, "silent") /\ UNCHANGED <<perm, taken>>
      \/ /\ run' = [run EXCEPT !.hash = b[1].hash, !.pc = IF run.fate = "alive" THEN "init" ELSE "turn"]
         /\ perm' = b[1].perm /\ turn' = Begun(b) /\ taken' = taken \cup Ids(b)
         /\ UNCHANGED <<call, shown, out, dropped>>
  BY DEF NextPrompt
<1> HIDE DEF b
<1>5. CASE EndLaunch(FALSE, b, "silent") /\ UNCHANGED <<perm, taken>>
  BY <1>2, <1>3, <1>5, EndLaunchTyped DEF TypeOK, Overs
<1>6. CASE /\ run' = [run EXCEPT !.hash = b[1].hash, !.pc = IF run.fate = "alive" THEN "init" ELSE "turn"]
           /\ perm' = b[1].perm /\ turn' = Begun(b) /\ taken' = taken \cup Ids(b)
           /\ UNCHANGED <<call, shown, out, dropped>>
  <2>1. b[1].hash \in Models /\ b[1].perm \in Perms
    BY <1>2, PromptParts
  <2>2. run' \in Run
    <3> DEFINE hash == b[1].hash
    <3>1. hash \in Models /\ run \in Run
      BY <2>1 DEF TypeOK
    <3>2. run' = [run EXCEPT !.hash = hash, !.pc = IF run.fate = "alive" THEN "init" ELSE "turn"]
      BY <1>6
    <3> HIDE DEF hash
    <3>3. QED
      BY <3>1, <3>2 DEF Run
  <2>3. turn' \in Turn
    BY <1>2, <1>6, BegunTyped
  <2>4. QED
    BY <1>2, <1>3, <1>6, <2>1, <2>2, <2>3 DEF TypeOK
<1>7. QED
  BY <1>4, <1>5, <1>6

LEMMA PerishTyped ==
    ASSUME TypeOK, Perish
    PROVE  TypeOK'
<1>1. <<>> \in Seq(Prompt) /\ Ids(<<>>) = {}
  BY EmptyQueue
<1>2. \E thrown \in BOOLEAN : EndLaunch(thrown, <<>>, "silent")
  BY DEF Perish
<1>3. PICK thrown \in BOOLEAN : EndLaunch(thrown, <<>>, "silent")
  BY <1>2
<1>4. QED
  BY <1>1, <1>3, EndLaunchTyped DEF Perish, TypeOK, Overs

LEMMA LauncherTyped ==
    ASSUME TypeOK, Apart, Launcher
    PROVE  TypeOK'
<1>1. CASE EnterLocal
  <2>1. run' \in Run
    BY <1>1 DEF EnterLocal, TypeOK, Run
  <2>2. QED
    BY <1>1, <2>1 DEF EnterLocal, TypeOK
<1>2. CASE Leave
  <2>1. run' \in Run
    BY <1>2 DEF Leave, TypeOK, Run
  <2>2. QED
    BY <1>2, <2>1 DEF Leave, TypeOK
<1>3. QED
  BY <1>1, <1>2, LaunchTyped, NextPromptTyped, PerishTyped DEF Launcher

LEMMA EndOfTurnTyped ==
    ASSUME TypeOK, EndOfTurn
    PROVE  turn' \in Turn /\ run' \in Run
<1>1. turn' \in Turn
  BY AnnouncedTyped DEF EndOfTurn, TypeOK
<1>2. run' \in Run
  BY DEF EndOfTurn, TypeOK, Run
<1>3. QED
  BY <1>1, <1>2

LEMMA FileFoundTyped ==
    ASSUME TypeOK, FileFound
    PROVE  TypeOK'
<1>1. call' \in Calling /\ out' \in Out
  <2>1. CASE call.late > call.count /\ \E held \in BOOLEAN : Calls(call.late, held)
    <3>1. PICK held \in BOOLEAN : Calls(call.late, held)
      BY <2>1
    <3>2. call.late \in 1..MaxCalls
      BY <2>1, BoundsAssumption DEF TypeOK, Calling
    <3>3. QED
      BY <3>1, <3>2, CallsTyped
  <2>2. CASE UNCHANGED <<call, out>>
    BY <2>2 DEF TypeOK
  <2>3. QED
    BY <2>1, <2>2 DEF FileFound
<1>2. turn' \in Turn /\ run' \in Run
  <2>1. CASE run' = [run EXCEPT !.pc = "turn"] /\ UNCHANGED turn
    BY <2>1 DEF TypeOK, Run
  <2>2. CASE EndOfTurn
    BY <2>2, EndOfTurnTyped
  <2>3. QED
    BY <2>1, <2>2 DEF FileFound
<1>3. QED
  BY <1>1, <1>2 DEF FileFound, TypeOK

LEMMA UseTyped ==
    ASSUME TypeOK, Use \/ UsePlan
    PROVE  TypeOK'
<1> DEFINE c == call.count + 1
<1>1. c \in 1..MaxCalls /\ call.count < MaxCalls
  <2>1. call.count < MaxCalls
    BY DEF Use, UsePlan
  <2>2. call.count \in 0..MaxCalls /\ MaxCalls \in Nat
    BY BoundsAssumption DEF TypeOK, Calling
  <2>3. QED
    BY <2>1, <2>2
<1>2. CASE Use
  <2>1. \E held \in BOOLEAN : Calls(c, held)
    BY <1>2 DEF Use
  <2>2. PICK held \in BOOLEAN : Calls(c, held)
    BY <2>1
  <2> HIDE DEF c
  <2>3. call' \in Calling /\ out' \in Out
    BY <1>1, <2>2, CallsTyped
  <2>4. QED
    BY <1>2, <2>3 DEF Use, TypeOK
<1>3. CASE UsePlan
  <2>1. call' = [call EXCEPT !.count = c, !.open = call.open \cup {c}, !.known = call.known \cup {c}, !.plans = call.plans \cup {c}]
    BY <1>3 DEF UsePlan
  <2>2. out' = Sends(out, "call", c, FALSE)
    BY <1>3 DEF UsePlan
  <2>3. call \in Calling /\ out \in Out /\ c \in 0..MaxCalls
    BY <1>1, BoundsAssumption DEF TypeOK
  <2> HIDE DEF c
  <2>4. call' \in Calling
    <3>1. call.open \cup {c} \subseteq 1..MaxCalls /\ call.known \cup {c} \subseteq 1..MaxCalls /\ call.plans \cup {c} \subseteq 1..MaxCalls
      BY <1>1, <2>3 DEF Calling
    <3>2. QED
      BY <2>1, <2>3, <3>1 DEF Calling
  <2>5. out' \in Out
    BY <2>2, <2>3, SendsTyped
  <2>6. QED
    BY <1>3, <2>4, <2>5 DEF UsePlan, TypeOK
<1>4. QED
  BY <1>2, <1>3

LEMMA ToolResultTyped ==
    ASSUME TypeOK, ToolResult
    PROVE  TypeOK'
<1>1. PICK c \in call.open :
          IF c \in call.refused \cup call.plans
          THEN EndLaunch(FALSE, <<>>, "refused")
          ELSE /\ call' = [call EXCEPT !.open = call.open \ {c}, !.known = call.known \ {c}]
               /\ out' = Sends(Freed(out, c), "result", c, FALSE)
               /\ UNCHANGED <<run, turn, shown, dropped>>
  BY DEF ToolResult
<1>2. CASE EndLaunch(FALSE, <<>>, "refused")
  <2>1. <<>> \in Seq(Prompt) /\ Ids(<<>>) = {}
    BY EmptyQueue
  <2>2. QED
    BY <1>2, <2>1, EndLaunchTyped DEF ToolResult, TypeOK, Overs
<1>3. CASE /\ call' = [call EXCEPT !.open = call.open \ {c}, !.known = call.known \ {c}]
           /\ out' = Sends(Freed(out, c), "result", c, FALSE)
           /\ UNCHANGED <<run, turn, shown, dropped>>
  <2>1. call' \in Calling
    <3>1. call \in Calling /\ call.open \ {c} \subseteq 1..MaxCalls /\ call.known \ {c} \subseteq 1..MaxCalls
      BY DEF TypeOK, Calling
    <3>2. QED
      BY <1>3, <3>1 DEF Calling
  <2>2. c \in 0..MaxCalls /\ out \in Out
    BY BoundsAssumption DEF TypeOK, Calling
  <2>3. out' \in Out
    BY <1>3, <2>2, FreedTyped, SendsTyped
  <2>4. QED
    BY <1>3, <2>1, <2>3 DEF ToolResult, TypeOK
<1>4. QED
  BY <1>1, <1>2, <1>3

LEMMA AskTyped ==
    ASSUME TypeOK, Ask \/ LateAsk
    PROVE  TypeOK'
<1>1. CASE \E c \in call.known : Asked(c)
  <2>1. PICK c \in call.known : Asked(c)
    BY <1>1
  <2>2. c \in 1..MaxCalls
    BY DEF TypeOK, Calling
  <2>3. QED
    BY <2>1, <2>2, AskedTyped DEF Ask, LateAsk, TypeOK
<1>2. CASE call' = [call EXCEPT !.late = NoCall] /\ UNCHANGED <<shown, out>>
  <2>1. call' \in Calling
    BY <1>2, BoundsAssumption DEF TypeOK, Calling, NoCall
  <2>2. QED
    BY <1>2, <2>1 DEF Ask, LateAsk, TypeOK
<1>3. QED
  BY <1>1, <1>2 DEF Ask, LateAsk

LEMMA AgentTyped ==
    ASSUME TypeOK, Agent
    PROVE  TypeOK'
<1>1. CASE Say
  <2>1. turn' \in Turn
    BY <1>1 DEF Say, TypeOK, Turn
  <2>2. NoCall \in 0..MaxCalls
    BY BoundsAssumption DEF NoCall
  <2>3. out' \in Out
    BY <1>1, <2>2, SendsTyped DEF Say, TypeOK
  <2>4. QED
    BY <1>1, <2>1, <2>3 DEF Say, TypeOK
<1>2. CASE EarlyAsk
  <2>1. call' \in Calling
    BY <1>2, BoundsAssumption DEF EarlyAsk, TypeOK, Calling
  <2>2. QED
    BY <1>2, <2>1 DEF EarlyAsk, TypeOK
<1>3. CASE Result
  BY <1>3, EndOfTurnTyped DEF Result, TypeOK
<1>4. CASE Crash
  <2>1. run' \in Run
    BY <1>4 DEF Crash, TypeOK, Run
  <2>2. QED
    BY <1>4, <2>1 DEF Crash, TypeOK
<1>5. QED
  BY <1>1, <1>2, <1>3, <1>4, FileFoundTyped, UseTyped, ToolResultTyped, AskTyped DEF Agent

(* Where the first held message stands: Deliver sends what is before it.   *)
Ahead(items) == Cardinality({k \in 1..Len(items) : \A i \in 1..k : ~items[i].held})

LEMMA AheadBounded ==
    ASSUME NEW items \in Seq(Item)
    PROVE  Ahead(items) \in 0..Len(items)
<1>1. Len(items) \in Nat
  OBVIOUS
<1>2. IsFiniteSet(1..Len(items)) /\ Cardinality(1..Len(items)) = Len(items)
  BY <1>1, FS_Interval
<1> DEFINE clear == {k \in 1..Len(items) : \A i \in 1..k : ~items[i].held}
<1>3. clear \subseteq 1..Len(items)
  OBVIOUS
<1>4. Ahead(items) = Cardinality(clear)
  BY DEF Ahead
<1> HIDE DEF clear
<1>5. Cardinality(clear) \in Nat /\ Cardinality(clear) <= Len(items)
  BY <1>2, <1>3, FS_Subset, FS_CardinalityType
<1>6. QED
  BY <1>1, <1>4, <1>5

LEMMA OutTyped ==
    ASSUME TypeOK, Deliver \/ Expire
    PROVE  TypeOK'
<1> DEFINE items == out.items
<1>1. items \in Seq(Item) /\ Len(items) \in Nat
  BY DEF TypeOK, Out
<1>2. CASE Deliver
  <2> DEFINE n == Ahead(items)
  <2>1. out' = [items |-> SubSeq(items, n + 1, Len(items)), armed |-> FALSE]
    BY <1>2 DEF Deliver, Ahead
  <2>2. \E reply \in BOOLEAN : turn' = [turn EXCEPT !.reply = reply]
    <3>1. turn.reply \in BOOLEAN
      BY DEF TypeOK, Turn
    <3>2. QED
      BY <1>2, <3>1 DEF Deliver
  <2>3. turn' \in Turn
    BY <2>2 DEF TypeOK, Turn
  <2>4. n \in Nat
    BY <1>1, AheadBounded
  <2> HIDE DEF n, items
  <2>5. SubSeq(items, n + 1, Len(items)) \in Seq(Item)
    BY <1>1, <2>4
  <2>6. out' \in Out
    BY <2>1, <2>5 DEF Out
  <2>7. QED
    BY <1>2, <2>3, <2>6 DEF Deliver, TypeOK
<1>3. CASE Expire
  <2>1. PICK i \in DOMAIN items : out' = [items |-> [items EXCEPT ![i].held = FALSE], armed |-> TRUE]
    BY <1>3 DEF Expire
  <2> HIDE DEF items
  <2> DEFINE item == [items[i] EXCEPT !.held = FALSE]
  <2>2. items[i] \in Item
    BY <1>1
  <2>3. item \in Item
    BY <2>2 DEF Item
  <2>4. out' = [items |-> [items EXCEPT ![i] = item], armed |-> TRUE]
    BY <2>1
  <2> HIDE DEF item
  <2>5. [items EXCEPT ![i] = item] \in Seq(Item)
    BY <1>1, <2>3
  <2>6. out' \in Out
    BY <2>4, <2>5 DEF Out
  <2>7. QED
    BY <1>3, <2>6 DEF Expire, TypeOK
<1>4. QED
  BY <1>2, <1>3

(* The queue after a prompt: those that waited, if it is no command, and it. *)
LEMMA PushTyped ==
    ASSUME queue \in Seq(Prompt), NEW p \in Prompt
    PROVE  Push(p) \in Seq(Prompt)
BY DEF Push

LEMMA ReceiveTyped ==
    ASSUME TypeOK, Apart, Receive
    PROVE  TypeOK'
<1>1. PICK hash \in Models, kind \in {"text", "compact", "clear"} :
         LET p == [id |-> arrived + 1, hash |-> hash, perm |-> perm, kind |-> kind]
         IN /\ Alone(p) => "special" \in scene
            /\ queue' = Push(p)
            /\ dropped' = IF Alone(p) THEN dropped \cup Ids(queue) ELSE dropped
  BY DEF Receive
<1> DEFINE p == [id |-> arrived + 1, hash |-> hash, perm |-> perm, kind |-> kind]
<1>2. arrived \in Nat /\ arrived + 1 \in 0..MaxPrompts /\ arrived' = arrived + 1
  BY BoundsAssumption DEF TypeOK, Receive
<1>3. p \in Prompt
  BY <1>2 DEF Prompt, TypeOK
<1>4. queue' = Push(p) /\ (dropped' = dropped \cup Ids(queue) \/ dropped' = dropped)
  BY <1>1
<1> HIDE DEF p
<1>5. queue' \in Seq(Prompt)
  BY <1>3, <1>4, PushTyped DEF TypeOK
<1>6. dropped' \subseteq 1..arrived' /\ taken' \subseteq 1..arrived'
  BY <1>2, <1>4 DEF Receive, TypeOK, Apart, Filed
<1>7. run' \in Run
  BY DEF Receive, TypeOK, Run
<1>8. QED
  BY <1>2, <1>5, <1>6, <1>7 DEF Receive, TypeOK

(* The restart prompt of an approved plan goes before the others. *)
LEMMA AnswerQueue ==
    ASSUME TypeOK, Answer
    PROVE  queue' = queue \/ \E p \in Prompt : p.id = 0 /\ queue' = <<p>> \o queue
<1> DEFINE model == CHOOSE m \in Models : TRUE
           p == [id |-> 0, hash |-> model, perm |-> perm', kind |-> "text"]
<1>1. queue' = <<p>> \o queue \/ queue' = queue
  BY DEF Answer
<1>2. model \in Models /\ perm' \in Perms
  BY BoundsAssumption DEF Answer, TypeOK
<1> HIDE DEF model
<1>3. p \in Prompt /\ p.id = 0
  BY <1>2, BoundsAssumption DEF Prompt
<1> HIDE DEF p
<1>4. QED
  BY <1>1, <1>3

LEMMA InFront ==
    ASSUME NEW p \in Prompt, NEW q \in Seq(Prompt)
    PROVE  <<p>> \o q \in Seq(Prompt) /\ <<p>> \o q # <<>>
<1>1. <<p>> \in Seq(Prompt) /\ Len(<<p>>) = 1 /\ Len(q) \in Nat
  OBVIOUS
<1>2. <<p>> \o q \in Seq(Prompt) /\ Len(<<p>> \o q) = 1 + Len(q)
  BY <1>1, ConcatProperties
<1>3. Len(<<>>) = 0
  OBVIOUS
<1>4. QED
  BY <1>1, <1>2, <1>3

LEMMA AnswerTyped ==
    ASSUME TypeOK, Answer
    PROVE  TypeOK'
<1>1. call' \in Calling
  <2>1. call \in Calling /\ call.ask \in 1..MaxCalls /\ NoCall \in 0..MaxCalls
    BY BoundsAssumption DEF TypeOK, Calling, Answer, NoCall
  <2>2. call.refused \cup {call.ask} \subseteq 1..MaxCalls
    BY <2>1 DEF Calling
  <2>3. \/ call' = [call EXCEPT !.ask = NoCall, !.refused = call.refused \cup {call.ask}]
        \/ call' = [call EXCEPT !.ask = NoCall]
    BY DEF Answer
  <2>4. QED
    BY <2>1, <2>2, <2>3 DEF Calling
<1>2. perm' \in Perms
  BY DEF Answer, TypeOK
<1>3. queue' \in Seq(Prompt)
  BY AnswerQueue, InFront DEF TypeOK
<1>4. QED
  BY <1>1, <1>2, <1>3 DEF Answer, TypeOK

LEMMA UserTyped ==
    ASSUME TypeOK, Apart, User
    PROVE  TypeOK'
<1>1. CASE SetPerm
  <2>1. call' \in Calling
    BY <1>1, BoundsAssumption DEF SetPerm, TypeOK, Calling, NoCall
  <2>2. shown' \subseteq 1..MaxCalls /\ perm' \in Perms
    BY <1>1 DEF SetPerm, TypeOK
  <2>3. QED
    BY <1>1, <2>1, <2>2 DEF SetPerm, TypeOK
<1>2. ASSUME NEW exit \in {"none", "switch", "exit"}, Stop(exit) PROVE TypeOK'
  <2> DEFINE e == IF run.exit = "none" THEN exit ELSE run.exit
             r == [run EXCEPT !.fate = "aborted", !.exit = e]
  <2>1. run' \in {r, [r EXCEPT !.pc = "next"]}
    BY <1>2 DEF Stop
  <2>2. e \in {"none", "switch", "exit"}
    BY DEF TypeOK, Run
  <2> HIDE DEF e
  <2>3. r \in Run
    BY <2>2 DEF TypeOK, Run
  <2> HIDE DEF r
  <2>4. run' \in Run
    BY <2>1, <2>3 DEF Run
  <2>5. QED
    BY <1>2, <2>4 DEF Stop, TypeOK
<1>3. CASE LocalStop
  <2>1. run' \in Run
    <3>1. run \in Run /\ run' = [run EXCEPT !.exit = "switch", !.fate = "aborted"]
      BY <1>3 DEF LocalStop, TypeOK
    <3>2. QED
      BY <3>1 DEF Run
  <2>2. queue' \in Seq(Prompt)
    <3>1. queue' = <<>> \/ queue' = queue
      BY <1>3 DEF LocalStop
    <3>2. QED
      BY <3>1, EmptyQueue DEF TypeOK
  <2>3. dropped' \subseteq 1..arrived
    BY <1>3 DEF LocalStop, TypeOK, Apart, Filed
  <2>4. QED
    BY <1>3, <2>1, <2>2, <2>3 DEF LocalStop, TypeOK
<1>4. CASE LocalEnds
  <2>1. run' \in Run
    <3>1. run \in Run
      BY DEF TypeOK
    <3>2. \E pc \in {"gone", "leave"} : run' = [run EXCEPT !.pc = pc, !.exit = "none", !.fate = "alive"]
      BY <1>4 DEF LocalEnds
    <3>3. QED
      BY <3>1, <3>2 DEF Run
  <2>2. QED
    BY <1>4, <2>1 DEF LocalEnds, TypeOK
<1>5. QED
  BY <1>1, <1>2, <1>3, <1>4, ReceiveTyped, AnswerTyped DEF User, Abort, Switch

LEMMA TypeStep ==
    ASSUME TypeOK, Apart, [Next]_vars
    PROVE  TypeOK'
<1>1. CASE UNCHANGED vars
  BY <1>1 DEF vars, TypeOK
<1>2. QED
  BY <1>1, LauncherTyped, AgentTyped, UserTyped, OutTyped DEF Next

-----------------------------------------------------------------------------
(* Permissions *)

(* The calls that wait to be asked for are those of the process at work,   *)
(* and while a request still looks for its call, no other one is shown.    *)
Tracks ==
    /\ call.known \subseteq (call.base + 1)..call.count
    /\ call.base <= call.count /\ call.late <= call.count + 1
    /\ call.late > call.base => call.ask = NoCall

Attentive == Tracks /\ ShownIsAsked

LEMMA CallParts ==
    ASSUME TypeOK
    PROVE  /\ call \in Calling /\ call.count \in Nat /\ call.base \in Nat /\ call.late \in Nat /\ call.ask \in Nat
           /\ call.known \subseteq 1..MaxCalls
BY BoundsAssumption DEF TypeOK, Calling

LEMMA EndLaunchAttentive ==
    ASSUME TypeOK, Attentive, NEW thrown, NEW pending, NEW over, EndLaunch(thrown, pending, over)
    PROVE  Attentive'
<1>1. call' = [call EXCEPT !.open = {}, !.known = {}, !.plans = {}, !.refused = {}, !.base = call.count, !.ask = NoCall] /\ shown' = {}
  BY DEF EndLaunch
<1>2. call'.count = call.count /\ call'.known = {} /\ call'.base = call.count /\ call'.late = call.late /\ call'.ask = NoCall
  BY <1>1, CallParts DEF Calling
<1>3. QED
  BY <1>1, <1>2, CallParts DEF Attentive, Tracks, ShownIsAsked

(* A call that the agent makes: its number is the next one. *)
LEMMA CallsAttentive ==
    ASSUME TypeOK, Attentive, NEW c, c = call.count + 1, UNCHANGED shown,
           call' = [call EXCEPT !.count = c, !.open = call'.open, !.known = call.known \cup {c}, !.plans = call'.plans]
    PROVE  Attentive'
<1>1. call'.count = c /\ call'.known = call.known \cup {c} /\ call'.base = call.base /\ call'.late = call.late /\ call'.ask = call.ask
  BY CallParts DEF Calling
<1>2. call'.known \subseteq (call'.base + 1)..call'.count
  BY <1>1, CallParts DEF Attentive, Tracks
<1>3. QED
  BY <1>1, <1>2, CallParts DEF Attentive, Tracks, ShownIsAsked

LEMMA AskedAttentive ==
    ASSUME TypeOK, Attentive, NEW c \in call.known, call.ask = NoCall, Asked(c)
    PROVE  Attentive'
<1>1. call' = [call EXCEPT !.known = call.known \ {c}, !.late = NoCall, !.ask = c] /\ shown' = shown \cup {c}
  BY DEF Asked
<1>2. /\ call'.count = call.count /\ call'.known = call.known \ {c} /\ call'.base = call.base
      /\ call'.late = NoCall /\ call'.ask = c
  BY <1>1, CallParts DEF Calling
<1>3. c # NoCall
  BY CallParts DEF Attentive, Tracks, NoCall
<1>4. shown' = {c}
  BY <1>1 DEF Attentive, ShownIsAsked
<1>5. QED
  BY <1>2, <1>3, <1>4, CallParts DEF Attentive, Tracks, ShownIsAsked, NoCall

(* The request that is shown is answered. *)
LEMMA AnsweredAttentive ==
    ASSUME TypeOK, Attentive, call' = [call EXCEPT !.ask = NoCall, !.refused = call'.refused], shown' = shown \ {call.ask}
    PROVE  Attentive'
<1>1. /\ call'.count = call.count /\ call'.known = call.known /\ call'.base = call.base
      /\ call'.late = call.late /\ call'.ask = NoCall
  BY CallParts DEF Calling
<1>2. QED
  BY <1>1, CallParts DEF Attentive, Tracks, ShownIsAsked

LEMMA AgentAttentive ==
    ASSUME TypeOK, Attentive, Agent
    PROVE  Attentive'
<1>1. CASE FileFound
  <2>1. CASE call.late > call.count /\ \E held \in BOOLEAN : Calls(call.late, held)
    <3>1. call.late = call.count + 1
      BY <2>1, CallParts DEF Attentive, Tracks
    <3>2. call' = [call EXCEPT !.count = call.late, !.open = call.open \cup {call.late}, !.known = call.known \cup {call.late}]
      BY <2>1 DEF Calls
    <3>3. call' = [call EXCEPT !.count = call.late, !.open = call'.open, !.known = call.known \cup {call.late}, !.plans = call'.plans]
      BY <3>2, CallParts DEF Calling
    <3>4. QED
      BY <1>1, <3>1, <3>3, CallsAttentive DEF FileFound
  <2>2. CASE UNCHANGED call
    BY <1>1, <2>2 DEF FileFound, Attentive, Tracks, ShownIsAsked
  <2>3. QED
    BY <1>1, <2>1, <2>2 DEF FileFound
<1>2. CASE Use \/ UsePlan
  <2> DEFINE c == call.count + 1
  <2>1. \/ call' = [call EXCEPT !.count = c, !.open = call.open \cup {c}, !.known = call.known \cup {c}]
        \/ call' = [call EXCEPT !.count = c, !.open = call.open \cup {c}, !.known = call.known \cup {c}, !.plans = call.plans \cup {c}]
    BY <1>2 DEF Use, UsePlan, Calls
  <2>2. c = call.count + 1
    OBVIOUS
  <2> HIDE DEF c
  <2>3. call' = [call EXCEPT !.count = c, !.open = call'.open, !.known = call.known \cup {c}, !.plans = call'.plans]
    BY <2>1, CallParts DEF Calling
  <2>4. QED
    BY <1>2, <2>2, <2>3, CallsAttentive DEF Use, UsePlan
<1>3. CASE Ask
  <2>1. PICK c \in call.known : Asked(c)
    BY <1>3 DEF Ask
  <2>2. QED
    BY <1>3, <2>1, AskedAttentive DEF Ask, Reading, Blocked
<1>4. CASE LateAsk
  <2>1. CASE call.late \in call.known /\ Asked(call.late)
    <3>1. call.ask = NoCall
      BY <2>1, CallParts DEF Attentive, Tracks
    <3>2. QED
      BY <2>1, <3>1, AskedAttentive
  <2>2. CASE call' = [call EXCEPT !.late = NoCall] /\ UNCHANGED shown
    <3>1. /\ call'.count = call.count /\ call'.known = call.known /\ call'.base = call.base
          /\ call'.late = NoCall /\ call'.ask = call.ask
      BY <2>2, CallParts DEF Calling
    <3>2. QED
      BY <2>2, <3>1, CallParts DEF Attentive, Tracks, ShownIsAsked, NoCall
  <2>3. QED
    BY <1>4, <2>1, <2>2 DEF LateAsk
<1>5. CASE EarlyAsk
  <2>1. call' = [call EXCEPT !.late = call.count + 1] /\ UNCHANGED shown /\ call.ask = NoCall
    BY <1>5 DEF EarlyAsk, Blocked
  <2>2. /\ call'.count = call.count /\ call'.known = call.known /\ call'.base = call.base
        /\ call'.late = call.count + 1 /\ call'.ask = call.ask
    BY <2>1, CallParts DEF Calling
  <2>3. QED
    BY <2>1, <2>2, CallParts DEF Attentive, Tracks, ShownIsAsked
<1>6. CASE ToolResult
  <2>1. PICK c \in call.open :
            \/ EndLaunch(FALSE, <<>>, "refused")
            \/ call' = [call EXCEPT !.open = call.open \ {c}, !.known = call.known \ {c}] /\ UNCHANGED shown
    BY <1>6 DEF ToolResult
  <2>2. CASE call' = [call EXCEPT !.open = call.open \ {c}, !.known = call.known \ {c}] /\ UNCHANGED shown
    <3>1. /\ call'.count = call.count /\ call'.known = call.known \ {c} /\ call'.base = call.base
          /\ call'.late = call.late /\ call'.ask = call.ask
      BY <2>2, CallParts DEF Calling
    <3>2. QED
      BY <2>2, <3>1, CallParts DEF Attentive, Tracks, ShownIsAsked
  <2>3. QED
    BY <2>1, <2>2, EndLaunchAttentive
<1>7. CASE Say \/ Result \/ Crash
  BY <1>7 DEF Say, Result, Crash, Attentive, Tracks, ShownIsAsked
<1>8. QED
  BY <1>1, <1>2, <1>3, <1>4, <1>5, <1>6, <1>7 DEF Agent

LEMMA UserAttentive ==
    ASSUME TypeOK, Attentive, User
    PROVE  Attentive'
<1>1. CASE Answer
  <2>1. shown' = shown \ {call.ask}
    BY <1>1 DEF Answer
  <2>2. \/ call' = [call EXCEPT !.ask = NoCall, !.refused = call.refused \cup {call.ask}]
        \/ call' = [call EXCEPT !.ask = NoCall]
    BY <1>1 DEF Answer
  <2>3. call' = [call EXCEPT !.ask = NoCall, !.refused = call'.refused]
    BY <2>2, CallParts DEF Calling
  <2>4. QED
    BY <2>1, <2>3, AnsweredAttentive
<1>2. CASE SetPerm
  <2>1. CASE call' = [call EXCEPT !.ask = NoCall] /\ shown' = shown \ {call.ask}
    <3>1. call' = [call EXCEPT !.ask = NoCall, !.refused = call'.refused]
      BY <2>1, CallParts DEF Calling
    <3>2. QED
      BY <2>1, <3>1, AnsweredAttentive
  <2>2. CASE UNCHANGED <<call, shown>>
    BY <2>2 DEF Attentive, Tracks, ShownIsAsked
  <2>3. QED
    BY <1>2, <2>1, <2>2 DEF SetPerm
<1>3. CASE UNCHANGED <<call, shown>>
  BY <1>3 DEF Attentive, Tracks, ShownIsAsked
<1>4. QED
  BY <1>1, <1>2, <1>3 DEF User, Receive, Abort, Switch, Stop, LocalStop, LocalEnds

LEMMA AttentiveStep ==
    ASSUME TypeOK, Attentive, [Next]_vars
    PROVE  Attentive'
<1>1. CASE UNCHANGED <<call, shown>>
  BY <1>1 DEF Attentive, Tracks, ShownIsAsked
<1>2. CASE Launcher
  <2>1. CASE Launch \/ EnterLocal \/ Leave
    BY <1>1, <2>1 DEF Launch, LaunchPending, LaunchQueued, LaunchAlone, AwaitPrompt, EnterLocal, Leave
  <2>2. CASE NextPrompt
    <3>1. EndLaunch(FALSE, Batch(queue), "silent") \/ UNCHANGED <<call, shown>>
      BY <2>2 DEF NextPrompt
    <3>2. QED
      BY <1>1, <3>1, EndLaunchAttentive
  <2>3. CASE Perish
    BY <2>3, EndLaunchAttentive DEF Perish
  <2>4. QED
    BY <1>2, <2>1, <2>2, <2>3 DEF Launcher
<1>3. CASE Deliver \/ Expire \/ UNCHANGED vars
  BY <1>1, <1>3 DEF Deliver, Expire, vars
<1>4. QED
  BY <1>2, <1>3, AgentAttentive, UserAttentive DEF Next

-----------------------------------------------------------------------------
(* Prompts *)

LEMMA IdsNat ==
    ASSUME NEW s \in Seq(Prompt)
    PROVE  \A n \in Ids(s) : n \in Nat
BY IdsNumbers, BoundsAssumption

(* The pending batch is taken, or dropped. *)
LEMMA PendingTaken ==
    ASSUME NEW q, NEW p, NEW t, NEW d, NEW n, Filed(q, p, t, d, n)
    PROVE  Filed(q, <<>>, t \cup Ids(p), d, n)
<1>1. Ids(<<>>) = {} /\ Ascends(<<>>)
  BY EmptyQueue DEF Ascends
<1>2. QED
  BY <1>1 DEF Filed, Before

LEMMA PendingDropped ==
    ASSUME NEW q, NEW p \in Seq(Prompt), NEW t, NEW d, NEW n, Filed(q, p, t, d, n),
           q \in Seq(Prompt), t \subseteq Nat
    PROVE  Filed(q, <<>>, t, d \cup Ids(p), n)
<1>1. Ids(<<>>) = {} /\ Ascends(<<>>)
  BY EmptyQueue DEF Ascends
<1>2. Ids(q) \cap Ids(p) = {} /\ t \cap Ids(p) = {}
  BY IdsNat DEF Filed, Before
<1>3. QED
  BY <1>1, <1>2 DEF Filed, Before

(* A batch leaves the queue. *)
LEMMA BatchPending ==
    ASSUME NEW q \in Seq(Prompt), q # <<>>, NEW t, NEW d, NEW n, Filed(q, <<>>, t, d, n)
    PROVE  Filed(Rest(q), Batch(q), t, d, n)
<1>1. /\ Ids(q) = Ids(Batch(q)) \cup Ids(Rest(q))
      /\ Ascends(Batch(q)) /\ Ascends(Rest(q)) /\ Before(Ids(Batch(q)), Ids(Rest(q)))
  BY BatchAndRest DEF Filed
<1>2. Ids(<<>>) = {}
  BY EmptyQueue
<1>3. QED
  BY <1>1, <1>2 DEF Filed, Before

(* A prompt in a queue of its own. *)
LEMMA OneQueue ==
    ASSUME NEW p \in Prompt
    PROVE  Ids(<<p>>) = {p.id} \ {0} /\ Ascends(<<p>>)
<1>1. DOMAIN <<p>> = {1} /\ <<p>>[1] = p
  OBVIOUS
<1>2. QED
  BY <1>1 DEF Ids, Ascends, Nums

LEMMA ConcatQueue ==
    ASSUME NEW s \in Seq(Prompt), NEW t \in Seq(Prompt)
    PROVE  /\ Ids(s \o t) = Ids(s) \cup Ids(t)
           /\ Ascends(s) /\ Ascends(t) /\ Before(Ids(s), Ids(t)) => Ascends(s \o t)
<1> DEFINE c == s \o t
<1>1. Len(s) \in Nat /\ Len(t) \in Nat /\ DOMAIN s = 1..Len(s) /\ DOMAIN t = 1..Len(t)
  BY SeqParts
<1>2. /\ c \in Seq(Prompt) /\ Len(c) = Len(s) + Len(t)
      /\ \A i \in 1..Len(s) + Len(t) : c[i] = IF i <= Len(s) THEN s[i] ELSE t[i - Len(s)]
  BY ConcatProperties
<1>3. DOMAIN c = 1..Len(s) + Len(t)
  BY <1>2, SeqParts
<1> HIDE DEF c
<1>4. \A i \in Nums(s) : i \in Nums(c) /\ c[i] = s[i]
  BY <1>1, <1>2, <1>3 DEF Nums
<1>5. \A i \in Nums(t) : i + Len(s) \in Nums(c) /\ c[i + Len(s)] = t[i]
  <2>1. ASSUME NEW i \in Nums(t) PROVE i + Len(s) \in Nums(c) /\ c[i + Len(s)] = t[i]
    <3>1. i \in 1..Len(t) /\ t[i].id # 0
      BY <1>1 DEF Nums
    <3>2. i + Len(s) \in 1..Len(s) + Len(t) /\ ~(i + Len(s) <= Len(s)) /\ (i + Len(s)) - Len(s) = i
      BY <1>1, <3>1
    <3>3. QED
      BY <1>2, <1>3, <3>1, <3>2 DEF Nums
  <2>2. QED
    BY <2>1
<1>6. \A i \in Nums(c) : \/ i \in Nums(s) /\ c[i] = s[i] /\ i <= Len(s)
                         \/ i - Len(s) \in Nums(t) /\ c[i] = t[i - Len(s)] /\ i > Len(s)
  <2>1. ASSUME NEW i \in Nums(c)
        PROVE  \/ i \in Nums(s) /\ c[i] = s[i] /\ i <= Len(s)
               \/ i - Len(s) \in Nums(t) /\ c[i] = t[i - Len(s)] /\ i > Len(s)
    <3>1. i \in 1..Len(s) + Len(t) /\ c[i].id # 0
      BY <1>3 DEF Nums
    <3>2. CASE i <= Len(s)
      BY <1>1, <1>2, <3>1, <3>2 DEF Nums
    <3>3. CASE i > Len(s)
      <4>1. i - Len(s) \in 1..Len(t) /\ ~(i <= Len(s))
        BY <1>1, <3>1, <3>3
      <4>2. QED
        BY <1>1, <1>2, <3>1, <3>3, <4>1 DEF Nums
    <3>4. QED
      BY <1>1, <3>1, <3>2, <3>3
  <2>2. QED
    BY <2>1
<1>7. Ids(c) = Ids(s) \cup Ids(t)
  <2>1. ASSUME NEW n \in Ids(c) PROVE n \in Ids(s) \cup Ids(t)
    <3>1. PICK i \in Nums(c) : c[i].id = n
      BY <2>1, IdsAre
    <3>2. QED
      BY <1>6, <3>1, IdsAre
  <2>2. ASSUME NEW n \in Ids(s) \cup Ids(t) PROVE n \in Ids(c)
    BY <1>4, <1>5, <2>2, IdsAre
  <2>3. QED
    BY <2>1, <2>2
<1>8. ASSUME Ascends(s), Ascends(t), Before(Ids(s), Ids(t)), NEW i \in Nums(c), NEW j \in Nums(c), i < j
      PROVE  c[i].id < c[j].id
  <2>1. CASE i \in Nums(s) /\ c[i] = s[i] /\ j \in Nums(s) /\ c[j] = s[j]
    BY <1>8, <2>1 DEF Ascends
  <2>2. CASE i \in Nums(s) /\ c[i] = s[i] /\ j - Len(s) \in Nums(t) /\ c[j] = t[j - Len(s)]
    <3>1. c[i].id \in Ids(s) /\ c[j].id \in Ids(t)
      BY <2>2, IdsAre
    <3>2. QED
      BY <1>8, <3>1 DEF Before
  <2>3. CASE i - Len(s) \in Nums(t) /\ c[i] = t[i - Len(s)] /\ j - Len(s) \in Nums(t) /\ c[j] = t[j - Len(s)]
    <3>1. i - Len(s) < j - Len(s)
      BY <1>1, <1>3, <1>8 DEF Nums
    <3>2. QED
      BY <1>8, <2>3, <3>1 DEF Ascends
  <2>4. CASE i > Len(s) /\ j <= Len(s)
    BY <1>1, <1>3, <1>8, <2>4 DEF Nums
  <2>5. QED
    BY <1>6, <2>1, <2>2, <2>3, <2>4
<1>9. QED
  BY <1>7, <1>8 DEF c, Ascends

(* A prompt arrives: it is the last of the queue, or discards it. *)
LEMMA PushFiled ==
    ASSUME NEW q \in Seq(Prompt), NEW p \in Seq(Prompt), NEW t, NEW d, NEW n \in Nat, Filed(q, p, t, d, n),
           t \subseteq Nat, NEW x \in Prompt, x.id = n + 1
    PROVE  Filed(Append(q, x), p, t, d, n + 1) /\ Filed(<<x>>, p, t, d \cup Ids(q), n + 1)
<1>1. Ids(<<x>>) = {n + 1} /\ Ascends(<<x>>)
  <2>1. Ids(<<x>>) = {x.id} \ {0} /\ Ascends(<<x>>)
    BY OneQueue
  <2>2. n + 1 # 0
    OBVIOUS
  <2>3. QED
    BY <2>1, <2>2
<1>2. Append(q, x) = q \o <<x>> /\ <<x>> \in Seq(Prompt)
  OBVIOUS
<1>3. Ids(q) \cup Ids(p) \cup t \subseteq 1..n
  BY DEF Filed
<1>4. \A m \in Ids(q) \cup Ids(p) \cup t : m < n + 1 /\ m # n + 1
  BY <1>3
<1>5. 1..(n + 1) = (1..n) \cup {n + 1} /\ n + 1 \notin d
  BY DEF Filed
<1>6. Ids(Append(q, x)) = Ids(q) \cup {n + 1} /\ Ascends(Append(q, x))
  <2> DEFINE one == <<x>>
  <2>1. one \in Seq(Prompt) /\ Ids(one) = {n + 1} /\ Ascends(one) /\ Append(q, x) = q \o one
    BY <1>1, <1>2
  <2> HIDE DEF one
  <2>2. Before(Ids(q), Ids(one)) /\ Ascends(q)
    BY <1>4, <2>1 DEF Before, Filed
  <2>3. QED
    BY <2>1, <2>2, ConcatQueue
<1>7. Filed(Append(q, x), p, t, d, n + 1)
  BY <1>4, <1>5, <1>6 DEF Filed, Before
<1>8. Ids(q) \cap Ids(p) = {} /\ Ids(q) \cap t = {}
  BY IdsNat DEF Filed, Before
<1>9. Filed(<<x>>, p, t, d \cup Ids(q), n + 1)
  BY <1>1, <1>4, <1>5, <1>8 DEF Filed, Before
<1>10. QED
  BY <1>7, <1>9

(* The queue is discarded. *)
LEMMA QueueDropped ==
    ASSUME NEW q \in Seq(Prompt), NEW p \in Seq(Prompt), NEW t, NEW d, NEW n, Filed(q, p, t, d, n), t \subseteq Nat
    PROVE  Filed(<<>>, p, t, d \cup Ids(q), n)
<1>1. Ids(<<>>) = {} /\ Ascends(<<>>)
  BY EmptyQueue DEF Ascends
<1>2. Ids(q) \cap Ids(p) = {} /\ t \cap Ids(q) = {}
  BY IdsNat DEF Filed, Before
<1>3. QED
  BY <1>1, <1>2 DEF Filed, Before

(* The restart prompt of a plan, which did not arrive, goes first. *)
LEMMA RestartFiled ==
    ASSUME NEW q \in Seq(Prompt), NEW p, NEW t, NEW d, NEW n, Filed(q, p, t, d, n), NEW x \in Prompt, x.id = 0
    PROVE  Filed(<<x>> \o q, p, t, d, n)
<1>1. Ids(<<x>>) = {} /\ Ascends(<<x>>) /\ <<x>> \in Seq(Prompt)
  BY OneQueue
<1> DEFINE one == <<x>>
<1>2. one \in Seq(Prompt) /\ Ids(one) = {} /\ Ascends(one)
  BY <1>1
<1> HIDE DEF one
<1>3. Before(Ids(one), Ids(q)) /\ Ascends(q)
  BY <1>2 DEF Before, Filed
<1>4. Ids(one \o q) = Ids(q) /\ Ascends(one \o q)
  <2>1. Ids(one \o q) = Ids(one) \cup Ids(q)
    BY <1>2, ConcatQueue
  <2>2. Ascends(one \o q)
    BY <1>2, <1>3, ConcatQueue
  <2>3. QED
    BY <1>2, <2>1, <2>2
<1>5. Filed(one \o q, p, t, d, n)
  BY <1>4 DEF Filed
<1>6. QED
  BY <1>5 DEF one

-----------------------------------------------------------------------------
(* The steps of the prompts *)

(* A batch is pending only for the launch that comes next. *)
Waiting == run.pending # <<>> => run.pc = "launch"

Orderly == Apart /\ Waiting

LEMMA OrderlyParts ==
    ASSUME TypeOK
    PROVE  /\ queue \in Seq(Prompt) /\ run \in Run /\ run.pending \in Seq(Prompt) /\ <<>> \in Seq(Prompt)
           /\ arrived \in Nat /\ taken \subseteq Nat
BY BoundsAssumption DEF TypeOK, Run

(* A launch ends, outside of the state "launch", with a batch for the next *)
(* one; q is what is left in the queue.                                    *)
LEMMA EndLaunchOrderly ==
    ASSUME TypeOK, Orderly, NEW thrown, NEW pending \in Seq(Prompt), NEW over, NEW q \in Seq(Prompt),
           EndLaunch(thrown, pending, over), UNCHANGED <<arrived, taken>>, queue' = q,
           Filed(q, pending, taken, dropped, arrived)
    PROVE  Orderly'
<1>1. /\ run' = [Idling EXCEPT !.pc = CASE run.exit = "none" -> "launch" [] run.exit = "switch" -> "enter" [] OTHER -> "gone",
                            !.pending = IF run.exit = "none" THEN pending ELSE <<>>]
      /\ dropped' = IF run.exit = "none" THEN dropped ELSE dropped \cup Ids(pending)
  BY DEF EndLaunch, Relaunched
<1>2. Idling \in Run
  BY OrderlyParts DEF Run, Idling
<1>3. /\ run'.pending = (IF run.exit = "none" THEN pending ELSE <<>>)
      /\ run.exit = "none" => run'.pc = "launch"
  BY <1>1, <1>2 DEF Run
<1>4. CASE run.exit = "none"
  BY <1>1, <1>3, <1>4 DEF Orderly, Apart, Waiting
<1>5. CASE run.exit # "none"
  <2>1. Filed(q, <<>>, taken, dropped \cup Ids(pending), arrived)
    BY OrderlyParts, PendingDropped
  <2>2. run'.pending = <<>> /\ dropped' = dropped \cup Ids(pending)
    BY <1>1, <1>3, <1>5
  <2>3. QED
    BY <2>1, <2>2 DEF Orderly, Apart, Waiting
<1>6. QED
  BY <1>4, <1>5

(* The batch b is started, or handed to the process: b is taken. *)
LEMMA TakenOrderly ==
    ASSUME NEW b, NEW q, Filed(q, b, taken, dropped, arrived), queue' = q, run'.pending = <<>>,
           taken' = taken \cup Ids(b), UNCHANGED <<dropped, arrived>>
    PROVE  Orderly'
<1>1. Filed(q, <<>>, taken \cup Ids(b), dropped, arrived)
  BY PendingTaken
<1>2. QED
  BY <1>1 DEF Orderly, Apart, Waiting

LEMMA StartPending ==
    ASSUME TypeOK, NEW b, NEW waited, Start(b, waited)
    PROVE  run'.pending = <<>> /\ taken' = taken \cup Ids(b)
<1>1. \/ run' = [run EXCEPT !.pc = "launch", !.pending = <<>>]
      \/ run' = [run EXCEPT !.pc = "init", !.pending = <<>>, !.proc = b[1].hash, !.relay = waited,
                            !.hash = IF waited THEN NoModel ELSE b[1].hash]
  BY DEF Start
<1>2. run'.pending = <<>>
  BY <1>1, OrderlyParts DEF Run
<1>3. QED
  BY <1>2 DEF Start

LEMMA LauncherOrderly ==
    ASSUME TypeOK, Orderly, Launcher
    PROVE  Orderly'
<1>1. CASE LaunchPending
  <2>1. Start(run.pending, TRUE) /\ UNCHANGED <<arrived, queue, dropped>>
    BY <1>1 DEF LaunchPending
  <2>2. QED
    BY <2>1, StartPending, TakenOrderly DEF Orderly, Apart
<1>2. CASE LaunchQueued
  <2>1. queue # <<>> /\ Start(Batch(queue), FALSE) /\ queue' = Rest(queue) /\ UNCHANGED <<arrived, dropped>>
    BY <1>2 DEF LaunchQueued
  <2>2. Filed(queue, <<>>, taken, dropped, arrived)
    BY <1>2 DEF LaunchQueued, Orderly, Apart
  <2>3. Filed(Rest(queue), Batch(queue), taken, dropped, arrived)
    BY <2>1, <2>2, BatchPending, OrderlyParts
  <2>4. QED
    BY <2>1, <2>3, StartPending, TakenOrderly
<1>3. CASE LaunchAlone
  <2>1. queue # <<>> /\ queue' = Rest(queue) /\ UNCHANGED <<arrived, taken, dropped>>
    BY <1>3 DEF LaunchAlone
  <2>2. Filed(queue, <<>>, taken, dropped, arrived)
    BY <1>3 DEF LaunchAlone, Orderly, Apart
  <2>3. Filed(Rest(queue), Batch(queue), taken, dropped, arrived)
    BY <2>1, <2>2, BatchPending, OrderlyParts
  <2>4. run'.pending = Batch(queue) /\ run'.pc = "launch"
    BY <1>3, OrderlyParts DEF LaunchAlone, Run
  <2>5. QED
    BY <2>1, <2>3, <2>4 DEF Orderly, Apart, Waiting
<1>4. CASE AwaitPrompt \/ EnterLocal \/ Leave
  <2>1. run'.pending = run.pending /\ (run.pc = "launch" => run.pending = <<>>)
    BY <1>4, OrderlyParts DEF AwaitPrompt, EnterLocal, Leave, Run
  <2>2. UNCHANGED <<queue, arrived, taken, dropped>>
    BY <1>4 DEF AwaitPrompt, EnterLocal, Leave
  <2>3. QED
    BY <2>1, <2>2 DEF Orderly, Apart, Waiting
<1>5. CASE NextPrompt
  <2> DEFINE b == Batch(queue)
  <2>1. queue # <<>> /\ queue' = Rest(queue) /\ run.pc = "next" /\ UNCHANGED arrived
    BY <1>5 DEF NextPrompt
  <2>2. Filed(queue, <<>>, taken, dropped, arrived) /\ run.pending = <<>>
    BY <2>1 DEF Orderly, Apart, Waiting
  <2>3. Filed(Rest(queue), b, taken, dropped, arrived) /\ b \in Seq(Prompt) /\ Rest(queue) \in Seq(Prompt)
    BY <2>1, <2>2, BatchPending, BatchAndRest, OrderlyParts
  <2>4. \/ EndLaunch(FALSE, b, "silent") /\ UNCHANGED taken
        \/ /\ run' = [run EXCEPT !.hash = b[1].hash, !.pc = IF run.fate = "alive" THEN "init" ELSE "turn"]
           /\ taken' = taken \cup Ids(b) /\ UNCHANGED dropped
    BY <1>5 DEF NextPrompt
  <2> HIDE DEF b
  <2>5. CASE EndLaunch(FALSE, b, "silent") /\ UNCHANGED taken
    BY <2>1, <2>3, <2>5, EndLaunchOrderly
  <2>6. CASE /\ run' = [run EXCEPT !.hash = b[1].hash, !.pc = IF run.fate = "alive" THEN "init" ELSE "turn"]
             /\ taken' = taken \cup Ids(b) /\ UNCHANGED dropped
    <3>1. run'.pending = <<>>
      BY <2>2, <2>6, OrderlyParts DEF Run
    <3>2. QED
      BY <2>1, <2>3, <2>6, <3>1, TakenOrderly
  <2>7. QED
    BY <2>4, <2>5, <2>6
<1>6. CASE Perish
  <2>1. \E thrown : EndLaunch(thrown, <<>>, "silent")
    BY <1>6 DEF Perish
  <2>2. run.pc # "launch" /\ UNCHANGED <<arrived, queue, taken>>
    BY <1>6 DEF Perish
  <2>3. Filed(queue, <<>>, taken, dropped, arrived)
    BY <2>2 DEF Orderly, Apart, Waiting
  <2>4. QED
    BY <2>1, <2>2, <2>3, EndLaunchOrderly, OrderlyParts
<1>7. QED
  BY <1>1, <1>2, <1>3, <1>4, <1>5, <1>6 DEF Launcher, Launch

(* A step that moves no prompt. *)
LEMMA SameOrderly ==
    ASSUME Orderly, UNCHANGED <<queue, arrived, run, taken, dropped>>
    PROVE  Orderly'
BY DEF Orderly, Apart, Waiting

LEMMA AgentOrderly ==
    ASSUME TypeOK, Orderly, Agent
    PROVE  Orderly'
<1>1. CASE ToolResult
  <2>1. CASE EndLaunch(FALSE, <<>>, "refused")
    <3>1. run.pc # "launch" /\ UNCHANGED <<arrived, queue, taken>>
      BY <1>1 DEF ToolResult, Reading
    <3>2. Filed(queue, <<>>, taken, dropped, arrived)
      BY <3>1 DEF Orderly, Apart, Waiting
    <3>3. QED
      BY <2>1, <3>1, <3>2, EndLaunchOrderly, OrderlyParts
  <2>2. CASE UNCHANGED <<run, dropped>>
    BY <1>1, <2>2, SameOrderly DEF ToolResult
  <2>3. QED
    BY <1>1, <2>1, <2>2 DEF ToolResult
<1>2. CASE FileFound \/ Result \/ Crash
  <2>1. run.pc # "launch" /\ UNCHANGED <<queue, arrived, taken, dropped>>
    BY <1>2 DEF FileFound, Result, Crash, Reading
  <2>2. run' \in {[run EXCEPT !.pc = "turn"], [run EXCEPT !.pc = "next"], [run EXCEPT !.fate = "crashed"]}
    BY <1>2 DEF FileFound, Result, Crash, EndOfTurn
  <2>3. run'.pending = run.pending /\ run.pending = <<>>
    BY <2>1, <2>2, OrderlyParts DEF Run, Orderly, Waiting
  <2>4. QED
    BY <2>1, <2>3 DEF Orderly, Apart, Waiting
<1>3. CASE Say \/ Use \/ UsePlan \/ Ask \/ EarlyAsk \/ LateAsk
  BY <1>3, SameOrderly DEF Say, Use, UsePlan, Ask, EarlyAsk, LateAsk
<1>4. QED
  BY <1>1, <1>2, <1>3 DEF Agent

LEMMA ReceiveOrderly ==
    ASSUME TypeOK, Orderly, Receive
    PROVE  Orderly'
<1>1. PICK hash \in Models, kind \in {"text", "compact", "clear"} :
         LET p == [id |-> arrived + 1, hash |-> hash, perm |-> perm, kind |-> kind]
         IN /\ Alone(p) => "special" \in scene
            /\ queue' = Push(p)
            /\ dropped' = IF Alone(p) THEN dropped \cup Ids(queue) ELSE dropped
  BY DEF Receive
<1> DEFINE p == [id |-> arrived + 1, hash |-> hash, perm |-> perm, kind |-> kind]
<1>2. arrived \in Nat /\ arrived + 1 \in 0..MaxPrompts /\ arrived' = arrived + 1 /\ UNCHANGED taken
  BY BoundsAssumption DEF TypeOK, Receive
<1>3. p \in Prompt /\ p.id = arrived + 1
  BY <1>2 DEF Prompt, TypeOK
<1>4. IF Alone(p) THEN queue' = <<p>> /\ dropped' = dropped \cup Ids(queue)
                  ELSE queue' = Append(queue, p) /\ dropped' = dropped
  BY <1>1 DEF Push
<1> HIDE DEF p
<1>5. /\ Filed(Append(queue, p), run.pending, taken, dropped, arrived + 1)
      /\ Filed(<<p>>, run.pending, taken, dropped \cup Ids(queue), arrived + 1)
  BY <1>2, <1>3, PushFiled, OrderlyParts DEF Orderly, Apart
<1>6. run'.pending = run.pending /\ run.pending = <<>>
  <2>1. run.pc # "launch"
    BY DEF Receive, Settled
  <2>2. run' \in {run, [run EXCEPT !.exit = "switch", !.fate = "aborted"]}
    BY DEF Receive
  <2>3. QED
    BY <2>1, <2>2, OrderlyParts DEF Run, Orderly, Waiting
<1>7. QED
  BY <1>2, <1>4, <1>5, <1>6 DEF Orderly, Apart, Waiting

LEMMA UserOrderly ==
    ASSUME TypeOK, Orderly, User
    PROVE  Orderly'
<1>1. CASE Answer
  <2>1. UNCHANGED <<arrived, run, taken, dropped>>
    BY <1>1 DEF Answer
  <2>2. CASE UNCHANGED queue
    BY <2>1, <2>2, SameOrderly
  <2>3. CASE queue # queue'
    <3>1. PICK p \in Prompt : p.id = 0 /\ queue' = <<p>> \o queue
      BY <1>1, <2>3, AnswerQueue
    <3>2. Filed(<<p>> \o queue, run.pending, taken, dropped, arrived)
      BY <3>1, RestartFiled, OrderlyParts DEF Orderly, Apart
    <3>3. QED
      BY <2>1, <3>1, <3>2 DEF Orderly, Apart, Waiting
  <2>4. QED
    BY <2>2, <2>3
<1>2. CASE LocalStop
  <2>1. run'.pending = run.pending /\ run.pending = <<>>
    BY <1>2, OrderlyParts DEF LocalStop, Run, Orderly, Waiting
  <2>2. \/ queue' = <<>> /\ dropped' = dropped \cup Ids(queue)
        \/ UNCHANGED <<queue, dropped>>
    BY <1>2 DEF LocalStop
  <2>3. Filed(<<>>, run.pending, taken, dropped \cup Ids(queue), arrived)
    BY QueueDropped, OrderlyParts DEF Orderly, Apart
  <2>4. UNCHANGED <<arrived, taken>>
    BY <1>2 DEF LocalStop
  <2>5. QED
    BY <2>1, <2>2, <2>3, <2>4 DEF Orderly, Apart, Waiting
<1>3. CASE SetPerm
  BY <1>3, SameOrderly DEF SetPerm
<1>4. ASSUME NEW exit, Stop(exit) PROVE Orderly'
  <2>1. run.pc # "launch" /\ UNCHANGED <<queue, arrived, taken, dropped>>
    BY <1>4 DEF Stop
  <2> DEFINE e == IF run.exit = "none" THEN exit ELSE run.exit
             r == [run EXCEPT !.fate = "aborted", !.exit = e]
  <2>2. run' \in {r, [r EXCEPT !.pc = "next"]}
    BY <1>4 DEF Stop
  <2> HIDE DEF e
  <2>3. run'.pending = run.pending
    BY <2>2, OrderlyParts DEF Run
  <2>4. QED
    BY <2>1, <2>3 DEF Orderly, Apart, Waiting
<1>5. CASE LocalEnds
  <2>1. run.pc # "launch" /\ UNCHANGED <<queue, arrived, taken, dropped>>
    BY <1>5 DEF LocalEnds
  <2>2. \E pc : run' = [run EXCEPT !.pc = pc, !.exit = "none", !.fate = "alive"]
    BY <1>5 DEF LocalEnds
  <2>3. run'.pending = run.pending
    BY <2>2, OrderlyParts DEF Run
  <2>4. QED
    BY <2>1, <2>3 DEF Orderly, Apart, Waiting
<1>6. QED
  BY <1>1, <1>2, <1>3, <1>4, <1>5, ReceiveOrderly DEF User, Abort, Switch

LEMMA OrderlyStep ==
    ASSUME TypeOK, Orderly, [Next]_vars
    PROVE  Orderly'
<1>1. CASE Deliver \/ Expire \/ UNCHANGED vars
  BY <1>1, SameOrderly DEF Deliver, Expire, vars
<1>2. QED
  BY <1>1, LauncherOrderly, AgentOrderly, UserOrderly DEF Next

-----------------------------------------------------------------------------
(* Modes *)

(* The process that prompts go to works in the launcher's mode, unless it  *)
(* was started with a prompt that had waited for it.  One that was stopped *)
(* before its first prompt gets none.                                      *)
Matches ==
    run.pc \in {"init", "turn", "next"} =>
        \/ run.relay
        \/ run.proc \in Models /\ run.hash = run.proc /\ (run.pc # "next" => turn.hash = run.proc)
        \/ run.pc = "next" /\ queue = <<>> /\ run.fate = "aborted"

LEMMA RunPart == ASSUME TypeOK PROVE run \in Run /\ turn \in Turn
BY DEF TypeOK

LEMMA EndLaunchMatches ==
    ASSUME TypeOK, NEW thrown, NEW pending, NEW over, EndLaunch(thrown, pending, over)
    PROVE  Matches'
<1>1. Idling \in Run
  BY RunPart DEF Run, Idling
<1>2. run' = [Idling EXCEPT !.pc = CASE run.exit = "none" -> "launch" [] run.exit = "switch" -> "enter" [] OTHER -> "gone",
                            !.pending = IF run.exit = "none" THEN pending ELSE <<>>]
  BY DEF EndLaunch, Relaunched
<1>3. run'.pc \in {"launch", "enter", "gone"}
  BY <1>1, <1>2 DEF Run
<1>4. QED
  BY <1>3 DEF Matches

LEMMA StartMatches ==
    ASSUME TypeOK, NEW b \in Seq(Prompt), b # <<>>, NEW waited \in BOOLEAN, Start(b, waited)
    PROVE  Matches'
<1>1. b[1].hash \in Models
  <2>1. b[1] \in Prompt
    OBVIOUS
  <2>2. QED
    BY <2>1, PromptParts
<1>2. CASE run' = [run EXCEPT !.pc = "launch", !.pending = <<>>]
  <2>1. run'.pc = "launch"
    BY <1>2, RunPart DEF Run
  <2>2. QED
    BY <2>1 DEF Matches
<1>3. CASE /\ turn' = Begun(b)
           /\ run' = [run EXCEPT !.pc = "init", !.pending = <<>>, !.proc = b[1].hash, !.relay = waited,
                                 !.hash = IF waited THEN NoModel ELSE b[1].hash]
  <2>1. turn'.hash = b[1].hash
    BY <1>3 DEF Begun
  <2>2. run'.proc = b[1].hash /\ run'.relay = waited /\ (waited \/ run'.hash = b[1].hash)
    BY <1>3, RunPart DEF Run
  <2>3. QED
    BY <1>1, <2>1, <2>2 DEF Matches
<1>4. QED
  BY <1>2, <1>3 DEF Start

LEMMA LauncherMatches ==
    ASSUME TypeOK, Matches, Launcher
    PROVE  Matches'
<1>1. CASE LaunchPending
  <2>1. run.pending \in Seq(Prompt) /\ run.pending # <<>> /\ Start(run.pending, TRUE)
    BY <1>1, RunPart DEF LaunchPending, Run
  <2>2. QED
    BY <2>1, StartMatches
<1>2. CASE LaunchQueued
  <2>1. queue \in Seq(Prompt) /\ queue # <<>> /\ Start(Batch(queue), FALSE)
    BY <1>2 DEF LaunchQueued, TypeOK
  <2>2. QED
    BY <2>1, StartMatches, BatchAndRest
<1>3. CASE LaunchAlone \/ AwaitPrompt \/ EnterLocal \/ Leave
  <2>1. run'.pc \in {"launch", "first", "local", "leave"}
    BY <1>3, RunPart DEF LaunchAlone, AwaitPrompt, EnterLocal, Leave, Run
  <2>2. QED
    BY <2>1 DEF Matches
<1>4. CASE NextPrompt
  <2> DEFINE b == Batch(queue)
  <2>1. queue \in Seq(Prompt) /\ queue # <<>> /\ run.pc = "next"
    BY <1>4 DEF NextPrompt, TypeOK
  <2>2. \/ EndLaunch(FALSE, b, "silent")
        \/ /\ run.hash # NoModel => b[1].hash = run.hash
           /\ run' = [run EXCEPT !.hash = b[1].hash, !.pc = IF run.fate = "alive" THEN "init" ELSE "turn"]
           /\ turn' = Begun(b)
    BY <1>4 DEF NextPrompt
  <2> HIDE DEF b
  <2>3. CASE /\ run.hash # NoModel => b[1].hash = run.hash
             /\ run' = [run EXCEPT !.hash = b[1].hash, !.pc = IF run.fate = "alive" THEN "init" ELSE "turn"]
             /\ turn' = Begun(b)
    <3>1. turn'.hash = b[1].hash
      BY <2>3 DEF Begun
    <3>2. run'.hash = b[1].hash /\ run'.proc = run.proc /\ run'.relay = run.relay
      BY <2>3, RunPart DEF Run
    <3>3. run.relay \/ (run.proc \in Models /\ run.hash = run.proc)
      BY <2>1 DEF Matches
    <3>4. QED
      BY <2>3, <3>1, <3>2, <3>3, BoundsAssumption DEF Matches
  <2>4. QED
    BY <2>2, <2>3, EndLaunchMatches
<1>5. CASE Perish
  BY <1>5, EndLaunchMatches DEF Perish
<1>6. QED
  BY <1>1, <1>2, <1>3, <1>4, <1>5 DEF Launcher, Launch

(* A step that leaves the process and the mode of the turn as they are. *)
LEMMA SameMatches ==
    ASSUME Matches, run'.proc = run.proc, run'.hash = run.hash, run'.relay = run.relay, turn'.hash = turn.hash,
           \/ run'.pc \notin {"init", "turn", "next"}
           \/ run.pc # "next" /\ run.pc \in {"init", "turn"}
           \/ run.pc = "next" /\ run'.pc = "next" /\ run.fate # "aborted"
           \/ run'.pc = run.pc /\ UNCHANGED queue /\ run'.fate = run.fate
    PROVE  Matches'
BY DEF Matches

LEMMA AnnouncedHash == ASSUME TypeOK PROVE Announced.hash = turn.hash
BY RunPart DEF Announced, Turn

LEMMA AgentMatches ==
    ASSUME TypeOK, Matches, Agent
    PROVE  Matches'
<1>1. CASE FileFound \/ Result
  <2>1. turn'.hash = turn.hash
    BY <1>1, AnnouncedHash DEF FileFound, Result, EndOfTurn
  <2>2. run' \in {[run EXCEPT !.pc = "turn"], [run EXCEPT !.pc = "next"]} /\ run.pc \in {"init", "turn"}
    BY <1>1 DEF FileFound, Result, EndOfTurn, Reading
  <2>3. run'.proc = run.proc /\ run'.hash = run.hash /\ run'.relay = run.relay
    BY <2>2, RunPart DEF Run
  <2>4. QED
    BY <2>1, <2>2, <2>3, SameMatches
<1>2. CASE Crash
  <2>1. UNCHANGED <<turn, queue>> /\ run' = [run EXCEPT !.fate = "crashed"] /\ run.fate = "alive" /\ run.pc \in {"init", "turn", "next"}
    BY <1>2 DEF Crash
  <2>2. run'.pc = run.pc /\ run'.proc = run.proc /\ run'.hash = run.hash /\ run'.relay = run.relay
    BY <2>1, RunPart DEF Run
  <2>3. QED
    BY <2>1, <2>2, SameMatches
<1>3. CASE ToolResult
  <2>1. CASE EndLaunch(FALSE, <<>>, "refused")
    BY <2>1, EndLaunchMatches
  <2>2. CASE UNCHANGED <<run, turn>>
    BY <1>3, <2>2 DEF ToolResult, Matches
  <2>3. QED
    BY <1>3, <2>1, <2>2 DEF ToolResult
<1>4. CASE Say
  <2>1. UNCHANGED <<run, queue>> /\ turn' = [turn EXCEPT !.said = TRUE]
    BY <1>4 DEF Say
  <2>2. turn'.hash = turn.hash
    BY <2>1, RunPart DEF Turn
  <2>3. QED
    BY <2>1, <2>2, SameMatches
<1>5. CASE Use \/ UsePlan \/ Ask \/ EarlyAsk \/ LateAsk
  BY <1>5 DEF Use, UsePlan, Ask, EarlyAsk, LateAsk, Matches
<1>6. QED
  BY <1>1, <1>2, <1>3, <1>4, <1>5 DEF Agent

LEMMA UserMatches ==
    ASSUME TypeOK, Matches, User
    PROVE  Matches'
<1>1. CASE Receive
  <2>1. run' \in {run, [run EXCEPT !.exit = "switch", !.fate = "aborted"]} /\ (run.pc # "local" => UNCHANGED run)
    BY <1>1 DEF Receive
  <2>2. run'.pc = run.pc /\ run'.proc = run.proc /\ run'.hash = run.hash /\ run'.relay = run.relay
    BY <2>1, RunPart DEF Run
  <2>3. run.pc = "next" => run.fate # "aborted"
    BY <1>1 DEF Receive, Settled
  <2>4. UNCHANGED turn
    BY <1>1 DEF Receive
  <2>5. QED
    BY <2>2, <2>3, <2>4, SameMatches
<1>2. CASE Answer
  <2>1. UNCHANGED <<run, turn>> /\ (run.pc = "next" => run.fate # "aborted")
    BY <1>2 DEF Answer, Settled
  <2>2. QED
    BY <2>1, SameMatches
<1>3. CASE SetPerm
  BY <1>3 DEF SetPerm, Matches
<1>4. ASSUME NEW exit, Stop(exit) PROVE Matches'
  <2> DEFINE e == IF run.exit = "none" THEN exit ELSE run.exit
             r == [run EXCEPT !.fate = "aborted", !.exit = e]
  <2>1. run' = (IF run.pc = "first" THEN [r EXCEPT !.pc = "next"] ELSE r) /\ UNCHANGED <<queue, turn>> /\ Settled
    BY <1>4 DEF Stop
  <2> HIDE DEF e
  <2>2. /\ run'.proc = run.proc /\ run'.hash = run.hash /\ run'.relay = run.relay /\ run'.fate = "aborted"
        /\ run'.pc = IF run.pc = "first" THEN "next" ELSE run.pc
    BY <2>1, RunPart DEF Run
  <2>3. CASE run.pc \in {"first", "next"}
    <3>1. queue' = <<>> /\ run'.pc = "next"
      BY <2>1, <2>2, <2>3 DEF Settled
    <3>2. QED
      BY <2>2, <3>1 DEF Matches
  <2>4. CASE run.pc \notin {"first", "next"}
    BY <2>1, <2>2, <2>4, SameMatches
  <2>5. QED
    BY <2>3, <2>4
<1>5. CASE LocalStop
  <2>1. run'.pc = "local"
    BY <1>5, RunPart DEF LocalStop, Run
  <2>2. QED
    BY <2>1 DEF Matches
<1>6. CASE LocalEnds
  <2>1. \E pc \in {"gone", "leave"} : run' = [run EXCEPT !.pc = pc, !.exit = "none", !.fate = "alive"]
    BY <1>6 DEF LocalEnds
  <2>2. run'.pc \in {"gone", "leave"}
    BY <2>1, RunPart DEF Run
  <2>3. QED
    BY <2>2 DEF Matches
<1>7. QED
  BY <1>1, <1>2, <1>3, <1>4, <1>5, <1>6 DEF User, Abort, Switch

LEMMA MatchesStep ==
    ASSUME TypeOK, Matches, [Next]_vars
    PROVE  Matches'
<1>1. CASE Deliver
  <2>1. UNCHANGED <<run, queue>> /\ \E reply : turn' = [turn EXCEPT !.reply = reply]
    BY <1>1 DEF Deliver
  <2>2. turn'.hash = turn.hash
    BY <2>1, RunPart DEF Turn
  <2>3. QED
    BY <2>1, <2>2, SameMatches
<1>2. CASE Expire \/ UNCHANGED vars
  BY <1>2 DEF Expire, vars, Matches
<1>3. QED
  BY <1>1, <1>2, LauncherMatches, AgentMatches, UserMatches DEF Next

-----------------------------------------------------------------------------
(* Turns *)

(* A turn is open from its prompt on until the launcher looks for the next *)
(* one and finds none, or the launch ends.  Only a launch that ends for a  *)
(* prompt that it could not serve leaves one without a word.               *)
Tells ==
    /\ turn.live <=> turn.over = "open"
    /\ run.pc \in {"init", "turn"} => turn.live
    /\ turn.live => run.pc \in {"init", "turn"} \/ (run.pc = "next" /\ queue # <<>>)
    /\ turn.over = "silent" => run.pc = "launch" /\ run.pending # <<>>

HasText(o) == \E i \in DOMAIN o.items : o.items[i].kind = "text"

Told == Tells /\ (turn.live /\ turn.said => turn.reply \/ HasText(out))

LEMMA FinishedParts ==
    ASSUME TypeOK, Tells, NEW thrown, NEW over \in {"silent", "refused"}
    PROVE  LET t == Finished(thrown, over)
           IN /\ t.live = FALSE /\ t.over # "open"
              /\ t.over = "silent" => \/ turn.over = "silent"
                                      \/ over = "silent" /\ run.exit = "none" /\ ~thrown /\ run.fate # "aborted"
<1> DEFINE ready == run.exit = "none" /\ (thrown \/ run.fate = "aborted")
           last == IF ready THEN Announced ELSE turn
           end == IF run.exit = "none" THEN over ELSE "left"
<1>1. Finished(thrown, over) = IF last.live THEN [last EXCEPT !.live = FALSE, !.over = end] ELSE last
  BY DEF Finished
<1>2. last \in Turn
  BY AnnouncedTyped, RunPart
<1>3. /\ last.live => turn.live /\ ~ready
      /\ last.over \in {turn.over, "announced"} /\ (last.over = "open" => last.live)
  BY RunPart DEF Announced, Turn, Tells
<1>4. end # "open" /\ (end = "silent" => over = "silent" /\ run.exit = "none")
  OBVIOUS
<1> HIDE DEF last, end
<1>5. CASE last.live
  <2>1. Finished(thrown, over).live = FALSE /\ Finished(thrown, over).over = end
    BY <1>1, <1>2, <1>5 DEF Turn
  <2>2. QED
    BY <1>3, <1>4, <1>5, <2>1
<1>6. CASE ~last.live
  <2>1. Finished(thrown, over) = last /\ last.live = FALSE
    BY <1>1, <1>2, <1>6 DEF Turn
  <2>2. QED
    BY <1>3, <1>6, <2>1
<1>7. QED
  BY <1>5, <1>6

LEMMA EndLaunchTold ==
    ASSUME TypeOK, Told, NEW thrown, NEW pending \in Seq(Prompt), NEW over \in {"silent", "refused"},
           EndLaunch(thrown, pending, over), run.pc # "launch",
           over = "refused" \/ thrown \/ run.fate = "aborted" \/ pending # <<>>
    PROVE  Told'
<1>1. turn' = Finished(thrown, over)
  BY DEF EndLaunch
<1>2. /\ turn'.live = FALSE /\ turn'.over # "open"
      /\ turn'.over = "silent" => run.exit = "none" /\ pending # <<>>
  BY <1>1, FinishedParts DEF Told, Tells
<1>3. /\ run'.pc \in {"launch", "enter", "gone"}
      /\ run.exit = "none" => run'.pc = "launch" /\ run'.pending = pending
  <2>1. Idling \in Run
    BY RunPart, EmptyQueue DEF Run, Idling
  <2>2. run' = [Idling EXCEPT !.pc = CASE run.exit = "none" -> "launch" [] run.exit = "switch" -> "enter" [] OTHER -> "gone",
                              !.pending = IF run.exit = "none" THEN pending ELSE <<>>]
    BY DEF EndLaunch, Relaunched
  <2>3. QED
    BY <2>1, <2>2 DEF Run
<1>4. QED
  BY <1>2, <1>3 DEF Told, Tells

LEMMA BegunParts ==
    ASSUME NEW b
    PROVE  Begun(b).live = TRUE /\ Begun(b).said = FALSE /\ Begun(b).over = "open"
BY DEF Begun

LEMMA StartTold ==
    ASSUME TypeOK, NEW b \in Seq(Prompt), b # <<>>, NEW waited, Start(b, waited)
    PROVE  Told'
<1> DEFINE begun == Begun(b)
<1>1. begun \in Turn /\ begun.live = TRUE /\ begun.said = FALSE /\ begun.over = "open"
  BY BegunTyped, BegunParts
<1>2. \/ turn' = [begun EXCEPT !.live = FALSE, !.over = "cleared"] /\ run' = [run EXCEPT !.pc = "launch", !.pending = <<>>]
      \/ /\ turn' = begun
         /\ run' = [run EXCEPT !.pc = "init", !.pending = <<>>, !.proc = b[1].hash, !.relay = waited,
                               !.hash = IF waited THEN NoModel ELSE b[1].hash]
  BY DEF Start
<1> HIDE DEF begun
<1>3. \/ turn'.live = FALSE /\ turn'.over = "cleared" /\ run'.pc = "launch"
      \/ turn'.live = TRUE /\ turn'.said = FALSE /\ turn'.over = "open" /\ run'.pc = "init"
  BY <1>1, <1>2, RunPart DEF Turn, Run
<1>4. QED
  BY <1>3 DEF Told, Tells

LEMMA LauncherTold ==
    ASSUME TypeOK, Told, Launcher
    PROVE  Told'
<1>1. CASE LaunchPending
  <2>1. run.pending \in Seq(Prompt) /\ run.pending # <<>> /\ Start(run.pending, TRUE)
    BY <1>1, RunPart DEF LaunchPending, Run
  <2>2. QED
    BY <2>1, StartTold
<1>2. CASE LaunchQueued
  <2>1. queue \in Seq(Prompt) /\ queue # <<>> /\ Start(Batch(queue), FALSE)
    BY <1>2 DEF LaunchQueued, TypeOK
  <2>2. QED
    BY <2>1, StartTold, BatchAndRest
<1>3. CASE LaunchAlone \/ AwaitPrompt \/ EnterLocal \/ Leave
  <2>1. run.pc \in {"launch", "first", "enter", "leave"} /\ run'.pc \in {"launch", "first", "local", "leave"} /\ UNCHANGED turn
    BY <1>3, RunPart DEF LaunchAlone, AwaitPrompt, EnterLocal, Leave, Launching, Run
  <2>2. run.pc = "launch" => run.pending = <<>>
    BY <1>3 DEF LaunchAlone, AwaitPrompt, EnterLocal, Leave
  <2>3. ~turn.live /\ turn.over # "silent"
    BY <2>1, <2>2 DEF Told, Tells
  <2>4. QED
    BY <2>1, <2>3 DEF Told, Tells
<1>4. CASE NextPrompt
  <2> DEFINE b == Batch(queue)
  <2>1. queue \in Seq(Prompt) /\ queue # <<>> /\ run.pc = "next"
    BY <1>4 DEF NextPrompt, TypeOK
  <2>2. b \in Seq(Prompt) /\ b # <<>>
    BY <2>1, BatchAndRest
  <2>3. \/ EndLaunch(FALSE, b, "silent")
        \/ /\ run' = [run EXCEPT !.hash = b[1].hash, !.pc = IF run.fate = "alive" THEN "init" ELSE "turn"]
           /\ turn' = Begun(b)
    BY <1>4 DEF NextPrompt
  <2> HIDE DEF b
  <2>4. CASE /\ run' = [run EXCEPT !.hash = b[1].hash, !.pc = IF run.fate = "alive" THEN "init" ELSE "turn"]
             /\ turn' = Begun(b)
    <3>1. run'.pc \in {"init", "turn"}
      BY <2>4, RunPart DEF Run
    <3>2. turn'.live = TRUE /\ turn'.said = FALSE /\ turn'.over = "open"
      BY <2>4, BegunParts
    <3>3. QED
      BY <3>1, <3>2 DEF Told, Tells
  <2>5. QED
    BY <2>1, <2>2, <2>3, <2>4, EndLaunchTold
<1>5. CASE Perish
  <2>1. run.pc # "launch" /\ <<>> \in Seq(Prompt)
    BY <1>5, EmptyQueue DEF Perish
  <2>2. EndLaunch(TRUE, <<>>, "silent") \/ (run.fate = "aborted" /\ EndLaunch(FALSE, <<>>, "silent"))
    BY <1>5 DEF Perish
  <2>3. QED
    BY <2>1, <2>2, EndLaunchTold
<1>6. QED
  BY <1>1, <1>2, <1>3, <1>4, <1>5 DEF Launcher, Launch

(* A step that leaves the turn alone, and no text unsent. *)
LEMMA SameTold ==
    ASSUME Told, UNCHANGED turn, HasText(out) => HasText(out)',
           run'.pending = run.pending,
           run'.pc = run.pc \/ (~turn.live /\ run'.pc \notin {"init", "turn"} /\ run.pc # "launch") \/ (run.pc = "init" /\ run'.pc = "turn"),
           run.pc = "next" => (queue' = <<>> => queue = <<>>)
    PROVE  Told'
BY DEF Told, Tells

LEMMA SendsText ==
    ASSUME NEW o \in Out, NEW kind, NEW c, NEW held
    PROVE  HasText(o) \/ kind = "text" => HasText(Sends(o, kind, c, held))
<1> DEFINE items == o.items
           x == [kind |-> kind, call |-> c, held |-> held]
           more == Append(items, x)
<1>1. items \in Seq(Item) /\ Len(items) \in Nat /\ DOMAIN items = 1..Len(items)
  BY DEF Out
<1>2. Sends(o, kind, c, held).items = more
  BY DEF Sends
<1>3. x.kind = kind
  OBVIOUS
<1> HIDE DEF items, x
<1>4. DOMAIN more = 1..(Len(items) + 1) /\ more[Len(items) + 1] = x /\ \A i \in 1..Len(items) : more[i] = items[i]
  BY <1>1
<1>5. ASSUME NEW i \in DOMAIN items PROVE i \in DOMAIN more /\ more[i] = items[i]
  BY <1>1, <1>4
<1>6. Len(items) + 1 \in DOMAIN more
  BY <1>1, <1>4
<1> HIDE DEF more
<1>7. QED
  BY <1>2, <1>3, <1>4, <1>5, <1>6 DEF HasText, items

LEMMA FreedText ==
    ASSUME NEW o \in Out, NEW c
    PROVE  HasText(o) => HasText(Freed(o, c))
<1> DEFINE items == o.items
           free == [i \in DOMAIN items |-> IF items[i].call = c THEN [items[i] EXCEPT !.held = FALSE] ELSE items[i]]
<1>1. \A i \in DOMAIN items : items[i] \in Item
  BY DEF Out
<1>2. Freed(o, c).items = free
  BY DEF Freed
<1> HIDE DEF items
<1>3. ASSUME NEW i \in DOMAIN items PROVE i \in DOMAIN free /\ free[i].kind = items[i].kind
  BY <1>1 DEF Item
<1> HIDE DEF free
<1>4. QED
  BY <1>2, <1>3 DEF HasText, items

LEMMA EndOfTurnTold ==
    ASSUME TypeOK, Told, EndOfTurn, UNCHANGED <<queue, out>>, run.pc \in {"init", "turn"}
    PROVE  Told'
<1>1. run'.pc = "next" /\ run.pc # "launch"
  BY RunPart DEF EndOfTurn, Run
<1>2. turn.live /\ turn.over = "open"
  BY DEF Told, Tells
<1>3. CASE queue = <<>>
  <2>1. turn' = [turn EXCEPT !.live = FALSE, !.over = "announced"]
    BY <1>2, <1>3 DEF EndOfTurn, Announced
  <2>2. turn'.live = FALSE /\ turn'.over = "announced"
    BY <2>1, RunPart DEF Turn
  <2>3. QED
    BY <1>1, <2>2 DEF Told, Tells
<1>4. CASE queue # <<>>
  <2>1. UNCHANGED turn
    BY <1>4 DEF EndOfTurn
  <2>2. HasText(out) => HasText(out)'
    BY DEF HasText
  <2>3. QED
    BY <1>1, <1>2, <1>4, <2>1, <2>2 DEF Told, Tells
<1>5. QED
  BY <1>3, <1>4

LEMMA AgentTold ==
    ASSUME TypeOK, Told, Agent
    PROVE  Told'
<1>0. out \in Out
  BY DEF TypeOK
<1>1. CASE FileFound
  <2>1. run.pc = "init" /\ UNCHANGED queue
    BY <1>1 DEF FileFound
  <2>2. CASE EndOfTurn /\ UNCHANGED out
    BY <2>1, <2>2, EndOfTurnTold
  <2>3. CASE /\ run' = [run EXCEPT !.pc = "turn"] /\ UNCHANGED turn
             /\ UNCHANGED out \/ \E held \in BOOLEAN : Calls(call.late, held)
    <3>1. run'.pc = "turn" /\ run'.pending = run.pending
      BY <2>3, RunPart DEF Run
    <3>2. HasText(out) => HasText(out)'
      BY <1>0, <2>3, SendsText DEF Calls, HasText
    <3>3. QED
      BY <2>1, <2>3, <3>1, <3>2, SameTold
  <2>4. QED
    BY <1>1, <2>2, <2>3 DEF FileFound
<1>2. CASE Result
  BY <1>2, EndOfTurnTold DEF Result, Reading
<1>3. CASE Crash
  <2>1. run' = [run EXCEPT !.fate = "crashed"] /\ UNCHANGED <<turn, out, queue>>
    BY <1>3 DEF Crash
  <2>2. run'.pc = run.pc /\ run'.pending = run.pending
    BY <2>1, RunPart DEF Run
  <2>3. QED
    BY <2>1, <2>2, SameTold DEF HasText
<1>4. CASE Say
  <2>1. turn' = [turn EXCEPT !.said = TRUE] /\ out' = Sends(out, "text", NoCall, FALSE) /\ UNCHANGED <<run, queue>>
    BY <1>4 DEF Say
  <2>2. turn'.live = turn.live /\ turn'.over = turn.over
    BY <2>1, RunPart DEF Turn
  <2>3. HasText(out')
    BY <1>0, <2>1, SendsText
  <2>4. QED
    BY <2>1, <2>2, <2>3 DEF Told, Tells, HasText
<1>5. CASE Use \/ UsePlan \/ Ask \/ EarlyAsk \/ LateAsk
  <2>1. UNCHANGED <<run, turn, queue>>
    BY <1>5 DEF Use, UsePlan, Ask, EarlyAsk, LateAsk
  <2>2. \/ UNCHANGED out
        \/ \E kind, c, held : out' = Sends(out, kind, c, held)
        \/ \E c : out' = Freed(out, c)
    BY <1>5 DEF Use, UsePlan, Calls, Ask, EarlyAsk, LateAsk, Asked
  <2>3. HasText(out) => HasText(out')
    BY <1>0, <2>2, SendsText, FreedText
  <2>4. QED
    BY <2>1, <2>3, SameTold DEF HasText
<1>6. CASE ToolResult
  <2>1. run.pc = "turn" /\ UNCHANGED queue /\ <<>> \in Seq(Prompt)
    BY <1>6, EmptyQueue DEF ToolResult, Reading
  <2>2. CASE EndLaunch(FALSE, <<>>, "refused")
    BY <2>1, <2>2, EndLaunchTold
  <2>3. CASE UNCHANGED <<run, turn>> /\ \E c : out' = Sends(Freed(out, c), "result", c, FALSE)
    <3>1. HasText(out) => HasText(out')
      BY <1>0, <2>3, FreedTyped, FreedText, SendsText
    <3>2. QED
      BY <2>1, <2>3, <3>1, SameTold DEF HasText
  <2>4. QED
    BY <1>6, <2>2, <2>3 DEF ToolResult
<1>7. QED
  BY <1>1, <1>2, <1>3, <1>4, <1>5, <1>6 DEF Agent

LEMMA UserTold ==
    ASSUME TypeOK, Told, User
    PROVE  Told'
<1>1. UNCHANGED <<turn, out>>
  BY DEF User, Receive, Answer, SetPerm, Abort, Switch, Stop, LocalStop, LocalEnds
<1>2. HasText(out) => HasText(out)'
  BY <1>1 DEF HasText
<1>3. CASE Receive
  <2>1. run' \in {run, [run EXCEPT !.exit = "switch", !.fate = "aborted"]}
    BY <1>3 DEF Receive
  <2>2. run'.pc = run.pc /\ run'.pending = run.pending
    BY <2>1, RunPart DEF Run
  <2>3. queue' # <<>>
    <3>1. \E p : queue' = Push(p)
      BY <1>3 DEF Receive
    <3>2. QED
      BY <3>1 DEF Push, TypeOK
  <2>4. QED
    BY <1>1, <1>2, <2>2, <2>3, SameTold
<1>4. CASE Answer
  <2>1. UNCHANGED run
    BY <1>4 DEF Answer
  <2>2. queue' = queue \/ \E p \in Prompt : queue' = <<p>> \o queue
    BY <1>4, AnswerQueue
  <2>3. queue' = <<>> => queue = <<>>
    BY <2>2, InFront DEF TypeOK
  <2>4. QED
    BY <1>1, <1>2, <2>1, <2>3, SameTold
<1>5. CASE SetPerm
  BY <1>1, <1>2, <1>5, SameTold DEF SetPerm
<1>6. ASSUME NEW exit, Stop(exit) PROVE Told'
  <2> DEFINE e == IF run.exit = "none" THEN exit ELSE run.exit
             r == [run EXCEPT !.fate = "aborted", !.exit = e]
  <2>1. run' = (IF run.pc = "first" THEN [r EXCEPT !.pc = "next"] ELSE r) /\ UNCHANGED queue
    BY <1>6 DEF Stop
  <2> HIDE DEF e
  <2>2. run'.pending = run.pending /\ run'.pc = IF run.pc = "first" THEN "next" ELSE run.pc
    BY <2>1, RunPart DEF Run
  <2>3. run.pc = "first" => ~turn.live
    BY DEF Told, Tells
  <2>4. QED
    BY <1>1, <1>2, <2>1, <2>2, <2>3, SameTold
<1>7. CASE LocalStop
  <2>1. run.pc = "local" /\ run' = [run EXCEPT !.exit = "switch", !.fate = "aborted"]
    BY <1>7 DEF LocalStop
  <2>2. run'.pc = run.pc /\ run'.pending = run.pending
    BY <2>1, RunPart DEF Run
  <2>3. QED
    BY <1>1, <1>2, <2>1, <2>2, SameTold
<1>8. CASE LocalEnds
  <2>1. run.pc = "local" /\ \E pc \in {"gone", "leave"} : run' = [run EXCEPT !.pc = pc, !.exit = "none", !.fate = "alive"]
    BY <1>8 DEF LocalEnds
  <2>2. run'.pc \in {"gone", "leave"} /\ run'.pending = run.pending
    BY <2>1, RunPart DEF Run
  <2>3. ~turn.live
    BY <2>1 DEF Told, Tells
  <2>4. QED
    BY <1>1, <1>2, <2>1, <2>2, <2>3, SameTold
<1>9. QED
  BY <1>3, <1>4, <1>5, <1>6, <1>7, <1>8 DEF User, Abort, Switch

(* What is sent is the reply, and what is held back still waits. *)
LEMMA OutTold ==
    ASSUME TypeOK, Told, Deliver \/ Expire
    PROVE  Told'
<1> DEFINE items == out.items
<1>1. items \in Seq(Item) /\ Len(items) \in Nat /\ DOMAIN items = 1..Len(items)
  BY DEF TypeOK, Out
<1>2. CASE Deliver
  <2> DEFINE n == Ahead(items)
             texts == {i \in 1..n : items[i].kind = "text"}
             left == SubSeq(items, n + 1, Len(items))
  <2>1. /\ out'.items = left /\ UNCHANGED <<run, queue>>
        /\ turn' = [turn EXCEPT !.reply = turn.reply \/ (turn.live /\ texts # {})]
    BY <1>2 DEF Deliver, Ahead
  <2>2. n \in 0..Len(items)
    BY <1>1, AheadBounded
  <2> HIDE DEF n, items
  <2>3. DOMAIN left = 1..(Len(items) - n) /\ \A i \in 1..(Len(items) - n) : left[i] = items[n + i]
    BY <1>1, <2>2, SubSeqProperties
  <2>4. ASSUME NEW i \in DOMAIN items, items[i].kind = "text"
        PROVE  texts # {} \/ \E j \in DOMAIN left : left[j].kind = "text"
    <3>1. CASE i <= n
      BY <1>1, <2>2, <2>4, <3>1
    <3>2. CASE i > n
      <4>1. i - n \in 1..(Len(items) - n) /\ n + (i - n) = i
        BY <1>1, <2>2, <3>2
      <4>2. QED
        BY <2>3, <2>4, <4>1
    <3>3. QED
      BY <1>1, <2>2, <3>1, <3>2
  <2> HIDE DEF left, texts
  <2>5. HasText(out) => texts # {} \/ HasText(out')
    BY <2>1, <2>4 DEF HasText, items
  <2>6. /\ turn'.live = turn.live /\ turn'.said = turn.said /\ turn'.over = turn.over
        /\ turn'.reply = (turn.reply \/ (turn.live /\ texts # {}))
    BY <2>1, RunPart DEF Turn
  <2>7. QED
    BY <2>1, <2>5, <2>6 DEF Told, Tells, HasText
<1>3. CASE Expire
  <2>1. PICK i \in DOMAIN items : out' = [items |-> [items EXCEPT ![i].held = FALSE], armed |-> TRUE]
    BY <1>3 DEF Expire
  <2> HIDE DEF items
  <2> DEFINE held == [items EXCEPT ![i].held = FALSE]
  <2>2. DOMAIN held = DOMAIN items /\ \A j \in DOMAIN items : held[j].kind = items[j].kind
    BY <1>1 DEF Item
  <2>3. out'.items = held
    BY <2>1
  <2> HIDE DEF held
  <2>4. HasText(out) => HasText(out')
    BY <2>2, <2>3 DEF HasText, items
  <2>5. UNCHANGED <<run, turn, queue>>
    BY <1>3 DEF Expire
  <2>6. QED
    BY <2>4, <2>5, SameTold DEF HasText
<1>4. QED
  BY <1>2, <1>3

LEMMA ToldStep ==
    ASSUME TypeOK, Told, [Next]_vars
    PROVE  Told'
<1>1. CASE UNCHANGED vars
  BY <1>1 DEF vars, Told, Tells, HasText
<1>2. QED
  BY <1>1, LauncherTold, AgentTold, UserTold, OutTold DEF Next

-----------------------------------------------------------------------------
(* The invariant, and what follows *)

Inv == TypeOK /\ Attentive /\ Orderly /\ Matches /\ Told

LEMMA AgentInit == Init => Inv
<1> SUFFICES ASSUME Init PROVE Inv
  OBVIOUS
<1>1. run = [pc |-> IF "local" \in scene THEN "enter" ELSE "launch", pending |-> <<>>,
             hash |-> NoModel, proc |-> NoModel, relay |-> FALSE, fate |-> "alive", exit |-> "none"]
  BY DEF Init
<1>2. run \in Run
  BY <1>1, EmptyQueue DEF Run
<1>3. TypeOK
  <2>1. turn \in Turn
    BY DEF Init, NoTurn, Turn
  <2>2. call \in Calling
    BY BoundsAssumption DEF Init, Calling, NoCall
  <2>3. out \in Out
    BY DEF Init, Out
  <2>4. arrived \in 0..MaxPrompts /\ queue \in Seq(Prompt) /\ perm \in Perms
    BY EmptyQueue, BoundsAssumption DEF Init, Perms
  <2>5. QED
    BY <1>2, <2>1, <2>2, <2>3, <2>4 DEF Init, TypeOK
<1>4. Attentive
  BY DEF Init, Attentive, Tracks, ShownIsAsked, NoCall
<1>5. Orderly
  BY <1>1, EmptyQueue DEF Init, Orderly, Waiting, Apart, Filed, Ascends, Before
<1>6. Matches
  BY <1>1 DEF Matches
<1>7. Told
  BY <1>1 DEF Init, NoTurn, Told, Tells
<1>8. QED
  BY <1>3, <1>4, <1>5, <1>6, <1>7 DEF Inv

LEMMA AgentStep == Inv /\ [Next]_vars => Inv'
BY TypeStep, AttentiveStep, OrderlyStep, MatchesStep, ToldStep DEF Inv, Orderly

(* The invariant holds: the parts about types, permissions, prompts, modes *)
(* and turns.                                                              *)
THEOREM AgentInvariant == Spec => []Inv
BY AgentInit, AgentStep, PTL DEF Spec

(* The values are of their types: also no call, prompt or turn of the      *)
(* launcher has a number beyond the bounds.                                *)
THEOREM AgentTypeCorrect == Spec => []TypeOK
<1>1. Inv => TypeOK
  BY DEF Inv
<1>2. QED
  BY <1>1, AgentInvariant, PTL

(* A request is in the agent state exactly while its process waits for the *)
(* answer: permissionHandler.ts asks, answers and cancels in one step each.*)
THEOREM AgentShownIsAsked == Spec => []ShownIsAsked
<1>1. Inv => ShownIsAsked
  BY DEF Inv, Attentive
<1>2. QED
  BY <1>1, AgentInvariant, PTL

(* A process gets the prompts of its own mode only, however they mix.      *)
THEOREM AgentModeOfProcess == Spec => []ModeOfProcess
<1>1. Inv => ModeOfProcess
  BY DEF Inv, Matches, ModeOfProcess
<1>2. QED
  BY <1>1, AgentInvariant, PTL

(* No prompt is lost or handed over twice.                                 *)
THEOREM AgentPromptsAccounted == Spec => []PromptsAccounted
<1>1. ASSUME Inv PROVE PromptsAccounted
  <2> DEFINE pending == run.pending
             waiting == queue \o pending
  <2>1. queue \in Seq(Prompt) /\ pending \in Seq(Prompt) /\ taken \subseteq Nat
    BY <1>1, OrderlyParts DEF Inv
  <2>2. Filed(queue, pending, taken, dropped, arrived)
    BY <1>1 DEF Inv, Orderly, Apart
  <2>3. Ids(waiting) = Ids(queue) \cup Ids(pending)
    BY <2>1, ConcatQueue
  <2>4. Ids(waiting) \cap taken = {}
    <3>1. \A m \in taken, n \in Ids(queue) \cup Ids(pending) : m < n /\ m \in Nat
      BY <2>1, <2>2 DEF Filed, Before
    <3>2. QED
      BY <2>3, <3>1
  <2>5. (Ids(waiting) \cup taken) \cap dropped = {} /\ Ids(waiting) \cup taken \cup dropped = 1..arrived
    BY <2>2, <2>3 DEF Filed
  <2>6. \A i, j \in DOMAIN waiting : i # j /\ waiting[i].id # 0 => waiting[i].id # waiting[j].id
    <3>1. /\ Len(queue) \in Nat /\ DOMAIN queue = 1..Len(queue) /\ \A i \in DOMAIN queue : queue[i] \in Prompt
          /\ Len(pending) \in Nat /\ DOMAIN pending = 1..Len(pending) /\ \A i \in DOMAIN pending : pending[i] \in Prompt
      BY <2>1, SeqParts
    <3>2. /\ waiting \in Seq(Prompt) /\ Len(waiting) = Len(queue) + Len(pending)
          /\ \A i \in 1..Len(queue) + Len(pending) : waiting[i] = IF i <= Len(queue) THEN queue[i] ELSE pending[i - Len(queue)]
      BY <2>1, ConcatProperties
    <3>3. DOMAIN waiting = 1..Len(queue) + Len(pending)
      BY <3>2, SeqParts
    <3> HIDE DEF waiting, pending
    <3>4. ASSUME NEW i \in DOMAIN waiting, NEW j \in DOMAIN waiting, i < j, waiting[i].id # 0
          PROVE  waiting[i].id # waiting[j].id
      <4>1. CASE j <= Len(queue)
        <5>1. i \in DOMAIN queue /\ j \in DOMAIN queue /\ waiting[i] = queue[i] /\ waiting[j] = queue[j]
          BY <3>1, <3>2, <3>3, <3>4, <4>1
        <5>2. queue[i].id \in Nat /\ queue[j].id \in Nat
          BY <3>1, <5>1, PromptParts
        <5>3. j \in Nums(queue) => queue[i].id < queue[j].id
          BY <2>2, <3>4, <5>1 DEF Filed, Ascends, Nums
        <5>4. QED
          BY <3>4, <5>1, <5>2, <5>3 DEF Nums
      <4>2. CASE i > Len(queue)
        <5> DEFINE k == i - Len(queue)
                   l == j - Len(queue)
        <5>1. k \in DOMAIN pending /\ l \in DOMAIN pending /\ k < l /\ waiting[i] = pending[k] /\ waiting[j] = pending[l]
          BY <3>1, <3>2, <3>3, <3>4, <4>2
        <5> HIDE DEF k, l
        <5>2. pending[k].id \in Nat /\ pending[l].id \in Nat
          BY <3>1, <5>1, PromptParts
        <5>3. l \in Nums(pending) => pending[k].id < pending[l].id
          BY <2>2, <3>4, <5>1 DEF Filed, Ascends, Nums
        <5>4. QED
          BY <3>4, <5>1, <5>2, <5>3 DEF Nums
      <4>3. CASE i <= Len(queue) /\ j > Len(queue)
        <5> DEFINE l == j - Len(queue)
        <5>1. i \in DOMAIN queue /\ l \in DOMAIN pending /\ waiting[i] = queue[i] /\ waiting[j] = pending[l]
          BY <3>1, <3>2, <3>3, <3>4, <4>3
        <5> HIDE DEF l
        <5>2. queue[i].id \in Nat /\ pending[l].id \in Nat
          BY <3>1, <5>1, PromptParts
        <5>3. queue[i].id \in Ids(queue)
          BY <3>4, <5>1, IdsAre DEF Nums
        <5>4. pending[l].id # 0 => pending[l].id \in Ids(pending)
          BY <5>1, IdsAre DEF Nums
        <5>5. pending[l].id # 0 => pending[l].id < queue[i].id
          BY <2>2, <5>3, <5>4 DEF Filed, Before
        <5>6. QED
          BY <3>4, <5>1, <5>2, <5>5
      <4>4. QED
        BY <3>1, <3>3, <4>1, <4>2, <4>3
    <3>5. ASSUME NEW i \in DOMAIN waiting, NEW j \in DOMAIN waiting, i # j, waiting[i].id # 0
          PROVE  waiting[i].id # waiting[j].id
      <4>1. i < j \/ j < i
        BY <3>1, <3>3, <3>5
      <4>2. QED
        BY <3>4, <3>5, <4>1
    <3>6. QED
      BY <3>5
  <2>7. QED
    BY <2>4, <2>5, <2>6 DEF PromptsAccounted
<1>2. QED
  BY <1>1, AgentInvariant, PTL

(* What the hub hears of a turn is true, whatever ends it.                 *)
THEOREM AgentTurnReported == Spec => []TurnReported
<1>1. ASSUME Inv PROVE TurnReported
  <2>1. turn \in Turn /\ Tells /\ (turn.live /\ turn.said => turn.reply \/ HasText(out))
    BY <1>1 DEF Inv, TypeOK, Told
  <2>2. IdleIsAnnounced
    BY <2>1 DEF Tells, Turn, IdleIsAnnounced, Idle
  <2>3. ReplyCounted
    BY <2>1 DEF ReplyCounted, HasText
  <2>4. QED
    BY <2>2, <2>3 DEF TurnReported
<1>2. QED
  BY <1>1, AgentInvariant, PTL

(* What is handed over had waited, in the queue or as the pending batch.   *)
LEMMA TakenWaited ==
    ASSUME TypeOK, [Next]_vars
    PROVE  taken' \subseteq taken \cup Ids(queue) \cup Ids(run.pending)
<1>1. CASE LaunchPending
  BY <1>1, StartPending DEF LaunchPending
<1>2. CASE LaunchQueued
  <2>1. queue \in Seq(Prompt) /\ queue # <<>> /\ taken' = taken \cup Ids(Batch(queue))
    BY <1>2, StartPending DEF LaunchQueued, TypeOK
  <2>2. QED
    BY <2>1, BatchAndRest
<1>3. CASE NextPrompt
  <2>1. queue \in Seq(Prompt) /\ queue # <<>> /\ taken' \in {taken, taken \cup Ids(Batch(queue))}
    BY <1>3 DEF NextPrompt, TypeOK
  <2>2. QED
    BY <2>1, BatchAndRest
<1>4. CASE UNCHANGED taken
  BY <1>4
<1>5. CASE Launcher
  BY <1>1, <1>2, <1>3, <1>4, <1>5 DEF Launcher, Launch, LaunchAlone, AwaitPrompt, Perish, EnterLocal, Leave
<1>6. CASE Agent
  BY <1>4, <1>6 DEF Agent, FileFound, Say, Use, UsePlan, Ask, EarlyAsk, LateAsk, ToolResult, Result, Crash
<1>7. CASE User
  BY <1>4, <1>7 DEF User, Receive, Answer, SetPerm, Abort, Switch, Stop, LocalStop, LocalEnds
<1>8. CASE Deliver \/ Expire \/ UNCHANGED vars
  BY <1>4, <1>8 DEF Deliver, Expire, vars
<1>9. QED
  BY <1>5, <1>6, <1>7, <1>8 DEF Next

(* Prompts are handed over in the order in which they arrived, also those  *)
(* that waited for a process of their mode.                                *)
THEOREM AgentTakenInOrder == Spec => TakenInOrder
<1> DEFINE A == \A i \in taken' \ taken, j \in taken : j < i
<1>1. ASSUME Inv, [Next]_vars PROVE A
  <2>1. Filed(queue, run.pending, taken, dropped, arrived)
    BY <1>1 DEF Inv, Orderly, Apart
  <2>2. taken' \subseteq taken \cup Ids(queue) \cup Ids(run.pending)
    BY <1>1, TakenWaited DEF Inv
  <2>3. QED
    BY <2>1, <2>2 DEF Filed, Before
<1> HIDE DEF A
<1>2. Spec => [][A]_vars
  BY <1>1, AgentInvariant, PTL DEF Spec
<1>3. QED
  BY <1>2 DEF TakenInOrder, A
=============================================================================
