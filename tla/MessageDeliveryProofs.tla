------------------------ MODULE MessageDeliveryProofs ------------------------
(***************************************************************************)
(* Proofs about MessageDelivery, for every number of messages, resends,    *)
(* disconnections and failures, and every page limit.                      *)
(*                                                                         *)
(* The order of what is handed over follows from the handler alone         *)
(* (Caught); that live messages jump over nothing else needs to know what  *)
(* is on the socket and what a page has already reached (Reached).         *)
(***************************************************************************)
EXTENDS MessageDelivery, FiniteSetTheorems, SequenceTheorems, TLAPS

-----------------------------------------------------------------------------
(* Sequences and intervals of numbers                                      *)

Interval(c, n) == [i \in 1..n |-> c + i]

LEMMA SeqParts ==
    ASSUME NEW S, NEW s \in Seq(S)
    PROVE  Len(s) \in Nat /\ DOMAIN s = 1..Len(s) /\ \A i \in DOMAIN s : s[i] \in S
OBVIOUS

(* Numbers of messages stay numbers of messages when the store grows. *)
LEMMA SeqGrows ==
    ASSUME NEW m \in Nat, NEW n \in Nat, m <= n, NEW s \in Seq(1..m)
    PROVE  s \in Seq(1..n)
<1>1. Len(s) \in Nat /\ s \in [1..Len(s) -> 1..m]
  BY SeqParts
<1>2. s \in [1..Len(s) -> 1..n]
  BY <1>1
<1>3. QED
  BY <1>1, <1>2, IsASeq

LEMMA IntervalTyped ==
    ASSUME NEW c \in Nat, NEW n \in Nat, NEW m \in Nat, c + n <= m
    PROVE  Interval(c, n) \in Seq(1..m) /\ Len(Interval(c, n)) = n
<1>1. \A i \in 1..n : c + i \in 1..m
  OBVIOUS
<1>2. Interval(c, n) \in [1..n -> 1..m]
  BY <1>1 DEF Interval
<1>3. Interval(c, n) \in Seq(1..m)
  BY <1>2, IsASeq
<1>4. QED
  BY <1>2, <1>3, LenProperties

LEMMA OneMessage ==
    ASSUME NEW h \in Nat, h > 0
    PROVE  <<h>> = Interval(h - 1, 1) /\ h - 1 \in Nat
<1>1. \A i \in 1..1 : (h - 1) + i = h
  OBVIOUS
<1>2. QED
  BY <1>1 DEF Interval

(* How many of an interval are not newer than l. *)
LEMMA OldOnes ==
    ASSUME NEW c \in Nat, NEW n \in Nat, NEW l \in Nat
    PROVE  LET k == IF l <= c THEN 0 ELSE IF c + n <= l THEN n ELSE l - c
           IN k \in 0..n /\ Cardinality({i \in 1..n : c + i <= l}) = k
<1> DEFINE k == IF l <= c THEN 0 ELSE IF c + n <= l THEN n ELSE l - c
<1>1. k \in 0..n /\ k \in Nat
  OBVIOUS
<1>2. {i \in 1..n : c + i <= l} = 1..k
  OBVIOUS
<1>3. Cardinality(1..k) = k
  <2>1. 1 \in Int /\ k \in Int /\ (1 <= k \/ k = 0)
    BY <1>1
  <2>2. QED
    BY <1>1, <2>1, FS_Interval
<1>4. QED
  BY <1>1, <1>2, <1>3

-----------------------------------------------------------------------------
(* The handler                                                             *)

(* What was handed over is not newer than the last number seen. *)
Caught == \A i \in DOMAIN delivered : delivered[i] <= lastSeen

Passed == InOrder /\ Caught

(* The handler passes on the part of an interval that is newer, and has    *)
(* seen all of it.                                                         *)
LEMMA HandleInterval ==
    ASSUME TypeOK, Passed, NEW c \in Nat, NEW n \in Nat, c + n <= Len(store), Handle(Interval(c, n))
    PROVE  /\ Passed'
           /\ delivered' \in Seq(Seqs) /\ lastSeen' \in 0..Len(store)
           /\ lastSeen' = IF n > 0 /\ c + n > lastSeen THEN c + n ELSE lastSeen
           /\ Got' = Got \cup {j \in (c + 1)..(c + n) : j > lastSeen}
<1> DEFINE ms == Interval(c, n)
           k == IF lastSeen <= c THEN 0 ELSE IF c + n <= lastSeen THEN n ELSE lastSeen - c
           fresh == SubSeq(ms, k + 1, n)
<1>1. /\ lastSeen \in Nat /\ Len(store) \in Nat /\ lastSeen <= Len(store)
      /\ delivered \in Seq(Seqs) /\ Len(delivered) \in Nat /\ DOMAIN delivered = 1..Len(delivered)
      /\ \A i \in 1..Len(delivered) : delivered[i] \in Nat
  <2>1. /\ lastSeen \in Nat /\ Len(store) \in Nat /\ lastSeen <= Len(store) /\ delivered \in Seq(Seqs)
    BY DEF TypeOK
  <2>2. Len(delivered) \in Nat /\ DOMAIN delivered = 1..Len(delivered) /\ \A i \in DOMAIN delivered : delivered[i] \in Seqs
    BY <2>1, SeqParts
  <2>3. Seqs \subseteq Nat
    BY <2>1 DEF Seqs
  <2>4. QED
    BY <2>1, <2>2, <2>3
<1>2. k \in 0..n /\ Cardinality({i \in 1..n : c + i <= lastSeen}) = k
  BY <1>1, OldOnes
<1>3. ms \in Seq(1..Len(store)) /\ Len(ms) = n
  BY <1>1, IntervalTyped
<1>4. DOMAIN ms = 1..n /\ \A i \in 1..n : ms[i] = c + i
  BY DEF Interval
<1>5. {i \in DOMAIN ms : ms[i] <= lastSeen} = {i \in 1..n : c + i <= lastSeen}
  BY <1>4
<1>6. Cardinality({i \in DOMAIN ms : ms[i] <= lastSeen}) = k
  BY <1>2, <1>5
<1>7. /\ delivered' = delivered \o fresh
      /\ lastSeen' = IF fresh = <<>> THEN lastSeen ELSE fresh[Len(fresh)]
  <2>1. /\ delivered' = delivered \o SubSeq(ms, Cardinality({i \in DOMAIN ms : ms[i] <= lastSeen}) + 1, Len(ms))
        /\ lastSeen' = LET f == SubSeq(ms, Cardinality({i \in DOMAIN ms : ms[i] <= lastSeen}) + 1, Len(ms))
                       IN IF f = <<>> THEN lastSeen ELSE f[Len(f)]
    BY DEF Handle
  <2> HIDE DEF ms, k
  <2>2. SubSeq(ms, Cardinality({i \in DOMAIN ms : ms[i] <= lastSeen}) + 1, Len(ms)) = fresh
    BY <1>3, <1>6
  <2>3. QED
    BY <2>1, <2>2
<1> HIDE DEF ms
<1>8. /\ fresh \in Seq(1..Len(store)) /\ Len(fresh) = n - k /\ DOMAIN fresh = 1..(n - k)
      /\ \A i \in 1..(n - k) : fresh[i] = c + k + i
  <2>1. k \in Nat /\ k <= n /\ n <= Len(ms)
    BY <1>2, <1>3
  <2> HIDE DEF k
  <2>2. fresh \in Seq(1..Len(store)) /\ Len(fresh) = n - k /\ \A i \in 1..(n - k) : fresh[i] = ms[k + i]
    <3>1. k + 1 \in Int /\ n \in Int /\ n - (k + 1) + 1 = n - k
      BY <2>1
    <3>2. \A i \in (k + 1)..n : ms[i] \in 1..Len(store)
      BY <1>3, <2>1
    <3>3. \A i \in 1..(n - k) : (k + 1) + i - 1 = k + i
      BY <2>1
    <3>4. QED
      BY <2>1, <3>1, <3>2, <3>3, SubSeqProperties
  <2>3. \A i \in 1..(n - k) : ms[k + i] = c + k + i
    BY <1>4, <2>1
  <2>4. QED
    BY <2>2, <2>3, SeqParts
<1>9. \A i \in 1..(n - k) : c + k + i > lastSeen
  BY <1>1
<1>10. {c + k + i : i \in 1..(n - k)} = {j \in (c + 1)..(c + n) : j > lastSeen}
  <2>1. ASSUME NEW j \in (c + 1)..(c + n), j > lastSeen PROVE j - (c + k) \in 1..(n - k) /\ c + k + (j - (c + k)) = j
    BY <1>1, <2>1
  <2>2. ASSUME NEW i \in 1..(n - k) PROVE c + k + i \in (c + 1)..(c + n) /\ c + k + i > lastSeen
    BY <1>1, <1>2, <1>9
  <2> HIDE DEF k
  <2>3. QED
    BY <2>1, <2>2
<1>11. lastSeen' = IF n > 0 /\ c + n > lastSeen THEN c + n ELSE lastSeen
  <2>1. n - k = 0 <=> ~(n > 0 /\ c + n > lastSeen)
    BY <1>1
  <2>2. k \in Nat /\ n - k \in Nat
    BY <1>2
  <2> HIDE DEF k, fresh
  <2>3. CASE n - k = 0
    <3>1. fresh = <<>>
      BY <1>8, <2>3
    <3>2. QED
      BY <1>7, <2>1, <2>3, <3>1
  <2>4. CASE n - k # 0
    <3>1. n - k \in 1..(n - k)
      BY <2>2, <2>4
    <3>2. fresh # <<>> /\ fresh[n - k] = c + k + (n - k)
      BY <1>8, <2>4, <3>1
    <3>3. c + k + (n - k) = c + n /\ Len(fresh) = n - k
      BY <1>8, <2>2
    <3>4. lastSeen' = c + n
      BY <1>7, <3>2, <3>3
    <3>5. QED
      BY <2>1, <2>4, <3>4
  <2>5. QED
    BY <2>3, <2>4
<1>12. \A i \in 1..(n - k) : c + k + i <= lastSeen'
  BY <1>1, <1>11
<1>13. k \in Nat /\ n - k \in Nat
  BY <1>2
<1> HIDE DEF k, fresh
<1>14. /\ delivered' \in Seq(Seqs) /\ Len(delivered') = Len(delivered) + (n - k)
       /\ \A i \in 1..Len(delivered) + (n - k) :
             delivered'[i] = IF i <= Len(delivered) THEN delivered[i] ELSE c + k + (i - Len(delivered))
  <2>1. delivered' \in Seq(Seqs) /\ Len(delivered') = Len(delivered) + Len(fresh)
    BY <1>1, <1>7, <1>8, ConcatProperties DEF Seqs
  <2>2. \A i \in 1..Len(delivered) + Len(fresh) :
            delivered'[i] = IF i <= Len(delivered) THEN delivered[i] ELSE fresh[i - Len(delivered)]
    BY <1>1, <1>7, <1>8, ConcatProperties DEF Seqs
  <2>3. \A i \in 1..Len(delivered) + (n - k) : ~(i <= Len(delivered)) => fresh[i - Len(delivered)] = c + k + (i - Len(delivered))
    <3>1. ASSUME NEW i \in 1..Len(delivered) + (n - k), ~(i <= Len(delivered))
          PROVE  fresh[i - Len(delivered)] = c + k + (i - Len(delivered))
      <4>1. i - Len(delivered) \in 1..(n - k)
        BY <1>1, <1>13, <3>1
      <4>2. QED
        BY <1>8, <4>1
    <3>2. QED
      BY <3>1
  <2>4. QED
    BY <1>8, <2>1, <2>2, <2>3
<1>15. \A i \in 1..Len(delivered) + (n - k) :
          \/ i <= Len(delivered) /\ delivered'[i] = delivered[i] /\ delivered[i] <= lastSeen
          \/ i > Len(delivered) /\ i - Len(delivered) \in 1..(n - k) /\ delivered'[i] = c + k + (i - Len(delivered))
  <2>1. \A i \in 1..Len(delivered) : delivered[i] <= lastSeen
    BY <1>1 DEF Passed, Caught
  <2>2. ASSUME NEW i \in 1..Len(delivered) + (n - k), i > Len(delivered)
        PROVE  i - Len(delivered) \in 1..(n - k) /\ ~(i <= Len(delivered))
    BY <1>1, <1>13, <2>2
  <2>3. ASSUME NEW i \in 1..Len(delivered) + (n - k), i <= Len(delivered)
        PROVE  i \in 1..Len(delivered)
    BY <1>1, <1>13, <2>3
  <2>4. \A i \in 1..Len(delivered) + (n - k) : i <= Len(delivered) \/ i > Len(delivered)
    BY <1>1, <1>13
  <2>5. QED
    BY <1>14, <2>1, <2>2, <2>3, <2>4
<1>16. lastSeen' >= lastSeen /\ lastSeen' \in 0..Len(store)
  BY <1>1, <1>11
<1>17. Caught'
  <2>1. DOMAIN delivered' = 1..Len(delivered) + (n - k)
    BY <1>14, SeqParts
  <2>2. ASSUME NEW i \in 1..Len(delivered) + (n - k) PROVE delivered'[i] <= lastSeen'
    BY <1>1, <1>12, <1>15, <1>16
  <2>3. QED
    BY <2>1, <2>2 DEF Caught
<1>18. InOrder'
  <2> DEFINE m == Len(delivered)
  <2>1. m \in Nat /\ \A i \in 1..m : delivered'[i] = delivered[i] /\ delivered[i] <= lastSeen /\ delivered[i] \in Nat
    <3>1. ASSUME NEW i \in 1..m PROVE i \in 1..m + (n - k) /\ ~(i > m)
      BY <1>1, <1>13
    <3>2. QED
      BY <1>1, <1>15, <3>1
  <2>2. \A l \in 1..(n - k) : delivered'[m + l] = c + k + l
    <3>1. ASSUME NEW l \in 1..(n - k) PROVE m + l \in 1..m + (n - k) /\ ~(m + l <= m) /\ (m + l) - m = l
      BY <1>1, <1>13
    <3>2. QED
      BY <1>14, <3>1
  <2>3. ASSUME NEW i \in 1..m + (n - k) PROVE i \in 1..m \/ (i - m \in 1..(n - k) /\ i = m + (i - m))
    BY <1>13, <2>1
  <2> HIDE DEF m
  <2>4. ASSUME NEW i \in 1..m + (n - k), NEW j \in 1..m + (n - k), i < j
        PROVE  delivered'[i] < delivered'[j]
    <3>1. CASE i \in 1..m /\ j \in 1..m
      <4>1. delivered[i] < delivered[j]
        BY <2>4, <3>1 DEF Passed, InOrder, m
      <4>2. QED
        BY <2>1, <3>1, <4>1
    <3>2. CASE i \in 1..m /\ j - m \in 1..(n - k) /\ j = m + (j - m)
      <4>1. delivered'[i] <= lastSeen /\ delivered'[i] \in Nat
        BY <2>1, <3>2
      <4>2. PICK l \in 1..(n - k) : j = m + l
        BY <3>2
      <4>3. delivered'[j] = c + k + l /\ c + k + l > lastSeen
        BY <1>9, <2>2, <4>2
      <4>4. QED
        BY <1>1, <1>13, <4>1, <4>3
    <3>3. CASE i - m \in 1..(n - k) /\ i = m + (i - m)
      <4>1. PICK l \in 1..(n - k) : i = m + l
        BY <3>3
      <4>2. PICK h \in 1..(n - k) : j = m + h
        <5>1. j - m \in 1..(n - k) /\ j = m + (j - m)
          BY <1>13, <2>1, <2>3, <2>4, <3>3
        <5>2. QED
          BY <5>1
      <4>3. delivered'[i] = c + k + l /\ delivered'[j] = c + k + h
        BY <2>2, <4>1, <4>2
      <4>4. l < h
        BY <1>13, <2>1, <2>4, <4>1, <4>2
      <4>5. QED
        BY <1>13, <4>3, <4>4
    <3>4. QED
      BY <2>3, <3>1, <3>2, <3>3
  <2>5. QED
    BY <1>14, <2>4 DEF InOrder, m
<1>19. Got' = Got \cup {j \in (c + 1)..(c + n) : j > lastSeen}
  <2>1. Got' = {delivered'[i] : i \in 1..Len(delivered) + (n - k)}
    BY <1>14 DEF Got
  <2>2. ASSUME NEW i \in 1..Len(delivered) + (n - k) PROVE delivered'[i] \in Got \/ delivered'[i] \in {c + k + l : l \in 1..(n - k)}
    BY <1>15 DEF Got
  <2>3. ASSUME NEW g \in Got PROVE \E i \in 1..Len(delivered) + (n - k) : delivered'[i] = g
    <3>1. PICK i \in 1..Len(delivered) : delivered[i] = g
      BY DEF Got
    <3>2. i \in 1..Len(delivered) + (n - k) /\ delivered'[i] = g
      BY <1>1, <1>13, <1>14, <3>1
    <3>3. QED
      BY <3>2
  <2>4. ASSUME NEW l \in 1..(n - k) PROVE \E i \in 1..Len(delivered) + (n - k) : delivered'[i] = c + k + l
    <3>1. /\ Len(delivered) + l \in 1..Len(delivered) + (n - k) /\ ~(Len(delivered) + l <= Len(delivered))
          /\ (Len(delivered) + l) - Len(delivered) = l
      BY <1>1, <1>13
    <3>2. delivered'[Len(delivered) + l] = c + k + l
      BY <1>14, <3>1
    <3>3. QED
      BY <3>1, <3>2
  <2>5. QED
    BY <1>10, <2>1, <2>2, <2>3, <2>4
<1>20. QED
  BY <1>11, <1>14, <1>16, <1>17, <1>18, <1>19 DEF Passed

-----------------------------------------------------------------------------
(* The socket and the backfill                                             *)

(* Message i is on the socket, behind earlier ones only. *)
OnLive(q, i) == \E k \in DOMAIN q : q[k] = i /\ \A j \in 1..(k - 1) : q[j] <= i

(* A run was asked for by somebody, it starts behind what was seen, and    *)
(* its page is the next part of the store.  A closed socket has nothing.   *)
Running ==
    /\ run.pc # "idle" => needsBackfill /\ run.cursor <= lastSeen
    /\ run.pc = "answered" => /\ Len(run.page) <= Limit /\ run.cursor + Len(run.page) <= Len(store)
                              /\ run.page = Interval(run.cursor, Len(run.page))
    /\ ~connected => live = <<>>

(* What is missing beyond the number from will come on the socket, in time. *)
Covered(from) == \A i \in Missing \ lost : i > lastSeen /\ i > from => OnLive(live, i)

(* When no backfill is owed, everything is; when the last page is there,   *)
(* everything beyond that page is.                                         *)
Reached ==
    connected => /\ run.pc = "idle" /\ ~needsBackfill => Covered(0)
                 /\ run.pc = "answered" /\ Last(run.page) => Covered(run.cursor + Len(run.page))

Inv == TypeOK /\ Passed /\ Running /\ Reached

RunUpTo(n) == [pc : {"idle", "asked", "answered"}, cursor : 0..n, page : Seq(1..n)]

LEMMA Parts ==
    ASSUME TypeOK
    PROVE  /\ lastSeen \in Nat /\ Len(store) \in Nat /\ lastSeen <= Len(store)
           /\ run \in RunUpTo(Len(store)) /\ run.cursor \in 0..Len(store) /\ run.page \in Seq(1..Len(store))
           /\ Len(run.page) \in Nat
           /\ live \in Seq(1..Len(store)) /\ delivered \in Seq(1..Len(store))
           /\ Seqs = 1..Len(store) /\ Limit \in Nat /\ Limit > 0
<1>1. Seqs = 1..Len(store)
  BY DEF Seqs
<1>2. lastSeen \in Nat /\ Len(store) \in Nat /\ lastSeen <= Len(store)
  BY DEF TypeOK
<1>3. run \in RunUpTo(Len(store)) /\ live \in Seq(1..Len(store)) /\ delivered \in Seq(1..Len(store))
  BY <1>1 DEF TypeOK, RunUpTo
<1>4. run.cursor \in 0..Len(store) /\ run.page \in Seq(1..Len(store))
  BY <1>3 DEF RunUpTo
<1>5. QED
  BY <1>1, <1>2, <1>3, <1>4, LimitAssumption

LEMMA StoreGrows ==
    ASSUME TypeOK, NEW author \in {"web", "cli"}, store' = Append(store, author)
    PROVE  /\ store' \in Seq({"web", "cli"}) /\ Len(store') = Len(store) + 1
           /\ \A i \in 1..Len(store) : store'[i] = store[i]
           /\ store'[Len(store) + 1] = author
BY DEF TypeOK

(* The variables that do not speak of a message keep their types with a    *)
(* longer store.                                                           *)
LEMMA GrownTypes ==
    ASSUME TypeOK, NEW n \in Nat, Len(store) <= n
    PROVE  /\ run \in RunUpTo(n) /\ live \in Seq(1..n) /\ delivered \in Seq(1..n)
           /\ lastSeen \in 0..n /\ lost \subseteq 1..n
<1>1. run.cursor \in 0..n /\ run.page \in Seq(1..n)
  BY Parts, SeqGrows
<1>2. run \in RunUpTo(n)
  BY <1>1, Parts DEF RunUpTo
<1>3. live \in Seq(1..n) /\ delivered \in Seq(1..n)
  BY Parts, SeqGrows
<1>4. lost \subseteq 1..n
  BY Parts DEF TypeOK
<1>5. QED
  BY <1>2, <1>3, <1>4, Parts

LEMMA MinTwo ==
    ASSUME NEW a \in Nat, NEW b \in Nat
    PROVE  Min({a, b}) = IF a <= b THEN a ELSE b
<1> DEFINE m == IF a <= b THEN a ELSE b
<1>1. m \in {a, b} /\ \A y \in {a, b} : m <= y
  OBVIOUS
<1>2. \A x \in {a, b} : (\A y \in {a, b} : x <= y) => x = m
  OBVIOUS
<1>3. QED
  BY <1>1, <1>2 DEF Min

(* A page is the next part of the store, as long as the limit allows. *)
LEMMA PageIs ==
    ASSUME TypeOK, NEW c \in 0..Len(store)
    PROVE  \E n \in 0..Limit : /\ PageAfter(c) = Interval(c, n) /\ Len(PageAfter(c)) = n
                               /\ c + n <= Len(store) /\ (n < Limit => c + n = Len(store))
<1> DEFINE n == IF Limit <= Len(store) - c THEN Limit ELSE Len(store) - c
<1>1. c \in Nat /\ Len(store) - c \in Nat
  BY Parts
<1>2. Min({Limit, Len(store) - c}) = n
  BY <1>1, Parts, MinTwo
<1>3. n \in 0..Limit /\ c + n <= Len(store) /\ (n < Limit => c + n = Len(store))
  BY <1>1, Parts
<1>4. PageAfter(c) = Interval(c, n)
  BY <1>2 DEF PageAfter, Interval
<1> HIDE DEF n
<1>5. Len(PageAfter(c)) = n
  BY <1>1, <1>3, <1>4, Parts, IntervalTyped
<1>6. QED
  BY <1>3, <1>4, <1>5

-----------------------------------------------------------------------------
(* The steps of the hub                                                    *)

LEMMA OnLiveAppend ==
    ASSUME NEW S, NEW q \in Seq(S), NEW x, NEW i, OnLive(q, i)
    PROVE  OnLive(Append(q, x), i)
<1>1. Len(q) \in Nat /\ DOMAIN q = 1..Len(q)
  OBVIOUS
<1>2. DOMAIN Append(q, x) = 1..(Len(q) + 1) /\ \A k \in 1..Len(q) : Append(q, x)[k] = q[k]
  BY <1>1
<1>3. PICK k \in DOMAIN q : q[k] = i /\ \A j \in 1..(k - 1) : q[j] <= i
  BY DEF OnLive
<1>4. k \in DOMAIN Append(q, x) /\ Append(q, x)[k] = i
  BY <1>1, <1>2, <1>3
<1>5. ASSUME NEW j \in 1..(k - 1) PROVE Append(q, x)[j] <= i
  <2>1. j \in 1..Len(q)
    BY <1>1
  <2>2. QED
    BY <1>2, <1>3, <2>1
<1>6. QED
  BY <1>4, <1>5 DEF OnLive

LEMMA OnLiveLast ==
    ASSUME NEW n \in Nat, NEW q \in Seq(1..n)
    PROVE  OnLive(Append(q, n + 1), n + 1)
<1>1. Len(q) \in Nat /\ DOMAIN q = 1..Len(q) /\ \A j \in 1..Len(q) : q[j] \in 1..n
  OBVIOUS
<1> DEFINE k == Len(q) + 1
           r == Append(q, n + 1)
<1>2. k \in DOMAIN r /\ r[k] = n + 1 /\ \A j \in 1..Len(q) : r[j] = q[j]
  BY <1>1
<1> HIDE DEF r
<1>3. ASSUME NEW j \in 1..(k - 1) PROVE r[j] <= n + 1
  <2>1. j \in 1..Len(q)
    BY <1>1
  <2>2. QED
    BY <1>1, <1>2, <2>1
<1>4. OnLive(r, n + 1)
  BY <1>2, <1>3 DEF OnLive
<1>5. QED
  BY <1>4 DEF r

(* What is missing after a message was stored was missing before, or is it. *)
LEMMA MissingGrows ==
    ASSUME TypeOK, NEW author \in {"web", "cli"}, store' = Append(store, author), UNCHANGED delivered
    PROVE  Missing' \subseteq Missing \cup {Len(store) + 1} /\ (author = "cli" => Missing' \subseteq Missing)
<1>1. Got' = Got
  BY DEF Got
<1>2. Seqs = 1..Len(store) /\ Seqs' = 1..(Len(store) + 1) /\ Len(store) \in Nat
  BY StoreGrows, Parts DEF Seqs
<1>3. ASSUME NEW i \in Missing' PROVE i \in Missing \/ (i = Len(store) + 1 /\ author = "web")
  <2>1. i \in 1..(Len(store) + 1) /\ store'[i] = "web" /\ i \notin Got
    BY <1>1, <1>2 DEF Missing
  <2>2. CASE i \in 1..Len(store)
    BY <1>2, <2>1, <2>2, StoreGrows DEF Missing
  <2>3. CASE i = Len(store) + 1
    BY <2>1, <2>3, StoreGrows
  <2>4. QED
    BY <1>2, <2>1, <2>2, <2>3
<1>4. QED
  BY <1>3

(* The hub adds to the store, to the socket, or to both. *)
StoresWeb == store' = Append(store, "web") /\ Emit(Len(store) + 1)
StoresCli == store' = Append(store, "cli") /\ UNCHANGED live
EmitsAgain == UNCHANGED store /\ \E i \in Seqs : Emit(i)

LEMMA HubSends ==
    ASSUME Inv, UNCHANGED <<connected, hasConnectedOnce, cli, needsBackfill, run, lost, bounds>>,
           resends' \in 0..MaxResends, StoresWeb \/ StoresCli \/ EmitsAgain
    PROVE  Inv'
<1>1. /\ TypeOK /\ Passed /\ Running /\ Reached
      /\ UNCHANGED <<connected, hasConnectedOnce, lastSeen, delivered, needsBackfill, run, lost, drops, failures>>
  BY DEF Inv, cli, bounds
<1> DEFINE l == Len(store)
<1>l. l \in Nat /\ Seqs = 1..l
  BY <1>1, Parts
<1>w. StoresWeb => /\ Len(store') = l + 1 /\ store' \in Seq({"web", "cli"})
                   /\ Missing' \subseteq Missing \cup {l + 1}
                   /\ live' = IF connected THEN Append(live, l + 1) ELSE live
  BY <1>1, StoreGrows, MissingGrows DEF StoresWeb, Emit
<1>c. StoresCli => /\ Len(store') = l + 1 /\ store' \in Seq({"web", "cli"})
                   /\ Missing' \subseteq Missing
                   /\ live' = live
  BY <1>1, StoreGrows, MissingGrows DEF StoresCli
<1>e. EmitsAgain => /\ Len(store') = l /\ store' \in Seq({"web", "cli"})
                    /\ Missing' \subseteq Missing
                    /\ live' = live \/ (connected /\ \E i \in 1..l : live' = Append(live, i))
  <2>1. EmitsAgain => Missing' = Missing
    BY <1>1 DEF EmitsAgain, Missing, Seqs, Got
  <2>2. QED
    BY <1>1, <1>l, <2>1 DEF EmitsAgain, Emit, TypeOK
<1> HIDE DEF l
<1>2. /\ Len(store') \in Nat /\ l <= Len(store') /\ store' \in Seq({"web", "cli"}) /\ Seqs' = 1..Len(store')
  <2>1. Seqs' = 1..Len(store')
    BY DEF Seqs
  <2>2. QED
    BY <1>l, <1>w, <1>c, <1>e, <2>1
<1>3. /\ run \in RunUpTo(Len(store')) /\ live \in Seq(1..Len(store')) /\ delivered \in Seq(1..Len(store'))
      /\ lastSeen \in 0..Len(store') /\ lost \subseteq 1..Len(store')
  BY <1>1, <1>2, GrownTypes DEF l
<1>4. live' = live \/ (connected /\ \E i \in 1..Len(store') : live' = Append(live, i))
  BY <1>l, <1>w, <1>c, <1>e
<1>5. live' \in Seq(1..Len(store'))
  <2> DEFINE T == 1..Len(store')
  <2>1. live \in Seq(T) /\ (live' = live \/ \E i \in T : live' = Append(live, i))
    BY <1>3, <1>4
  <2> HIDE DEF T
  <2>2. live' \in Seq(T)
    BY <2>1
  <2>3. QED
    BY <2>2 DEF T
<1>6. TypeOK'
  <2>1. run' \in [pc : {"idle", "asked", "answered"}, cursor : 0..Len(store'), page : Seq(1..Len(store'))]
    BY <1>1, <1>3 DEF RunUpTo
  <2>2. QED
    BY <1>1, <1>2, <1>3, <1>5, <2>1 DEF TypeOK
<1>7. Passed'
  BY <1>1 DEF Passed, InOrder, Caught
<1>8. Running'
  <2>1. Len(run.page) \in Nat /\ run.cursor \in Nat /\ Len(store) \in Nat
    BY <1>1, Parts
  <2>2. QED
    BY <1>1, <1>2, <1>4, <2>1 DEF Running, l
<1>9. ASSUME connected, NEW from, Covered(from) PROVE Covered(from)'
  <2>1. ASSUME NEW i \in Missing' \ lost, i > lastSeen, i > from PROVE OnLive(live', i)
    <3>1. CASE i \in Missing
      <4>1. OnLive(live, i)
        BY <1>9, <2>1, <3>1 DEF Covered
      <4>2. QED
        BY <1>1, <1>4, <4>1, Parts, OnLiveAppend
    <3>2. CASE i \notin Missing
      <4>1. i = l + 1 /\ live' = Append(live, l + 1)
        BY <1>9, <1>w, <1>c, <1>e, <2>1, <3>2
      <4>2. live \in Seq(1..l)
        BY <1>1, Parts DEF l
      <4>3. QED
        BY <1>l, <4>1, <4>2, OnLiveLast
    <3>3. QED
      BY <3>1, <3>2
  <2>2. QED
    BY <1>1, <2>1 DEF Covered
<1>10. Reached'
  BY <1>1, <1>9 DEF Reached
<1>11. QED
  BY <1>6, <1>7, <1>8, <1>10 DEF Inv

LEMMA HubAnswers ==
    ASSUME Inv, HubAnswer
    PROVE  Inv'
<1>1. /\ TypeOK /\ Passed /\ Running
      /\ run.pc = "asked" /\ run' = [run EXCEPT !.pc = "answered", !.page = PageAfter(run.cursor)]
      /\ UNCHANGED <<store, resends, connected, hasConnectedOnce, live, lastSeen, delivered, needsBackfill, lost, drops, failures>>
  BY DEF Inv, HubAnswer, hub, cli, bounds
<1> DEFINE page == PageAfter(run.cursor)
<1>2. PICK n \in 0..Limit : /\ page = Interval(run.cursor, n) /\ Len(page) = n
                            /\ run.cursor + n <= Len(store) /\ (n < Limit => run.cursor + n = Len(store))
  BY <1>1, Parts, PageIs
<1>3. page \in Seq(1..Len(store))
  BY <1>1, <1>2, Parts, IntervalTyped
<1>4. run' = [run EXCEPT !.pc = "answered", !.page = page]
  BY <1>1
<1> HIDE DEF page
<1>5. run' \in RunUpTo(Len(store)) /\ run'.pc = "answered" /\ run'.cursor = run.cursor /\ run'.page = page
  BY <1>1, <1>3, <1>4, Parts DEF RunUpTo
<1>6. TypeOK'
  <2>1. run' \in [pc : {"idle", "asked", "answered"}, cursor : 0..Len(store), page : Seq(Seqs)]
    BY <1>1, <1>5, Parts DEF RunUpTo
  <2>2. QED
    BY <1>1, <2>1 DEF TypeOK, Seqs
<1>7. Passed'
  BY <1>1 DEF Passed, InOrder, Caught
<1>8. Running'
  BY <1>1, <1>2, <1>5, Parts DEF Running
<1>9. Reached'
  <2>1. Missing' = Missing /\ \A i \in Missing : i <= Len(store)
    BY <1>1, Parts DEF Missing, Seqs, Got
  <2>2. Last(run'.page) => run.cursor + n = Len(store)
    BY <1>2, <1>5 DEF Last
  <2>3. run.cursor \in Nat /\ Len(store) \in Nat /\ n \in Nat /\ Missing \subseteq Nat
    BY <1>1, Parts DEF Missing
  <2>4. QED
    BY <1>1, <1>2, <1>5, <2>1, <2>2, <2>3 DEF Reached, Covered
<1>10. QED
  BY <1>6, <1>7, <1>8, <1>9 DEF Inv

-----------------------------------------------------------------------------
(* The steps of the CLI                                                    *)

(* With the store unchanged the handler only shortens what is missing, and *)
(* of what it leaves behind it had passed on all it was given.             *)
LEMMA HandlerStep ==
    ASSUME Inv, NEW c \in Nat, NEW n \in Nat, c + n <= Len(store), Handle(Interval(c, n)), UNCHANGED store
    PROVE  /\ Passed' /\ delivered' \in Seq(Seqs) /\ Seqs' = Seqs
           /\ lastSeen' \in 0..Len(store) /\ lastSeen <= lastSeen' /\ (n > 0 => c + n <= lastSeen')
           /\ (lastSeen' = lastSeen \/ lastSeen' = c + n)
           /\ Missing' \subseteq Missing
           /\ \A i \in (c + 1)..(c + n) : i > lastSeen => i \in Got'
<1>1. TypeOK /\ Passed
  BY DEF Inv
<1>2. /\ Passed' /\ delivered' \in Seq(Seqs) /\ lastSeen' \in 0..Len(store)
      /\ lastSeen' = IF n > 0 /\ c + n > lastSeen THEN c + n ELSE lastSeen
      /\ Got' = Got \cup {j \in (c + 1)..(c + n) : j > lastSeen}
  BY <1>1, HandleInterval
<1>3. Seqs' = Seqs /\ Missing' \subseteq Missing
  BY <1>2 DEF Seqs, Missing
<1>4. lastSeen \in Nat
  BY <1>1, Parts
<1>5. lastSeen <= lastSeen' /\ (n > 0 => c + n <= lastSeen') /\ (lastSeen' = lastSeen \/ lastSeen' = c + n)
  BY <1>2, <1>4
<1>6. \A i \in (c + 1)..(c + n) : i > lastSeen => i \in Got'
  BY <1>2
<1>7. QED
  BY <1>2, <1>3, <1>5, <1>6

(* The head of the socket is an interval of one message. *)
LEMMA HeadIs ==
    ASSUME Inv, Receive
    PROVE  /\ Head(live) \in 1..Len(store) /\ Head(live) = live[1]
           /\ Handle(Interval(Head(live) - 1, 1)) /\ Head(live) - 1 \in Nat
           /\ (Head(live) - 1) + 1 = Head(live)
<1>1. TypeOK
  BY DEF Inv
<1>2. live \in Seq(1..Len(store)) /\ live # <<>> /\ Handle(<<Head(live)>>) /\ Len(store) \in Nat
  BY <1>1, Parts DEF Receive
<1>3. Head(live) \in 1..Len(store) /\ Head(live) = live[1]
  BY <1>2
<1> DEFINE h == Head(live)
<1>4. h \in Nat /\ h > 0
  BY <1>2, <1>3
<1> HIDE DEF h
<1>5. <<h>> = Interval(h - 1, 1) /\ h - 1 \in Nat /\ (h - 1) + 1 = h
  BY <1>4, OneMessage
<1>6. Handle(Interval(h - 1, 1))
  <2>1. Handle(<<h>>)
    BY <1>2 DEF h
  <2>2. QED
    BY <1>5, <2>1
<1>7. QED
  BY <1>3, <1>5, <1>6 DEF h

(* What comes later on the socket still comes after its head is taken. *)
LEMMA OnLiveTail ==
    ASSUME NEW n \in Nat, NEW q \in Seq(1..n), q # <<>>, NEW i \in Nat, OnLive(q, i), q[1] # i
    PROVE  OnLive(Tail(q), i) /\ q[1] <= i
<1>1. Len(q) \in Nat /\ Len(q) > 0 /\ DOMAIN q = 1..Len(q)
  OBVIOUS
<1>2. DOMAIN Tail(q) = 1..(Len(q) - 1) /\ \A j \in 1..(Len(q) - 1) : Tail(q)[j] = q[j + 1]
  BY <1>1
<1>3. PICK k \in DOMAIN q : q[k] = i /\ \A j \in 1..(k - 1) : q[j] <= i
  BY DEF OnLive
<1>4. k \in 2..Len(q)
  BY <1>1, <1>3
<1>5. k - 1 \in DOMAIN Tail(q) /\ (k - 1) + 1 = k
  BY <1>1, <1>2, <1>4
<1>6. Tail(q)[k - 1] = i
  BY <1>2, <1>3, <1>5
<1>7. ASSUME NEW j \in 1..((k - 1) - 1) PROVE Tail(q)[j] <= i
  <2>1. j \in 1..(Len(q) - 1) /\ j + 1 \in 1..(k - 1)
    BY <1>1, <1>4
  <2>2. QED
    BY <1>2, <1>3, <2>1
<1>8. 1 \in 1..(k - 1)
  BY <1>4
<1>9. OnLive(Tail(q), i)
  BY <1>5, <1>6, <1>7 DEF OnLive
<1>10. QED
  BY <1>3, <1>8, <1>9

LEMMA Receives ==
    ASSUME Inv, Receive
    PROVE  Inv'
<1> DEFINE h == Head(live)
<1>1. /\ TypeOK /\ Passed /\ Running /\ Reached
      /\ live # <<>> /\ live' = Tail(live) /\ lost' = lost \cup {i \in Missing : i < h}
      /\ UNCHANGED <<store, resends, connected, hasConnectedOnce, needsBackfill, run, drops, failures>>
  BY DEF Inv, Receive, hub, bounds
<1>2. /\ h \in 1..Len(store) /\ h = live[1]
      /\ Handle(Interval(h - 1, 1)) /\ h - 1 \in Nat /\ (h - 1) + 1 = h
  BY HeadIs
<1> HIDE DEF h
<1>3. live \in Seq(1..Len(store)) /\ Len(store) \in Nat /\ lastSeen \in Nat /\ Seqs = 1..Len(store)
  BY <1>1, Parts
<1>4. /\ Passed' /\ delivered' \in Seq(Seqs) /\ Seqs' = Seqs
      /\ lastSeen' \in 0..Len(store) /\ lastSeen <= lastSeen' /\ h <= lastSeen'
      /\ Missing' \subseteq Missing
  <2>1. (h - 1) + 1 <= Len(store) /\ 1 \in Nat /\ 1 > 0
    BY <1>2, <1>3
  <2>2. QED
    BY <1>1, <1>2, <2>1, HandlerStep
<1>5. live' \in Seq(Seqs)
  BY <1>1, <1>3
<1>6. TypeOK'
  <2>1. lost' \subseteq Seqs
    BY <1>1 DEF TypeOK, Missing
  <2>2. QED
    BY <1>1, <1>4, <1>5, <2>1 DEF TypeOK
<1>7. Running'
  <2>1. Len(run.page) \in Nat /\ run.cursor \in Nat
    BY <1>1, Parts
  <2>2. run.pc # "idle" => needsBackfill /\ run.cursor <= lastSeen'
    BY <1>1, <1>3, <1>4, <2>1 DEF Running
  <2>3. connected
    BY <1>1 DEF Running
  <2>4. QED
    BY <1>1, <2>2, <2>3 DEF Running
<1>8. ASSUME NEW from \in Nat, Covered(from) PROVE Covered(from)'
  <2>1. ASSUME NEW i \in Missing' \ lost', i > lastSeen', i > from PROVE OnLive(live', i)
    <3>1. i \in Missing \ lost /\ i \in Nat
      BY <1>1, <1>3, <1>4, <2>1 DEF Missing
    <3>2. i > lastSeen /\ i # h
      BY <1>2, <1>3, <1>4, <2>1, <3>1
    <3>3. OnLive(live, i)
      BY <1>8, <2>1, <3>1, <3>2 DEF Covered
    <3>4. QED
      BY <1>1, <1>2, <1>3, <3>1, <3>2, <3>3, OnLiveTail
  <2>2. QED
    BY <1>1, <2>1 DEF Covered
<1>9. Reached'
  <2>1. run.cursor + Len(run.page) \in Nat /\ 0 \in Nat
    BY <1>1, Parts
  <2>2. QED
    BY <1>1, <1>8, <2>1 DEF Reached
<1>10. QED
  BY <1>4, <1>6, <1>7, <1>9 DEF Inv

(* A run that ended, or one just asked for. *)
LEMMA RunTyped ==
    ASSUME NEW n \in Nat, NEW c \in 0..n
    PROVE  NoRun \in RunUpTo(n) /\ [pc |-> "asked", cursor |-> c, page |-> <<>>] \in RunUpTo(n)
<1>1. <<>> \in Seq(1..n)
  OBVIOUS
<1>2. QED
  BY <1>1 DEF NoRun, RunUpTo

LEMMA Disconnects ==
    ASSUME Inv, Disconnect
    PROVE  Inv'
<1>1. /\ TypeOK /\ Passed /\ Running
      /\ drops < MaxDrops /\ drops' = drops + 1 /\ connected' = FALSE /\ live' = <<>> /\ needsBackfill' = TRUE
      /\ UNCHANGED <<store, resends, hasConnectedOnce, lastSeen, delivered, run, lost, failures>>
  BY DEF Inv, Disconnect, hub, cli
<1>2. TypeOK'
  <2>1. live' \in Seq(Seqs)
    BY <1>1
  <2>2. drops' \in 0..MaxDrops
    BY <1>1, BoundsAssumption DEF TypeOK
  <2>3. QED
    BY <1>1, <2>1, <2>2 DEF TypeOK, Seqs
<1>3. Passed'
  BY <1>1 DEF Passed, InOrder, Caught
<1>4. Running'
  BY <1>1 DEF Running
<1>5. Reached'
  BY <1>1 DEF Reached
<1>6. QED
  BY <1>2, <1>3, <1>4, <1>5 DEF Inv

(* A step of the CLI that hands nothing over and keeps the socket, while   *)
(* nothing more is missing that is not given up, or a run was just asked.  *)
LEMMA RunStep ==
    ASSUME Inv, UNCHANGED <<store, resends, lastSeen, delivered, live>>,
           connected' \in BOOLEAN, hasConnectedOnce' \in BOOLEAN, needsBackfill' \in BOOLEAN,
           connected' \/ live = <<>>,
           \/ run' = run /\ (run.pc # "idle" => needsBackfill')
           \/ run' = NoRun
           \/ run' = [pc |-> "asked", cursor |-> lastSeen, page |-> <<>>] /\ needsBackfill',
           lost' = lost \cup Missing \/ (lost' = lost /\ run'.pc = "asked"),
           drops' = drops, failures' \in 0..MaxFailures
    PROVE  Inv'
<1>1. TypeOK /\ Passed /\ Running
  BY DEF Inv
<1>2. /\ run \in RunUpTo(Len(store)) /\ Len(store) \in Nat /\ lastSeen \in 0..Len(store) /\ Seqs = 1..Len(store)
      /\ Len(run.page) \in Nat
  BY <1>1, Parts
<1>3. run' \in RunUpTo(Len(store))
  BY <1>2, RunTyped
<1>4. TypeOK'
  <2>1. run' \in [pc : {"idle", "asked", "answered"}, cursor : 0..Len(store), page : Seq(Seqs)]
    BY <1>2, <1>3 DEF RunUpTo
  <2>2. lost' \subseteq Seqs
    BY <1>1 DEF TypeOK, Missing
  <2>3. QED
    BY <1>1, <2>1, <2>2 DEF TypeOK, Seqs
<1>5. Passed'
  BY <1>1 DEF Passed, InOrder, Caught
<1>6. Running'
  <2>1. CASE run' = run /\ (run.pc # "idle" => needsBackfill')
    BY <1>1, <2>1 DEF Running
  <2>2. CASE run' = NoRun
    BY <1>1, <2>2 DEF Running, NoRun
  <2>3. CASE run' = [pc |-> "asked", cursor |-> lastSeen, page |-> <<>>] /\ needsBackfill'
    <3>1. run'.pc = "asked" /\ run'.cursor = lastSeen /\ lastSeen <= lastSeen
      BY <1>2, <2>3
    <3>2. QED
      BY <1>1, <2>3, <3>1 DEF Running
  <2>4. QED
    BY <2>1, <2>2, <2>3
<1>7. Reached'
  <2>1. Missing' = Missing
    BY DEF Missing, Seqs, Got
  <2>2. CASE lost' = lost \cup Missing
    BY <2>1, <2>2 DEF Reached, Covered
  <2>3. CASE run'.pc = "asked"
    BY <2>3 DEF Reached
  <2>4. QED
    BY <2>2, <2>3
<1>8. QED
  BY <1>4, <1>5, <1>6, <1>7 DEF Inv

LEMMA Connects ==
    ASSUME Inv, Connect
    PROVE  Inv'
<1>1. TypeOK /\ Running /\ needsBackfill \in BOOLEAN /\ failures \in 0..MaxFailures
  BY DEF Inv, TypeOK
<1>2. /\ UNCHANGED <<store, resends, lastSeen, delivered, live, drops, failures>>
      /\ connected' = TRUE /\ hasConnectedOnce' = TRUE
  BY DEF Connect, hub, cli, bounds
<1>3. CASE ~hasConnectedOnce /\ ~needsBackfill
  <2>1. lost' = lost \cup Missing /\ needsBackfill' = needsBackfill /\ run' = run /\ run.pc = "idle"
    BY <1>1, <1>3 DEF Connect, Running
  <2>2. QED
    BY <1>1, <1>2, <2>1, RunStep
<1>4. CASE ~(~hasConnectedOnce /\ ~needsBackfill) /\ run.pc # "idle"
  <2>1. lost' = lost \cup Missing /\ needsBackfill' = TRUE /\ run' = run
    BY <1>4 DEF Connect
  <2>2. QED
    BY <1>1, <1>2, <2>1, RunStep
<1>5. CASE ~(~hasConnectedOnce /\ ~needsBackfill) /\ run.pc = "idle" /\ lastSeen = 0
  <2>1. lost' = lost \cup Missing /\ needsBackfill' = FALSE /\ run' = run
    BY <1>5 DEF Connect
  <2>2. QED
    BY <1>1, <1>2, <1>5, <2>1, RunStep
<1>6. CASE ~(~hasConnectedOnce /\ ~needsBackfill) /\ run.pc = "idle" /\ lastSeen # 0
  <2>1. needsBackfill' = TRUE /\ lost' = lost /\ run' = [pc |-> "asked", cursor |-> lastSeen, page |-> <<>>]
    BY <1>6 DEF Connect
  <2>2. run'.pc = "asked"
    BY <2>1
  <2>3. QED
    BY <1>1, <1>2, <2>1, <2>2, RunStep
<1>7. QED
  BY <1>3, <1>4, <1>5, <1>6

LEMMA Fails ==
    ASSUME Inv, BackfillFails
    PROVE  Inv'
<1>1. /\ UNCHANGED <<store, resends, lastSeen, delivered, live, connected, hasConnectedOnce, drops>>
      /\ needsBackfill' = TRUE /\ run' = NoRun /\ lost' = lost \cup Missing
  BY DEF BackfillFails, hub, cli
<1>2. failures' \in 0..MaxFailures /\ connected' \in BOOLEAN /\ hasConnectedOnce' \in BOOLEAN
  BY <1>1, BoundsAssumption DEF BackfillFails, Inv, TypeOK
<1>3. connected' \/ live = <<>>
  BY <1>1 DEF Inv, Running, TypeOK
<1>4. QED
  BY <1>1, <1>2, <1>3, RunStep

(* The page that is there, and where the next one starts. *)
LEMMA PageTaken ==
    ASSUME Inv, TakePage
    PROVE  LET n == Len(run.page) IN
           /\ n \in Nat /\ n <= Limit /\ run.cursor \in Nat /\ run.cursor + n <= Len(store)
           /\ Handle(Interval(run.cursor, n))
           /\ \/ Last(run.page) /\ run' = NoRun /\ needsBackfill' = FALSE
              \/ /\ run' = [pc |-> "asked", cursor |-> lastSeen', page |-> <<>>]
                 /\ needsBackfill' = needsBackfill
<1> DEFINE n == Len(run.page)
           c == run.cursor
           next == Max({c, lastSeen'} \cup {run.page[i] : i \in 1..n})
<1>1. TypeOK /\ run.pc = "answered"
  BY DEF Inv, TakePage
<1>2. n \in Nat /\ c \in Nat /\ Len(store) \in Nat /\ lastSeen \in Nat /\ Limit \in Nat /\ Limit > 0
  BY <1>1, Parts
<1>3. n <= Limit /\ c + n <= Len(store) /\ run.page = Interval(c, n) /\ c <= lastSeen
  BY <1>1 DEF Inv, Running
<1>4. Handle(Interval(c, n))
  <2>1. Handle(run.page)
    BY DEF TakePage
  <2>2. QED
    BY <1>3, <2>1
<1>5. lastSeen' \in Nat /\ c <= lastSeen' /\ (n > 0 => c + n <= lastSeen')
  <2>1. UNCHANGED store
    BY DEF TakePage, hub
  <2>2. lastSeen' \in 0..Len(store) /\ lastSeen <= lastSeen' /\ (n > 0 => c + n <= lastSeen')
    BY <1>2, <1>3, <1>4, <2>1, HandlerStep
  <2>3. QED
    BY <1>2, <1>3, <2>2
<1>6. next = lastSeen'
  <2> DEFINE T == {c, lastSeen'} \cup {run.page[i] : i \in 1..n}
  <2>1. \A i \in 1..n : run.page[i] = c + i
    BY <1>3 DEF Interval
  <2>2. \A x \in T : x \in Nat /\ x <= lastSeen'
    <3>1. \A i \in 1..n : c + i \in Nat /\ c + i <= lastSeen'
      BY <1>2, <1>5
    <3> HIDE DEF n, c
    <3>2. QED
      BY <1>2, <1>5, <2>1, <3>1
  <2>3. lastSeen' \in T
    OBVIOUS
  <2> HIDE DEF T
  <2>4. \A x \in T : (\A y \in T : x >= y) => x = lastSeen'
    BY <1>5, <2>2, <2>3
  <2>5. \A y \in T : lastSeen' >= y
    BY <1>5, <2>2
  <2>6. Max(T) = lastSeen'
    BY <2>3, <2>4, <2>5 DEF Max
  <2>7. QED
    BY <2>6 DEF T
<1>7. ~Last(run.page) => c < next
  BY <1>2, <1>3, <1>5, <1>6 DEF Last
<1>8. IF Last(run.page) \/ next <= c
        THEN run' = NoRun /\ needsBackfill' = FALSE
        ELSE run' = [pc |-> "asked", cursor |-> next, page |-> <<>>] /\ UNCHANGED needsBackfill
  BY DEF TakePage
<1>9. QED
  <2> HIDE DEF next
  <2>1. Last(run.page) \/ c < next
    BY <1>7
  <2>2. c < next => ~(next <= c)
    BY <1>2, <1>5, <1>6
  <2>3. QED
    BY <1>2, <1>3, <1>4, <1>6, <1>8, <2>1, <2>2

LEMMA Takes ==
    ASSUME Inv, TakePage
    PROVE  Inv'
<1> DEFINE n == Len(run.page)
           c == run.cursor
<1>1. /\ TypeOK /\ Running /\ Reached /\ run.pc = "answered"
      /\ UNCHANGED <<store, resends, connected, hasConnectedOnce, live, lost, drops, failures>>
  BY DEF Inv, TakePage, hub, bounds
<1>2. /\ n \in Nat /\ c \in Nat /\ c + n <= Len(store) /\ Handle(Interval(c, n))
      /\ \/ Last(run.page) /\ run' = NoRun /\ needsBackfill' = FALSE
         \/ run' = [pc |-> "asked", cursor |-> lastSeen', page |-> <<>>] /\ needsBackfill' = needsBackfill
  BY PageTaken
<1>3. /\ Passed' /\ delivered' \in Seq(Seqs) /\ Seqs' = Seqs
      /\ lastSeen' \in 0..Len(store) /\ lastSeen <= lastSeen' /\ (n > 0 => c + n <= lastSeen')
      /\ Missing' \subseteq Missing
  BY <1>1, <1>2, HandlerStep
<1>4. Len(store) \in Nat /\ lastSeen \in Nat /\ Seqs = 1..Len(store) /\ c <= lastSeen /\ needsBackfill
  BY <1>1, Parts DEF Running
<1>5. run' \in RunUpTo(Len(store)) /\ run'.pc # "answered" /\ (run'.pc = "idle" => Last(run.page))
  <2>1. CASE Last(run.page) /\ run' = NoRun
    <3>1. NoRun \in RunUpTo(Len(store))
      BY <1>3, <1>4, RunTyped
    <3>2. QED
      BY <2>1, <3>1 DEF NoRun
  <2>2. CASE run' = [pc |-> "asked", cursor |-> lastSeen', page |-> <<>>]
    <3>1. [pc |-> "asked", cursor |-> lastSeen', page |-> <<>>] \in RunUpTo(Len(store))
      BY <1>3, <1>4, RunTyped
    <3>2. QED
      BY <2>2, <3>1
  <2>3. QED
    BY <1>2, <2>1, <2>2
<1>6. TypeOK'
  <2>1. run' \in [pc : {"idle", "asked", "answered"}, cursor : 0..Len(store), page : Seq(Seqs)]
    BY <1>4, <1>5 DEF RunUpTo
  <2>2. needsBackfill' \in BOOLEAN
    BY <1>1, <1>2 DEF TypeOK
  <2>3. QED
    BY <1>1, <1>3, <2>1, <2>2 DEF TypeOK
<1>7. Running'
  <2>1. CASE run' = NoRun
    BY <1>1, <2>1 DEF Running, NoRun
  <2>2. CASE run' = [pc |-> "asked", cursor |-> lastSeen', page |-> <<>>] /\ needsBackfill' = needsBackfill
    <3>1. run'.pc = "asked" /\ run'.cursor = lastSeen' /\ lastSeen' <= lastSeen'
      BY <1>3, <2>2
    <3>2. QED
      BY <1>1, <1>4, <2>2, <3>1 DEF Running
  <2>3. QED
    BY <1>2, <2>1, <2>2
<1>8. ASSUME Last(run.page), connected PROVE Covered(0)'
  <2>1. Covered(c + n)
    BY <1>1, <1>8 DEF Reached
  <2>2. ASSUME NEW i \in Missing' \ lost, i > lastSeen' PROVE OnLive(live, i)
    <3>1. i \in Missing \ lost /\ i \in Nat
      BY <1>3, <1>4 DEF Missing
    <3>2. i > lastSeen /\ i > c + n
      BY <1>2, <1>3, <1>4, <2>2, <3>1
    <3>3. QED
      BY <2>1, <3>1, <3>2 DEF Covered
  <2>3. QED
    BY <1>1, <2>2 DEF Covered
<1>9. Reached'
  BY <1>1, <1>5, <1>8 DEF Reached
<1>10. QED
  BY <1>3, <1>6, <1>7, <1>9 DEF Inv

-----------------------------------------------------------------------------
(* The invariant                                                           *)

LEMMA InitInv ==
    ASSUME Init
    PROVE  Inv
<1>1. Len(store) = 0 /\ Seqs = 1..0 /\ <<>> \in Seq(Seqs)
  BY DEF Init, Seqs
<1>2. run \in [pc : {"idle", "asked", "answered"}, cursor : 0..Len(store), page : Seq(Seqs)]
  <2>1. NoRun \in RunUpTo(0)
    <3>1. 0 \in Nat /\ 0 \in 0..0
      OBVIOUS
    <3>2. QED
      BY <3>1, RunTyped
  <2>2. QED
    BY <1>1, <2>1 DEF Init, RunUpTo
<1>3. TypeOK
  <2>1. store \in Seq({"web", "cli"}) /\ live \in Seq(Seqs) /\ delivered \in Seq(Seqs)
    BY <1>1 DEF Init
  <2>2. resends \in 0..MaxResends /\ drops \in 0..MaxDrops /\ failures \in 0..MaxFailures
    BY BoundsAssumption DEF Init
  <2>3. lastSeen \in 0..Len(store) /\ lost \subseteq Seqs
    BY <1>1 DEF Init
  <2>4. QED
    BY <1>2, <2>1, <2>2, <2>3 DEF Init, TypeOK
<1>4. Passed /\ Running /\ Reached
  BY DEF Init, Passed, InOrder, Caught, Running, Reached, NoRun
<1>5. QED
  BY <1>3, <1>4 DEF Inv

LEMMA NextInv ==
    ASSUME Inv, Next
    PROVE  Inv'
<1>1. CASE WebSend
  BY <1>1, HubSends DEF WebSend, StoresWeb, Inv, TypeOK
<1>2. CASE CliSend
  BY <1>2, HubSends DEF CliSend, StoresCli, Inv, TypeOK
<1>3. CASE \E i \in Seqs : WebResend(i)
  <2>1. /\ UNCHANGED <<connected, hasConnectedOnce, cli, needsBackfill, run, lost, bounds>>
        /\ resends' = resends + 1 /\ resends < MaxResends /\ EmitsAgain
    BY <1>3 DEF WebResend, EmitsAgain
  <2>2. resends' \in 0..MaxResends
    BY <2>1, BoundsAssumption DEF Inv, TypeOK
  <2>3. QED
    BY <2>1, <2>2, HubSends
<1>4. CASE HubAnswer
  BY <1>4, HubAnswers
<1>5. CASE Receive
  BY <1>5, Receives
<1>6. CASE Disconnect
  BY <1>6, Disconnects
<1>7. CASE Connect
  BY <1>7, Connects
<1>8. CASE TakePage
  BY <1>8, Takes
<1>9. CASE BackfillFails
  BY <1>9, Fails
<1>10. QED
  BY <1>1, <1>2, <1>3, <1>4, <1>5, <1>6, <1>7, <1>8, <1>9 DEF Next

LEMMA StutterInv ==
    ASSUME Inv, UNCHANGED vars
    PROVE  Inv'
<1>1. /\ UNCHANGED <<store, resends, connected, hasConnectedOnce, live, lastSeen, delivered>>
      /\ UNCHANGED <<needsBackfill, run, lost, drops, failures>>
  BY DEF vars, hub, cli, bounds
<1>2. TypeOK' /\ Passed' /\ Running'
  BY <1>1 DEF Inv, TypeOK, Seqs, Passed, InOrder, Caught, Running
<1>3. Reached'
  BY <1>1 DEF Inv, Reached, Covered, Missing, Seqs, Got
<1>4. QED
  BY <1>2, <1>3 DEF Inv

(* What the properties below rest on: the order of what was handed over,   *)
(* and that everything not given up is on the socket or owed by a run.     *)
THEOREM DeliveryInvariant == Spec => []Inv
<1>1. Inv /\ [Next]_vars => Inv'
  BY NextInv, StutterInv
<1>2. QED
  BY InitInv, <1>1, PTL DEF Spec

(* Each variable keeps its type: every number on the socket, in a page and *)
(* among the ones handed over is the number of a stored message.           *)
THEOREM DeliveryTypeCorrect == Spec => []TypeOK
BY DeliveryInvariant, PTL DEF Inv

(* handleIncomingMessage hands nothing over twice or after a later one,    *)
(* however live messages, pages and repeated requests interleave.          *)
THEOREM DeliveryInOrder == Spec => []InOrder
BY DeliveryInvariant, PTL DEF Inv, Passed

(* A message is jumped over only by a live one while a backfill is owed.   *)
THEOREM DeliveryJumpsExplained == Spec => JumpsExplained
<1> DEFINE Jumps == \A i \in Missing \ lost :
                        lastSeen < i /\ i < lastSeen' /\ i \notin Got' => needsBackfill
<1>1. Inv /\ UNCHANGED lastSeen => Jumps
  BY Parts DEF Inv, Missing
<1>2. Inv /\ Receive => Jumps
  <2>1. SUFFICES ASSUME Inv, Receive, NEW i \in Missing \ lost, lastSeen < i, i < lastSeen', ~needsBackfill
                 PROVE  FALSE
    OBVIOUS
  <2> DEFINE h == Head(live)
  <2>2. TypeOK /\ Running /\ Reached /\ live # <<>> /\ UNCHANGED store
    BY <2>1 DEF Inv, Receive, hub
  <2>3. h \in 1..Len(store) /\ h = live[1] /\ Handle(Interval(h - 1, 1)) /\ h - 1 \in Nat /\ (h - 1) + 1 = h
    BY <2>1, HeadIs
  <2> HIDE DEF h
  <2>4. live \in Seq(1..Len(store)) /\ Len(store) \in Nat /\ lastSeen \in Nat /\ i \in Nat
    BY <2>2, Parts DEF Missing
  <2>5. lastSeen' = lastSeen \/ lastSeen' = h
    <3>1. (h - 1) + 1 <= Len(store) /\ 1 \in Nat
      BY <2>3, <2>4
    <3>2. QED
      BY <2>1, <2>2, <2>3, <3>1, HandlerStep
  <2>6. i < h
    BY <2>1, <2>3, <2>4, <2>5
  <2>7. OnLive(live, i)
    <3>1. Covered(0)
      BY <2>1, <2>2 DEF Running, Reached
    <3>2. i > lastSeen /\ i > 0
      BY <2>1, <2>4
    <3>3. QED
      BY <2>1, <3>1, <3>2 DEF Covered
  <2>8. h <= i
    BY <2>2, <2>3, <2>4, <2>6, <2>7, OnLiveTail
  <2>9. QED
    BY <2>3, <2>4, <2>6, <2>8
<1>3. Inv /\ TakePage => Jumps
  <2>1. SUFFICES ASSUME Inv, TakePage PROVE needsBackfill
    OBVIOUS
  <2>2. QED
    BY <2>1 DEF TakePage, Inv, Running
<1>4. Inv /\ [Next]_vars => Jumps
  <2>1. Next => Receive \/ TakePage \/ UNCHANGED lastSeen
    BY DEF Next, WebSend, CliSend, HubAnswer, WebResend, Disconnect, Connect, BackfillFails, cli
  <2>2. UNCHANGED vars => UNCHANGED lastSeen
    BY DEF vars, cli
  <2>3. QED
    BY <1>1, <1>2, <1>3, <2>1, <2>2
<1>5. QED
  BY <1>4, DeliveryInvariant, PTL DEF JumpsExplained, Spec
=============================================================================
