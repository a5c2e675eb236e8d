-------------------------- MODULE EventStreamProofs --------------------------
(***************************************************************************)
(* Proofs about EventStream, for any clients, sizes of the ring buffer and *)
(* of the plugin's memory, and numbers of messages, breaks and restarts.   *)
(*                                                                         *)
(* The argument is that a stream carries, in order, what its client has    *)
(* not got: that holds when it is opened because the buffer holds the last *)
(* messages without a gap, and the record a client names when it resumes   *)
(* is not before what it got and not after what it misses.                 *)
(***************************************************************************)
EXTENDS EventStream, SequenceTheorems, TLAPS

Got(c) == ToSet(handled[c]) \cup ({busy[c]} \ {0})

(* What the client got, or nobody promised to it.                           *)
Dealt(c) == Got(c) \cup excused[c]

(* Of the messages up to p, the wire w carries in order some that are not   *)
(* in g, and with each all before it that are not in x.                     *)
WireGood(w, g, x, p) ==
  \A j \in 1..Len(w) : w[j].msg # 0 =>
    /\ w[j].msg <= p
    /\ \A m \in g : m < w[j].msg
    /\ \A i \in 1..(j - 1) : w[i].msg < w[j].msg
    /\ \A k \in 1..(w[j].msg - 1) :
         k \in x \/ \E i \in 1..(j - 1) : w[i].msg = k

(* It carries all that are not in x.                                        *)
WireComplete(w, x, p) ==
  \A k \in 1..p : k \in x \/ \E i \in 1..Len(w) : w[i].msg = k

(* The buffer holds the last messages.                                      *)
BufferGood ==
  /\ \A i \in 1..Len(records) : records[i].msg = published - Len(records) + i
  /\ nextSequence <= published + 1

InOrder(h, b) ==
  /\ \A i, j \in 1..Len(h) : i < j => h[i] < h[j]
  /\ b # 0 => \A i \in 1..Len(h) : h[i] < b

ClientGood(c) ==
  /\ Dealt(c) \subseteq 1..published
  /\ InOrder(handled[c], busy[c])
  /\ \A m \in Got(c) : 1..m \subseteq Dealt(c)
  /\ WireGood(wire[c], Got(c), Dealt(c), published)
  /\ stream[c] = "open" => WireComplete(wire[c], Dealt(c), published)
  /\ \A r \in MessageRecord : r.id = lastEventId[c] =>
       /\ r.msg <= published /\ 1..r.msg \subseteq Dealt(c)
       /\ \A m \in Got(c) : m <= r.msg
  /\ \A r \in MessageRecord : r.id \in seen[c] => r.msg \in Dealt(c)

IInv == TypeOK /\ BufferGood /\ \A c \in Client : ClientGood(c)

-----------------------------------------------------------------------------
LEMMA RecordFacts ==
  /\ \A r \in MessageRecord :
       /\ r.event = "message.created" /\ r.msg \in 1..MaxMessages
       /\ r.id # NoId /\ r.id # Heartbeat.id
  /\ \A r, q \in MessageRecord : r.id = q.id => r.msg = q.msg
  /\ Heartbeat.msg = 0 /\ Heartbeat.event # "message.created"
<1>1. \A n, m, a, b : <<n, m>> = <<a, b>> => n = a /\ m = b
  OBVIOUS
<1>2. \A n, m : <<n, m>> # <<>>
  OBVIOUS
<1> QED BY <1>1, <1>2, HubAssumption, SMTT(20) DEF MessageRecord, Record, Heartbeat, NoId

(* Wires that lose their first record, all from some record on, or gain one.*)
LEMMA WireTail ==
  ASSUME NEW w \in Seq(MessageRecord \cup {Heartbeat}), w # <<>>,
         NEW g \in SUBSET Nat, NEW x \in SUBSET Nat, NEW p \in Nat,
         NEW h \in SUBSET Nat, NEW y \in SUBSET Nat,
         WireGood(w, g, x, p),
         h \subseteq g \cup ({w[1].msg} \ {0}), x \subseteq y,
         w[1].msg # 0 => w[1].msg \in y
  PROVE  /\ WireGood(Tail(w), h, y, p)
         /\ WireComplete(w, x, p) => WireComplete(Tail(w), y, p)
<1> DEFINE t == Tail(w)
           l == Len(w)
<1>1. /\ l \in Nat \ {0} /\ Len(t) = l - 1
      /\ \A i \in 1..(l - 1) : t[i] = w[i + 1]
  BY HeadTailProperties
<1>2. \A i \in 1..l : w[i].msg \in Nat
  BY RecordFacts, HubAssumption
<1> HIDE DEF t, l
<1>3. \A k \in Nat \ {0}, j \in 1..l : (\E i \in 1..j : w[i].msg = k) =>
        k \in y \/ \E i \in 1..(j - 1) : t[i].msg = k
  <2> SUFFICES ASSUME NEW k \in Nat \ {0}, NEW j \in 1..l, NEW i \in 1..j, w[i].msg = k
               PROVE  k \in y \/ \E n \in 1..(j - 1) : t[n].msg = k
    OBVIOUS
  <2>1. CASE i = 1
    BY <2>1
  <2>2. CASE i # 1
    <3>1. i - 1 \in 1..(j - 1) /\ i - 1 \in 1..(l - 1) /\ (i - 1) + 1 = i
      BY <1>1, <2>2
    <3>2. t[i - 1] = w[i]
      BY <1>1, <3>1
    <3> QED BY <3>1, <3>2
  <2> QED BY <2>1, <2>2
<1>4. WireGood(t, h, y, p)
  <2> SUFFICES ASSUME NEW j \in 1..(l - 1), t[j].msg # 0
               PROVE  /\ t[j].msg <= p
                      /\ \A m \in h : m < t[j].msg
                      /\ \A i \in 1..(j - 1) : t[i].msg < t[j].msg
                      /\ \A k \in 1..(t[j].msg - 1) :
                           k \in y \/ \E i \in 1..(j - 1) : t[i].msg = k
    BY <1>1 DEF WireGood
  <2>1. t[j] = w[j + 1] /\ j + 1 \in 1..l /\ j \in 1..l
    BY <1>1, SMTT(20)
  <2>1a. (j + 1) - 1 = j /\ 1 \in 1..j
    BY <1>1
  <2>2. /\ w[j + 1].msg <= p /\ \A m \in g : m < w[j + 1].msg
        /\ \A i \in 1..j : w[i].msg < w[j + 1].msg
        /\ \A k \in 1..(w[j + 1].msg - 1) : k \in x \/ \E i \in 1..j : w[i].msg = k
    BY <2>1, <2>1a DEF WireGood, l
  <2>3. \A m \in h : m < t[j].msg
    BY <2>1, <2>1a, <2>2
  <2>4. \A i \in 1..(j - 1) : t[i].msg < t[j].msg
    <3>1. \A i \in 1..(j - 1) : i + 1 \in 1..j /\ t[i] = w[i + 1]
      BY <1>1, SMTT(20)
    <3> QED BY <2>1, <2>2, <3>1
  <2>5. \A k \in 1..(t[j].msg - 1) : k \in y \/ \E i \in 1..(j - 1) : t[i].msg = k
    <3>1. \A k \in 1..(t[j].msg - 1) : k \in Nat \ {0}
      BY <1>2, <2>1
    <3> QED BY <1>3, <2>1, <2>2, <3>1
  <2> QED BY <2>1, <2>2, <2>3, <2>4, <2>5
<1>5. WireComplete(w, x, p) => WireComplete(t, y, p)
  <2> SUFFICES ASSUME WireComplete(w, x, p), NEW k \in 1..p
               PROVE  k \in y \/ \E i \in 1..(l - 1) : t[i].msg = k
    BY <1>1 DEF WireComplete
  <2>1. k \in x \/ \E i \in 1..l : w[i].msg = k
    BY DEF WireComplete, l
  <2>2. l \in 1..l /\ k \in Nat \ {0}
    BY <1>1
  <2> QED BY <1>3, <2>1, <2>2
<1> QED BY <1>4, <1>5 DEF t

LEMMA WirePrefix ==
  ASSUME NEW w \in Seq(MessageRecord \cup {Heartbeat}), NEW k \in 0..Len(w),
         NEW g, NEW x, NEW p, WireGood(w, g, x, p)
  PROVE  /\ SubSeq(w, 1, k) \in Seq(MessageRecord \cup {Heartbeat})
         /\ WireGood(SubSeq(w, 1, k), g, x, p)
<1> DEFINE v == SubSeq(w, 1, k)
<1>1. k \in Nat /\ k <= Len(w) /\ Len(w) \in Nat
  OBVIOUS
<1>2. \A i \in 1..k : w[i] \in MessageRecord \cup {Heartbeat}
  BY <1>1
<1>3. /\ v \in Seq(MessageRecord \cup {Heartbeat})
      /\ Len(v) = IF 1 <= k THEN k - 1 + 1 ELSE 0
      /\ \A i \in 1..(k - 1 + 1) : v[i] = w[1 + i - 1]
  <2>1. 1 \in Int /\ k \in Int
    BY <1>1
  <2> QED BY <1>2, <2>1, SubSeqProperties
<1>4. Len(v) = k /\ \A i \in 1..k : v[i] = w[i]
  BY <1>1, <1>3
<1> HIDE DEF v
<1>5. \A j \in 1..k : j \in 1..Len(w) /\ \A i \in 1..(j - 1) : i \in 1..k
  BY <1>1
<1>6. WireGood(v, g, x, p)
  BY <1>4, <1>5 DEF WireGood
<1> QED BY <1>3, <1>6 DEF v

LEMMA WireAppend ==
  ASSUME NEW w \in Seq(MessageRecord \cup {Heartbeat}),
         NEW r \in MessageRecord \cup {Heartbeat},
         NEW g \in SUBSET Nat, NEW x \in SUBSET Nat, NEW p \in Nat,
         NEW q \in Nat, p <= q,
         WireGood(w, g, x, p), WireComplete(w, x, p), \A m \in g : m <= p,
         q = IF r.msg = 0 THEN p ELSE p + 1, r.msg # 0 => r.msg = q
  PROVE  /\ Append(w, r) \in Seq(MessageRecord \cup {Heartbeat})
         /\ WireGood(Append(w, r), g, x, q)
         /\ WireComplete(Append(w, r), x, q)
<1> DEFINE v == Append(w, r)
           l == Len(w)
<1>1. /\ v \in Seq(MessageRecord \cup {Heartbeat}) /\ Len(v) = l + 1 /\ l \in Nat
      /\ \A i \in 1..l : v[i] = w[i]
      /\ v[l + 1] = r
  BY AppendProperties
<1> HIDE DEF v, l
<1>2. \A i \in 1..l : w[i].msg <= p
  BY RecordFacts DEF WireGood, l
<1>3. \A j \in 1..(l + 1) : (j = l + 1 \/ j \in 1..l) /\ \A i \in 1..(j - 1) : i \in 1..l
  BY <1>1
<1>4. WireGood(v, g, x, q)
  <2> SUFFICES ASSUME NEW j \in 1..(l + 1), v[j].msg # 0
               PROVE  /\ v[j].msg <= q
                      /\ \A m \in g : m < v[j].msg
                      /\ \A i \in 1..(j - 1) : v[i].msg < v[j].msg
                      /\ \A k \in 1..(v[j].msg - 1) :
                           k \in x \/ \E i \in 1..(j - 1) : v[i].msg = k
    BY <1>1 DEF WireGood
  <2>1. CASE j \in 1..l
    <3>1. /\ w[j].msg <= p
          /\ \A m \in g : m < w[j].msg
          /\ \A i \in 1..(j - 1) : w[i].msg < w[j].msg
          /\ \A k \in 1..(w[j].msg - 1) :
               k \in x \/ \E i \in 1..(j - 1) : w[i].msg = k
      BY <1>1, <2>1 DEF WireGood, l
    <3>2. v[j] = w[j] /\ \A i \in 1..(j - 1) : v[i] = w[i]
      BY <1>1, <1>3, <2>1
    <3>3. w[j].msg <= q
      <4>1. w[j].msg \in Nat
        BY <2>1, RecordFacts DEF l
      <4> QED BY <3>1, <4>1
    <3> QED BY <3>1, <3>2, <3>3
  <2>2. CASE j = l + 1
    <3>1. v[j] = r /\ r.msg = p + 1 /\ q = p + 1 /\ j - 1 = l
      BY <1>1, <2>2
    <3>2. \A i \in 1..l : v[i].msg < p + 1
      <4>1. \A i \in 1..l : w[i].msg \in Nat
        BY RecordFacts DEF l
      <4> QED BY <1>1, <1>2, <4>1
    <3>3. \A k \in 1..p : k \in x \/ \E i \in 1..l : v[i].msg = k
      BY <1>1 DEF WireComplete, l
    <3>4. 1..(p + 1 - 1) = 1..p /\ \A m \in g : m < p + 1
      OBVIOUS
    <3> QED BY <3>1, <3>2, <3>3, <3>4
  <2> QED BY <1>3, <2>1, <2>2
<1>5. WireComplete(v, x, q)
  <2> SUFFICES ASSUME NEW k \in 1..q
               PROVE  k \in x \/ \E i \in 1..(l + 1) : v[i].msg = k
    BY <1>1 DEF WireComplete
  <2>1. CASE k \in 1..p
    <3>1. k \in x \/ \E i \in 1..l : w[i].msg = k
      BY <2>1 DEF WireComplete, l
    <3>2. \A i \in 1..l : i \in 1..(l + 1) /\ v[i] = w[i]
      BY <1>1
    <3> QED BY <3>1, <3>2
  <2>2. CASE k \notin 1..p
    <3>1. r.msg = k /\ l + 1 \in 1..(l + 1)
      BY <1>1, <2>2
    <3> QED BY <1>1, <3>1
  <2> QED BY <2>1, <2>2
<1> QED BY <1>1, <1>4, <1>5 DEF v

-----------------------------------------------------------------------------
LEMMA DealtBounds ==
  ASSUME IInv, NEW c \in Client
  PROVE  /\ published \in Nat /\ published <= MaxMessages
         /\ Got(c) \subseteq Nat /\ Dealt(c) \subseteq Nat
         /\ Got(c) \subseteq 1..published /\ Dealt(c) \subseteq 1..published
<1>1. published \in Nat /\ published <= MaxMessages
  BY HubAssumption DEF IInv, TypeOK, HubTypeOK
<1>2. Dealt(c) \subseteq 1..published
  BY DEF IInv, ClientGood
<1>3. Got(c) \subseteq Dealt(c)
  BY DEF Dealt
<1> QED BY <1>1, <1>2, <1>3

(* What is replayed follows the record that the client names, and is all    *)
(* that was published since.                                                *)
LEMMA Replay ==
  ASSUME IInv, NEW c \in Client
  PROVE  LET w == ReplayAfter(lastEventId[c])
             x == Got(c) \cup IF Buffered(lastEventId[c]) THEN excused[c] ELSE 1..published
         IN /\ w \in Seq(MessageRecord \cup {Heartbeat})
            /\ WireGood(w, Got(c), x, published)
            /\ WireComplete(w, x, published)
<1> DEFINE id == lastEventId[c]
           x == Got(c) \cup IF Buffered(id) THEN excused[c] ELSE 1..published
           w == ReplayAfter(id)
           l == Len(records)
<1>1. /\ records \in Seq(MessageRecord) /\ l \in Nat /\ published \in Nat
      /\ \A i \in 1..l : /\ records[i] \in MessageRecord
                         /\ records[i].msg = published - l + i
  BY DEF IInv, TypeOK, HubTypeOK, BufferGood
<1>2. CASE ~Buffered(id)
  <2>1. w = <<>> /\ 1..published \subseteq x
    BY <1>2 DEF ReplayAfter
  <2> QED BY <2>1 DEF WireGood, WireComplete
<1>3. CASE Buffered(id)
  <2>1. PICK n \in 1..l : records[n].id = id
    BY <1>1, <1>3 DEF Buffered, ToSet
  <2> DEFINE k == published - l + n
  <2>2. \A i \in 1..l : records[i].id = id => i = n
    <3>1. \A i \in 1..l : records[i].id = id => records[i].msg = records[n].msg
      BY <1>1, <2>1, RecordFacts
    <3> QED BY <1>1, <3>1
  <2>3. SelectInSeq(records, LAMBDA r : r.id = id) = n
    <3> DEFINE I == {i \in 1..l : records[i].id = id}
    <3>1. I = {n}
      BY <2>1, <2>2
    <3>2. \A m \in {n} : (\A y \in {n} : m <= y) /\ m = n
      OBVIOUS
    <3>3. Min(I) = n
      BY <3>1, <3>2 DEF Min
    <3> QED BY <3>1, <3>3 DEF SelectInSeq
  <2>4. w = SubSeq(records, n + 1, l)
    BY <1>3, <2>3 DEF ReplayAfter
  <2>5. /\ w \in Seq(MessageRecord)
        /\ Len(w) = IF n + 1 <= l THEN l - (n + 1) + 1 ELSE 0
        /\ \A i \in 1..(l - (n + 1) + 1) : w[i] = records[(n + 1) + i - 1]
    <3>1. n + 1 \in Int /\ l \in Int /\ \A i \in (n + 1)..l : records[i] \in MessageRecord
      BY <1>1
    <3>2. /\ SubSeq(records, n + 1, l) \in Seq(MessageRecord)
          /\ Len(SubSeq(records, n + 1, l)) = IF n + 1 <= l THEN l - (n + 1) + 1 ELSE 0
          /\ \A i \in 1..(l - (n + 1) + 1) :
               SubSeq(records, n + 1, l)[i] = records[(n + 1) + i - 1]
      <4> HIDE DEF l
      <4> QED BY <3>1, SubSeqProperties
    <3> QED BY <2>4, <3>2, Zenon
  <2>6. /\ k \in 1..published /\ 1..k \subseteq x
        /\ \A m \in Got(c) : m <= k
    <3>1. /\ records[n] \in MessageRecord /\ records[n].msg = k
      BY <1>1
    <3>2. k <= published /\ 1..k \subseteq Dealt(c) /\ \A m \in Got(c) : m <= k
      BY <2>1, <3>1 DEF IInv, ClientGood
    <3>3. k \in 1..MaxMessages
      BY <3>1, RecordFacts
    <3> QED BY <1>1, <1>3, <3>2, <3>3 DEF Dealt
  <2>7. /\ Len(w) = published - k
        /\ \A i \in 1..Len(w) : w[i].msg = k + i /\ w[i] \in MessageRecord
    <3>1. Len(w) = l - n
      BY <1>1, <2>5
    <3>2. \A i \in 1..(l - n) : w[i] = records[n + i] /\ n + i \in 1..l
      <4>1. \A i \in 1..(l - n) : (n + 1) + i - 1 = n + i /\ i \in 1..(l - (n + 1) + 1)
        BY <1>1
      <4> QED BY <1>1, <2>5, <4>1
    <3>3. \A i \in 1..(l - n) : w[i].msg = published - l + (n + i)
      BY <1>1, <3>2
    <3>4. published - k = l - n /\ \A i \in 1..(l - n) : published - l + (n + i) = k + i
      BY <1>1
    <3> HIDE DEF w, l, k
    <3> QED BY <1>1, <3>1, <3>2, <3>3, <3>4
  <2> HIDE DEF w, l, k, x
  <2>8. \A m \in 1..published : m \in 1..k \/ m - k \in 1..(published - k)
    BY <1>1, <2>6
  <2>9. WireGood(w, Got(c), x, published)
    <3> SUFFICES ASSUME NEW j \in 1..(published - k)
                 PROVE  /\ w[j].msg <= published
                        /\ \A m \in Got(c) : m < w[j].msg
                        /\ \A i \in 1..(j - 1) : w[i].msg < w[j].msg
                        /\ \A m \in 1..(w[j].msg - 1) :
                             m \in x \/ \E i \in 1..(j - 1) : w[i].msg = m
      BY <2>7 DEF WireGood
    <3>1. w[j].msg = k + j /\ \A i \in 1..(j - 1) : w[i].msg = k + i
      BY <1>1, <2>6, <2>7
    <3>2. Got(c) \subseteq Nat
      BY DealtBounds
    <3>3. \A m \in 1..((k + j) - 1) : m \in 1..k \/ (m - k \in 1..(j - 1) /\ k + (m - k) = m)
      <4>1. k \in Nat /\ j \in Nat
        BY <1>1, <2>6
      <4> QED BY <4>1
    <3>4. k + j <= published /\ \A i \in 1..(j - 1) : k + i < k + j
      <4>1. k \in Nat /\ j \in 1..(published - k)
        BY <1>1, <2>6
      <4> QED BY <1>1, <4>1
    <3>5. \A m \in Got(c) : m < k + j
      <4>1. k \in Nat /\ j \in Nat /\ j > 0
        BY <1>1, <2>6
      <4> QED BY <2>6, <3>2, <4>1
    <3>6. \A m \in 1..((k + j) - 1) : m \in x \/ \E i \in 1..(j - 1) : w[i].msg = m
      BY <2>6, <3>1, <3>3
    <3>7. w[j].msg <= published /\ \A m \in Got(c) : m < w[j].msg
      BY <3>1, <3>4, <3>5
    <3>8. \A i \in 1..(j - 1) : w[i].msg < w[j].msg
      BY <3>1, <3>4
    <3>9. \A m \in 1..(w[j].msg - 1) : m \in x \/ \E i \in 1..(j - 1) : w[i].msg = m
      <4>1. w[j].msg - 1 = (k + j) - 1
        BY <3>1
      <4> QED BY <3>6, <4>1, Zenon
    <3> QED BY <3>7, <3>8, <3>9
  <2>10. WireComplete(w, x, published)
    <3>1. \A m \in 1..published : m \in x \/ (m - k \in 1..Len(w) /\ w[m - k].msg = m)
      BY <1>1, <2>6, <2>7, <2>8
    <3> QED BY <3>1 DEF WireComplete
  <2>11. w \in Seq(MessageRecord \cup {Heartbeat})
    BY <2>5
  <2> QED BY <2>9, <2>10, <2>11 DEF w, x
<1> QED BY <1>2, <1>3

-----------------------------------------------------------------------------
BudgetType ==
  [heartbeats : 0..MaxHeartbeats, breaks : 0..MaxBreaks, restarts : 0..MaxRestarts]

WireType == Seq(MessageRecord \cup {Heartbeat})

LEMMA SpendType ==
  ASSUME IInv, NEW what \in {"heartbeats", "breaks", "restarts"}, Spend(what)
  PROVE  budget' \in BudgetType
<1>1. /\ budget \in BudgetType /\ budget[what] \in Nat /\ budget[what] > 0
      /\ budget' = [budget EXCEPT ![what] = budget[what] - 1]
  BY StreamAssumption DEF IInv, TypeOK, BudgetType, Spend
<1> QED BY <1>1, StreamAssumption DEF BudgetType

(* A client that a step does not touch, while nothing is published.         *)
LEMMA Frame ==
  ASSUME NEW c \in Client, ClientGood(c), UNCHANGED published,
         handled'[c] = handled[c], busy'[c] = busy[c], excused'[c] = excused[c],
         wire'[c] = wire[c], stream'[c] = stream[c] \/ stream'[c] # "open",
         lastEventId'[c] = lastEventId[c], seen'[c] = seen[c]
  PROVE  ClientGood(c)'
BY DEF ClientGood, Dealt, Got

LEMMA InitIInv == Init => IInv
<1> SUFFICES ASSUME Init PROVE IInv
  OBVIOUS
<1> USE DEF Init, HubInit
<1>1. TypeOK
  BY HubAssumption, StreamAssumption DEF TypeOK, HubTypeOK
<1>2. BufferGood
  BY DEF BufferGood
<1>3. ASSUME NEW c \in Client
      PROVE  ClientGood(c)
  <2>1. Got(c) = {} /\ Dealt(c) = {}
    BY DEF Got, Dealt, ToSet
  <2>2. InOrder(handled[c], busy[c]) /\ WireGood(wire[c], {}, {}, published)
    BY DEF InOrder, WireGood
  <2>3. \A r \in MessageRecord : r.id # lastEventId[c] /\ r.id \notin seen[c]
    BY RecordFacts
  <2> QED BY <2>1, <2>2, <2>3 DEF ClientGood
<1> QED BY <1>1, <1>2, <1>3 DEF IInv

-----------------------------------------------------------------------------
(* The buffer after a message is published.                                 *)
LEMMA PublishBuffer ==
  ASSUME IInv, NEW r \in MessageRecord, r.msg = published + 1,
         records' = Trim(Append(records, r)), published' = published + 1
  PROVE  /\ records' \in Seq(MessageRecord) /\ Len(records') <= ReplayLimit
         /\ \A i \in 1..Len(records') :
              records'[i].msg = published' - Len(records') + i
<1> DEFINE rs == Append(records, r)
           l  == Len(records)
           o  == (l + 1) - ReplayLimit
<1>1. /\ l \in Nat /\ published \in Nat /\ ReplayLimit \in Nat \ {0}
      /\ records \in Seq(MessageRecord)
      /\ \A i \in 1..l : records[i].msg = published - l + i
  <2>1. /\ published \in Nat /\ ReplayLimit \in Nat \ {0}
        /\ records \in Seq(MessageRecord)
    BY HubAssumption DEF IInv, TypeOK, HubTypeOK
  <2>2. \A i \in 1..l : records[i].msg = published - l + i
    BY DEF IInv, BufferGood
  <2> QED BY <2>1, <2>2
<1>2. /\ rs \in Seq(MessageRecord) /\ Len(rs) = l + 1
      /\ \A i \in 1..l : rs[i] = records[i]
      /\ rs[l + 1] = r
  BY <1>1, AppendProperties
<1> HIDE DEF rs, l
<1>3. \A i \in 1..(l + 1) : rs[i].msg = (published + 1) - (l + 1) + i
  <2> SUFFICES ASSUME NEW i \in 1..(l + 1)
               PROVE  rs[i].msg = (published + 1) - (l + 1) + i
    OBVIOUS
  <2>1. CASE i \in 1..l
    <3>1. rs[i].msg = published - l + i
      BY <1>1, <1>2, <2>1
    <3> QED BY <1>1, <3>1
  <2>2. CASE i = l + 1
    <3>1. rs[i].msg = published + 1
      BY <1>2, <2>2
    <3> QED BY <1>1, <2>2, <3>1
  <2> QED BY <1>1, <2>1, <2>2
<1>4. CASE ~(l + 1 > ReplayLimit)
  <2>1. records' = rs
    BY <1>2, <1>4 DEF Trim, rs
  <2>2. Len(records') = l + 1 /\ l + 1 <= ReplayLimit
    BY <1>1, <1>2, <1>4, <2>1
  <2>3. \A i \in 1..(l + 1) : records'[i].msg = published' - (l + 1) + i
    BY <1>3, <2>1
  <2>4. records' \in Seq(MessageRecord)
    BY <1>2, <2>1
  <2> QED BY <2>2, <2>3, <2>4
<1>5. CASE l + 1 > ReplayLimit
  <2>1. records' = SubSeq(rs, o + 1, l + 1)
    BY <1>2, <1>5 DEF Trim, rs
  <2>2. o \in Nat /\ \A i \in (o + 1)..(l + 1) : rs[i] \in MessageRecord
    BY <1>1, <1>2, <1>5
  <2> HIDE DEF o
  <2>3. /\ SubSeq(rs, o + 1, l + 1) \in Seq(MessageRecord)
        /\ Len(SubSeq(rs, o + 1, l + 1)) =
             IF o + 1 <= l + 1 THEN (l + 1) - (o + 1) + 1 ELSE 0
        /\ \A i \in 1..((l + 1) - (o + 1) + 1) :
             SubSeq(rs, o + 1, l + 1)[i] = rs[(o + 1) + i - 1]
    <3>1. o + 1 \in Int /\ l + 1 \in Int
      BY <1>1, <2>2
    <3> QED BY <2>2, <3>1, SubSeqProperties
  <2>4. (l + 1) - o = ReplayLimit /\ o + 1 <= l + 1
    BY <1>1, <1>5 DEF o
  <2>5. Len(records') = ReplayLimit /\ records' \in Seq(MessageRecord)
    BY <1>1, <2>1, <2>2, <2>3, <2>4
  <2>6. \A i \in 1..ReplayLimit : records'[i].msg = (published + 1) - ReplayLimit + i
    <3> SUFFICES ASSUME NEW i \in 1..ReplayLimit
                 PROVE  records'[i].msg = (published + 1) - ReplayLimit + i
      OBVIOUS
    <3>1. /\ i \in 1..((l + 1) - (o + 1) + 1) /\ (o + 1) + i - 1 = o + i
          /\ o + i \in 1..(l + 1)
      BY <1>1, <2>2, <2>4
    <3>2. records'[i] = rs[o + i]
      BY <2>1, <2>3, <3>1
    <3>3. rs[o + i].msg = (published + 1) - (l + 1) + (o + i)
      BY <1>3, <3>1
    <3>4. (published + 1) - (l + 1) + (o + i) = (published + 1) - ReplayLimit + i
      BY <1>1, <2>2, <2>4
    <3> QED BY <3>2, <3>3, <3>4, Zenon
  <2> QED BY <1>1, <2>5, <2>6
<1> QED BY <1>4, <1>5

LEMMA PublishIInv ==
  ASSUME IInv, Publish
  PROVE  IInv'
<1> DEFINE r == Record(nextSequence, published + 1)
<1>1. /\ published \in Nat /\ published' = published + 1 /\ published' <= MaxMessages
      /\ nextSequence \in Nat /\ nextSequence' = nextSequence + 1
      /\ nextSequence >= 1 /\ nextSequence <= published + 1
      /\ records' = Trim(Append(records, r)) /\ wire' = WriteToAll(r)
      /\ UNCHANGED <<stream, clientVars, budget>>
  BY HubAssumption DEF IInv, TypeOK, HubTypeOK, BufferGood, Publish, PublishMessage
<1>2. r \in MessageRecord /\ r.msg = published + 1
  <2>1. nextSequence \in 1..MaxMessages /\ published + 1 \in 1..MaxMessages
    BY <1>1, HubAssumption
  <2> QED BY <2>1 DEF MessageRecord, Record
<1> HIDE DEF r
<1>3. /\ records' \in Seq(MessageRecord) /\ Len(records') <= ReplayLimit
      /\ \A i \in 1..Len(records') : records'[i].msg = published' - Len(records') + i
  BY <1>1, <1>2, PublishBuffer
<1>4. ASSUME NEW c \in Client
      PROVE  wire'[c] \in WireType /\ ClientGood(c)'
  <2>1. /\ wire[c] \in WireType /\ ClientGood(c)
        /\ wire'[c] = IF stream[c] = "open" THEN Append(wire[c], r) ELSE wire[c]
        /\ Got(c)' = Got(c) /\ Dealt(c)' = Dealt(c)
    BY <1>1 DEF IInv, TypeOK, HubTypeOK, WriteToAll, Got, Dealt, clientVars, WireType
  <2>2. /\ Got(c) \in SUBSET Nat /\ Dealt(c) \in SUBSET Nat
        /\ \A m \in Got(c) : m <= published
        /\ Dealt(c) \subseteq 1..(published + 1)
    BY <1>1, DealtBounds
  <2>3. CASE stream[c] = "open"
    <3>1. WireGood(wire[c], Got(c), Dealt(c), published) /\ WireComplete(wire[c], Dealt(c), published)
      BY <2>1, <2>3 DEF ClientGood
    <3>2. /\ wire'[c] \in WireType
          /\ WireGood(wire'[c], Got(c), Dealt(c), published + 1)
          /\ WireComplete(wire'[c], Dealt(c), published + 1)
      <4>1. r.msg # 0 /\ published + 1 \in Nat /\ published <= published + 1
        BY <1>1, <1>2
      <4> QED BY <1>1, <1>2, <2>1, <2>2, <2>3, <3>1, <4>1, WireAppend DEF WireType
    <3> QED BY <1>1, <2>1, <2>2, <3>2, RecordFacts DEF ClientGood, clientVars
  <2>4. CASE stream[c] # "open"
    <3>1. \A j \in 1..Len(wire[c]) : wire[c][j].msg \in Nat
      BY <2>1, RecordFacts DEF WireType
    <3>2. WireGood(wire[c], Got(c), Dealt(c), published + 1)
      BY <1>1, <2>1, <3>1 DEF ClientGood, WireGood
    <3> QED BY <1>1, <2>1, <2>2, <2>4, <3>2, RecordFacts DEF ClientGood, clientVars
  <2> QED BY <2>3, <2>4
<1>5. wire' \in [Client -> WireType]
  BY <1>1, <1>4 DEF WriteToAll
<1>6. TypeOK'
  BY <1>1, <1>3, <1>5, HubAssumption DEF IInv, TypeOK, HubTypeOK, clientVars, WireType
<1>7. BufferGood'
  BY <1>1, <1>3 DEF BufferGood
<1> QED BY <1>4, <1>6, <1>7 DEF IInv

LEMMA BeatIInv ==
  ASSUME IInv, NEW c \in Client, Beat(c)
  PROVE  IInv'
<1>1. /\ stream[c] = "open" /\ wire' = [wire EXCEPT ![c] = Append(wire[c], Heartbeat)]
      /\ UNCHANGED <<nextSequence, records, published, stream, clientVars>>
  BY DEF Beat, WriteHeartbeat
<1>2. budget' \in BudgetType
  BY SpendType DEF Beat
<1>3. wire \in [Client -> WireType] /\ published \in Nat
  BY DEF IInv, TypeOK, HubTypeOK, WireType
<1>4. /\ wire'[c] \in WireType /\ wire'[c] = Append(wire[c], Heartbeat)
      /\ WireGood(wire'[c], Got(c), Dealt(c), published)
      /\ WireComplete(wire'[c], Dealt(c), published)
  <2>1. WireGood(wire[c], Got(c), Dealt(c), published) /\ WireComplete(wire[c], Dealt(c), published)
    BY <1>1 DEF IInv, ClientGood
  <2>2. /\ Got(c) \in SUBSET Nat /\ Dealt(c) \in SUBSET Nat
        /\ \A m \in Got(c) : m <= published
    BY <1>3, DealtBounds
  <2>3. Heartbeat \in MessageRecord \cup {Heartbeat} /\ Heartbeat.msg = 0
    BY RecordFacts
  <2>4. wire[c] \in Seq(MessageRecord \cup {Heartbeat}) /\ published <= published
    BY <1>3 DEF WireType
  <2>5. /\ Append(wire[c], Heartbeat) \in Seq(MessageRecord \cup {Heartbeat})
        /\ WireGood(Append(wire[c], Heartbeat), Got(c), Dealt(c), published)
        /\ WireComplete(Append(wire[c], Heartbeat), Dealt(c), published)
    BY <1>3, <2>1, <2>2, <2>3, <2>4, WireAppend
  <2>6. wire'[c] = Append(wire[c], Heartbeat)
    BY <1>1, <1>3
  <2> QED BY <2>5, <2>6 DEF WireType
<1>5. ClientGood(c)'
  BY <1>1, <1>4 DEF IInv, ClientGood, Got, Dealt, clientVars
<1>6. \A d \in Client \ {c} : ClientGood(d)'
  BY <1>1, <1>3, Frame DEF IInv, clientVars
<1>7. TypeOK'
  BY <1>1, <1>2, <1>3, <1>4 DEF IInv, TypeOK, HubTypeOK, clientVars, BudgetType, WireType
<1>8. BufferGood'
  BY <1>1 DEF IInv, BufferGood
<1> QED BY <1>5, <1>6, <1>7, <1>8 DEF IInv

(* Of what is on the wire a prefix remains, and the stream is not open.     *)
LEMMA CutIInv ==
  ASSUME IInv, NEW C \in SUBSET Client,
         \A c \in C : stream'[c] = "broken"
                      /\ \E k \in 0..Len(wire[c]) : wire'[c] = SubSeq(wire[c], 1, k),
         \A c \in Client \ C : stream'[c] = stream[c] /\ wire'[c] = wire[c],
         DOMAIN wire' = Client, stream' \in [Client -> {"closed", "open", "broken"}],
         wire' = [c \in Client |-> wire'[c]],
         UNCHANGED <<published, clientVars>>
  PROVE  wire' \in [Client -> WireType] /\ \A c \in Client : ClientGood(c)'
<1>1. wire \in [Client -> WireType]
  BY DEF IInv, TypeOK, HubTypeOK, WireType
<1>2. ASSUME NEW c \in C
      PROVE  wire'[c] \in WireType /\ ClientGood(c)'
  <2>1. PICK k \in 0..Len(wire[c]) : wire'[c] = SubSeq(wire[c], 1, k)
    OBVIOUS
  <2>2. WireGood(wire[c], Got(c), Dealt(c), published) /\ wire[c] \in WireType
    BY <1>1 DEF IInv, ClientGood
  <2>3. wire'[c] \in WireType /\ WireGood(wire'[c], Got(c), Dealt(c), published)
    <3>1. /\ SubSeq(wire[c], 1, k) \in Seq(MessageRecord \cup {Heartbeat})
          /\ WireGood(SubSeq(wire[c], 1, k), Got(c), Dealt(c), published)
      BY <2>2, WirePrefix DEF WireType
    <3> QED BY <2>1, <3>1 DEF WireType
  <2> QED BY <2>3 DEF IInv, ClientGood, Got, Dealt, clientVars
<1>3. ASSUME NEW c \in Client \ C
      PROVE  wire'[c] \in WireType /\ ClientGood(c)'
  BY <1>1, Frame DEF IInv, clientVars
<1> QED BY <1>2, <1>3

LEMMA BreakIInv ==
  ASSUME IInv, NEW c \in Client, Break(c)
  PROVE  IInv'
<1>1. PICK k \in 0..Len(wire[c]) :
        /\ stream' = [stream EXCEPT ![c] = "broken"]
        /\ wire' = [wire EXCEPT ![c] = SubSeq(wire[c], 1, k)]
        /\ UNCHANGED <<nextSequence, records, published, clientVars>>
  BY DEF Break, BreakStream
<1>2. budget' \in BudgetType
  BY SpendType DEF Break
<1>3. wire \in [Client -> WireType] /\ stream \in [Client -> {"closed", "open", "broken"}]
  BY DEF IInv, TypeOK, HubTypeOK, WireType
<1>4. wire' \in [Client -> WireType] /\ \A d \in Client : ClientGood(d)'
  <2>1. /\ \A d \in {c} : stream'[d] = "broken"
                          /\ \E n \in 0..Len(wire[d]) : wire'[d] = SubSeq(wire[d], 1, n)
        /\ \A d \in Client \ {c} : stream'[d] = stream[d] /\ wire'[d] = wire[d]
        /\ DOMAIN wire' = Client /\ stream' \in [Client -> {"closed", "open", "broken"}]
        /\ wire' = [d \in Client |-> wire'[d]]
        /\ {c} \in SUBSET Client
    BY <1>1, <1>3
  <2> QED BY <1>1, <2>1, CutIInv
<1>5. TypeOK'
  BY <1>1, <1>2, <1>3, <1>4 DEF IInv, TypeOK, HubTypeOK, clientVars, BudgetType, WireType
<1>6. BufferGood'
  BY <1>1 DEF IInv, BufferGood
<1> QED BY <1>4, <1>5, <1>6 DEF IInv

LEMMA GatewayRestartsIInv ==
  ASSUME IInv, GatewayRestarts
  PROVE  IInv'
<1>1. PICK kept \in [Client -> 0..(MaxMessages + MaxHeartbeats)] : RestartHub(kept)
  BY DEF GatewayRestarts
<1>2. budget' \in BudgetType /\ UNCHANGED <<published, clientVars>>
  BY <1>1, SpendType DEF GatewayRestarts, RestartHub
<1>3. /\ wire \in [Client -> WireType] /\ stream \in [Client -> {"closed", "open", "broken"}]
      /\ published \in Nat
  BY DEF IInv, TypeOK, HubTypeOK, WireType
<1>4. wire' \in [Client -> WireType] /\ \A d \in Client : ClientGood(d)'
  <2> DEFINE C == {d \in Client : stream[d] = "open"}
  <2>1. \A d \in C : stream'[d] = "broken"
                     /\ \E k \in 0..Len(wire[d]) : wire'[d] = SubSeq(wire[d], 1, k)
    <3> SUFFICES ASSUME NEW d \in C
                 PROVE  stream'[d] = "broken"
                        /\ \E k \in 0..Len(wire[d]) : wire'[d] = SubSeq(wire[d], 1, k)
      OBVIOUS
    <3>1. kept[d] \in 0..Len(wire[d])
      <4>1. Len(wire[d]) \in Nat /\ kept[d] <= Len(wire[d])
        BY <1>1, <1>3 DEF RestartHub, WireType
      <4>2. kept[d] \in Nat
        BY HubAssumption, StreamAssumption
      <4> QED BY <4>1, <4>2
    <3>2. stream'[d] = "broken" /\ wire'[d] = SubSeq(wire[d], 1, kept[d])
      BY <1>1 DEF RestartHub
    <3> QED BY <3>1, <3>2
  <2>2. /\ \A d \in Client \ C : stream'[d] = stream[d] /\ wire'[d] = wire[d]
        /\ DOMAIN wire' = Client /\ stream' \in [Client -> {"closed", "open", "broken"}]
        /\ wire' = [d \in Client |-> wire'[d]]
        /\ C \in SUBSET Client
    BY <1>1, <1>3 DEF RestartHub
  <2> HIDE DEF C
  <2> QED BY <1>2, <2>1, <2>2, CutIInv
<1>5. /\ nextSequence' = 1 /\ records' = <<>>
      /\ stream' \in [Client -> {"closed", "open", "broken"}]
  BY <1>1, <1>3 DEF RestartHub
<1>6. TypeOK'
  BY <1>2, <1>4, <1>5, HubAssumption, SMTT(20)
       DEF IInv, TypeOK, HubTypeOK, clientVars, BudgetType, WireType
<1>7. BufferGood'
  BY <1>2, <1>3, <1>5 DEF BufferGood
<1> QED BY <1>4, <1>6, <1>7 DEF IInv

-----------------------------------------------------------------------------
LEMMA ConnectIInv ==
  ASSUME IInv, NEW c \in Client, Connect(c)
  PROVE  IInv'
<1> DEFINE w == ReplayAfter(lastEventId[c])
           x == Got(c) \cup IF Buffered(lastEventId[c]) THEN excused[c] ELSE 1..published
<1>1. /\ wire' = [wire EXCEPT ![c] = w] /\ stream' = [stream EXCEPT ![c] = "open"]
      /\ excused' = [excused EXCEPT ![c] =
                       IF Buffered(lastEventId[c]) THEN excused[c] ELSE 1..published]
      /\ UNCHANGED <<nextSequence, records, published, lastEventId, seen, busy,
                     handled, budget>>
  BY DEF Connect, Subscribe
<1>2. w \in WireType /\ WireGood(w, Got(c), x, published) /\ WireComplete(w, x, published)
  BY Replay DEF WireType
<1>3. /\ wire \in [Client -> WireType] /\ stream \in [Client -> {"closed", "open", "broken"}]
      /\ excused \in [Client -> SUBSET (1..MaxMessages)]
      /\ published \in Nat /\ published <= MaxMessages
  BY HubAssumption DEF IInv, TypeOK, HubTypeOK, WireType
<1> HIDE DEF w
<1>4. Got(c)' = Got(c) /\ Dealt(c)' = x
  BY <1>1, <1>3 DEF Got, Dealt
<1>5. Dealt(c) \subseteq x /\ x \subseteq 1..published
  <2>1. Dealt(c) \subseteq 1..published /\ Got(c) \subseteq 1..published
    BY DealtBounds
  <2> QED BY <2>1 DEF Dealt
<1> HIDE DEF x
<1>6. wire'[c] = w /\ stream'[c] = "open"
  BY <1>1, <1>3
<1>7. ClientGood(c)'
  BY <1>1, <1>2, <1>4, <1>5, <1>6 DEF IInv, ClientGood
<1>8. \A d \in Client \ {c} : ClientGood(d)'
  BY <1>1, <1>3, Frame DEF IInv
<1>9. TypeOK'
  <2>1. excused' \in [Client -> SUBSET (1..MaxMessages)]
    <3>1. 1..published \subseteq 1..MaxMessages
      BY <1>3, HubAssumption
    <3>2. (IF Buffered(lastEventId[c]) THEN excused[c] ELSE 1..published)
            \in SUBSET (1..MaxMessages)
      BY <1>3, <3>1
    <3> QED BY <1>1, <1>3, <3>2
  <2>2. wire' \in [Client -> WireType] /\ stream' \in [Client -> {"closed", "open", "broken"}]
    BY <1>1, <1>2, <1>3
  <2> QED BY <1>1, <2>1, <2>2 DEF IInv, TypeOK, HubTypeOK, WireType
<1>10. BufferGood'
  BY <1>1 DEF IInv, BufferGood
<1> QED BY <1>7, <1>8, <1>9, <1>10 DEF IInv

(* A heartbeat only takes its place as the last record that was read.       *)
LEMMA ReadHeartbeatIInv ==
  ASSUME IInv, NEW c \in Client, ReadRecord(c), Head(wire[c]) = Heartbeat
  PROVE  IInv'
<1>1. /\ wire[c] # <<>> /\ wire' = [wire EXCEPT ![c] = Tail(wire[c])]
      /\ lastEventId' = [lastEventId EXCEPT ![c] = Heartbeat.id]
      /\ UNCHANGED <<nextSequence, records, published, stream, handled, excused,
                     budget, seen, busy>>
  BY RecordFacts DEF ReadRecord, HandleRecord
<1>2. wire \in [Client -> WireType] /\ published \in Nat
      /\ lastEventId \in [Client -> {NoId, Heartbeat.id} \cup {r.id : r \in MessageRecord}]
  BY SMTT(20) DEF IInv, TypeOK, HubTypeOK, WireType
<1>3. wire[c][1].msg = 0 /\ Tail(wire[c]) \in WireType
  BY <1>1, <1>2, RecordFacts, HeadTailProperties DEF WireType
<1>4. /\ WireGood(Tail(wire[c]), Got(c), Dealt(c), published)
      /\ stream[c] = "open" => WireComplete(Tail(wire[c]), Dealt(c), published)
  <2>1. Got(c) \in SUBSET Nat /\ Dealt(c) \in SUBSET Nat
    BY DealtBounds
  <2>2. /\ WireGood(wire[c], Got(c), Dealt(c), published)
        /\ stream[c] = "open" => WireComplete(wire[c], Dealt(c), published)
    BY DEF IInv, ClientGood
  <2> QED BY <1>1, <1>2, <1>3, <2>1, <2>2, WireTail DEF WireType
<1>5. Got(c)' = Got(c) /\ Dealt(c)' = Dealt(c)
  BY <1>1 DEF Got, Dealt
<1>6. wire'[c] = Tail(wire[c]) /\ lastEventId'[c] = Heartbeat.id
  BY <1>1, <1>2
<1>7. ClientGood(c)'
  BY <1>1, <1>4, <1>5, <1>6, RecordFacts DEF IInv, ClientGood
<1>8. \A d \in Client \ {c} : ClientGood(d)'
  BY <1>1, <1>2, Frame DEF IInv
<1>9. TypeOK'
  BY <1>1, <1>2, <1>3 DEF IInv, TypeOK, HubTypeOK, WireType
<1>10. BufferGood'
  BY <1>1 DEF IInv, BufferGood
<1> QED BY <1>7, <1>8, <1>9, <1>10 DEF IInv

(* A message is the next one the client lacks, and either it is handed to   *)
(* Hermes or it was dealt with before.                                      *)
LEMMA ReadMessageIInv ==
  ASSUME IInv, NEW c \in Client, ReadRecord(c), Head(wire[c]) \in MessageRecord
  PROVE  IInv'
<1> DEFINE r == Head(wire[c])
<1>1. /\ wire[c] # <<>> /\ busy[c] = 0 /\ wire' = [wire EXCEPT ![c] = Tail(wire[c])]
      /\ lastEventId' = [lastEventId EXCEPT ![c] = r.id]
      /\ UNCHANGED <<nextSequence, records, published, stream, handled, excused, budget>>
  BY DEF ReadRecord, HandleRecord
<1>2. PICK keys \in Purged(seen[c]) :
        /\ seen' = [seen EXCEPT ![c] = keys \cup {r.id}]
        /\ busy' = [busy EXCEPT ![c] = IF r.id \in keys THEN 0 ELSE r.msg]
  BY RecordFacts DEF ReadRecord, HandleRecord
<1>3. /\ wire \in [Client -> WireType] /\ published \in Nat
      /\ lastEventId \in [Client -> {NoId, Heartbeat.id} \cup {q.id : q \in MessageRecord}]
      /\ seen \in [Client -> SUBSET {q.id : q \in MessageRecord}]
      /\ busy \in [Client -> 0..MaxMessages]
      /\ handled \in [Client -> Seq(1..MaxMessages)]
  BY DEF IInv, TypeOK, HubTypeOK, WireType
<1>4. keys \subseteq seen[c]
  BY <1>2 DEF Purged
<1>5. r = wire[c][1] /\ Tail(wire[c]) \in WireType /\ 1 \in 1..Len(wire[c])
  BY <1>1, <1>3, HeadTailProperties DEF WireType
<1>6. r \in MessageRecord /\ r.msg \in 1..MaxMessages /\ r.msg \in Nat /\ r.msg # 0
  BY RecordFacts, HubAssumption
<1> HIDE DEF r
<1>7. /\ r.msg <= published /\ \A m \in Got(c) : m < r.msg
      /\ \A k \in 1..(r.msg - 1) : k \in Dealt(c)
  <2>1. WireGood(wire[c], Got(c), Dealt(c), published)
    BY DEF IInv, ClientGood
  <2> QED BY <1>5, <1>6, <2>1 DEF WireGood
<1>8. /\ Got(c)' = IF r.id \in keys THEN Got(c) ELSE Got(c) \cup {r.msg}
      /\ Dealt(c)' = Got(c)' \cup excused[c]
  BY <1>1, <1>2, <1>3, <1>6 DEF Got, Dealt
<1>9. r.msg \in Dealt(c)' /\ Dealt(c) \subseteq Dealt(c)' /\ Dealt(c)' \subseteq Dealt(c) \cup {r.msg}
  <2>1. r.id \in keys => r.msg \in Dealt(c)
    BY <1>4, <1>6 DEF IInv, ClientGood
  <2> QED BY <1>8, <2>1 DEF Dealt
<1>10. 1..r.msg \subseteq Dealt(c)' /\ Dealt(c)' \subseteq 1..published
  <2>1. \A k \in 1..r.msg : k \in 1..(r.msg - 1) \/ k = r.msg
    BY <1>6
  <2>2. Dealt(c) \subseteq 1..published
    BY DealtBounds
  <2> QED BY <1>3, <1>6, <1>7, <1>9, <2>1, <2>2
<1>11. \A m \in Got(c)' : m <= r.msg
  <2>1. Got(c) \subseteq Nat
    BY DealtBounds
  <2> QED BY <1>6, <1>7, <1>8, <2>1
<1>12. wire'[c] = Tail(wire[c]) /\ lastEventId'[c] = r.id /\ seen'[c] = keys \cup {r.id}
       /\ busy'[c] = IF r.id \in keys THEN 0 ELSE r.msg
  BY <1>1, <1>2, <1>3
<1>13. ClientGood(c)'
  <2>1. InOrder(handled[c], busy'[c])
    <3>1. \A i \in 1..Len(handled[c]) : handled[c][i] \in Got(c)
      BY <1>3 DEF Got, ToSet
    <3>2. InOrder(handled[c], busy[c])
      BY DEF IInv, ClientGood
    <3> QED BY <1>7, <1>12, <3>1, <3>2 DEF InOrder
  <2>2. \A m \in Got(c)' : 1..m \subseteq Dealt(c)'
    <3>1. \A m \in Got(c) : 1..m \subseteq Dealt(c)
      BY DEF IInv, ClientGood
    <3> QED BY <1>8, <1>9, <1>10, <3>1
  <2>3. /\ WireGood(wire'[c], Got(c)', Dealt(c)', published)
        /\ stream[c] = "open" => WireComplete(wire'[c], Dealt(c)', published)
    <3>1. /\ Got(c) \in SUBSET Nat /\ Dealt(c) \in SUBSET Nat
          /\ Got(c)' \in SUBSET Nat /\ Dealt(c)' \in SUBSET Nat
      <4>1. Got(c) \in SUBSET Nat /\ Dealt(c) \in SUBSET Nat
        BY DealtBounds
      <4> QED BY <1>6, <1>8, <1>9, <4>1
    <3>2. /\ WireGood(wire[c], Got(c), Dealt(c), published)
          /\ stream[c] = "open" => WireComplete(wire[c], Dealt(c), published)
      BY DEF IInv, ClientGood
    <3>3. Got(c)' \subseteq Got(c) \cup ({wire[c][1].msg} \ {0})
          /\ wire[c][1].msg \in Dealt(c)'
      BY <1>5, <1>6, <1>8, <1>9
    <3>4. wire[c] \in Seq(MessageRecord \cup {Heartbeat})
      BY <1>3 DEF WireType
    <3> QED BY <1>1, <1>3, <1>9, <1>12, <3>1, <3>2, <3>3, <3>4, WireTail
  <2>4. \A q \in MessageRecord : q.id = r.id =>
          /\ q.msg <= published /\ 1..q.msg \subseteq Dealt(c)'
          /\ \A m \in Got(c)' : m <= q.msg
    BY <1>6, <1>7, <1>10, <1>11, RecordFacts
  <2>5. \A q \in MessageRecord : q.id \in seen'[c] => q.msg \in Dealt(c)'
    <3>1. \A q \in MessageRecord : q.id \in seen[c] => q.msg \in Dealt(c)
      BY DEF IInv, ClientGood
    <3>2. \A q \in MessageRecord : q.id = r.id => q.msg = r.msg
      BY <1>6, RecordFacts
    <3> QED BY <1>4, <1>9, <1>12, <3>1, <3>2
  <2> QED BY <1>1, <1>10, <1>12, <2>1, <2>2, <2>3, <2>4, <2>5 DEF ClientGood
<1>14. \A d \in Client \ {c} : ClientGood(d)'
  BY <1>1, <1>2, <1>3, Frame DEF IInv
<1>15. TypeOK'
  <2>1. busy' \in [Client -> 0..MaxMessages]
    BY <1>2, <1>3, <1>6, HubAssumption
  <2>2. seen' \in [Client -> SUBSET {q.id : q \in MessageRecord}]
    BY <1>2, <1>3, <1>4, <1>6
  <2>3. lastEventId' \in [Client -> {NoId, Heartbeat.id} \cup {q.id : q \in MessageRecord}]
    BY <1>1, <1>3, <1>6
  <2>4. wire' \in [Client -> WireType]
    BY <1>1, <1>3, <1>5
  <2> QED BY <1>1, <2>1, <2>2, <2>3, <2>4 DEF IInv, TypeOK, HubTypeOK, WireType
<1>16. BufferGood'
  BY <1>1 DEF IInv, BufferGood
<1> QED BY <1>13, <1>14, <1>15, <1>16 DEF IInv

LEMMA HermesDoneIInv ==
  ASSUME IInv, NEW c \in Client, HermesDone(c)
  PROVE  IInv'
<1> DEFINE h == handled[c]
           b == busy[c]
<1>1. /\ b # 0 /\ handled' = [handled EXCEPT ![c] = Append(h, b)]
      /\ busy' = [busy EXCEPT ![c] = 0]
      /\ UNCHANGED <<hubVars, lastEventId, seen, excused, budget>>
  BY DEF HermesDone
<1>2. /\ busy \in [Client -> 0..MaxMessages] /\ b \in 1..MaxMessages
      /\ handled \in [Client -> Seq(1..MaxMessages)] /\ h \in Seq(1..MaxMessages)
  BY <1>1, HubAssumption DEF IInv, TypeOK
<1>3. /\ handled'[c] = Append(h, b) /\ busy'[c] = 0
      /\ handled'[c] \in Seq(1..MaxMessages) /\ Len(handled'[c]) = Len(h) + 1
      /\ \A i \in 1..Len(h) : handled'[c][i] = h[i]
      /\ handled'[c][Len(h) + 1] = b /\ Len(h) \in Nat
      /\ DOMAIN handled'[c] = 1..(Len(h) + 1) /\ DOMAIN h = 1..Len(h)
  BY <1>1, <1>2, AppendProperties
<1>4. \A i \in 1..(Len(h) + 1) : i \in 1..Len(h) \/ i = Len(h) + 1
  BY <1>3
<1>5. Got(c)' = Got(c) /\ Dealt(c)' = Dealt(c)
  <2>1. ToSet(handled'[c]) = ToSet(h) \cup {b}
    BY <1>3, <1>4 DEF ToSet
  <2> QED BY <1>1, <1>3, <2>1 DEF Got, Dealt
<1>6. InOrder(handled'[c], 0)
  <2>1. InOrder(h, b)
    BY DEF IInv, ClientGood
  <2> HIDE DEF h, b
  <2> QED BY <1>1, <1>3, <1>4, <2>1 DEF InOrder
<1>7. ClientGood(c)'
  BY <1>1, <1>3, <1>5, <1>6 DEF IInv, ClientGood, hubVars
<1>8. \A d \in Client \ {c} : ClientGood(d)'
  BY <1>1, <1>2, Frame DEF IInv, hubVars
<1>9. TypeOK'
  BY <1>1, <1>2, <1>3, HubAssumption DEF IInv, TypeOK, HubTypeOK, hubVars
<1>10. BufferGood'
  BY <1>1 DEF IInv, BufferGood, hubVars
<1> QED BY <1>7, <1>8, <1>9, <1>10 DEF IInv

(* A stream is given up, and the message that Hermes had, if any, with it.  *)
LEMMA GiveUpIInv ==
  ASSUME IInv, NEW c \in Client,
         NEW last \in {lastEventId[c], NoId}, NEW keys \in {seen[c], {}},
         stream' = [stream EXCEPT ![c] = "closed"],
         wire' = [wire EXCEPT ![c] = <<>>],
         lastEventId' = [lastEventId EXCEPT ![c] = last],
         seen' = [seen EXCEPT ![c] = keys],
         busy' = [busy EXCEPT ![c] = 0],
         excused' = [excused EXCEPT ![c] = excused[c] \cup ({busy[c]} \ {0})],
         Spend("breaks"),
         UNCHANGED <<nextSequence, records, published, handled>>
  PROVE  IInv'
<1>1. budget' \in BudgetType
  BY SpendType
<1>2. /\ wire \in [Client -> WireType] /\ stream \in [Client -> {"closed", "open", "broken"}]
      /\ lastEventId \in [Client -> {NoId, Heartbeat.id} \cup {q.id : q \in MessageRecord}]
      /\ seen \in [Client -> SUBSET {q.id : q \in MessageRecord}]
      /\ busy \in [Client -> 0..MaxMessages]
      /\ excused \in [Client -> SUBSET (1..MaxMessages)]
  BY DEF IInv, TypeOK, HubTypeOK, WireType
<1>3. /\ wire'[c] = <<>> /\ stream'[c] = "closed" /\ lastEventId'[c] = last
      /\ seen'[c] = keys /\ busy'[c] = 0
      /\ excused'[c] = excused[c] \cup ({busy[c]} \ {0})
  BY <1>2
<1>4. Got(c)' \subseteq Got(c) /\ Dealt(c)' = Dealt(c)
  BY <1>3 DEF Got, Dealt
<1>5. InOrder(handled[c], 0)
  BY DEF IInv, ClientGood, InOrder
<1>6. WireGood(<<>>, Got(c)', Dealt(c)', published)
  BY DEF WireGood
<1>7. ClientGood(c)'
  BY <1>3, <1>4, <1>5, <1>6, RecordFacts DEF IInv, ClientGood
<1>8. \A d \in Client \ {c} : ClientGood(d)'
  BY <1>2, Frame DEF IInv
<1>9. TypeOK'
  <2>1. wire' \in [Client -> WireType] /\ stream' \in [Client -> {"closed", "open", "broken"}]
    BY <1>2 DEF WireType
  <2>2. busy' \in [Client -> 0..MaxMessages] /\ excused' \in [Client -> SUBSET (1..MaxMessages)]
    <3>1. busy[c] \in 0..MaxMessages /\ excused[c] \in SUBSET (1..MaxMessages)
      BY <1>2
    <3>2. excused[c] \cup ({busy[c]} \ {0}) \in SUBSET (1..MaxMessages)
      BY <3>1, HubAssumption
    <3> QED BY <1>2, <3>2, HubAssumption
  <2>3. /\ lastEventId' \in [Client -> {NoId, Heartbeat.id} \cup {q.id : q \in MessageRecord}]
        /\ seen' \in [Client -> SUBSET {q.id : q \in MessageRecord}]
    BY <1>2
  <2> QED BY <1>1, <2>1, <2>2, <2>3 DEF IInv, TypeOK, HubTypeOK, WireType, BudgetType
<1>10. BufferGood'
  BY DEF IInv, BufferGood
<1> QED BY <1>7, <1>8, <1>9, <1>10 DEF IInv

LEMMA NextIInv == IInv /\ [Next]_vars => IInv'
<1> SUFFICES ASSUME IInv, [Next]_vars PROVE IInv'
  OBVIOUS
<1>1. CASE Publish
  BY <1>1, PublishIInv
<1>2. CASE GatewayRestarts
  BY <1>2, GatewayRestartsIInv
<1>3. CASE \E c \in Client : Beat(c) \/ Break(c) \/ Connect(c)
  BY <1>3, BeatIInv, BreakIInv, ConnectIInv
<1>4. ASSUME NEW c \in Client, ReadRecord(c)
      PROVE  IInv'
  <2>1. Head(wire[c]) \in MessageRecord \cup {Heartbeat}
    <3>1. wire[c] # <<>> /\ wire[c] \in Seq(MessageRecord \cup {Heartbeat})
      BY <1>4 DEF ReadRecord, HandleRecord, IInv, TypeOK, HubTypeOK
    <3> QED BY <3>1, HeadTailProperties
  <2> QED BY <1>4, <2>1, ReadHeartbeatIInv, ReadMessageIInv
<1>5. CASE \E c \in Client : HermesDone(c)
  BY <1>5, HermesDoneIInv
<1>6. ASSUME NEW c \in Client, HermesFails(c)
      PROVE  IInv'
  <2>1. /\ lastEventId' = [lastEventId EXCEPT ![c] = lastEventId[c]]
        /\ seen' = [seen EXCEPT ![c] = seen[c]]
    BY <1>6 DEF HermesFails, IInv, TypeOK
  <2>2. excused' = [excused EXCEPT ![c] = excused[c] \cup ({busy[c]} \ {0})]
    BY <1>6 DEF HermesFails
  <2> QED BY <1>6, <2>1, <2>2, GiveUpIInv DEF HermesFails
<1>7. ASSUME NEW c \in Client, NEW last \in {lastEventId[c], NoId}, AdapterStops(c, last)
      PROVE  IInv'
  BY <1>7, GiveUpIInv DEF AdapterStops
<1>8. CASE UNCHANGED vars
  <2>1. \A c \in Client : ClientGood(c)'
    BY <1>8, Frame DEF vars, hubVars, clientVars, IInv
  <2> QED BY <1>8, <2>1 DEF vars, hubVars, clientVars, IInv, TypeOK, HubTypeOK, BufferGood
<1> QED BY <1>1, <1>2, <1>3, <1>4, <1>5, <1>6, <1>7, <1>8 DEF Next

-----------------------------------------------------------------------------
(* The inductive invariant holds in every reachable state.                  *)
THEOREM InductiveInvariant == Spec => []IInv
BY InitIInv, NextIInv, PTL DEF Spec

(* Every variable has its type, and the ring buffer keeps its limit.        *)
THEOREM TypeCorrect == Spec => []TypeOK
BY InductiveInvariant, PTL DEF IInv

(* However streams break, replays and live records meet and the gateway     *)
(* restarts, a client's messages reach Hermes in order and none twice.      *)
THEOREM MessagesAreInOrder == Spec => []HandledInOrderOnce
<1>1. IInv => HandledInOrderOnce
  <2> SUFFICES ASSUME IInv, NEW c \in Client
               PROVE  LET h == IF busy[c] = 0 THEN handled[c] ELSE Append(handled[c], busy[c])
                      IN \A i, j \in DOMAIN h : i < j => h[i] < h[j]
    BY DEF HandledInOrderOnce
  <2>1. /\ InOrder(handled[c], busy[c]) /\ handled[c] \in Seq(1..MaxMessages)
        /\ busy[c] \in 0..MaxMessages
    BY DEF IInv, ClientGood, TypeOK
  <2>2. CASE busy[c] = 0
    BY <2>1, <2>2 DEF InOrder
  <2>3. CASE busy[c] # 0
    <3> DEFINE h == handled[c]
               g == Append(h, busy[c])
    <3>1. /\ DOMAIN g = 1..(Len(h) + 1) /\ Len(h) \in Nat
          /\ \A i \in 1..Len(h) : g[i] = h[i]
          /\ g[Len(h) + 1] = busy[c]
      BY <2>1, AppendProperties
    <3> HIDE DEF h, g
    <3>2. \A i, j \in 1..Len(h) : i < j => h[i] < h[j]
      BY <2>1 DEF InOrder, h
    <3>3. \A i \in 1..Len(h) : h[i] < busy[c]
      BY <2>1, <2>3 DEF InOrder, h
    <3>4. \A i, j \in 1..(Len(h) + 1) : i < j =>
            i \in 1..Len(h) /\ (j \in 1..Len(h) \/ j = Len(h) + 1)
      BY <3>1
    <3>5. \A i, j \in DOMAIN g : i < j => g[i] < g[j]
      BY <3>1, <3>2, <3>3, <3>4
    <3> QED BY <2>3, <3>5 DEF h, g
  <2> QED BY <2>2, <2>3
<1> QED BY <1>1, InductiveInvariant, PTL

(* What is missing before a message that Hermes got was never promised.     *)
THEOREM GapsAreExplained == Spec => []NoUnexplainedGap
<1>1. IInv => NoUnexplainedGap
  BY DEF IInv, ClientGood, Dealt, Got, NoUnexplainedGap
<1> QED BY <1>1, InductiveInvariant, PTL

-----------------------------------------------------------------------------
(***************************************************************************)
(* EventStream implements Delivery, variable by variable: what the hub,    *)
(* the network and a client's resume id do either leaves what was promised *)
(* and handled as it is, or is one of Delivery's steps.  A record that is  *)
(* read may begin because the invariant holds after the step as well.      *)
(***************************************************************************)
LEMMA InitDelivers == Init => Feed!Init
BY DEF Init, HubInit, Feed!Init

LEMMA PublishDelivers == Publish => Feed!Publish
BY DEF Publish, PublishMessage, clientVars, Feed!Publish

(* A client that resumes with a buffered id keeps what it was promised.     *)
LEMMA ConnectDelivers ==
  ASSUME IInv, NEW c \in Client, Connect(c)
  PROVE  Feed!StartOver(c) \/ UNCHANGED Feed!vars
<1>1. /\ busy[c] = 0
      /\ UNCHANGED <<published, busy, handled>>
      /\ excused' = [excused EXCEPT ![c] =
                       IF Buffered(lastEventId[c]) THEN excused[c] ELSE 1..published]
  BY DEF Connect, Subscribe
<1>2. CASE Buffered(lastEventId[c])
  <2>1. excused' = excused
    BY <1>1, <1>2 DEF IInv, TypeOK
  <2> QED BY <1>1, <2>1 DEF Feed!vars
<1>3. CASE ~Buffered(lastEventId[c])
  BY <1>1, <1>3 DEF Feed!StartOver
<1> QED BY <1>2, <1>3

(* What a record begins is newer than all before it, with nothing left out  *)
(* that was promised.                                                       *)
LEMMA ReadDelivers ==
  ASSUME IInv, IInv', NEW c \in Client, ReadRecord(c)
  PROVE  (\E m \in 1..published : Feed!Begin(c, m)) \/ UNCHANGED Feed!vars
<1> DEFINE m == busy'[c]
<1>1. /\ busy[c] = 0 /\ UNCHANGED <<published, handled, excused>>
      /\ \E b : busy' = [busy EXCEPT ![c] = b]
  <2>1. CASE Head(wire[c]).event = "message.created"
    BY <2>1 DEF ReadRecord, HandleRecord
  <2>2. CASE Head(wire[c]).event # "message.created"
    BY <2>2 DEF ReadRecord, HandleRecord, IInv, TypeOK
  <2> QED BY <2>1, <2>2
<1>2. busy' = [busy EXCEPT ![c] = m] /\ m \in Nat
  BY <1>1, HubAssumption DEF IInv, TypeOK
<1>3. CASE m = 0
  <2>1. busy' = busy
    BY <1>1, <1>2, <1>3 DEF IInv, TypeOK
  <2> QED BY <1>1, <2>1 DEF Feed!vars
<1>4. CASE m # 0
  <2>1. /\ Dealt(c)' \subseteq 1..published
        /\ InOrder(handled[c], m)
        /\ \A k \in Got(c)' : 1..k \subseteq Dealt(c)'
    BY <1>1 DEF IInv, ClientGood
  <2>2. /\ m \in Got(c)' /\ m \in Dealt(c)'
        /\ Dealt(c)' = ToSet(handled[c]) \cup {m} \cup excused[c]
    BY <1>1, <1>4 DEF Got, Dealt
  <2>3. \A k \in ToSet(handled[c]) : k < m
    BY <1>4, <2>1 DEF InOrder, ToSet, IInv, TypeOK
  <2>4. 1..(m - 1) \subseteq ToSet(handled[c]) \cup excused[c]
    <3>1. 1..m \subseteq ToSet(handled[c]) \cup {m} \cup excused[c]
      BY <2>1, <2>2
    <3>2. \A k \in 1..(m - 1) : k \in 1..m /\ k # m
      BY <1>2
    <3> QED BY <3>1, <3>2
  <2>5. m \in 1..published
    BY <2>1, <2>2
  <2>6. Feed!Begin(c, m)
    BY <1>1, <1>2, <2>3, <2>4 DEF Feed!Begin, ToSet, Feed!ToSet
  <2> QED BY <2>5, <2>6
<1> QED BY <1>3, <1>4

LEMMA DoneDelivers ==
  ASSUME NEW c \in Client, HermesDone(c)
  PROVE  Feed!Finish(c)
BY DEF HermesDone, hubVars, Feed!Finish

(* A client that stops while it handles nothing has nothing to give up.     *)
LEMMA StopDelivers ==
  ASSUME IInv, NEW c \in Client,
         (\E last : AdapterStops(c, last)) \/ HermesFails(c)
  PROVE  Feed!GiveUp(c) \/ UNCHANGED Feed!vars
<1>1. /\ UNCHANGED <<published, handled>>
      /\ busy' = [busy EXCEPT ![c] = 0]
      /\ excused' = [excused EXCEPT ![c] = excused[c] \cup ({busy[c]} \ {0})]
  BY DEF AdapterStops, HermesFails
<1>2. CASE busy[c] = 0
  <2>1. busy' = busy
    BY <1>1, <1>2 DEF IInv, TypeOK
  <2>2. excused' = [excused EXCEPT ![c] = excused[c]]
    BY <1>1, <1>2
  <2>3. excused' = excused
    BY <2>2 DEF IInv, TypeOK
  <2> QED BY <1>1, <2>1, <2>3 DEF Feed!vars
<1>3. CASE busy[c] # 0
  BY <1>1, <1>3 DEF Feed!GiveUp
<1> QED BY <1>2, <1>3

LEMMA NextDelivers == IInv /\ IInv' /\ [Next]_vars => [Feed!Next]_(Feed!vars)
<1> SUFFICES ASSUME IInv, IInv', [Next]_vars
             PROVE  Feed!Next \/ UNCHANGED Feed!vars
  OBVIOUS
<1>1. CASE Publish
  BY <1>1, PublishDelivers DEF Feed!Next
<1>2. CASE GatewayRestarts
  BY <1>2 DEF GatewayRestarts, RestartHub, clientVars, Feed!vars
<1>3. ASSUME NEW c \in Client, Beat(c) \/ Break(c)
      PROVE  UNCHANGED Feed!vars
  BY <1>3 DEF Beat, Break, WriteHeartbeat, BreakStream, clientVars, Feed!vars
<1>4. CASE \E c \in Client : Connect(c)
  BY <1>4, ConnectDelivers DEF Feed!Next
<1>5. CASE \E c \in Client : ReadRecord(c)
  BY <1>5, ReadDelivers DEF Feed!Next
<1>6. CASE \E c \in Client : HermesDone(c)
  BY <1>6, DoneDelivers DEF Feed!Next
<1>7. CASE \E c \in Client : HermesFails(c) \/ \E last : AdapterStops(c, last)
  BY <1>7, StopDelivers DEF Feed!Next
<1>8. CASE UNCHANGED vars
  BY <1>8 DEF vars, hubVars, clientVars, Feed!vars
<1> QED BY <1>1, <1>2, <1>3, <1>4, <1>5, <1>6, <1>7, <1>8 DEF Next

(* Whatever the hub, the network and the clients do, each client handles    *)
(* one message at a time, in the order of publication, and leaves out only  *)
(* what nobody promised it (events.ts and the plugin's event stream).       *)
THEOREM StreamImplementsDelivery == Spec => ImplementsDelivery
<1>1. IInv /\ IInv' /\ [Next]_vars => [Feed!Next]_(Feed!vars)
  BY NextDelivers
<1> QED BY <1>1, InitDelivers, InductiveInvariant, PTL
        DEF Spec, ImplementsDelivery, Feed!Spec
=============================================================================
