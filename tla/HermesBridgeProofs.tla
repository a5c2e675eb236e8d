-------------------------- MODULE HermesBridgeProofs --------------------------
(***************************************************************************)
(* Proofs about HermesBridge, for any messages, any size of the memory of  *)
(* ids and any number of posts and restarts.  What the bridge does about a *)
(* repetition depends on the memory alone; the invariant relates it to the *)
(* posts that were taken.                                                  *)
(***************************************************************************)
EXTENDS HermesBridge, FiniteSetTheorems, SequenceTheorems, TLAPS

Entry == [id : Message, expired : BOOLEAN]

(* A post's place among the posted messages, and what its state implies.    *)
PostsAgree ==
  \A n \in Post :
    /\ request[n] = "none" <=> n \notin DOMAIN posted
    /\ request[n] = "sentReply" => n \in Replied
    /\ delivery[n] = "ok" => request[n] \in Positive
    /\ n \in Handed => n \in Taken /\ request[n] # "running"

(* Every id in the memory is that of a post that was taken, every post that *)
(* was taken has its id there or is forgotten, and one that was not taken   *)
(* because of another has the same message.                                 *)
MemoryAgrees ==
  /\ \A i \in DOMAIN seen : \E k \in Taken : posted[k] = seen[i].id
  /\ \A n \in Taken \ forgot : Known(posted[n])
  /\ \A n \in Post : request[n] = "duplicate" =>
       \E k \in Taken : posted[k] = posted[n]

IInv == TypeOK /\ PostsAgree /\ MemoryAgrees /\ HandledOnceWhileKnown

-----------------------------------------------------------------------------
LEMMA InitIInv == Init => IInv
<1> SUFFICES ASSUME Init PROVE IInv
  OBVIOUS
<1> USE DEF Init
<1>1. Taken = {} /\ DOMAIN posted = {}
  BY DEF Taken
<1>2. TypeOK
  BY BridgeAssumption DEF TypeOK
<1>3. PostsAgree /\ MemoryAgrees
  BY <1>1 DEF PostsAgree, MemoryAgrees, Known, Handed
<1>4. HandledOnceWhileKnown
  BY <1>1 DEF HandledOnceWhileKnown, Handed
<1> QED BY <1>2, <1>3, <1>4 DEF IInv

(* What remains of the memory is a stretch of it, with room for one more.   *)
LEMMA FreshStretch ==
  ASSUME TypeOK
  PROVE  /\ Fresh \in Seq(Entry)
         /\ Len(Fresh) <= Len(seen)
         /\ \E o \in Nat : \A i \in 1..Len(Fresh) :
              i + o \in 1..Len(seen) /\ Fresh[i] = seen[i + o]
<1> DEFINE E == {i \in DOMAIN seen : seen[i].expired}
           c == Cardinality(E)
<1>1. seen \in Seq(Entry) /\ Len(seen) \in Nat /\ DOMAIN seen = 1..Len(seen)
  BY DEF TypeOK, Entry
<1>2. IsFiniteSet(1..Len(seen)) /\ E \subseteq 1..Len(seen)
  BY <1>1, FS_Interval
<1>3. c \in Nat
  BY <1>2, FS_Subset, FS_CardinalityType
<1>4. Fresh = SubSeq(seen, c + 1, Len(seen))
  BY DEF Fresh
<1> HIDE DEF c, E
<1>5. \A i \in (c + 1)..Len(seen) : seen[i] \in Entry
  BY <1>1, <1>3
<1>6. /\ Fresh \in Seq(Entry)
      /\ Len(Fresh) = IF c + 1 <= Len(seen) THEN Len(seen) - (c + 1) + 1 ELSE 0
      /\ \A i \in 1..(Len(seen) - (c + 1) + 1) : Fresh[i] = seen[(c + 1) + i - 1]
  <2>1. c + 1 \in Int /\ Len(seen) \in Int
    BY <1>1, <1>3
  <2> QED BY <1>4, <1>5, <2>1, SubSeqProperties
<1>7. Len(Fresh) <= Len(seen)
  BY <1>1, <1>3, <1>6
<1>8. \A i \in 1..Len(Fresh) : i + c \in 1..Len(seen) /\ Fresh[i] = seen[i + c]
  <2> SUFFICES ASSUME NEW i \in 1..Len(Fresh)
               PROVE  i + c \in 1..Len(seen) /\ Fresh[i] = seen[i + c]
    OBVIOUS
  <2> DEFINE n == Len(Fresh)
             l == Len(seen)
  <2>1. /\ i \in 1..(l - (c + 1) + 1) /\ i + c \in 1..l
        /\ (c + 1) + i - 1 = i + c
    <3>1. n = IF c + 1 <= l THEN l - (c + 1) + 1 ELSE 0
      BY <1>6
    <3>2. l \in Nat /\ i \in 1..n
      BY <1>1
    <3> HIDE DEF n, l
    <3> QED BY <1>3, <3>1, <3>2
  <2>2. Fresh[i] = seen[(c + 1) + i - 1]
    BY <1>6, <2>1
  <2> QED BY <2>1, <2>2
<1> QED BY <1>3, <1>6, <1>7, <1>8

LEMMA RememberedStretch ==
  ASSUME TypeOK
  PROVE  /\ Remembered \in Seq(Entry)
         /\ Len(Remembered) < DedupMax
         /\ \E o \in Nat : \A i \in 1..Len(Remembered) :
              i + o \in 1..Len(seen) /\ Remembered[i] = seen[i + o]
<1>1. seen \in Seq(Entry) /\ Len(seen) \in Nat /\ Len(seen) <= DedupMax
      /\ DedupMax \in Nat \ {0}
  BY BridgeAssumption DEF TypeOK, Entry
<1>2. PICK o \in Nat : \A i \in 1..Len(Fresh) :
        i + o \in 1..Len(seen) /\ Fresh[i] = seen[i + o]
  BY FreshStretch
<1>3. Fresh \in Seq(Entry) /\ Len(Fresh) \in Nat /\ Len(Fresh) <= Len(seen)
  BY FreshStretch
<1>4. CASE Len(seen) < DedupMax
  <2>1. Remembered = seen
    BY <1>4 DEF Remembered
  <2>2. \A i \in 1..Len(seen) : i + 0 \in 1..Len(seen) /\ seen[i] = seen[i + 0]
    BY <1>1
  <2> QED BY <1>1, <1>4, <2>1, <2>2
<1>5. CASE ~(Len(seen) < DedupMax) /\ Len(Fresh) < DedupMax
  <2>1. Remembered = Fresh
    BY <1>5 DEF Remembered
  <2> QED BY <1>1, <1>2, <1>3, <1>5, <2>1
<1>6. CASE ~(Len(seen) < DedupMax) /\ ~(Len(Fresh) < DedupMax)
  <2>1. Remembered = Tail(Fresh) /\ Fresh # <<>>
    BY <1>1, <1>6 DEF Remembered
  <2>2. /\ Tail(Fresh) \in Seq(Entry) /\ Len(Tail(Fresh)) = Len(Fresh) - 1
        /\ \A i \in 1..Len(Tail(Fresh)) : Tail(Fresh)[i] = Fresh[i + 1]
    BY <1>3, <2>1, HeadTailProperties
  <2>3. \A i \in 1..Len(Tail(Fresh)) :
          i + (o + 1) \in 1..Len(seen) /\ Tail(Fresh)[i] = seen[i + (o + 1)]
    <3> SUFFICES ASSUME NEW i \in 1..Len(Tail(Fresh))
                 PROVE  i + (o + 1) \in 1..Len(seen) /\ Tail(Fresh)[i] = seen[i + (o + 1)]
      OBVIOUS
    <3>1. i + 1 \in 1..Len(Fresh) /\ (i + 1) + o = i + (o + 1)
      BY <1>3, <2>2
    <3>2. (i + 1) + o \in 1..Len(seen) /\ Fresh[i + 1] = seen[(i + 1) + o]
      BY <1>2, <3>1
    <3> QED BY <2>2, <3>1, <3>2
  <2>4. Len(Tail(Fresh)) < DedupMax
    BY <1>1, <1>2, <1>3, <1>6, <2>2
  <2>5. o + 1 \in Nat
    OBVIOUS
  <2> QED BY <2>1, <2>2, <2>3, <2>4, <2>5
<1> QED BY <1>4, <1>5, <1>6

(* The memory after a new message was put into it.                          *)
LEMMA MarkMemory ==
  ASSUME TypeOK, NEW m \in Message, ~Known(m), Mark(m)
  PROVE  /\ seen' \in Seq(Entry) /\ Len(seen') <= DedupMax
         /\ \A i, j \in DOMAIN seen' : seen'[i].id = seen'[j].id => i = j
         /\ \A i \in DOMAIN seen' :
              seen'[i].id = m \/ \E j \in DOMAIN seen : seen[j].id = seen'[i].id
         /\ \E i \in DOMAIN seen' : seen'[i].id = m
         /\ forgot' = forgot \cup ((PostsOf(seen) \cap Taken) \ PostsOf(seen'))
<1> DEFINE R == Remembered
           e == [id |-> m, expired |-> FALSE]
<1>1. seen' = Append(R, e) /\ forgot' = forgot \cup ((PostsOf(seen) \cap Taken) \ PostsOf(seen'))
  BY DEF Mark, Keep
<1>2. R \in Seq(Entry) /\ Len(R) < DedupMax /\ Len(R) \in Nat /\ e \in Entry
      /\ e.id = m
  BY RememberedStretch DEF Entry
<1>3. PICK o \in Nat : \A i \in 1..Len(R) : i + o \in 1..Len(seen) /\ R[i] = seen[i + o]
  BY RememberedStretch
<1>4. /\ seen \in Seq(Entry) /\ DOMAIN seen = 1..Len(seen)
      /\ \A i, j \in 1..Len(seen) : seen[i].id = seen[j].id => i = j
      /\ \A i \in 1..Len(seen) : seen[i].id # m
  BY DEF TypeOK, Entry, Known
<1> HIDE DEF R, e
<1>5. /\ seen' \in Seq(Entry) /\ Len(seen') = Len(R) + 1
      /\ DOMAIN seen' = 1..(Len(R) + 1)
      /\ \A i \in 1..Len(R) : seen'[i] = R[i]
      /\ seen'[Len(R) + 1] = e
  BY <1>1, <1>2, AppendProperties
<1>6. \A i \in 1..Len(R) : R[i].id # m /\ \E j \in DOMAIN seen : seen[j].id = R[i].id
  BY <1>3, <1>4
<1>7. \A i, j \in 1..Len(R) : R[i].id = R[j].id => i = j
  BY <1>2, <1>3, <1>4
<1>8. \A i \in DOMAIN seen' : i \in 1..Len(R) \/ i = Len(R) + 1
  BY <1>2, <1>5
<1>9. \A i, j \in DOMAIN seen' : seen'[i].id = seen'[j].id => i = j
  BY <1>2, <1>5, <1>6, <1>7, <1>8
<1>10. \A i \in DOMAIN seen' :
         seen'[i].id = m \/ \E j \in DOMAIN seen : seen[j].id = seen'[i].id
  BY <1>2, <1>5, <1>6, <1>8
<1>11. Len(R) + 1 \in DOMAIN seen' /\ seen'[Len(R) + 1].id = m
  BY <1>2, <1>5
<1>12. Len(seen') <= DedupMax
  BY <1>2, <1>5, BridgeAssumption
<1> QED BY <1>1, <1>5, <1>9, <1>10, <1>11, <1>12

-----------------------------------------------------------------------------
(* A post that is taken stays taken, and one that is not, is not yet.       *)
Untaken == {"none", "travelling", "lost", "duplicate"}

LEMMA DispatchIInv ==
  ASSUME IInv, NEW m \in Message, Dispatch(m)
  PROVE  IInv'
<1> DEFINE k == Len(posted) + 1
<1>1. /\ posted \in Seq(Message) /\ Len(posted) \in Nat /\ DOMAIN posted = 1..Len(posted)
      /\ k \in Post /\ request[k] = "none"
  BY BridgeAssumption DEF IInv, TypeOK, PostsAgree, Dispatch, Post
<1>2. /\ posted' \in Seq(Message) /\ Len(posted') = k /\ DOMAIN posted' = 1..k
      /\ \A n \in 1..Len(posted) : posted'[n] = posted[n]
      /\ k <= MaxPosts
  BY <1>1, BridgeAssumption DEF Dispatch, Post
<1>3. /\ request' = [request EXCEPT ![k] = "travelling"]
      /\ delivery' = [delivery EXCEPT ![k] = "open"]
      /\ UNCHANGED <<gateway, seen, forgot, restarts>>
  BY DEF Dispatch
<1>4. /\ request \in [Post -> {"none", "travelling", "lost", "running", "sending"} \cup Answered]
      /\ delivery \in [Post -> {"none", "open", "ok", "failed"}]
  BY DEF IInv, TypeOK
<1> HIDE DEF k
<1>5. Taken' = Taken /\ k \notin Taken
  BY <1>1, <1>3, <1>4 DEF Taken
<1>6. Taken \subseteq 1..Len(posted)
  BY <1>1 DEF Taken, IInv, PostsAgree
<1>7. \A n \in Taken : posted'[n] = posted[n]
  BY <1>2, <1>6
<1>8. TypeOK'
  BY <1>2, <1>3, <1>4 DEF IInv, TypeOK
<1>9. PostsAgree'
  <2>1. \A n \in Post : n \in 1..k <=> n \in 1..Len(posted) \/ n = k
    BY <1>1 DEF k, Post
  <2> QED BY <1>1, <1>2, <1>3, <1>4, <1>5, <2>1 DEF IInv, PostsAgree, Positive, Handed, Replied
<1>10. MemoryAgrees'
  <2>1. \A n \in Post : request'[n] = "duplicate" =>
          request[n] = "duplicate" /\ posted'[n] = posted[n]
    BY <1>1, <1>2, <1>3, <1>4 DEF IInv, PostsAgree
  <2>2. (\A i \in DOMAIN seen : \E j \in Taken : posted[j] = seen[i].id)'
    BY <1>3, <1>5, <1>7 DEF IInv, MemoryAgrees
  <2>3. \A n \in Taken \ forgot : \E i \in DOMAIN seen : seen[i].id = posted'[n]
    BY <1>7 DEF IInv, MemoryAgrees, Known
  <2>4. \A n \in Post : request'[n] = "duplicate" =>
          \E j \in Taken : posted'[j] = posted'[n]
    BY <1>7, <2>1 DEF IInv, MemoryAgrees
  <2> QED BY <1>3, <1>5, <2>2, <2>3, <2>4 DEF MemoryAgrees, Known
<1>11. HandledOnceWhileKnown'
  <2>1. Handed \subseteq Taken
    BY DEF IInv, PostsAgree, Handed
  <2> QED BY <1>3, <1>5, <1>7, <2>1 DEF IInv, HandledOnceWhileKnown, Handed
<1> QED BY <1>8, <1>9, <1>10, <1>11 DEF IInv

(* A step that leaves the memory and what was posted alone, and takes no    *)
(* post that was not taken.                                                 *)
LEMMA LeaveMemoryIInv ==
  ASSUME IInv, UNCHANGED <<posted, seen, forgot>>, TypeOK', PostsAgree',
         Taken' = Taken,
         \A n \in Post : request'[n] = "duplicate" => request[n] = "duplicate"
  PROVE  IInv'
<1>1. MemoryAgrees'
  BY DEF IInv, MemoryAgrees, Known
<1>2. Handed' \subseteq Taken
  BY DEF PostsAgree, Handed
<1>3. HandledOnceWhileKnown'
  BY <1>2 DEF IInv, HandledOnceWhileKnown
<1> QED BY <1>1, <1>3 DEF IInv

LEMMA DeliveryIInv ==
  ASSUME IInv, NEW n \in Post,
         PostLost(n) \/ DispatchTimesOut(n) \/ AnswerArrives(n)
  PROVE  IInv'
<1> USE DEF PostLost, DispatchTimesOut, AnswerArrives
<1>1. /\ request \in [Post -> {"none", "travelling", "lost", "running", "sending"} \cup Answered]
      /\ delivery \in [Post -> {"none", "open", "ok", "failed"}]
  BY DEF IInv, TypeOK
<1>2. UNCHANGED <<posted, seen, forgot, gateway, restarts>>
  OBVIOUS
<1>3. /\ request' = request \/ (request[n] = "travelling" /\ request' = [request EXCEPT ![n] = "lost"])
      /\ \/ delivery' = [delivery EXCEPT ![n] = "failed"]
         \/ /\ delivery' = [delivery EXCEPT ![n] = "ok"]
            /\ request[n] \in Positive /\ request' = request
  OBVIOUS
<1>4. Taken' = Taken
  BY <1>1, <1>3 DEF Taken
<1>5. TypeOK'
  BY <1>1, <1>2, <1>3 DEF IInv, TypeOK
<1>6. PostsAgree'
  BY <1>1, <1>2, <1>3, <1>4 DEF IInv, PostsAgree, Positive, Handed, Replied
<1>7. \A p \in Post : request'[p] = "duplicate" => request[p] = "duplicate"
  BY <1>1, <1>3
<1> QED BY <1>2, <1>4, <1>5, <1>6, <1>7, LeaveMemoryIInv

(* From Hermes to the answer: the post stays taken, and is replied to when  *)
(* it says so.                                                              *)
LEMMA WorkIInv ==
  ASSUME IInv, NEW n \in Post,
         NEW from \in {"running", "sending", "overdue"},
         NEW to \in {"sending", "sentReply", "noReply", "failed", "overdue"},
         At(n, from, to),
         \/ UNCHANGED gateway
         \/ from = "running" /\ gateway' = [gateway EXCEPT ![n] = "asked"],
         to = "sentReply" => n \in Replied
  PROVE  IInv'
<1>1. /\ request \in [Post -> {"none", "travelling", "lost", "running", "sending"} \cup Answered]
      /\ delivery \in [Post -> {"none", "open", "ok", "failed"}]
      /\ gateway \in [Post -> {"none", "asked", "sent", "refused"}]
  BY DEF IInv, TypeOK
<1>2. /\ request[n] = from /\ request' = [request EXCEPT ![n] = to]
      /\ UNCHANGED <<posted, delivery, seen, forgot, restarts>>
  BY DEF At
<1>3. Taken' = Taken /\ n \in Taken
  BY <1>1, <1>2 DEF Taken
<1>4. TypeOK'
  BY <1>1, <1>2 DEF IInv, TypeOK, Answered, Positive, Negative
<1>5. delivery[n] # "ok"
  BY <1>2 DEF IInv, PostsAgree, Positive
<1>6. PostsAgree'
  <2>1. \A p \in Post : /\ request'[p] = "sentReply" => p \in Replied'
                        /\ p \in Handed' => p \in Taken' /\ request'[p] # "running"
    BY <1>1, <1>2, <1>3 DEF IInv, PostsAgree, Replied, Handed
  <2> QED BY <1>1, <1>2, <1>5, <2>1 DEF IInv, PostsAgree
<1>7. \A p \in Post : request'[p] = "duplicate" => request[p] = "duplicate"
  BY <1>1, <1>2
<1> QED BY <1>2, <1>3, <1>4, <1>6, <1>7, LeaveMemoryIInv

(* The gateway settles a reply that was handed to it.                       *)
LEMMA GatewayIInv ==
  ASSUME IInv, NEW n \in Post, GatewaySends(n) \/ GatewayRefuses(n)
  PROVE  IInv'
<1>1. /\ gateway \in [Post -> {"none", "asked", "sent", "refused"}]
      /\ gateway[n] = "asked"
      /\ \E o \in {"sent", "refused"} : gateway' = [gateway EXCEPT ![n] = o]
      /\ UNCHANGED <<posted, delivery, request, seen, forgot, restarts>>
  BY DEF IInv, TypeOK, GatewaySends, GatewayRefuses, Gateway
<1>2. Taken' = Taken
  BY <1>1 DEF Taken
<1>3. TypeOK'
  BY <1>1 DEF IInv, TypeOK
<1>4. PostsAgree'
  BY <1>1, <1>2 DEF IInv, PostsAgree, Handed, Replied
<1> QED BY <1>1, <1>2, <1>3, <1>4, LeaveMemoryIInv

-----------------------------------------------------------------------------
(* The first post for a message that the memory does not hold is the only   *)
(* one taken for it that is not forgotten.                                  *)
LEMMA TakeIInv ==
  ASSUME IInv, NEW n \in Post, request[n] = "travelling", ~Known(posted[n]),
         Mark(posted[n]), NEW to \in {"running", "notAllowed"},
         request' = [request EXCEPT ![n] = to],
         UNCHANGED <<posted, delivery, gateway, restarts>>
  PROVE  IInv'
<1> DEFINE m == posted[n]
<1>1. /\ request \in [Post -> {"none", "travelling", "lost", "running", "sending"} \cup Answered]
      /\ posted \in Seq(Message) /\ DOMAIN posted \subseteq Post
  BY BridgeAssumption DEF IInv, TypeOK, Post
<1>2. n \in DOMAIN posted /\ m \in Message
  BY <1>1 DEF IInv, PostsAgree
<1>3. /\ seen' \in Seq(Entry) /\ Len(seen') <= DedupMax
      /\ \A i, j \in DOMAIN seen' : seen'[i].id = seen'[j].id => i = j
      /\ \A i \in DOMAIN seen' :
           seen'[i].id = m \/ \E j \in DOMAIN seen : seen[j].id = seen'[i].id
      /\ \E i \in DOMAIN seen' : seen'[i].id = m
      /\ forgot' = forgot \cup ((PostsOf(seen) \cap Taken) \ PostsOf(seen'))
  BY <1>2, MarkMemory DEF IInv
<1> HIDE DEF m
<1>4. Taken' = Taken \cup {n} /\ n \notin Taken
  BY <1>1 DEF Taken
<1>5. Taken \subseteq DOMAIN posted
  BY DEF IInv, PostsAgree, Taken
<1>6. TypeOK'
  <2>1. forgot' \subseteq Post
    BY <1>3 DEF IInv, TypeOK, Taken
  <2>2. request' \in [Post -> {"none", "travelling", "lost", "running", "sending"} \cup Answered]
    BY <1>1 DEF Answered, Positive
  <2> QED BY <1>3, <2>1, <2>2 DEF IInv, TypeOK, Entry
<1>7. PostsAgree'
  BY <1>1, <1>2, <1>4 DEF IInv, PostsAgree, Positive, Handed, Replied
<1>8. \A k \in Taken \ forgot' : posted[k] # m /\ \E i \in DOMAIN seen' : seen'[i].id = posted[k]
  <2> SUFFICES ASSUME NEW k \in Taken \ forgot'
               PROVE  posted[k] # m /\ \E i \in DOMAIN seen' : seen'[i].id = posted[k]
    OBVIOUS
  <2>1. k \in Taken \ forgot /\ k \in DOMAIN posted
    BY <1>3, <1>5
  <2>2. Known(posted[k])
    BY <2>1 DEF IInv, MemoryAgrees
  <2>3. k \in PostsOf(seen)
    BY <2>1, <2>2 DEF PostsOf, Known
  <2>4. k \in PostsOf(seen')
    BY <1>3, <2>3
  <2> QED BY <2>2, <2>4 DEF PostsOf, m
<1>9. MemoryAgrees'
  <2>1. \A i \in DOMAIN seen' : \E k \in Taken' : posted[k] = seen'[i].id
    BY <1>3, <1>4 DEF IInv, MemoryAgrees, m
  <2>2. \A k \in Taken' \ forgot' : \E i \in DOMAIN seen' : seen'[i].id = posted[k]
    BY <1>3, <1>4, <1>8 DEF m
  <2>3. \A p \in Post : request'[p] = "duplicate" =>
          \E k \in Taken' : posted[k] = posted[p]
    BY <1>1, <1>4 DEF IInv, MemoryAgrees
  <2> QED BY <2>1, <2>2, <2>3 DEF MemoryAgrees, Known
<1>10. HandledOnceWhileKnown'
  <2>1. Handed \subseteq Taken
    BY DEF IInv, PostsAgree, Handed
  <2>2. \A a, b \in Taken \ forgot' : posted[a] = posted[b] => a = b
    BY <1>3 DEF IInv, HandledOnceWhileKnown
  <2>3. \A a, b \in (Taken \cup {n}) \ forgot' : posted[a] = posted[b] => a = b
    BY <1>8, <2>2 DEF m
  <2> QED BY <1>4, <2>1, <2>3 DEF HandledOnceWhileKnown, Handed
<1> QED BY <1>6, <1>7, <1>9, <1>10 DEF IInv

LEMMA ReceiveIInv ==
  ASSUME IInv, NEW n \in Post, Receive(n)
  PROVE  IInv'
<1>1. CASE Known(posted[n])
  <2>1. /\ request[n] = "travelling" /\ request' = [request EXCEPT ![n] = "duplicate"]
        /\ UNCHANGED <<seen, forgot, posted, delivery, gateway, restarts>>
    BY <1>1 DEF Receive
  <2>2. request \in [Post -> {"none", "travelling", "lost", "running", "sending"} \cup Answered]
    BY DEF IInv, TypeOK
  <2>3. Taken' = Taken
    BY <2>1, <2>2 DEF Taken
  <2>4. TypeOK'
    BY <2>1, <2>2 DEF IInv, TypeOK, Answered, Positive
  <2>5. PostsAgree'
    BY <2>1, <2>2, <2>3 DEF IInv, PostsAgree, Positive, Handed, Replied
  <2>6. MemoryAgrees'
    <3>1. \E k \in Taken : posted[k] = posted[n]
      BY <1>1 DEF IInv, MemoryAgrees, Known
    <3> QED BY <2>1, <2>2, <2>3, <3>1 DEF IInv, MemoryAgrees, Known
  <2>7. HandledOnceWhileKnown'
    BY <2>1, <2>3 DEF IInv, HandledOnceWhileKnown, Handed
  <2> QED BY <2>4, <2>5, <2>6, <2>7 DEF IInv
<1>2. CASE ~Known(posted[n])
  BY <1>2, TakeIInv DEF Receive
<1> QED BY <1>1, <1>2

LEMMA EntriesExpireIInv ==
  ASSUME IInv, EntriesExpire
  PROVE  IInv'
<1>1. seen \in Seq(Entry) /\ DOMAIN seen = 1..Len(seen) /\ Len(seen) \in Nat
  BY DEF IInv, TypeOK, Entry
<1>2. PICK k \in DOMAIN seen : seen' =
        [i \in DOMAIN seen |-> IF i <= k THEN [seen[i] EXCEPT !.expired = TRUE] ELSE seen[i]]
  BY DEF EntriesExpire
<1>3. \A i \in 1..Len(seen) : seen'[i] \in Entry /\ seen'[i].id = seen[i].id
  <2> SUFFICES ASSUME NEW i \in 1..Len(seen)
               PROVE  seen'[i] \in Entry /\ seen'[i].id = seen[i].id
    OBVIOUS
  <2>1. seen[i] \in Entry
    BY <1>1
  <2>2. seen'[i] = IF i <= k THEN [seen[i] EXCEPT !.expired = TRUE] ELSE seen[i]
    BY <1>1, <1>2
  <2> QED BY <2>1, <2>2 DEF Entry
<1>4. /\ DOMAIN seen' = 1..Len(seen) /\ seen' \in Seq(Entry) /\ Len(seen') = Len(seen)
  BY <1>1, <1>2, <1>3
<1>5. Taken' = Taken /\ UNCHANGED <<posted, delivery, request, gateway, forgot, restarts>>
  BY DEF EntriesExpire, Taken
<1>6. TypeOK'
  BY <1>1, <1>3, <1>4, <1>5 DEF IInv, TypeOK, Entry
<1>7. PostsAgree' /\ HandledOnceWhileKnown'
  BY <1>5 DEF IInv, PostsAgree, HandledOnceWhileKnown, Handed, Replied
<1>8. MemoryAgrees'
  BY <1>1, <1>3, <1>4, <1>5 DEF IInv, MemoryAgrees, Known
<1> QED BY <1>6, <1>7, <1>8 DEF IInv

(* The memory is lost: everything that was taken is forgotten.              *)
LEMMA BridgeRestartsIInv ==
  ASSUME IInv, BridgeRestarts
  PROVE  IInv'
<1>1. /\ request \in [Post -> {"none", "travelling", "lost", "running", "sending"} \cup Answered]
      /\ posted \in Seq(Message) /\ UNCHANGED <<posted, delivery>>
  BY DEF IInv, TypeOK, BridgeRestarts
<1>2. request' = [n \in Post |->
        IF request[n] \in {"running", "sending", "overdue"} THEN "failed" ELSE request[n]]
  BY DEF BridgeRestarts
<1>3. /\ seen' = <<>> /\ DOMAIN seen' = {}
      /\ forgot' = forgot \cup ((PostsOf(seen) \cap Taken) \ PostsOf(<<>>))
  BY DEF BridgeRestarts, Keep
<1>4. Taken' = Taken
  BY <1>1, <1>2 DEF Taken
<1>5. UNCHANGED gateway
  BY DEF BridgeRestarts
<1>7. Taken \subseteq forgot'
  <2>1. \A n \in Taken \ forgot : n \in PostsOf(seen)
    BY DEF IInv, PostsAgree, Taken, MemoryAgrees, Known, PostsOf
  <2>2. PostsOf(<<>>) = {}
    BY DEF PostsOf
  <2> QED BY <1>3, <2>1, <2>2
<1>8. TypeOK'
  <2>1. forgot' \subseteq Post
    BY <1>3 DEF IInv, TypeOK, Taken
  <2>2. restarts' \in 0..MaxRestarts
    BY BridgeAssumption DEF IInv, TypeOK, BridgeRestarts
  <2>3. request' \in [Post -> {"none", "travelling", "lost", "running", "sending"} \cup Answered]
    BY <1>1, <1>2 DEF Answered, Negative
  <2>4. seen' \in Seq([id : Message, expired : BOOLEAN]) /\ Len(seen') <= DedupMax
    BY <1>3, BridgeAssumption
  <2> QED BY <1>1, <1>3, <1>5, <2>1, <2>2, <2>3, <2>4 DEF IInv, TypeOK
<1>9. PostsAgree'
  BY <1>1, <1>2, <1>4, <1>5 DEF IInv, PostsAgree, Positive, Handed, Replied
<1>10. MemoryAgrees'
  BY <1>1, <1>2, <1>3, <1>4, <1>7 DEF IInv, MemoryAgrees
<1>11. HandledOnceWhileKnown'
  <2>1. Handed' \subseteq Taken
    BY <1>5 DEF IInv, PostsAgree, Handed
  <2> QED BY <1>4, <1>7, <2>1 DEF HandledOnceWhileKnown
<1> QED BY <1>8, <1>9, <1>10, <1>11 DEF IInv

Working(n) ==
  \/ HermesReplies(n) \/ HermesSilent(n) \/ HermesFails(n)
  \/ HermesTimesOut(n) \/ OverdueEnds(n)
  \/ ReplyConfirmed(n) \/ ReplyRefused(n) \/ ReplyGivenUp(n)

Settling(n) == GatewaySends(n) \/ GatewayRefuses(n)

LEMMA NextIInv == IInv /\ [Next]_vars => IInv'
<1> SUFFICES ASSUME IInv, [Next]_vars PROVE IInv'
  OBVIOUS
<1>1. CASE \E m \in Message : Dispatch(m)
  BY <1>1, DispatchIInv
<1>2. CASE \E n \in Post : PostLost(n) \/ DispatchTimesOut(n) \/ AnswerArrives(n)
  BY <1>2, DeliveryIInv
<1>3. CASE \E n \in Post : Receive(n)
  BY <1>3, ReceiveIInv
<1>4. CASE \E n \in Post : Working(n)
  BY <1>4, WorkIInv DEF Working, HermesReplies, HermesSilent, HermesFails,
     HermesTimesOut, OverdueEnds, ReplyRefused, ReplyConfirmed,
     ReplyGivenUp, Replied
<1>5. CASE EntriesExpire
  BY <1>5, EntriesExpireIInv
<1>6. CASE BridgeRestarts
  BY <1>6, BridgeRestartsIInv
<1>7. CASE \E n \in Post : Settling(n)
  BY <1>7, GatewayIInv DEF Settling
<1>8. CASE UNCHANGED vars
  BY <1>8 DEF vars, IInv, TypeOK, PostsAgree, MemoryAgrees, Known, Taken,
              Handed, Replied, HandledOnceWhileKnown
<1> QED BY <1>1, <1>2, <1>3, <1>4, <1>5, <1>6, <1>7, <1>8 DEF Next, Working, Settling

-----------------------------------------------------------------------------
(* The inductive invariant holds in every reachable state.                  *)
THEOREM InductiveInvariant == Spec => []IInv
BY InitIInv, NextIInv, PTL DEF Spec

(* The memory never outgrows its limit and holds no id twice.               *)
THEOREM TypeCorrect == Spec => []TypeOK
BY InductiveInvariant, PTL DEF IInv

(* However posts of one message overlap, Hermes runs once for it and at     *)
(* most one reply to it is handed over, as long as its id is remembered.    *)
THEOREM MessagesAreHandledOnce == Spec => []HandledOnceWhileKnown
BY InductiveInvariant, PTL DEF IInv

(* What the gateway counts as delivered was replied to or needed no reply,  *)
(* whatever was lost, timed out or restarted.                               *)
THEOREM OkIsEarned == Spec => []OkWasEarned
<1>1. IInv => OkWasEarned
  <2> SUFFICES ASSUME IInv, NEW n \in Post, delivery[n] = "ok"
               PROVE  \/ n \in Replied
                      \/ request[n] \in {"noReply", "notAllowed"}
                      \/ request[n] = "duplicate" /\ \E k \in Taken : posted[k] = posted[n]
    BY DEF OkWasEarned
  <2> QED BY DEF IInv, PostsAgree, MemoryAgrees, Positive
<1> QED BY <1>1, InductiveInvariant, PTL

(* An answered request stays answered, and no reply is handed over for it   *)
(* any more, be it late output of a process that outlived its deadline      *)
(* (hermes-cli.ts, the timer and close).                                    *)
THEOREM AnswersAreFinal == Spec => AnswerIsFinal
<1> DEFINE Final == \A n \in Post : request[n] \in Answered =>
                      request'[n] \in Answered /\ (n \in Handed' => n \in Handed)
<1>1. ASSUME IInv, [Next]_vars
      PROVE  Final
  <2> SUFFICES ASSUME NEW p \in Post, request[p] \in Answered
               PROVE  request'[p] \in Answered /\ (p \in Handed' => p \in Handed)
    OBVIOUS
  <2> USE DEF Answered, Positive, Negative, Handed
  <2>1. /\ request \in [Post -> {"none", "travelling", "lost", "running", "sending"} \cup Answered]
        /\ gateway \in [Post -> {"none", "asked", "sent", "refused"}]
    BY <1>1 DEF IInv, TypeOK
  <2>2. CASE \E m \in Message : Dispatch(m)
    <3>1. request[Len(posted) + 1] = "none" /\ Len(posted) + 1 \in Post
      BY <1>1, <2>2, BridgeAssumption DEF IInv, TypeOK, PostsAgree, Dispatch, Post
    <3> QED BY <2>1, <2>2, <3>1 DEF Dispatch
  <2>3. CASE \E n \in Post : PostLost(n) \/ DispatchTimesOut(n) \/ AnswerArrives(n) \/ Receive(n)
    BY <2>1, <2>3 DEF PostLost, DispatchTimesOut, AnswerArrives, Receive
  <2>4. CASE \E n \in Post : Working(n)
    BY <1>1, <2>1, <2>4 DEF Working, At, HermesReplies, HermesSilent, HermesFails,
       HermesTimesOut, OverdueEnds, ReplyRefused, ReplyConfirmed, ReplyGivenUp
  <2>5. CASE EntriesExpire \/ UNCHANGED vars
    BY <2>5 DEF EntriesExpire, vars
  <2>6. CASE BridgeRestarts
    BY <2>1, <2>6 DEF BridgeRestarts
  <2>7. CASE \E n \in Post : Settling(n)
    BY <2>1, <2>7 DEF Settling, GatewaySends, GatewayRefuses, Gateway
  <2> QED BY <1>1, <2>2, <2>3, <2>4, <2>5, <2>6, <2>7 DEF Next, Working, Settling
<1>2. IInv /\ [Next]_vars => [Final]_vars
  BY <1>1
<1> QED BY <1>2, InductiveInvariant, PTL DEF Spec, AnswerIsFinal

-----------------------------------------------------------------------------
(***************************************************************************)
(* HermesBridge implements ReplyOnce: the memory is that of its ids, and   *)
(* what happens between a post's arrival and its answer moves it from one  *)
(* stage to the next or leaves it where it is.                             *)
(***************************************************************************)

LEMMA RequestType ==
  ASSUME TypeOK
  PROVE  request \in [Post -> {"none", "travelling", "lost", "running", "sending"} \cup Answered]
BY DEF TypeOK

-----------------------------------------------------------------------------
LEMMA StageMoves ==
  ASSUME TypeOK, NEW n \in Post, NEW r, request' = [request EXCEPT ![n] = r]
  PROVE  Stages' = [Stages EXCEPT ![n] = StageOf(r)]
BY RequestType DEF Stages

LEMMA StageStays ==
  ASSUME TypeOK, NEW n \in Post, NEW r, request' = [request EXCEPT ![n] = r],
         StageOf(r) = StageOf(request[n])
  PROVE  Stages' = Stages
BY RequestType DEF Stages

(* What is left of the memory is all of it but some of the oldest, and      *)
(* some are missing only if it was full.                                    *)
LEMMA RememberedSuffix ==
  ASSUME TypeOK
  PROVE  \E k \in 0..Len(seen) :
           /\ k > 0 => Len(seen) = DedupMax
           /\ Len(Remembered) = Len(seen) - k
           /\ \A i \in 1..Len(Remembered) : Remembered[i] = seen[k + i]
<1>1. /\ seen \in Seq(Entry) /\ Len(seen) \in Nat /\ Len(seen) <= DedupMax
      /\ DedupMax \in Nat \ {0}
  BY BridgeAssumption DEF TypeOK, Entry
<1>2. CASE Len(seen) < DedupMax
  <2>1. Remembered = seen
    BY <1>2 DEF Remembered
  <2>2. 0 \in 0..Len(seen) /\ Len(seen) = Len(seen) - 0 /\ ~(0 > 0)
        /\ \A i \in 1..Len(seen) : seen[i] = seen[0 + i]
    BY <1>1
  <2> QED BY <2>1, <2>2
<1>3. CASE ~(Len(seen) < DedupMax)
  <2> DEFINE E == {i \in DOMAIN seen : seen[i].expired}
             c == Cardinality(E)
  <2>1. /\ IsFiniteSet(1..Len(seen)) /\ Cardinality(1..Len(seen)) = Len(seen)
        /\ E \subseteq 1..Len(seen)
    <3>1. 1 \in Int /\ Len(seen) \in Int
      BY <1>1
    <3>2. /\ IsFiniteSet(1..Len(seen))
          /\ Cardinality(1..Len(seen)) = IF 1 > Len(seen) THEN 0 ELSE Len(seen) - 1 + 1
      BY <3>1, FS_Interval
    <3> QED BY <1>1, <3>2
  <2>2. c \in 0..Len(seen)
    <3>1. IsFiniteSet(E) /\ c \in Nat /\ c <= Cardinality(1..Len(seen))
      BY <2>1, FS_Subset, FS_CardinalityType
    <3> QED BY <1>1, <2>1, <3>1
  <2>3. Fresh = SubSeq(seen, c + 1, Len(seen))
    BY DEF Fresh
  <2> HIDE DEF c, E
  <2>4. /\ Fresh \in Seq(Entry) /\ Len(Fresh) = Len(seen) - c
        /\ \A i \in 1..Len(Fresh) : Fresh[i] = seen[c + i]
    <3>1. /\ Fresh \in Seq(Entry)
          /\ Len(Fresh) = IF c + 1 <= Len(seen) THEN Len(seen) - (c + 1) + 1 ELSE 0
          /\ \A i \in 1..(Len(seen) - (c + 1) + 1) : Fresh[i] = seen[(c + 1) + i - 1]
      <4>1. c + 1 \in Int /\ Len(seen) \in Int
        BY <1>1, <2>2
      <4>2. \A i \in (c + 1)..Len(seen) : seen[i] \in Entry
        BY <1>1, <2>2
      <4> QED BY <2>3, <4>1, <4>2, SubSeqProperties
    <3>2. Len(Fresh) = Len(seen) - c
      BY <1>1, <2>2, <3>1
    <3>3. \A i \in 1..(Len(seen) - c) :
            i \in 1..(Len(seen) - (c + 1) + 1) /\ (c + 1) + i - 1 = c + i
      BY <1>1, <2>2
    <3> QED BY <3>1, <3>2, <3>3
  <2>5. CASE Len(Fresh) < DedupMax
    <3>1. Remembered = Fresh
      BY <1>3, <2>5 DEF Remembered
    <3>2. Len(seen) = DedupMax
      BY <1>1, <1>3
    <3> QED BY <2>2, <2>4, <3>1, <3>2
  <2>6. CASE ~(Len(Fresh) < DedupMax)
    <3>1. Remembered = Tail(Fresh) /\ Fresh # <<>>
      BY <1>1, <1>3, <2>4, <2>6 DEF Remembered
    <3>2. /\ Len(Tail(Fresh)) = Len(Fresh) - 1
          /\ \A i \in 1..Len(Tail(Fresh)) : Tail(Fresh)[i] = Fresh[i + 1]
      BY <2>4, <3>1, HeadTailProperties
    <3>3. c + 1 \in 0..Len(seen) /\ Len(Tail(Fresh)) = Len(seen) - (c + 1)
          /\ Len(seen) = DedupMax
      BY <1>1, <1>3, <2>2, <2>4, <2>6, <3>2
    <3>4. \A i \in 1..Len(Tail(Fresh)) : Tail(Fresh)[i] = seen[(c + 1) + i]
      <4>1. \A i \in 1..(Len(seen) - (c + 1)) :
              i + 1 \in 1..(Len(seen) - c) /\ c + (i + 1) = (c + 1) + i
        BY <1>1, <2>2
      <4> QED BY <2>4, <3>2, <3>3, <4>1
    <3> QED BY <3>1, <3>3, <3>4
  <2> QED BY <2>5, <2>6
<1> QED BY <1>2, <1>3

(* A message that is put into the memory stands after what is left of it.   *)
LEMMA IdsMarked ==
  ASSUME TypeOK, NEW m, m \in Message, Mark(m)
  PROVE  /\ \E k \in 0..Len(SeenIds) :
              /\ k > 0 => Len(SeenIds) = DedupMax
              /\ SeenIds' = Append(SubSeq(SeenIds, k + 1, Len(SeenIds)), m)
         /\ Len(SeenIds') <= DedupMax
<1> DEFINE R == Remembered
           e == [id |-> m, expired |-> FALSE]
           l == Len(seen)
<1>1. /\ seen \in Seq(Entry) /\ l \in Nat /\ DOMAIN seen = 1..l
      /\ R \in Seq(Entry) /\ Len(R) \in Nat /\ e \in Entry /\ e.id = m
  BY RememberedStretch DEF TypeOK, Entry
<1>2. PICK k \in 0..l :
        /\ k > 0 => l = DedupMax
        /\ Len(R) = l - k
        /\ \A i \in 1..Len(R) : R[i] = seen[k + i]
  BY RememberedSuffix
<1>3. /\ SeenIds \in Seq(Message) /\ Len(SeenIds) = l
      /\ \A i \in 1..l : SeenIds[i] = seen[i].id
  <2>1. \A i \in 1..l : seen[i].id \in Message
    <3>1. \A i \in 1..l : seen[i] \in Entry
      BY <1>1
    <3> QED BY <3>1 DEF Entry
  <2>2. SeenIds = [i \in 1..l |-> seen[i].id]
    BY <1>1 DEF SeenIds
  <2> HIDE DEF l
  <2> QED BY <1>1, <2>1, <2>2
<1>4. seen' = Append(R, e) /\ Len(seen') = Len(R) + 1 /\ seen' \in Seq(Entry)
      /\ DOMAIN seen' = 1..(Len(R) + 1)
      /\ (\A i \in 1..Len(R) : seen'[i] = R[i]) /\ seen'[Len(R) + 1] = e
  <2>1. seen' = Append(R, e)
    BY DEF Mark, Keep
  <2> HIDE DEF R, e
  <2> QED BY <1>1, <2>1, AppendProperties
<1>5. Len(R) < DedupMax
  BY RememberedStretch
<1> HIDE DEF R, e, l
<1> DEFINE s == SubSeq(SeenIds, k + 1, l)
           a == Append(s, m)
<1>6. /\ s \in Seq(Message) /\ Len(s) = l - k
      /\ \A i \in 1..(l - k) : s[i] = SeenIds[k + i]
  <2>1. \A i \in (k + 1)..l : SeenIds[i] \in Message
    BY <1>1, <1>2, <1>3
  <2>2. k + 1 \in Int /\ l \in Int
    BY <1>1, <1>2
  <2>3. /\ s \in Seq(Message)
        /\ Len(s) = IF k + 1 <= l THEN l - (k + 1) + 1 ELSE 0
        /\ \A i \in 1..(l - (k + 1) + 1) : s[i] = SeenIds[(k + 1) + i - 1]
    BY <2>1, <2>2, SubSeqProperties
  <2> HIDE DEF s
  <2>4. \A i \in 1..(l - k) : i \in 1..(l - (k + 1) + 1) /\ (k + 1) + i - 1 = k + i
    BY <1>1, <1>2
  <2> QED BY <1>1, <1>2, <2>3, <2>4
<1> HIDE DEF s
<1>7. /\ a \in Seq(Message) /\ Len(a) = (l - k) + 1
      /\ \A i \in 1..(l - k) : a[i] = s[i]
      /\ a[(l - k) + 1] = m
  BY <1>1, <1>2, <1>6, AppendProperties DEF e, Entry
<1> HIDE DEF a
<1>8. /\ SeenIds' \in Seq(Message) /\ Len(SeenIds') = (l - k) + 1
      /\ \A i \in 1..((l - k) + 1) : SeenIds'[i] = seen'[i].id
  <2>1. SeenIds' = [i \in 1..((l - k) + 1) |-> seen'[i].id]
    BY <1>2, <1>4 DEF SeenIds
  <2>2. \A i \in 1..((l - k) + 1) : seen'[i].id \in Message
    <3>1. \A i \in 1..((l - k) + 1) : seen'[i] \in Entry
      BY <1>2, <1>4
    <3> QED BY <3>1 DEF Entry
  <2>3. (l - k) + 1 \in Nat
    BY <1>1, <1>2
  <2> QED BY <2>1, <2>2, <2>3
<1>9. SeenIds' = a
  <2>1. \A i \in 1..(l - k) : SeenIds'[i] = a[i]
    <3> SUFFICES ASSUME NEW i \in 1..(l - k)
                 PROVE  SeenIds'[i] = a[i]
      OBVIOUS
    <3>1. i \in 1..((l - k) + 1) /\ k + i \in 1..l /\ i \in 1..Len(R)
      BY <1>1, <1>2
    <3>2. SeenIds'[i] = seen'[i].id /\ seen'[i] = R[i] /\ R[i] = seen[k + i]
      BY <1>2, <1>4, <1>8, <3>1
    <3>3. a[i] = s[i] /\ s[i] = SeenIds[k + i] /\ SeenIds[k + i] = seen[k + i].id
      BY <1>3, <1>6, <1>7, <3>1
    <3> QED BY <3>2, <3>3
  <2>2. SeenIds'[(l - k) + 1] = a[(l - k) + 1]
    BY <1>1, <1>2, <1>4, <1>7, <1>8
  <2>3. \A i \in 1..((l - k) + 1) : i \in 1..(l - k) \/ i = (l - k) + 1
    BY <1>1, <1>2
  <2> QED BY <1>7, <1>8, <2>1, <2>2, <2>3, SeqEqual
<1>10. Len(SeenIds') <= DedupMax
  BY <1>2, <1>5, <1>8, BridgeAssumption
<1> QED BY <1>2, <1>3, <1>9, <1>10 DEF a, s

LEMMA IdsKnown ==
  ASSUME TypeOK, NEW m
  PROVE  Promise!Remembered(m) <=> Known(m)
BY DEF Promise!Remembered, Known, SeenIds

-----------------------------------------------------------------------------
LEMMA InitPromises == Init => Promise!Init
BY DEF Init, Promise!Init, SeenIds, Stages, StageOf

LEMMA DispatchPromises ==
  ASSUME IInv, NEW m \in Message, Dispatch(m)
  PROVE  Promise!Arrive(m)
<1>1. /\ posted' = Append(posted, m) /\ Len(posted) + 1 \in Post
      /\ request' = [request EXCEPT ![Len(posted) + 1] = "travelling"]
      /\ UNCHANGED <<seen, gateway>>
  BY BridgeAssumption DEF Dispatch, IInv, TypeOK, Post
<1>2. request[Len(posted) + 1] = "none"
  BY <1>1 DEF IInv, TypeOK, PostsAgree
<1>3. Stages' = Stages
  BY <1>1, <1>2, StageStays DEF IInv, StageOf
<1>4. DOMAIN posted' \subseteq Post
  <2>1. posted' \in Seq(Message) /\ Len(posted') = Len(posted) + 1 /\ Len(posted) \in Nat
    BY <1>1, AppendProperties DEF IInv, TypeOK
  <2> QED BY <1>1, <2>1, BridgeAssumption DEF Post
<1>5. SeenIds' = SeenIds
  BY <1>1 DEF SeenIds
<1> QED BY <1>1, <1>3, <1>4, <1>5 DEF Promise!Arrive

LEMMA ReceivePromises ==
  ASSUME IInv, NEW n \in Post, Receive(n)
  PROVE  Promise!Take(n) \/ Promise!Drop(n)
<1>1. /\ request[n] = "travelling" /\ UNCHANGED <<posted, gateway>>
      /\ TypeOK /\ n \in DOMAIN posted /\ posted[n] \in Message
  BY DEF Receive, IInv, TypeOK, PostsAgree
<1>2. Promise!Idle(n)
  BY <1>1 DEF Promise!Idle, Stages, StageOf
<1>3. CASE Known(posted[n])
  <2>1. request' = [request EXCEPT ![n] = "duplicate"] /\ UNCHANGED seen
    BY <1>3 DEF Receive
  <2>2. Stages' = [Stages EXCEPT ![n] = "over"]
    <3>1. StageOf("duplicate") = "over"
      BY DEF StageOf
    <3> QED BY <1>1, <2>1, <3>1, StageMoves
  <2>3. SeenIds' = SeenIds
    BY <2>1 DEF SeenIds
  <2>4. Promise!Remembered(posted[n])
    BY <1>1, <1>3, IdsKnown
  <2> QED BY <1>1, <1>2, <2>2, <2>3, <2>4 DEF Promise!Drop, Promise!Moves
<1>4. CASE ~Known(posted[n])
  <2>1. PICK to \in {"running", "notAllowed"} : request' = [request EXCEPT ![n] = to]
    BY <1>4 DEF Receive
  <2>2. StageOf(to) \in {"working", "over"}
    BY DEF StageOf
  <2>3. Promise!Moves(n, {"working", "over"})
    BY <1>1, <2>1, <2>2, StageMoves DEF Promise!Moves
  <2>4. /\ \E k \in 0..Len(SeenIds) :
             /\ k > 0 => Len(SeenIds) = DedupMax
             /\ SeenIds' = Append(SubSeq(SeenIds, k + 1, Len(SeenIds)), posted[n])
        /\ Len(SeenIds') <= DedupMax
    <3>1. Mark(posted[n])
      BY <1>4 DEF Receive
    <3> QED BY <1>1, <3>1, IdsMarked
  <2>5. ~Promise!Remembered(posted[n])
    BY <1>1, <1>4, IdsKnown
  <2> QED BY <1>1, <1>2, <2>3, <2>4, <2>5 DEF Promise!Take
<1> QED BY <1>3, <1>4

LEMMA WorkPromises ==
  ASSUME IInv, NEW n \in Post, Working(n)
  PROVE  Promise!HandOver(n) \/ Promise!Close(n) \/ UNCHANGED Promise!vars
<1> USE DEF Working
<1>1. TypeOK /\ UNCHANGED <<posted, seen>>
  BY DEF IInv, At, HermesReplies, HermesSilent, HermesFails, HermesTimesOut, OverdueEnds,
         ReplyRefused, ReplyConfirmed, ReplyGivenUp
<1>2. SeenIds' = SeenIds
  BY <1>1 DEF SeenIds
<1>3. CASE HermesReplies(n) \/ OverdueEnds(n)
  <2>1. \E r : /\ request' = [request EXCEPT ![n] = r]
               /\ StageOf(r) = StageOf(request[n])
    BY <1>3 DEF At, HermesReplies, OverdueEnds, StageOf
  <2>2. Stages' = Stages
    BY <1>1, <2>1, StageStays
  <2>3. CASE OverdueEnds(n)
    BY <1>1, <1>2, <2>2, <2>3 DEF OverdueEnds, Promise!vars
  <2>4. CASE HermesReplies(n)
    <3>1. request[n] = "running" /\ gateway' = [gateway EXCEPT ![n] = "asked"]
      BY <2>4 DEF HermesReplies, At
    <3>2. Stages[n] = "working" /\ gateway[n] = "none"
      BY <3>1 DEF Stages, StageOf, IInv, PostsAgree, Handed
    <3> QED BY <1>1, <1>2, <2>2, <3>1, <3>2 DEF Promise!HandOver
  <2> QED BY <1>3, <2>3, <2>4
<1>4. CASE \/ HermesSilent(n) \/ HermesFails(n) \/ HermesTimesOut(n)
           \/ ReplyRefused(n) \/ ReplyConfirmed(n) \/ ReplyGivenUp(n)
  <2>1. PICK r : /\ request' = [request EXCEPT ![n] = r]
                 /\ r \in {"noReply", "failed", "overdue", "sentReply"}
    BY <1>4 DEF At, HermesSilent, HermesFails, HermesTimesOut, ReplyRefused, ReplyConfirmed,
                ReplyGivenUp
  <2>2. request[n] \in {"running", "sending"} /\ UNCHANGED gateway
    BY <1>4 DEF At, HermesSilent, HermesFails, HermesTimesOut, ReplyRefused, ReplyConfirmed,
                ReplyGivenUp
  <2>3. Stages' = [Stages EXCEPT ![n] = "over"]
    <3>1. StageOf(r) = "over"
      BY <2>1 DEF StageOf
    <3> QED BY <1>1, <2>1, <3>1, StageMoves
  <2>4. Stages[n] = "working"
    BY <2>2 DEF Stages, StageOf
  <2> QED BY <1>1, <1>2, <2>2, <2>3, <2>4 DEF Promise!Close, Promise!Moves
<1> QED BY <1>3, <1>4

LEMMA SettlingPromises ==
  ASSUME IInv, NEW n \in Post, Settling(n)
  PROVE  Promise!Settle(n)
<1>1. Stages' = Stages /\ SeenIds' = SeenIds
  BY DEF Settling, GatewaySends, GatewayRefuses, Gateway, Stages, SeenIds
<1> QED BY <1>1 DEF Settling, GatewaySends, GatewayRefuses, Gateway, Promise!Settle

LEMMA RestartPromises ==
  ASSUME IInv, BridgeRestarts
  PROVE  Promise!Restart
<1>1. /\ seen' = <<>> /\ UNCHANGED <<posted, gateway>>
      /\ request' = [n \in Post |->
           IF request[n] \in {"running", "sending", "overdue"}
           THEN "failed" ELSE request[n]]
  BY DEF BridgeRestarts, Keep
<1>2. SeenIds' = <<>>
  BY <1>1 DEF SeenIds
<1>3. Stages' = [n \in Post |-> IF Stages[n] = "idle" THEN "idle" ELSE "over"]
  <2>1. \A n \in Post : StageOf(request'[n]) = IF StageOf(request[n]) = "idle" THEN "idle" ELSE "over"
    BY <1>1 DEF StageOf
  <2> QED BY <2>1 DEF Stages
<1> QED BY <1>1, <1>2, <1>3 DEF Promise!Restart

(* What the gateway learns of its posts, and what expires, is not promised. *)
LEMMA OthersPromise ==
  ASSUME IInv,
         \/ \E n \in Post : PostLost(n) \/ DispatchTimesOut(n) \/ AnswerArrives(n)
         \/ EntriesExpire \/ UNCHANGED vars
  PROVE  UNCHANGED Promise!vars
<1>1. CASE EntriesExpire
  <2>1. PICK k : seen' = [i \in DOMAIN seen |->
                   IF i <= k THEN [seen[i] EXCEPT !.expired = TRUE] ELSE seen[i]]
    BY <1>1 DEF EntriesExpire
  <2>2. \A i \in DOMAIN seen : seen'[i].id = seen[i].id
    <3> SUFFICES ASSUME NEW i \in DOMAIN seen
                 PROVE  seen'[i].id = seen[i].id
      OBVIOUS
    <3>1. seen[i] \in Entry
      <4>1. seen \in Seq(Entry) /\ i \in 1..Len(seen)
        BY DEF IInv, TypeOK, Entry
      <4> QED BY <4>1
    <3>2. seen'[i] = IF i <= k THEN [seen[i] EXCEPT !.expired = TRUE] ELSE seen[i]
      BY <2>1
    <3> QED BY <3>1, <3>2 DEF Entry
  <2>3. SeenIds' = SeenIds
    BY <2>1, <2>2 DEF SeenIds
  <2> QED BY <1>1, <2>3 DEF EntriesExpire, Promise!vars, Stages
<1>2. CASE UNCHANGED <<posted, request, seen, gateway>>
  BY <1>2 DEF Promise!vars, Stages, SeenIds
<1>3. ASSUME NEW n \in Post, PostLost(n)
      PROVE  UNCHANGED Promise!vars
  <2>1. Stages' = Stages
    BY <1>3, StageStays DEF PostLost, StageOf, IInv
  <2> QED BY <1>3, <2>1 DEF PostLost, Promise!vars, SeenIds
<1> QED BY <1>1, <1>2, <1>3 DEF DispatchTimesOut, AnswerArrives, vars

LEMMA NextPromises == IInv /\ [Next]_vars => [Promise!Next]_(Promise!vars)
<1> SUFFICES ASSUME IInv, [Next]_vars
             PROVE  Promise!Next \/ UNCHANGED Promise!vars
  OBVIOUS
<1>1. CASE \E m \in Message : Dispatch(m)
  BY <1>1, DispatchPromises DEF Promise!Next
<1>2. CASE \E n \in Post : Receive(n)
  BY <1>2, ReceivePromises DEF Promise!Next
<1>3. CASE \E n \in Post : Working(n)
  BY <1>3, WorkPromises DEF Promise!Next
<1>4. CASE BridgeRestarts
  BY <1>4, RestartPromises DEF Promise!Next
<1>5. CASE \/ \E n \in Post : PostLost(n) \/ DispatchTimesOut(n) \/ AnswerArrives(n)
           \/ EntriesExpire \/ UNCHANGED vars
  BY <1>5, OthersPromise
<1>6. CASE \E n \in Post : Settling(n)
  BY <1>6, SettlingPromises DEF Promise!Next
<1> QED BY <1>1, <1>2, <1>3, <1>4, <1>5, <1>6 DEF Next, Working, Settling

(* However posts of one message repeat and overlap, Hermes is late, answers *)
(* are lost, the gateway sends what was given up and the bridge restarts:   *)
(* it takes a post up at most once and not while its message is remembered, *)
(* hands over at most one reply for it and none once it has answered, and   *)
(* forgets only what is oldest and only if it must (orchestrator.ts,        *)
(* process and isDuplicate).                                                *)
THEOREM BridgeRepliesOnce == Spec => ImplementsReplyOnce
BY InductiveInvariant, InitPromises, NextPromises, PTL
   DEF Spec, ImplementsReplyOnce, Promise!Spec
=============================================================================
