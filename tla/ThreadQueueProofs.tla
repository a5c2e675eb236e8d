-------------------------- MODULE ThreadQueueProofs --------------------------
(***************************************************************************)
(* Proofs about ThreadQueue, for any set of threads and any limits.        *)
(*                                                                         *)
(* The module's actions compose the operators that model the private       *)
(* methods of the class, so the argument is made method by method: each    *)
(* operator maps consistent fields to consistent fields, and the inductive *)
(* invariant is that the fields are consistent between two actions.  On    *)
(* this rest the implementation of ThreadSink, the order of messages       *)
(* (OrderInv), and the use of free slots (SaturationInv).                  *)
(***************************************************************************)
EXTENDS ThreadQueue, FiniteSetTheorems, SequenceTheorems, WellFoundedInduction,
        TLAPS

MessageOf(t) == [th : {t}, id : Nat \ {0}]

(* What holds of the fields before and after every method. *)
Consistent(s) ==
  /\ s \in SinkType
  /\ \A t \in Thread : s.queue[t] \in Seq(MessageOf(t))
  /\ IsFiniteSet(s.handling)
  /\ s.activeCount = Cardinality(s.handling)
  /\ s.activeCount <= MaxConcurrent
  /\ \A m1, m2 \in s.handling : m1.th = m2.th => m1 = m2
  /\ s.processing = {m.th : m \in s.handling}
  /\ IsInjective(s.pendingThreads)

(* Thread t is known exactly if it has something to do, and if it has       *)
(* messages then somebody will come back to it.                             *)
SettledThread(s, t) ==
  /\ t \in s.threads <=> s.queue[t] # <<>> \/ t \in s.processing
  /\ s.queue[t] # <<>> => t \in s.processing \/ Contains(s.pendingThreads, t)

(* A method that works on thread t is called while t itself is not settled. *)
SettledBut(s, t) == \A u \in Thread \ {t} : SettledThread(s, u)

Settled(s) == \A u \in Thread : SettledThread(s, u)

-----------------------------------------------------------------------------
(* A set of positions that is not empty has a least element, so a search    *)
(* in a sequence returns 0 or a position that satisfies the test.           *)
LEMMA LeastPosition ==
  ASSUME NEW n \in Nat, NEW I \in SUBSET (1..n), I # {}
  PROVE  Min(I) \in I /\ \A i \in I : Min(I) <= i
<1>1. PICK R : /\ IsWellFoundedOn(R, Nat)
               /\ \A a, b \in Nat : a < b => <<a, b>> \in R
  <2>1. \A a, b \in Nat : a < b => <<a, b>> \in OpToRel(<, Nat)
    BY DEF OpToRel
  <2> QED BY <2>1, NatLessThanWellFounded, Zenon
<1>2. I \subseteq Nat
  OBVIOUS
<1>3. PICK k \in I : \A i \in I : ~(<<i, k>> \in R)
  <2>1. IsWellFoundedOn(R, Nat)
    BY <1>1
  <2> QED BY <1>2, <2>1, WFMin
<1>4. ASSUME NEW i \in I
      PROVE  k <= i
  <2>1. ~(i < k)
    BY <1>1, <1>2, <1>3, Zenon
  <2> QED BY <1>2, <2>1
<1> QED BY <1>4, Zenon DEF Min

LEMMA SkipStaleType ==
  ASSUME NEW S, NEW q \in Seq(S)
  PROVE  SkipStale(q) \in Seq(S)
<1> DEFINE I == {i \in 1..Len(q) : ~Stale(q[i])}
<1>1. Len(q) \in Nat /\ I \in SUBSET (1..Len(q))
  OBVIOUS
<1>2. CASE I = {}
  <2>1. SkipStale(q) = <<>>
    BY <1>2, Zenon DEF SkipStale, SelectInSeq
  <2> QED BY <2>1
<1>3. CASE I # {}
  <2>1. Min(I) \in 1..Len(q)
    <3> HIDE DEF I
    <3> QED BY <1>1, <1>3, LeastPosition
  <2>2. SkipStale(q) = SubSeq(q, Min(I), Len(q))
    <3>1. SelectInSeq(q, LAMBDA m : ~Stale(m)) = Min(I)
      BY <1>3, Zenon DEF SelectInSeq
    <3>2. Min(I) # 0
      BY <2>1, <1>1
    <3> QED BY <3>1, <3>2, Zenon DEF SkipStale
  <2> HIDE DEF I
  <2> QED BY <1>1, <2>1, <2>2, SubSeqProperties
<1> QED BY <1>2, <1>3
-----------------------------------------------------------------------------
(* Updating several fields at once: what becomes of each field.             *)
WithRaces(s, q, p, n, h) ==
  [s EXCEPT !.queue = q, !.processing = p, !.activeCount = n, !.handling = h]

WithQueue(s, k, q) == [s EXCEPT !.threads = k, !.queue = q]

Fields(r, k, q, p, n, l, h) ==
  /\ r \in SinkType
  /\ r.threads = k /\ r.queue = q /\ r.processing = p
  /\ r.activeCount = n /\ r.pendingThreads = l /\ r.handling = h

LEMMA WithRacesFields ==
  ASSUME NEW s \in SinkType, NEW q \in [Thread -> Seq(Message)],
         NEW p \in SUBSET Thread, NEW n \in Nat, NEW h \in SUBSET Message
  PROVE  Fields(WithRaces(s, q, p, n, h), s.threads, q, p, n, s.pendingThreads, h)
BY DEF SinkType, WithRaces, Fields

LEMMA WithQueueFields ==
  ASSUME NEW s \in SinkType, NEW k \in SUBSET Thread,
         NEW q \in [Thread -> Seq(Message)]
  PROVE  Fields(WithQueue(s, k, q), k, q, s.processing, s.activeCount,
                s.pendingThreads, s.handling)
BY DEF SinkType, WithQueue, Fields

LEMMA CleanupThreadConsistent ==
  ASSUME NEW s, NEW t \in Thread, Consistent(s)
  PROVE  Consistent(CleanupThread(s, t))
<1>1. CASE t \notin s.processing /\ s.queue[t] = <<>>
  <2> DEFINE r == [s EXCEPT !.threads = @ \ {t}]
  <2>1. /\ r \in SinkType
        /\ r.queue = s.queue /\ r.handling = s.handling
        /\ r.activeCount = s.activeCount /\ r.processing = s.processing
        /\ r.pendingThreads = s.pendingThreads
    BY DEF Consistent, SinkType
  <2>2. CleanupThread(s, t) = r
    BY <1>1 DEF CleanupThread
  <2> HIDE DEF r
  <2> QED BY <2>1, <2>2 DEF Consistent
<1>2. CASE ~(t \notin s.processing /\ s.queue[t] = <<>>)
  BY <1>2 DEF CleanupThread
<1> QED BY <1>1, <1>2

(* Cleaning up the thread that a method worked on settles it.               *)
LEMMA CleanupThreadSettles ==
  ASSUME NEW s, NEW t \in Thread, Consistent(s), SettledBut(s, t),
         t \notin s.processing, s.queue[t] = <<>>
  PROVE  Settled(CleanupThread(s, t))
<1> DEFINE r == [s EXCEPT !.threads = @ \ {t}]
<1>1. /\ r.threads = s.threads \ {t}
      /\ r.queue = s.queue /\ r.processing = s.processing
      /\ r.pendingThreads = s.pendingThreads
  BY DEF Consistent, SinkType
<1>2. CleanupThread(s, t) = r
  BY DEF CleanupThread
<1> HIDE DEF r
<1> QED BY <1>1, <1>2 DEF SettledBut, Settled, SettledThread

(* ProcessNext is called for a thread without an open race, when a slot is  *)
(* free: the race that it opens is the thread's only one.                   *)
LEMMA ProcessNextConsistent ==
  ASSUME NEW s, NEW t \in Thread, Consistent(s),
         t \notin s.processing, s.activeCount < MaxConcurrent
  PROVE  Consistent(ProcessNext(s, t))
<1> DEFINE q == SkipStale(s.queue[t])
           qe == [s.queue EXCEPT ![t] = <<>>]
           qt == [s.queue EXCEPT ![t] = Tail(q)]
           e == WithQueue(s, s.threads, qe)
           r == WithRaces(s, qt, s.processing \cup {t}, s.activeCount + 1,
                          s.handling \cup {Head(q)})
<1>1. /\ s \in SinkType /\ s.threads \in SUBSET Thread
      /\ s.queue \in [Thread -> Seq(Message)] /\ s.processing \in SUBSET Thread
      /\ s.activeCount \in Nat /\ s.handling \in SUBSET Message
  BY DEF Consistent, SinkType
<1>2. MessageOf(t) \subseteq Message
  BY DEF MessageOf, Message
<1>3. q \in Seq(MessageOf(t))
  BY SkipStaleType DEF Consistent
<1>4. CASE q = <<>>
  <2>1. ProcessNext(s, t) = CleanupThread(e, t)
    BY <1>1, <1>4 DEF ProcessNext, WithQueue, SinkType
  <2>2. qe \in [Thread -> Seq(Message)]
    BY <1>1
  <2>3. \A u \in Thread : qe[u] \in Seq(MessageOf(u))
    BY <1>1 DEF Consistent
  <2> HIDE DEF q, qe, e
  <2>4. Consistent(e)
    <3>1. Fields(e, s.threads, qe, s.processing, s.activeCount,
                 s.pendingThreads, s.handling)
      BY <1>1, <2>2, WithQueueFields, Zenon DEF e
    <3> QED BY <2>3, <3>1 DEF Consistent, Fields
  <2> QED BY <2>1, <2>4, CleanupThreadConsistent
<1>5. CASE q # <<>>
  <2>1. ProcessNext(s, t) = r
    BY <1>5, Zenon DEF ProcessNext, WithRaces
  <2> HIDE DEF q
  <2>2. Head(q) \in MessageOf(t) /\ Tail(q) \in Seq(MessageOf(t))
    BY <1>3, <1>5
  <2>3. Head(q).th = t /\ Head(q) \in Message /\ Tail(q) \in Seq(Message)
    BY <1>2, <2>2, SeqMonotonic DEF MessageOf
  <2>4. qt \in [Thread -> Seq(Message)]
    BY <1>1, <2>3
  <2>5. \A u \in Thread : qt[u] \in Seq(MessageOf(u))
    BY <1>1, <2>2 DEF Consistent
  <2> HIDE DEF qt
  <2>6. Fields(r, s.threads, qt, s.processing \cup {t}, s.activeCount + 1,
               s.pendingThreads, s.handling \cup {Head(q)})
    <3>1. /\ s.processing \cup {t} \in SUBSET Thread
          /\ s.activeCount + 1 \in Nat
          /\ s.handling \cup {Head(q)} \in SUBSET Message
      BY <1>1, <2>3
    <3> QED BY <1>1, <2>4, <3>1, WithRacesFields, Zenon
  <2> HIDE DEF r
  <2>7. Head(q) \notin s.handling
    BY <2>3 DEF Consistent
  <2>8. IsFiniteSet(r.handling) /\ r.activeCount = Cardinality(r.handling)
    <3>1. IsFiniteSet(s.handling) /\ s.activeCount = Cardinality(s.handling)
      BY DEF Consistent
    <3>2. /\ IsFiniteSet(s.handling \cup {Head(q)})
          /\ Cardinality(s.handling \cup {Head(q)}) = s.activeCount + 1
      BY <2>7, <3>1, FS_AddElement
    <3> QED BY <2>6, <3>2, Zenon DEF Fields
  <2>9. r.activeCount <= MaxConcurrent
    BY <1>1, <2>6, QueueAssumption DEF Fields
  <2>10. \A m1, m2 \in r.handling : m1.th = m2.th => m1 = m2
    BY <2>3, <2>6 DEF Consistent, Fields
  <2>11. r.processing = {m.th : m \in r.handling}
    BY <2>3, <2>6 DEF Consistent, Fields
  <2> QED BY <2>1, <2>5, <2>6, <2>8, <2>9, <2>10, <2>11 DEF Consistent, Fields
<1> QED BY <1>4, <1>5
LEMMA ProcessNextSettles ==
  ASSUME NEW s, NEW t \in Thread, Consistent(s), SettledBut(s, t),
         t \notin s.processing, t \in s.threads
  PROVE  Settled(ProcessNext(s, t))
<1> DEFINE q == SkipStale(s.queue[t])
           qe == [s.queue EXCEPT ![t] = <<>>]
           qt == [s.queue EXCEPT ![t] = Tail(q)]
           e == WithQueue(s, s.threads, qe)
           r == WithRaces(s, qt, s.processing \cup {t}, s.activeCount + 1,
                          s.handling \cup {Head(q)})
<1>1. s \in SinkType /\ s.queue \in [Thread -> Seq(Message)]
  BY DEF Consistent, SinkType
<1>2. CASE q = <<>>
  <2>1. ProcessNext(s, t) = CleanupThread(e, t)
    BY <1>1, <1>2 DEF ProcessNext, WithQueue, SinkType
  <2>2. /\ e.threads = s.threads /\ e.queue = qe /\ e.processing = s.processing
        /\ e.pendingThreads = s.pendingThreads
    BY <1>1 DEF WithQueue, SinkType
  <2>3. CleanupThread(e, t) = [e EXCEPT !.threads = @ \ {t}]
    BY <1>1, <2>2 DEF CleanupThread
  <2>4. /\ CleanupThread(e, t).threads = s.threads \ {t}
        /\ CleanupThread(e, t).queue = qe
        /\ CleanupThread(e, t).processing = s.processing
        /\ CleanupThread(e, t).pendingThreads = s.pendingThreads
    BY <1>1, <2>2, <2>3 DEF WithQueue, SinkType
  <2> HIDE DEF q, e
  <2> QED BY <1>1, <2>1, <2>4 DEF Settled, SettledBut, SettledThread
<1>3. CASE q # <<>>
  <2>1. ProcessNext(s, t) = r
    BY <1>3, Zenon DEF ProcessNext, WithRaces
  <2>2. /\ r.threads = s.threads /\ r.queue = qt
        /\ r.processing = s.processing \cup {t}
        /\ r.pendingThreads = s.pendingThreads
    BY <1>1 DEF WithRaces, SinkType
  <2> HIDE DEF q, r
  <2> QED BY <1>1, <2>1, <2>2 DEF Settled, SettledBut, SettledThread
<1> QED BY <1>2, <1>3

-----------------------------------------------------------------------------
(* A thread joins the end of the line unless it already stands in it.       *)
LEMMA JoinLine ==
  ASSUME NEW w \in Seq(Thread), IsInjective(w), NEW t \in Thread,
         NEW l, l = IF Contains(w, t) THEN w ELSE Append(w, t)
  PROVE  /\ l \in Seq(Thread) /\ IsInjective(l) /\ Contains(l, t)
         /\ \A u \in Thread : Contains(w, u) => Contains(l, u)
<1>1. CASE Contains(w, t)
  BY <1>1
<1>2. CASE ~Contains(w, t)
  <2>1. /\ l = Append(w, t) /\ l \in Seq(Thread) /\ Len(l) = Len(w) + 1
        /\ l[Len(l)] = t /\ \A i \in 1..Len(w) : l[i] = w[i]
        /\ Len(w) \in Nat
    BY <1>2
  <2>2. \A i \in 1..Len(w) : w[i] # t
    BY <1>2 DEF Contains
  <2>3. IsInjective(l)
    BY <2>1, <2>2 DEF IsInjective
  <2>4. Contains(l, t)
    BY <2>1 DEF Contains
  <2>5. \A u \in Thread : Contains(w, u) => Contains(l, u)
    BY <2>1 DEF Contains
  <2> QED BY <2>1, <2>3, <2>4, <2>5
<1> QED BY <1>1, <1>2

(* What is left of the line after its first n threads were called.          *)
LEMMA LeaveLine ==
  ASSUME NEW w \in Seq(Thread), IsInjective(w), NEW n \in 1..Len(w),
         NEW l, l = SubSeq(w, n + 1, Len(w))
  PROVE  /\ l \in Seq(Thread) /\ IsInjective(l)
         /\ \A u \in Thread : Contains(w, u) =>
              Contains(l, u) \/ \E i \in 1..n : w[i] = u
<1>1. /\ l \in Seq(Thread) /\ Len(l) = Len(w) - n
      /\ \A i \in 1..Len(l) : l[i] = w[n + i]
      /\ Len(w) \in Nat
  BY SubSeqProperties
<1>2. IsInjective(l)
  BY <1>1 DEF IsInjective
<1>3. ASSUME NEW u \in Thread, NEW i \in 1..Len(w), w[i] = u, i \notin 1..n
      PROVE  Contains(l, u)
  <2>1. i - n \in 1..Len(l) /\ l[i - n] = u
    BY <1>1, <1>3
  <2> QED BY <2>1 DEF Contains
<1> QED BY <1>1, <1>2, <1>3 DEF Contains

(* tryDrain leaves a thread that is known and has a reason to be so settled *)
(* whether it starts a message, puts the thread in the line, or does        *)
(* nothing because the thread's race is still open.                         *)
LEMMA TryDrainConsistent ==
  ASSUME NEW s, NEW t \in Thread, Consistent(s), SettledBut(s, t),
         t \in s.threads, s.queue[t] # <<>>
  PROVE  Consistent(TryDrain(s, t)) /\ Settled(TryDrain(s, t))
<1>1. CASE t \in s.processing
  <2>1. TryDrain(s, t) = s
    BY <1>1 DEF TryDrain
  <2> QED BY <1>1, <2>1 DEF Settled, SettledBut, SettledThread
<1>2. CASE t \notin s.processing /\ s.activeCount < MaxConcurrent
  <2>1. TryDrain(s, t) = ProcessNext(s, t)
    BY <1>2, QueueAssumption DEF TryDrain, Consistent, SinkType
  <2> QED BY <1>2, <2>1, ProcessNextConsistent, ProcessNextSettles
<1>3. CASE t \notin s.processing /\ ~(s.activeCount < MaxConcurrent)
  <2> DEFINE l == IF Contains(s.pendingThreads, t) THEN s.pendingThreads
                  ELSE Append(s.pendingThreads, t)
             r == [s EXCEPT !.pendingThreads = l]
  <2>1. TryDrain(s, t) = r
    BY <1>3, QueueAssumption DEF TryDrain, Consistent, SinkType
  <2>2. s \in SinkType /\ s.pendingThreads \in Seq(Thread)
    BY DEF Consistent, SinkType
  <2>3. /\ l \in Seq(Thread) /\ IsInjective(l) /\ Contains(l, t)
        /\ \A u \in Thread : Contains(s.pendingThreads, u) => Contains(l, u)
    <3>1. IsInjective(s.pendingThreads)
      BY DEF Consistent
    <3> QED BY <2>2, <3>1, JoinLine
  <2> HIDE DEF l
  <2>4. /\ r \in SinkType /\ r.pendingThreads = l
        /\ r.threads = s.threads /\ r.queue = s.queue
        /\ r.processing = s.processing /\ r.activeCount = s.activeCount
        /\ r.handling = s.handling
    BY <2>2, <2>3 DEF SinkType
  <2> HIDE DEF r
  <2>5. Consistent(r)
    BY <2>3, <2>4 DEF Consistent
  <2>6. Settled(r)
    BY <2>3, <2>4 DEF Settled, SettledBut, SettledThread
  <2> QED BY <2>1, <2>5, <2>6
<1> QED BY <1>1, <1>2, <1>3
(* The end of a race frees the slot of its thread, and the thread goes on   *)
(* with its next message or is forgotten.                                   *)
LEMMA ReleaseConsistent ==
  ASSUME NEW s, Consistent(s), Settled(s), NEW m \in s.handling
  PROVE  /\ Consistent(Release(s, m)) /\ SettledBut(Release(s, m), m.th)
         /\ m.th \in Thread /\ m.th \in Release(s, m).threads
         /\ m.th \notin Release(s, m).processing
<1> DEFINE r == WithRaces(s, s.queue, s.processing \ {m.th}, s.activeCount - 1,
                          s.handling \ {m})
<1>1. /\ s \in SinkType /\ s.threads \in SUBSET Thread
      /\ s.queue \in [Thread -> Seq(Message)] /\ s.processing \in SUBSET Thread
      /\ s.activeCount \in Nat /\ s.handling \in SUBSET Message
      /\ IsFiniteSet(s.handling) /\ s.activeCount = Cardinality(s.handling)
  BY DEF Consistent, SinkType
<1>2. m.th \in Thread /\ m.th \in s.processing
  BY <1>1 DEF Consistent, Message
<1>3. /\ IsFiniteSet(s.handling \ {m})
      /\ Cardinality(s.handling \ {m}) = s.activeCount - 1
      /\ s.activeCount - 1 \in Nat
  <2>1. /\ IsFiniteSet(s.handling \ {m})
        /\ Cardinality(s.handling \ {m}) = Cardinality(s.handling) - 1
    BY <1>1, FS_RemoveElement
  <2>2. Cardinality(s.handling \ {m}) \in Nat
    BY <2>1, FS_CardinalityType
  <2> QED BY <1>1, <2>1, <2>2
<1>4. Release(s, m) = r
  BY <1>1 DEF Release, WithRaces, SinkType
<1>5. Fields(r, s.threads, s.queue, s.processing \ {m.th}, s.activeCount - 1,
             s.pendingThreads, s.handling \ {m})
  <2>1. /\ s.processing \ {m.th} \in SUBSET Thread
        /\ s.handling \ {m} \in SUBSET Message
    BY <1>1
  <2> QED BY <1>1, <1>3, <2>1, WithRacesFields, Zenon
<1> HIDE DEF r
<1>6. Consistent(r)
  <2>1. IsFiniteSet(r.handling) /\ r.activeCount = Cardinality(r.handling)
    BY <1>3, <1>5, Zenon DEF Fields
  <2>2. r.activeCount <= MaxConcurrent
    <3>1. s.activeCount <= MaxConcurrent
      BY DEF Consistent
    <3> QED BY <1>1, <1>5, <3>1, QueueAssumption DEF Fields
  <2>3. \A m1, m2 \in r.handling : m1.th = m2.th => m1 = m2
    BY <1>5 DEF Consistent, Fields
  <2>4. r.processing = {k.th : k \in r.handling}
    <3>1. \A k \in s.handling : k.th = m.th => k = m
      BY DEF Consistent
    <3>2. s.processing = {k.th : k \in s.handling}
      BY DEF Consistent
    <3> QED BY <1>5, <3>1, <3>2 DEF Fields
  <2> QED BY <1>5, <2>1, <2>2, <2>3, <2>4 DEF Consistent, Fields
<1>7. SettledBut(r, m.th) /\ m.th \in r.threads /\ m.th \notin r.processing
  BY <1>2, <1>5 DEF Settled, SettledBut, SettledThread, Fields
<1> QED BY <1>2, <1>4, <1>6, <1>7

LEMMA ContinueThreadConsistent ==
  ASSUME NEW s, NEW t \in Thread, Consistent(s), SettledBut(s, t),
         t \in s.threads, t \notin s.processing
  PROVE  Consistent(ContinueThread(s, t)) /\ Settled(ContinueThread(s, t))
<1>1. CASE s.queue[t] # <<>>
  BY <1>1, TryDrainConsistent DEF ContinueThread
<1>2. CASE s.queue[t] = <<>>
  BY <1>2, CleanupThreadConsistent, CleanupThreadSettles DEF ContinueThread
<1> QED BY <1>1, <1>2

(* The threads that drainPendingThread pops and passes over need no slot,   *)
(* and the one that it does not pass over is settled by processNext.        *)
LEMMA DrainPendingThreadConsistent ==
  ASSUME NEW s, Consistent(s), Settled(s)
  PROVE  Consistent(DrainPendingThread(s)) /\ Settled(DrainPendingThread(s))
<1> DEFINE w == s.pendingThreads
           I == {i \in 1..Len(w) : Servable(s, w[i])}
<1>1. s \in SinkType /\ w \in Seq(Thread) /\ IsInjective(w) /\ Len(w) \in Nat
  BY DEF Consistent, SinkType
<1>2. SelectInSeq(w, LAMBDA t : Servable(s, t)) = IF I # {} THEN Min(I) ELSE 0
  BY Zenon DEF SelectInSeq
<1>3. CASE s.activeCount >= MaxConcurrent
  BY <1>3, Zenon DEF DrainPendingThread
<1>4. CASE ~(s.activeCount >= MaxConcurrent) /\ I = {}
  <2> DEFINE r == [s EXCEPT !.pendingThreads = <<>>]
  <2>1. DrainPendingThread(s) = r
    BY <1>2, <1>4, Zenon DEF DrainPendingThread
  <2>2. /\ r \in SinkType /\ r.pendingThreads = <<>>
        /\ r.threads = s.threads /\ r.queue = s.queue
        /\ r.processing = s.processing /\ r.activeCount = s.activeCount
        /\ r.handling = s.handling
    <3>1. <<>> \in Seq(Thread)
      OBVIOUS
    <3> QED BY <1>1, <3>1 DEF SinkType
  <2>3. IsInjective(<<>>)
    BY DEF IsInjective
  <2>4. \A t \in Thread : Contains(w, t) => ~Servable(s, t)
    BY <1>4 DEF Contains
  <2> HIDE DEF r
  <2>5. Consistent(r)
    BY <2>2, <2>3 DEF Consistent
  <2>6. Settled(r)
    BY <2>2, <2>4 DEF Settled, SettledThread, Servable
  <2> QED BY <2>1, <2>5, <2>6
<1>5. CASE ~(s.activeCount >= MaxConcurrent) /\ I # {}
  <2> DEFINE n == Min(I)
             l == SubSeq(w, n + 1, Len(w))
             r == [s EXCEPT !.pendingThreads = l]
  <2>1. n \in I /\ \A i \in I : n <= i
    <3>1. I \in SUBSET (1..Len(w))
      OBVIOUS
    <3> HIDE DEF I
    <3> QED BY <1>1, <1>5, <3>1, LeastPosition
  <2>2. /\ n \in 1..Len(w) /\ w[n] \in Thread /\ Servable(s, w[n])
        /\ \A i \in 1..n : i # n => ~Servable(s, w[i])
    <3> HIDE DEF n
    <3> QED BY <1>1, <2>1
  <2>3. DrainPendingThread(s) = ProcessNext(r, w[n])
    <3>1. SelectInSeq(w, LAMBDA t : Servable(s, t)) = n /\ n # 0
      BY <1>2, <1>5, <2>2
    <3> QED BY <1>5, <3>1, Zenon DEF DrainPendingThread
  <2> HIDE DEF I, n
  <2>4. /\ l \in Seq(Thread) /\ IsInjective(l)
        /\ \A u \in Thread : Contains(w, u) =>
             Contains(l, u) \/ \E i \in 1..n : w[i] = u
    BY <1>1, <2>2, LeaveLine
  <2> HIDE DEF l
  <2>5. /\ r \in SinkType /\ r.pendingThreads = l
        /\ r.threads = s.threads /\ r.queue = s.queue
        /\ r.processing = s.processing /\ r.activeCount = s.activeCount
        /\ r.handling = s.handling
    BY <1>1, <2>4 DEF SinkType
  <2> HIDE DEF r
  <2>6. Consistent(r)
    BY <2>4, <2>5 DEF Consistent
  <2>7. SettledBut(r, w[n])
    <3> SUFFICES ASSUME NEW u \in Thread, u # w[n]
                 PROVE  SettledThread(r, u)
      BY DEF SettledBut
    <3>1. SettledThread(s, u)
      BY DEF Settled
    <3>2. Contains(w, u) /\ ~Contains(l, u) => ~Servable(s, u)
      BY <2>2, <2>4
    <3> QED BY <2>5, <3>1, <3>2 DEF SettledThread, Servable
  <2>8. w[n] \in r.threads /\ w[n] \notin r.processing /\ r.activeCount < MaxConcurrent
    BY <1>5, <2>2, <2>5, QueueAssumption
       DEF Settled, SettledThread, Servable, SinkType
  <2> QED BY <2>2, <2>3, <2>6, <2>7, <2>8, ProcessNextConsistent, ProcessNextSettles
<1> QED BY <1>3, <1>4, <1>5
-----------------------------------------------------------------------------
IInv ==
  /\ Consistent(sink)
  /\ Settled(sink)
  /\ orphaned \subseteq Message
  /\ sent \in 0..MaxMessages
  /\ horizon \in 0..sent

LEMMA InitIInv == Init => IInv
<1> SUFFICES ASSUME Init PROVE IInv
  OBVIOUS
<1> DEFINE s == EmptySink
<1>1. /\ s.threads = {} /\ s.queue = [t \in Thread |-> <<>>]
      /\ s.processing = {} /\ s.activeCount = 0
      /\ s.pendingThreads = <<>> /\ s.handling = {}
  BY DEF EmptySink
<1>2. s \in SinkType
  <2>1. [t \in Thread |-> <<>>] \in [Thread -> Seq(Message)]
    OBVIOUS
  <2>2. <<>> \in Seq(Thread)
    OBVIOUS
  <2> QED BY <2>1, <2>2 DEF EmptySink, SinkType
<1>3. Consistent(s)
  <2>1. IsInjective(<<>>)
    BY DEF IsInjective
  <2>2. \A t \in Thread : s.queue[t] \in Seq(MessageOf(t))
    BY <1>1
  <2>3. IsFiniteSet(s.handling) /\ s.activeCount = Cardinality(s.handling)
    BY <1>1, FS_EmptySet
  <2>4. s.activeCount <= MaxConcurrent
    BY <1>1, QueueAssumption
  <2> QED BY <1>1, <1>2, <2>1, <2>2, <2>3, <2>4 DEF Consistent
<1>4. Settled(s)
  BY <1>1 DEF Settled, SettledThread
<1> QED BY <1>3, <1>4, QueueAssumption DEF Init, IInv

(* The fields when enqueue calls tryDrain.                                  *)
ArrivedQueue(t) ==
  [sink.queue EXCEPT ![t] =
     Append(MakeRoom(sink.queue[t]), [th |-> t, id |-> sent + 1])]

Arrived(t) == WithQueue(sink, sink.threads \cup {t}, ArrivedQueue(t))

LEMMA ArrivedConsistent ==
  ASSUME IInv, NEW t \in Thread, Enqueue(t)
  PROVE  /\ Consistent(Arrived(t)) /\ SettledBut(Arrived(t), t)
         /\ t \in Arrived(t).threads /\ Arrived(t).queue[t] # <<>>
         /\ Fields(Arrived(t), sink.threads \cup {t}, ArrivedQueue(t),
                   sink.processing, sink.activeCount, sink.pendingThreads,
                   sink.handling)
         /\ sink' = TryDrain(Arrived(t), t)
<1> DEFINE m == [th |-> t, id |-> sent + 1]
           k == sink.threads \cup {t}
           a == Append(MakeRoom(sink.queue[t]), m)
           q == ArrivedQueue(t)
           s == Arrived(t)
<1>1. /\ sink \in SinkType /\ sink.threads \in SUBSET Thread
      /\ sink.queue \in [Thread -> Seq(Message)]
      /\ sink.queue[t] \in Seq(MessageOf(t))
  BY DEF IInv, Consistent, SinkType
<1>2. sink' = TryDrain(s, t)
  <2>1. [sink EXCEPT !.threads  = @ \cup {t},
                     !.queue[t] = Append(MakeRoom(@), m)] = s
    BY <1>1 DEF Arrived, ArrivedQueue, WithQueue, SinkType
  <2> QED BY <2>1, Zenon DEF Enqueue
<1>3. sent \in Nat
  BY QueueAssumption DEF IInv
<1>4. a \in Seq(MessageOf(t)) /\ a \in Seq(Message) /\ a # <<>>
  <2>1. m \in MessageOf(t) /\ MessageOf(t) \subseteq Message
    BY <1>3 DEF MessageOf, Message
  <2> HIDE DEF m
  <2>2. MakeRoom(sink.queue[t]) \in Seq(MessageOf(t))
    <3>1. CASE Len(sink.queue[t]) >= MaxPerThread
      <4>1. sink.queue[t] # <<>>
        BY <3>1, QueueAssumption
      <4> QED BY <1>1, <3>1, <4>1 DEF MakeRoom
    <3>2. CASE ~(Len(sink.queue[t]) >= MaxPerThread)
      BY <1>1, <3>2 DEF MakeRoom
    <3> QED BY <3>1, <3>2
  <2>3. a \in Seq(MessageOf(t)) /\ a # <<>>
    BY <2>1, <2>2
  <2> QED BY <2>1, <2>3, SeqMonotonic
<1>5. q = [sink.queue EXCEPT ![t] = a]
  BY DEF ArrivedQueue
<1> HIDE DEF a, q
<1>6. /\ k \in SUBSET Thread /\ q \in [Thread -> Seq(Message)]
      /\ q[t] # <<>>
      /\ \A u \in Thread : q[u] \in Seq(MessageOf(u))
      /\ \A u \in Thread \ {t} : q[u] = sink.queue[u]
  BY <1>5, <1>1, <1>4 DEF IInv, Consistent
<1>7. Fields(s, k, q, sink.processing, sink.activeCount, sink.pendingThreads,
             sink.handling)
  <2>1. s = WithQueue(sink, k, q)
    BY Zenon DEF Arrived, q
  <2> HIDE DEF k, s
  <2> QED BY <1>1, <1>6, <2>1, WithQueueFields, Zenon
<1> HIDE DEF s
<1>8. Consistent(s)
  BY <1>6, <1>7 DEF IInv, Consistent, Fields
<1>9. SettledBut(s, t) /\ t \in s.threads /\ s.queue[t] # <<>>
  BY <1>6, <1>7 DEF IInv, Settled, SettledBut, SettledThread, Fields
<1> QED BY <1>2, <1>7, <1>8, <1>9, Zenon DEF s, q, k

LEMMA EnqueueIInv ==
  ASSUME IInv, NEW t \in Thread, Enqueue(t)
  PROVE  IInv'
<1>1. /\ sent < MaxMessages /\ sent' = sent + 1
      /\ orphaned' = orphaned /\ horizon' = horizon
  BY DEF Enqueue
<1>2. sent \in 0..MaxMessages /\ horizon \in 0..sent /\ MaxMessages \in Nat
  BY QueueAssumption DEF IInv
<1>3. Consistent(sink') /\ Settled(sink')
  BY ArrivedConsistent, TryDrainConsistent
<1> QED BY <1>1, <1>2, <1>3 DEF IInv

LEMMA EndRaceIInv ==
  ASSUME IInv, NEW m \in sink.handling, EndRace(m)
  PROVE  /\ Consistent(sink') /\ Settled(sink') /\ m \in Message
         /\ sent' = sent /\ horizon' = horizon
<1> DEFINE r == Release(sink, m)
           c == ContinueThread(r, m.th)
<1>1. m \in Message
  BY DEF IInv, Consistent, SinkType
<1>2. /\ Consistent(r) /\ SettledBut(r, m.th) /\ m.th \in Thread
      /\ m.th \in r.threads /\ m.th \notin r.processing
  BY ReleaseConsistent DEF IInv
<1> HIDE DEF r
<1>3. Consistent(c) /\ Settled(c)
  BY <1>2, ContinueThreadConsistent
<1>4. sink' = DrainPendingThread(c) /\ sent' = sent /\ horizon' = horizon
  BY DEF EndRace, r
<1> HIDE DEF c
<1> QED BY <1>1, <1>3, <1>4, DrainPendingThreadConsistent

LEMMA NextIInv == IInv /\ [Next]_vars => IInv'
<1> SUFFICES ASSUME IInv, [Next]_vars PROVE IInv'
  OBVIOUS
<1>1. ASSUME NEW t \in Thread, Enqueue(t) PROVE IInv'
  BY <1>1, EnqueueIInv
<1>2. ASSUME NEW m \in sink.handling, HandlerSettles(m) PROVE IInv'
  BY <1>2, EndRaceIInv DEF HandlerSettles, IInv
<1>3. ASSUME NEW m \in sink.handling, DeadlinePasses(m) PROVE IInv'
  BY <1>3, EndRaceIInv DEF DeadlinePasses, IInv
<1>4. ASSUME NEW m \in orphaned, OrphanSettles(m) PROVE IInv'
  BY <1>4 DEF OrphanSettles, IInv
<1>5. ASSUME NEW h \in 1..MaxHorizon, MessagesAge(h) PROVE IInv'
  BY <1>5 DEF MessagesAge, IInv
<1>6. CASE UNCHANGED vars
  BY <1>6 DEF vars, IInv
<1> QED BY <1>1, <1>2, <1>3, <1>4, <1>5, <1>6 DEF Next

(* The inductive invariant holds in every reachable state.                  *)
THEOREM InductiveInvariant == Spec => []IInv
BY InitIInv, NextIInv, PTL DEF Spec

(* TypeOK holds for every set of threads and every choice of the limits.    *)
THEOREM TypeCorrect == Spec => []TypeOK
<1>1. IInv => TypeOK
  BY DEF IInv, TypeOK, Consistent
<1> QED BY <1>1, InductiveInvariant, PTL

(* At most maxConcurrent races are open, and activeCount counts them: no    *)
(* interleaving of enqueues, completions and deadlines leaks a slot.        *)
THEOREM SlotsAreAccounted == Spec => []SlotsAccounted
<1>1. IInv => SlotsAccounted
  BY DEF IInv, SlotsAccounted, Consistent
<1> QED BY <1>1, InductiveInvariant, PTL

(* No thread ever has two open races.                                       *)
THEOREM ThreadsAreSerial == Spec => []SerialPerThread
<1>1. IInv => SerialPerThread
  BY DEF IInv, SerialPerThread, Consistent
<1> QED BY <1>1, InductiveInvariant, PTL

(* A thread with messages is always being served or in the line, once.      *)
THEOREM WaitersAreRegistered == Spec => []WaitersRegistered
<1>1. IInv => WaitersRegistered
  BY DEF IInv, WaitersRegistered, Consistent, Settled, SettledThread
<1> QED BY <1>1, InductiveInvariant, PTL

(* The Map never keeps an idle thread and never loses a busy one.           *)
THEOREM IdleThreadsAreForgotten == Spec => []IdleThreadsForgotten
<1>1. IInv => IdleThreadsForgotten
  BY DEF IInv, IdleThreadsForgotten, Consistent, SinkType, Settled, SettledThread
<1> QED BY <1>1, InductiveInvariant, PTL

-----------------------------------------------------------------------------
(***************************************************************************)
(* ThreadQueue implements ThreadSink, for any set of threads and any       *)
(* limits.  As for the invariant the argument goes method by method: each  *)
(* of them serves the thread that it works on, or nothing happens to the   *)
(* queues and the races; the end of a race composes two of them.           *)
(***************************************************************************)

(* Sink!Served and Sink!Serve with the values after the step as parameters. *)
ServedTo(t, w, w2, r2) ==
  LET q == SkipStale(w[t])
  IN IF q = <<>> THEN w2[t] = <<>> ELSE w2[t] = Tail(q) /\ Head(q) \in r2

Serves(w, r, w2, r2, T) ==
  /\ r \subseteq r2
  /\ \A m \in r2 \ r :
       m.th \in T /\ SkipStale(w[m.th]) # <<>> /\ m = Head(SkipStale(w[m.th]))
  /\ \A t \in Thread :
       \/ w2[t] = w[t] /\ \A m \in r2 \ r : m.th # t
       \/ t \in T /\ (\A m \in r : m.th # t) /\ ServedTo(t, w, w2, r2)

(* A method that works on s and leaves n behind.                            *)
ServesBetween(s, n, T) == Serves(s.queue, s.handling, n.queue, n.handling, T)

Serving(s, n, t) ==
  ServedTo(t, s.queue, n.queue, n.handling) /\ ~Servable(n, t)

-----------------------------------------------------------------------------
(* The operators that both modules take from the libraries are the same.    *)
LEMMA FreshIsSkipStale == \A q : Sink!Fresh(q) = SkipStale(q)
BY Zenon DEF Sink!Fresh, SkipStale, Stale, Sink!SelectInSeq, SelectInSeq, Sink!Min, Min

LEMMA SameCardinality == \A S : Sink!Cardinality(S) = Cardinality(S)
BY Zenon DEF Sink!Cardinality, Cardinality

(* If a method leaves queues and races as they are, it serves as promised.  *)
LEMMA NothingServed ==
  ASSUME NEW s, NEW n, NEW T, n.queue = s.queue, n.handling = s.handling
  PROVE  ServesBetween(s, n, T)
BY DEF ServesBetween, Serves

(* Serving one idle thread and then another.                                *)
LEMMA ServeBoth ==
  ASSUME NEW s, NEW c, NEW d, NEW t \in Thread, NEW u \in Thread, u # t,
         ServesBetween(s, c, {t}), ServesBetween(c, d, {u})
  PROVE  /\ ServesBetween(s, d, {t, u})
         /\ ServedTo(t, s.queue, c.queue, c.handling) =>
              ServedTo(t, s.queue, d.queue, d.handling)
<1>1. /\ s.handling \subseteq c.handling /\ c.handling \subseteq d.handling
      /\ \A m \in c.handling \ s.handling : m.th = t
      /\ \A m \in d.handling \ c.handling : m.th = u
      /\ \A m \in d.handling \ s.handling :
           m \in c.handling \ s.handling \/ m \in d.handling \ c.handling
  BY DEF ServesBetween, Serves
<1>2. \A v \in Thread : v # t => c.queue[v] = s.queue[v]
  BY DEF ServesBetween, Serves
<1>3. \A v \in Thread : v # u => d.queue[v] = c.queue[v]
  BY DEF ServesBetween, Serves
<1>4. ASSUME ServedTo(t, s.queue, c.queue, c.handling)
      PROVE  ServedTo(t, s.queue, d.queue, d.handling)
  BY <1>1, <1>3, <1>4 DEF ServedTo
<1>5. ASSUME ServedTo(u, c.queue, d.queue, d.handling)
      PROVE  ServedTo(u, s.queue, d.queue, d.handling)
  BY <1>2, <1>5 DEF ServedTo
<1>6. ASSUME NEW m \in d.handling \ s.handling
      PROVE  /\ m.th \in {t, u} /\ SkipStale(s.queue[m.th]) # <<>>
             /\ m = Head(SkipStale(s.queue[m.th]))
  <2>1. CASE m \in c.handling \ s.handling
    BY <2>1 DEF ServesBetween, Serves
  <2>2. CASE m \in d.handling \ c.handling
    BY <1>1, <1>2, <2>2 DEF ServesBetween, Serves
  <2> QED BY <1>1, <2>1, <2>2
<1>7. ASSUME NEW v \in Thread
      PROVE  \/ /\ d.queue[v] = s.queue[v]
                /\ \A m \in d.handling \ s.handling : m.th # v
             \/ /\ v \in {t, u} /\ \A m \in s.handling : m.th # v
                /\ ServedTo(v, s.queue, d.queue, d.handling)
  <2>1. CASE v = t
    <3>1. \/ /\ c.queue[t] = s.queue[t]
             /\ \A m \in c.handling \ s.handling : m.th # t
          \/ /\ \A m \in s.handling : m.th # t
             /\ ServedTo(t, s.queue, c.queue, c.handling)
      BY DEF ServesBetween, Serves
    <3> QED BY <1>1, <1>3, <1>4, <2>1, <3>1
  <2>2. CASE v = u
    <3>1. \/ /\ d.queue[u] = c.queue[u]
             /\ \A m \in d.handling \ c.handling : m.th # u
          \/ /\ \A m \in c.handling : m.th # u
             /\ ServedTo(u, c.queue, d.queue, d.handling)
      BY DEF ServesBetween, Serves
    <3> QED BY <1>1, <1>2, <1>5, <2>2, <3>1
  <2>3. CASE v # t /\ v # u
    BY <1>1, <1>2, <1>3, <2>3
  <2> QED BY <2>1, <2>2, <2>3
<1> QED BY <1>1, <1>4, <1>6, <1>7 DEF ServesBetween, Serves

-----------------------------------------------------------------------------
LEMMA CleanupThreadKeeps ==
  ASSUME NEW s, NEW t \in Thread, s \in SinkType
  PROVE  /\ CleanupThread(s, t).queue = s.queue
         /\ CleanupThread(s, t).handling = s.handling
         /\ CleanupThread(s, t).processing = s.processing
BY DEF CleanupThread, SinkType

LEMMA ProcessNextServes ==
  ASSUME NEW s, NEW t \in Thread, Consistent(s), t \notin s.processing
  PROVE  /\ ServesBetween(s, ProcessNext(s, t), {t})
         /\ Serving(s, ProcessNext(s, t), t)
<1> DEFINE q == SkipStale(s.queue[t])
           qe == [s.queue EXCEPT ![t] = <<>>]
           qt == [s.queue EXCEPT ![t] = Tail(q)]
           e == WithQueue(s, s.threads, qe)
           n == ProcessNext(s, t)
<1>1. /\ s \in SinkType /\ s.queue \in [Thread -> Seq(Message)]
      /\ s.threads \in SUBSET Thread /\ \A m \in s.handling : m.th # t
  BY DEF Consistent, SinkType
<1>2. q \in Seq(MessageOf(t))
  BY SkipStaleType DEF Consistent
<1>3. CASE q = <<>>
  <2>1. n = CleanupThread(e, t)
    BY <1>1, <1>3 DEF ProcessNext, WithQueue, SinkType
  <2>2. /\ e \in SinkType /\ e.queue = qe /\ e.handling = s.handling
    <3>1. qe \in [Thread -> Seq(Message)]
      BY <1>1
    <3> HIDE DEF qe
    <3> QED BY <1>1, <3>1, WithQueueFields, ZenonT(30) DEF e, Fields
  <2> HIDE DEF e
  <2>3. n.queue = qe /\ n.handling = s.handling
    BY <2>1, <2>2, CleanupThreadKeeps, ZenonT(30)
  <2> HIDE DEF n
  <2>4. ServedTo(t, s.queue, n.queue, n.handling)
    BY <1>1, <1>3, <2>3 DEF ServedTo
  <2>5. ServesBetween(s, n, {t})
    BY <1>1, <2>3, <2>4 DEF ServesBetween, Serves
  <2>6. ~Servable(n, t)
    BY <1>1, <2>3 DEF Servable
  <2> QED BY <2>4, <2>5, <2>6, Zenon DEF Serving, n
<1>4. CASE q # <<>>
  <2>1. n.queue = qt /\ n.handling = s.handling \cup {Head(q)}
        /\ n.processing = s.processing \cup {t}
    BY <1>1, <1>4 DEF ProcessNext, SinkType
  <2> HIDE DEF n
  <2>2. Head(q).th = t
    <3>1. Head(q) \in MessageOf(t)
      BY <1>2, <1>4
    <3> HIDE DEF q
    <3> QED BY <3>1 DEF MessageOf
  <2>3. ServedTo(t, s.queue, n.queue, n.handling)
    BY <1>1, <1>4, <2>1 DEF ServedTo
  <2>4. ServesBetween(s, n, {t})
    <3>1. \A m \in n.handling \ s.handling : m = Head(q)
      BY <2>1
    <3>2. \A v \in Thread \ {t} : n.queue[v] = s.queue[v]
      BY <1>1, <2>1
    <3>3. s.handling \subseteq n.handling
      BY <2>1
    <3> QED BY <1>1, <1>4, <2>2, <2>3, <3>1, <3>2, <3>3 DEF ServesBetween, Serves
  <2>5. ~Servable(n, t)
    BY <2>1 DEF Servable
  <2> QED BY <2>3, <2>4, <2>5, Zenon DEF Serving, n
<1> QED BY <1>3, <1>4

LEMMA TryDrainServes ==
  ASSUME NEW s, NEW t \in Thread, Consistent(s), s.queue[t] # <<>>
  PROVE  /\ ServesBetween(s, TryDrain(s, t), {t})
         /\ t \notin s.processing /\ s.activeCount < MaxConcurrent =>
              Serving(s, TryDrain(s, t), t)
<1>1. s.activeCount \in Nat
  BY DEF Consistent, SinkType
<1>2. CASE t \notin s.processing /\ s.activeCount < MaxConcurrent
  <2>1. TryDrain(s, t) = ProcessNext(s, t)
    BY <1>1, <1>2, QueueAssumption DEF TryDrain
  <2> QED BY <1>2, <2>1, ProcessNextServes
<1>3. CASE ~(t \notin s.processing /\ s.activeCount < MaxConcurrent)
  <2>1. /\ TryDrain(s, t).queue = s.queue
        /\ TryDrain(s, t).handling = s.handling
    BY <1>1, <1>3, QueueAssumption DEF TryDrain, Consistent, SinkType
  <2> QED BY <1>3, <2>1, NothingServed
<1> QED BY <1>2, <1>3

(* The thread whose race has ended goes on if it has messages, and the line *)
(* need not call it in.                                                     *)
LEMMA ContinueThreadServes ==
  ASSUME NEW s, NEW t \in Thread, Consistent(s),
         t \notin s.processing, s.activeCount < MaxConcurrent
  PROVE  /\ ServesBetween(s, ContinueThread(s, t), {t})
         /\ ~Servable(ContinueThread(s, t), t)
         /\ s.queue[t] # <<>> =>
              ServedTo(t, s.queue, ContinueThread(s, t).queue,
                       ContinueThread(s, t).handling)
<1>1. CASE s.queue[t] # <<>>
  BY <1>1, TryDrainServes DEF ContinueThread, Serving
<1>2. CASE s.queue[t] = <<>>
  <2>1. /\ ContinueThread(s, t).queue = s.queue
        /\ ContinueThread(s, t).handling = s.handling
    BY <1>2, CleanupThreadKeeps DEF ContinueThread, Consistent
  <2> QED BY <1>2, <2>1, NothingServed DEF Servable
<1> QED BY <1>1, <1>2

(* The line calls in at most one thread, which is idle and has messages.    *)
LEMMA DrainPendingThreadServes ==
  ASSUME NEW s, Consistent(s)
  PROVE  \/ /\ DrainPendingThread(s).queue = s.queue
            /\ DrainPendingThread(s).handling = s.handling
         \/ \E u \in Thread : /\ Servable(s, u)
                              /\ ServesBetween(s, DrainPendingThread(s), {u})
<1> DEFINE w == s.pendingThreads
           I == {i \in 1..Len(w) : Servable(s, w[i])}
<1>1. s \in SinkType /\ w \in Seq(Thread) /\ Len(w) \in Nat /\ IsInjective(w)
  BY DEF Consistent, SinkType
<1>2. SelectInSeq(w, LAMBDA t : Servable(s, t)) = IF I # {} THEN Min(I) ELSE 0
  BY Zenon DEF SelectInSeq
<1>3. CASE s.activeCount >= MaxConcurrent
  BY <1>3, Zenon DEF DrainPendingThread
<1>4. CASE ~(s.activeCount >= MaxConcurrent) /\ I = {}
  <2>1. DrainPendingThread(s) = [s EXCEPT !.pendingThreads = <<>>]
    BY <1>2, <1>4, Zenon DEF DrainPendingThread
  <2> QED BY <1>1, <2>1 DEF SinkType
<1>5. CASE ~(s.activeCount >= MaxConcurrent) /\ I # {}
  <2> DEFINE k == Min(I)
             l == SubSeq(w, k + 1, Len(w))
             r == [s EXCEPT !.pendingThreads = l]
  <2>1. k \in 1..Len(w) /\ w[k] \in Thread /\ Servable(s, w[k])
    <3>1. I \in SUBSET (1..Len(w))
      OBVIOUS
    <3>2. k \in I
      <4> HIDE DEF I
      <4> QED BY <1>1, <1>5, <3>1, LeastPosition
    <3> HIDE DEF k
    <3> QED BY <1>1, <3>2
  <2>2. DrainPendingThread(s) = ProcessNext(r, w[k])
    <3>1. SelectInSeq(w, LAMBDA t : Servable(s, t)) = k /\ k # 0
      BY <1>2, <1>5, <2>1
    <3> QED BY <1>5, <3>1, Zenon DEF DrainPendingThread
  <2> HIDE DEF I, k
  <2>3. l \in Seq(Thread) /\ IsInjective(l)
    BY <1>1, <2>1, LeaveLine
  <2> HIDE DEF l
  <2>4. /\ r \in SinkType /\ r.pendingThreads = l
        /\ r.queue = s.queue /\ r.processing = s.processing
        /\ r.activeCount = s.activeCount /\ r.handling = s.handling
    BY <1>1, <2>3 DEF SinkType
  <2> HIDE DEF r
  <2>5. Consistent(r) /\ w[k] \notin r.processing
    BY <2>1, <2>3, <2>4 DEF Consistent, Servable
  <2>6. ServesBetween(r, ProcessNext(r, w[k]), {w[k]})
    BY <2>1, <2>5, ProcessNextServes
  <2> QED BY <2>1, <2>2, <2>4, <2>6, Zenon DEF ServesBetween
<1> QED BY <1>3, <1>4, <1>5

-----------------------------------------------------------------------------
LEMMA EnqueueServes ==
  ASSUME IInv, NEW t \in Thread, Enqueue(t)
  PROVE  /\ Serves(ArrivedQueue(t), sink.handling, sink.queue', sink.handling', {t})
         /\ t \notin sink.processing /\ sink.activeCount < MaxConcurrent =>
              ServedTo(t, ArrivedQueue(t), sink.queue', sink.handling')
<1> DEFINE s == Arrived(t)
<1>1. /\ Consistent(s) /\ s.queue[t] # <<>> /\ s.queue = ArrivedQueue(t)
      /\ s.handling = sink.handling /\ s.processing = sink.processing
      /\ s.activeCount = sink.activeCount /\ sink' = TryDrain(s, t)
  <2> HIDE DEF s
  <2> QED BY ArrivedConsistent DEF Fields, s
<1> HIDE DEF s
<1>2. /\ ServesBetween(s, sink', {t})
      /\ t \notin s.processing /\ s.activeCount < MaxConcurrent =>
           Serving(s, sink', t)
  BY <1>1, TryDrainServes, Zenon
<1> QED BY <1>1, <1>2, Zenon DEF ServesBetween, Serving

LEMMA EnqueueAccepts ==
  ASSUME IInv, NEW t \in Thread, Enqueue(t)
  PROVE  Sink!Accept(t)
<1> DEFINE m == [th |-> t, id |-> sent + 1]
           w == [sink.queue EXCEPT ![t] =
                   Append(IF Len(@) >= MaxPerThread THEN Tail(@) ELSE @, m)]
<1>1. ArrivedQueue(t) = w
  BY DEF ArrivedQueue, MakeRoom
<1> HIDE DEF w
<1>2. Sink!Serve(w, sink.handling, {t})
  <2>1. Serves(w, sink.handling, sink.queue', sink.handling', {t})
    BY <1>1, EnqueueServes
  <2> QED BY <2>1, FreshIsSkipStale, Zenon
          DEF Sink!Serve, Sink!Served, Sink!Busy, Serves, ServedTo
<1>3. /\ ~Sink!Busy(t, sink.handling)
      /\ Cardinality(sink.handling) < MaxConcurrent
      => Sink!Served(t, w)
  <2>1. /\ sink.processing = {k.th : k \in sink.handling}
        /\ sink.activeCount = Cardinality(sink.handling)
    BY DEF IInv, Consistent
  <2>2. ~Sink!Busy(t, sink.handling) => t \notin sink.processing
    BY <2>1, Zenon DEF Sink!Busy
  <2> QED BY <1>1, EnqueueServes, <2>1, <2>2, FreshIsSkipStale, Zenon
          DEF Sink!Served, ServedTo
<1>4. sent' = sent + 1 /\ horizon' = horizon
  BY DEF Enqueue
<1> QED BY <1>2, <1>3, <1>4, SameCardinality, Zenon DEF Sink!Accept, w, m

LEMMA EndRaceServes ==
  ASSUME IInv, NEW m \in sink.handling, EndRace(m)
  PROVE  /\ m.th \in Thread
         /\ \E u \in Thread : Serves(sink.queue, sink.handling \ {m},
                                  sink.queue', sink.handling', {m.th, u})
         /\ sink.queue[m.th] # <<>> =>
              ServedTo(m.th, sink.queue, sink.queue', sink.handling')
<1> DEFINE r == Release(sink, m)
           c == ContinueThread(r, m.th)
           d == DrainPendingThread(c)
<1>1. /\ Consistent(r) /\ SettledBut(r, m.th) /\ m.th \in Thread
      /\ m.th \in r.threads /\ m.th \notin r.processing
  BY ReleaseConsistent DEF IInv
<1>2. /\ r.queue = sink.queue /\ r.handling = sink.handling \ {m}
      /\ r.activeCount < MaxConcurrent
  BY QueueAssumption DEF IInv, Consistent, SinkType, Release
<1> HIDE DEF r
<1>3. /\ ServesBetween(r, c, {m.th}) /\ ~Servable(c, m.th)
      /\ r.queue[m.th] # <<>> => ServedTo(m.th, r.queue, c.queue, c.handling)
  BY <1>1, <1>2, ContinueThreadServes
<1>4. Consistent(c)
  BY <1>1, ContinueThreadConsistent
<1> HIDE DEF c
<1>5. PICK u \in Thread :
        /\ ServesBetween(r, d, {m.th, u})
        /\ r.queue[m.th] # <<>> => ServedTo(m.th, r.queue, d.queue, d.handling)
  <2>1. CASE d.queue = c.queue /\ d.handling = c.handling
    <3> HIDE DEF d
    <3>1. ServesBetween(r, d, {m.th, m.th})
      BY <1>3, <2>1 DEF ServesBetween
    <3>2. r.queue[m.th] # <<>> => ServedTo(m.th, r.queue, d.queue, d.handling)
      BY <1>3, <2>1
    <3> QED BY <1>1, <3>1, <3>2, Zenon
  <2>2. CASE \E u \in Thread : Servable(c, u) /\ ServesBetween(c, d, {u})
    <3>1. PICK u \in Thread : Servable(c, u) /\ ServesBetween(c, d, {u})
      BY <2>2
    <3> HIDE DEF d
    <3>2. u # m.th
      BY <1>3, <3>1
    <3> QED BY <1>1, <1>3, <3>1, <3>2, ServeBoth, Zenon
  <2> QED BY <1>4, <2>1, <2>2, DrainPendingThreadServes
<1>6. sink' = d /\ sent' = sent /\ horizon' = horizon
  BY DEF EndRace, r, c
<1> HIDE DEF d
<1> QED BY <1>1, <1>2, <1>5, <1>6 DEF ServesBetween

LEMMA EndRaceFinishes ==
  ASSUME IInv, NEW m \in sink.handling, EndRace(m)
  PROVE  Sink!Finish(m)
<1>1. PICK u \in Thread : Serves(sink.queue, sink.handling \ {m},
                               sink.queue', sink.handling', {m.th, u})
  BY EndRaceServes
<1>2. Sink!Serve(sink.queue, sink.handling \ {m}, {m.th, u})
  BY <1>1, FreshIsSkipStale, Zenon
     DEF Sink!Serve, Sink!Served, Sink!Busy, Serves, ServedTo
<1>3. sink.queue[m.th] # <<>> => Sink!Served(m.th, sink.queue)
  BY EndRaceServes, FreshIsSkipStale, Zenon DEF Sink!Served, ServedTo
<1>4. sent' = sent /\ horizon' = horizon
  BY DEF EndRace
<1> QED BY <1>2, <1>3, <1>4, Zenon DEF Sink!Finish

LEMMA InitImplements == Init => Sink!Init
BY DEF Init, Sink!Init, EmptySink

LEMMA NextImplements == IInv /\ IInv' /\ [Next]_vars => [Sink!Next]_(Sink!vars)
<1> SUFFICES ASSUME IInv, IInv', [Next]_vars
             PROVE  Sink!Next \/ UNCHANGED Sink!vars
  OBVIOUS
<1>1. Sink!Cardinality(sink.handling') <= MaxConcurrent
  BY SameCardinality DEF IInv, Consistent
<1>2. ASSUME NEW t \in Thread, Enqueue(t) PROVE Sink!Next
  BY <1>1, <1>2, EnqueueAccepts DEF Sink!Next
<1>3. ASSUME NEW m \in sink.handling, HandlerSettles(m) PROVE Sink!Next
  BY <1>1, <1>3, EndRaceFinishes DEF Sink!Next, HandlerSettles
<1>4. ASSUME NEW m \in sink.handling, DeadlinePasses(m) PROVE Sink!Next
  BY <1>1, <1>4, EndRaceFinishes DEF Sink!Next, DeadlinePasses
<1>5. ASSUME NEW m \in orphaned, OrphanSettles(m) PROVE UNCHANGED Sink!vars
  BY <1>5 DEF OrphanSettles, Sink!vars
<1>6. ASSUME NEW h \in 1..MaxHorizon, MessagesAge(h) PROVE Sink!Next
  <2>1. Sink!Age
    BY <1>6 DEF MessagesAge, Sink!Age
  <2> QED BY <1>1, <2>1 DEF Sink!Next
<1>7. CASE UNCHANGED vars
  BY <1>7 DEF vars, Sink!vars
<1> QED BY <1>2, <1>3, <1>4, <1>5, <1>6, <1>7 DEF Next

(* The queue of thread-queue.ts keeps the promise that ThreadSink states,   *)
(* for every set of threads and every choice of the limits: every step of   *)
(* it serves conversations as a caller may expect or changes nothing that   *)
(* the caller can see.                                                      *)
THEOREM QueueImplementsSink == Spec => ImplementsSink
<1>1. IInv /\ IInv' /\ [Next]_vars => [Sink!Next]_(Sink!vars)
  BY NextImplements
<1> QED BY <1>1, InitImplements, InductiveInvariant, PTL
        DEF Spec, ImplementsSink, Sink!Spec

-----------------------------------------------------------------------------
(***************************************************************************)
(* That ThreadQueue loses and reorders nothing, for any set of threads and *)
(* any limits.  Every step takes messages from the heads of the queues;    *)
(* the invariant is that queues are in the order of arrival and behind     *)
(* everything of their thread that was started, which is what keeps an     *)
(* abandoned handler apart from those that follow it.                      *)
(***************************************************************************)

Queues == {w \in [Thread -> Seq(Message)] :
             \A t \in Thread : w[t] \in Seq(MessageOf(t))}

(* What is left of q when its first n messages are gone.                    *)
Gone(q, p, n) ==
  /\ Len(p) = Len(q) - n
  /\ \A i \in 1..Len(p) : p[i] = q[n + i]

Increasing(q) == \A i, j \in 1..Len(q) : i < j => q[i].id < q[j].id

(* w are the messages that wait, r those that are handled, o those whose    *)
(* handlers were abandoned, and k messages have come.                       *)
Behind(w, a) ==
  \A t \in Thread : \A i \in 1..Len(w[t]) : \A m \in a :
    m.th = t => m.id < w[t][i].id

Ordered(w, r, o, k) ==
  /\ \A t \in Thread : Increasing(w[t]) /\ Len(w[t]) <= MaxPerThread
  /\ \A t \in Thread : \A i \in 1..Len(w[t]) : w[t][i].id <= k
  /\ \A m \in r \cup o : m.id <= k
  /\ Behind(w, r \cup o)
  /\ \A m1, m2 \in r \cup o :
       m1.th = m2.th /\ m1.id < m2.id => m1 \in o \ r

OrderInv == IInv /\ Ordered(sink.queue, sink.handling, orphaned, sent)

-----------------------------------------------------------------------------
LEMMA ElementIds ==
  ASSUME NEW q \in Seq(Message)
  PROVE  \A i \in 1..Len(q) : q[i] \in Message /\ q[i].id \in Nat
<1> SUFFICES ASSUME NEW i \in 1..Len(q)
             PROVE  q[i] \in Message /\ q[i].id \in Nat
  OBVIOUS
<1>1. q[i] \in Message
  OBVIOUS
<1> QED BY <1>1 DEF Message

LEMMA SkipStalePositions ==
  ASSUME NEW q \in Seq(Message)
  PROVE  \E n \in 0..Len(q) :
           /\ SkipStale(q) \in Seq(Message) /\ Gone(q, SkipStale(q), n)
           /\ \A i \in 1..n : Stale(q[i])
           /\ n < Len(q) => ~Stale(q[n + 1])
<1> DEFINE I == {i \in 1..Len(q) : ~Stale(q[i])}
<1>1. Len(q) \in Nat /\ I \in SUBSET (1..Len(q))
  OBVIOUS
<1>2. CASE I = {}
  <2>1. SkipStale(q) = <<>>
    BY <1>2, Zenon DEF SkipStale, SelectInSeq
  <2>2. \A i \in 1..Len(q) : Stale(q[i])
    BY <1>2
  <2>3. Gone(q, SkipStale(q), Len(q)) /\ SkipStale(q) \in Seq(Message)
    BY <1>1, <2>1 DEF Gone
  <2>4. Len(q) \in 0..Len(q) /\ ~(Len(q) < Len(q))
    BY <1>1
  <2> QED BY <2>2, <2>3, <2>4
<1>3. CASE I # {}
  <2> DEFINE k == Min(I)
  <2>1. k \in I /\ \A i \in I : k <= i
    <3> HIDE DEF I
    <3> QED BY <1>1, <1>3, LeastPosition
  <2>2. SkipStale(q) = SubSeq(q, k, Len(q))
    <3>1. SelectInSeq(q, LAMBDA m : ~Stale(m)) = k
      BY <1>3, Zenon DEF SelectInSeq
    <3>2. k # 0
      BY <2>1, <1>1
    <3> QED BY <3>1, <3>2, Zenon DEF SkipStale
  <2>3. k \in 1..Len(q) /\ ~Stale(q[k]) /\ \A i \in 1..(k - 1) : Stale(q[i])
    <3> HIDE DEF k
    <3> QED BY <1>1, <2>1
  <2> HIDE DEF k, I
  <2>4. Gone(q, SkipStale(q), k - 1) /\ SkipStale(q) \in Seq(Message)
    BY <1>1, <2>2, <2>3, SubSeqProperties DEF Gone
  <2>5. k - 1 \in 0..Len(q) /\ (k - 1) + 1 = k
    BY <1>1, <2>3
  <2> QED BY <2>3, <2>4, <2>5
<1> QED BY <1>2, <1>3

(* What serving means for the positions of the messages: of every queue     *)
(* some first messages go, each stale or started, and what starts is the    *)
(* last one that went, is fresh, and belongs to an idle thread.             *)
LEMMA ServePositions ==
  ASSUME NEW w \in Queues, NEW r, NEW w2, NEW r2, NEW T \in SUBSET Thread,
         Serves(w, r, w2, r2, T)
  PROVE  /\ \A t \in Thread : \E n \in 0..Len(w[t]) :
              /\ Gone(w[t], w2[t], n)
              /\ \A i \in 1..n : Stale(w[t][i]) \/ w[t][i] \in r2
         /\ \A m \in r2 \ r :
              /\ m.th \in Thread /\ \A k \in r : k.th # m.th
              /\ ~Stale(m)
              /\ \E n \in 1..Len(w[m.th]) :
                   Gone(w[m.th], w2[m.th], n) /\ m = w[m.th][n]
<1>1. \A t \in Thread : w[t] \in Seq(Message)
  BY DEF Queues
<1>2. ASSUME NEW t \in Thread, ServedTo(t, w, w2, r2)
      PROVE  \E n \in 0..Len(w[t]) :
               /\ Gone(w[t], w2[t], n)
               /\ \A i \in 1..n : Stale(w[t][i]) \/ w[t][i] \in r2
               /\ SkipStale(w[t]) # <<>> =>
                    /\ n \in 1..Len(w[t]) /\ Head(SkipStale(w[t])) = w[t][n]
                    /\ ~Stale(w[t][n])
  <2> DEFINE q == w[t]
             f == SkipStale(q)
  <2>1. q \in Seq(Message) /\ Len(q) \in Nat
    BY <1>1
  <2>2. PICK n \in 0..Len(q) :
          /\ f \in Seq(Message) /\ Gone(q, f, n)
          /\ \A i \in 1..n : Stale(q[i])
          /\ n < Len(q) => ~Stale(q[n + 1])
    BY <2>1, SkipStalePositions
  <2>3. IF f = <<>> THEN w2[t] = <<>> ELSE w2[t] = Tail(f) /\ Head(f) \in r2
    BY <1>2 DEF ServedTo
  <2> HIDE DEF f, q
  <2>4. CASE f = <<>>
    BY <2>1, <2>2, <2>3, <2>4 DEF f, q
  <2>5. CASE f # <<>>
    <3>1. Len(f) \in Nat /\ Len(f) > 0 /\ Head(f) = f[1]
      BY <2>2, <2>5
    <3>2. n + 1 \in 1..Len(q) /\ Head(f) = q[n + 1] /\ ~Stale(q[n + 1])
      BY <2>1, <2>2, <3>1 DEF Gone
    <3>3. Len(Tail(f)) = Len(f) - 1 /\ \A i \in 1..(Len(f) - 1) : Tail(f)[i] = f[i + 1]
      BY <2>2, <2>5
    <3>4. Gone(q, Tail(f), n + 1)
      <4>1. \A i \in 1..(Len(f) - 1) : i + 1 \in 1..Len(f) /\ f[i + 1] = q[(n + 1) + i]
        <5> SUFFICES ASSUME NEW i \in 1..(Len(f) - 1)
                     PROVE  i + 1 \in 1..Len(f) /\ f[i + 1] = q[(n + 1) + i]
          OBVIOUS
        <5>1. i + 1 \in 1..Len(f) /\ n + (i + 1) = (n + 1) + i
          BY <3>1
        <5>2. f[i + 1] = q[n + (i + 1)]
          BY <2>2, <5>1 DEF Gone
        <5> QED BY <5>1, <5>2
      <4> QED BY <2>1, <2>2, <3>1, <3>3, <4>1 DEF Gone
    <3>5. \A i \in 1..(n + 1) : Stale(q[i]) \/ q[i] \in r2
      <4>1. \A i \in 1..(n + 1) : i \in 1..n \/ i = n + 1
        BY <2>1
      <4> QED BY <2>2, <2>3, <2>5, <3>2, <4>1
    <3>6. n + 1 \in 0..Len(q)
      BY <2>1, <3>2
    <3> QED BY <2>3, <2>5, <3>2, <3>4, <3>5, <3>6 DEF f, q
  <2> QED BY <2>4, <2>5
<1>3. ASSUME NEW t \in Thread, w2[t] = w[t]
      PROVE  Gone(w[t], w2[t], 0) /\ 0 \in 0..Len(w[t])
  BY <1>1, <1>3 DEF Gone
<1>4. ASSUME NEW t \in Thread
      PROVE  \E n \in 0..Len(w[t]) :
               /\ Gone(w[t], w2[t], n)
               /\ \A i \in 1..n : Stale(w[t][i]) \/ w[t][i] \in r2
  <2>1. CASE w2[t] = w[t]
    BY <1>3, <2>1
  <2>2. CASE ServedTo(t, w, w2, r2)
    BY <1>2, <2>2
  <2> QED BY <2>1, <2>2 DEF Serves
<1>5. ASSUME NEW m \in r2 \ r
      PROVE  /\ m.th \in Thread /\ \A k \in r : k.th # m.th
             /\ ~Stale(m)
             /\ \E n \in 1..Len(w[m.th]) :
                  Gone(w[m.th], w2[m.th], n) /\ m = w[m.th][n]
  <2>1. /\ m.th \in Thread /\ SkipStale(w[m.th]) # <<>>
        /\ m = Head(SkipStale(w[m.th]))
    BY DEF Serves
  <2>2. (\A k \in r : k.th # m.th) /\ ServedTo(m.th, w, w2, r2)
    BY <2>1 DEF Serves
  <2>3. PICK n \in 0..Len(w[m.th]) :
          /\ Gone(w[m.th], w2[m.th], n)
          /\ n \in 1..Len(w[m.th]) /\ Head(SkipStale(w[m.th])) = w[m.th][n]
          /\ ~Stale(w[m.th][n])
    BY <1>2, <2>1, <2>2
  <2> QED BY <2>1, <2>2, <2>3
<1> QED BY <1>4, <1>5

(* Serving keeps the order: what is left of a queue is still behind what    *)
(* was taken from it.                                                       *)
LEMMA ServeKeepsOrder ==
  ASSUME NEW w \in Queues, NEW r \in SUBSET Message, NEW o \in SUBSET Message,
         NEW k \in Nat, NEW w2 \in Queues, NEW r2 \in SUBSET Message,
         NEW T \in SUBSET Thread, Serves(w, r, w2, r2, T), Ordered(w, r, o, k)
  PROVE  Ordered(w2, r2, o, k)
<1>1. /\ \A t \in Thread : \E n \in 0..Len(w[t]) : Gone(w[t], w2[t], n)
      /\ \A m \in r2 \ r :
           /\ m.th \in Thread /\ \A p \in r : p.th # m.th
           /\ \E n \in 1..Len(w[m.th]) :
                Gone(w[m.th], w2[m.th], n) /\ m = w[m.th][n]
  BY ServePositions
<1>2. \A t \in Thread : /\ w[t] \in Seq(Message) /\ w2[t] \in Seq(Message)
                        /\ Len(w[t]) \in Nat /\ Len(w2[t]) \in Nat
  BY DEF Queues
<1>3. \A t \in Thread :
        /\ \A i \in 1..Len(w[t]) : w[t][i] \in Message /\ w[t][i].id \in Nat
        /\ \A i \in 1..Len(w2[t]) : w2[t][i] \in Message /\ w2[t][i].id \in Nat
  BY <1>2, ElementIds
<1>4. ASSUME NEW t \in Thread
      PROVE  /\ Increasing(w2[t]) /\ Len(w2[t]) <= MaxPerThread
             /\ \A i \in 1..Len(w2[t]) : \E j \in 1..Len(w[t]) : w2[t][i] = w[t][j]
  <2>1. PICK n \in 0..Len(w[t]) : Gone(w[t], w2[t], n)
    BY <1>1
  <2>2. Len(w2[t]) <= MaxPerThread
    BY <1>2, <2>1, QueueAssumption DEF Gone, Ordered
  <2>3. \A i \in 1..Len(w2[t]) : n + i \in 1..Len(w[t]) /\ w2[t][i] = w[t][n + i]
    BY <1>2, <2>1 DEF Gone
  <2>4. Increasing(w2[t])
    <3> SUFFICES ASSUME NEW i \in 1..Len(w2[t]), NEW j \in 1..Len(w2[t]), i < j
                 PROVE  w2[t][i].id < w2[t][j].id
      BY DEF Increasing
    <3>1. n + i < n + j
      BY <1>2, <2>1
    <3>2. Increasing(w[t])
      BY DEF Ordered
    <3> QED BY <2>3, <3>1, <3>2 DEF Increasing
  <2> QED BY <2>2, <2>3, <2>4
<1>5. ASSUME NEW m \in r2 \ r
      PROVE  /\ m.id <= k
             /\ \A p \in r \cup o : p.th = m.th => p.id < m.id
             /\ \A i \in 1..Len(w2[m.th]) : m.id < w2[m.th][i].id
  <2>1. PICK n \in 1..Len(w[m.th]) : Gone(w[m.th], w2[m.th], n) /\ m = w[m.th][n]
    BY <1>1
  <2>2. m.th \in Thread
    BY <1>1
  <2>3. m.id <= k /\ \A p \in r \cup o : p.th = m.th => p.id < m.id
    BY <2>1, <2>2 DEF Ordered, Behind
  <2>4. ASSUME NEW i \in 1..Len(w2[m.th])
        PROVE  m.id < w2[m.th][i].id
    <3>1. n + i \in 1..Len(w[m.th]) /\ n < n + i /\ w2[m.th][i] = w[m.th][n + i]
      BY <1>2, <2>1, <2>2, SMTT(20) DEF Gone
    <3>2. Increasing(w[m.th])
      BY <2>2 DEF Ordered
    <3> QED BY <2>1, <3>1, <3>2 DEF Increasing
  <2> QED BY <2>3, <2>4
<1>6. \A m1, m2 \in r2 \ r : m1.th = m2.th => m1 = m2
  <2> SUFFICES ASSUME NEW m1 \in r2 \ r, NEW m2 \in r2 \ r, m1.th = m2.th
               PROVE  m1 = m2
    OBVIOUS
  <2>1. PICK i \in 1..Len(w[m1.th]) :
          Gone(w[m1.th], w2[m1.th], i) /\ m1 = w[m1.th][i]
    BY <1>1
  <2>2. PICK j \in 1..Len(w[m1.th]) :
          Gone(w[m1.th], w2[m1.th], j) /\ m2 = w[m1.th][j]
    BY <1>1
  <2>3. Len(w[m1.th]) \in Nat /\ Len(w[m1.th]) - i = Len(w[m1.th]) - j
    BY <1>1, <1>2, <2>1, <2>2 DEF Gone
  <2>4. i = j
    BY <2>3
  <2> QED BY <2>1, <2>2, <2>4, Zenon
<1>7. ASSUME NEW t \in Thread, NEW i \in 1..Len(w2[t]), NEW m \in r2 \cup o, m.th = t
      PROVE  m.id < w2[t][i].id
  <2>1. CASE m \in r \cup o
    <3>1. PICK j \in 1..Len(w[t]) : w2[t][i] = w[t][j]
      BY <1>4
    <3> QED BY <1>7, <2>1, <3>1 DEF Ordered, Behind
  <2>2. CASE m \in r2 \ r
    BY <1>5, <1>7, <2>2
  <2> QED BY <2>1, <2>2
<1>8. ASSUME NEW m1 \in r2 \cup o, NEW m2 \in r2 \cup o,
             m1.th = m2.th, m1.id < m2.id
      PROVE  m1 \in o \ r2
  <2>1. m1.id \in Nat /\ m2.id \in Nat
    BY DEF Message
  <2>2. m1 \notin r2 \ r
    <3> SUFFICES ASSUME m1 \in r2 \ r PROVE FALSE
      OBVIOUS
    <3>1. CASE m2 \in r2 \ r
      BY <1>6, <1>8, <2>1, <3>1
    <3>2. CASE m2 \in r \cup o
      BY <1>5, <1>8, <2>1, <3>2
    <3> QED BY <3>1, <3>2
  <2>3. CASE m2 \in r2 \ r
    BY <1>1, <1>8, <2>2, <2>3
  <2>4. CASE m2 \in r \cup o
    BY <1>8, <2>2, <2>4 DEF Ordered
  <2> QED BY <2>3, <2>4
<1>9. \A m \in r2 \cup o : m.id <= k
  BY <1>5 DEF Ordered
<1>10. \A t \in Thread : \A i \in 1..Len(w2[t]) : w2[t][i].id <= k
  <2> SUFFICES ASSUME NEW t \in Thread, NEW i \in 1..Len(w2[t])
               PROVE  w2[t][i].id <= k
    OBVIOUS
  <2>1. PICK j \in 1..Len(w[t]) : w2[t][i] = w[t][j]
    BY <1>4
  <2> QED BY <2>1 DEF Ordered
<1> QED BY <1>4, <1>7, <1>8, <1>9, <1>10 DEF Ordered, Behind

(* A message that arrives is behind all others.                             *)
LEMMA ArrivalKeepsOrder ==
  ASSUME OrderInv, NEW t \in Thread, Enqueue(t)
  PROVE  /\ ArrivedQueue(t) \in Queues
         /\ Ordered(ArrivedQueue(t), sink.handling, orphaned, sent + 1)
<1> DEFINE q == sink.queue[t]
           b == MakeRoom(q)
           m == [th |-> t, id |-> sent + 1]
           a == Append(b, m)
           w == ArrivedQueue(t)
<1>1. /\ sink.queue \in [Thread -> Seq(Message)] /\ sent \in Nat
      /\ \A u \in Thread : sink.queue[u] \in Seq(MessageOf(u))
      /\ sink.handling \in SUBSET Message /\ orphaned \in SUBSET Message
  BY QueueAssumption DEF OrderInv, IInv, Consistent, SinkType
<1>2. w \in Queues
  <2>1. /\ Consistent(Arrived(t)) /\ Arrived(t).queue = w
    <3> HIDE DEF w
    <3> QED BY ArrivedConsistent DEF OrderInv, Fields, w
  <2> HIDE DEF w
  <2> QED BY <2>1 DEF Queues, Consistent, SinkType
<1>3. w = [sink.queue EXCEPT ![t] = a]
  BY DEF ArrivedQueue
<1>4. q \in Seq(Message) /\ Len(q) \in Nat /\ Len(q) <= MaxPerThread
  BY <1>1 DEF OrderInv, Ordered
<1>5. PICK n \in 0..1 : b \in Seq(Message) /\ Gone(q, b, n) /\ Len(b) < MaxPerThread
  <2>1. CASE Len(q) >= MaxPerThread
    <3>1. /\ b = Tail(q) /\ q # <<>>
      BY <1>4, <2>1, QueueAssumption DEF MakeRoom
    <3>2. b \in Seq(Message) /\ Gone(q, b, 1) /\ Len(b) < MaxPerThread
      BY <1>4, <3>1, QueueAssumption DEF Gone
    <3> QED BY <3>2
  <2>2. CASE ~(Len(q) >= MaxPerThread)
    <3>1. b = q
      BY <2>2 DEF MakeRoom
    <3>2. b \in Seq(Message) /\ Gone(q, b, 0) /\ Len(b) < MaxPerThread
      BY <1>4, <2>2, <3>1, QueueAssumption DEF Gone
    <3> QED BY <3>2
  <2> QED BY <2>1, <2>2
<1> HIDE DEF q, b
<1>6. /\ Len(b) \in Nat /\ Len(a) = Len(b) + 1 /\ a[Len(b) + 1] = m
      /\ \A i \in 1..Len(b) : a[i] = b[i]
  BY <1>5
<1> HIDE DEF a
<1>7. \A i \in 1..Len(b) : n + i \in 1..Len(q) /\ a[i] = q[n + i]
  BY <1>4, <1>5, <1>6 DEF Gone
<1>8. \A i \in 1..Len(q) : q[i] \in Message /\ q[i].id \in Nat
  BY <1>4, ElementIds
<1>9. Increasing(q) /\ \A i \in 1..Len(q) : q[i].id <= sent
  BY DEF OrderInv, Ordered, q
<1>10. \A i \in 1..Len(a) : i \in 1..Len(b) \/ i = Len(b) + 1
  BY <1>6
<1>11. Increasing(a)
  <2> SUFFICES ASSUME NEW i \in 1..Len(a), NEW j \in 1..Len(a), i < j
               PROVE  a[i].id < a[j].id
    BY DEF Increasing
  <2>1. i \in 1..Len(b) /\ n + i < n + j
    BY <1>6
  <2>2. CASE j \in 1..Len(b)
    BY <1>7, <1>9, <2>1, <2>2 DEF Increasing
  <2>3. CASE j = Len(b) + 1
    BY <1>1, <1>6, <1>7, <1>8, <1>9, <2>1, <2>3
  <2> QED BY <1>10, <2>2, <2>3
<1>12. \A i \in 1..Len(a) : a[i].id <= sent + 1
  <2> SUFFICES ASSUME NEW i \in 1..Len(a) PROVE a[i].id <= sent + 1
    OBVIOUS
  <2>1. CASE i \in 1..Len(b)
    BY <1>1, <1>7, <1>8, <1>9, <2>1
  <2>2. CASE i = Len(b) + 1
    BY <1>1, <1>6, <2>2
  <2> QED BY <1>10, <2>1, <2>2
<1>13. ASSUME NEW p \in sink.handling \cup orphaned, p.th = t, NEW i \in 1..Len(a)
       PROVE  p.id < a[i].id
  <2>1. p.id \in Nat /\ p.id <= sent /\ \A j \in 1..Len(q) : p.id < q[j].id
    BY <1>1, <1>13 DEF OrderInv, Ordered, Behind, Message, q
  <2>2. CASE i \in 1..Len(b)
    BY <1>7, <2>1, <2>2
  <2>3. CASE i = Len(b) + 1
    BY <1>1, <1>6, <2>1, <2>3
  <2> QED BY <1>10, <2>2, <2>3
<1>14. w[t] = a /\ \A u \in Thread \ {t} : w[u] = sink.queue[u]
  BY <1>1, <1>3
<1> HIDE DEF w
<1>15. \A p \in sink.handling \cup orphaned : p.id \in Nat /\ p.id <= sent + 1
  BY <1>1 DEF OrderInv, Ordered, Message
<1>16. Behind(w, sink.handling \cup orphaned)
  <2>1. Behind(sink.queue, sink.handling \cup orphaned)
    BY DEF OrderInv, Ordered
  <2> QED BY <1>13, <1>14, <2>1 DEF Behind
<1>17. \A u \in Thread : Increasing(w[u]) /\ Len(w[u]) <= MaxPerThread
  <2>1. Len(a) <= MaxPerThread
    BY <1>5, <1>6, QueueAssumption
  <2> QED BY <1>11, <1>14, <2>1 DEF OrderInv, Ordered
<1>18. \A u \in Thread : \A i \in 1..Len(w[u]) : w[u][i].id <= sent + 1
  <2> SUFFICES ASSUME NEW u \in Thread \ {t}, NEW i \in 1..Len(w[u])
               PROVE  w[u][i].id <= sent + 1
    BY <1>12, <1>14
  <2>1. w[u][i].id \in Nat /\ w[u][i].id <= sent
    <3>1. sink.queue[u] \in Seq(Message)
      BY <1>1
    <3> QED BY <1>14, <3>1, ElementIds DEF OrderInv, Ordered
  <2> QED BY <1>1, <2>1
<1> QED BY <1>2, <1>15, <1>16, <1>17, <1>18 DEF OrderInv, Ordered, w

-----------------------------------------------------------------------------
LEMMA QueueTypes ==
  ASSUME IInv
  PROVE  /\ sink.queue \in Queues /\ sink.handling \in SUBSET Message
         /\ orphaned \in SUBSET Message /\ sent \in Nat
         /\ \A m \in sink.handling : m.th \in Thread
<1>1. /\ sink.queue \in [Thread -> Seq(Message)]
      /\ \A t \in Thread : sink.queue[t] \in Seq(MessageOf(t))
      /\ sink.handling \in SUBSET Message
      /\ orphaned \in SUBSET Message /\ sent \in Nat
  BY QueueAssumption DEF IInv, Consistent, SinkType
<1>2. \A m \in sink.handling : m.th \in Thread
  BY <1>1 DEF Message
<1> QED BY <1>1, <1>2 DEF Queues

(* When a race ends its message is no longer handled; abandoned or not, it  *)
(* stays before what waits.                                                 *)
LEMMA RaceEndKeepsOrder ==
  ASSUME NEW w, NEW r, NEW o, NEW k, Ordered(w, r, o, k), NEW m \in r
  PROVE  Ordered(w, r \ {m}, o, k) /\ Ordered(w, r \ {m}, o \cup {m}, k)
BY DEF Ordered, Behind

LEMMA InitOrder == Init => OrderInv
<1> SUFFICES ASSUME Init PROVE OrderInv
  OBVIOUS
<1>1. /\ sink.handling = {} /\ orphaned = {} /\ sent = 0
      /\ \A t \in Thread : sink.queue[t] = <<>>
  BY DEF Init, EmptySink
<1>2. Ordered(sink.queue, sink.handling, orphaned, sent)
  BY <1>1, QueueAssumption DEF Ordered, Behind, Increasing
<1> QED BY <1>2, InitIInv DEF OrderInv

LEMMA EndRaceOrder ==
  ASSUME OrderInv, IInv', NEW m \in sink.handling, EndRace(m),
         NEW o \in SUBSET Message,
         Ordered(sink.queue, sink.handling \ {m}, o, sent)
  PROVE  Ordered(sink.queue', sink.handling', o, sent')
<1>1. /\ sink.queue \in Queues /\ sink.handling \ {m} \in SUBSET Message
      /\ sink.queue' \in Queues /\ sink.handling' \in SUBSET Message
      /\ sent \in Nat
  BY QueueTypes DEF OrderInv, IInv, Consistent, SinkType, Queues
<1>2. m.th \in Thread
  BY QueueTypes DEF OrderInv
<1>3. PICK u \in Thread : Serves(sink.queue, sink.handling \ {m},
                               sink.queue', sink.handling', {m.th, u})
  BY EndRaceServes DEF OrderInv
<1>4. {m.th, u} \in SUBSET Thread
  BY <1>2
<1>5. sent' = sent
  BY DEF EndRace
<1> QED BY <1>1, <1>3, <1>4, <1>5, ServeKeepsOrder

LEMMA NextOrder == OrderInv /\ IInv' /\ [Next]_vars => OrderInv'
<1> SUFFICES ASSUME OrderInv, IInv', [Next]_vars PROVE OrderInv'
  OBVIOUS
<1> DEFINE Goal == Ordered(sink.queue', sink.handling', orphaned', sent')
<1>1. /\ sink.queue' \in Queues /\ sink.handling \in SUBSET Message
      /\ sink.handling' \in SUBSET Message /\ orphaned \in SUBSET Message
      /\ sent \in Nat
      /\ Ordered(sink.queue, sink.handling, orphaned, sent)
  BY QueueTypes DEF OrderInv, IInv, Consistent, SinkType, Queues
<1>2. ASSUME NEW t \in Thread, Enqueue(t) PROVE Goal
  <2>1. /\ ArrivedQueue(t) \in Queues
        /\ Ordered(ArrivedQueue(t), sink.handling, orphaned, sent + 1)
    BY <1>2, ArrivalKeepsOrder
  <2>2. Serves(ArrivedQueue(t), sink.handling, sink.queue', sink.handling', {t})
    BY <1>2, EnqueueServes DEF OrderInv
  <2>3. sent' = sent + 1 /\ sent + 1 \in Nat /\ orphaned' = orphaned
    BY <1>1, <1>2 DEF Enqueue
  <2>4. {t} \in SUBSET Thread
    OBVIOUS
  <2> QED BY <1>1, <2>1, <2>2, <2>3, <2>4, ServeKeepsOrder
<1>3. ASSUME NEW m \in sink.handling, HandlerSettles(m) PROVE Goal
  <2>1. EndRace(m) /\ orphaned' = orphaned
    BY <1>3 DEF HandlerSettles
  <2>2. Ordered(sink.queue, sink.handling \ {m}, orphaned, sent)
    BY <1>1, RaceEndKeepsOrder
  <2> QED BY <1>1, <2>1, <2>2, EndRaceOrder
<1>4. ASSUME NEW m \in sink.handling, DeadlinePasses(m) PROVE Goal
  <2>1. EndRace(m) /\ orphaned' = orphaned \cup {m}
    BY <1>4 DEF DeadlinePasses
  <2>2. Ordered(sink.queue, sink.handling \ {m}, orphaned \cup {m}, sent)
    BY <1>1, RaceEndKeepsOrder
  <2>3. orphaned \cup {m} \in SUBSET Message
    BY <1>1
  <2> QED BY <2>1, <2>2, <2>3, EndRaceOrder
<1>5. ASSUME NEW m \in orphaned, OrphanSettles(m) PROVE Goal
  <2>1. sink' = sink /\ sent' = sent /\ orphaned' = orphaned \ {m}
    BY <1>5 DEF OrphanSettles
  <2>2. \A m1, m2 \in sink.handling \cup orphaned' :
          m1.th = m2.th /\ m1.id < m2.id => m1 \in orphaned' \ sink.handling
    <3> SUFFICES ASSUME NEW m1 \in sink.handling \cup orphaned',
                        NEW m2 \in sink.handling \cup orphaned',
                        m1.th = m2.th, m1.id < m2.id
                 PROVE  m1 \in orphaned' \ sink.handling
      OBVIOUS
    <3>1. m1 \in orphaned \ sink.handling
      BY <1>1, <2>1 DEF Ordered
    <3> QED BY <2>1, <3>1
  <2> QED BY <1>1, <2>1, <2>2 DEF Ordered, Behind
<1>6. ASSUME NEW h \in 1..MaxHorizon, MessagesAge(h) PROVE Goal
  BY <1>1, <1>6 DEF MessagesAge
<1>7. ASSUME UNCHANGED vars PROVE Goal
  BY <1>1, <1>7 DEF vars
<1>8. Goal
  BY <1>2, <1>3, <1>4, <1>5, <1>6, <1>7 DEF Next
<1> QED BY <1>8 DEF OrderInv

(* Queues are in the order of arrival and behind all that was started, in   *)
(* every reachable state.                                                   *)
THEOREM QueuesAreOrdered == Spec => []OrderInv
<1>1. OrderInv /\ IInv' /\ [Next]_vars => OrderInv'
  BY NextOrder
<1> QED BY <1>1, InitOrder, InductiveInvariant, PTL DEF Spec

(* For any number of threads and any limits, handlers of one thread overlap *)
(* only if all but the newest were abandoned at their deadline.             *)
THEOREM OverlapIsAbandoned == Spec => []OverlapOnlyAbandoned
<1>1. OrderInv => OverlapOnlyAbandoned
  BY DEF OrderInv, Ordered, OverlapOnlyAbandoned
<1> QED BY <1>1, QueuesAreOrdered, PTL

-----------------------------------------------------------------------------
(* A step from the queues q and the handled messages h to w2 and r2 serves  *)
(* what waits: w, after an enqueue has appended its message to q, while r   *)
(* is still handled, after a race has ended.                                *)
Step(q, h, w, r, w2, r2) ==
  /\ w \in Queues /\ w2 \in Queues /\ r \subseteq h
  /\ \A t \in Thread : Increasing(w[t])
  /\ \E T \in SUBSET Thread : Serves(w, r, w2, r2, T)
  /\ \A t \in Thread : \A m \in ToSet(q[t]) :
       \/ m \in ToSet(w[t])
       \/ Len(q[t]) = MaxPerThread /\ m = Head(q[t])

StepNow == \/ sink'.queue = sink.queue /\ sink'.handling = sink.handling
           \/ \E w, r : Step(sink.queue, sink.handling, w, r,
                            sink'.queue, sink'.handling)

LEMMA EnqueueStep ==
  ASSUME OrderInv, IInv', NEW t \in Thread, Enqueue(t)
  PROVE  Step(sink.queue, sink.handling, ArrivedQueue(t), sink.handling,
              sink'.queue, sink'.handling)
<1> DEFINE w == ArrivedQueue(t)
           q == sink.queue[t]
           m0 == [th |-> t, id |-> sent + 1]
<1>1. /\ w \in Queues /\ \A u \in Thread : Increasing(w[u])
  BY ArrivalKeepsOrder DEF Ordered
<1>2. Serves(w, sink.handling, sink'.queue, sink'.handling, {t})
  BY EnqueueServes DEF OrderInv
<1>3. sink'.queue \in Queues
  BY DEF IInv, Consistent, SinkType, Queues
<1>4. ASSUME NEW u \in Thread, NEW m \in ToSet(sink.queue[u])
      PROVE  \/ m \in ToSet(w[u])
             \/ Len(sink.queue[u]) = MaxPerThread /\ m = Head(sink.queue[u])
  <2>1. /\ w = [sink.queue EXCEPT ![t] = Append(MakeRoom(q), m0)]
        /\ sink.queue \in [Thread -> Seq(Message)]
    BY QueueTypes DEF ArrivedQueue, Queues, OrderInv
  <2>2. CASE u # t
    BY <2>1, <2>2
  <2>3. CASE u = t
    <3>1. q \in Seq(Message) /\ Len(q) \in Nat /\ Len(q) <= MaxPerThread
      BY <2>1 DEF OrderInv, Ordered
    <3>2. PICK i \in 1..Len(q) : m = q[i]
      BY <2>3, <3>1 DEF ToSet
    <3>3. w[t] = Append(MakeRoom(q), m0) /\ w[t] \in Seq(Message)
      BY <1>1, <2>1 DEF Queues
    <3> HIDE DEF q, w, m0
    <3>4. CASE Len(q) >= MaxPerThread
      <4>1. MakeRoom(q) = Tail(q) /\ q # <<>>
        BY <3>1, <3>4, QueueAssumption DEF MakeRoom
      <4>2. CASE i = 1
        BY <2>3, <3>1, <3>2, <3>4, <4>2, QueueAssumption DEF q
      <4>3. CASE i # 1
        <5>1. /\ i - 1 \in 1..Len(Tail(q)) /\ Tail(q)[i - 1] = q[i]
              /\ Tail(q) \in Seq(Message)
          BY <3>1, <3>2, <4>1, <4>3
        <5>2. /\ i - 1 \in 1..Len(Append(Tail(q), m0))
              /\ Append(Tail(q), m0)[i - 1] = q[i]
          BY <5>1
        <5>3. i - 1 \in 1..Len(w[t]) /\ w[t][i - 1] = m
          BY <3>2, <3>3, <4>1, <5>2
        <5>4. i - 1 \in DOMAIN w[t]
          BY <3>3, <5>3
        <5> QED BY <2>3, <5>3, <5>4, Zenon DEF ToSet
      <4> QED BY <4>2, <4>3
    <3>5. CASE ~(Len(q) >= MaxPerThread)
      <4>1. MakeRoom(q) = q
        BY <3>5 DEF MakeRoom
      <4>2. i \in 1..Len(Append(q, m0)) /\ Append(q, m0)[i] = q[i]
        BY <3>1
      <4>3. i \in 1..Len(w[t]) /\ w[t][i] = m
        BY <3>2, <3>3, <4>1, <4>2
      <4> QED BY <2>3, <3>3, <4>3 DEF ToSet
    <3> QED BY <3>4, <3>5
  <2> QED BY <2>2, <2>3
<1> HIDE DEF w
<1>5. {t} \in SUBSET Thread
  OBVIOUS
<1>6. \E T \in SUBSET Thread :
        Serves(w, sink.handling, sink'.queue, sink'.handling, T)
  BY <1>2, <1>5, Zenon
<1> QED BY <1>1, <1>3, <1>4, <1>6, Zenon DEF Step, w

LEMMA EndRaceStep ==
  ASSUME OrderInv, IInv', NEW m \in sink.handling, EndRace(m)
  PROVE  Step(sink.queue, sink.handling, sink.queue, sink.handling \ {m},
              sink'.queue, sink'.handling)
<1>1. /\ sink.queue \in Queues /\ \A u \in Thread : Increasing(sink.queue[u])
  BY QueueTypes DEF OrderInv, Ordered
<1>2. m.th \in Thread
  BY QueueTypes DEF OrderInv
<1>3. PICK u \in Thread : Serves(sink.queue, sink.handling \ {m},
                               sink'.queue, sink'.handling, {m.th, u})
  BY EndRaceServes DEF OrderInv
<1>4. {m.th, u} \in SUBSET Thread
  BY <1>2
<1>5. sink'.queue \in Queues
  BY DEF IInv, Consistent, SinkType, Queues
<1>6. \E T \in SUBSET Thread : Serves(sink.queue, sink.handling \ {m},
                                     sink'.queue, sink'.handling, T)
  BY <1>3, <1>4, Zenon
<1>7. sink.handling \ {m} \subseteq sink.handling
  OBVIOUS
<1> QED BY <1>1, <1>5, <1>6, <1>7, Zenon DEF Step

LEMMA EveryStep == OrderInv /\ IInv' /\ [Next]_vars => StepNow
<1> SUFFICES ASSUME OrderInv, IInv', [Next]_vars PROVE StepNow
  OBVIOUS
<1>1. ASSUME NEW t \in Thread, Enqueue(t) PROVE StepNow
  BY <1>1, EnqueueStep DEF StepNow
<1>2. ASSUME NEW m \in sink.handling, EndRace(m) PROVE StepNow
  BY <1>2, EndRaceStep DEF StepNow
<1>3. ASSUME sink' = sink PROVE StepNow
  BY <1>3 DEF StepNow
<1> QED BY <1>1, <1>2, <1>3
        DEF Next, vars, HandlerSettles, DeadlinePasses, OrphanSettles, MessagesAge

LEMMA StepLosesNothing ==
  ASSUME NEW q, NEW h, NEW w, NEW r, NEW w2, NEW r2, Step(q, h, w, r, w2, r2),
         NEW t \in Thread, NEW m \in ToSet(q[t]) \ ToSet(w2[t])
  PROVE  \/ m \in r2 \/ Stale(m)
         \/ Len(q[t]) = MaxPerThread /\ m = Head(q[t])
<1> SUFFICES ASSUME m \in ToSet(w[t]) PROVE m \in r2 \/ Stale(m)
  BY DEF Step
<1>1. /\ w[t] \in Seq(Message) /\ w2[t] \in Seq(Message)
      /\ Len(w[t]) \in Nat /\ Len(w2[t]) \in Nat
  BY DEF Step, Queues
<1>2. PICK n \in 0..Len(w[t]) :
        /\ Gone(w[t], w2[t], n)
        /\ \A i \in 1..n : Stale(w[t][i]) \/ w[t][i] \in r2
  BY ServePositions DEF Step
<1>3. PICK i \in 1..Len(w[t]) : m = w[t][i]
  BY <1>1 DEF ToSet
<1>4. CASE i \in 1..n
  BY <1>2, <1>3, <1>4
<1>5. CASE i \notin 1..n
  <2>1. i - n \in 1..Len(w2[t]) /\ n + (i - n) = i
    BY <1>1, <1>2, <1>5 DEF Gone
  <2>2. w2[t][i - n] = m
    BY <1>2, <1>3, <2>1 DEF Gone
  <2> QED BY <1>1, <2>1, <2>2 DEF ToSet
<1> QED BY <1>4, <1>5

LEMMA StepStartsInOrder ==
  ASSUME NEW q, NEW h, NEW w, NEW r, NEW w2, NEW r2, Step(q, h, w, r, w2, r2),
         NEW m \in r2 \ h
  PROVE  ~Stale(m) /\ \A k \in ToSet(w2[m.th]) : m.id < k.id
<1>1. m \in r2 \ r
  BY DEF Step
<1>2. /\ m.th \in Thread /\ ~Stale(m)
      /\ \E n \in 1..Len(w[m.th]) :
           Gone(w[m.th], w2[m.th], n) /\ m = w[m.th][n]
  BY <1>1, ServePositions DEF Step
<1>3. PICK n \in 1..Len(w[m.th]) : Gone(w[m.th], w2[m.th], n) /\ m = w[m.th][n]
  BY <1>2
<1>4. /\ w2[m.th] \in Seq(Message) /\ Increasing(w[m.th])
      /\ Len(w[m.th]) \in Nat /\ Len(w2[m.th]) \in Nat
  BY <1>2 DEF Step, Queues
<1>5. ASSUME NEW k \in ToSet(w2[m.th]) PROVE m.id < k.id
  <2>1. PICK i \in 1..Len(w2[m.th]) : k = w2[m.th][i]
    BY <1>4 DEF ToSet
  <2>2. n + i \in 1..Len(w[m.th]) /\ n < n + i
    BY <1>3, <1>4 DEF Gone
  <2>3. k = w[m.th][n + i]
    BY <1>3, <2>1 DEF Gone
  <2> QED BY <1>3, <1>4, <2>2, <2>3 DEF Increasing
<1> QED BY <1>2, <1>5

(* For any number of threads and any limits, a message leaves its queue     *)
(* unhandled only if it is stale or makes room in a full queue.             *)
THEOREM NothingIsLost == Spec => NoSilentLoss
<1> DEFINE Kept == \A t \in Thread :
                     \A m \in ToSet(sink.queue[t]) \ ToSet(sink'.queue[t]) :
                        \/ m \in sink'.handling
                        \/ Stale(m)
                        \/ Len(sink.queue[t]) = MaxPerThread /\ m = Head(sink.queue[t])
<1>1. OrderInv /\ IInv' /\ [Next]_vars => Kept
  <2> SUFFICES ASSUME OrderInv, IInv', [Next]_vars PROVE Kept
    OBVIOUS
  <2>1. StepNow
    BY EveryStep
  <2>2. CASE sink'.queue = sink.queue /\ sink'.handling = sink.handling
    BY <2>2
  <2>3. ASSUME NEW w, NEW r, Step(sink.queue, sink.handling, w, r,
                                  sink'.queue, sink'.handling)
        PROVE  Kept
    BY <2>3, StepLosesNothing
  <2> QED BY <2>1, <2>2, <2>3 DEF StepNow
<1>2. OrderInv /\ IInv' /\ [Next]_vars => [Kept]_vars
  BY <1>1
<1> HIDE DEF Kept
<1>3. Spec => [][Kept]_vars
  BY <1>2, QueuesAreOrdered, InductiveInvariant, PTL DEF Spec
<1> QED BY <1>3 DEF Kept, NoSilentLoss

(* For any number of threads and any limits, what starts is fresh and the   *)
(* oldest of its conversation.                                              *)
THEOREM StartsAreInOrder == Spec => StartsFreshAndInOrder
<1> DEFINE InOrder == \A m \in sink'.handling \ sink.handling :
                        /\ ~Stale(m)
                        /\ \A k \in ToSet(sink'.queue[m.th]) : m.id < k.id
<1>1. OrderInv /\ IInv' /\ [Next]_vars => InOrder
  <2> SUFFICES ASSUME OrderInv, IInv', [Next]_vars PROVE InOrder
    OBVIOUS
  <2>1. StepNow
    BY EveryStep
  <2>2. CASE sink'.queue = sink.queue /\ sink'.handling = sink.handling
    BY <2>2
  <2>3. ASSUME NEW w, NEW r, Step(sink.queue, sink.handling, w, r,
                                  sink'.queue, sink'.handling)
        PROVE  InOrder
    BY <2>3, StepStartsInOrder
  <2> QED BY <2>1, <2>2, <2>3 DEF StepNow
<1>2. OrderInv /\ IInv' /\ [Next]_vars => [InOrder]_vars
  BY <1>1
<1> HIDE DEF InOrder
<1>3. Spec => [][InOrder]_vars
  BY <1>2, QueuesAreOrdered, InductiveInvariant, PTL DEF Spec
<1> QED BY <1>3 DEF InOrder, StartsFreshAndInOrder

-----------------------------------------------------------------------------
(***************************************************************************)
(* While no message goes stale a free slot is never left unused.  (Once    *)
(* one may, it can be: the run queue_stranded shows how.)  The end of a    *)
(* race frees one slot and gives one away; if others were free before it,  *)
(* then no thread was waiting but perhaps its own.                         *)
(***************************************************************************)
SaturatedBut(s, t) ==
  s.activeCount < MaxConcurrent => \A u \in Thread \ {t} : ~Servable(s, u)

Saturated(s) == s.activeCount < MaxConcurrent => \A u \in Thread : ~Servable(s, u)

LEMMA NothingSkipped ==
  ASSUME horizon = 0, NEW q \in Seq(Message), q # <<>>
  PROVE  SkipStale(q) # <<>>
<1> DEFINE I == {i \in 1..Len(q) : ~Stale(q[i])}
<1>1. \A i \in 1..Len(q) : q[i] \in Message /\ q[i].id # 0 /\ q[i].id \in Nat
  <2>1. \A m \in Message : m.id # 0 /\ m.id \in Nat
    BY DEF Message
  <2> QED BY <2>1
<1>2. 1 \in I /\ I \in SUBSET (1..Len(q)) /\ Len(q) \in Nat /\ Len(q) >= 1
  BY <1>1 DEF Stale
<1>3. SelectInSeq(q, LAMBDA m : ~Stale(m)) = Min(I)
  BY <1>2, Zenon DEF SelectInSeq
<1> HIDE DEF I
<1>4. Min(I) \in I
  BY <1>2, LeastPosition
<1>5. Min(I) # 0 /\ Min(I) \in 1..Len(q)
  <2>1. Min(I) \in 1..Len(q)
    BY <1>2, <1>4, Zenon
  <2> QED BY <1>2, <2>1
<1>6. SkipStale(q) = SubSeq(q, Min(I), Len(q))
  BY <1>3, <1>5, Zenon DEF SkipStale
<1> DEFINE n == Min(I)
<1> HIDE DEF n
<1>7. n \in 1..Len(q) /\ SkipStale(q) = SubSeq(q, n, Len(q))
  BY <1>5, <1>6 DEF n
<1>8. Len(SubSeq(q, n, Len(q))) = Len(q) - n + 1
  BY <1>2, <1>7, SubSeqProperties
<1>9. Len(q) - n + 1 # 0
  BY <1>2, <1>7
<1>10. Len(SkipStale(q)) # 0
  BY <1>7, <1>8, <1>9
<1> QED BY <1>10

(* The thread that processNext works on takes a slot.                       *)
LEMMA ProcessNextTakes ==
  ASSUME NEW s, NEW t \in Thread, Consistent(s), horizon = 0, s.queue[t] # <<>>
  PROVE  LET n == ProcessNext(s, t)
         IN /\ n.activeCount = s.activeCount + 1
            /\ n.processing = s.processing \cup {t}
            /\ \A u \in Thread \ {t} : n.queue[u] = s.queue[u]
<1> DEFINE q == SkipStale(s.queue[t])
<1>1. s \in SinkType /\ s.queue \in [Thread -> Seq(Message)]
  BY DEF Consistent, SinkType
<1>2. q # <<>>
  BY <1>1, NothingSkipped
<1> QED BY <1>1, <1>2 DEF ProcessNext, SinkType

LEMMA TryDrainSaturates ==
  ASSUME NEW s, NEW t \in Thread, Consistent(s), horizon = 0, s.queue[t] # <<>>
  PROVE  LET n == TryDrain(s, t)
         IN /\ SaturatedBut(s, t) => Saturated(n)
            /\ n.activeCount >= s.activeCount
<1>1. s \in SinkType /\ s.activeCount \in Nat /\ MaxConcurrent \in Nat
  BY QueueAssumption DEF Consistent, SinkType
<1>2. CASE t \in s.processing
  <2>1. TryDrain(s, t) = s
    BY <1>2 DEF TryDrain
  <2> QED BY <1>1, <1>2, <2>1 DEF Saturated, SaturatedBut, Servable
<1>3. CASE t \notin s.processing /\ s.activeCount >= MaxConcurrent
  <2>1. TryDrain(s, t).activeCount = s.activeCount
    BY <1>1, <1>3 DEF TryDrain, SinkType
  <2> QED BY <1>1, <1>3, <2>1 DEF Saturated
<1>4. CASE t \notin s.processing /\ ~(s.activeCount >= MaxConcurrent)
  <2> DEFINE n == ProcessNext(s, t)
  <2>1. TryDrain(s, t) = n
    BY <1>4 DEF TryDrain
  <2>2. /\ n.activeCount = s.activeCount + 1
        /\ n.processing = s.processing \cup {t}
        /\ \A u \in Thread \ {t} : n.queue[u] = s.queue[u]
    BY ProcessNextTakes
  <2> HIDE DEF n
  <2>3. SaturatedBut(s, t) => Saturated(n)
    BY <1>1, <1>4, <2>2 DEF Saturated, SaturatedBut, Servable
  <2> QED BY <1>1, <2>1, <2>2, <2>3
<1> QED BY <1>2, <1>3, <1>4

LEMMA CleanupThreadFrees ==
  ASSUME NEW s, NEW t, s \in SinkType
  PROVE  /\ CleanupThread(s, t).activeCount = s.activeCount
         /\ CleanupThread(s, t).queue = s.queue
         /\ CleanupThread(s, t).processing = s.processing
BY DEF CleanupThread, SinkType

LEMMA ContinueThreadSaturates ==
  ASSUME NEW s, NEW t \in Thread, Consistent(s), horizon = 0
  PROVE  LET n == ContinueThread(s, t)
         IN /\ SaturatedBut(s, t) => Saturated(n)
            /\ n.activeCount >= s.activeCount
<1>1. s \in SinkType /\ s.activeCount \in Nat
  BY DEF Consistent, SinkType
<1>2. CASE s.queue[t] # <<>>
  BY <1>2, TryDrainSaturates DEF ContinueThread
<1>3. CASE s.queue[t] = <<>>
  <2> DEFINE n == CleanupThread(s, t)
  <2>1. ContinueThread(s, t) = n
    BY <1>3 DEF ContinueThread
  <2>2. n.activeCount = s.activeCount /\ n.queue = s.queue /\ n.processing = s.processing
    BY <1>1, CleanupThreadFrees
  <2> HIDE DEF n
  <2> QED BY <1>1, <1>3, <2>1, <2>2 DEF Saturated, SaturatedBut, Servable
<1> QED BY <1>2, <1>3

LEMMA DrainPendingThreadSaturates ==
  ASSUME NEW s, Consistent(s), Settled(s), horizon = 0,
         Saturated(s) \/ s.activeCount + 1 >= MaxConcurrent
  PROVE  Saturated(DrainPendingThread(s))
<1> DEFINE w == s.pendingThreads
           I == {i \in 1..Len(w) : Servable(s, w[i])}
<1>1. /\ s \in SinkType /\ w \in Seq(Thread) /\ Len(w) \in Nat
      /\ s.activeCount \in Nat /\ MaxConcurrent \in Nat
  BY QueueAssumption DEF Consistent, SinkType
<1>2. SelectInSeq(w, LAMBDA t : Servable(s, t)) = IF I # {} THEN Min(I) ELSE 0
  BY Zenon DEF SelectInSeq
<1>3. CASE s.activeCount >= MaxConcurrent
  <2>1. DrainPendingThread(s) = s
    BY <1>3, Zenon DEF DrainPendingThread
  <2> QED BY <1>1, <1>3, <2>1 DEF Saturated
<1>4. CASE ~(s.activeCount >= MaxConcurrent) /\ I = {}
  <2> DEFINE r == [s EXCEPT !.pendingThreads = <<>>]
  <2>1. DrainPendingThread(s) = r
    BY <1>2, <1>4, Zenon DEF DrainPendingThread
  <2>2. r.queue = s.queue /\ r.processing = s.processing
    BY <1>1 DEF SinkType
  <2>3. \A t \in Thread : Contains(w, t) => ~Servable(s, t)
    BY <1>4 DEF Contains
  <2>4. \A t \in Thread : ~Servable(s, t)
    BY <2>3 DEF Settled, SettledThread, Servable
  <2> HIDE DEF r
  <2> QED BY <2>1, <2>2, <2>4 DEF Saturated, Servable
<1>5. CASE ~(s.activeCount >= MaxConcurrent) /\ I # {}
  <2> DEFINE n == Min(I)
             l == SubSeq(w, n + 1, Len(w))
             r == [s EXCEPT !.pendingThreads = l]
  <2>1. n \in I
    <3>1. I \in SUBSET (1..Len(w))
      OBVIOUS
    <3> HIDE DEF I
    <3> QED BY <1>1, <1>5, <3>1, LeastPosition
  <2>2. n \in 1..Len(w) /\ w[n] \in Thread /\ Servable(s, w[n])
    <3> HIDE DEF n
    <3> QED BY <1>1, <2>1
  <2>3. DrainPendingThread(s) = ProcessNext(r, w[n])
    <3>1. SelectInSeq(w, LAMBDA t : Servable(s, t)) = n /\ n # 0
      BY <1>2, <1>5, <2>2
    <3> QED BY <1>5, <3>1, Zenon DEF DrainPendingThread
  <2>4. s.activeCount + 1 >= MaxConcurrent
    BY <1>1, <1>5, <2>2 DEF Saturated
  <2> HIDE DEF I, n
  <2>5. l \in Seq(Thread) /\ IsInjective(l)
    BY <1>1, <2>2, LeaveLine DEF Consistent
  <2> HIDE DEF l
  <2>6. /\ r \in SinkType /\ r.pendingThreads = l
        /\ r.threads = s.threads /\ r.queue = s.queue
        /\ r.processing = s.processing /\ r.activeCount = s.activeCount
        /\ r.handling = s.handling
    BY <1>1, <2>5 DEF SinkType
  <2> HIDE DEF r
  <2>7. Consistent(r) /\ r.queue[w[n]] # <<>>
    BY <2>2, <2>5, <2>6 DEF Consistent, Servable
  <2>8. ProcessNext(r, w[n]).activeCount = s.activeCount + 1
    BY <2>2, <2>6, <2>7, ProcessNextTakes
  <2> QED BY <1>1, <2>3, <2>4, <2>8 DEF Saturated
<1> QED BY <1>3, <1>4, <1>5

SaturationInv == IInv /\ horizon = 0 /\ Saturated(sink)

LEMMA EnqueueSaturates ==
  ASSUME SaturationInv, NEW t \in Thread, Enqueue(t)
  PROVE  Saturated(sink')
<1> DEFINE s == Arrived(t)
<1>1. IInv /\ horizon = 0 /\ Saturated(sink)
  BY DEF SaturationInv
<1>2. /\ Consistent(s) /\ s.queue[t] # <<>>
      /\ s.queue = ArrivedQueue(t) /\ s.processing = sink.processing
      /\ s.activeCount = sink.activeCount /\ sink' = TryDrain(s, t)
  BY <1>1, ArrivedConsistent DEF Fields
<1>3. \A u \in Thread \ {t} : ArrivedQueue(t)[u] = sink.queue[u]
  BY <1>1 DEF ArrivedQueue, IInv, Consistent, SinkType
<1> HIDE DEF s
<1>4. SaturatedBut(s, t)
  BY <1>1, <1>2, <1>3 DEF Saturated, SaturatedBut, Servable
<1> QED BY <1>1, <1>2, <1>4, TryDrainSaturates

LEMMA EndRaceSaturates ==
  ASSUME SaturationInv, NEW m \in sink.handling, EndRace(m)
  PROVE  Saturated(sink')
<1> DEFINE r == Release(sink, m)
           c == ContinueThread(r, m.th)
<1>1. IInv /\ horizon = 0 /\ Saturated(sink)
  BY DEF SaturationInv
<1>2. /\ Consistent(r) /\ SettledBut(r, m.th) /\ m.th \in Thread
      /\ m.th \in r.threads /\ m.th \notin r.processing
  BY <1>1, ReleaseConsistent DEF IInv
<1>3. /\ r.queue = sink.queue /\ r.processing = sink.processing \ {m.th}
      /\ r.activeCount = sink.activeCount - 1
  BY <1>1 DEF Release, IInv, Consistent, SinkType
<1>4. sink.activeCount \in Nat /\ r.activeCount \in Nat /\ MaxConcurrent \in Nat
  BY <1>1, <1>2, QueueAssumption DEF IInv, Consistent, SinkType
<1>5. sink' = DrainPendingThread(c)
  BY DEF EndRace
<1> HIDE DEF r
<1>6. Consistent(c) /\ Settled(c)
  BY <1>2, ContinueThreadConsistent
<1>7. (SaturatedBut(r, m.th) => Saturated(c)) /\ c.activeCount >= r.activeCount
  BY <1>1, <1>2, ContinueThreadSaturates
<1> HIDE DEF c
<1>8. c.activeCount \in Nat
  BY <1>6 DEF Consistent, SinkType
<1>9. CASE sink.activeCount < MaxConcurrent
  <2>1. SaturatedBut(r, m.th)
    BY <1>1, <1>3, <1>9 DEF Saturated, SaturatedBut, Servable
  <2> QED BY <1>1, <1>5, <1>6, <1>7, <2>1, DrainPendingThreadSaturates
<1>10. CASE ~(sink.activeCount < MaxConcurrent)
  <2>1. c.activeCount + 1 >= MaxConcurrent
    BY <1>3, <1>4, <1>7, <1>8, <1>10
  <2> QED BY <1>1, <1>5, <1>6, <2>1, DrainPendingThreadSaturates
<1> QED BY <1>9, <1>10

LEMMA NextSaturates ==
  ASSUME MaxHorizon = 0
  PROVE  SaturationInv /\ IInv' /\ [Next]_vars => SaturationInv'
<1> SUFFICES ASSUME SaturationInv, IInv', [Next]_vars PROVE SaturationInv'
  OBVIOUS
<1>1. ASSUME NEW t \in Thread, Enqueue(t) PROVE SaturationInv'
  BY <1>1, EnqueueSaturates DEF Enqueue, SaturationInv
<1>2. ASSUME NEW m \in sink.handling, EndRace(m) PROVE SaturationInv'
  BY <1>2, EndRaceSaturates DEF EndRace, SaturationInv
<1>3. ASSUME NEW m \in orphaned, OrphanSettles(m) PROVE SaturationInv'
  BY <1>3 DEF OrphanSettles, SaturationInv
<1>4. ASSUME NEW h \in 1..MaxHorizon, MessagesAge(h) PROVE SaturationInv'
  BY <1>4
<1>5. CASE UNCHANGED vars
  BY <1>5 DEF vars, SaturationInv
<1> QED BY <1>1, <1>2, <1>3, <1>4, <1>5 DEF Next, HandlerSettles, DeadlinePasses

(* As long as a slot is free no thread that has messages stands in line,    *)
(* if no message goes stale.                                                *)
THEOREM SlotsAreUsed ==
  ASSUME MaxHorizon = 0
  PROVE  Spec => []WorkConserving
<1>1. Init => SaturationInv
  <2> SUFFICES ASSUME Init PROVE horizon = 0 /\ Saturated(sink)
    BY InitIInv DEF SaturationInv
  <2>1. sink.queue = [t \in Thread |-> <<>>]
    BY DEF Init, EmptySink
  <2> QED BY <2>1 DEF Init, Saturated, Servable
<1>2. SaturationInv /\ [Next]_vars => SaturationInv'
  BY NextSaturates, NextIInv DEF SaturationInv
<1>3. SaturationInv => WorkConserving
  BY DEF SaturationInv, Saturated, WorkConserving
<1> QED BY <1>1, <1>2, <1>3, PTL DEF Spec
=============================================================================
