---------------------------- MODULE ThreadQueue ----------------------------
(***************************************************************************)
(* ThreadMessageQueue (src/src/channel/thread-queue.ts): one FIFO of       *)
(* messages per conversation thread, at most MaxConcurrent messages being  *)
(* processed at once, a bounded queue per thread, stale messages skipped   *)
(* when they are dequeued, and a deadline after which a message that is    *)
(* still being processed is abandoned.                                     *)
(*                                                                         *)
(* The class runs on one JavaScript thread: each public call and each      *)
(* settlement of a race between a handler and its deadline runs to its end *)
(* before anything else does, and is one action here.  The private methods *)
(* are operators from the instance's fields to the instance's fields, so   *)
(* that an action composes them in the order in which the code calls them. *)
(***************************************************************************)
EXTENDS Naturals, Sequences, FiniteSets, SequencesExt

CONSTANTS Thread,         \* conversation thread ids
          MaxConcurrent,  \* options.maxConcurrent
          MaxPerThread,   \* options.maxPerThread
          MaxMessages,    \* bound: how many messages are ever enqueued
          MaxHorizon      \* bound: messages up to this one may become stale

ASSUME QueueAssumption ==
  /\ MaxConcurrent \in Nat \ {0}
  /\ MaxPerThread \in Nat \ {0}
  /\ MaxMessages \in Nat
  /\ MaxHorizon \in Nat

(***************************************************************************)
(* Messages are numbered in the order in which they are enqueued, which is *)
(* the order of their enqueuedAt stamps.  Time is seen only through the    *)
(* stale check: the messages numbered up to horizon are too old.           *)
(***************************************************************************)
Message == [th : Thread, id : Nat \ {0}]

VARIABLES
  sink,     \* the fields of the ThreadMessageQueue instance
  orphaned, \* messages whose handler still runs after its deadline
  sent,     \* how many messages have been enqueued
  horizon   \* the last message that is older than maxAgeMs

vars == <<sink, orphaned, sent, horizon>>

(***************************************************************************)
(* #threads is the Map: its keys (threads) and, per key, the queue and the *)
(* processing flag of the entry.  handling holds the messages whose race   *)
(* between handler and deadline is open.                                   *)
(***************************************************************************)
SinkType ==
  [threads        : SUBSET Thread,
   queue          : [Thread -> Seq(Message)],
   processing     : SUBSET Thread,
   activeCount    : Nat,
   pendingThreads : Seq(Thread),
   handling       : SUBSET Message]

EmptySink ==
  [threads        |-> {},
   queue          |-> [t \in Thread |-> <<>>],
   processing     |-> {},
   activeCount    |-> 0,
   pendingThreads |-> <<>>,
   handling       |-> {}]

Stale(m) == m.id <= horizon

-----------------------------------------------------------------------------
(* Bug: the age of the messages is not looked at. *)
SkipNothing(q) == q

(* What is left of a queue once the stale messages at its head are skipped. *)
SkipStale(q) ==
  LET fresh == SelectInSeq(q, LAMBDA m : ~Stale(m))
  IN IF fresh = 0 THEN <<>> ELSE SubSeq(q, fresh, Len(q))

(* Bug: the Map's entries are never removed. *)
CleanupNothing(s, t) == s

CleanupThread(s, t) ==
  IF t \notin s.processing /\ s.queue[t] = <<>>
  THEN [s EXCEPT !.threads = @ \ {t}]
  ELSE s

ProcessNext(s, t) ==
  LET q == SkipStale(s.queue[t])
  IN IF q = <<>>
     THEN CleanupThread([s EXCEPT !.queue[t] = <<>>], t)
     ELSE [s EXCEPT !.queue[t]    = Tail(q),
                    !.processing  = @ \cup {t},
                    !.activeCount = @ + 1,
                    !.handling    = @ \cup {Head(q)}]

(* Bugs: the gate lets one thread too many in; the processing flag is not   *)
(* looked at; a thread that finds no slot is not put in the line.           *)
TryDrainOneMore(s, t) ==
  IF t \in s.processing \/ s.queue[t] = <<>> \/ s.activeCount > MaxConcurrent
  THEN s ELSE ProcessNext(s, t)

TryDrainBusy(s, t) ==
  IF s.queue[t] = <<>> \/ s.activeCount >= MaxConcurrent
  THEN s ELSE ProcessNext(s, t)

TryDrainNoLine(s, t) ==
  IF t \in s.processing \/ s.queue[t] = <<>> \/ s.activeCount >= MaxConcurrent
  THEN s ELSE ProcessNext(s, t)

TryDrain(s, t) ==
  IF t \in s.processing \/ s.queue[t] = <<>> THEN s
  ELSE IF s.activeCount >= MaxConcurrent
       THEN [s EXCEPT !.pendingThreads =
                        IF Contains(@, t) THEN @ ELSE Append(@, t)]
       ELSE ProcessNext(s, t)

(***************************************************************************)
(* The loop pops waiting threads until it meets one that still has         *)
(* messages and is not being processed; it gives its turn to that one and  *)
(* returns, whether or not the turn took the free slot.                    *)
(***************************************************************************)
Servable(s, t) == t \notin s.processing /\ s.queue[t] # <<>>

(* Bug: the end of a race does not call in the next waiting thread. *)
DrainNothing(s) == s

DrainPendingThread(s) ==
  LET next == SelectInSeq(s.pendingThreads, LAMBDA t : Servable(s, t))
  IN IF s.activeCount >= MaxConcurrent THEN s
     ELSE IF next = 0 THEN [s EXCEPT !.pendingThreads = <<>>]
     ELSE ProcessNext([s EXCEPT !.pendingThreads =
                                   SubSeq(@, next + 1, Len(@))],
                      s.pendingThreads[next])

-----------------------------------------------------------------------------
Init ==
  /\ sink = EmptySink
  /\ orphaned = {}
  /\ sent = 0
  /\ horizon = 0

(* Bug: room is made while there still is some. *)
MakeRoomEarly(q) == IF Len(q) >= MaxPerThread - 1 /\ q # <<>> THEN Tail(q) ELSE q

(* enqueue: the oldest waiting message makes room for the new one. *)
MakeRoom(q) == IF Len(q) >= MaxPerThread THEN Tail(q) ELSE q

Enqueue(t) ==
  LET m == [th |-> t, id |-> sent + 1]
      s == [sink EXCEPT !.threads  = @ \cup {t},
                        !.queue[t] = Append(MakeRoom(@), m)]
  IN /\ sent < MaxMessages
     /\ sent' = sent + 1
     /\ sink' = TryDrain(s, t)
     /\ UNCHANGED <<orphaned, horizon>>

(* Bug: the slot is given back twice. *)
ReleaseTwice(s, m) ==
  [s EXCEPT !.processing  = @ \ {m.th},
            !.activeCount = @ - 2,
            !.handling    = @ \ {m}]

(* The continuation of the race: the slot is given back, then passed on. *)
Release(s, m) ==
  [s EXCEPT !.processing  = @ \ {m.th},
            !.activeCount = @ - 1,
            !.handling    = @ \ {m}]

(* Bug: the thread stands behind those that wait before it goes on. *)
ContinueInLine(s, t) ==
  IF s.queue[t] # <<>>
  THEN [s EXCEPT !.pendingThreads = IF Contains(@, t) THEN @ ELSE Append(@, t)]
  ELSE CleanupThread(s, t)

ContinueThread(s, t) ==
  IF s.queue[t] # <<>> THEN TryDrain(s, t) ELSE CleanupThread(s, t)

EndRace(m) ==
  /\ m \in sink.handling
  /\ sink' = DrainPendingThread(ContinueThread(Release(sink, m), m.th))
  /\ UNCHANGED <<sent, horizon>>

(* The handler resolves or rejects before its deadline. *)
HandlerSettles(m) ==
  /\ EndRace(m)
  /\ UNCHANGED orphaned

(* The deadline passes first: the handler is abandoned but not stopped. *)
DeadlinePasses(m) ==
  /\ EndRace(m)
  /\ orphaned' = orphaned \cup {m}

(* An abandoned handler comes to its end; nobody waits for it any more. *)
OrphanSettles(m) ==
  /\ m \in orphaned
  /\ orphaned' = orphaned \ {m}
  /\ UNCHANGED <<sink, sent, horizon>>

(* Time passes and some more of the messages enqueued so far are too old. *)
MessagesAge(h) ==
  /\ horizon < h
  /\ h <= sent
  /\ horizon' = h
  /\ UNCHANGED <<sink, orphaned, sent>>

Next ==
  \/ \E t \in Thread : Enqueue(t)
  \/ \E m \in sink.handling : HandlerSettles(m)
  \/ \E m \in sink.handling : DeadlinePasses(m)
  \/ \E m \in orphaned : OrphanSettles(m)
  \/ \E h \in 1..MaxHorizon : MessagesAge(h)

Spec == Init /\ [][Next]_vars

(***************************************************************************)
(* Every open race ends: its timer fires if the handler does not settle.   *)
(* Nothing is assumed of handlers, of senders or of the clock.             *)
(***************************************************************************)
RaceEnds(t) ==
  \E m \in sink.handling : m.th = t /\ (HandlerSettles(m) \/ DeadlinePasses(m))

FairSpec == Spec /\ \A t \in Thread : WF_vars(RaceEnds(t))

-----------------------------------------------------------------------------
(* Every field keeps its type; in particular activeCount never goes below   *)
(* zero, and only messages that were enqueued can be too old.               *)
TypeOK ==
  /\ sink \in SinkType
  /\ orphaned \subseteq Message
  /\ sent \in 0..MaxMessages
  /\ horizon \in 0..sent

(* "Global concurrency limit": activeCount, which the code only increments  *)
(* and decrements, is the number of races that are open, and that is never  *)
(* more than maxConcurrent.  A slot is neither leaked nor freed twice.      *)
SlotsAccounted ==
  /\ sink.activeCount = Cardinality(sink.handling)
  /\ sink.activeCount <= MaxConcurrent

(* "Per-thread serial processing": a thread never has two open races, and   *)
(* its processing flag says whether it has one.                             *)
SerialPerThread ==
  /\ \A m1, m2 \in sink.handling : m1.th = m2.th => m1 = m2
  /\ sink.processing = {m.th : m \in sink.handling}

(* A handler that outlives its deadline overlaps with later handlers of its *)
(* thread, but only such a one does: the newest handler of a thread may be  *)
(* waited for, all its older ones have been abandoned.                      *)
OverlapOnlyAbandoned ==
  \A m1, m2 \in sink.handling \cup orphaned :
    m1.th = m2.th /\ m1.id < m2.id => m1 \in orphaned \ sink.handling

(* No thread is forgotten while it has messages: either the end of its own  *)
(* race will continue it, or it stands in the line for a slot, once.        *)
WaitersRegistered ==
  /\ \A t \in Thread : sink.queue[t] # <<>> =>
       t \in sink.processing \/ Contains(sink.pendingThreads, t)
  /\ IsInjective(sink.pendingThreads)

(* The Map holds exactly the threads with something to do: it does not grow *)
(* with every conversation ever seen, and no busy thread loses its entry.   *)
IdleThreadsForgotten ==
  sink.threads = {t \in Thread : sink.queue[t] # <<>> \/ t \in sink.processing}

(* A message leaves its queue without being handled only if it is too old   *)
(* or if it is the oldest one of a full queue that makes room.              *)
NoSilentLoss ==
  [][\A t \in Thread :
       \A m \in ToSet(sink.queue[t]) \ ToSet(sink'.queue[t]) :
          \/ m \in sink'.handling
          \/ Stale(m)
          \/ Len(sink.queue[t]) = MaxPerThread /\ m = Head(sink.queue[t])]_vars

(* A message whose handling starts is not stale, and no older message of    *)
(* its thread is left behind it: messages of a thread are never reordered.  *)
StartsFreshAndInOrder ==
  [][\A m \in sink'.handling \ sink.handling :
       /\ ~Stale(m)
       /\ \A k \in ToSet(sink'.queue[m.th]) : m.id < k.id]_vars

(* "Unblock a pending thread": as long as a slot is free, no thread that    *)
(* has messages stands in the line.  The code guarantees it only while no   *)
(* message goes stale (MaxHorizon = 0).                                     *)
WorkConserving ==
  sink.activeCount < MaxConcurrent =>
    \A t \in Thread : ~(Servable(sink, t) /\ Contains(sink.pendingThreads, t))

(* From some point on nothing is enqueued any more.  It is a premise of the  *)
(* next property, not a bound only: the end of a race continues its own     *)
(* thread before it looks at the line, so that a thread to which messages   *)
(* keep coming holds its slot, and threads in the line may starve.          *)
ArrivalsCease == <>[][sent' = sent]_sent

(* Once arrivals cease, and while no message goes stale, every message that *)
(* waits is taken from its queue in the end, even if every handler hangs    *)
(* and only deadlines pass: the backlog of all threads is worked off.       *)
EveryQueueDrains ==
  ArrivalsCease => \A t \in Thread : sink.queue[t] # <<>> ~> sink.queue[t] = <<>>

-----------------------------------------------------------------------------
(* What the queue promises its caller, see ThreadSink: the conversations    *)
(* whose messages wait in queue and are handled.                            *)
Sink == INSTANCE ThreadSink WITH
  Slots    <- MaxConcurrent,
  Room     <- MaxPerThread,
  waiting  <- sink.queue,
  running  <- sink.handling,
  accepted <- sent

(* The fields, the line of waiting threads and the counter implement that:  *)
(* every call and every end of a race serves conversations as promised,     *)
(* continues the one that just ended first and at most one other, and       *)
(* serves one to which a message comes at once if it is idle and a slot is  *)
(* free.                                                                    *)
ImplementsSink == Sink!Spec
=============================================================================
