----------------------------- MODULE ThreadSink -----------------------------
(***************************************************************************)
(* What ThreadMessageQueue promises its caller, free of how it goes about  *)
(* it (the head comment of channel/thread-queue.ts): each conversation is  *)
(* a line of messages of which the oldest fresh one is handled next, one   *)
(* conversation has one message handled at a time, and at most Slots of    *)
(* them are.  There is no Map, no counter, no flag and no line of waiting  *)
(* threads here.  ThreadQueue implements it.                               *)
(***************************************************************************)
EXTENDS Naturals, Sequences, FiniteSets, SequencesExt

CONSTANTS Thread,  \* conversations
          Slots,   \* how many messages may be handled at once
          Room     \* how many messages of one conversation may wait

VARIABLES
  waiting,   \* per conversation, the messages that wait
  running,   \* the messages being handled
  accepted,  \* how many messages have come
  horizon    \* the last message that is too old to be handled

vars == <<waiting, running, accepted, horizon>>

Init ==
  /\ waiting = [t \in Thread |-> <<>>]
  /\ running = {}
  /\ accepted = 0
  /\ horizon = 0

Fresh(q) ==
  LET first == SelectInSeq(q, LAMBDA m : ~(m.id <= horizon))
  IN IF first = 0 THEN <<>> ELSE SubSeq(q, first, Len(q))

Busy(t, r) == \E m \in r : m.th = t

(* A conversation is served: its stale messages go, and the oldest fresh    *)
(* one, if there is any, is handled.                                        *)
Served(t, w) ==
  LET q == Fresh(w[t])
  IN IF q = <<>> THEN waiting'[t] = <<>>
     ELSE waiting'[t] = Tail(q) /\ Head(q) \in running'

(* From the messages w that wait and r that are handled, those of the       *)
(* conversations T that are idle may be served, and nothing else happens.   *)
Serve(w, r, T) ==
  /\ r \subseteq running'
  /\ \A m \in running' \ r :
       m.th \in T /\ Fresh(w[m.th]) # <<>> /\ m = Head(Fresh(w[m.th]))
  /\ \A t \in Thread :
       \/ waiting'[t] = w[t] /\ \A m \in running' \ r : m.th # t
       \/ t \in T /\ ~Busy(t, r) /\ Served(t, w)

(* The oldest message makes room for the one that comes, which is handled   *)
(* at once, or what waits before it, if its conversation is idle and there  *)
(* is a free slot.                                                          *)
Accept(t) ==
  LET m == [th |-> t, id |-> accepted + 1]
      w == [waiting EXCEPT ![t] =
              Append(IF Len(@) >= Room THEN Tail(@) ELSE @, m)]
  IN /\ accepted' = accepted + 1
     /\ Serve(w, running, {t})
     /\ ~Busy(t, running) /\ Cardinality(running) < Slots => Served(t, w)
     /\ UNCHANGED horizon

(* The conversation of a message that is done with has the first claim to   *)
(* the slot, and at most one other is served.                               *)
Finish(m) ==
  /\ \E t \in Thread : Serve(waiting, running \ {m}, {m.th, t})
  /\ waiting[m.th] # <<>> => Served(m.th, waiting)
  /\ UNCHANGED <<accepted, horizon>>

Age ==
  /\ horizon' > horizon
  /\ horizon' <= accepted
  /\ UNCHANGED <<waiting, running, accepted>>

Next ==
  /\ \/ \E t \in Thread : Accept(t)
     \/ \E m \in running : Finish(m)
     \/ Age
  /\ Cardinality(running') <= Slots

Spec == Init /\ [][Next]_vars
=============================================================================
