------------------------------ MODULE Delivery ------------------------------
(***************************************************************************)
(* What a consumer of GET /events gets from the gateway, free of how it    *)
(* comes to it: messages are published one after another, and each client  *)
(* handles them one at a time and in that order, leaving out only such as  *)
(* nobody promised it.  There are no connections, ring buffer, sequence    *)
(* numbers, resume ids or duplicates here.  EventStream implements it.     *)
(***************************************************************************)
EXTENDS Naturals, Sequences, SequencesExt

CONSTANT Client  \* the consumers of GET /events

VARIABLES
  published,  \* how many messages were published: they are numbered
  busy,       \* per client, the message it is handling, 0 if none
  handled,    \* per client, the messages it was done with, in order
  excused     \* per client, the messages that nobody promised it

vars == <<published, busy, handled, excused>>

Init ==
  /\ published = 0
  /\ busy = [c \in Client |-> 0]
  /\ handled = [c \in Client |-> <<>>]
  /\ excused = [c \in Client |-> {}]

Publish ==
  /\ published' = published + 1
  /\ UNCHANGED <<busy, handled, excused>>

(* A message newer than all before it, with none missing in between that    *)
(* was promised.                                                            *)
Begin(c, m) ==
  /\ busy[c] = 0
  /\ \A k \in ToSet(handled[c]) : k < m
  /\ 1..(m - 1) \subseteq ToSet(handled[c]) \cup excused[c]
  /\ busy' = [busy EXCEPT ![c] = m]
  /\ UNCHANGED <<published, handled, excused>>

Finish(c) ==
  /\ busy[c] # 0
  /\ handled' = [handled EXCEPT ![c] = Append(@, busy[c])]
  /\ busy' = [busy EXCEPT ![c] = 0]
  /\ UNCHANGED <<published, excused>>

(* Handling fails or is cancelled: the message is not brought again.        *)
GiveUp(c) ==
  /\ busy[c] # 0
  /\ excused' = [excused EXCEPT ![c] = @ \cup {busy[c]}]
  /\ busy' = [busy EXCEPT ![c] = 0]
  /\ UNCHANGED <<published, handled>>

(* The client has lost track: it is promised only what comes from now on.   *)
StartOver(c) ==
  /\ busy[c] = 0
  /\ excused' = [excused EXCEPT ![c] = 1..published]
  /\ UNCHANGED <<published, busy, handled>>

Next ==
  \/ Publish
  \/ \E c \in Client : \/ \E m \in 1..published : Begin(c, m)
                       \/ Finish(c)
                       \/ GiveUp(c)
                       \/ StartOver(c)

Spec == Init /\ [][Next]_vars
=============================================================================
