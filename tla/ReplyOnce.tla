------------------------------ MODULE ReplyOnce ------------------------------
(***************************************************************************)
(* What the Hermes bridge promises those who write to the account, free of *)
(* processes, deadlines, connections and answers: of the posts that come,  *)
(* each is taken up at most once, a post of a message that is remembered   *)
(* is not taken up at all, and for one that was taken up at most one reply *)
(* is handed to the gateway, while it is worked on and never afterwards.   *)
(* When the gateway sends it, before the work is over or after, is not     *)
(* promised.  HermesBridge implements it.                                  *)
(***************************************************************************)
EXTENDS Naturals, Sequences

CONSTANTS Message,
          Post,   \* the numbers of the posts that may come
          Room    \* how many messages are remembered

VARIABLES
  posted,   \* the messages posted, in order
  memory,   \* the messages remembered, oldest first
  stage,    \* per post: "idle", "working" or "over"
  reply     \* per post: "none", or what became of its reply at the gateway

vars == <<posted, memory, stage, reply>>

Init ==
  /\ posted = <<>>
  /\ memory = <<>>
  /\ stage = [n \in Post |-> "idle"]
  /\ reply = [n \in Post |-> "none"]

Arrive(m) ==
  /\ posted' = Append(posted, m)
  /\ DOMAIN posted' \subseteq Post
  /\ UNCHANGED <<memory, stage, reply>>

Idle(n) == n \in DOMAIN posted /\ stage[n] = "idle"
Remembered(m) == \E i \in DOMAIN memory : memory[i] = m

Moves(n, stages) == \E s \in stages : stage' = [stage EXCEPT ![n] = s]

(* Only a full memory forgets, and the oldest messages first.               *)
Take(n) ==
  /\ Idle(n) /\ ~Remembered(posted[n])
  /\ Moves(n, {"working", "over"})
  /\ \E k \in 0..Len(memory) :
       /\ k > 0 => Len(memory) = Room
       /\ memory' = Append(SubSeq(memory, k + 1, Len(memory)), posted[n])
  /\ Len(memory') <= Room
  /\ UNCHANGED <<posted, reply>>

Drop(n) ==
  /\ Idle(n) /\ Remembered(posted[n])
  /\ Moves(n, {"over"})
  /\ UNCHANGED <<posted, memory, reply>>

HandOver(n) ==
  /\ stage[n] = "working" /\ reply[n] = "none"
  /\ reply' = [reply EXCEPT ![n] = "asked"]
  /\ UNCHANGED <<posted, memory, stage>>

(* The gateway sends the reply or not, at any time after.                   *)
Settle(n) ==
  /\ reply[n] = "asked"
  /\ \E outcome \in {"sent", "refused"} : reply' = [reply EXCEPT ![n] = outcome]
  /\ UNCHANGED <<posted, memory, stage>>

(* There is no reply, or it is known or believed what became of it.         *)
Close(n) ==
  /\ stage[n] = "working"
  /\ Moves(n, {"over"})
  /\ UNCHANGED <<posted, memory, reply>>

(* The memory and what is being worked on are lost, but no reply is that    *)
(* was handed over.                                                         *)
Restart ==
  /\ memory' = <<>>
  /\ stage' = [n \in Post |-> IF stage[n] = "idle" THEN "idle" ELSE "over"]
  /\ UNCHANGED <<posted, reply>>

Next ==
  \/ \E m \in Message : Arrive(m)
  \/ \E n \in Post : Take(n) \/ Drop(n) \/ HandOver(n) \/ Settle(n) \/ Close(n)
  \/ Restart

Spec == Init /\ [][Next]_vars
=============================================================================
