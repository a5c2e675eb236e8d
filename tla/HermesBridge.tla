---------------------------- MODULE HermesBridge ----------------------------
(***************************************************************************)
(* Webhooks and the Hermes bridge (src/src/gateway/webhooks.ts,            *)
(* src/src/bridge/hermes): the gateway posts every inbound message to the  *)
(* bridge and waits for ten seconds; the bridge drops repeated messages,   *)
(* runs the Hermes CLI, which may take minutes, hands what it says to the  *)
(* gateway, and only then answers the post.  What it has handed over is    *)
(* out of its reach: the gateway may send it long after the bridge has     *)
(* given it up and reported a failure.                                     *)
(*                                                                         *)
(* A post is known by its number.  Several targets of the dispatcher are   *)
(* independent of each other; this is the post to one, the bridge.         *)
(***************************************************************************)
EXTENDS Naturals, Sequences, FiniteSets, SequencesExt

CONSTANTS Message,     \* messages, and the ids by which the bridge knows them
          Refused,     \* those that the bridge's own lists do not allow
          DedupMax,    \* DEDUP_MAX
          MaxPosts,    \* bound: posts, repeated ones included
          MaxRestarts  \* bound: restarts of the bridge

ASSUME BridgeAssumption ==
  /\ Refused \subseteq Message
  /\ DedupMax \in Nat \ {0}
  /\ MaxPosts \in Nat /\ MaxRestarts \in Nat

Post == 1..MaxPosts

VARIABLES
  posted,   \* the messages posted, in order
  delivery, \* per post: what the gateway knows of it
  request,  \* per post: how far it is at the bridge
  seen,     \* seenMessageIds: the ids in order of insertion, and if they expired
  gateway,  \* per post: what became of its reply at the gateway
  forgot,   \* the posts whose message the bridge no longer knows it has seen
  restarts

vars == <<posted, delivery, request, gateway, seen, forgot, restarts>>

(* What an answered request was answered with; that of a run of Hermes that *)
(* was too long is "overdue" as long as its process is still there.         *)
Positive == {"sentReply", "noReply", "notAllowed", "duplicate"}
Negative == {"failed", "overdue"}
Answered == Positive \cup Negative

Init ==
  /\ posted = <<>>
  /\ delivery = [n \in Post |-> "none"]
  /\ request = [n \in Post |-> "none"]
  /\ gateway = [n \in Post |-> "none"]
  /\ seen = <<>>
  /\ forgot = {}
  /\ restarts = 0

-----------------------------------------------------------------------------
(* The gateway dispatches a message; Zalo may give it the same one again.   *)
Dispatch(m) ==
  /\ Len(posted) < MaxPosts
  /\ posted' = Append(posted, m)
  /\ delivery' = [delivery EXCEPT ![Len(posted) + 1] = "open"]
  /\ request' = [request EXCEPT ![Len(posted) + 1] = "travelling"]
  /\ UNCHANGED <<gateway, seen, forgot, restarts>>

(* The connection is refused, or breaks before the body has arrived.        *)
PostLost(n) ==
  /\ request[n] = "travelling"
  /\ request' = [request EXCEPT ![n] = "lost"]
  /\ delivery' = [delivery EXCEPT ![n] = "failed"]
  /\ UNCHANGED <<posted, gateway, seen, forgot, restarts>>

(* The dispatcher aborts; what has arrived at the bridge goes on there.     *)
DispatchTimesOut(n) ==
  /\ delivery[n] = "open"
  /\ delivery' = [delivery EXCEPT ![n] = "failed"]
  /\ UNCHANGED <<posted, request, gateway, seen, forgot, restarts>>

(* Bug: whatever the bridge answers counts as delivered.                    *)
AnswerCounts(n) ==
  /\ delivery[n] = "open"
  /\ request[n] \in Answered
  /\ delivery' = [delivery EXCEPT ![n] = "ok"]
  /\ UNCHANGED <<posted, request, gateway, seen, forgot, restarts>>

AnswerArrives(n) ==
  /\ delivery[n] = "open"
  /\ request[n] \in Answered
  /\ delivery' = [delivery EXCEPT ![n] = IF request[n] \in Positive THEN "ok" ELSE "failed"]
  /\ UNCHANGED <<posted, request, gateway, seen, forgot, restarts>>

-----------------------------------------------------------------------------
Known(m) == \E i \in DOMAIN seen : seen[i].id = m

(* Ids are inserted in the order of time, so that the expired ones come     *)
(* first.                                                                   *)
Fresh ==
  SubSeq(seen, Cardinality({i \in DOMAIN seen : seen[i].expired}) + 1, Len(seen))

(* What is left of seen when there must be room for one more.               *)
Remembered ==
  IF Len(seen) < DedupMax THEN seen
  ELSE IF Len(Fresh) < DedupMax THEN Fresh ELSE Tail(Fresh)

(* The posts for messages that are in seen but not in what is left of it.   *)
PostsOf(entries) == {n \in DOMAIN posted : \E i \in DOMAIN entries : entries[i].id = posted[n]}

Taken == {n \in Post : request[n] \notin {"none", "travelling", "lost", "duplicate"}}

Keep(entries) ==
  /\ seen' = entries
  /\ forgot' = forgot \cup ((PostsOf(seen) \cap Taken) \ PostsOf(entries))

(* Bug: an id is remembered only when its message was not allowed.          *)
MarkRefused(m) ==
  IF m \in Refused THEN Keep(Append(Remembered, [id |-> m, expired |-> FALSE]))
                   ELSE UNCHANGED <<seen, forgot>>

Mark(m) == Keep(Append(Remembered, [id |-> m, expired |-> FALSE]))

(* The body has arrived: process, up to the run of Hermes.                  *)
Receive(n) ==
  /\ request[n] = "travelling"
  /\ \/ /\ Known(posted[n])
        /\ request' = [request EXCEPT ![n] = "duplicate"]
        /\ UNCHANGED <<seen, forgot>>
     \/ /\ ~Known(posted[n])
        /\ Mark(posted[n])
        /\ request' = [request EXCEPT ![n] = IF posted[n] \in Refused THEN "notAllowed" ELSE "running"]
  /\ UNCHANGED <<posted, delivery, gateway, restarts>>

At(n, from, to) ==
  /\ request[n] = from
  /\ request' = [request EXCEPT ![n] = to]
  /\ UNCHANGED <<posted, delivery, seen, forgot, restarts>>

(* Hermes has something to say, and it is handed to the gateway.            *)
HermesReplies(n) ==
  /\ At(n, "running", "sending")
  /\ gateway' = [gateway EXCEPT ![n] = "asked"]

(* It exits with success and says nothing.                                  *)
HermesSilent(n) == At(n, "running", "noReply") /\ UNCHANGED gateway

(* It cannot be started, or exits with an error.                            *)
HermesFails(n) == At(n, "running", "failed") /\ UNCHANGED gateway

(* Bug: the process is told to end, but the promise waits for it to.        *)
HermesTimesOutUnresolved(n) == request[n] = "running" /\ UNCHANGED vars

(* It is sent SIGTERM, and the request is answered at once.                 *)
HermesTimesOut(n) == At(n, "running", "overdue") /\ UNCHANGED gateway

(* Bug: what the process still says is sent.                                *)
OverdueSends(n) ==
  /\ At(n, "overdue", "failed")
  /\ gateway' = [gateway EXCEPT ![n] = "asked"]

(* The process ends, whatever it says: the promise is resolved already.     *)
OverdueEnds(n) == At(n, "overdue", "failed") /\ UNCHANGED gateway

(* The gateway sends the reply to Zalo, or does not: its policy refuses it, *)
(* or Zalo does.  Nobody asks whether the bridge still waits.               *)
Gateway(n, outcome) ==
  /\ gateway[n] = "asked"
  /\ gateway' = [gateway EXCEPT ![n] = outcome]
  /\ UNCHANGED <<posted, delivery, request, seen, forgot, restarts>>

GatewaySends(n) == Gateway(n, "sent")
GatewayRefuses(n) == Gateway(n, "refused")

ReplyConfirmed(n) ==
  /\ gateway[n] = "sent" /\ At(n, "sending", "sentReply") /\ UNCHANGED gateway

ReplyRefused(n) ==
  /\ gateway[n] = "refused" /\ At(n, "sending", "failed") /\ UNCHANGED gateway

(* Bug: a reply whose answer does not come is sent once more.               *)
SendAgain(n) ==
  /\ At(n, "sending", "sending")
  /\ gateway' = [gateway EXCEPT ![n] = "asked"]

(* fetch cannot connect, breaks off or waits no longer: the bridge takes    *)
(* the reply for not sent, whether it was, will be, or never arrived.       *)
ReplyGivenUp(n) == At(n, "sending", "failed") /\ UNCHANGED gateway

(* Ten minutes pass for the oldest entries.                                 *)
EntriesExpire ==
  /\ \E k \in DOMAIN seen :
       /\ ~seen[k].expired
       /\ seen' = [i \in DOMAIN seen |-> IF i <= k THEN [seen[i] EXCEPT !.expired = TRUE] ELSE seen[i]]
  /\ UNCHANGED <<posted, delivery, request, gateway, forgot, restarts>>

(* The bridge ends and starts anew; what it handed over stays under way.    *)
BridgeRestarts ==
  /\ restarts < MaxRestarts
  /\ restarts' = restarts + 1
  /\ Keep(<<>>)
  /\ request' = [n \in Post |->
       IF request[n] \in {"running", "sending", "overdue"} THEN "failed" ELSE request[n]]
  /\ UNCHANGED <<posted, delivery, gateway>>

Next ==
  \/ \E m \in Message : Dispatch(m)
  \/ \E n \in Post :
       \/ PostLost(n) \/ DispatchTimesOut(n) \/ AnswerArrives(n)
       \/ Receive(n)
       \/ HermesReplies(n) \/ HermesSilent(n) \/ HermesFails(n)
       \/ HermesTimesOut(n) \/ OverdueEnds(n)
       \/ GatewaySends(n) \/ GatewayRefuses(n)
       \/ ReplyConfirmed(n) \/ ReplyRefused(n) \/ ReplyGivenUp(n)
  \/ EntriesExpire
  \/ BridgeRestarts

Spec == Init /\ [][Next]_vars

(***************************************************************************)
(* A post arrives or is lost; both timers run out; fetch gives a request   *)
(* to send up if it is not answered.  Nothing is assumed of the gateway.   *)
(***************************************************************************)
FairSpec ==
  /\ Spec
  /\ \A n \in Post :
       /\ WF_vars(PostLost(n) \/ Receive(n))
       /\ WF_vars(DispatchTimesOut(n))
       /\ WF_vars(HermesTimesOut(n))
       /\ WF_vars(ReplyConfirmed(n) \/ ReplyRefused(n) \/ ReplyGivenUp(n))

-----------------------------------------------------------------------------
(* Every variable has its type, and the bridge remembers no more ids than   *)
(* it has room for and none twice.                                          *)
TypeOK ==
  /\ posted \in Seq(Message) /\ Len(posted) <= MaxPosts
  /\ delivery \in [Post -> {"none", "open", "ok", "failed"}]
  /\ request \in [Post ->
       {"none", "travelling", "lost", "running", "sending"} \cup Answered]
  /\ gateway \in [Post -> {"none", "asked", "sent", "refused"}]
  /\ seen \in Seq([id : Message, expired : BOOLEAN])
  /\ Len(seen) <= DedupMax
  /\ \A i, j \in DOMAIN seen : seen[i].id = seen[j].id => i = j
  /\ forgot \subseteq Post
  /\ restarts \in 0..MaxRestarts

(* The posts whose reply was handed to the gateway, and those it has sent.  *)
Handed == {n \in Post : gateway[n] # "none"}
Replied == {n \in Post : gateway[n] = "sent"}

(* As long as the bridge remembers a message, Hermes runs for it once and   *)
(* one reply to it is under way or sent, although posts for it may arrive   *)
(* while the first one is still being dealt with.                           *)
HandledOnceWhileKnown ==
  \A a, b \in (Taken \cup Handed) \ forgot : posted[a] = posted[b] => a = b

(* What the gateway counts as delivered was answered with a reply in Zalo,  *)
(* or needed none: not allowed, nothing to say, or a repetition of a        *)
(* message that the bridge had taken before.  (The converse fails: what it  *)
(* counts as failed may have been replied to, or may still be.)             *)
OkWasEarned ==
  \A n \in Post : delivery[n] = "ok" =>
    \/ n \in Replied
    \/ request[n] \in {"noReply", "notAllowed"}
    \/ request[n] = "duplicate" /\ \E k \in Taken : posted[k] = posted[n]

(* An answered request stays answered, and the bridge hands over no reply   *)
(* for it any more: what Hermes still says after its time was up is not     *)
(* sent.  What was handed over before the answer may still reach Zalo.      *)
AnswerIsFinal ==
  [][\A n \in Post : request[n] \in Answered =>
       request'[n] \in Answered /\ (n \in Handed' => n \in Handed)]_vars

(* What the bridge promises those who write, see ReplyOnce.  A post is       *)
(* worked on from the moment it is taken to that of its answer; a process   *)
(* that outlives its deadline is no work any more.                          *)
StageOf(r) ==
  IF r \in {"none", "travelling", "lost"} THEN "idle"
  ELSE IF r \in {"running", "sending"} THEN "working" ELSE "over"

Stages == [n \in Post |-> StageOf(request[n])]
SeenIds == [i \in DOMAIN seen |-> seen[i].id]

Promise == INSTANCE ReplyOnce WITH
  Room <- DedupMax, memory <- SeenIds, stage <- Stages, reply <- gateway

(* Whatever posts repeat and overlap, time out or lose their answers, and   *)
(* however often the bridge restarts, each step is one of that promise.     *)
ImplementsReplyOnce == Promise!Spec

(* Every post that sets out is answered or lost in the end, even if Hermes  *)
(* hangs, and the gateway's wait for it ends.                               *)
EveryPostEnds ==
  \A n \in Post :
    delivery[n] = "open" ~> delivery[n] # "open" /\ request[n] \in Answered \cup {"lost"}
=============================================================================
