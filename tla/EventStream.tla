----------------------------- MODULE EventStream -----------------------------
(***************************************************************************)
(* The hub of the gateway together with its clients: Hermes platform       *)
(* adapters (src/hermes-plugin/zalo_platform/adapter.py), each of which    *)
(* reads its event stream one record at a time, awaits Hermes for every    *)
(* new message before it reads on, and reconnects with the id of the last  *)
(* record that it read when the stream ends.                               *)
(*                                                                         *)
(* Streams break, losing what is on its way; the gateway and Hermes        *)
(* restart.                                                                *)
(***************************************************************************)
EXTENDS EventHub

CONSTANTS SeenLimit,     \* how many keys _seen_messages may hold unpurged
          MaxHeartbeats, \* bound: heartbeats ever written
          MaxBreaks,     \* bound: broken connections, failures of Hermes, stops
          MaxRestarts    \* bound: restarts of the gateway

ASSUME StreamAssumption ==
  SeenLimit \in Nat /\ MaxHeartbeats \in Nat /\ MaxBreaks \in Nat /\ MaxRestarts \in Nat

VARIABLES
  lastEventId, \* per client: _last_event_id
  seen,        \* per client: the keys of _seen_messages
  busy,        \* per client: the message Hermes is handling, 0 if none
  handled,     \* per client: the messages Hermes was done with, in order
  excused,     \* per client: messages that nobody promised to deliver
  budget       \* how many heartbeats, breaks and restarts are left

clientVars == <<lastEventId, seen, busy, handled, excused>>
vars == <<hubVars, clientVars, budget>>

Init ==
  /\ HubInit
  /\ lastEventId = [c \in Client |-> NoId]
  /\ seen = [c \in Client |-> {}]
  /\ busy = [c \in Client |-> 0]
  /\ handled = [c \in Client |-> <<>>]
  /\ excused = [c \in Client |-> {}]
  /\ budget = [heartbeats |-> MaxHeartbeats, breaks |-> MaxBreaks,
               restarts |-> MaxRestarts]

Spend(what) ==
  /\ budget[what] > 0
  /\ budget' = [budget EXCEPT ![what] = @ - 1]

-----------------------------------------------------------------------------
(* The gateway's side.                                                      *)
Publish ==
  /\ published < MaxMessages
  /\ PublishMessage(published + 1)
  /\ UNCHANGED <<clientVars, budget>>

Beat(c) ==
  /\ WriteHeartbeat(c)
  /\ Spend("heartbeats")
  /\ UNCHANGED clientVars

Break(c) ==
  /\ \E k \in 0..Len(wire[c]) : BreakStream(c, k)
  /\ Spend("breaks")
  /\ UNCHANGED clientVars

GatewayRestarts ==
  /\ \E kept \in [Client -> 0..(MaxMessages + MaxHeartbeats)] : RestartHub(kept)
  /\ Spend("restarts")
  /\ UNCHANGED clientVars

-----------------------------------------------------------------------------
(* The adapter's side.  _consume_event_stream: the previous stream was read *)
(* to its end.  A client whose last id is not buffered any more is promised *)
(* nothing of what was published up to now.                                 *)
Connect(c) ==
  /\ stream[c] # "open" /\ wire[c] = <<>> /\ busy[c] = 0
  /\ Subscribe(c, lastEventId[c])
  /\ excused' = [excused EXCEPT ![c] =
                   IF Buffered(lastEventId[c]) THEN @ ELSE 1..published]
  /\ UNCHANGED <<lastEventId, seen, busy, handled, budget>>

(* _is_duplicate first forgets old keys when there are too many of them.    *)
Purged(keys) == IF Cardinality(keys) > SeenLimit THEN SUBSET keys ELSE {keys}

(* _handle_sse_record: a heartbeat's id is remembered like a message's, and *)
(* a message's id before Hermes has handled the message.                    *)
HandleRecord(c) ==
  LET r == Head(wire[c])
  IN /\ wire[c] # <<>>
     /\ wire' = [wire EXCEPT ![c] = Tail(@)]
     /\ lastEventId' = [lastEventId EXCEPT ![c] = r.id]
     /\ IF r.event = "message.created"
        THEN \E keys \in Purged(seen[c]) :
               /\ seen' = [seen EXCEPT ![c] = keys \cup {r.id}]
               /\ busy' = [busy EXCEPT ![c] = IF r.id \in keys THEN 0 ELSE r.msg]
        ELSE UNCHANGED <<seen, busy>>
     /\ UNCHANGED <<nextSequence, records, published, stream, handled,
                    excused, budget>>

(* Bug: the next record is handled while Hermes is at the last one.         *)
ReadOn(c) == HandleRecord(c)

(* The next record is read when the handling of the last one is awaited.    *)
ReadRecord(c) == busy[c] = 0 /\ HandleRecord(c)

(* Hermes returns from handle_message.                                      *)
HermesDone(c) ==
  /\ busy[c] # 0
  /\ handled' = [handled EXCEPT ![c] = Append(@, busy[c])]
  /\ busy' = [busy EXCEPT ![c] = 0]
  /\ UNCHANGED <<hubVars, lastEventId, seen, excused, budget>>

(* handle_message raises: the stream is given up, and because the message's  *)
(* id was remembered before, the next stream does not bring it again.       *)
HermesFails(c) ==
  /\ busy[c] # 0
  /\ stream' = [stream EXCEPT ![c] = "closed"]
  /\ wire' = [wire EXCEPT ![c] = <<>>]
  /\ busy' = [busy EXCEPT ![c] = 0]
  /\ excused' = [excused EXCEPT ![c] = @ \cup {busy[c]}]
  /\ Spend("breaks")
  /\ UNCHANGED <<nextSequence, records, published, lastEventId, seen, handled>>

(* disconnect cancels the task that reads the stream, along with the        *)
(* handling of a message; the adapter object, and its last id, may live on  *)
(* (connect is called again) or not (Hermes restarts).                      *)
AdapterStops(c, last) ==
  /\ last \in {lastEventId[c], NoId}
  /\ stream' = [stream EXCEPT ![c] = "closed"]
  /\ wire' = [wire EXCEPT ![c] = <<>>]
  /\ lastEventId' = [lastEventId EXCEPT ![c] = last]
  /\ seen' = [seen EXCEPT ![c] = {}]
  /\ busy' = [busy EXCEPT ![c] = 0]
  /\ excused' = [excused EXCEPT ![c] = @ \cup ({busy[c]} \ {0})]
  /\ Spend("breaks")
  /\ UNCHANGED <<nextSequence, records, published, handled>>

Next ==
  \/ Publish
  \/ GatewayRestarts
  \/ \E c \in Client :
       \/ Beat(c)
       \/ Break(c)
       \/ Connect(c)
       \/ ReadRecord(c)
       \/ HermesDone(c)
       \/ HermesFails(c)
       \/ AdapterStops(c, lastEventId[c])
       \/ AdapterStops(c, NoId)

Spec == Init /\ [][Next]_vars

(***************************************************************************)
(* The adapter's loop goes on: it reconnects after its backoff, reads what *)
(* arrives, and Hermes returns from handle_message.                        *)
(***************************************************************************)
FairSpec ==
  /\ Spec
  /\ \A c \in Client : WF_vars(Connect(c)) /\ WF_vars(ReadRecord(c) \/ HermesDone(c))

-----------------------------------------------------------------------------
TypeOK ==
  /\ HubTypeOK
  /\ lastEventId \in [Client -> {NoId, Heartbeat.id} \cup {r.id : r \in MessageRecord}]
  /\ seen \in [Client -> SUBSET {r.id : r \in MessageRecord}]
  /\ busy \in [Client -> 0..MaxMessages]
  /\ handled \in [Client -> Seq(1..MaxMessages)]
  /\ excused \in [Client -> SUBSET (1..MaxMessages)]
  /\ budget \in [heartbeats : 0..MaxHeartbeats, breaks : 0..MaxBreaks,
                 restarts : 0..MaxRestarts]

(* Whatever breaks and restarts, Hermes gets the messages of the account in *)
(* the order in which they came in, and none of them twice, although a      *)
(* replay and the live records meet on one stream and the ids of a gateway  *)
(* that restarted begin again at 1.                                         *)
HandledInOrderOnce ==
  \A c \in Client :
    LET h == IF busy[c] = 0 THEN handled[c] ELSE Append(handled[c], busy[c])
    IN \A i, j \in DOMAIN h : i < j => h[i] < h[j]

(* Up to the last message that it got, Hermes got every message that was    *)
(* published, but for those it was never promised: the ones published when  *)
(* it connected without an id that the gateway still had, and those whose   *)
(* handling failed in Hermes or was cancelled.  What a broken connection    *)
(* loses is not excused: the next one brings it.                            *)
NoUnexplainedGap ==
  \A c \in Client :
    LET got == ToSet(handled[c]) \cup ({busy[c]} \ {0})
    IN \A m \in got : 1..m \subseteq got \cup excused[c]

(* What a client is promised, see Delivery: a step of the hub, of a client  *)
(* or of the network between them, whatever it does to streams, records and *)
(* resume ids, is for every client a step of that promise or none at all.   *)
Feed == INSTANCE Delivery

ImplementsDelivery == Feed!Spec

(* Once heartbeats, breaks and restarts cease, every client ends up         *)
(* connected and has handled every message that was not excused.            *)
EventuallyCaughtUp ==
  \A c \in Client :
    <>[](/\ stream[c] = "open"
         /\ 1..published \subseteq ToSet(handled[c]) \cup excused[c])

(* hermes-plugin/README.md: the plugin "Uses Last-Event-ID to resume        *)
(* records that are still in the gateway ring buffer".  A client that       *)
(* reconnects and has handled a message is sent the buffered records that   *)
(* are newer.  A heartbeat that was read meanwhile defeats this.            *)
ResumesBufferedRecords ==
  [][\A c \in Client :
       stream[c] # "open" /\ stream'[c] = "open" /\ lastEventId[c] # NoId
         => \A r \in ToSet(records) :
              (\E m \in ToSet(handled[c]) : m < r.msg)
                => r \in ToSet(wire'[c]) \/ r.msg \in ToSet(handled[c]) \cup excused[c]]_vars
=============================================================================
