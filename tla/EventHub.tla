------------------------------ MODULE EventHub ------------------------------
(***************************************************************************)
(* GatewayEventHub (src/src/gateway/events.ts): the inbound messages that  *)
(* the policy lets through are numbered, kept in a ring buffer of          *)
(* replayLimit records and written to every open event stream; a stream    *)
(* that is opened with a Last-Event-ID first gets the buffered records     *)
(* after that one.  Streams also carry heartbeats, which are not buffered. *)
(*                                                                         *)
(* The hub is in memory: when the gateway restarts it starts again from    *)
(* nothing.  EventStream composes it with its clients.                     *)
(***************************************************************************)
EXTENDS Naturals, Sequences, FiniteSets, SequencesExt

CONSTANTS Client,      \* the consumers of GET /events
          ReplayLimit, \* options.replayLimit
          MaxMessages  \* bound: how many messages are ever published

ASSUME HubAssumption ==
  /\ ReplayLimit \in Nat \ {0}
  /\ MaxMessages \in Nat

VARIABLES
  nextSequence, \* the sequence number of the next record
  records,      \* the ring buffer, oldest record first
  published,    \* how many messages were ever published, over all restarts
  stream,       \* per client: "closed", "open", or "broken" on its way
  wire          \* per client: written to its stream and not read yet

hubVars == <<nextSequence, records, published, stream, wire>>

(***************************************************************************)
(* A record is known by its id, "<sequence>:<messageId>" for a message and *)
(* "heartbeat-<time>" for a heartbeat.  Messages are numbered in the order *)
(* of their publication; a heartbeat's id is never the id of a message.    *)
(***************************************************************************)
Record(n, m) == [event |-> "message.created", id |-> <<n, m>>, msg |-> m]
Heartbeat    == [event |-> "heartbeat", id |-> <<0, 0>>, msg |-> 0]
NoId         == <<>>

MessageRecord == {Record(n, m) : n, m \in 1..MaxMessages}

HubTypeOK ==
  /\ nextSequence \in 1..(MaxMessages + 1)
  /\ records \in Seq(MessageRecord) /\ Len(records) <= ReplayLimit
  /\ published \in 0..MaxMessages
  /\ stream \in [Client -> {"closed", "open", "broken"}]
  /\ wire \in [Client -> Seq(MessageRecord \cup {Heartbeat})]

HubInit ==
  /\ nextSequence = 1
  /\ records = <<>>
  /\ published = 0
  /\ stream = [c \in Client |-> "closed"]
  /\ wire = [c \in Client |-> <<>>]

-----------------------------------------------------------------------------
(* Bug: the buffer is trimmed at the wrong end.                             *)
TrimNewest(rs) == SubSeq(rs, 1, IF Len(rs) > ReplayLimit THEN ReplayLimit ELSE Len(rs))

(* The newest ReplayLimit records.                                          *)
Trim(rs) ==
  IF Len(rs) > ReplayLimit
  THEN SubSeq(rs, Len(rs) - ReplayLimit + 1, Len(rs))
  ELSE rs

Buffered(id) == \E r \in ToSet(records) : r.id = id

(* Bug: the record that the client names is sent to it again.               *)
ReplayFrom(id) ==
  IF Buffered(id)
  THEN SubSeq(records, SelectInSeq(records, LAMBDA r : r.id = id), Len(records))
  ELSE <<>>

(* Nothing is replayed to a client whose last id the buffer does not hold.  *)
ReplayAfter(id) ==
  IF Buffered(id)
  THEN SubSeq(records, SelectInSeq(records, LAMBDA r : r.id = id) + 1, Len(records))
  ELSE <<>>

WriteToAll(r) ==
  [c \in Client |-> IF stream[c] = "open" THEN Append(wire[c], r) ELSE wire[c]]

(* Bug: the record is kept for replay but the streams that are open do not  *)
(* get it.                                                                  *)
PublishQuietly(m) ==
  /\ m = published + 1
  /\ published' = m
  /\ nextSequence' = nextSequence + 1
  /\ records' = Trim(Append(records, Record(nextSequence, m)))
  /\ UNCHANGED <<stream, wire>>

PublishMessage(m) ==
  /\ m = published + 1
  /\ published' = m
  /\ nextSequence' = nextSequence + 1
  /\ records' = Trim(Append(records, Record(nextSequence, m)))
  /\ wire' = WriteToAll(Record(nextSequence, m))
  /\ UNCHANGED stream

Subscribe(c, lastEventId) ==
  /\ stream' = [stream EXCEPT ![c] = "open"]
  /\ wire' = [wire EXCEPT ![c] = ReplayAfter(lastEventId)]
  /\ UNCHANGED <<nextSequence, records, published>>

WriteHeartbeat(c) ==
  /\ stream[c] = "open"
  /\ wire' = [wire EXCEPT ![c] = Append(@, Heartbeat)]
  /\ UNCHANGED <<nextSequence, records, published, stream>>

(* The connection breaks: of what was written only the first k records      *)
(* still arrive, and nothing that is written later.                         *)
BreakStream(c, k) ==
  /\ stream[c] = "open"
  /\ stream' = [stream EXCEPT ![c] = "broken"]
  /\ wire' = [wire EXCEPT ![c] = SubSeq(@, 1, k)]
  /\ UNCHANGED <<nextSequence, records, published>>

(* The gateway process ends and a new one starts: every connection breaks,   *)
(* kept[c] of the records that were written to it still arrive.             *)
RestartHub(kept) ==
  /\ \A c \in Client : kept[c] <= Len(wire[c])
  /\ nextSequence' = 1
  /\ records' = <<>>
  /\ stream' = [c \in Client |-> IF stream[c] = "open" THEN "broken" ELSE stream[c]]
  /\ wire' = [c \in Client |->
                IF stream[c] = "open" THEN SubSeq(wire[c], 1, kept[c]) ELSE wire[c]]
  /\ UNCHANGED published
=============================================================================
