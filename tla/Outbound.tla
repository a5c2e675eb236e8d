------------------------------ MODULE Outbound ------------------------------
(***************************************************************************)
(* Requests to act that reach the gateway (POST /messages/send and         *)
(* /actions/<name>: routes/messages.ts, routes/actions.ts), the adapter's  *)
(* methods they end in (gateway/zalo-client.ts) and, for texts, the names  *)
(* of a group's members that sendMessageZaloClaw looks up and caches.      *)
(* Several requests are under way at once; every await is a step, and what *)
(* is asked of Zalo may fail, or succeed without the answer arriving.      *)
(***************************************************************************)
EXTENDS OutboundText

CONSTANTS User,       \* the members of all groups
          Name,       \* their names: sequences of symbols
          Request,    \* the requests that may come
          Permitted,  \* threads decideOutboundPolicy allows, see PolicyGate
          CacheMax,   \* MEMBER_CACHE_MAX
          MaxCalls, MaxRenames, MaxExpiries  \* bounds

(* A request: an action, the fields it has (a text is empty if it has none),*)
(* the thread and whether that is a group.                                  *)
Field == {"thread", "text", "message", "reaction", "attachment", "link",
          "video", "thumbnail", "voice"}

ASSUME RequestsAreFormed ==
  \A r \in Request : /\ r.given \subseteq Field /\ r.isGroup \in BOOLEAN
                     /\ r.text \in Seq(Symbol)

ASSUME NamesAreTexts == Name \subseteq Seq(Symbol)

ASSUME CacheHoldsSome == CacheMax \in Nat \ {0}

(* What a handler needs, whether it asks the policy, and what it does.      *)
Handler(needs, asks, does) == [needs |-> needs, asks |-> asks, does |-> does]

(* The names in ACTION_REGISTRY, and POST /messages/send as "messages".      *)
TextActions == {"messages", "send", "reply-message"}
MediaActions == {"send-image", "send-file", "send-link", "send-video", "send-voice"}
QueryActions == {"get-thread-info", "get-group-info", "get-group-members",
                 "get-group-members-info", "list-friends", "list-groups"}

Media(a) ==
  CASE a \in {"send-image", "send-file"} -> {"attachment"}
    [] a = "send-link" -> {"link"}
    [] a = "send-video" -> {"video", "thumbnail"}
    [] a = "send-voice" -> {"voice"}

ActionRegistry ==
  [a \in TextActions \cup MediaActions \cup QueryActions
         \cup {"add-reaction", "mark-read"} |->
     CASE a \in TextActions -> Handler({"thread", "text"}, TRUE, "text")
       [] a \in MediaActions -> Handler({"thread"} \cup Media(a), TRUE, "media")
       [] a = "add-reaction" ->
            Handler({"thread", "message", "reaction"}, TRUE, "nothing")
       [] a = "mark-read" -> Handler({"thread"}, TRUE, "nothing")
       [] a \in QueryActions ->
            Handler(IF a \in {"list-friends", "list-groups"} THEN {} ELSE {"thread"},
                    FALSE, "query")]

VARIABLES
  dir,      \* the names the members have now
  cache,    \* groupMemberCache in insertion order, see Entry
  calls,    \* the requests so far, see Call
  renames, expiries

vars == <<dir, cache, calls, renames, expiries>>

Nobody == <<>>
CallType(c) ==
  /\ c.phase \in {"loading", "sending", "query", "answered"}
  /\ c.status \in {0, 200, 400, 403, 404, 500, 502}
  /\ c.accepted \in 0..1

(* Bug: only what sends is looked up in the policy, not its variants.       *)
AsksForSend(r) == r.action \in {"messages", "send", "reply-message"}
Asks(r) == ActionRegistry[r.action].asks

Does(r) == ActionRegistry[r.action].does

(* POST /messages/send refuses a text that the actions would cut.           *)
Malformed(r) ==
  \/ ~(ActionRegistry[r.action].needs \subseteq r.given)
  \/ r.action = "messages" /\ Len(r.text) > MaxText

-----------------------------------------------------------------------------
Entry(g, index) == [group |-> g, index |-> index, fresh |-> TRUE]

CachedFor(g) == cache[SelectInSeq(cache, LAMBDA e : e.group = g)].index

IsCached(g) == \E i \in DOMAIN cache : cache[i].group = g /\ cache[i].fresh

(* A full cache loses its first entry, be it the group's own; an entry too  *)
(* old to be used stays until it is replaced, where it was.                 *)
CacheIndex(g, index) ==
  LET kept == IF Len(cache) >= CacheMax THEN Tail(cache) ELSE cache
      i    == SelectInSeq(kept, LAMBDA e : e.group = g)
  IN IF i # 0 THEN [kept EXCEPT ![i] = Entry(g, index)]
     ELSE Append(kept, Entry(g, index))

Init ==
  /\ dir \in [User -> Name]
  /\ cache = <<>>
  /\ calls = <<>>
  /\ renames = 0
  /\ expiries = 0

Call(r, phase, status, index) ==
  [req |-> r, phase |-> phase, status |-> status, accepted |-> 0,
   index |-> index, content |-> Prepare(r.text, index)]

Add(r, phase, status) == calls' = Append(calls, Call(r, phase, status, Nobody))
Refuse(r, status) == Add(r, "answered", status)

(* The members are looked up for a group's text with an @ in it.            *)
NeedsMembers(r) ==
  /\ Does(r) = "text" /\ r.isGroup
  /\ Contains(Truncate(Redact(r.text)), "@")

(* The handler up to its first await.                                       *)
Receive(r) ==
  /\ CASE r.action \notin DOMAIN ActionRegistry -> Refuse(r, 404)
       [] r.action \in DOMAIN ActionRegistry /\ Malformed(r) -> Refuse(r, 400)
       [] OTHER ->
            IF Asks(r) /\ <<r.thread, r.isGroup>> \notin Permitted THEN Refuse(r, 403)
            ELSE IF Does(r) = "nothing" THEN Refuse(r, 502)
            ELSE IF Does(r) = "query" THEN Add(r, "query", 0)
            ELSE IF ~NeedsMembers(r) THEN Add(r, "sending", 0)
            ELSE IF ~IsCached(r.thread) THEN Add(r, "loading", 0)
            ELSE calls' = Append(calls, Call(r, "sending", 0, CachedFor(r.thread)))
  /\ UNCHANGED <<dir, cache, renames, expiries>>

-----------------------------------------------------------------------------
(* loadGroupMemberIndex: profiles come in batches, then one by one; those   *)
(* that cannot be had are left out, and what was found is cached.           *)
MembersLoaded(c, known) ==
  LET index == [u \in known |-> dir[u]]
      r     == calls[c].req
  IN /\ calls[c].phase = "loading"
     /\ cache' = CacheIndex(r.thread, index)
     /\ calls' = [calls EXCEPT ![c] = Call(r, "sending", 0, index)]
     /\ UNCHANGED <<dir, renames, expiries>>

(* The group's information cannot be had: the text goes as it is.           *)
MembersUnknown(c) ==
  /\ calls[c].phase = "loading"
  /\ calls' = [calls EXCEPT ![c].phase = "sending"]
  /\ UNCHANGED <<dir, cache, renames, expiries>>

(* Five minutes pass.                                                       *)
CacheExpires(i) ==
  /\ cache[i].fresh
  /\ expiries < MaxExpiries
  /\ expiries' = expiries + 1
  /\ cache' = [cache EXCEPT ![i].fresh = FALSE]
  /\ UNCHANGED <<dir, calls, renames>>

Rename(u, name) ==
  /\ dir[u] # name
  /\ renames < MaxRenames
  /\ renames' = renames + 1
  /\ dir' = [dir EXCEPT ![u] = name]
  /\ UNCHANGED <<cache, calls, expiries>>

-----------------------------------------------------------------------------
(* A call once it has its answer.                                            *)
Settled(call, status, accepted) ==
  [call EXCEPT !.phase = "answered", !.status = status, !.accepted = @ + accepted]

Answer(c, status, accepted) ==
  /\ calls' = [calls EXCEPT ![c] = Settled(@, status, accepted)]
  /\ UNCHANGED <<dir, cache, renames, expiries>>

(* sendMessageZaloClaw catches what the API throws and says ok: false; the  *)
(* other methods let it through to the server's own handler.                *)
FailureStatus(r) == IF Does(r) = "text" THEN 502 ELSE 500

ZaloAnswers(c) == calls[c].phase = "sending" /\ Answer(c, 200, 1)

(* Zalo refuses, or accepts and its answer is lost.                         *)
ZaloFails(c, accepted) ==
  /\ calls[c].phase = "sending"
  /\ Answer(c, FailureStatus(calls[c].req), accepted)

(* An unknown group is an answer of the adapter, a failure one of the API;  *)
(* nothing is asked about a direct thread, whatever the action's name.      *)
QueryEnds(c, status) ==
  LET isInfo  == calls[c].req.action \in {"get-thread-info", "get-group-info"}
      isGroup == calls[c].req.isGroup
  IN
  /\ calls[c].phase = "query"
  /\ status = 502 => isInfo /\ isGroup
  /\ status = 500 => ~isInfo \/ isGroup
  /\ Answer(c, status, 0)

Next ==
  \/ Len(calls) < MaxCalls /\ \E r \in Request : Receive(r)
  \/ \E c \in DOMAIN calls :
       \/ \E known \in SUBSET User : MembersLoaded(c, known)
       \/ MembersUnknown(c)
       \/ ZaloAnswers(c)
       \/ \E accepted \in 0..1 : ZaloFails(c, accepted)
       \/ \E status \in {200, 500, 502} : QueryEnds(c, status)
  \/ \E i \in DOMAIN cache : CacheExpires(i)
  \/ \E u \in User, name \in Name : Rename(u, name)

Spec == Init /\ [][Next]_vars

-----------------------------------------------------------------------------
(* The written text less what was redacted and cut.                         *)
Kept(text) == Placed(Truncate(Redact(text)))

(* The symbols of doc that a span of Zalo's message covers.                 *)
Covered(doc, start, len) == SubSeq(doc, start + 1, Min({start + len, Len(doc)}))

(***************************************************************************)
(* Whatever members could be loaded, every mention covers exactly an @ and *)
(* the whole name of the member it notifies, who is the only one of that   *)
(* name among those loaded (another, whose profile could not be had, may   *)
(* bear it and be meant); mentions do not overlap; and the text around     *)
(* them is what was written, in order, less markers and brackets           *)
(* (mention-parser.ts:177-237, where text is dropped while it is scanned). *)
(***************************************************************************)
MentionsPointAtNames ==
  \A c \in DOMAIN calls :
    LET doc  == calls[c].content.doc
        ms   == calls[c].content.mentions
        gone == Places(Kept(calls[c].req.text)) \ Places(doc)
    IN /\ \A i \in DOMAIN ms :
            LET name == calls[c].index[ms[i].uid] IN
            /\ Symbols(Covered(doc, ms[i].pos, ms[i].len))
                 = <<"@">> \o name
            /\ Unique(calls[c].index, name)
            /\ i > 1 => ms[i].pos >= ms[i - 1].pos + ms[i - 1].len
       /\ \A i \in 2..Len(doc) : doc[i - 1].at < doc[i].at
       /\ \A i \in DOMAIN doc : doc[i] = Kept(calls[c].req.text)[doc[i].at]
       /\ \A p \in gone : Kept(calls[c].req.text)[p].ch
                            \in Range(Passes) \cup {"heading", "[", "]"}

(***************************************************************************)
(* If markers of one kind were found, a style in whose span no bracket was *)
(* dropped covers exactly what stood between its markers: the spans are    *)
(* taken before the mentions are resolved and moved afterwards by the      *)
(* brackets dropped before them (send.ts:117-128).  With two kinds, or a   *)
(* mention in brackets inside the span, the code does not promise it: a    *)
(* later pattern moves the text under an earlier one's styles, and the     *)
(* length of a span is not corrected.                                      *)
(***************************************************************************)
StylesCoverWhatWasMarked ==
  \A c \in DOMAIN calls :
    LET doc == calls[c].content.doc
        st  == calls[c].content.styles
    IN (\A i, j \in DOMAIN st : st[i].st = st[j].st) =>
         \A i \in DOMAIN st :
           st[i].of \subseteq Places(doc) =>
             Places(Covered(doc, st[i].start, st[i].len)) = st[i].of

(***************************************************************************)
(* Status 200 of an action that sends means that Zalo accepted it, 4xx     *)
(* that nothing was asked of Zalo; nothing is accepted twice, nor for a    *)
(* thread the policy does not permit, whichever action or adapter method   *)
(* it goes through.  502 and 500 leave open whether it was accepted.       *)
(***************************************************************************)
OkMeansSent ==
  \A c \in DOMAIN calls :
    LET r == calls[c].req IN
    /\ CallType(calls[c])
    /\ calls[c].accepted > 0 => /\ <<r.thread, r.isGroup>> \in Permitted
                                /\ calls[c].status >= 200
    /\ calls[c].status = 200 /\ Does(r) \in {"text", "media"} =>
         calls[c].accepted = 1
    /\ calls[c].status \in 400..499 => calls[c].accepted = 0
=============================================================================
