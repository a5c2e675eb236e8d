------------------------------ MODULE Monitor ------------------------------
(***************************************************************************)
(* The inbound pipeline of the OpenClaw channel (monitor.ts and the parts  *)
(* of src/features it calls): messages pushed by the Zalo listener are     *)
(* deduplicated, checked for injection, queued per thread and processed;   *)
(* processing checks the sender, buffers group talk that is not for the    *)
(* bot, and hands the rest to the agent with that talk as context and the  *)
(* message itself as the quote of the reply.                               *)
(*                                                                         *)
(* Listener callbacks and the code between two awaits of processMessage    *)
(* are the actions.  The queue is the one of ThreadQueue, seen here by     *)
(* what it promises: in a thread one message at a time and in order, but   *)
(* for those whose deadline passed.  A monitor that is started again (the  *)
(* channel is reloaded) shares the module's caches with the former one and *)
(* registers its callbacks on the same listener, after the former's.       *)
(***************************************************************************)
EXTENDS Access

CONSTANTS Shape,        \* the messages that may be pushed
          Configuration,\* what the channel's configuration may be
          Lookups,      \* sets of lookups that may succeed in one start
          DedupMax, InboundMax, BufferMax, IdsMax, \* sizes of the caches
          QueueMax,     \* maxPerThread of the queue
          MaxConcurrent,\* maxConcurrent of the queue
          Budgets       \* bounds: how often the steps that repeat may happen,
                        \* messages by kind, starts with lookups that failed

(* A message: its thread and sender, whether it mentions the bot, whether   *)
(* it has the ids that quoting needs, and what it is: talk, a notice that   *)
(* Zalo writes itself, a control command, or text the injection guard stops.*)
MessageType ==
  [thread : Group \cup User, from : User, mention : BOOLEAN, ids : BOOLEAN,
   kind : {"talk", "notice", "command", "attack"}]

(* In the code the sizes are constants or defaults, none of them zero.      *)
ASSUME MonitorAssumption ==
  /\ Shape \subseteq MessageType
  /\ \A c \in Configuration : IsConfig(c)
  /\ {DedupMax, InboundMax, BufferMax, IdsMax, QueueMax} \subseteq Nat \ {0}

VARIABLES
  monitors,   \* the monitors started so far, see StartMonitor
  callbacks,  \* monitors whose callbacks the listener calls, in order
  pushed,     \* the distinct messages pushed so far; the index is the msgId
  remembered, \* processedMsgIds: its ids, oldest first, and those it let go
  jobs,       \* the entries ever put in a queue, see JobType
  buffer,     \* groupMessageBuffer: per group, msgIds
  inbound,    \* lastInboundMessage: <<thread, job>>, in insertion order
  msgIds,     \* the msg-id store: msgIds, in insertion order
  strikes,    \* the injection guard's records: count, warned, the warning sent
  notices,    \* the warnings it ever sent: to whom, and what became of them
  removals,   \* calls of removeUserFromGroup that are not answered yet
  pairing,    \* users who asked to be paired, users who were approved
  budget      \* what is left of the bounds

vars == <<monitors, callbacks, pushed, remembered, jobs, buffer,
          inbound, msgIds, strikes, notices, removals, pairing, budget>>

caches == <<buffer, inbound, msgIds>>
guard == <<strikes, notices, removals>>
config == <<monitors, callbacks>>

Active == {"auth", "names", "session", "reply"}
Ended == {"answered", "refused", "buffered", "paired", "failed", "skipped"}

Msg(j) == pushed[jobs[j].id]
ConfigOf(j) == monitors[jobs[j].mon].cfg
Running(n) == {j \in DOMAIN jobs : /\ jobs[j].mon = n
                                   /\ jobs[j].phase \in Active
                                   /\ ~jobs[j].late}
WaitingIn(n, t) == {j \in DOMAIN jobs : /\ jobs[j].mon = n
                                        /\ Msg(j).thread = t
                                        /\ jobs[j].phase = "waiting"}
Oldest(S) == CHOOSE j \in S : \A k \in S : j <= k
Spend(what) == /\ budget[what] > 0
               /\ budget' = [budget EXCEPT ![what] = @ - 1]

-----------------------------------------------------------------------------
(* The bounded Maps.  A Map keeps the place of a key that is set again.     *)
DropFirst(s, n) == SubSeq(s, n + 1, Len(s))

(* Bug: the id is looked up and never put in.                               *)
Repeated(seen, id, expired) == seen

(* isDuplicateMsg: at the limit the expired ids go, or else the oldest one. *)
(* Which ones a full memory let go is kept for the properties.              *)
Remember(seen, id, expired) ==
  IF Len(seen.ids) >= DedupMax
  THEN [ids  |-> Append(DropFirst(seen.ids, expired), id),
        gone |-> seen.gone \cup ToSet(SubSeq(seen.ids, 1, expired))]
  ELSE [seen EXCEPT !.ids = Append(@, id)]

(* cacheInboundMessage: room is made only for a thread that is not there.   *)
CacheInbound(cache, t, j) ==
  LET i == SelectInSeq(cache, LAMBDA e : e[1] = t)
  IN IF i # 0 THEN [cache EXCEPT ![i] = <<t, j>>]
     ELSE Append(IF Len(cache) >= InboundMax THEN Tail(cache) ELSE cache,
                 <<t, j>>)

(* The cached message of a thread, or 0.                                   *)
QuoteFor(t) ==
  LET i == SelectInSeq(inbound, LAMBDA e : e[1] = t)
  IN IF i = 0 THEN 0 ELSE inbound[i][2]

(* Bug: room is made only when the store has grown past its limit.          *)
RecordMsgIdLate(store, id) ==
  Append(SelectSeq(IF Len(store) > IdsMax THEN Tail(store) ELSE store,
                   LAMBDA x : x # id), id)

(* recordMsgId makes room before it looks whether the key is there.         *)
RecordMsgId(store, id) ==
  LET kept == IF Len(store) >= IdsMax THEN Tail(store) ELSE store
  IN IF Contains(kept, id) THEN kept ELSE Append(kept, id)

(* bufferGroupMessage: the newest BufferMax messages, less those too old.   *)
Buffered(b, new, aged) ==
  LET all  == DropFirst(b, aged) \o new
      over == Len(all) - BufferMax
  IN IF over > 0 THEN DropFirst(all, over) ELSE all

-----------------------------------------------------------------------------
NoStrikes == [count |-> 0, warned |-> FALSE, notice |-> 0]

(* Bug: that the member was warned is kept beyond the attempts it was for.  *)
KeepWarned(r) == [NoStrikes EXCEPT !.warned = r.warned]
Cleared(r) == NoStrikes

Init ==
  /\ monitors = <<>>
  /\ callbacks = <<>>
  /\ pushed = <<>>
  /\ remembered = [ids |-> <<>>, gone |-> {}]
  /\ jobs = <<>>
  /\ buffer = [g \in Group |-> <<>>]
  /\ inbound = <<>>
  /\ msgIds = <<>>
  /\ strikes = [k \in Group \X User |-> NoStrikes]
  /\ notices = <<>>
  /\ removals = [k \in Group \X User |-> 0]
  /\ pairing = [asked |-> {}, approved |-> {}]
  /\ budget \in Budgets

-----------------------------------------------------------------------------
(* Monitors.                                                                *)

(* The channel calls stop: timers are cleared, callbacks stay registered.   *)
Stop(n) ==
  /\ ~monitors[n].stopped
  /\ monitors' = [monitors EXCEPT ![n].stopped = TRUE]
  /\ UNCHANGED <<callbacks, pushed, remembered, jobs, caches, guard,
                 pairing, budget>>

Register(cbs, n) == Append(cbs, n)

AllLookups == {"allow", "deny", "groups", "titles"}

(* The recent history of a group: here, all that was written in it so far.   *)
History(g) ==
  LET said == {id \in DOMAIN pushed : pushed[id].thread = g}
  IN CHOOSE h \in [1..Cardinality(said) -> said] : IsSorted(h, <)

(***************************************************************************)
(* monitorZaloClawProvider: the configuration is the one the host read,    *)
(* names are resolved as far as the lookups succeed, the buffers of the    *)
(* groups that are listed by id are filled from the groups' history, who-  *)
(* ever wrote it, and the callbacks are registered.  What came in with the *)
(* history is kept for the properties.                                     *)
(***************************************************************************)
StartMonitor(source, ok, filled) ==
  LET cfg == ResolveConfig(source, ok)
      n   == Len(monitors) + 1
      Prefill(g) == g \in filled /\ ById(g) \in DOMAIN cfg.groups
  IN /\ \A i \in DOMAIN monitors : monitors[i].stopped
     /\ Spend(IF ok = AllLookups THEN "events" ELSE "outages")
     /\ monitors' = Append(monitors,
          [source |-> source, cfg |-> cfg, ok |-> ok, stopped |-> FALSE,
           filled |-> {id \in DOMAIN pushed : Prefill(pushed[id].thread)}])
     /\ callbacks' = Register(callbacks, n)
     /\ buffer' = [g \in Group |-> IF Prefill(g)
                                   THEN Buffered(buffer[g], History(g), 0)
                                   ELSE buffer[g]]
     /\ UNCHANGED <<pushed, remembered, jobs, inbound, msgIds, guard,
                    pairing>>

(* A logout and a login: the API object, and its listener, are new ones.    *)
Relogin ==
  /\ Spend("events")
  /\ callbacks # <<>>
  /\ callbacks' = <<>>
  /\ UNCHANGED <<monitors, pushed, remembered, jobs, caches, guard,
                 pairing>>

-----------------------------------------------------------------------------
(* The message callback.                                                    *)

(* Bug: a member is removed at the attempt that earns the warning.          *)
StruckEarly(count) == count >= 2
Struck(count) == count >= 3

(* checkInjection up to its first await, for each monitor that calls it for *)
(* an attempt of member k: the third attempt asks Zalo to remove him, the   *)
(* second sends a public warning.                                           *)
Strike(k, takers) ==
  LET r        == strikes[k]
      Counts   == {r.count + i : i \in DOMAIN takers}
      warns    == ~r.warned /\ \E c \in Counts : c >= 2 /\ ~Struck(c)
      notice   == Len(notices) + 1
  IN /\ removals' = [removals EXCEPT ![k] = @ + Cardinality({c \in Counts : Struck(c)})]
     /\ notices' = IF warns THEN Append(notices, [to |-> k, fate |-> "sending"]) ELSE notices
     /\ strikes' = [strikes EXCEPT
          ![k] = [count  |-> r.count + Len(takers),
                  warned |-> r.warned \/ warns,
                  notice |-> IF warns THEN notice ELSE r.notice]]

(* enqueue, by each of these monitors: a full queue of the thread loses its *)
(* oldest entry.                                                            *)
Enqueue(id, takers) ==
  LET t       == pushed'[id].thread
      lost    == {Oldest(WaitingIn(n, t)) :
                    n \in {n \in ToSet(takers) : Cardinality(WaitingIn(n, t)) >= QueueMax}}
      Queued(n) == [id |-> id, mon |-> n, phase |-> "waiting", late |-> FALSE,
                    context |-> <<>>, quote |-> 0]
  IN jobs' = [j \in DOMAIN jobs |->
                IF j \in lost THEN [jobs[j] EXCEPT !.phase = "skipped"] ELSE jobs[j]]
             \o [i \in DOMAIN takers |-> Queued(takers[i])]

(***************************************************************************)
(* Every monitor on the listener is called, in order: each looks the id up *)
(* and puts it in, so that once it is in the others take the message for a *)
(* duplicate.                                                              *)
(***************************************************************************)
OnMessage(id, expired) ==
  LET m      == pushed'[id]
      takers == IF Contains(remembered'.ids, id) THEN <<Head(callbacks)>> ELSE callbacks
  IN /\ callbacks # <<>>
     /\ remembered' = Remember(remembered, id, expired)
     /\ CASE m.kind = "notice" -> UNCHANGED <<jobs, guard>>
          [] m.kind = "attack" /\ m.thread \in Group ->
               Strike(<<m.thread, m.from>>, takers) /\ UNCHANGED jobs
          [] OTHER -> Enqueue(id, takers) /\ UNCHANGED guard
     /\ UNCHANGED <<config, caches, pairing>>

Push(m, expired) ==
  /\ Spend(m.kind)
  /\ pushed' = Append(pushed, m)
  /\ OnMessage(Len(pushed) + 1, expired)

(* Nobody listens: the message is known to Zalo's history only.             *)
Missed(m) ==
  /\ callbacks = <<>>
  /\ Spend("events")
  /\ pushed' = Append(pushed, m)
  /\ UNCHANGED <<config, remembered, jobs, caches, guard, pairing>>

(* A queued message is pushed again (Zalo mirrors its deliveries); one whose *)
(* id is remembered is a duplicate and ignored.                             *)
PushAgain(id, expired) ==
  /\ \E j \in DOMAIN jobs : jobs[j].id = id
  /\ ~Contains(remembered.ids, id)
  /\ Spend("events")
  /\ pushed' = pushed
  /\ OnMessage(id, expired)

(* Zalo shows the warning, or its sending fails and that is only logged.    *)
NoticeSettles(i, fate) ==
  /\ notices[i].fate = "sending"
  /\ notices' = [notices EXCEPT ![i].fate = fate]
  /\ UNCHANGED <<config, pushed, remembered, jobs, caches, strikes, removals,
                 pairing, budget>>

(* The removal of a member succeeds or fails: its record goes either way.   *)
RemovalAnswered(k) ==
  /\ removals[k] > 0
  /\ removals' = [removals EXCEPT ![k] = @ - 1]
  /\ strikes' = [strikes EXCEPT ![k] = Cleared(@)]
  /\ UNCHANGED <<config, pushed, remembered, jobs, caches, notices, pairing, budget>>

(* An hour without an attempt.                                              *)
StrikesForgiven(k) ==
  /\ strikes[k] # NoStrikes
  /\ Spend("events")
  /\ strikes' = [strikes EXCEPT ![k] = Cleared(@)]
  /\ UNCHANGED <<config, pushed, remembered, jobs, caches, notices, removals, pairing>>

-----------------------------------------------------------------------------
(* processMessage, from one await to the next.                              *)

Goto(j, phase) == jobs' = [jobs EXCEPT ![j].phase = phase]

(* Bug: a thread whose message is still being processed gives up another.   *)
MayStartBusy(j) ==
  /\ j = Oldest(WaitingIn(jobs[j].mon, Msg(j).thread))
  /\ Cardinality(Running(jobs[j].mon)) < MaxConcurrent

(* The queue's choice: the oldest message of a thread that has no race open.*)
MayStart(j) ==
  /\ j = Oldest(WaitingIn(jobs[j].mon, Msg(j).thread))
  /\ Cardinality(Running(jobs[j].mon)) < MaxConcurrent
  /\ \A k \in Running(jobs[j].mon) : Msg(k).thread # Msg(j).thread

Begin(j) ==
  LET m == Msg(j) IN
  /\ jobs[j].phase = "waiting"
  /\ MayStart(j)
  /\ msgIds' = IF m.ids THEN RecordMsgId(msgIds, jobs[j].id) ELSE msgIds
  /\ inbound' = IF m.ids THEN CacheInbound(inbound, m.thread, j) ELSE inbound
  /\ Goto(j, IF Refused(ConfigOf(j), m.from, m.thread) THEN "refused" ELSE "auth")
  /\ UNCHANGED <<config, pushed, remembered, buffer, guard, pairing, budget>>

SkipStale(j) ==
  /\ jobs[j].phase = "waiting"
  /\ MayStart(j)
  /\ Spend("events")
  /\ Goto(j, "skipped")
  /\ UNCHANGED <<config, pushed, remembered, caches, guard, pairing>>

(* A direct message; the store of approved users may be unreadable.         *)
AuthorizeDirect(j, approved) ==
  LET cfg     == ConfigOf(j)
      u       == Msg(j).from
      allowed == SenderAllowed(u, cfg.allowFrom \cup approved)
  IN /\ jobs[j].phase = "auth"
     /\ Msg(j).thread \in User
     /\ \/ /\ cfg.dmPolicy = "open" \/ (cfg.dmPolicy # "disabled" /\ allowed)
           /\ Goto(j, "names")
           /\ UNCHANGED pairing
        \/ /\ cfg.dmPolicy = "pairing" /\ ~allowed
           /\ Goto(j, "paired")
           /\ pairing' = [pairing EXCEPT !.asked = @ \cup {u}]
        \/ /\ cfg.dmPolicy = "disabled" \/ (cfg.dmPolicy = "allowlist" /\ ~allowed)
           /\ Goto(j, "refused")
           /\ UNCHANGED pairing
     /\ UNCHANGED <<config, pushed, remembered, caches, guard, budget>>

AuthorizeInGroup(j, aged) ==
  LET m          == Msg(j)
      cfg        == ConfigOf(j)
      g          == m.thread
      command    == m.kind = "command"
      authorised == SenderAllowed(m.from, cfg.allowFrom)
      over       == PassedOver(cfg, g, m.mention, command, authorised)
  IN /\ jobs[j].phase = "auth"
     /\ g \in Group
     /\ IF command /\ ~authorised THEN Goto(j, "refused") /\ UNCHANGED buffer
        ELSE IF over
        THEN /\ Goto(j, "buffered")
             /\ buffer' = [buffer EXCEPT ![g] = Buffered(@, <<jobs[j].id>>, aged)]
        ELSE Goto(j, "names") /\ UNCHANGED buffer
     /\ UNCHANGED <<config, pushed, remembered, inbound, msgIds, guard, pairing,
                    budget>>

(* Bug: the buffer is read and not taken.                                   *)
KeepBuffer(b) == b
TakeBuffer(b) == <<>>

(* The names are known; in a group the buffered talk becomes the context.   *)
TakeContext(j) ==
  LET g == Msg(j).thread IN
  /\ jobs[j].phase = "names"
  /\ IF g \in Group
     THEN /\ jobs' = [jobs EXCEPT ![j].phase = "session", ![j].context = buffer[g]]
          /\ buffer' = [buffer EXCEPT ![g] = TakeBuffer(@)]
     ELSE Goto(j, "session") /\ UNCHANGED buffer
  /\ UNCHANGED <<config, pushed, remembered, inbound, msgIds, guard, pairing,
                 budget>>

(* The session is recorded; the cached message of the thread is the quote.  *)
TakeQuote(j) ==
  /\ jobs[j].phase = "session"
  /\ jobs' = [jobs EXCEPT ![j].phase = "reply", ![j].quote = QuoteFor(Msg(j).thread)]
  /\ UNCHANGED <<config, pushed, remembered, caches, guard, pairing, budget>>

Reply(j) ==
  /\ jobs[j].phase = "reply"
  /\ Goto(j, "answered")
  /\ UNCHANGED <<config, pushed, remembered, caches, guard, pairing, budget>>

(* An await throws: the message is given up, with the context it has taken. *)
Fail(j) ==
  /\ jobs[j].phase \in {"auth", "session", "reply"}
  /\ Spend("events")
  /\ Goto(j, "failed")
  /\ UNCHANGED <<config, pushed, remembered, caches, guard, pairing>>

(* The deadline passes: the queue moves on, the processing does not stop.   *)
DeadlinePasses(j) ==
  /\ jobs[j].phase \in Active /\ ~jobs[j].late
  /\ Spend("events")
  /\ jobs' = [jobs EXCEPT ![j].late = TRUE]
  /\ UNCHANGED <<config, pushed, remembered, caches, guard, pairing>>

(* The operator approves a user who asked to be paired.                     *)
Approve(u) ==
  /\ u \in pairing.asked
  /\ pairing' = [asked |-> pairing.asked \ {u}, approved |-> pairing.approved \cup {u}]
  /\ UNCHANGED <<config, pushed, remembered, jobs, caches, guard, budget>>

-----------------------------------------------------------------------------
Step(j) ==
  \/ Begin(j) \/ SkipStale(j)
  \/ \E approved \in {{}, pairing.approved} : AuthorizeDirect(j, approved)
  \/ \E aged \in 0..(IF Msg(j).thread \in Group THEN Len(buffer[Msg(j).thread])
                     ELSE 0) : AuthorizeInGroup(j, aged)
  \/ TakeContext(j) \/ TakeQuote(j) \/ Reply(j) \/ Fail(j) \/ DeadlinePasses(j)

Next ==
  \/ \E source \in Configuration, ok \in Lookups, filled \in SUBSET Group :
       StartMonitor(source, ok, filled)
  \/ \E n \in DOMAIN monitors : Stop(n)
  \/ Relogin
  \/ \E m \in Shape : Missed(m)
  \/ \E m \in Shape, expired \in 1..DedupMax : Push(m, expired)
  \/ \E id \in DOMAIN pushed, expired \in 1..DedupMax : PushAgain(id, expired)
  \/ \E i \in DOMAIN notices, fate \in {"shown", "failed"} : NoticeSettles(i, fate)
  \/ \E k \in Group \X User : RemovalAnswered(k) \/ StrikesForgiven(k)
  \/ \E j \in DOMAIN jobs : Step(j)
  \/ \E u \in User : Approve(u)

Spec == Init /\ [][Next]_vars

-----------------------------------------------------------------------------
JobType == [id : DOMAIN pushed, mon : DOMAIN monitors,
            phase : Active \cup Ended \cup {"waiting"}, late : BOOLEAN,
            context : Seq(DOMAIN pushed), quote : {0} \cup DOMAIN jobs]

(* The state is well typed, and no cache outgrows its limit: the caches of  *)
(* monitor.ts and msg-id-store.ts are emptied only by their own insertions. *)
TypeOK ==
  /\ \A n \in DOMAIN monitors : monitors[n].source \in Configuration
  /\ callbacks \in Seq(DOMAIN monitors)
  /\ pushed \in Seq(Shape)
  /\ jobs \in Seq(JobType)
  /\ removals \in [Group \X User -> Nat]
  /\ notices \in Seq([to : Group \X User, fate : {"sending", "shown", "failed"}])
  /\ strikes \in [Group \X User ->
                    [count : Nat, warned : BOOLEAN, notice : 0..Len(notices)]]
  /\ Len(remembered.ids) <= DedupMax
  /\ Len(inbound) <= InboundMax
  /\ Len(msgIds) <= IdsMax
  /\ \A g \in Group : Len(buffer[g]) <= BufferMax
  /\ \A n \in DOMAIN monitors, t \in Group \cup User :
       Cardinality(WaitingIn(n, t)) <= QueueMax

(***************************************************************************)
(* A reply quotes the message it answers or nothing.  The quote is read    *)
(* from a cache of the thread several awaits after the message was put     *)
(* there; what protects it is the queue, which starts the thread's next    *)
(* message only after this one.  It does not hold for a message whose      *)
(* deadline passed, one without the ids (the thread's former message is    *)
(* quoted), or when two monitors work on the thread (monitor.ts:1003).     *)
(***************************************************************************)
QuoteIsOwn ==
  \A j \in DOMAIN jobs :
    \/ jobs[j].quote \in {0, j}
    \/ jobs[j].late \/ ~Msg(j).ids
    \/ \E k \in DOMAIN jobs : Msg(k).thread = Msg(j).thread
                              /\ jobs[k].mon # jobs[j].mon

(***************************************************************************)
(* While one monitor runs and nothing is pushed twice, what was said in a  *)
(* group reaches the agent as context at most once, only in that group,    *)
(* never if it was itself given to the agent or refused, not before it was *)
(* said, and in the order it was said, unless a deadline passed.  Several  *)
(* messages append to and take the shared buffer on both sides of awaits   *)
(* (monitor.ts:67-83, 811), and a start fills it from the history.         *)
(***************************************************************************)
ContextOnce ==
  Len(monitors) = 1 /\ IsInjective([j \in DOMAIN jobs |-> jobs[j].id]) =>
    \A j \in DOMAIN jobs :
      LET c == jobs[j].context IN
      /\ \A i \in DOMAIN c :
           /\ pushed[c[i]].thread = Msg(j).thread
           /\ \A k \in DOMAIN jobs :
                jobs[k].id = c[i] => jobs[k].phase = "buffered"
           /\ c[i] > jobs[j].id => jobs[j].late
      /\ \A k \in DOMAIN jobs \ {j} : ToSet(c) \cap ToSet(jobs[k].context) = {}
      /\ (\A k \in DOMAIN jobs : ~jobs[k].late) => IsSorted(c, <)

-----------------------------------------------------------------------------
(* The configuration a monitor was given denies the user in the thread: by  *)
(* id in whatever spelling, or by the name of a friend.                     *)
Lists(entries, u, resolved) ==
  Listed(u, entries) \/ (resolved /\ u \in Friend /\ Named(u) \in entries)

DeniedAt(n, u, t) ==
  LET src   == monitors[n].source
      ok    == monitors[n].ok
      named == "groups" \in ok /\ DOMAIN src.groups \ {AnyGroup} # {}
      keys  == {ById(t), Prefixed(t), AnyGroup}
               \cup IF named /\ "titles" \in ok /\ ById(t) \notin DOMAIN src.groups
                    THEN {ByName(t)} ELSE {}
  IN \/ Lists(src.denyFrom, u, "deny" \in ok)
     \/ t \in Group /\ \E k \in keys \cap DOMAIN src.groups :
          Lists(src.groups[k].deny, u, named)

(***************************************************************************)
(* A message of a user whom the configuration denies, for the channel or   *)
(* in its group (under the group's id, its name or the entry for all       *)
(* groups), ends refused: no reply, no pairing, and it is not buffered, so *)
(* that whatever the agent is given as context was let in by a monitor     *)
(* that does not deny its sender, or came in unchecked with the history of *)
(* the group when a monitor started (monitor.ts:1376-1391), as the talk of *)
(* denied users may.  Names count where the lookup of the start was        *)
(* answered; when it was not, they deny nobody (monitor.ts:1256).          *)
(***************************************************************************)
DeniedStaysOut ==
  \A j \in DOMAIN jobs :
    /\ DeniedAt(jobs[j].mon, Msg(j).from, Msg(j).thread) =>
         jobs[j].phase \in {"waiting", "skipped", "refused"}
    /\ \A id \in ToSet(jobs[j].context) :
         \/ \E n \in DOMAIN monitors : id \in monitors[n].filled
         \/ \E k \in DOMAIN jobs :
              /\ jobs[k].id = id
              /\ ~DeniedAt(jobs[k].mon, pushed[id].from, pushed[id].thread)

(***************************************************************************)
(* A message is put in a queue once, by one monitor, however often Zalo    *)
(* pushes it and however many monitors' callbacks listen, unless the       *)
(* memory of ids was full and let its id go (monitor.ts:118-140).          *)
(***************************************************************************)
HandledOnceWhileRemembered ==
  \A j, k \in DOMAIN jobs :
    j # k /\ jobs[j].id = jobs[k].id => jobs[j].id \in remembered.gone

(***************************************************************************)
(* When a member's removal is called for, a warning to him in that group   *)
(* was sent for one of the attempts that count now: an answer to an        *)
(* earlier removal, or an hour without an attempt, clears count and        *)
(* warning together (injection-guard.ts:96-141).  That the group has seen  *)
(* the warning is not said: it may still be on its way, or have failed,    *)
(* which is only logged (injection-guard.ts:132-136).                      *)
(***************************************************************************)
WarnedBeforeRemoved ==
  [][\A k \in Group \X User : removals'[k] > removals[k] =>
       strikes[k].notice # 0 /\ notices[strikes[k].notice].to = k]_vars
=============================================================================
