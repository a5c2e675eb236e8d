# Verification of zlo-gw

The Zalo API gateway owns a session with a personal Zalo account, serves a local HTTP API, and
passes inbound messages on to agents: by server-sent events to the Hermes platform plugin, by
webhooks to the Hermes bridge and other consumers. This directory holds TLA+ models of its
stateful parts, TLC configurations that check small instances of them, and TLAPS proofs.

Paths below are relative to the repository root (`src/` in the paths of PROJECT.json is the
directory that holds the repository).

## 1. The system and what is modelled

How a message travels: Zalo -> listener (`gateway/zalo-client.ts`) -> inbound policy ->
event hub and webhooks -> plugin or bridge -> Hermes -> `POST /messages/send` -> outbound policy
-> `getApi` -> Zalo. The former OpenClaw integration puts inbound messages into the per-thread
queue instead. Everything in the gateway runs on one Node.js event loop: code is interrupted
only at awaits, so an action of a model is the code between two awaits (or the whole of a
synchronous function). The plugin is one asyncio task per stream.

| component | state | operations | what is hard | modules |
|---|---|---|---|---|
| Per-thread queue, `src/channel/thread-queue.ts` | Map of threads with queue and busy flag, number of slots in use, line of waiting threads | enqueue, drain, skip stale, race of handler and deadline, clean-up | completions, deadlines and enqueues interleave; handlers outlive their deadline; messages go stale while they wait | ThreadSink, ThreadQueue, ThreadQueueProofs |
| Event hub, `src/gateway/events.ts` | sequence number, ring buffer, open streams | publish, subscribe with replay, heartbeat, close | buffer eviction, connections that break with records on the way, restarts | Delivery, EventHub, EventStream, EventStreamProofs |
| Hermes plugin, `hermes-plugin/zalo_platform/adapter.py` | last event id, seen ids, message being handled | connect, read record, handle, disconnect | resuming, duplicates, failures of Hermes | Delivery, EventStream, EventStreamProofs |
| Policy gate, `src/gateway/policy*.ts`, `routes/policy.ts` | four lists, their file | decide inbound and outbound, PUT, add, remove, load, save | changes while requests are under way, failing writes, restarts | Policy, PolicyGate, PolicyGateProofs |
| Session and login, `src/client/zalo-client.ts`, `credentials.ts`, `routes/login.ts`, `cli/zalo-login.ts` | API object, memoized login, credentials file, QR session | getApi, QR and credential login, logout, health check | concurrent logins, logout during a login, a listener that is set up once | Session, SessionProofs |
| Webhook dispatcher, `src/gateway/webhooks.ts` | none but the posts under way | dispatch with a deadline | the deadline is much shorter than the work it waits for | HermesBridge |
| Hermes bridge, `src/bridge/hermes/` | ids seen, requests under way, Hermes processes | process, run with a deadline, reply | duplicates before an await, late output, lost answers, restarts | ReplyOnce, HermesBridge, HermesBridgeProofs |
| Gateway adapter, `src/gateway/zalo-client.ts` | whether the listener was started | status, onMessage, sends | see session | Session, Policy, Outbound (in part) |
| HTTP server and routes, `src/gateway/server.ts`, `routes/` | the objects above | routing, authentication, bodies | what is read before a body is awaited; shutdown with open streams | PolicyGate, EventStream, Session, Outbound (in part) |
| Send path and text, `src/channel/send.ts`, `parsing/`, `safety/`, downloaders | members of groups, cached | redact, truncate, markdown to styles, mentions, send | offsets after characters are removed; members loaded meanwhile; lost answers | OutboundText, Outbound, OutboundProofs |
| Inbound normalisation, `src/zalo/message-normalizer.ts` | processed ids | normalise, drop duplicates | bounded memory of ids | not modelled |
| Features, `src/features/` | sent messages, violations, cooldowns, id stores per thread | undo, warn and remove, stickers, reactions | state read before an await and used after it | Monitor (in part) |
| Tool and configuration, `src/tools/`, `src/config/` | the configuration file with the account's part over it, the account's profile | some hundred actions: sends, queries, edits of the lists, answers to friend requests | read-modify-write by calls that overlap; names resolved over awaits; lists that name users in several ways; writes cut short | ToolActions, AgentTool, AgentToolProofs |
| Friend requests, `src/client/friend-request-store.ts` | list and file | add and remove, by events and by the tool | events cross the tool's answers; the list changes before its file is written | AgentTool, AgentToolProofs |
| Legacy monitor, `src/legacy/openclaw/monitor.ts` | caches of ids, of group talk, of messages to quote; warnings and counts | deduplicate, guard, gate, buffer, reply, start again | everything after the queue runs over awaits on shared caches; a reloaded monitor beside the old one; lookups and warnings that fail | Access, Monitor, MonitorProofs |
| CLI, app, env, landing page, dist | none | - | - | not modelled |

## 2. Modules, state and actions

**ThreadQueue.** The record `sink` holds the fields of `ThreadMessageQueue`: `threads` (the keys
of its Map), `queue`, `processing`, `activeCount`, `pendingThreads`, and, as a history of the
open races, `handling`. The private methods are operators from record to record (`TryDrain`,
`ProcessNext`, `DrainPendingThread`, `CleanupThread`), because the code calls them synchronously
from one another; the actions compose them: `Enqueue`, `HandlerSettles` and `DeadlinePasses`
(the continuation of `Promise.race`), `OrphanSettles` (an abandoned handler ends),
`MessagesAge` (`Date.now()` moves on). A message is its thread and its number; all numbers up to
`horizon` are older than `staleMs`.

**EventHub, EventStream.** `EventHub` has the hub's `nextSequence` and `records` and, per client,
the state of its connection and what was written to it and not read (`wire`). `EventStream` adds
the plugin: `lastEventId`, `seen`, the message that Hermes is handling (`busy`), what it has
handled, and `excused`, the messages that the protocol never promised to this client (published
while it had no id that the hub still buffers, or whose handling failed). `Break` keeps any
prefix of the wire: what was received before the connection broke is still read. A restart of the
gateway empties the hub and starts its numbers again at 1. `ReadRecord` is `HandleRecord` when the
handling of the record before it has been awaited.

**Delivery.** What a client gets, without connections, ring, sequence numbers, resume ids or
duplicates: `published` messages, per client the one it is `busy` with, those it `handled` and those
it is `excused`. A client begins a message that is newer than all it handled, if nothing promised
lies between (`Begin`), finishes it or gives it up, or starts over with what comes from now on.
EventStream implements it with the variables of the same names (`ImplementsDelivery`): opening,
breaking, replaying, heartbeats, duplicates and restarts of the gateway are no steps of it at all,
except that connecting without a buffered id is `StartOver`.

**Policy, PolicyGate.** `Policy` has the pure part: a list is the set of its entries, and
`AllowsInbound` and `AllowsOutbound` are the two decisions, wildcard and absent lists included.
`PolicyGate` has the store and its file, which may be absent, whole or cut short, and the requests
to send: `SendArrives` is the handler up to the body (it takes `policyStore.current()`),
`SendDecided` what follows it. `inForce` is history: the policies in force since the request
arrived. Properties are stated with `Permitted`, written from `docs/OPERATIONS.md`, not from the
code.

**Session.** The module variables of `client/zalo-client.ts` and the QR session, with attempts to
log in as a set of records that carry their id, who started them (`getApi`, `status`, the QR
`route`) and the await they are at. `GetApi`'s callers are the inbound listener, which calls once,
and senders. `Stored` models `hasCredentials` with its side effect: credentials at the former
location are copied when the file is missing.

**HermesBridge.** A post of the dispatcher is known by its number; `delivery` is what the gateway
knows of it, `request` how far the bridge is with it, and `gateway` what became of its reply once
it was handed over: "asked" while the handler of the gateway awaits Zalo, then "sent" or "refused".
The bridge and the gateway part ways there: `ReplyGivenUp` is `fetch` giving up, at any time after
the reply was handed over, whether the gateway has sent it, will send it, or never got it;
`GatewaySends` asks nobody whether the bridge still waits, and may come long after the post was
answered with 502. `Receive` is `process` up to the run of Hermes, the duplicate check and the
insertion into `seenMessageIds` (`Mark`, `Remembered`) included. A request answered because Hermes
was too long is "overdue" until its process ends. `forgot` is history: the posts whose message was
pushed out of the memory or lost in a restart.

**ReplyOnce.** What the bridge promises those who write, without processes, deadlines, connections
and answers: posts, the `memory` as a line of messages, the `stage` of each post ("idle", "working",
"over") and its `reply`. For a post that was taken up at most one reply is handed to the gateway,
while it is worked on (`HandOver`); when the gateway sends it is left open (`Settle`). `Take` says
whose posts are taken up and what may be forgotten for it; a full memory may forget more than one
message, because the code drops all that have expired. HermesBridge implements it under
`Room <- DedupMax`, `memory <- SeenIds` (the ids in `seen`), `stage <- Stages` (a process that
outlives its deadline is "over"), `reply <- gateway`: `ImplementsReplyOnce`. Unlike the invariants
of HermesBridge it tells a reply that is handed over twice for one post from one handed over once.

**ThreadSink.** What the queue promises, without Map, flags, counter or line: per conversation the
messages that `waiting`, the set `running`, `Slots`. Its `Accept` and `Finish` leave open whom a
free slot serves beyond the claim of the conversation itself. ThreadQueue implements it under
`waiting <- sink.queue`, `running <- sink.handling`, `accepted <- sent`, `horizon <- horizon`
(`ImplementsSink`); an abandoned handler is over for ThreadSink when its race is.

**Access, Monitor.** `Access` has the old monitor's lists: entries by id, in another spelling or by
name, the names resolved at the start of a monitor by four lookups of which each may fail alone
(the friends for the allowed and for the denied users, the friends for the users denied in groups,
the titles of the groups), and the checks of a message in the order of the code. `Monitor`
has the state shared by its callbacks: `remembered` (`processedMsgIds`, and as a history the ids a
full one let go), `buffer` (`groupMessageBuffer`), `inbound` (the last message of a thread, quoted by
the reply), `msgIds`, `strikes` and `removals` of the injection guard, and `jobs`, the entries given
to the queue with the await of `processMessage` each has come to. `notices` are the warnings the
guard sent: a warning is on its way until it is shown or fails (`NoticeSettles`), which the guard
does not wait for. The queue is used through what it promises. `StartMonitor` may happen again while
the first monitor's jobs run; both use the module's caches. It also fills the buffers of the groups
listed by id from their history, whoever wrote it (`filled`). Each callback looks a message's id up
and puts it in (`OnMessage`), in the order in which they were registered.

**OutboundText, Outbound.** `OutboundText` is the preparation of a text as pure operators on
sequences of symbols. Each symbol carries the place where it was written, so that a property can
compare what a style or a mention covers in the message with what was marked in the source. A loop
of the code is a function defined by recursion on the places of the text (`Pairs`, `Styled`,
`MarkdownToZaloStyles`, `ParseOutboundMentions`) whose step is an operator of its own (`Take`,
`Move`, `Mentioned`), which is what the proofs are about. `Outbound` adds requests under way
together: `Receive` (the handler up to its first await: fields, policy, whether the cache knows the
members), `MembersLoaded`, `MembersUnknown`, the answers and failures of Zalo, expiry of the cache
and members who change their names. An entry of the cache that is too old to be used stays in the
Map, and in its place in the order of eviction, until the group's members are loaded again
(`CacheExpires`, `CacheIndex`).

**ToolActions, AgentTool.** `ToolActions` is the table of the agent tool's actions, a set of rows:
what each needs, which names it resolves, in order, and what it does. `AgentTool` runs calls of it,
several at a time: `Call`, one `Resolve1` for each await on a name, `Fetched`, then what the action
does. The edits of the configuration are single steps, because `readConfig` and `writeConfig` are
called with no await between them; a profile update and the answer to a friend request are not.
An edit changes the channel's part of the file (`config`); a monitor that starts reads it with the
fields of `accounts.<id>` put over it (`ForAccount`) and its names resolved (`Started`, which is
`Access`'s `ResolveConfig`). `RemoveFromArray` takes away the one entry that is written the same way;
other spellings and names stay. A list that changes is kept in memory first and then written to its
file, and the writing may fail with nothing or a part written (`Saved`, `EditFails`). `events` are the
friend events on their way to the listener; `last` and `unsure` are history.

The `MC` modules give the constants their values; each `.cfg` names the bounds. Operators whose
comment begins with "Bug:" are mutants: plausible mistakes in the definition that follows, which
make the property they belong to fail. They are used by nothing else.

## 3. What the runs check

| run | result | what it shows |
|---|---|---|
| queue_safety | pass | `SlotsAccounted`: no completion, deadline or enqueue leaks or doubles a slot. `SerialPerThread`, `OverlapOnlyAbandoned`: one race per conversation; handlers overlap only when the older one was abandoned. `WaitersRegistered`, `IdleThreadsForgotten`: the line and the Map hold exactly who they should. `NoSilentLoss`, `StartsFreshAndInOrder`: a message is skipped only if stale or pushed out of a full queue, and never overtaken. `ImplementsSink`: every step is one of ThreadSink or leaves it unchanged |
| queue_progress | pass | `WorkConserving`: while nothing goes stale, no one waits beside a free slot. `EveryQueueDrains`: once arrivals cease, the backlog is worked off, even if all handlers hang. The premise is needed: the end of a race continues its own thread before it looks at the line (`thread-queue.ts:208-217`), so a thread to which messages keep coming keeps its slot and the others starve |
| queue_stranded | violation | a waiting thread whose messages all went stale takes the wakeup and not the slot; the next in the line is stranded beside a free slot until a message comes, to it or to a thread whose race then ends |
| stream_recovery | pass | `HandledInOrderOnce`: in order and never twice over breaks, replays and restarts. `NoUnexplainedGap`: nothing lost but what was never promised. `ImplementsDelivery`: every step is one of Delivery or leaves it unchanged. `EventuallyCaughtUp` |
| stream_heartbeat | violation | a heartbeat read before a break replaces the resume id by one the hub does not buffer, and buffered messages are not replayed |
| policy_gate | pass | `PassedWasPermitted`: what passes was permitted by a policy in force meanwhile. `AckedPolicySurvives`: a restart brings back the confirmed policy, unless a write was cut short |
| session_logins | pass | `MemoIsPending`: the memoized login is always one under way, also after logouts. `CallersShareAttempt`: until a logout, callers of `getApi` share one attempt. `RouteSessionIsOwn`: no attempt writes into another's QR session. `EveryCallAnswered` |
| session_unheard | violation | the gateway starts without a usable session, logs in later, and never listens for messages |
| bridge_replies | pass | `HandledOnceWhileKnown`: overlapping posts of one message cause one Hermes run and one reply. `OkWasEarned`: what a 200 means; the converse fails, a post counted as failed may have been replied to or may yet be. `AnswerIsFinal`: an answered post stays answered, and the bridge hands no reply over for it any more; what it handed over before may still be sent. `ImplementsReplyOnce`: every step is one of ReplyOnce or leaves it unchanged, so that nothing is handed over again when an answer is lost. `EveryPostEnds` |
| monitor | pass | `DeniedStaysOut`: who is denied, as far as the lookups of the start were answered, gets no reply and is not heard as context, but for what a group's history brought in. `ContextOnce`: group talk reaches the agent once, in its group, in order. `QuoteIsOwn`: a reply quotes its own message. `HandledOnceWhileRemembered`: a message is queued once, by one monitor, unless a full memory let its id go. `WarnedBeforeRemoved`: a removal is called for only after a warning to that member was sent for the attempts that count now; whether it was shown is not said |
| outbound | pass | `MentionsPointAtNames`: mentions stand at the name of the member they notify, the only one of that name among the members that could be loaded. `StylesCoverWhatWasMarked`: with markers of one kind, a style with no bracket dropped inside it covers what was marked. `OkMeansSent`: what 200, 4xx, 500 and 502 tell the caller |
| agent_tool | pass | `EditsAreKept`: an edit that was confirmed is in force for a monitor started later, until the same entry is edited again, however calls overlap, if the account does not set the field, nothing else denies or allows the user and the file was not cut short. `OnlyTheNamedUser`: an edit changes the refusal of nobody but the user it names, except where it makes a group's own entry, the first entry of a particular group, or makes or empties a list of allowed users. `RequestsListed`: the list of friend requests is Zalo's, whatever savings of it fail, unless an event or an answer was lost or crossed another |

The violations are disagreements with what comments, documentation or tests of the repository say;
PROJECT.json quotes them. The models show more that has no run of its own. Each is a behaviour of a
model, and the property it would break names it as an exception:

- A send whose body arrives after a confirmed change of the policy is decided under the policy
  before the change (`gateway/server.ts:153`).
- The health check logs in beside the memoized attempt (`gateway/zalo-client.ts:185`). An attempt
  from before a logout that ends after it clears the memo of a newer one in its `finally`
  (`client/zalo-client.ts:91`), so that the next caller begins another attempt beside that; it also
  installs its API object, so that the logout is undone.
- A third attempt at injection removes a member whose warning is still on its way or failed
  (`injection-guard.ts:121`, `132-136`), though the header says "Attempt 2 → public warning in group".
- The history that fills a buffer at the start is not checked: the agent is given as context what
  denied users wrote there (`monitor.ts:1376-1391`). An entry by display name denies nobody if the
  friends could not be read at the start (`monitor.ts:1256`).
- Of two members of one name, of whom one could not be loaded, the other is mentioned
  (`mention-parser.ts:105`).
- `**@[Name]**` gets a style that is too long by the two brackets dropped inside it (`send.ts:123`), and
  with two kinds of markers an earlier style is not moved when a later pattern drops its own.
- `unblock-user` answers with success and leaves the user's name, or the id in another spelling, in
  the list (`config-manager.ts:60-63`), so that the user stays refused. `block-user` answers with
  success and changes nothing where `accounts.<id>` sets `denyFrom` (`accounts.ts:40`), as the
  configuration in `docs/agent-install.md:210` does.
- Two updates of the profile that overlap: the later one sends every field, those not given as it read
  them, and undoes the earlier one (`tool.ts:1603`).

### Bounds, and why they are enough

- *Queue*: four threads for two slots, room for two messages per thread (so that it overflows), six
  messages, any prefix of five stale. With two slots and three threads, the end of a race never
  starts two messages; with four it does (the next one of its thread, and one of a thread left in
  the line by an earlier end), which is what ThreadSink's `Finish` must allow. The threads are
  symmetric in this run. The progress run has three threads, no symmetry and no stale messages
  (`MaxHorizon = 0`), which is the case in which the code keeps the promise; the stranded run needs
  three threads and one slot.
- *Stream*: a ring of two and five messages, so records are evicted while the client is away; three
  breaks or failures, one gateway restart, one heartbeat; the duplicate check forgets beyond two
  ids (1000 in the code, `adapter.py:341`). Clients do not influence each other in the hub, so one is enough.
- *Policy*: two ids, each a user or a group, and the wildcard; two changes, one failing write and
  one restart around one request. A request's captured policy is replaced at most by a second
  change; more of them repeat this. Bodies with all, some and none of the lists are in `MCPuts`.
- *Session*: three attempts and one logout: an attempt from before the logout, one after it, and a
  third party's. The listener and one sender.
- *Bridge*: three posts of two messages and a memory of one id: a message comes back while it is
  known and after it was pushed out. One restart. Each reply may be sent, refused or given up in any
  order.
- *Monitor*: two groups, a friend and another user, eight shapes of messages, two configurations (one
  denies by name, in another spelling, by the group's title and for all groups, one wants approvals),
  caches of one entry for quotes and quotable ids and of two for ids and group talk, so that each of
  them overflows and what it keeps has an order. A run begins with one of three budgets
  (`MCBudgets`): three messages of talk and two events; one message of talk, one command, one notice
  and an event, with a start whose lookups fail; five attempts at injection by two members and two
  events. An event is a start of a monitor (the first one included), a new login, a message that
  is missed or repeated, one that goes stale or whose deadline passes, an await that throws, an hour
  that passes. Warnings and removals are answered at any time, or not.
- *Outbound*: two requests, two members of whom one's name begins the other's, one change of a name
  (after which they may bear the same one), a cache of one group, one expiry; any part of the members
  may be loaded. The texts are those in which markers, brackets, line ends, mentions, a secret and the
  limit of ten symbols meet.
- *Agent tool*: two calls out of every action of the tool, two users, a friend and another one, and
  two groups. `MCSettings` lists what there is at first: configurations that deny by id, by name, in
  another spelling, in one group, in a group known by its title or in all of them, and accounts that set
  nothing, the denied users or the groups; and an empty one, with two friend requests. One failure, of
  writing a file or of the process, may cut either file short; with one call only, there may be two,
  so that a crash can follow a list that was not saved. The two places for calls are
  symmetric. Both calls edit the same entry, or different entries of one file.

Counters that the code never bounds (messages, posts, breaks) are bounded in the guards; where a
run may stop because of this, deadlock is not checked.

### Fairness, and why the code justifies it

- `ThreadQueue`: every open race ends (`WF` of `RaceEnds`): its timer fires. Handlers may hang.
- `EventStream`: the plugin's loop reconnects and reads, and Hermes returns or raises. Breaks,
  heartbeats and restarts are not fair; they cease because they are bounded.
- `Session`: every request to Zalo is answered with yes or no, and the server calls `onMessage` at
  its start. Users need not confirm a QR code and nobody need log in or out.
- `HermesBridge`: a post arrives or fails, both timers fire, and `fetch` ends its wait for the gateway's
  answer to a reply, with it or without (it gives up on its own). Nothing is assumed of the gateway's
  handler, which may await Zalo for ever, and Hermes may hang.
- `Monitor`, `Outbound`, `AgentTool`: none, and no liveness is claimed: the code sets no deadline for
  most of the calls of `zca-js` they wait for.

## 4. What is proved

**ThreadQueueProofs**, for every set of threads, every `MaxConcurrent`, `MaxPerThread` and bound:
`TypeOK`, `SlotsAccounted`, `SerialPerThread`, `WaitersRegistered`, `IdleThreadsForgotten`. None
of these is inductive alone: whether a thread may start depends on `processing` agreeing with the
open races, that a wakeup can be passed on depends on who stands in the line. `IInv` says that the
fields are `Consistent` (types, counts and races agree, the line has no repetition) and that every
thread is `Settled` (known exactly if it has something to do, and served or in line if it has
messages). The argument follows the methods: one lemma per operator says that it maps consistent
fields to consistent ones and settles its own thread while the others stay settled; the actions
are compositions. `LeastPosition` is the fact about searching a sequence that skipping stale
messages needs. Assumption: `QueueAssumption` (the limits are positive naturals).

In the same module, `QueueImplementsSink`: every step of ThreadQueue is a step of ThreadSink or
leaves its variables as they are. `IInv` is the invariant. The methods of the queue are shown to
serve one conversation each (`Serves`); `ServeBoth` puts two of them together, since the end of a
race drains its own thread and one of the line. What remains is to see that the operators of the
library, which both modules instantiate, are the same in both, and that the slots in use are the
messages that are running.

Then `NoSilentLoss`, `StartsFreshAndInOrder` and `OverlapOnlyAbandoned`. Every method takes messages
from the heads of queues, and `OrderInv` adds to `IInv` that each queue is in the order of arrival,
no longer than its limit, and behind everything of its thread that was started, abandoned handlers
included. The last is what keeps an abandoned handler's message apart from the ones that follow it;
without it a message could be started again.

Last, `WorkConserving` (`SlotsAreUsed`), under the hypothesis `MaxHorizon = 0`, that no message goes
stale; the run queue_stranded shows that it fails otherwise. It follows from `SaturationInv`: a slot
is free only if no thread could be served. The end of a race frees one slot and starts at most
two messages: one of its own conversation and one of the line. The delicate case is that a slot was
free already, where draining one thread of the line would not be enough; but then, by the
invariant, none but the thread whose race ended can be waiting.

**PolicyGateProofs**, for any ids, environment policy, bodies and bounds: `TypeOK`,
`PassedWasPermitted`, `AckedPolicySurvives`. What must be added is `CapturedInForce`: the policy
that a request was given has been in force since it arrived, so the decision made with it is one
that `inForce` accounts for. Lemmas: normalisation yields all four lists and changes nothing in
one that has them (so that a policy read back from the file is the one written), and each decision
of the code permits only what `Permitted` does. Assumptions: `WildcardIsNoId` and
`GateAssumption` (the environment gives a policy, bodies are updates).

**EventStreamProofs**, for any clients, any size of the ring and of the plugin's memory, any number
of messages, breaks and restarts: `TypeOK`, which no run checks,
`HandledInOrderOnce`, `NoUnexplainedGap`, `ImplementsDelivery`. The two invariants are about
what a client has got, and neither says what may still arrive. `IInv` adds `BufferGood` (the ring
holds the last messages without a gap, also after a restart of the gateway) and `ClientGood`: the
wire carries in order records the client has not got, each with everything before it that is not
dealt with (`WireGood`); an open wire carries all of them up to the last published
(`WireComplete`); the id a client resumes with is not behind what it got and not ahead of what it
misses. The wire is kept good by the lemmas `WireTail`, `WirePrefix` and `WireAppend` (a record read,
a broken connection, a record published); `Replay` shows that a resumed stream starts out good. A
break keeps `WireGood` and loses `WireComplete`, which is why the two are apart: a broken
connection is not `"open"`, so completeness is promised again only once the client has connected.
Assumptions: `HubAssumption`, `StreamAssumption` (limits are naturals, the ring is not empty).

`StreamImplementsDelivery`: every step of EventStream is a step of Delivery or leaves its variables
as they are. One lemma per action gives the step it maps to; only `ReadRecord` is more than reading
the definitions. That a record may begin, with nothing promised left out before it, is what
`ClientGood` says of the state after the step, so that `IInv` is used on both sides of it.

**SessionProofs**, for any callers and any number of attempts and logouts: `TypeOK`,
`MemoIsPending`, `CallersShareAttempt`, `RouteSessionIsOwn`. What makes the third inductive is
`CallersAreMemoized`: until the first logout, an attempt of `getApi` is the memoized one.
Assumption: `SessionAssumption`.

**HermesBridgeProofs**, for any messages, any limit of the memory and any number of posts and
restarts: `TypeOK` (which no run checks), `HandledOnceWhileKnown`, `OkWasEarned`, `AnswerIsFinal`,
`ImplementsReplyOnce`. The bridge decides by
its memory alone, so `IInv` relates the memory to the posts: `MemoryAgrees` says that every id in it
is that of a message that was taken and that what was taken is there or has been forgotten;
`PostsAgree`, that replies and answers go with the posts' states. Assumption: `BridgeAssumption`.

`BridgeRepliesOnce`: every step of HermesBridge is a step of ReplyOnce or leaves its variables as they
are. `PostsAgree` says that nothing was handed over for a post that is not taken or still runs; this
is what makes a reply the first one, although the gateway may send it at any time after. `RememberedSuffix` and `IdsMarked` say what the memory
loses when it is full: some of its oldest entries, expired ones and else one.

**OutboundProofs**, for any requests, permitted threads, members, names and texts of any length: all
three properties of the run.

- `OkMeansSent`: `IInv` describes each call by itself (`CallGood`): before it is answered nothing was
  accepted for it, and if it waits to be sent, the policy was asked and permitted it. The last rests
  on `SendsAreAsked`, the fact about the table of actions that no action sends unasked.
- `TextIInv` says that what any call sends is `Prepare` of its request's text with names that members
  bore, cached ones included. It is inductive because nothing changes a call's text or members
  once it waits to be sent. What `Prepare` yields is then a matter of the text alone.
- `MentionsPointAtNames` and `StylesCoverWhatWasMarked` follow from `PrepareIs`, which says of every
  text and index what its content is like. The relation all its steps share is `Left(D, e, G, R)`: R
  is D up to place e less the droppable places G, each other symbol at its place less the number
  of places of G before it; `Thin` is the same without the places. A pass over the text has its own
  invariant over the recursion: `ScanGood` (pairs of markers do not overlap and have something
  between them), `MoveGood` (a pattern's styles cover what is in the result so far, and go on to when
  it grows), `PassGood` (so do all styles after some patterns, as long as they are of one kind: a
  pattern that finds nothing leaves the text as it is), `ParseGood` (mentions stand at their names, do
  not overlap, and the text that was read is the text that was written less the brackets). Last,
  `StyleStays`: a style moved left by the brackets before it covers the same symbols, if no bracket
  was dropped inside; this is the binary search of `send.ts:52` against `Left`.
- The recursive functions: the prover knows that the unique function of a recursive definition is
  the one CHOOSE takes, not that there is one. The library's theorems on recursion and induction
  take a predicate as a parameter, which the provers cannot instantiate. `Recursion` shows it for
  every recursion over 0..n whose step, given as a function, keeps a type; `Values` that every value
  has the invariants above. Both are inductions, by `SetInduction`: a set of naturals that has 0 and
  with each number the next one has all, since the least one outside it would be neither. All three
  are stated with sets and functions in place of predicates. `LeastNumber` and `GreatestNumber`
  serve `Longest` and the closing bracket, which are chosen from sets, in the same way.

Assumptions: `TextsHaveALimit`, `MarkersAreSymbols` (texts of the model can contain what they are made
of), `RequestsAreFormed`, `NamesAreTexts`, `CacheHoldsSome` (texts and names are sequences of symbols,
`MEMBER_CACHE_MAX` is not 0). No assumption is made on which texts come, which names members bear or
which of them could be loaded.

**MonitorProofs**, for any users, groups, messages, configurations, sizes of the caches and numbers of
starts, failures and new logins: all six properties of the run. `Typed` is the type invariant
in the form that the later arguments need (every id in a cache was pushed, every job in one exists),
and `JobsGoOn` the fact about steps that all others use: a step lets one job go on, adds one, or leaves
all as they are. On these rest:

- `HandledOnceWhileRemembered`: `Remembering`, that the id of every job is in the memory or was let go
  by it when it was full. Without it a second job of an id looks possible.
- `WarnedBeforeRemoved`: `WarnedAtTwo`, that a count of two strikes, or the flag, comes with a warning
  that was sent to that member. Count, flag and the warnings are kept apart; the property is about the
  step from two.
- `DeniedStaysOut`: that a monitor's lists, resolved once at its start with lookups that may fail one
  by one, refuse whom `DeniedAt` (stated on the configuration) denies. For contexts, `TalkLetIn`: what is in
  a buffer or a context came in with a history or was let in by a job whose monitor does not deny its
  sender.
- `QuoteIsOwn`: `CachedIsOwn`, that the cache has, for the thread of a job which has put its message
  there and not read the quote, has the ids, is in time and has no other monitor on its thread, that
  very job. The queue makes this so: another job of the thread does not begin before this one ends.
  Eviction loses the entry and does not replace it.
- `ContextOnce`: what waits in a group's buffer was said there, by jobs that ended "buffered", is in
  no context yet and is older than every message of the group that is not decided and in time
  (`BufferGood`); what was given as context stays apart from it (`HeardGood`); and the jobs of a
  thread take their turn (`Turn`, `InOrder`). A context alone says nothing of what the next one may
  take.

Assumption: `MonitorAssumption` (messages and configurations have their types, the sizes are positive
naturals; in the code they are constants or defaults).

**AgentToolProofs**, for any users, groups, configurations, ways of naming them and numbers of calls,
failures and crashes: all three properties of the run. `Typed` says of each call by itself
(`CallGood`) that one which is ready to edit has had its names resolved to ids.

- `RequestsListed` speaks only of moments with no event under way. `RequestGood` says what holds
  meanwhile: the last event about a user decides what the list will say, and with none on its way
  the list is right, unless Zalo took an answer that has not come back.
- `EditsAreKept`: `EditsInv` says for every edit in the history what its entry holds now, in the
  configuration itself (`Holds`); that this is what a monitor that starts later goes by needs that the account leaves the
  field alone, that a group's entry under its id stands before all others, and that resolving names
  only adds ids.
- `OnlyTheNamedUser` is an action property and needs no invariant but `Typed`: an edit leaves every
  other entry alone, and the lemmas on candidates (`First` and those after it) show that the entry
  looked up first is the only one that decides. Where an edit creates a group's entry, or empties
  its list of allowed users, others are affected, and the property says so.

Assumption: `AgentToolAssumption` (the configurations have their type, users are named by an id or a
name, and the two are told apart).

What is only model-checked: liveness (`EveryQueueDrains`, `EventuallyCaughtUp`, `EveryCallAnswered`,
`EveryPostEnds`), which rests on fairness, and so on ENABLED, and is out of the prover's reach. All
other properties of the passing runs are proved, the three refinements among them. The modules declare
no RECURSIVE operator: with one, the prover has no arithmetic.

## 5. What is left out

- Formatting and parsing: SSE frames, JSON, prompts, log lines, ids with blanks around them.
- Authentication answers of the event stream, which end the plugin's loop for good; the listing
  routes; actions that are one call of `zca-js` without state.
- The user id kept beside the API object: all attempts log in to one account. Refreshed cookies.
- Callbacks and handlers of the queue that throw before they return a promise: its one caller
  passes an async handler and callbacks that only log.
- Events that the bridge refuses as malformed, and messages without an id, which it never takes
  for repeated ones.
- A restart of the gateway between a send and its answer is, for the bridge, a `fetch` that gives up
  (`ReplyGivenUp`), for the reply one that is never sent, and for the dispatcher the end of its
  waiting (`DispatchTimesOut`).
- Old monitor: the text of prompts and replies, media, typing. A group auth step is part of `Begin`,
  with which it shares a synchronous stretch. Keys of groups written "zaloclaw:<id>", and all but the
  first friend of a display name that several bear. The plugin's description of itself to OpenClaw
  (`channel.ts`) and its set-up dialogue (`onboarding.ts`).
- Outbound: downloads and uploads of media, URL checks, local paths, the sandbox of threads, names
  that differ in case only. The tool's `send-styled` (`tool.ts:503-532`) takes its styles from
  `markdownToZaloStyles` as well and does not move them for brackets that are dropped;
  `StylesCoverWhatWasMarked` speaks of `send.ts` only.
- Agent tool: other processes that write the configuration, the temporary file of send-file,
  arguments that have a default, names that several friends bear, and `clearPendingRequests`, which
  nothing calls.
- Inbound normalisation: it maps fields; its memory of ids is the algorithm of `Monitor`'s
  `Remember`.
- Auto-unsend and stickers: nothing in the repository calls them.

## 6. Plan

1. The plugin's sending half (chunks of a long reply, the first failure ends it), and process start
   and stop: shutdown waits for open event streams that only its end would close.
2. The session's logout during a login: what should become of a login under way, and of its
   credentials, is not said anywhere; a statement of it would be a property to check.
3. Styles of several kinds and mentions inside a style, and `send-styled`: what the code does there is
   not what a sender would expect, but nothing in the repository says what that is.
