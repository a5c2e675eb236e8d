----------------------------- MODULE AgentTool -----------------------------
(***************************************************************************)
(* Calls of the agent's tool (tools/tool.ts) that are under way together,  *)
(* and the state they share: the configuration file with the lists that    *)
(* Access reads when a monitor starts (config/config-manager.ts), over     *)
(* which the account's own part goes; the list of pending friend requests  *)
(* (client/friend-request-store.ts), which follows events of Zalo, and its *)
(* file; and the account's profile, of which an update sends every field.  *)
(* A call does one await after the other: it resolves names, fetches       *)
(* files, asks Zalo; each of them may fail, and so may the writing of a    *)
(* file.                                                                   *)
(***************************************************************************)
EXTENDS Access, ToolActions

CONSTANTS Slot,        \* calls that may be under way at once
          Settings,    \* what there may be at first: the configuration, the
                       \* account's own part of it, and the bounds, how often
                       \* the steps that repeat may happen
          Naming,      \* how users may be named: entries, see Access
          NoOne        \* stands for a parameter an action does not take

(* Users are named by an id or a display name, and these are told apart.    *)
ASSUME AgentToolAssumption ==
  /\ Naming \subseteq User \cup {Named(u) : u \in User}
  /\ \A u \in User : Named(u) \notin User /\ Spelled(u) \notin User
  /\ Star \notin User /\ Friend \subseteq User
  /\ \A t \in Settings : IsConfig(t.config) /\ IsConfig(t.account.own)

VARIABLES
  config,    \* the channel's part of the configuration file
  account,   \* the account's: which fields it sets itself, and to what
  torn,      \* whether the writing of that file was cut short
  slots,     \* the calls under way
  last,      \* history: the last confirmed edit of an entry
  open,      \* at Zalo: users whose friend request is open
  events,    \* friend events on their way to the listener
  pending,   \* the list of the friend-request store
  stored,    \* that list in its file
  unsure,    \* history: users whose events or answers crossed or got lost
  profile,   \* at Zalo: per field, who set it
  budget

vars == <<config, account, torn, slots, last, open, events, pending, stored,
          unsure, profile, budget>>
file == <<config, account, torn>>
friends == <<open, events, pending, stored, unsure>>

ProfileField == {"name", "gender"}
GroupEdits == {"group deny", "group undeny", "group allow", "group unallow",
               "mention"}
Edits == GroupEdits \cup {"deny", "undeny"}

Idle == [does |-> "idle", left |-> <<>>, user |-> NoOne, group |-> NoOne,
         given |-> {}, seen |-> <<>>]

Spend(what) == budget[what] > 0 /\ budget' = [budget EXCEPT ![what] = @ - 1]

Init ==
  /\ \E t \in Settings :
       config = t.config /\ account = t.account /\ budget = t.budget
  /\ torn = FALSE
  /\ slots = [s \in Slot |-> Idle]
  /\ last = <<>>
  /\ open = {}
  /\ events = <<>>
  /\ pending = {}
  /\ stored = {}
  /\ unsure = {}
  /\ profile = [f \in ProfileField |-> "zalo"]

-----------------------------------------------------------------------------
(* The awaits before the call does what it is for.                          *)
Awaits(h) ==
  h.resolves \o (IF h.does = "upload" THEN <<"fetch">>
                 ELSE IF h.does = "profile" THEN <<"read">> ELSE <<>>)

(* A user is named by id or display name, a group by id or name.            *)
Users(h) == IF h.needs \cap {"userId", "memberIds"} = {} THEN {NoOne}
            ELSE Naming
Groups(h) == IF "groupId" \notin h.needs THEN {NoOne}
             ELSE {ById(g) : g \in Group} \cup {ByName(g) : g \in Group}
Given(h) == CASE h.does = "profile" -> SUBSET ProfileField
              [] h.does = "mention" -> {{"yes"}, {"no"}}
              [] OTHER -> {{}}

Call(s, h, user, group, given) ==
  /\ slots[s] = Idle
  /\ Spend("calls")
  /\ slots' = [slots EXCEPT ![s] =
       [does |-> h.does, left |-> Awaits(h),
        user |-> user, group |-> group, given |-> given, seen |-> <<>>]]
  /\ UNCHANGED <<file, last, friends, profile>>

(* A parameter is missing: the answer is an error at once.                  *)
Malformed(h) ==
  /\ h.needs # {}
  /\ Spend("calls")
  /\ UNCHANGED <<file, slots, last, friends, profile>>

IdOf(x) == IF x \in User THEN x ELSE x[2]

(* resolveUserId and resolveGroupId: an id is taken as it is, a name must   *)
(* be one of a friend or of a group of the account.                         *)
Resolve1(s) ==
  LET c == slots[s] IN
  /\ c.left # <<>> /\ Head(c.left) \in {"user", "group"}
  /\ Head(c.left) = "user" => c.user \in User \/ IdOf(c.user) \in Friend
  /\ slots' = [slots EXCEPT ![s] =
       IF Head(c.left) = "user"
       THEN [c EXCEPT !.left = Tail(@), !.user = IdOf(@)]
       ELSE [c EXCEPT !.left = Tail(@), !.group = ById(@[2])]]
  /\ UNCHANGED <<file, last, friends, profile, budget>>

(* What is to be sent was fetched, or the profile to be changed was.        *)
Fetched(s) ==
  LET c == slots[s] IN
  /\ c.left \in {<<"fetch">>, <<"read">>}
  /\ slots' = [slots EXCEPT ![s].left = <<>>,
                            ![s].seen = IF c.does = "profile" THEN profile ELSE <<>>]
  /\ UNCHANGED <<file, last, friends, profile, budget>>

Ready(s, what) == slots[s].does \in what /\ slots[s].left = <<>>
End(s) == slots' = [slots EXCEPT ![s] = Idle]

(* An await fails: executeZaloClawTool answers with the error.  What was    *)
(* asked of Zalo has not been done (see AnswerLost for where it matters).   *)
Fail(s) ==
  /\ slots[s].does \notin {"idle", "own", "taken", "accept", "reject"}
  /\ End(s)
  /\ UNCHANGED <<file, last, friends, profile, budget>>

(* Zalo answers, or the call needs nothing of Zalo.                         *)
Answer(s) ==
  /\ \/ Ready(s, {"query", "change", "upload", "known", "own"})
     \/ Ready(s, {"list"}) /\ ~torn
  /\ End(s)
  /\ UNCHANGED <<file, last, friends, profile, budget>>

-----------------------------------------------------------------------------
(* The edits of config-manager.ts.  A group's entry is created if need be,  *)
(* except to take a user from a list.                                       *)
(* Bug: the filter drops every entry. *)
DropEvery(list, u) == {}

(* Only the id itself is taken from a list: the user's name, or the id in   *)
(* another spelling, is another entry.                                      *)
RemoveFromArray(list, u) == list \ {u}

NoEntry == [deny |-> {}, allow |-> {}, open |-> TRUE, mention |-> "unset"]

Put(groups, k, e) ==
  [j \in DOMAIN groups \cup {k} |-> IF j = k THEN e ELSE groups[j]]

(* Bug: the group's entry is made of the changed list alone.                *)
WithEntryAnew(cfg, g, e) ==
  [cfg EXCEPT !.groups = Put(@, ById(g), [NoEntry EXCEPT !.deny = e.deny])]

WithEntry(cfg, g, e) == [cfg EXCEPT !.groups = Put(@, ById(g), e)]

EntryOf(cfg, g) ==
  IF ById(g) \in DOMAIN cfg.groups THEN cfg.groups[ById(g)] ELSE NoEntry

Without(cfg, g, e) ==
  IF ById(g) \in DOMAIN cfg.groups THEN WithEntry(cfg, g, e) ELSE cfg

GroupEdited(cfg, c) ==
  LET g == c.group[2]
      e == EntryOf(cfg, g)
  IN CASE c.does = "group deny" ->
            WithEntry(cfg, g, [e EXCEPT !.deny = @ \cup {c.user}])
       [] c.does = "group undeny" ->
            Without(cfg, g, [e EXCEPT !.deny = RemoveFromArray(@, c.user)])
       [] c.does = "group allow" ->
            WithEntry(cfg, g, [e EXCEPT !.allow = @ \cup {c.user}])
       [] c.does = "group unallow" ->
            Without(cfg, g, [e EXCEPT !.allow = RemoveFromArray(@, c.user)])
       [] c.does = "mention" ->
            WithEntry(cfg, g, [e EXCEPT !.mention = CHOOSE x \in c.given : TRUE])

Edited(cfg, c) ==
  IF c.does \in GroupEdits THEN GroupEdited(cfg, c)
  ELSE [cfg EXCEPT !.denyFrom = IF c.does = "deny" THEN @ \cup {c.user}
                                ELSE RemoveFromArray(@, c.user)]

(* What an edit is about, for the history.                                  *)
List(does) ==
  CASE does \in {"deny", "undeny"} -> "deny"
    [] does \in {"group deny", "group undeny"} -> "group deny"
    [] does \in {"group allow", "group unallow"} -> "group allow"
    [] does = "mention" -> "mention"

Noted(key, edit) ==
  [k \in DOMAIN last \cup {key} |-> IF k = key THEN edit ELSE last[k]]

(* The file is read, changed and written with no await in between.          *)
EditConfig(s) ==
  LET c == slots[s] IN
  /\ Ready(s, Edits)
  /\ ~torn
  /\ config' = Edited(config, c)
  /\ last' = Noted(<<List(c.does), c.user, c.group>>, <<c.does, c.given>>)
  /\ End(s)
  /\ UNCHANGED <<account, torn, friends, profile, budget>>

(* The file is written in place: writing that fails half-way leaves one     *)
(* that cannot be read, and an error for an answer.                         *)
EditFails(s) ==
  /\ Ready(s, Edits)
  /\ ~torn
  /\ Spend("failures")
  /\ torn' = TRUE
  /\ End(s)
  /\ UNCHANGED <<config, account, last, friends, profile>>

-----------------------------------------------------------------------------
(* update-profile: the fields that were not given are sent as they were.    *)
UpdateProfile(s) ==
  LET c == slots[s] IN
  /\ Ready(s, {"profile"})
  /\ profile' = [f \in ProfileField |-> IF f \in c.given THEN s ELSE c.seen[f]]
  /\ End(s)
  /\ UNCHANGED <<file, last, friends, budget>>

-----------------------------------------------------------------------------
(* Zalo takes the answer to a request; an accepted one makes an ADD event.  *)
(* Nobody has a name for an id, and none but an open request is answered.   *)
TakeAnswer(s) ==
  LET c == slots[s] IN
  /\ Ready(s, {"accept", "reject"})
  /\ c.user \in open
  /\ open' = open \ {c.user}
  /\ events' = IF c.does = "accept" THEN Append(events, <<"add", c.user>>)
               ELSE events
  /\ unsure' = IF c.does = "reject" /\ Contains(events, <<"request", c.user>>)
               THEN unsure \cup {c.user} ELSE unsure
  /\ slots' = [slots EXCEPT ![s].does = "taken", ![s].given = {c.does}]
  /\ UNCHANGED <<file, last, pending, stored, profile, budget>>

(* The list is kept in memory first, then written to its file, which may    *)
(* fail with nothing written or, half-way, leave a file that reads as empty.*)
Written == {"all", "nothing", "part"}

Saved(list, wrote) ==
  /\ pending' = list
  /\ stored' = CASE wrote = "all" -> list
                 [] wrote = "nothing" -> stored
                 [] wrote = "part" -> {}
  /\ IF wrote = "all" THEN UNCHANGED budget ELSE Spend("failures")

(* Bug: the request leaves the list whether or not Zalo took the answer.    *)
UnlistedAnyway(list, u, taken) == list \ {u}

Unlisted(list, u, taken) == IF taken THEN list \ {u} ELSE list

(* acceptFriendRequest and rejectFriendRequest return.                      *)
Answered(s, wrote) ==
  LET c == slots[s] IN
  /\ slots[s].does = "taken"
  /\ Saved(Unlisted(pending, c.user, TRUE), wrote)
  /\ End(s)
  /\ UNCHANGED <<file, last, open, events, unsure, profile>>

(* They throw: Zalo did not take the answer.                                *)
NotTaken(s) ==
  LET c == slots[s] IN
  /\ Ready(s, {"accept", "reject"})
  /\ pending' = Unlisted(pending, c.user, FALSE)
  /\ End(s)
  /\ UNCHANGED <<file, last, open, events, stored, unsure, profile, budget>>

(* They throw although Zalo did.                                            *)
AnswerLost(s) ==
  /\ slots[s].does = "taken"
  /\ unsure' = IF "reject" \in slots[s].given THEN unsure \cup {slots[s].user}
               ELSE unsure
  /\ End(s)
  /\ UNCHANGED <<file, last, open, events, pending, stored, profile, budget>>

-----------------------------------------------------------------------------
(* What users do who are no friends, and how the listener hears of it.      *)
Request(u) ==
  /\ u \notin Friend \cup open
  /\ Spend("requests")
  /\ open' = open \cup {u}
  /\ events' = Append(events, <<"request", u>>)
  /\ UNCHANGED <<file, slots, last, pending, stored, unsure, profile>>

Withdraw(u) ==
  /\ u \in open
  /\ Spend("requests")
  /\ open' = open \ {u}
  /\ events' = Append(events, <<"undo", u>>)
  /\ UNCHANGED <<file, slots, last, pending, stored, unsure, profile>>

(* The friend_event callback.  A request that comes while the answer to an  *)
(* earlier one is on its way back is taken from the list by that answer.    *)
FriendEvent(wrote) ==
  LET kind == Head(events)[1]
      u    == Head(events)[2]
  IN
  /\ events # <<>>
  /\ events' = Tail(events)
  /\ Saved(IF kind = "request" THEN pending \cup {u} ELSE pending \ {u}, wrote)
  /\ unsure' = IF kind = "request"
                  /\ \E s \in Slot : slots[s].does = "taken" /\ slots[s].user = u
               THEN unsure \cup {u} ELSE unsure
  /\ UNCHANGED <<file, slots, last, open, profile>>

(* The process dies, perhaps while it writes a file.  Events on the way are *)
(* lost with the connection; the list is what its file says, and empty if   *)
(* that cannot be read.                                                     *)
Crash(cut) ==
  /\ Spend("failures")
  /\ "config" \in cut => \E s \in Slot : Ready(s, Edits)
  /\ "requests" \in cut =>
       events # <<>> \/ \E s \in Slot : slots[s].does = "taken"
  /\ torn' = (torn \/ "config" \in cut)
  /\ stored' = IF "requests" \in cut THEN {} ELSE stored
  /\ pending' = stored'
  /\ unsure' = IF "requests" \in cut THEN User
               ELSE unsure \cup (pending \ stored) \cup (stored \ pending)
                    \cup {events[i][2] : i \in DOMAIN events}
                    \cup {slots[s].user : s \in {t \in Slot : slots[t].does = "taken"}}
  /\ events' = <<>>
  /\ slots' = [s \in Slot |-> Idle]
  /\ UNCHANGED <<config, account, last, open, profile>>

Handlers == {[needs |-> h.needs, resolves |-> h.resolves, does |-> h.does] :
               h \in Dispatch}

Next ==
  \/ \E s \in Slot :
       \/ \E h \in Handlers :
            \E user \in Users(h), group \in Groups(h), given \in Given(h) :
              Call(s, h, user, group, given)
       \/ Resolve1(s) \/ Fetched(s) \/ Fail(s) \/ Answer(s)
       \/ EditConfig(s) \/ EditFails(s) \/ UpdateProfile(s)
       \/ TakeAnswer(s) \/ NotTaken(s) \/ AnswerLost(s)
       \/ \E wrote \in Written : Answered(s, wrote)
  \/ \E h \in Handlers : Malformed(h)
  \/ \E u \in User : Request(u) \/ Withdraw(u)
  \/ \E wrote \in Written : FriendEvent(wrote)
  \/ \E cut \in SUBSET {"config", "requests"} : Crash(cut)

Spec == Init /\ [][Next]_vars

-----------------------------------------------------------------------------
(* The fields that accounts.<id> sets stand for those of the channel, and   *)
(* then a monitor that starts now looks up the names.                       *)
ForAccount(cfg) ==
  [f \in DOMAIN cfg |-> IF f \in account.sets THEN account.own[f] ELSE cfg[f]]

Started(cfg) == ResolveConfig(ForAccount(cfg), {"allow", "deny", "groups", "titles"})

(* A list names the user in other words than by the id.                     *)
Otherwise(u, list) == {Spelled(u), Named(u)} \cap list # {}

(* A user is denied in a group by other words, or by another entry.         *)
DeniedElsewhere(u, g) ==
  \/ Otherwise(u, EntryOf(config, g).deny)
  \/ \E k \in {Prefixed(g), ByName(g), AnyGroup} \cap DOMAIN config.groups :
       u \in config.groups[k].deny \/ Otherwise(u, config.groups[k].deny)

(* A group's own list of allowed users lets the user in by other words, or  *)
(* nobody is left in it, and then it keeps nobody out.                      *)
AllowedElsewhere(u, g) ==
  LET allow == EntryOf(config, g).allow
  IN allow = {} \/ Star \in allow \/ Spelled(u) \in allow

(***************************************************************************)
(* An edit that was answered with success is in force for a monitor that   *)
(* starts later, until the same entry is edited again, however calls       *)
(* overlap and fail: a blocked user is refused (everywhere, or in the      *)
(* group), an unblocked one is denied no more, one who was let into a      *)
(* group is not kept out by its list, one who was put out of that list is, *)
(* and the group's mention rule is the one set.  This needs that           *)
(* accounts.<id> does not set the field itself (accounts.ts:35-41), that   *)
(* nothing else in the file denies or allows the user (tool.ts removes one *)
(* entry, config-manager.ts:60-63), and a file that was not cut short.     *)
(***************************************************************************)
EditInForce(key, edit) ==
  LET cfg  == Started(config)
      u    == key[2]
      g    == key[3][2]
      does == edit[1]
  IN CASE does = "deny" -> \A t \in Group \cup {u} : Refused(cfg, u, t)
       [] does = "undeny" ->
            Listed(u, cfg.denyFrom) => Otherwise(u, config.denyFrom)
       [] does = "group deny" -> Refused(cfg, u, g)
       [] does = "group undeny" ->
            DeniedInGroup(cfg, u, g) => DeniedElsewhere(u, g)
       [] does = "group allow" -> ~OutsideAllowUsers(cfg, u, g)
       [] does = "group unallow" ->
            OutsideAllowUsers(cfg, u, g) \/ AllowedElsewhere(u, g)
       [] does = "mention" -> RequiresMention(cfg, g) = ("yes" \in edit[2])

Field(does) == IF does \in GroupEdits THEN "groups" ELSE "denyFrom"

EditsAreKept ==
  \A key \in DOMAIN last :
    ~torn /\ Field(last[key][1]) \notin account.sets => EditInForce(key, last[key])

(***************************************************************************)
(* An edit changes whether a monitor that starts later refuses a user only *)
(* for the user it names, and in the group it names.  Others are affected  *)
(* in that group only if it had no entry under its id, so that the new one *)
(* stands before those by name or for all groups (monitor.ts:356-378), or  *)
(* if its list of allowed users comes to be, or ceases to be, empty; and   *)
(* in all groups if it is the first entry for a particular one, because    *)
(* names denied in all groups are looked up only then (monitor.ts:1265).   *)
(***************************************************************************)
Concerns(c, v, t) ==
  \/ c.does \in {"deny", "undeny"} /\ v = c.user
  \/ c.does \in GroupEdits /\ t \in Group /\ DOMAIN config.groups \subseteq {AnyGroup}
  \/ /\ c.does \in GroupEdits /\ t = c.group[2]
     /\ \/ v = c.user /\ c.does # "mention"
        \/ ById(t) \notin DOMAIN config.groups
        \/ (EntryOf(config, t).allow = {}) # (EntryOf(config', t).allow = {})

OnlyTheNamedUser ==
  [][config # config' =>
       \A v \in User : \A t \in Group \cup {v} :
         Refused(Started(config), v, t) # Refused(Started(config'), v, t) =>
           \E s \in Slot : /\ slots[s] # Idle /\ slots'[s] = Idle
                           /\ Concerns(slots[s], v, t)]_vars

(***************************************************************************)
(* Between events the list holds exactly the requests that are open at     *)
(* Zalo, whatever calls and savings of the list fail, as long as no event  *)
(* or answer about the user was lost or crossed another one, and no crash  *)
(* followed a saving that failed (unsure): no request is forgotten, and    *)
(* none is listed that was withdrawn or answered (monitor.ts:1480-1496,    *)
(* tool.ts:819-833).                                                       *)
(***************************************************************************)
RequestsListed ==
  \A u \in User \ unsure :
    /\ \A i \in DOMAIN events : events[i][2] # u
    /\ \A s \in Slot : slots[s].does = "taken" => slots[s].user # u
    => (u \in pending <=> u \in open)
=============================================================================
