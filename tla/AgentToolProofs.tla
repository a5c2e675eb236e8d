--------------------------- MODULE AgentToolProofs ---------------------------
(***************************************************************************)
(* Proofs about AgentTool, for any users, groups, configurations, numbers  *)
(* of calls under way, failures and crashes.                               *)
(*                                                                         *)
(* A call that is ready to edit names its user and its group by id         *)
(* (CallGood), so two edits are of the same entry only if the history says *)
(* so (EditsInv).  Of the friend requests, the last event on its way       *)
(* decides what the list will say, and otherwise the answers that Zalo     *)
(* took and that have not come back (RequestGood).  Whom an edit concerns  *)
(* is decided by the candidates a group's entry is looked up under, in     *)
(* their order: the first of them is the only one that counts.             *)
(***************************************************************************)
EXTENDS AgentTool, SequenceTheorems, TLAPS

(* What a call can be, and what it was asked to do.                         *)
Plain == {"query", "change", "upload", "known", "own", "list", "accept", "reject",
          "profile"}
Does == Plain \cup Edits
UserEdits == GroupEdits \ {"mention"}
GroupIds == {ById(g) : g \in Group}
GroupNames == {ByName(g) : g \in Group}
Await == {"user", "group", "fetch", "read"}

IsCall(c) ==
  c \in [does : Does \cup {"idle", "taken"}, left : Seq(Await), user : {c.user},
         group : {c.group}, given : {c.given}, seen : {c.seen}]

(* A call for an edit names the user and the group by id when it is ready.  *)
CallGood(c) ==
  /\ IsCall(c)
  /\ c.does \in {"deny", "undeny"} =>
       /\ c.group = NoOne
       /\ (c.left = U /\ c.user \in Naming) \/ (c.left = <<>> /\ c.user \in User)
  /\ c.does \in UserEdits =>
       /\ c.group \in GroupIds \cup GroupNames
       /\ \/ c.left = UG /\ c.user \in Naming
          \/ c.left = G /\ c.user \in User
          \/ c.left = <<>> /\ c.user \in User /\ c.group \in GroupIds
  /\ c.does = "mention" =>
       /\ c.user = NoOne
       /\ c.given \in {{"yes"}, {"no"}}
       /\ c.group \in GroupIds \cup GroupNames
       /\ c.left = G \/ (c.left = <<>> /\ c.group \in GroupIds)
  /\ c.does = "profile" => c.given \subseteq ProfileField
  /\ c.does = "taken" => c.left = <<>> /\ c.given \in {{"accept"}, {"reject"}}

EventType == {"request", "undo", "add"} \X User

Typed ==
  /\ DOMAIN slots = Slot
  /\ \A s \in Slot : CallGood(slots[s])
  /\ IsConfig(config) /\ IsConfig(account.own)
  /\ open \subseteq User
  /\ events \in Seq(EventType)

-----------------------------------------------------------------------------
(* The rows of the tool's table.                                            *)
Sound(h) ==
  /\ h.does \in Does
  /\ h.resolves \in Seq({"user", "group"})
  /\ h.does \in {"deny", "undeny"} =>
       h.resolves = U /\ "groupId" \notin h.needs /\ "userId" \in h.needs
  /\ h.does \in UserEdits =>
       h.resolves = UG /\ "groupId" \in h.needs /\ "userId" \in h.needs
  /\ h.does = "mention" =>
       /\ h.resolves = G /\ "groupId" \in h.needs
       /\ h.needs \cap {"userId", "memberIds"} = {}

LEMMA PlainRows ==
  ASSUME NEW actions, NEW needs, NEW resolves \in {<<>>, U, G, GU, UG}, NEW does \in Plain
  PROVE  \A h \in H(actions, needs, resolves, does) : Sound(h)
<1>1. resolves \in Seq({"user", "group"})
  <2>1. <<>> \in Seq({"user", "group"})
    OBVIOUS
  <2>2. U \in Seq({"user", "group"})
    BY DEF U
  <2>3. G \in Seq({"user", "group"})
    BY DEF G
  <2>4. GU \in Seq({"user", "group"})
    BY DEF GU
  <2>5. UG \in Seq({"user", "group"})
    BY DEF UG
  <2> QED BY <2>1, <2>2, <2>3, <2>4, <2>5
<1>2. does \in Does /\ does \notin {"deny", "undeny"} \cup UserEdits \cup {"mention"}
  BY DEF Plain, Does, UserEdits, GroupEdits
<1>3. \A h \in H(actions, needs, resolves, does) : h.resolves = resolves /\ h.does = does
  BY DEF H
<1> QED BY <1>1, <1>2, <1>3 DEF Sound

LEMMA SendRows == \A h \in SendActions : Sound(h)
BY PlainRows DEF SendActions, Plain

LEMMA MessageRows == \A h \in MessageActions : Sound(h)
BY PlainRows DEF MessageActions, Plain

LEMMA FriendRows == \A h \in FriendActions : Sound(h)
BY PlainRows DEF FriendActions, Plain

LEMMA ContactRows == \A h \in ContactActions : Sound(h)
BY PlainRows DEF ContactActions, Plain

LEMMA GroupRows == \A h \in GroupActions : Sound(h)
BY PlainRows DEF GroupActions, Plain

LEMMA GroupMemberRows == \A h \in GroupMemberActions : Sound(h)
BY PlainRows DEF GroupMemberActions, Plain

LEMMA PollRows == \A h \in PollActions : Sound(h)
BY PlainRows DEF PollActions, Plain

LEMMA ConversationRows == \A h \in ConversationActions : Sound(h)
BY PlainRows DEF ConversationActions, Plain

LEMMA SettingRows == \A h \in SettingActions : Sound(h)
BY PlainRows DEF SettingActions, Plain

LEMMA ProfileRows == \A h \in ProfileActions : Sound(h)
BY PlainRows DEF ProfileActions, Plain

LEMMA BoardRows == \A h \in BoardActions : Sound(h)
BY PlainRows DEF BoardActions, Plain

LEMMA NewRows == \A h \in NewActions : Sound(h)
BY PlainRows DEF NewActions, Plain

LEMMA UserRows ==
  ASSUME NEW actions, NEW does \in {"deny", "undeny"}
  PROVE  \A h \in H(actions, {"userId"}, U, does) : Sound(h)
<1>1. does \in Does /\ does \notin UserEdits /\ does # "mention"
  BY DEF Does, Edits, UserEdits, GroupEdits
<1>2. U \in Seq({"user", "group"})
  BY DEF U
<1> QED BY <1>1, <1>2 DEF H, Sound

LEMMA MemberRows ==
  ASSUME NEW actions, NEW does \in UserEdits
  PROVE  \A h \in H(actions, {"userId", "groupId"}, UG, does) : Sound(h)
<1>1. does \in Does /\ does \notin {"deny", "undeny"} /\ does # "mention"
  BY DEF Does, Edits, UserEdits, GroupEdits
<1>2. UG \in Seq({"user", "group"})
  BY DEF UG
<1> QED BY <1>1, <1>2 DEF H, Sound

LEMMA MentionRows ==
  ASSUME NEW actions
  PROVE  \A h \in H(actions, {"groupId", "requireMention"}, G, "mention") : Sound(h)
<1>1. "mention" \in Does /\ "mention" \notin UserEdits
  BY DEF Does, Edits, UserEdits, GroupEdits
<1>2. G \in Seq({"user", "group"})
  BY DEF G
<1> QED BY <1>1, <1>2 DEF H, Sound

LEMMA ConfigRows == \A h \in ConfigActions : Sound(h)
<1>1. {"group deny", "group undeny", "group allow", "group unallow"} \subseteq UserEdits
  BY DEF UserEdits, GroupEdits
<1> QED BY <1>1, PlainRows, UserRows, MemberRows, MentionRows DEF ConfigActions, Plain

LEMMA AllSound == \A h \in Handlers : Sound(h)
<1>1. \A h \in Dispatch : Sound(h)
  BY SendRows, MessageRows, FriendRows, ContactRows, GroupRows, GroupMemberRows,
     PollRows, ConversationRows, SettingRows, ProfileRows, BoardRows, ConfigRows,
     NewRows
     DEF Dispatch
<1> QED BY <1>1 DEF Handlers, Sound

-----------------------------------------------------------------------------
(* Every call there is is a good one.                                       *)
LEMMA IdleGood == CallGood(Idle)
<1>1. <<>> \in Seq(Await)
  OBVIOUS
<1>2. IsCall(Idle)
  BY <1>1 DEF IsCall, Idle
<1>3. Idle.does = "idle"
  BY DEF Idle
<1> QED BY <1>2, <1>3 DEF CallGood, UserEdits, GroupEdits

LEMMA AwaitsOf ==
  ASSUME NEW h, Sound(h)
  PROVE  /\ Awaits(h) \in Seq(Await)
         /\ h.does \in Edits => Awaits(h) = h.resolves
<1>1. h.resolves \in Seq({"user", "group"}) /\ {"user", "group"} \subseteq Await
  BY DEF Sound, Await
<1>2. h.resolves \in Seq(Await)
  BY <1>1
<1>3. <<>> \in Seq(Await)
  OBVIOUS
<1>4. <<"fetch">> \in Seq(Await)
  BY DEF Await
<1>5. <<"read">> \in Seq(Await)
  BY DEF Await
<1>6. \A s \in Seq(Await) : h.resolves \o s \in Seq(Await)
  BY <1>2, ConcatProperties
<1>7. Awaits(h) \in Seq(Await)
  BY <1>3, <1>4, <1>5, <1>6 DEF Awaits
<1>8. h.does \in Edits => h.does # "upload" /\ h.does # "profile"
  BY DEF Edits, GroupEdits
<1>9. h.resolves \o <<>> = h.resolves
  BY <1>2, ConcatEmptySeq
<1>10. h.does \in Edits => Awaits(h) = h.resolves
  BY <1>8, <1>9, Zenon DEF Awaits
<1> QED BY <1>7, <1>10

LEMMA CallIsGood ==
  ASSUME NEW h, Sound(h), NEW user \in Users(h), NEW group \in Groups(h),
         NEW given \in Given(h)
  PROVE  CallGood([does |-> h.does, left |-> Awaits(h), user |-> user,
                   group |-> group, given |-> given, seen |-> <<>>])
<1> DEFINE c == [does |-> h.does, left |-> Awaits(h), user |-> user,
                 group |-> group, given |-> given, seen |-> <<>>]
<1>1. /\ c.does = h.does /\ c.left = Awaits(h) /\ c.user = user
      /\ c.group = group /\ c.given = given
  OBVIOUS
<1>2. IsCall(c)
  BY AwaitsOf DEF IsCall, Sound
<1> HIDE DEF c
<1>3. h.does \in Does /\ "taken" \notin Does
  BY DEF Sound, Does, Plain, Edits, GroupEdits
<1>4. ASSUME h.does \in {"deny", "undeny"}
      PROVE  group = NoOne /\ Awaits(h) = U /\ user \in Naming
  BY <1>4, AwaitsOf DEF Sound, Edits, Groups, Users
<1>5. ASSUME h.does \in UserEdits
      PROVE  group \in GroupIds \cup GroupNames /\ Awaits(h) = UG /\ user \in Naming
  BY <1>5, AwaitsOf DEF Sound, Edits, UserEdits, Groups, Users, GroupIds, GroupNames
<1>6. ASSUME h.does = "mention"
      PROVE  /\ user = NoOne /\ Awaits(h) = G /\ group \in GroupIds \cup GroupNames
             /\ given \in {{"yes"}, {"no"}}
  <2>1. given \in {{"yes"}, {"no"}}
    BY <1>6 DEF Given
  <2> QED BY <1>6, <2>1, AwaitsOf
          DEF Sound, Edits, GroupEdits, Groups, Users, GroupIds, GroupNames
<1>7. ASSUME h.does = "profile" PROVE given \subseteq ProfileField
  BY <1>7 DEF Given
<1>8. CallGood(c)
  BY <1>1, <1>2, <1>3, <1>4, <1>5, <1>6, <1>7 DEF CallGood
<1> QED BY <1>8 DEF c

LEMMA AwaitsDiffer ==
  /\ \A x : <<x>> # <<>>
  /\ Head(U) = "user" /\ Tail(U) = <<>>
  /\ Head(G) = "group" /\ Tail(G) = <<>>
  /\ Head(UG) = "user" /\ Tail(UG) = G
  /\ U # <<>> /\ G # <<>> /\ UG # <<>>
  /\ {U, G, UG, <<>>} \cap {<<"fetch">>, <<"read">>} = {}
<1>1. Tail(U) = <<>>
  BY DEF U
<1>2. Tail(G) = <<>>
  BY DEF G
<1>3. Tail(UG) = G
  BY DEF UG, G
<1>4. \A x : <<x>> # <<>>
  OBVIOUS
<1>5. U # <<>> /\ G # <<>> /\ UG # <<>>
  BY DEF U, G, UG
<1>6. U \notin {<<"fetch">>, <<"read">>} /\ G \notin {<<"fetch">>, <<"read">>}
  BY DEF U, G
<1>7. UG \notin {<<"fetch">>, <<"read">>}
  <2>1. Len(UG) = 2 /\ Len(<<"fetch">>) = 1 /\ Len(<<"read">>) = 1
    BY DEF UG
  <2> QED BY <2>1
<1>8. Head(U) = "user" /\ Head(G) = "group" /\ Head(UG) = "user"
  BY DEF U, G, UG
<1> QED BY <1>1, <1>2, <1>3, <1>4, <1>5, <1>6, <1>7, <1>8

LEMMA NameOfUser == ASSUME NEW x \in Naming PROVE IdOf(x) \in User
BY AgentToolAssumption DEF IdOf, Named

LEMMA GroupNamed ==
  ASSUME NEW k \in GroupIds \cup GroupNames PROVE ById(k[2]) \in GroupIds
BY DEF GroupIds, GroupNames, ById, ByName

(* What the resolution of a name makes of a call.                           *)
LEMMA NameResolved ==
  ASSUME NEW c, CallGood(c), c.left # <<>>, Head(c.left) \in {"user", "group"}
  PROVE  CallGood(IF Head(c.left) = "user"
                  THEN [c EXCEPT !.left = Tail(@), !.user = IdOf(@)]
                  ELSE [c EXCEPT !.left = Tail(@), !.group = ById(@[2])])
<1> DEFINE r == [c EXCEPT !.left = Tail(@), !.user = IdOf(@)]
           q == [c EXCEPT !.left = Tail(@), !.group = ById(@[2])]
<1>1. c \in [does : Does \cup {"idle", "taken"}, left : Seq(Await), user : {c.user},
             group : {c.group}, given : {c.given}, seen : {c.seen}]
  BY DEF CallGood, IsCall
<1>2. Tail(c.left) \in Seq(Await)
  BY <1>1, HeadTailProperties
<1>3. /\ r.does = c.does /\ r.left = Tail(c.left) /\ r.user = IdOf(c.user)
      /\ r.group = c.group /\ r.given = c.given
  BY <1>1
<1>4. /\ q.does = c.does /\ q.left = Tail(c.left) /\ q.user = c.user
      /\ q.group = ById(c.group[2]) /\ q.given = c.given
  BY <1>1
<1>5. IsCall(r)
  BY <1>1, <1>2 DEF IsCall
<1>6. IsCall(q)
  BY <1>1, <1>2 DEF IsCall
<1> HIDE DEF r, q
<1>7. ASSUME Head(c.left) = "user" PROVE CallGood(r)
  <2>1. c.does \in {"deny", "undeny"} =>
          c.group = NoOne /\ Tail(c.left) = <<>> /\ IdOf(c.user) \in User
    BY <1>7, AwaitsDiffer, NameOfUser DEF CallGood
  <2>2. c.does \in UserEdits =>
          /\ c.group \in GroupIds \cup GroupNames
          /\ Tail(c.left) = G /\ IdOf(c.user) \in User
    BY <1>7, AwaitsDiffer, NameOfUser DEF CallGood
  <2>3. c.does # "mention" /\ c.does # "taken"
    BY <1>7, AwaitsDiffer DEF CallGood
  <2>4. c.does = "profile" => c.given \subseteq ProfileField
    BY DEF CallGood
  <2> QED BY <1>3, <1>5, <2>1, <2>2, <2>3, <2>4 DEF CallGood
<1>8. ASSUME Head(c.left) = "group" PROVE CallGood(q)
  <2>1. c.does \notin {"deny", "undeny"}
    BY <1>8, AwaitsDiffer DEF CallGood
  <2>2. c.does \in UserEdits =>
          /\ ById(c.group[2]) \in GroupIds
          /\ Tail(c.left) = <<>> /\ c.user \in User
    BY <1>8, AwaitsDiffer, GroupNamed DEF CallGood
  <2>3. c.does = "mention" =>
          /\ c.user = NoOne /\ c.given \in {{"yes"}, {"no"}}
          /\ ById(c.group[2]) \in GroupIds /\ Tail(c.left) = <<>>
    BY <1>8, AwaitsDiffer, GroupNamed DEF CallGood
  <2>4. c.does # "taken" /\ (c.does = "profile" => c.given \subseteq ProfileField)
    BY DEF CallGood
  <2> QED BY <1>4, <1>6, <2>1, <2>2, <2>3, <2>4 DEF CallGood
<1> QED BY <1>7, <1>8 DEF r, q

-----------------------------------------------------------------------------
(* What an edit makes of the configuration.                                 *)
LEMMA NoEntryIsOne == NoEntry \in GroupEntry
BY DEF NoEntry, GroupEntry

LEMMA EntryIsOne ==
  ASSUME NEW cfg, IsConfig(cfg), NEW g
  PROVE  EntryOf(cfg, g) \in GroupEntry
BY NoEntryIsOne DEF EntryOf, IsConfig

LEMMA WithEntryIs ==
  ASSUME NEW cfg, IsConfig(cfg), NEW g \in Group, NEW e \in GroupEntry
  PROVE  LET new == WithEntry(cfg, g, e)
         IN /\ IsConfig(new)
            /\ new.denyFrom = cfg.denyFrom
            /\ new.groupPolicy = cfg.groupPolicy
            /\ DOMAIN new.groups = DOMAIN cfg.groups \cup {ById(g)}
            /\ new.groups[ById(g)] = e
            /\ \A k \in DOMAIN cfg.groups :
                 k # ById(g) => new.groups[k] = cfg.groups[k]
<1> DEFINE gs == Put(cfg.groups, ById(g), e)
           new == [cfg EXCEPT !.groups = gs]
<1>1. cfg \in [denyFrom : SUBSET Entry, allowFrom : SUBSET Entry,
               dmPolicy : {"open", "pairing", "allowlist", "disabled"},
               groupPolicy : {"open", "allowlist", "disabled"},
               groups : {cfg.groups}]
  BY Zenon DEF IsConfig
<1>2. cfg.groups \in [DOMAIN cfg.groups -> GroupEntry]
  BY Zenon DEF IsConfig
<1>3. /\ DOMAIN gs = DOMAIN cfg.groups \cup {ById(g)}
      /\ gs[ById(g)] = e
      /\ \A k \in DOMAIN cfg.groups : k # ById(g) => gs[k] = cfg.groups[k]
      /\ gs \in [DOMAIN gs -> GroupEntry]
  <2>1. gs = [j \in DOMAIN cfg.groups \cup {ById(g)} |->
                IF j = ById(g) THEN e ELSE cfg.groups[j]]
    BY DEF Put
  <2>2. \A k \in DOMAIN cfg.groups : cfg.groups[k] \in GroupEntry
    BY <1>2
  <2> HIDE DEF gs
  <2> QED BY <2>1, <2>2
<1> HIDE DEF gs
<1>4. /\ new.groups = gs /\ new.denyFrom = cfg.denyFrom
      /\ new.groupPolicy = cfg.groupPolicy
      /\ new \in [denyFrom : SUBSET Entry, allowFrom : SUBSET Entry,
                  dmPolicy : {"open", "pairing", "allowlist", "disabled"},
                  groupPolicy : {"open", "allowlist", "disabled"},
                  groups : {new.groups}]
  BY <1>1
<1>5. IsConfig(new)
  <2> HIDE DEF new
  <2> QED BY <1>3, <1>4 DEF IsConfig
<1>6. WithEntry(cfg, g, e) = new
  BY DEF WithEntry, gs
<1> HIDE DEF new
<1> QED BY <1>3, <1>4, <1>5, <1>6

Choice(given) == CHOOSE x \in given : TRUE

(* The entry an edit of a group's lists or its mention rule leaves.         *)
Revised(e, c) ==
  [deny |-> IF c.does = "group deny" THEN e.deny \cup {c.user}
            ELSE IF c.does = "group undeny" THEN e.deny \ {c.user} ELSE e.deny,
   allow |-> IF c.does = "group allow" THEN e.allow \cup {c.user}
             ELSE IF c.does = "group unallow" THEN e.allow \ {c.user} ELSE e.allow,
   open |-> e.open,
   mention |-> IF c.does = "mention" THEN Choice(c.given) ELSE e.mention]

LEMMA Chosen ==
  ASSUME NEW given \in {{"yes"}, {"no"}}
  PROVE  Choice(given) \in given
BY DEF Choice

(* A call that is ready to edit.                                            *)
Editor(c) == CallGood(c) /\ c.does \in Edits /\ c.left = <<>>

LEMMA EditorNames ==
  ASSUME NEW c, Editor(c)
  PROVE  /\ c.does # "mention" => c.user \in User
         /\ c.does = "mention" => c.user = NoOne /\ c.given \in {{"yes"}, {"no"}}
         /\ c.does \in GroupEdits =>
              c.group \in GroupIds /\ c.group[2] \in Group /\ c.group = ById(c.group[2])
         /\ c.does \notin GroupEdits => c.group = NoOne
<1>1. \A k \in GroupIds : k[2] \in Group /\ k = ById(k[2])
  BY DEF GroupIds, ById
<1>2. c.left # U /\ c.left # G /\ c.left # UG
  BY AwaitsDiffer DEF Editor
<1>3. c.does \in {"deny", "undeny"} \/ c.does \in UserEdits \/ c.does = "mention"
  BY DEF Editor, Edits, UserEdits
<1>4. {"deny", "undeny"} \cap GroupEdits = {} /\ "mention" \notin UserEdits
      /\ "mention" \in GroupEdits /\ UserEdits \subseteq GroupEdits
      /\ UserEdits \cap {"deny", "undeny"} = {}
  BY DEF UserEdits, GroupEdits
<1> QED BY <1>1, <1>2, <1>3, <1>4 DEF Editor, CallGood

LEMMA RevisedIsEntry ==
  ASSUME NEW e \in GroupEntry, NEW c, Editor(c), c.does \in GroupEdits
  PROVE  Revised(e, c) \in GroupEntry
<1>1. c.does # "mention" => c.user \in Entry
  BY EditorNames DEF Entry
<1>2. c.does = "mention" => Choice(c.given) \in {"yes", "no"}
  <2>1. c.does = "mention" => c.given \in {{"yes"}, {"no"}}
    BY EditorNames
  <2> QED BY <2>1, Chosen
<1>3. /\ e.deny \subseteq Entry /\ e.allow \subseteq Entry /\ e.open \in BOOLEAN
      /\ e.mention \in {"unset", "yes", "no"}
  BY DEF GroupEntry
<1> QED BY <1>1, <1>2, <1>3 DEF Revised, GroupEntry

LEMMA EntryWith ==
  ASSUME NEW e \in GroupEntry, NEW x
  PROVE  /\ [e EXCEPT !.deny = x] =
              [deny |-> x, allow |-> e.allow, open |-> e.open, mention |-> e.mention]
         /\ [e EXCEPT !.allow = x] =
              [deny |-> e.deny, allow |-> x, open |-> e.open, mention |-> e.mention]
         /\ [e EXCEPT !.mention = x] =
              [deny |-> e.deny, allow |-> e.allow, open |-> e.open, mention |-> x]
BY DEF GroupEntry

(* An edit of a group's entry revises that entry, or leaves all as it was   *)
(* if it would take a user from an entry there is not.                      *)
LEMMA GroupEditedIs ==
  ASSUME NEW cfg, IsConfig(cfg), NEW c, Editor(c), c.does \in GroupEdits
  PROVE  LET g == c.group[2]
         IN IF c.does \in {"group undeny", "group unallow"}
                 /\ ById(g) \notin DOMAIN cfg.groups
            THEN Edited(cfg, c) = cfg
            ELSE Edited(cfg, c) = WithEntry(cfg, g, Revised(EntryOf(cfg, g), c))
<1> DEFINE g == c.group[2]
           e == EntryOf(cfg, g)
<1>1. e \in GroupEntry
  BY EntryIsOne
<1>2. Edited(cfg, c) = GroupEdited(cfg, c)
  BY DEF Edited
<1>3. CASE c.does = "group deny"
  <2>1. [e EXCEPT !.deny = @ \cup {c.user}] = Revised(e, c)
    <3> DEFINE x == e.deny \cup {c.user}
    <3>1. Revised(e, c) = [deny |-> x, allow |-> e.allow, open |-> e.open,
                           mention |-> e.mention]
      BY <1>3 DEF Revised
    <3>2. [e EXCEPT !.deny = @ \cup {c.user}] = [e EXCEPT !.deny = x]
      BY <1>1 DEF GroupEntry
    <3> HIDE DEF x
    <3>3. [e EXCEPT !.deny = x] = [deny |-> x, allow |-> e.allow, open |-> e.open,
                                   mention |-> e.mention]
      BY <1>1, EntryWith, Zenon
    <3> QED BY <3>1, <3>2, <3>3, Zenon
  <2>2. GroupEdited(cfg, c) = WithEntry(cfg, g, [e EXCEPT !.deny = @ \cup {c.user}])
    BY <1>3 DEF GroupEdited
  <2> QED BY <1>2, <1>3, <2>1, <2>2
<1>4. CASE c.does = "group undeny"
  <2>1. [e EXCEPT !.deny = RemoveFromArray(@, c.user)] = Revised(e, c)
    <3> DEFINE x == e.deny \ {c.user}
    <3>1. Revised(e, c) = [deny |-> x, allow |-> e.allow, open |-> e.open,
                           mention |-> e.mention]
      BY <1>4 DEF Revised
    <3>2. [e EXCEPT !.deny = RemoveFromArray(@, c.user)] = [e EXCEPT !.deny = x]
      BY <1>1 DEF GroupEntry, RemoveFromArray
    <3> HIDE DEF x
    <3>3. [e EXCEPT !.deny = x] = [deny |-> x, allow |-> e.allow, open |-> e.open,
                                   mention |-> e.mention]
      BY <1>1, EntryWith, Zenon
    <3> QED BY <3>1, <3>2, <3>3, Zenon
  <2>2. GroupEdited(cfg, c) =
          Without(cfg, g, [e EXCEPT !.deny = RemoveFromArray(@, c.user)])
    BY <1>4 DEF GroupEdited
  <2> QED BY <1>2, <1>4, <2>1, <2>2 DEF Without
<1>5. CASE c.does = "group allow"
  <2>1. [e EXCEPT !.allow = @ \cup {c.user}] = Revised(e, c)
    <3>1. Revised(e, c) = [deny |-> e.deny, allow |-> e.allow \cup {c.user}, open |-> e.open,
                           mention |-> e.mention]
      BY <1>5 DEF Revised
    <3> QED BY <1>1, <3>1, EntryWith, Zenon
  <2>2. GroupEdited(cfg, c) = WithEntry(cfg, g, [e EXCEPT !.allow = @ \cup {c.user}])
    BY <1>5 DEF GroupEdited
  <2> QED BY <1>2, <1>5, <2>1, <2>2
<1>6. CASE c.does = "group unallow"
  <2>1. [e EXCEPT !.allow = RemoveFromArray(@, c.user)] = Revised(e, c)
    <3>1. Revised(e, c) = [deny |-> e.deny, allow |-> e.allow \ {c.user}, open |-> e.open,
                           mention |-> e.mention]
      BY <1>6 DEF Revised
    <3> QED BY <1>1, <3>1, EntryWith, Zenon DEF RemoveFromArray
  <2>2. GroupEdited(cfg, c) =
          Without(cfg, g, [e EXCEPT !.allow = RemoveFromArray(@, c.user)])
    BY <1>6 DEF GroupEdited
  <2> QED BY <1>2, <1>6, <2>1, <2>2 DEF Without
<1>7. CASE c.does = "mention"
  <2>1. [e EXCEPT !.mention = Choice(c.given)] = Revised(e, c)
    <3>1. Revised(e, c) = [deny |-> e.deny, allow |-> e.allow, open |-> e.open,
                           mention |-> Choice(c.given)]
      BY <1>7 DEF Revised
    <3> QED BY <1>1, <3>1, EntryWith, Zenon
  <2>2. GroupEdited(cfg, c) = WithEntry(cfg, g, [e EXCEPT !.mention = Choice(c.given)])
    BY <1>7 DEF GroupEdited, Choice
  <2> QED BY <1>2, <1>7, <2>1, <2>2
<1> QED BY <1>3, <1>4, <1>5, <1>6, <1>7 DEF GroupEdits

(* The other edits are of the list for everybody.                           *)
LEMMA DenyEditedIs ==
  ASSUME NEW cfg, IsConfig(cfg), NEW c, Editor(c), c.does \notin GroupEdits
  PROVE  LET new == Edited(cfg, c)
         IN /\ IsConfig(new)
            /\ new.denyFrom = IF c.does = "deny" THEN cfg.denyFrom \cup {c.user}
                              ELSE cfg.denyFrom \ {c.user}
            /\ new.groups = cfg.groups
            /\ new.groupPolicy = cfg.groupPolicy
<1> DEFINE list == IF c.does = "deny" THEN cfg.denyFrom \cup {c.user}
                   ELSE cfg.denyFrom \ {c.user}
           new == [cfg EXCEPT !.denyFrom = list]
<1>1. cfg \in [denyFrom : SUBSET Entry, allowFrom : SUBSET Entry,
               dmPolicy : {"open", "pairing", "allowlist", "disabled"},
               groupPolicy : {"open", "allowlist", "disabled"},
               groups : {cfg.groups}]
  BY Zenon DEF IsConfig
<1>2. cfg.groups \in [DOMAIN cfg.groups -> GroupEntry]
  BY Zenon DEF IsConfig
<1>3. c.user \in Entry
  BY EditorNames DEF Entry, GroupEdits
<1>4. list \subseteq Entry
  <2>1. cfg.denyFrom \subseteq Entry
    BY <1>1
  <2> QED BY <1>3, <2>1
<1> HIDE DEF list
<1>5. /\ new.groups = cfg.groups /\ new.denyFrom = list
      /\ new.groupPolicy = cfg.groupPolicy
      /\ new \in [denyFrom : SUBSET Entry, allowFrom : SUBSET Entry,
                  dmPolicy : {"open", "pairing", "allowlist", "disabled"},
                  groupPolicy : {"open", "allowlist", "disabled"},
                  groups : {new.groups}]
  BY <1>1, <1>4
<1>6. IsConfig(new)
  <2> HIDE DEF new
  <2> QED BY <1>2, <1>5 DEF IsConfig
<1>7. Edited(cfg, c) = new
  BY <1>1 DEF Edited, RemoveFromArray, list
<1> HIDE DEF new
<1> QED BY <1>5, <1>6, <1>7 DEF list

LEMMA EditedIsConfig ==
  ASSUME NEW cfg, IsConfig(cfg), NEW c, Editor(c)
  PROVE  IsConfig(Edited(cfg, c))
<1>1. CASE c.does \in GroupEdits
  <2> DEFINE g == c.group[2]
             e == Revised(EntryOf(cfg, g), c)
  <2>1. g \in Group
    BY <1>1, EditorNames
  <2>2. e \in GroupEntry
    BY <1>1, EntryIsOne, RevisedIsEntry
  <2>3. Edited(cfg, c) = cfg \/ Edited(cfg, c) = WithEntry(cfg, g, e)
    BY <1>1, GroupEditedIs
  <2> HIDE DEF g, e
  <2>4. IsConfig(WithEntry(cfg, g, e))
    BY <2>1, <2>2, WithEntryIs
  <2> QED BY <2>3, <2>4
<1>2. CASE c.does \notin GroupEdits
  BY <1>2, DenyEditedIs
<1> QED BY <1>1, <1>2

-----------------------------------------------------------------------------
(* The steps keep the types.                                                *)
Calls == DOMAIN slots = Slot /\ \A t \in Slot : CallGood(slots[t])

LEMMA SlotChanged ==
  ASSUME Calls, NEW s \in Slot, NEW c, CallGood(c), slots' = [slots EXCEPT ![s] = c]
  PROVE  Calls'
BY DEF Calls

LEMMA SlotEnded == ASSUME Calls, NEW s \in Slot, End(s) PROVE Calls'
BY SlotChanged, IdleGood DEF End

LEMMA AllIdle == ASSUME slots' = [s \in Slot |-> Idle] PROVE Calls'
BY IdleGood DEF Calls

LEMMA FetchedGood ==
  ASSUME NEW c, CallGood(c), c.left \in {<<"fetch">>, <<"read">>}, NEW x
  PROVE  CallGood([c EXCEPT !.left = <<>>, !.seen = x])
<1> DEFINE r == [does |-> c.does, left |-> <<>>, user |-> c.user, group |-> c.group,
                 given |-> c.given, seen |-> x]
<1>1. c \in [does : Does \cup {"idle", "taken"}, left : Seq(Await), user : {c.user},
             group : {c.group}, given : {c.given}, seen : {c.seen}]
  BY DEF CallGood, IsCall
<1>2. [c EXCEPT !.left = <<>>, !.seen = x] = r
  <2>1. [c EXCEPT !.left = <<>>] =
          [does |-> c.does, left |-> <<>>, user |-> c.user, group |-> c.group,
           given |-> c.given, seen |-> c.seen]
    BY <1>1
  <2>2. [[does |-> c.does, left |-> <<>>, user |-> c.user, group |-> c.group,
          given |-> c.given, seen |-> c.seen] EXCEPT !.seen = x] = r
    OBVIOUS
  <2> QED BY <2>1, <2>2, Zenon
<1>3. <<>> \in Seq(Await)
  OBVIOUS
<1>4. IsCall(r)
  BY <1>1, <1>3 DEF IsCall
<1>5. c.does \notin {"deny", "undeny", "mention", "taken"} /\ c.does \notin UserEdits
  BY AwaitsDiffer DEF CallGood
<1>6. c.does = "profile" => c.given \subseteq ProfileField
  BY DEF CallGood
<1>7. r.does = c.does /\ r.given = c.given
  OBVIOUS
<1> HIDE DEF r
<1>8. CallGood(r)
  BY <1>4, <1>5, <1>6, <1>7 DEF CallGood
<1> QED BY <1>2, <1>8

LEMMA FetchedSlot ==
  ASSUME Calls, NEW s \in Slot, Fetched(s)
  PROVE  \E x : slots' = [slots EXCEPT ![s] = [slots[s] EXCEPT !.left = <<>>, !.seen = x]]
<1> DEFINE x == IF slots[s].does = "profile" THEN profile ELSE <<>>
<1>1. slots' = [slots EXCEPT ![s].left = <<>>, ![s].seen = x]
  BY DEF Fetched
<1> HIDE DEF x
<1>2. slots' = [slots EXCEPT ![s] = [slots[s] EXCEPT !.left = <<>>, !.seen = x]]
  BY <1>1 DEF Calls
<1> QED BY <1>2

LEMMA TakenGood ==
  ASSUME NEW c, CallGood(c), c.left = <<>>, c.does \in {"accept", "reject"}
  PROVE  CallGood([c EXCEPT !.does = "taken", !.given = {c.does}])
<1> DEFINE r == [does |-> "taken", left |-> c.left, user |-> c.user, group |-> c.group,
                 given |-> {c.does}, seen |-> c.seen]
<1>1. c \in [does : Does \cup {"idle", "taken"}, left : Seq(Await), user : {c.user},
             group : {c.group}, given : {c.given}, seen : {c.seen}]
  BY DEF CallGood, IsCall
<1>2. [c EXCEPT !.does = "taken", !.given = {c.does}] = r
  <2> DEFINE y == {c.does}
             q == [does |-> "taken", left |-> c.left, user |-> c.user,
                   group |-> c.group, given |-> c.given, seen |-> c.seen]
  <2> HIDE DEF y
  <2>1. [c EXCEPT !.does = "taken"] = q
    BY <1>1
  <2>2. [q EXCEPT !.given = y] =
          [does |-> "taken", left |-> c.left, user |-> c.user, group |-> c.group,
           given |-> y, seen |-> c.seen]
    OBVIOUS
  <2> QED BY <2>1, <2>2, Zenon DEF y
<1>3. IsCall(r)
  BY <1>1 DEF IsCall
<1>4. r.does = "taken" /\ r.left = <<>> /\ r.given \in {{"accept"}, {"reject"}}
  <2>1. {c.does} \in {{"accept"}, {"reject"}}
    OBVIOUS
  <2>2. r.does = "taken" /\ r.left = c.left /\ r.given = {c.does}
    OBVIOUS
  <2> QED BY <2>1, <2>2
<1> HIDE DEF r
<1>5. CallGood(r)
  BY <1>3, <1>4 DEF CallGood, UserEdits, GroupEdits
<1> QED BY <1>2, <1>5

LEMMA TakenSlot ==
  ASSUME Calls, NEW s \in Slot, TakeAnswer(s)
  PROVE  slots' = [slots EXCEPT ![s] = [slots[s] EXCEPT !.does = "taken",
                                                        !.given = {slots[s].does}]]
<1> DEFINE x == {slots[s].does}
<1>1. slots' = [slots EXCEPT ![s].does = "taken", ![s].given = x]
  BY DEF TakeAnswer
<1> HIDE DEF x
<1>2. slots' = [slots EXCEPT ![s] = [slots[s] EXCEPT !.does = "taken", !.given = x]]
  BY <1>1 DEF Calls
<1> QED BY <1>2 DEF x

LEMMA EventsGrow ==
  ASSUME events \in Seq(EventType), NEW e \in EventType, events' = Append(events, e)
  PROVE  events' \in Seq(EventType)
BY AppendProperties

(* The parts of Typed one by one: what a step has to do for each.           *)
FriendsTyped == open \subseteq User /\ events \in Seq(EventType)
FileTyped == IsConfig(config) /\ IsConfig(account.own)

LEMMA TypedParts == Typed <=> Calls /\ FileTyped /\ FriendsTyped
BY Zenon DEF Typed, Calls, FileTyped, FriendsTyped

LEMMA CallTyped ==
  ASSUME Typed, NEW s \in Slot, NEW h \in Handlers, NEW user \in Users(h),
         NEW group \in Groups(h), NEW given \in Given(h), Call(s, h, user, group, given)
  PROVE  Typed'
<1> DEFINE c == [does |-> h.does, left |-> Awaits(h), user |-> user,
                 group |-> group, given |-> given, seen |-> <<>>]
<1>1. Sound(h)
  BY AllSound
<1>2. CallGood(c)
  BY <1>1, CallIsGood
<1>3. slots' = [slots EXCEPT ![s] = c] /\ UNCHANGED <<config, account, open, events>>
  BY DEF Call, file, friends
<1> HIDE DEF c
<1>4. Calls'
  BY <1>2, <1>3, TypedParts, SlotChanged
<1> QED BY <1>3, <1>4 DEF Typed, Calls

LEMMA ResolveTyped == ASSUME Typed, NEW s \in Slot, Resolve1(s) PROVE Typed'
<1> DEFINE c == slots[s]
           d == IF Head(c.left) = "user"
                THEN [c EXCEPT !.left = Tail(@), !.user = IdOf(@)]
                ELSE [c EXCEPT !.left = Tail(@), !.group = ById(@[2])]
<1>1. CallGood(c)
  BY DEF Typed
<1>2. c.left # <<>> /\ Head(c.left) \in {"user", "group"}
  BY DEF Resolve1
<1>3. slots' = [slots EXCEPT ![s] = d] /\ UNCHANGED <<config, account, open, events>>
  BY Zenon DEF Resolve1, file, friends
<1> HIDE DEF c
<1>4. CallGood(d)
  BY <1>1, <1>2, NameResolved
<1> HIDE DEF d
<1>5. Calls'
  BY <1>3, <1>4, TypedParts, SlotChanged
<1> QED BY <1>3, <1>5 DEF Typed, Calls

LEMMA FetchedTyped == ASSUME Typed, NEW s \in Slot, Fetched(s) PROVE Typed'
<1>1. CallGood(slots[s]) /\ slots[s].left \in {<<"fetch">>, <<"read">>}
  BY DEF Typed, Fetched
<1>2. PICK x : slots' = [slots EXCEPT ![s] =
                           [slots[s] EXCEPT !.left = <<>>, !.seen = x]]
  BY TypedParts, FetchedSlot
<1> DEFINE d == [slots[s] EXCEPT !.left = <<>>, !.seen = x]
<1>3. CallGood(d)
  BY <1>1, FetchedGood
<1>4. slots' = [slots EXCEPT ![s] = d]
  BY <1>2
<1> HIDE DEF d
<1>5. Calls'
  BY <1>3, <1>4, TypedParts, SlotChanged
<1>6. UNCHANGED <<config, account, open, events>>
  BY DEF Fetched, file, friends
<1> QED BY <1>5, <1>6 DEF Typed, Calls

LEMMA IsEditor ==
  ASSUME Typed, NEW s \in Slot, Ready(s, Edits) PROVE Editor(slots[s])
BY DEF Typed, Ready, Editor

LEMMA EditTyped == ASSUME Typed, NEW s \in Slot, EditConfig(s) PROVE Typed'
<1>1. Editor(slots[s]) /\ config' = Edited(config, slots[s])
  BY IsEditor DEF EditConfig
<1>2. IsConfig(config')
  BY <1>1, EditedIsConfig DEF Typed
<1>3. Calls' /\ UNCHANGED <<account, open, events>>
  BY TypedParts, SlotEnded DEF EditConfig, friends
<1> QED BY <1>2, <1>3 DEF Typed, Calls

LEMMA ProfileTyped == ASSUME Typed, NEW s \in Slot, UpdateProfile(s) PROVE Typed'
<1>1. Calls' /\ UNCHANGED <<config, account, open, events>>
  BY TypedParts, SlotEnded DEF UpdateProfile, friends, file
<1> QED BY <1>1 DEF Typed, Calls

LEMMA TakeTyped == ASSUME Typed, NEW s \in Slot, TakeAnswer(s) PROVE Typed'
<1> DEFINE c == slots[s]
           d == [c EXCEPT !.does = "taken", !.given = {c.does}]
<1>1. CallGood(c) /\ c.left = <<>> /\ c.does \in {"accept", "reject"} /\ c.user \in User
  BY DEF Typed, TakeAnswer, Ready
<1>2. slots' = [slots EXCEPT ![s] = d]
  BY TypedParts, TakenSlot
<1> HIDE DEF c
<1>3. CallGood(d)
  BY <1>1, TakenGood
<1> HIDE DEF d
<1>4. Calls'
  BY <1>2, <1>3, TypedParts, SlotChanged
<1>5. /\ open' = open \ {c.user} /\ UNCHANGED <<config, account>>
      /\ events' = Append(events, <<"add", c.user>>) \/ events' = events
  BY DEF TakeAnswer, file, c
<1>6. events' \in Seq(EventType)
  <2>1. <<"add", c.user>> \in EventType
    BY <1>1 DEF EventType
  <2> QED BY <1>5, <2>1, EventsGrow DEF Typed
<1> QED BY <1>4, <1>5, <1>6 DEF Typed, Calls

LEMMA EndTyped ==
  ASSUME Typed, NEW s \in Slot,
         \/ Fail(s) \/ Answer(s) \/ EditFails(s) \/ NotTaken(s) \/ AnswerLost(s)
         \/ \E wrote \in Written : Answered(s, wrote)
  PROVE  Typed'
<1>1. End(s) /\ UNCHANGED <<config, account, open, events>>
  BY DEF Fail, Answer, EditFails, Answered, NotTaken, AnswerLost, file, friends
<1>2. Calls'
  BY <1>1, TypedParts, SlotEnded
<1> QED BY <1>1, <1>2 DEF Typed, Calls

LEMMA FriendStepsTyped ==
  ASSUME Typed,
         \/ \E u \in User : Request(u) \/ Withdraw(u)
         \/ \E wrote \in Written : FriendEvent(wrote)
         \/ \E cut : Crash(cut)
  PROVE  Typed'
<1>1. ASSUME NEW u \in User, Request(u) PROVE Typed'
  <2>1. <<"request", u>> \in EventType
    BY DEF EventType
  <2>2. events' \in Seq(EventType)
    BY <1>1, <2>1, EventsGrow DEF Request, Typed
  <2>3. open' = open \cup {u} /\ UNCHANGED <<config, account, slots>>
    BY <1>1 DEF Request, file
  <2> QED BY <2>2, <2>3 DEF Typed
<1>2. ASSUME NEW u \in User, Withdraw(u) PROVE Typed'
  <2>1. <<"undo", u>> \in EventType
    BY DEF EventType
  <2>2. events' \in Seq(EventType)
    BY <1>2, <2>1, EventsGrow DEF Withdraw, Typed
  <2>3. open' = open \ {u} /\ UNCHANGED <<config, account, slots>>
    BY <1>2 DEF Withdraw, file
  <2> QED BY <2>2, <2>3 DEF Typed
<1>3. ASSUME NEW wrote \in Written, FriendEvent(wrote) PROVE Typed'
  <2>1. events' \in Seq(EventType)
    BY <1>3, HeadTailProperties DEF FriendEvent, Typed
  <2>2. UNCHANGED <<config, account, open, slots>>
    BY <1>3 DEF FriendEvent, file
  <2> QED BY <2>1, <2>2 DEF Typed
<1>4. ASSUME NEW cut, Crash(cut) PROVE Typed'
  <2>1. Calls'
    BY <1>4, AllIdle DEF Crash
  <2>2. events' \in Seq(EventType)
    BY <1>4 DEF Crash
  <2>3. UNCHANGED <<config, account, open>>
    BY <1>4 DEF Crash
  <2> QED BY <2>1, <2>2, <2>3 DEF Typed, Calls
<1> QED BY <1>1, <1>2, <1>3, <1>4

LEMMA NextTyped == Typed /\ [Next]_vars => Typed'
<1> SUFFICES ASSUME Typed, [Next]_vars PROVE Typed'
  OBVIOUS
<1>1. CASE UNCHANGED vars
  BY <1>1 DEF vars, Typed
<1>2. ASSUME NEW h \in Handlers, Malformed(h) PROVE Typed'
  BY <1>2 DEF Malformed, file, friends, Typed
<1>3. ASSUME Next PROVE Typed'
  BY <1>2, <1>3, CallTyped, ResolveTyped, FetchedTyped, EditTyped, ProfileTyped,
     TakeTyped, EndTyped, FriendStepsTyped, Zenon
     DEF Next
<1> QED BY <1>1, <1>3

LEMMA InitTyped == Init => Typed
BY AgentToolAssumption, IdleGood DEF Init, Typed

LEMMA AlwaysTyped == Spec => []Typed
BY InitTyped, NextTyped, PTL DEF Spec

-----------------------------------------------------------------------------
(* Of a user's events on their way the last one decides.                    *)
Quiet(e, u) == \A i \in 1..Len(e) : e[i][2] # u

IsLast(e, u, i) ==
  e[i][2] = u /\ \A k \in 1..Len(e) : k > i => e[k][2] # u

Requested(e, u) == \E i \in 1..Len(e) : IsLast(e, u, i) /\ e[i][1] = "request"

LEMMA AppendOwn ==
  ASSUME NEW e \in Seq(EventType), NEW ev \in EventType, NEW u, u = ev[2]
  PROVE  /\ ~Quiet(Append(e, ev), u)
         /\ Requested(Append(e, ev), u) <=> ev[1] = "request"
<1> DEFINE f == Append(e, ev)
           n == Len(e) + 1
<1>1. Len(f) = n /\ n \in Nat /\ n >= 1 /\ f[n] = ev
  BY AppendProperties
<1> HIDE DEF f, n
<1>2. IsLast(f, u, n)
  BY <1>1 DEF IsLast
<1>3. \A i \in 1..Len(f) : IsLast(f, u, i) => i = n
  BY <1>1 DEF IsLast
<1>4. n \in 1..Len(f)
  BY <1>1
<1> QED BY <1>1, <1>2, <1>3, <1>4 DEF Quiet, Requested, f

LEMMA AppendOther ==
  ASSUME NEW e \in Seq(EventType), NEW ev \in EventType, NEW u, u # ev[2]
  PROVE  /\ Quiet(Append(e, ev), u) <=> Quiet(e, u)
         /\ Requested(Append(e, ev), u) <=> Requested(e, u)
<1> DEFINE f == Append(e, ev)
           n == Len(e) + 1
<1>1. /\ Len(e) \in Nat /\ Len(f) = n /\ n = Len(e) + 1 /\ f[n] = ev
      /\ \A i \in 1..Len(e) : f[i] = e[i]
  BY AppendProperties
<1> HIDE DEF f, n
<1>2. 1..Len(f) = 1..Len(e) \cup {n}
  BY <1>1
<1>3. \A i \in 1..Len(e) : IsLast(f, u, i) <=> IsLast(e, u, i)
  BY <1>1, <1>2 DEF IsLast
<1>4. ~IsLast(f, u, n)
  BY <1>1 DEF IsLast
<1>5. Quiet(f, u) <=> Quiet(e, u)
  BY <1>1, <1>2 DEF Quiet
<1>6. Requested(f, u) <=> Requested(e, u)
  BY <1>1, <1>2, <1>3, <1>4 DEF Requested
<1> QED BY <1>5, <1>6 DEF f

LEMMA TailSteps ==
  ASSUME NEW e \in Seq(EventType), e # <<>>, NEW u
  PROVE  /\ u # Head(e)[2] => /\ Quiet(Tail(e), u) <=> Quiet(e, u)
                              /\ Requested(Tail(e), u) <=> Requested(e, u)
         /\ u = Head(e)[2] => ~Quiet(e, u)
         /\ u = Head(e)[2] /\ Quiet(Tail(e), u) =>
              (Requested(e, u) <=> Head(e)[1] = "request")
         /\ ~Quiet(Tail(e), u) => (Requested(Tail(e), u) <=> Requested(e, u))
<1> DEFINE t == Tail(e)
<1>1. /\ Len(e) \in Nat /\ Len(e) >= 1 /\ Len(t) = Len(e) - 1 /\ e[1] = Head(e)
      /\ \A i \in 1..Len(t) : t[i] = e[i + 1]
  BY HeadTailProperties
<1> HIDE DEF t
<1>2. \A i \in 1..Len(t) : i + 1 \in 1..Len(e)
  BY <1>1
<1>3. ASSUME NEW i \in 1..Len(e), i # 1
      PROVE  /\ i - 1 \in 1..Len(t) /\ (i - 1) + 1 = i /\ t[i - 1] = e[i]
             /\ IsLast(t, u, i - 1) <=> IsLast(e, u, i)
  <2>1. i - 1 \in 1..Len(t) /\ (i - 1) + 1 = i /\ t[i - 1] = e[i]
    <3> DEFINE j == i - 1
    <3>1. j \in 1..Len(t) /\ j + 1 = i
      BY <1>1, <1>3
    <3> HIDE DEF j
    <3>2. t[j] = e[i]
      BY <1>1, <3>1
    <3> QED BY <3>1, <3>2 DEF j
  <2>2. ASSUME IsLast(e, u, i) PROVE IsLast(t, u, i - 1)
    <3>1. ASSUME NEW k \in 1..Len(t), k > i - 1 PROVE t[k][2] # u
      <4>1. k + 1 \in 1..Len(e) /\ k + 1 > i /\ t[k] = e[k + 1]
        BY <1>1, <1>2, <3>1
      <4> QED BY <2>2, <4>1 DEF IsLast
    <3> QED BY <2>1, <2>2, <3>1 DEF IsLast
  <2>3. ASSUME IsLast(t, u, i - 1) PROVE IsLast(e, u, i)
    <3>1. ASSUME NEW k \in 1..Len(e), k > i PROVE e[k][2] # u
      <4>1. k - 1 \in 1..Len(t) /\ k - 1 > i - 1 /\ t[k - 1] = e[k]
        BY <1>1, <3>1
      <4> QED BY <2>3, <4>1 DEF IsLast
    <3> QED BY <2>1, <2>3, <3>1 DEF IsLast
  <2> QED BY <2>1, <2>2, <2>3
<1>4. Quiet(e, u) <=> Quiet(t, u) /\ Head(e)[2] # u
  <2>1. Quiet(e, u) => Quiet(t, u) /\ Head(e)[2] # u
    BY <1>1, <1>2 DEF Quiet
  <2>2. ASSUME Quiet(t, u), Head(e)[2] # u, NEW i \in 1..Len(e)
        PROVE  e[i][2] # u
    BY <1>1, <1>3, <2>2 DEF Quiet
  <2> QED BY <2>1, <2>2 DEF Quiet
<1>5. Requested(t, u) => Requested(e, u)
  <2> SUFFICES ASSUME NEW i \in 1..Len(t), IsLast(t, u, i), t[i][1] = "request"
               PROVE  Requested(e, u)
    BY DEF Requested
  <2> DEFINE k == i + 1
  <2>1. k \in 1..Len(e) /\ k # 1 /\ k - 1 = i
    BY <1>1
  <2> HIDE DEF k
  <2>2. IsLast(e, u, k) /\ e[k][1] = "request"
    BY <1>3, <2>1
  <2> QED BY <2>1, <2>2 DEF Requested
<1>6. Requested(e, u) => Requested(t, u) \/ (IsLast(e, u, 1) /\ e[1][1] = "request")
  <2> SUFFICES ASSUME NEW i \in 1..Len(e), IsLast(e, u, i), e[i][1] = "request", i # 1
               PROVE  Requested(t, u)
    BY DEF Requested
  <2> QED BY <1>3 DEF Requested
<1>7. IsLast(e, u, 1) <=> Head(e)[2] = u /\ Quiet(t, u)
  <2>1. IsLast(e, u, 1) => Head(e)[2] = u /\ Quiet(t, u)
    BY <1>1, <1>2 DEF IsLast, Quiet
  <2>2. ASSUME Head(e)[2] = u, Quiet(t, u), NEW k \in 1..Len(e), k > 1
        PROVE  e[k][2] # u
    BY <1>3, <2>2 DEF Quiet
  <2> QED BY <1>1, <2>1, <2>2 DEF IsLast
<1>8. Requested(t, u) => ~Quiet(t, u)
  BY DEF Requested, Quiet, IsLast
<1>9. IsLast(e, u, 1) /\ e[1][1] = "request" => Requested(e, u)
  BY <1>1 DEF Requested
<1> QED BY <1>1, <1>4, <1>5, <1>6, <1>7, <1>8, <1>9 DEF t

LEMMA RequestedIsThere ==
  ASSUME NEW e \in Seq(EventType), NEW u, Requested(e, u)
  PROVE  Contains(e, <<"request", u>>)
<1>1. PICK i \in 1..Len(e) : e[i][2] = u /\ e[i][1] = "request"
  BY DEF Requested, IsLast
<1>2. e[i] \in EventType
  OBVIOUS
<1>3. e[i] = <<"request", u>>
  BY <1>1, <1>2 DEF EventType
<1> QED BY <1>3 DEF Contains

-----------------------------------------------------------------------------
(* What is known of a user's request: the last event on its way tells       *)
(* whether it is open at Zalo; with none on its way the list is right, but  *)
(* for an answer that Zalo took and that has not come back.                 *)
Taken(u) == {s \in Slot : slots[s].does = "taken" /\ slots[s].user = u}

RequestGood(u) ==
  /\ ~Quiet(events, u) => (u \in open <=> Requested(events, u))
  /\ Quiet(events, u) =>
       /\ Taken(u) = {} => (u \in pending <=> u \in open)
       /\ Taken(u) # {} => u \notin open
       /\ \A s \in Taken(u) : slots[s].given = {"accept"} => u \notin pending

RequestsInv == \A u \in User \ unsure : RequestGood(u)

LEMMA InitRequests == Init => RequestsInv
<1> SUFFICES ASSUME Init, NEW u \in User PROVE RequestGood(u)
  BY DEF RequestsInv
<1>1. Quiet(events, u)
  BY DEF Init, Quiet
<1>2. Taken(u) = {}
  <2> SUFFICES ASSUME NEW s \in Slot, slots[s].does = "taken" PROVE FALSE
    BY DEF Taken
  <2> QED BY DEF Init, Idle
<1> QED BY <1>1, <1>2 DEF RequestGood, Init

(* A step that leaves a user's part of all this as it was.                  *)
SameTaken(u) ==
  /\ Taken(u)' = Taken(u)
  /\ \A s \in Taken(u) : slots'[s].given = slots[s].given

LEMMA GoodStays ==
  ASSUME NEW u, RequestGood(u), SameTaken(u),
         Quiet(events, u)' <=> Quiet(events, u),
         Requested(events, u)' <=> Requested(events, u),
         u \in pending' <=> u \in pending, u \in open' <=> u \in open
  PROVE  RequestGood(u)'
BY DEF RequestGood, SameTaken

LEMMA SameSlots == ASSUME slots' = slots, NEW u PROVE SameTaken(u)
BY DEF SameTaken, Taken

(* One slot changes that held or holds no taken answer to the user.         *)
LEMMA OtherSlot ==
  ASSUME DOMAIN slots = Slot, NEW s \in Slot, NEW d, NEW u,
         slots' = [slots EXCEPT ![s] = d],
         slots[s].does # "taken" \/ slots[s].user # u,
         d.does # "taken" \/ d.user # u
  PROVE  SameTaken(u)
<1>1. s \notin Taken(u) /\ slots'[s] = d
  BY DEF Taken
<1>2. \A t \in Slot : t # s => slots'[t] = slots[t]
  OBVIOUS
<1>3. Taken(u)' = Taken(u)
  BY <1>1, <1>2 DEF Taken
<1>4. \A t \in Taken(u) : t # s /\ t \in Slot
  BY <1>1 DEF Taken
<1> QED BY <1>2, <1>3, <1>4 DEF SameTaken

LEMMA SlotEnds ==
  ASSUME DOMAIN slots = Slot, NEW s \in Slot, End(s), NEW u,
         slots[s].does # "taken" \/ slots[s].user # u
  PROVE  SameTaken(u)
<1>1. Idle.does # "taken"
  BY DEF Idle
<1> QED BY <1>1, OtherSlot DEF End

LEMMA TakenEnds ==
  ASSUME DOMAIN slots = Slot, NEW s \in Slot, End(s), NEW u,
         slots[s].does = "taken", slots[s].user = u
  PROVE  /\ s \in Taken(u)
         /\ \A t \in Taken(u)' : t \in Taken(u) /\ slots'[t].given = slots[t].given
<1>1. Idle.does # "taken"
  BY DEF Idle
<1>2. slots' = [slots EXCEPT ![s] = Idle]
  BY DEF End
<1>3. s \in Taken(u)
  BY DEF Taken
<1>4. \A t \in Slot : t # s => slots'[t] = slots[t]
  BY <1>2
<1>5. s \notin Taken(u)'
  BY <1>1, <1>2 DEF Taken
<1>6. \A t \in Taken(u)' : t # s /\ t \in Slot
  BY <1>5 DEF Taken
<1> QED BY <1>3, <1>4, <1>6 DEF Taken

-----------------------------------------------------------------------------
(* The calls that are not about requests.                                   *)
Aside(s) ==
  \/ \E h \in Handlers :
       \E user \in Users(h), group \in Groups(h), given \in Given(h) :
         Call(s, h, user, group, given)
  \/ Resolve1(s) \/ Fetched(s) \/ Fail(s) \/ Answer(s)
  \/ EditConfig(s) \/ EditFails(s) \/ UpdateProfile(s) \/ NotTaken(s)

LEMMA AsideQuiet ==
  ASSUME NEW s \in Slot, Aside(s)
  PROVE  UNCHANGED <<open, events, pending, unsure>>
<1>1. CASE NotTaken(s)
  BY <1>1 DEF NotTaken, Unlisted
<1>2. CASE \E h \in Handlers :
             \E user \in Users(h), group \in Groups(h), given \in Given(h) :
               Call(s, h, user, group, given)
  BY <1>2 DEF Call, friends
<1>3. CASE Resolve1(s)
  BY <1>3 DEF Resolve1, friends
<1> QED BY <1>1, <1>2, <1>3 DEF Aside, Fetched, Fail, Answer, EditConfig,
        EditFails, UpdateProfile, friends

LEMMA CallTakes ==
  ASSUME Typed, NEW s \in Slot, NEW h \in Handlers, NEW user, NEW group, NEW given,
         Call(s, h, user, group, given), NEW u
  PROVE  SameTaken(u)
<1> DEFINE d == [does |-> h.does, left |-> Awaits(h), user |-> user,
                 group |-> group, given |-> given, seen |-> <<>>]
<1>1. slots' = [slots EXCEPT ![s] = d] /\ slots[s] = Idle
  BY DEF Call
<1>2. d.does # "taken"
  BY AllSound DEF Sound, Does, Plain, Edits, GroupEdits
<1>3. slots[s].does # "taken"
  BY <1>1 DEF Idle
<1> HIDE DEF d
<1> QED BY <1>1, <1>2, <1>3, OtherSlot DEF Typed

LEMMA ResolveTakes ==
  ASSUME Typed, NEW s \in Slot, Resolve1(s), NEW u PROVE SameTaken(u)
<1> DEFINE c == slots[s]
           d == IF Head(c.left) = "user"
                THEN [c EXCEPT !.left = Tail(@), !.user = IdOf(@)]
                ELSE [c EXCEPT !.left = Tail(@), !.group = ById(@[2])]
<1>1. slots' = [slots EXCEPT ![s] = d]
  BY Zenon DEF Resolve1
<1>2. CallGood(c) /\ c.left # <<>>
  BY DEF Typed, Resolve1
<1>3. c.does # "taken" /\ d.does = c.does
  BY <1>2 DEF CallGood, IsCall
<1> HIDE DEF d
<1> QED BY <1>1, <1>3, OtherSlot DEF Typed

LEMMA FetchedTakes ==
  ASSUME Typed, NEW s \in Slot, Fetched(s), NEW u PROVE SameTaken(u)
<1>1. CallGood(slots[s]) /\ slots[s].left # <<>>
  BY AwaitsDiffer DEF Typed, Fetched
<1>2. PICK x : slots' = [slots EXCEPT ![s] =
                           [slots[s] EXCEPT !.left = <<>>, !.seen = x]]
  BY TypedParts, FetchedSlot
<1> DEFINE d == [slots[s] EXCEPT !.left = <<>>, !.seen = x]
<1>3. slots[s].does # "taken" /\ d.does = slots[s].does
  BY <1>1 DEF CallGood, IsCall
<1>4. slots' = [slots EXCEPT ![s] = d]
  BY <1>2
<1> HIDE DEF d
<1> QED BY <1>3, <1>4, OtherSlot DEF Typed

LEMMA AsideTakes == ASSUME Typed, NEW s \in Slot, Aside(s), NEW u PROVE SameTaken(u)
<1>1. ASSUME End(s), slots[s].does # "taken" PROVE SameTaken(u)
  BY <1>1, SlotEnds DEF Typed
<1>2. \/ Fail(s) \/ Answer(s) \/ EditConfig(s) \/ EditFails(s) \/ UpdateProfile(s)
      \/ NotTaken(s)
      => End(s) /\ slots[s].does # "taken"
  BY DEF Fail, Answer, EditConfig, EditFails, UpdateProfile, NotTaken, Ready, Edits, GroupEdits
<1> QED BY <1>1, <1>2, CallTakes, ResolveTakes, FetchedTakes, Zenon DEF Aside

LEMMA AsideKeeps ==
  ASSUME Typed, RequestsInv, NEW s \in Slot, Aside(s) PROVE RequestsInv'
<1> SUFFICES ASSUME NEW u \in User \ unsure' PROVE RequestGood(u)'
  BY DEF RequestsInv
<1>1. UNCHANGED <<open, events, pending, unsure>>
  BY AsideQuiet
<1>2. RequestGood(u) /\ SameTaken(u)
  BY <1>1, AsideTakes DEF RequestsInv
<1> QED BY <1>1, <1>2, GoodStays DEF Quiet, Requested, IsLast

-----------------------------------------------------------------------------
(* The steps that are about requests.                                       *)
LEMMA TakeKeeps ==
  ASSUME Typed, RequestsInv, NEW s \in Slot, TakeAnswer(s) PROVE RequestsInv'
<1> DEFINE c == slots[s]
           d == [c EXCEPT !.does = "taken", !.given = {c.does}]
           add == <<"add", c.user>>
<1> SUFFICES ASSUME NEW u \in User \ unsure' PROVE RequestGood(u)'
  BY DEF RequestsInv
<1>1. /\ c.does \in {"accept", "reject"} /\ c.user \in open /\ c.user \in User
      /\ open' = open \ {c.user} /\ pending' = pending
      /\ events' = IF c.does = "accept" THEN Append(events, add) ELSE events
      /\ unsure' = IF c.does = "reject" /\ Contains(events, <<"request", c.user>>)
                   THEN unsure \cup {c.user} ELSE unsure
  BY DEF TakeAnswer, Ready, Typed
<1>2. RequestGood(u)
  BY <1>1 DEF RequestsInv
<1>3. events \in Seq(EventType) /\ add \in EventType /\ add[1] = "add" /\ add[2] = c.user
  BY <1>1 DEF Typed, EventType
<1>4. slots' = [slots EXCEPT ![s] = d]
  BY TypedParts, TakenSlot
<1>5. CallGood(c) /\ DOMAIN slots = Slot
  BY DEF Typed
<1>6. d.does = "taken" /\ d.user = c.user /\ d.given = {c.does}
  BY <1>5 DEF CallGood, IsCall
<1> HIDE DEF c, d, add
<1>7. CASE u # c.user
  <2>1. SameTaken(u)
    BY <1>1, <1>4, <1>5, <1>6, <1>7, OtherSlot DEF c
  <2>2. Quiet(events, u)' <=> Quiet(events, u)
    BY <1>1, <1>3, <1>7, AppendOther
  <2>3. Requested(events, u)' <=> Requested(events, u)
    BY <1>1, <1>3, <1>7, AppendOther
  <2> QED BY <1>1, <1>2, <1>7, <2>1, <2>2, <2>3, GoodStays
<1>8. CASE u = c.user /\ c.does = "accept"
  <2>1. ~Quiet(events', u) /\ ~Requested(events', u)
    BY <1>1, <1>3, <1>8, AppendOwn
  <2>2. u \notin open'
    BY <1>1, <1>8
  <2> QED BY <2>1, <2>2 DEF RequestGood
<1>9. CASE u = c.user /\ c.does = "reject"
  <2>1. events' = events /\ ~Contains(events, <<"request", u>>)
    BY <1>1, <1>9
  <2>2. Quiet(events, u)
    BY <1>1, <1>2, <1>3, <1>9, <2>1, RequestedIsThere DEF RequestGood
  <2>3. Taken(u) = {}
    BY <1>1, <1>2, <1>9, <2>2 DEF RequestGood
  <2>4. Quiet(events', u) /\ u \notin open'
    BY <1>1, <1>9, <2>1, <2>2
  <2>5. Taken(u)' = {s}
    BY <1>4, <1>5, <1>6, <1>9, <2>3 DEF Taken
  <2>6. slots'[s].given = {"reject"}
    BY <1>4, <1>5, <1>6, <1>9
  <2>7. {"reject"} # {"accept"}
    OBVIOUS
  <2> QED BY <2>4, <2>5, <2>6, <2>7 DEF RequestGood
<1> QED BY <1>1, <1>7, <1>8, <1>9

LEMMA AnsweredKeeps ==
  ASSUME Typed, RequestsInv, NEW s \in Slot, NEW wrote, Answered(s, wrote)
  PROVE  RequestsInv'
<1> SUFFICES ASSUME NEW u \in User \ unsure' PROVE RequestGood(u)'
  BY DEF RequestsInv
<1>1. /\ slots[s].does = "taken" /\ End(s) /\ pending' = pending \ {slots[s].user}
      /\ UNCHANGED <<open, events, unsure>>
  BY DEF Answered, Saved, Unlisted
<1>2. RequestGood(u) /\ DOMAIN slots = Slot
  BY <1>1 DEF RequestsInv, Typed
<1>3. (Quiet(events, u)' <=> Quiet(events, u))
      /\ (Requested(events, u)' <=> Requested(events, u))
  BY <1>1
<1>4. CASE slots[s].user # u
  BY <1>1, <1>2, <1>3, <1>4, SlotEnds, GoodStays
<1>5. CASE slots[s].user = u
  <2>1. Taken(u) # {} /\ u \notin pending'
    BY <1>1, <1>2, <1>5, TakenEnds
  <2> QED BY <1>1, <1>2, <1>3, <2>1 DEF RequestGood
<1> QED BY <1>4, <1>5

LEMMA LostKeeps ==
  ASSUME Typed, RequestsInv, NEW s \in Slot, AnswerLost(s) PROVE RequestsInv'
<1> SUFFICES ASSUME NEW u \in User \ unsure' PROVE RequestGood(u)'
  BY DEF RequestsInv
<1>1. /\ slots[s].does = "taken" /\ End(s) /\ UNCHANGED <<open, events, pending>>
      /\ unsure' = IF "reject" \in slots[s].given THEN unsure \cup {slots[s].user}
                   ELSE unsure
  BY DEF AnswerLost
<1>2. RequestGood(u) /\ DOMAIN slots = Slot
  BY <1>1 DEF RequestsInv, Typed
<1>3. (Quiet(events, u)' <=> Quiet(events, u))
      /\ (Requested(events, u)' <=> Requested(events, u))
  BY <1>1
<1>4. CASE slots[s].user # u
  BY <1>1, <1>2, <1>3, <1>4, SlotEnds, GoodStays
<1>5. CASE slots[s].user = u
  <2>1. slots[s].given \in {{"accept"}, {"reject"}}
    BY <1>1 DEF Typed, CallGood
  <2>2. "reject" \notin slots[s].given
    BY <1>1, <1>5
  <2>3. slots[s].given = {"accept"}
    BY <2>1, <2>2
  <2>4. s \in Taken(u)
    BY <1>1, <1>2, <1>5, TakenEnds
  <2>5. Quiet(events, u) => u \notin open /\ u \notin pending
    BY <1>2, <2>3, <2>4 DEF RequestGood
  <2> QED BY <1>1, <1>2, <1>3, <2>5 DEF RequestGood
<1> QED BY <1>4, <1>5

LEMMA EventComes ==
  ASSUME Typed, RequestsInv, NEW ev \in EventType, NEW u \in User \ unsure',
         events' = Append(events, ev), UNCHANGED <<slots, pending, unsure>>,
         \A v \in User : v # ev[2] => (v \in open' <=> v \in open),
         ev[2] \in open' <=> ev[1] = "request"
  PROVE  RequestGood(u)'
<1>1. RequestGood(u) /\ SameTaken(u) /\ events \in Seq(EventType)
  BY SameSlots DEF RequestsInv, Typed
<1>2. CASE u # ev[2]
  <2>1. (Quiet(events, u)' <=> Quiet(events, u))
        /\ (Requested(events, u)' <=> Requested(events, u))
    BY <1>1, <1>2, AppendOther
  <2> QED BY <1>1, <1>2, <2>1, GoodStays
<1>3. CASE u = ev[2]
  <2>1. ~Quiet(events', u) /\ (Requested(events', u) <=> ev[1] = "request")
    BY <1>1, <1>3, AppendOwn
  <2> QED BY <1>3, <2>1 DEF RequestGood
<1> QED BY <1>2, <1>3

LEMMA UserStepKeeps ==
  ASSUME Typed, RequestsInv, NEW v \in User, Request(v) \/ Withdraw(v)
  PROVE  RequestsInv'
<1> SUFFICES ASSUME NEW u \in User \ unsure' PROVE RequestGood(u)'
  BY DEF RequestsInv
<1>1. CASE Request(v)
  <2> DEFINE ev == <<"request", v>>
  <2>1. ev \in EventType /\ ev[1] = "request" /\ ev[2] = v
    BY DEF EventType
  <2>2. /\ events' = Append(events, ev) /\ open' = open \cup {v}
        /\ UNCHANGED <<slots, pending, unsure>>
    BY <1>1 DEF Request
  <2> HIDE DEF ev
  <2> QED BY <2>1, <2>2, EventComes
<1>2. CASE Withdraw(v)
  <2> DEFINE ev == <<"undo", v>>
  <2>1. ev \in EventType /\ ev[1] = "undo" /\ ev[2] = v
    BY DEF EventType
  <2>2. /\ events' = Append(events, ev) /\ open' = open \ {v}
        /\ UNCHANGED <<slots, pending, unsure>>
    BY <1>2 DEF Withdraw
  <2> HIDE DEF ev
  <2> QED BY <2>1, <2>2, EventComes
<1> QED BY <1>1, <1>2

LEMMA EventKeeps ==
  ASSUME Typed, RequestsInv, NEW wrote, FriendEvent(wrote) PROVE RequestsInv'
<1> SUFFICES ASSUME NEW u \in User \ unsure' PROVE RequestGood(u)'
  BY DEF RequestsInv
<1> DEFINE kind == Head(events)[1]
           v == Head(events)[2]
<1>1. /\ events # <<>> /\ events' = Tail(events) /\ UNCHANGED <<slots, open>>
      /\ pending' = IF kind = "request" THEN pending \cup {v} ELSE pending \ {v}
      /\ unsure' = IF kind = "request"
                      /\ \E s \in Slot : slots[s].does = "taken" /\ slots[s].user = v
                   THEN unsure \cup {v} ELSE unsure
  BY DEF FriendEvent, Saved
<1>2. RequestGood(u) /\ SameTaken(u) /\ events \in Seq(EventType)
  BY <1>1, SameSlots DEF RequestsInv, Typed
<1>3. CASE u # v
  <2>1. (Quiet(events, u)' <=> Quiet(events, u))
        /\ (Requested(events, u)' <=> Requested(events, u))
    BY <1>1, <1>2, <1>3, TailSteps
  <2> HIDE DEF kind, v
  <2> QED BY <1>1, <1>2, <1>3, <2>1, GoodStays
<1>4. CASE u = v
  <2>1. /\ ~Quiet(events, u)
        /\ Quiet(events', u) => (Requested(events, u) <=> kind = "request")
        /\ ~Quiet(events', u) => (Requested(events', u) <=> Requested(events, u))
    BY <1>1, <1>2, <1>4, TailSteps
  <2> HIDE DEF kind, v
  <2>2. Taken(u) # {} => kind # "request"
    BY <1>1, <1>4 DEF Taken
  <2>3. u \in pending' <=> kind = "request"
    BY <1>1, <1>4
  <2>4. u \in open <=> Requested(events, u)
    BY <1>2, <2>1 DEF RequestGood
  <2>5. Taken(u)' = Taken(u)
    BY <1>2 DEF SameTaken
  <2>6. ~Quiet(events', u) => (u \in open' <=> Requested(events', u))
    BY <1>1, <2>1, <2>4
  <2>7. Quiet(events', u) => (u \in open' <=> kind = "request")
    BY <1>1, <2>1, <2>4
  <2>8. Taken(u)' # {} => kind # "request"
    BY <2>2, <2>5
  <2> QED BY <2>3, <2>6, <2>7, <2>8 DEF RequestGood
<1> QED BY <1>3, <1>4

LEMMA CrashKeeps ==
  ASSUME Typed, RequestsInv, NEW cut, Crash(cut) PROVE RequestsInv'
<1> SUFFICES ASSUME NEW u \in User \ unsure' PROVE RequestGood(u)'
  BY DEF RequestsInv
<1>1. "requests" \notin cut
  BY DEF Crash
<1>2. /\ events' = <<>> /\ slots' = [s \in Slot |-> Idle] /\ UNCHANGED open
      /\ pending' = stored
      /\ unsure' = unsure \cup (pending \ stored) \cup (stored \ pending)
                   \cup {events[i][2] : i \in DOMAIN events}
                   \cup {slots[s].user : s \in {t \in Slot : slots[t].does = "taken"}}
  BY <1>1 DEF Crash
<1>3. u \notin unsure /\ RequestGood(u) /\ (u \in pending <=> u \in stored)
  BY <1>2 DEF RequestsInv
<1>4. Quiet(events, u)
  <2>1. DOMAIN events = 1..Len(events)
    BY DEF Typed
  <2> QED BY <1>2, <2>1 DEF Quiet
<1>5. Taken(u) = {}
  BY <1>2 DEF Taken
<1>6. Quiet(events', u)
  BY <1>2 DEF Quiet
<1>7. Taken(u)' = {}
  <2>1. Idle.does # "taken"
    BY DEF Idle
  <2> QED BY <1>2, <2>1 DEF Taken
<1>8. u \in pending' <=> u \in open'
  BY <1>2, <1>3, <1>4, <1>5 DEF RequestGood
<1> QED BY <1>6, <1>7, <1>8 DEF RequestGood

LEMMA NextRequests == Typed /\ RequestsInv /\ [Next]_vars => RequestsInv'
<1> SUFFICES ASSUME Typed, RequestsInv, [Next]_vars PROVE RequestsInv'
  OBVIOUS
<1>1. ASSUME UNCHANGED <<slots, open, events, pending, unsure>> PROVE RequestsInv'
  BY <1>1 DEF RequestsInv, RequestGood, Taken
<1>2. CASE UNCHANGED vars
  BY <1>1, <1>2 DEF vars
<1>3. ASSUME NEW h \in Handlers, Malformed(h) PROVE RequestsInv'
  BY <1>1, <1>3 DEF Malformed, friends
<1>4. ASSUME Next PROVE RequestsInv'
  BY <1>3, <1>4, AsideKeeps, TakeKeeps, AnsweredKeeps, LostKeeps, UserStepKeeps,
     EventKeeps, CrashKeeps, Zenon
     DEF Next, Aside
<1> QED BY <1>2, <1>4

(* Between events the list holds exactly the requests that are open at      *)
(* Zalo, of every user about whom nothing was lost or crossed.              *)
THEOREM ListIsRight == Spec => []RequestsListed
<1>1. Typed /\ RequestsInv => RequestsListed
  <2> SUFFICES ASSUME Typed, RequestsInv, NEW u \in User \ unsure,
                      \A i \in DOMAIN events : events[i][2] # u,
                      \A s \in Slot : slots[s].does = "taken" => slots[s].user # u
               PROVE  u \in pending <=> u \in open
    BY DEF RequestsListed
  <2>1. Quiet(events, u)
    BY DEF Quiet, Typed
  <2>2. Taken(u) = {}
    BY DEF Taken
  <2> QED BY <2>1, <2>2 DEF RequestsInv, RequestGood
<1> QED BY AlwaysTyped, InitRequests, NextRequests, <1>1, PTL DEF Spec

-----------------------------------------------------------------------------
(* The lookups of a group's entry: the first candidate that passes a test.  *)
First(I) == IF I # {} THEN Min(I) ELSE 0

Has(cfg, g) == {i \in 1..3 : Candidates(g)[i] \in DOMAIN cfg.groups}

HasAllow(cfg, g) ==
  {i \in 1..3 : /\ Candidates(g)[i] \in DOMAIN cfg.groups
                /\ cfg.groups[Candidates(g)[i]].allow # {}}

HasMention(cfg, g) ==
  {i \in 1..3 : /\ Candidates(g)[i] \in DOMAIN cfg.groups
                /\ cfg.groups[Candidates(g)[i]].mention # "unset"}

LEMMA ThreeCandidates ==
  ASSUME NEW g
  PROVE  /\ Len(Candidates(g)) = 3 /\ Candidates(g)[1] = ById(g)
         /\ Candidates(g)[2] = Prefixed(g) /\ Candidates(g)[3] = AnyGroup
BY DEF Candidates

LEMMA OutsideIs ==
  ASSUME NEW cfg, NEW u, NEW g
  PROVE  LET i == First(HasAllow(cfg, g))
         IN OutsideAllowUsers(cfg, u, g) <=>
              i # 0 /\ ~SenderAllowed(u, cfg.groups[Candidates(g)[i]].allow)
<1>1. HasAllow(cfg, g) =
        {i \in 1..Len(Candidates(g)) : Candidates(g)[i] \in DOMAIN cfg.groups
           /\ cfg.groups[Candidates(g)[i]].allow # {}}
  BY ThreeCandidates, Zenon DEF HasAllow
<1> QED BY <1>1, Zenon DEF OutsideAllowUsers, FirstKey, SelectInSeq, First

LEMMA AllowedIs ==
  ASSUME NEW cfg, NEW g
  PROVE  LET i == First(Has(cfg, g))
         IN GroupAllowed(cfg, g) <=> i # 0 /\ cfg.groups[Candidates(g)[i]].open
<1>1. Has(cfg, g) =
        {i \in 1..Len(Candidates(g)) : Candidates(g)[i] \in DOMAIN cfg.groups /\ TRUE}
  BY ThreeCandidates, SMT DEF Has
<1> QED BY <1>1, Zenon DEF GroupAllowed, FirstKey, SelectInSeq, First

LEMMA MentionIs ==
  ASSUME NEW cfg, NEW g
  PROVE  LET i == First(HasMention(cfg, g))
         IN RequiresMention(cfg, g) <=>
              i = 0 \/ cfg.groups[Candidates(g)[i]].mention = "yes"
<1>1. HasMention(cfg, g) =
        {i \in 1..Len(Candidates(g)) : Candidates(g)[i] \in DOMAIN cfg.groups
           /\ cfg.groups[Candidates(g)[i]].mention # "unset"}
  BY ThreeCandidates, Zenon DEF HasMention
<1> QED BY <1>1, Zenon DEF RequiresMention, FirstKey, SelectInSeq, First

LEMMA FirstIsOne == ASSUME NEW I \in SUBSET (1..3), 1 \in I PROVE First(I) = 1
<1>1. \A y \in I : 1 <= y
  OBVIOUS
<1>2. \A x \in I : (\A y \in I : x <= y) => x = 1
  OBVIOUS
<1>3. Min(I) = 1
  BY <1>1, <1>2 DEF Min
<1> QED BY <1>3 DEF First

LEMMA FirstIsOf ==
  ASSUME NEW I \in SUBSET (1..3), First(I) # 0 PROVE First(I) \in I
<1>1. I # {}
  BY DEF First
<1>2. \E x \in I : \A y \in I : x <= y
  <2>1. CASE 1 \in I
    BY <2>1
  <2>2. CASE 1 \notin I /\ 2 \in I
    BY <2>2
  <2>3. CASE 1 \notin I /\ 2 \notin I
    <3>1. \A y \in I : y = 3
      BY <2>3
    <3>2. 3 \in I
      BY <1>1, <3>1
    <3>3. \A y \in I : 3 <= y
      BY <3>1
    <3> QED BY <3>2, <3>3, Zenon
  <2> QED BY <2>1, <2>2, <2>3
<1>3. Min(I) \in I
  BY <1>2 DEF Min
<1> QED BY <1>1, <1>3 DEF First

-----------------------------------------------------------------------------
(* The configuration as a monitor that starts resolves it.                  *)
Known(e) == [e EXCEPT !.deny = Resolve(@, Friend)]

LEMMA KnownFields ==
  ASSUME NEW e \in GroupEntry
  PROVE  /\ Known(e).deny = Resolve(e.deny, Friend)
         /\ Known(e).allow = e.allow
         /\ Known(e).open = e.open
         /\ Known(e).mention = e.mention
<1> DEFINE x == Resolve(e.deny, Friend)
<1>1. Known(e) = [e EXCEPT !.deny = x]
  BY DEF Known
<1> HIDE DEF x
<1>2. Known(e) = [deny |-> x, allow |-> e.allow, open |-> e.open, mention |-> e.mention]
  BY <1>1, EntryWith
<1> QED BY <1>2 DEF x

LEMMA KeysDiffer ==
  ASSUME NEW t, NEW g
  PROVE  /\ ById(t) = ById(g) => t = g
         /\ ByName(t) # ById(g) /\ Prefixed(t) # ById(g) /\ AnyGroup # ById(g)
BY DEF ById, ByName, Prefixed, AnyGroup

LEMMA ResolvedAt ==
  ASSUME NEW gs, NEW t \in Group
  PROVE  LET new == ResolveGroups(gs, Friend, Group)
         IN /\ \A k \in {Prefixed(t), AnyGroup} :
                 /\ k \in DOMAIN new <=> k \in DOMAIN gs
                 /\ k \in DOMAIN gs => new[k] = Known(gs[k])
            /\ ById(t) \in DOMAIN new <=> {ById(t), ByName(t)} \cap DOMAIN gs # {}
            /\ ById(t) \in DOMAIN gs => new[ById(t)] = Known(gs[ById(t)])
            /\ ById(t) \notin DOMAIN gs /\ ByName(t) \in DOMAIN gs =>
                 new[ById(t)] = Known(gs[ByName(t)])
<1> DEFINE new == ResolveGroups(gs, Friend, Group)
           fresh == {g \in Group : ByName(g) \in DOMAIN gs /\ ById(g) \notin DOMAIN gs}
           keys == DOMAIN gs \cup {ById(g) : g \in fresh}
           From(k) == IF k \in DOMAIN gs THEN gs[k] ELSE gs[ByName(k[2])]
<1>1. new = [k \in keys |-> Known(From(k))]
  BY Zenon DEF ResolveGroups, Known
<1>2. \A k \in {Prefixed(t), AnyGroup} : k \in keys <=> k \in DOMAIN gs
  BY KeysDiffer
<1>3. ById(t) \in keys <=> {ById(t), ByName(t)} \cap DOMAIN gs # {}
  BY KeysDiffer
<1>4. \A k \in DOMAIN gs : k \in keys /\ From(k) = gs[k]
  OBVIOUS
<1>5. ById(t) \notin DOMAIN gs => From(ById(t)) = gs[ByName(t)]
  BY DEF ById
<1> HIDE DEF keys, From, new
<1>6. DOMAIN new = keys /\ \A k \in keys : new[k] = Known(From(k))
  BY <1>1
<1> QED
  <2>1. \A k \in {Prefixed(t), AnyGroup} :
          /\ k \in DOMAIN new <=> k \in DOMAIN gs
          /\ k \in DOMAIN gs => new[k] = Known(gs[k])
    BY <1>2, <1>4, <1>6
  <2>2. ById(t) \in DOMAIN new <=> {ById(t), ByName(t)} \cap DOMAIN gs # {}
    BY <1>3, <1>6
  <2>3. ById(t) \in DOMAIN gs => new[ById(t)] = Known(gs[ById(t)])
    BY <1>4, <1>6
  <2>4. ById(t) \notin DOMAIN gs /\ ByName(t) \in DOMAIN gs =>
          new[ById(t)] = Known(gs[ByName(t)])
    BY <1>3, <1>5, <1>6
  <2> QED BY <2>1, <2>2, <2>3, <2>4 DEF new

LEMMA AccountIs ==
  ASSUME NEW cfg, IsConfig(cfg), IsConfig(account.own)
  PROVE  LET c == ForAccount(cfg)
         IN /\ IsConfig(c)
            /\ c.denyFrom = IF "denyFrom" \in account.sets THEN account.own.denyFrom
                            ELSE cfg.denyFrom
            /\ c.groupPolicy = IF "groupPolicy" \in account.sets
                               THEN account.own.groupPolicy ELSE cfg.groupPolicy
            /\ c.groups = IF "groups" \in account.sets THEN account.own.groups
                          ELSE cfg.groups
<1> DEFINE c == ForAccount(cfg)
           o == account.own
<1>1. /\ cfg \in [denyFrom : SUBSET Entry, allowFrom : SUBSET Entry,
                 dmPolicy : {"open", "pairing", "allowlist", "disabled"},
                 groupPolicy : {"open", "allowlist", "disabled"},
                 groups : {cfg.groups}]
      /\ o \in [denyFrom : SUBSET Entry, allowFrom : SUBSET Entry,
               dmPolicy : {"open", "pairing", "allowlist", "disabled"},
               groupPolicy : {"open", "allowlist", "disabled"},
               groups : {o.groups}]
  BY Zenon DEF IsConfig
<1>2. /\ cfg.groups \in [DOMAIN cfg.groups -> GroupEntry]
      /\ o.groups \in [DOMAIN o.groups -> GroupEntry]
  BY Zenon DEF IsConfig
<1> HIDE DEF o
<1>3. /\ c.denyFrom = IF "denyFrom" \in account.sets THEN o.denyFrom ELSE cfg.denyFrom
      /\ c.groupPolicy = IF "groupPolicy" \in account.sets THEN o.groupPolicy
                         ELSE cfg.groupPolicy
      /\ c.groups = IF "groups" \in account.sets THEN o.groups ELSE cfg.groups
      /\ c \in [denyFrom : SUBSET Entry, allowFrom : SUBSET Entry,
               dmPolicy : {"open", "pairing", "allowlist", "disabled"},
               groupPolicy : {"open", "allowlist", "disabled"},
               groups : {c.groups}]
  BY <1>1 DEF ForAccount, o
<1> HIDE DEF c
<1>4. c.groups \in [DOMAIN c.groups -> GroupEntry]
  BY <1>2, <1>3
<1>5. IsConfig(c)
  BY <1>3, <1>4 DEF IsConfig
<1> QED BY <1>3, <1>5 DEF c, o

LEMMA StartedIs ==
  ASSUME NEW cfg, IsConfig(cfg), IsConfig(account.own)
  PROVE  LET c == ForAccount(cfg)
         IN /\ Started(cfg).denyFrom = Resolve(c.denyFrom, Friend)
            /\ Started(cfg).groups = IF DOMAIN c.groups \ {AnyGroup} # {}
                                     THEN ResolveGroups(c.groups, Friend, Group)
                                     ELSE c.groups
            /\ Started(cfg).groupPolicy = c.groupPolicy
<1> DEFINE c == ForAccount(cfg)
           a == Resolve(c.allowFrom, Friend)
           d == Resolve(c.denyFrom, Friend)
           g == IF DOMAIN c.groups \ {AnyGroup} # {}
                THEN ResolveGroups(c.groups, Friend, Group) ELSE c.groups
<1>1. c \in [denyFrom : SUBSET Entry, allowFrom : SUBSET Entry,
             dmPolicy : {"open", "pairing", "allowlist", "disabled"},
             groupPolicy : {"open", "allowlist", "disabled"},
             groups : {c.groups}]
  BY AccountIs, Zenon DEF IsConfig
<1>2. Started(cfg) = [c EXCEPT !.allowFrom = a, !.denyFrom = d, !.groups = g]
  BY DEF Started, ResolveConfig
<1> HIDE DEF a, d, g, c
<1>3. /\ Started(cfg).denyFrom = d /\ Started(cfg).groups = g
      /\ Started(cfg).groupPolicy = c.groupPolicy
  BY <1>1, <1>2
<1> QED BY <1>3 DEF d, g, c

-----------------------------------------------------------------------------
(* What an edit was of, and that it is still there.                         *)
Keys ==
  ({"deny"} \X User \X {NoOne})
  \cup ({"group deny", "group allow"} \X User \X GroupIds)
  \cup ({"mention"} \X {NoOne} \X GroupIds)

InEntry(e, u, edit) ==
  LET does == edit[1]
  IN /\ does = "group deny" => u \in e.deny
     /\ does = "group undeny" => u \notin e.deny
     /\ does = "group allow" => u \in e.allow
     /\ does = "group unallow" => u \notin e.allow
     /\ does = "mention" => edit[2] \in {{"yes"}, {"no"}} /\ e.mention \in edit[2]

Holds(cfg, key, edit) ==
  /\ edit[1] \in Edits /\ List(edit[1]) = key[1]
  /\ edit[1] = "deny" => key[2] \in cfg.denyFrom
  /\ edit[1] = "undeny" => key[2] \notin cfg.denyFrom
  /\ InEntry(EntryOf(cfg, key[3][2]), key[2], edit)

EditsInv ==
  \A key \in DOMAIN last :
    key \in Keys /\ Holds(config, key, last[key])

LEMMA ListOf ==
  /\ \A does \in {"deny", "undeny"} : List(does) = "deny"
  /\ \A does \in {"group deny", "group undeny"} : List(does) = "group deny"
  /\ \A does \in {"group allow", "group unallow"} : List(does) = "group allow"
  /\ List("mention") = "mention"
BY DEF List

LEMMA KeyShapes ==
  ASSUME NEW key \in Keys
  PROVE  \/ key[1] = "deny" /\ key[2] \in User /\ key[3] = NoOne
         \/ /\ key[1] \in {"group deny", "group allow"}
            /\ key[2] \in User /\ key[3] \in GroupIds
         \/ key[1] = "mention" /\ key[2] = NoOne /\ key[3] \in GroupIds
BY DEF Keys

LEMMA KeyIsThree == ASSUME NEW key \in Keys PROVE key = <<key[1], key[2], key[3]>>
<1>1. ASSUME NEW A, NEW B, NEW C, NEW k \in A \X B \X C
      PROVE  k = <<k[1], k[2], k[3]>>
  OBVIOUS
<1>3. CASE key \in {"deny"} \X User \X {NoOne}
  BY <1>1, <1>3
<1>4. CASE key \in {"group deny", "group allow"} \X User \X GroupIds
  BY <1>1, <1>4
<1>5. CASE key \in {"mention"} \X {NoOne} \X GroupIds
  BY <1>1, <1>5
<1> QED BY <1>3, <1>4, <1>5, Zenon DEF Keys

LEMMA GroupIdIs == ASSUME NEW k \in GroupIds PROVE k[2] \in Group /\ k = ById(k[2])
BY DEF GroupIds, ById

(* The key of an editor is one, and the edit holds after it.                *)
LEMMA OwnKey ==
  ASSUME NEW c, Editor(c)
  PROVE  <<List(c.does), c.user, c.group>> \in Keys
<1>1. CASE c.does \notin GroupEdits
  <2>1. c.does \in {"deny", "undeny"} /\ c.user \in User /\ c.group = NoOne
    BY <1>1, EditorNames DEF Editor, Edits, GroupEdits
  <2> QED BY <2>1, ListOf DEF Keys
<1>2. CASE c.does \in GroupEdits /\ c.does # "mention"
  <2>1. c.user \in User /\ c.group \in GroupIds
    BY <1>2, EditorNames
  <2>2. List(c.does) \in {"group deny", "group allow"}
    BY <1>2, ListOf DEF GroupEdits
  <2> QED BY <2>1, <2>2 DEF Keys
<1>3. CASE c.does = "mention"
  <2>1. c.user = NoOne /\ c.group \in GroupIds
    BY <1>3, EditorNames DEF GroupEdits
  <2> QED BY <1>3, <2>1, ListOf DEF Keys
<1> QED BY <1>1, <1>2, <1>3

LEMMA WithEntryOf ==
  ASSUME NEW cfg, IsConfig(cfg), NEW g \in Group, NEW e \in GroupEntry, NEW t
  PROVE  EntryOf(WithEntry(cfg, g, e), t) = IF t = g THEN e ELSE EntryOf(cfg, t)
<1>1. CASE t = g
  BY <1>1, WithEntryIs DEF EntryOf
<1>2. CASE t # g
  <2>1. ById(t) # ById(g)
    BY <1>2, KeysDiffer
  <2> QED BY <1>2, <2>1, WithEntryIs DEF EntryOf
<1> QED BY <1>1, <1>2

(* What a group edit does to the entry of each group.                       *)
LEMMA EntryAfter ==
  ASSUME NEW cfg, IsConfig(cfg), NEW c, Editor(c), c.does \in GroupEdits, NEW t
  PROVE  /\ Edited(cfg, c).denyFrom = cfg.denyFrom
         /\ Edited(cfg, c).groupPolicy = cfg.groupPolicy
         /\ EntryOf(Edited(cfg, c), t) =
              IF t = c.group[2] THEN Revised(EntryOf(cfg, t), c) ELSE EntryOf(cfg, t)
<1> DEFINE g == c.group[2]
           e == Revised(EntryOf(cfg, g), c)
<1>1. g \in Group
  BY EditorNames
<1>2. e \in GroupEntry
  BY EntryIsOne, RevisedIsEntry
<1>3. CASE Edited(cfg, c) = WithEntry(cfg, g, e)
  <2> HIDE DEF e
  <2>1. EntryOf(Edited(cfg, c), t) = IF t = g THEN e ELSE EntryOf(cfg, t)
    BY <1>1, <1>2, <1>3, WithEntryOf
  <2>2. Edited(cfg, c).denyFrom = cfg.denyFrom
        /\ Edited(cfg, c).groupPolicy = cfg.groupPolicy
    BY <1>1, <1>2, <1>3, WithEntryIs
  <2> QED BY <2>1, <2>2 DEF e
<1>4. CASE /\ c.does \in {"group undeny", "group unallow"}
           /\ ById(g) \notin DOMAIN cfg.groups /\ Edited(cfg, c) = cfg
  <2>1. EntryOf(cfg, g) = NoEntry
    BY <1>4 DEF EntryOf
  <2>2. Revised(NoEntry, c) = NoEntry
    BY <1>4 DEF Revised, NoEntry
  <2> QED BY <1>4, <2>1, <2>2
<1> QED BY <1>3, <1>4, GroupEditedIs

LEMMA OwnEditHolds ==
  ASSUME NEW cfg, IsConfig(cfg), NEW c, Editor(c)
  PROVE  Holds(Edited(cfg, c), <<List(c.does), c.user, c.group>>, <<c.does, c.given>>)
<1> DEFINE new == Edited(cfg, c)
           key == <<List(c.does), c.user, c.group>>
           edit == <<c.does, c.given>>
<1>1. /\ edit[1] = c.does /\ edit[2] = c.given /\ c.does \in Edits
      /\ key[1] = List(c.does) /\ key[2] = c.user /\ key[3] = c.group
  BY DEF Editor
<1>2. CASE c.does \notin GroupEdits
  <2>1. c.does \in {"deny", "undeny"}
    BY <1>1, <1>2 DEF Edits, GroupEdits
  <2>2. new.denyFrom = IF c.does = "deny" THEN cfg.denyFrom \cup {c.user}
                       ELSE cfg.denyFrom \ {c.user}
    BY <1>2, DenyEditedIs
  <2> HIDE DEF new, key, edit
  <2>3. InEntry(EntryOf(new, key[3][2]), key[2], edit)
    BY <1>1, <2>1 DEF InEntry
  <2>4. /\ edit[1] = "deny" => key[2] \in new.denyFrom
        /\ edit[1] = "undeny" => key[2] \notin new.denyFrom
    BY <1>1, <2>1, <2>2
  <2>5. Holds(new, key, edit)
    BY <1>1, <2>3, <2>4 DEF Holds
  <2> QED BY <2>5 DEF new, key, edit
<1>3. CASE c.does \in GroupEdits
  <2> DEFINE e == EntryOf(cfg, c.group[2])
  <2>1. EntryOf(new, c.group[2]) = Revised(e, c)
    BY <1>3, EntryAfter
  <2>2. c.does \notin {"deny", "undeny"}
    BY <1>3 DEF GroupEdits
  <2>3. c.does = "mention" => c.given \in {{"yes"}, {"no"}} /\ Choice(c.given) \in c.given
    BY EditorNames, Chosen
  <2> HIDE DEF new, key, edit, e
  <2>4. /\ Revised(e, c).deny = IF c.does = "group deny" THEN e.deny \cup {c.user}
              ELSE IF c.does = "group undeny" THEN e.deny \ {c.user} ELSE e.deny
        /\ Revised(e, c).allow = IF c.does = "group allow" THEN e.allow \cup {c.user}
               ELSE IF c.does = "group unallow" THEN e.allow \ {c.user} ELSE e.allow
        /\ Revised(e, c).mention =
             IF c.does = "mention" THEN Choice(c.given) ELSE e.mention
    BY DEF Revised
  <2>5. InEntry(Revised(e, c), c.user, edit)
    <3> DEFINE r == Revised(e, c)
    <3>1. /\ c.does = "group deny" => c.user \in r.deny
          /\ c.does = "group undeny" => c.user \notin r.deny
      BY <2>4
    <3>2. /\ c.does = "group allow" => c.user \in r.allow
          /\ c.does = "group unallow" => c.user \notin r.allow
      BY <2>4
    <3>3. c.does = "mention" => c.given \in {{"yes"}, {"no"}} /\ r.mention \in c.given
      BY <2>3, <2>4
    <3> HIDE DEF r
    <3>4. InEntry(r, c.user, edit)
      BY <1>1, <3>1, <3>2, <3>3 DEF InEntry
    <3> QED BY <3>4 DEF r
  <2>6. InEntry(EntryOf(new, key[3][2]), key[2], edit)
    BY <1>1, <2>1, <2>5
  <2>7. Holds(new, key, edit)
    BY <1>1, <2>2, <2>6 DEF Holds
  <2> QED BY <2>7 DEF new, key, edit
<1> QED BY <1>2, <1>3

LEMMA OtherEditHolds ==
  ASSUME NEW cfg, IsConfig(cfg), NEW c, Editor(c), NEW key \in Keys, NEW edit,
         key # <<List(c.does), c.user, c.group>>,
         Holds(cfg, key, edit)
  PROVE  Holds(Edited(cfg, c), key, edit)
<1> DEFINE new == Edited(cfg, c)
           t == key[3][2]
<1>1. key = <<key[1], key[2], key[3]>>
  BY KeyIsThree
<1>2. edit[1] \in Edits /\ List(edit[1]) = key[1]
  BY DEF Holds
<1>3. ASSUME new.denyFrom = cfg.denyFrom, InEntry(EntryOf(new, t), key[2], edit)
      PROVE  Holds(new, key, edit)
  BY <1>3 DEF Holds
<1>4. CASE c.does \notin GroupEdits
  <2>1. c.does \in {"deny", "undeny"} /\ c.user \in User /\ c.group = NoOne
    BY <1>4, EditorNames DEF Editor, Edits, GroupEdits
  <2>2. /\ new.denyFrom = IF c.does = "deny" THEN cfg.denyFrom \cup {c.user}
                          ELSE cfg.denyFrom \ {c.user}
        /\ new.groups = cfg.groups
    BY <1>4, DenyEditedIs
  <2>3. EntryOf(new, t) = EntryOf(cfg, t)
    BY <2>2 DEF EntryOf
  <2>4. ASSUME edit[1] \in {"deny", "undeny"} PROVE key[2] # c.user
    <3>1. key[1] = "deny" /\ List(c.does) = "deny"
      BY <1>2, <2>1, <2>4, ListOf
    <3>2. key[3] = NoOne
      BY <3>1, KeyShapes
    <3> QED BY <1>1, <2>1, <3>1, <3>2
  <2> HIDE DEF new, t
  <2>5. /\ edit[1] = "deny" => key[2] \in new.denyFrom
        /\ edit[1] = "undeny" => key[2] \notin new.denyFrom
    BY <2>2, <2>4 DEF Holds
  <2>6. Holds(new, key, edit)
    BY <2>3, <2>5 DEF Holds, t
  <2> QED BY <2>6 DEF new
<1>5. CASE c.does \in GroupEdits
  <2>1. /\ new.denyFrom = cfg.denyFrom
        /\ EntryOf(new, t) = IF t = c.group[2] THEN Revised(EntryOf(cfg, t), c)
                             ELSE EntryOf(cfg, t)
    BY <1>5, EntryAfter
  <2>2. InEntry(EntryOf(cfg, t), key[2], edit)
    BY DEF Holds
  <2>3. CASE t # c.group[2]
    BY <1>3, <2>1, <2>2, <2>3
  <2>4. CASE edit[1] \in {"deny", "undeny"}
    <3>1. InEntry(EntryOf(new, t), key[2], edit)
      BY <2>4 DEF InEntry
    <3> QED BY <1>3, <2>1, <3>1
  <2>5. CASE t = c.group[2] /\ edit[1] \in GroupEdits
    <3> DEFINE e == EntryOf(cfg, t)
               r == Revised(e, c)
    <3>1. key[1] # "deny"
      BY <1>2, <2>5, ListOf DEF GroupEdits
    <3>2. key[3] = c.group
      BY <1>5, <2>5, <3>1, KeyShapes, GroupIdIs, EditorNames
    <3>3. key[1] # List(c.does) \/ key[2] # c.user
      BY <1>1, <3>2
    <3>4. c.does = "mention" => c.user = NoOne
      BY EditorNames
    <3>5. /\ r.deny = IF c.does = "group deny" THEN e.deny \cup {c.user}
                ELSE IF c.does = "group undeny" THEN e.deny \ {c.user} ELSE e.deny
          /\ r.allow = IF c.does = "group allow" THEN e.allow \cup {c.user}
                 ELSE IF c.does = "group unallow" THEN e.allow \ {c.user} ELSE e.allow
          /\ r.mention = IF c.does = "mention" THEN Choice(c.given) ELSE e.mention
      BY DEF Revised
    <3> HIDE DEF e, r
    <3>6. ASSUME edit[1] \in {"group deny", "group undeny"}
          PROVE  InEntry(r, key[2], edit)
      <4>1. key[2] \in r.deny <=> key[2] \in e.deny
        BY <1>2, <3>3, <3>5, <3>6, ListOf
      <4> QED BY <2>2, <3>6, <4>1 DEF InEntry, e
    <3>7. ASSUME edit[1] \in {"group allow", "group unallow"}
          PROVE  InEntry(r, key[2], edit)
      <4>1. key[2] \in r.allow <=> key[2] \in e.allow
        BY <1>2, <3>3, <3>5, <3>7, ListOf
      <4> QED BY <2>2, <3>7, <4>1 DEF InEntry, e
    <3>8. ASSUME edit[1] = "mention" PROVE InEntry(r, key[2], edit)
      <4>1. key[1] = "mention"
        BY <1>2, <3>8, ListOf
      <4>2. key[2] = NoOne
        BY <4>1, KeyShapes
      <4>3. c.does # "mention"
        BY <3>3, <3>4, <4>1, <4>2, ListOf
      <4>4. r.mention = e.mention
        BY <3>5, <4>3
      <4> QED BY <2>2, <3>8, <4>4 DEF InEntry, e
    <3>9. InEntry(r, key[2], edit)
      BY <2>5, <3>6, <3>7, <3>8 DEF GroupEdits
    <3> QED BY <1>3, <2>1, <2>5, <3>9 DEF r, e
  <2> QED BY <1>2, <2>3, <2>4, <2>5 DEF Edits
<1> QED BY <1>4, <1>5

-----------------------------------------------------------------------------
(* The history of edits stays right.                                        *)
LEMMA EditKeeps ==
  ASSUME Typed, EditsInv, NEW s \in Slot, EditConfig(s) PROVE EditsInv'
<1> DEFINE c == slots[s]
           key0 == <<List(c.does), c.user, c.group>>
           edit0 == <<c.does, c.given>>
<1>1. Editor(c) /\ IsConfig(config) /\ config' = Edited(config, c)
  BY IsEditor DEF Typed, EditConfig
<1>2. last' = Noted(key0, edit0)
  BY DEF EditConfig
<1> HIDE DEF c, key0, edit0
<1>3. /\ DOMAIN last' = DOMAIN last \cup {key0}
      /\ last'[key0] = edit0
      /\ \A key \in DOMAIN last : key # key0 => last'[key] = last[key]
  BY <1>2 DEF Noted
<1>4. key0 \in Keys /\ Holds(config', key0, last'[key0])
  <2>1. key0 \in Keys
    BY <1>1, OwnKey DEF key0
  <2>2. Holds(config', key0, last'[key0])
    BY <1>1, <1>3, OwnEditHolds DEF key0, edit0
  <2> QED BY <2>1, <2>2
<1>5. ASSUME NEW key \in DOMAIN last, key # key0
      PROVE  key \in Keys /\ Holds(config', key, last'[key])
  <2>1. key \in Keys /\ last'[key] = last[key] /\ Holds(config, key, last[key])
    BY <1>3, <1>5 DEF EditsInv
  <2> QED BY <1>1, <1>5, <2>1, OtherEditHolds DEF key0
<1>6. \A key \in DOMAIN last' : key \in Keys /\ Holds(config', key, last'[key])
  BY <1>3, <1>4, <1>5
<1> QED BY <1>6, Zenon DEF EditsInv

LEMMA OthersKeepFile ==
  ASSUME NEW s \in Slot, Aside(s), ~EditConfig(s)
  PROVE  UNCHANGED <<config, account, last>>
<1>1. CASE \E h \in Handlers :
             \E user \in Users(h), group \in Groups(h), given \in Given(h) :
               Call(s, h, user, group, given)
  BY <1>1 DEF Call, file
<1>2. CASE Resolve1(s)
  BY <1>2 DEF Resolve1, file
<1> QED BY <1>1, <1>2 DEF Aside, Fetched, Fail, Answer, EditFails, UpdateProfile,
        NotTaken, file

LEMMA NextFile ==
  ASSUME [Next]_vars
  PROVE  \/ \E s \in Slot : EditConfig(s)
         \/ UNCHANGED <<config, account, last>>
<1>1. CASE UNCHANGED vars
  BY <1>1 DEF vars
<1>2. ASSUME NEW s \in Slot,
             TakeAnswer(s) \/ AnswerLost(s) \/ \E wrote \in Written : Answered(s, wrote)
      PROVE  UNCHANGED <<config, account, last>>
  BY <1>2 DEF TakeAnswer, Answered, AnswerLost, file
<1>3. ASSUME NEW h \in Handlers, Malformed(h) PROVE UNCHANGED <<config, account, last>>
  BY <1>3 DEF Malformed, file
<1>4. ASSUME NEW u \in User, Request(u) \/ Withdraw(u)
      PROVE  UNCHANGED <<config, account, last>>
  BY <1>4 DEF Request, Withdraw, file
<1>5. ASSUME NEW wrote, FriendEvent(wrote) PROVE UNCHANGED <<config, account, last>>
  BY <1>5 DEF FriendEvent, file
<1>6. ASSUME NEW cut, Crash(cut) PROVE UNCHANGED <<config, account, last>>
  BY <1>6 DEF Crash
<1>7. CASE Next
  BY <1>2, <1>3, <1>4, <1>5, <1>6, <1>7, OthersKeepFile, Zenon DEF Next, Aside
<1> QED BY <1>1, <1>7

LEMMA NextEdits == Typed /\ EditsInv /\ [Next]_vars => EditsInv'
<1> SUFFICES ASSUME Typed, EditsInv, [Next]_vars PROVE EditsInv'
  OBVIOUS
<1>1. ASSUME UNCHANGED <<config, last>> PROVE EditsInv'
  BY <1>1 DEF EditsInv
<1> QED BY <1>1, NextFile, EditKeeps, Zenon

LEMMA InitEdits == Init => EditsInv
BY DEF Init, EditsInv

-----------------------------------------------------------------------------
(* An edit that the configuration holds is in force for a monitor.          *)
LEMMA EntryStarted ==
  ASSUME NEW cfg, IsConfig(cfg), IsConfig(account.own), "groups" \notin account.sets,
         NEW g \in Group, ById(g) \in DOMAIN cfg.groups
  PROVE  LET gs == Started(cfg).groups
             e  == EntryOf(cfg, g)
         IN /\ gs = ResolveGroups(cfg.groups, Friend, Group)
            /\ ById(g) \in DOMAIN gs
            /\ gs[ById(g)].deny = Resolve(e.deny, Friend)
            /\ gs[ById(g)].allow = e.allow
            /\ gs[ById(g)].mention = e.mention
<1>1. EntryOf(cfg, g) = cfg.groups[ById(g)] /\ EntryOf(cfg, g) \in GroupEntry
  BY EntryIsOne DEF EntryOf
<1>2. Started(cfg).groups = ResolveGroups(cfg.groups, Friend, Group)
  BY StartedIs, AccountIs, KeysDiffer
<1>3. /\ ById(g) \in DOMAIN Started(cfg).groups
      /\ Started(cfg).groups[ById(g)] = Known(cfg.groups[ById(g)])
  BY <1>2, ResolvedAt
<1> QED BY <1>1, <1>2, <1>3, KnownFields

LEMMA HasIsFew ==
  ASSUME NEW cfg, NEW g
  PROVE  /\ Has(cfg, g) \in SUBSET (1..3)
         /\ HasAllow(cfg, g) \in SUBSET (1..3)
         /\ HasMention(cfg, g) \in SUBSET (1..3)
BY DEF Has, HasAllow, HasMention

(* Names and other spellings of a user are no ids.                          *)
LEMMA WordsDiffer ==
  ASSUME NEW u \in User
  PROVE  /\ Spelled(u) \notin User /\ Named(u) \notin User
         /\ Spelled(u) \notin Friend
         /\ Spelled(u) # Named(u)
         /\ \A v \in User : (Spelled(u) = Spelled(v) => u = v)
                          /\ (Named(u) = Named(v) => u = v)
BY AgentToolAssumption DEF Spelled, Named

LEMMA ResolvedLists ==
  ASSUME NEW u \in User, NEW L
  PROVE  Listed(u, Resolve(L, Friend)) => u \in L \/ Otherwise(u, L)
<1>1. Spelled(u) \in Resolve(L, Friend) => Spelled(u) \in L
  BY WordsDiffer DEF Resolve
<1>2. u \in Resolve(L, Friend) => u \in L \/ Named(u) \in L \/ Spelled(u) \in L
  BY DEF Resolve
<1> QED BY <1>1, <1>2 DEF Listed, Otherwise

LEMMA DenyInForce ==
  ASSUME NEW cfg, IsConfig(cfg), IsConfig(account.own), "denyFrom" \notin account.sets,
         NEW u \in cfg.denyFrom, NEW t
  PROVE  Refused(Started(cfg), u, t)
BY StartedIs, AccountIs DEF Refused, Resolve, Listed

LEMMA UndenyInForce ==
  ASSUME NEW cfg, IsConfig(cfg), IsConfig(account.own), "denyFrom" \notin account.sets,
         NEW u \in User, u \notin cfg.denyFrom
  PROVE  Listed(u, Started(cfg).denyFrom) => Otherwise(u, cfg.denyFrom)
<1>1. Started(cfg).denyFrom = Resolve(cfg.denyFrom, Friend)
  BY StartedIs, AccountIs
<1> QED BY <1>1, ResolvedLists

LEMMA GroupDenyInForce ==
  ASSUME NEW cfg, IsConfig(cfg), IsConfig(account.own), "groups" \notin account.sets,
         NEW g \in Group, NEW u \in EntryOf(cfg, g).deny
  PROVE  Refused(Started(cfg), u, g)
<1>1. ById(g) \in DOMAIN cfg.groups
  BY DEF EntryOf, NoEntry
<1>2. /\ ById(g) \in DOMAIN Started(cfg).groups
      /\ u \in Started(cfg).groups[ById(g)].deny
  BY <1>1, EntryStarted DEF Resolve
<1> QED BY <1>2 DEF Refused, DeniedInGroup, Listed

LEMMA GroupUndenyInForce ==
  ASSUME IsConfig(config), IsConfig(account.own), "groups" \notin account.sets,
         NEW g \in Group, NEW u \in User, u \notin EntryOf(config, g).deny,
         DeniedInGroup(Started(config), u, g)
  PROVE  DeniedElsewhere(u, g)
<1> DEFINE gs == config.groups
           new == Started(config).groups
<1>1. PICK k \in {ById(g), Prefixed(g), AnyGroup} \cap DOMAIN new : Listed(u, new[k].deny)
  BY DEF DeniedInGroup
<1>2. gs \in [DOMAIN gs -> GroupEntry]
  BY Zenon DEF IsConfig
<1>3. new = IF DOMAIN gs \ {AnyGroup} # {} THEN ResolveGroups(gs, Friend, Group) ELSE gs
  BY StartedIs, AccountIs
<1>4. \A j \in DOMAIN gs : Known(gs[j]).deny = Resolve(gs[j].deny, Friend)
  BY <1>2, KnownFields
<1>5. ASSUME NEW j \in DOMAIN gs, Listed(u, Resolve(gs[j].deny, Friend))
      PROVE  u \in gs[j].deny \/ Otherwise(u, gs[j].deny)
  BY <1>5, ResolvedLists
<1>6. ASSUME NEW j \in {Prefixed(g), ByName(g), AnyGroup} \cap DOMAIN gs,
             u \in gs[j].deny \/ Otherwise(u, gs[j].deny)
      PROVE  DeniedElsewhere(u, g)
  BY <1>6 DEF DeniedElsewhere
<1>7. ById(g) \in DOMAIN gs => EntryOf(config, g) = gs[ById(g)]
  BY DEF EntryOf
<1> HIDE DEF gs, new
<1>8. CASE DOMAIN gs \ {AnyGroup} = {}
  <2>1. k \in {Prefixed(g), AnyGroup} \cap DOMAIN gs /\ Listed(u, gs[k].deny)
    BY <1>1, <1>3, <1>8, KeysDiffer
  <2> QED BY <1>6, <2>1 DEF Listed, Otherwise
<1>9. CASE DOMAIN gs \ {AnyGroup} # {}
  <2>1. new = ResolveGroups(gs, Friend, Group)
    BY <1>3, <1>9
  <2>2. CASE k \in {Prefixed(g), AnyGroup}
    <3>1. k \in DOMAIN gs /\ new[k] = Known(gs[k])
      BY <1>1, <2>1, <2>2, ResolvedAt
    <3> QED BY <1>1, <1>4, <1>5, <1>6, <2>2, <3>1
  <2>3. CASE k = ById(g) /\ ById(g) \in DOMAIN gs
    <3>1. new[k] = Known(gs[ById(g)])
      BY <2>1, <2>3, ResolvedAt
    <3>2. Otherwise(u, EntryOf(config, g).deny)
      BY <1>1, <1>4, <1>5, <1>7, <2>3, <3>1
    <3> QED BY <3>2 DEF DeniedElsewhere
  <2>4. CASE k = ById(g) /\ ById(g) \notin DOMAIN gs
    <3>1. ByName(g) \in DOMAIN gs /\ new[k] = Known(gs[ByName(g)])
      BY <1>1, <2>1, <2>4, ResolvedAt
    <3> QED BY <1>1, <1>4, <1>5, <1>6, <3>1
  <2> QED BY <1>1, <2>2, <2>3, <2>4
<1> QED BY <1>8, <1>9

LEMMA OwnAllowFirst ==
  ASSUME NEW cfg, IsConfig(cfg), IsConfig(account.own), "groups" \notin account.sets,
         NEW g \in Group, EntryOf(cfg, g).allow # {}, NEW u
  PROVE  OutsideAllowUsers(Started(cfg), u, g) <=> ~SenderAllowed(u, EntryOf(cfg, g).allow)
<1> DEFINE new == Started(cfg)
<1>1. ById(g) \in DOMAIN cfg.groups
  BY DEF EntryOf, NoEntry
<1>2. ById(g) \in DOMAIN new.groups /\ new.groups[ById(g)].allow = EntryOf(cfg, g).allow
  BY <1>1, EntryStarted
<1> HIDE DEF new
<1>3. 1 \in HasAllow(new, g)
  BY <1>2, ThreeCandidates DEF HasAllow
<1>4. First(HasAllow(new, g)) = 1
  BY <1>3, HasIsFew, FirstIsOne
<1>5. OutsideAllowUsers(new, u, g) <=>
        ~SenderAllowed(u, new.groups[Candidates(g)[1]].allow)
  BY <1>4, OutsideIs
<1>6. OutsideAllowUsers(new, u, g) <=> ~SenderAllowed(u, EntryOf(cfg, g).allow)
  BY <1>2, <1>5, ThreeCandidates
<1> QED BY <1>6 DEF new

LEMMA GroupAllowInForce ==
  ASSUME NEW cfg, IsConfig(cfg), IsConfig(account.own), "groups" \notin account.sets,
         NEW g \in Group, NEW u \in EntryOf(cfg, g).allow
  PROVE  ~OutsideAllowUsers(Started(cfg), u, g)
BY OwnAllowFirst DEF SenderAllowed, Listed

LEMMA GroupUnallowInForce ==
  ASSUME IsConfig(config), IsConfig(account.own), "groups" \notin account.sets,
         NEW g \in Group, NEW u, u \notin EntryOf(config, g).allow
  PROVE  OutsideAllowUsers(Started(config), u, g) \/ AllowedElsewhere(u, g)
BY OwnAllowFirst DEF SenderAllowed, Listed, AllowedElsewhere

LEMMA MentionInForce ==
  ASSUME NEW cfg, IsConfig(cfg), IsConfig(account.own), "groups" \notin account.sets,
         NEW g \in Group, NEW given \in {{"yes"}, {"no"}},
         EntryOf(cfg, g).mention \in given
  PROVE  RequiresMention(Started(cfg), g) <=> "yes" \in given
<1> DEFINE new == Started(cfg)
           m == EntryOf(cfg, g).mention
<1>1. m # "unset" /\ (m = "yes" <=> "yes" \in given)
  OBVIOUS
<1>2. ById(g) \in DOMAIN cfg.groups
  BY <1>1 DEF EntryOf, NoEntry
<1>3. ById(g) \in DOMAIN new.groups /\ new.groups[ById(g)].mention = m
  BY <1>2, EntryStarted
<1> HIDE DEF new, m
<1>4. 1 \in HasMention(new, g)
  BY <1>1, <1>3, ThreeCandidates DEF HasMention
<1>5. First(HasMention(new, g)) = 1
  BY <1>4, HasIsFew, FirstIsOne
<1>6. RequiresMention(new, g) <=> new.groups[Candidates(g)[1]].mention = "yes"
  BY <1>5, MentionIs
<1>7. RequiresMention(new, g) <=> "yes" \in given
  BY <1>1, <1>3, <1>6, ThreeCandidates
<1> QED BY <1>7 DEF new

LEMMA EditIsInForce ==
  ASSUME IsConfig(config), IsConfig(account.own), NEW key \in Keys, NEW edit,
         Field(edit[1]) \notin account.sets, Holds(config, key, edit)
  PROVE  EditInForce(key, edit)
<1> DEFINE does == edit[1]
           u == key[2]
           g == key[3][2]
           e == EntryOf(config, g)
<1>1. does \in Edits /\ List(does) = key[1]
  BY DEF Holds
<1>2. does \in GroupEdits => g \in Group /\ "groups" \notin account.sets
  <2>1. does \in GroupEdits => key[1] # "deny"
    BY <1>1, ListOf DEF GroupEdits
  <2> QED BY <2>1, KeyShapes, GroupIdIs DEF Field
<1>11. does \in {"deny", "undeny"} => "denyFrom" \notin account.sets
  BY DEF Field, GroupEdits
<1>12. does \notin {"mention"} => u \in User
  <2>1. does # "mention" => key[1] # "mention"
    BY <1>1, ListOf DEF Edits, GroupEdits
  <2> QED BY <2>1, KeyShapes
<1>3. InEntry(e, u, edit)
  BY DEF Holds
<1> HIDE DEF u, g, e, does
<1>4. CASE does = "deny"
  <2>1. u \in config.denyFrom
    BY <1>4 DEF Holds, does, u
  <2>2. \A t \in Group \cup {u} : Refused(Started(config), u, t)
    BY <1>4, <1>11, <2>1, DenyInForce
  <2> QED BY <1>4, <2>2 DEF EditInForce, does, u, g
<1>5. CASE does = "undeny"
  <2>1. u \notin config.denyFrom
    BY <1>5 DEF Holds, does, u
  <2>2. Listed(u, Started(config).denyFrom) => Otherwise(u, config.denyFrom)
    BY <1>5, <1>11, <1>12, <2>1, UndenyInForce
  <2> QED BY <1>5, <2>2 DEF EditInForce, does, u, g
<1>6. CASE does = "group deny"
  <2>1. u \in e.deny /\ g \in Group /\ "groups" \notin account.sets
    BY <1>2, <1>3, <1>6 DEF InEntry, does, GroupEdits
  <2>2. Refused(Started(config), u, g)
    BY <2>1, GroupDenyInForce DEF e
  <2> QED BY <1>6, <2>2 DEF EditInForce, does, u, g
<1>7. CASE does = "group undeny"
  <2>1. u \notin e.deny
    BY <1>3, <1>7 DEF InEntry, does
  <2>2. g \in Group /\ "groups" \notin account.sets /\ u \in User
    BY <1>2, <1>7, <1>12 DEF GroupEdits
  <2>3. DeniedInGroup(Started(config), u, g) => DeniedElsewhere(u, g)
    BY <2>1, <2>2, GroupUndenyInForce DEF e
  <2> QED BY <1>7, <2>3 DEF EditInForce, does, u, g
<1>8. CASE does = "group allow"
  <2>1. u \in e.allow /\ g \in Group /\ "groups" \notin account.sets
    BY <1>2, <1>3, <1>8 DEF InEntry, does, GroupEdits
  <2>2. ~OutsideAllowUsers(Started(config), u, g)
    BY <2>1, GroupAllowInForce DEF e
  <2> QED BY <1>8, <2>2 DEF EditInForce, does, u, g
<1>9. CASE does = "group unallow"
  <2>1. u \notin e.allow
    BY <1>3, <1>9 DEF InEntry, does
  <2>2. g \in Group /\ "groups" \notin account.sets
    BY <1>2, <1>9 DEF GroupEdits
  <2>3. OutsideAllowUsers(Started(config), u, g) \/ AllowedElsewhere(u, g)
    BY <2>1, <2>2, GroupUnallowInForce DEF e
  <2> QED BY <1>9, <2>3 DEF EditInForce, does, u, g
<1>10. CASE does = "mention"
  <2>1. edit[2] \in {{"yes"}, {"no"}} /\ e.mention \in edit[2]
        /\ g \in Group /\ "groups" \notin account.sets
    BY <1>2, <1>3, <1>10 DEF InEntry, does, GroupEdits
  <2>2. RequiresMention(Started(config), g) <=> "yes" \in edit[2]
    BY <2>1, MentionInForce DEF e
  <2>3. RequiresMention(Started(config), g) = ("yes" \in edit[2])
    BY <2>2 DEF RequiresMention
  <2> QED BY <1>10, <2>3 DEF EditInForce, does, u, g
<1> QED BY <1>1, <1>4, <1>5, <1>6, <1>7, <1>8, <1>9, <1>10 DEF Edits, GroupEdits

(* What an edit was answered with success for is in force for a monitor     *)
(* that starts later until the same entry is edited again, whatever other   *)
(* calls do in between: a blocked user is refused, an unblocked one is not  *)
(* denied unless something else in the file denies him, and so on, where    *)
(* accounts.<id> does not set the field.                                    *)
THEOREM EditsStay == Spec => []EditsAreKept
<1>1. Typed /\ EditsInv => EditsAreKept
  <2> SUFFICES ASSUME Typed, EditsInv, NEW key \in DOMAIN last,
                      Field(last[key][1]) \notin account.sets
               PROVE  EditInForce(key, last[key])
    BY DEF EditsAreKept
  <2>1. key \in Keys /\ Holds(config, key, last[key])
    BY DEF EditsInv
  <2> QED BY <2>1, EditIsInForce DEF Typed
<1> QED BY AlwaysTyped, InitEdits, NextEdits, <1>1, PTL DEF Spec

-----------------------------------------------------------------------------
(* Whether a user is refused in a group depends on few things only.         *)
AlikeEntries(e, f, v) ==
  /\ Listed(v, e.deny) <=> Listed(v, f.deny)
  /\ e.allow = {} <=> f.allow = {}
  /\ SenderAllowed(v, e.allow) <=> SenderAllowed(v, f.allow)
  /\ e.open = f.open

AlikeAt(gs, hs, k, v) ==
  /\ k \in DOMAIN gs <=> k \in DOMAIN hs
  /\ k \in DOMAIN gs => AlikeEntries(gs[k], hs[k], v)

Alike(gs, hs, v, t) ==
  AlikeAt(gs, hs, ById(t), v) /\ AlikeAt(gs, hs, Prefixed(t), v)
  /\ AlikeAt(gs, hs, AnyGroup, v)

LEMMA AlikeCandidates ==
  ASSUME NEW gs, NEW hs, NEW v, NEW t, Alike(gs, hs, v, t), NEW i \in 1..3
  PROVE  AlikeAt(gs, hs, Candidates(t)[i], v)
<1>1. i = 1 \/ i = 2 \/ i = 3
  OBVIOUS
<1> QED BY <1>1, ThreeCandidates, Zenon DEF Alike

LEMMA AlikeRefuse ==
  ASSUME NEW cfg, NEW new, NEW v, NEW t,
         Listed(v, cfg.denyFrom) <=> Listed(v, new.denyFrom),
         cfg.groupPolicy = new.groupPolicy,
         t \in Group => Alike(cfg.groups, new.groups, v, t)
  PROVE  Refused(cfg, v, t) <=> Refused(new, v, t)
<1>1. CASE t \notin Group
  BY <1>1 DEF Refused
<1>2. CASE t \in Group
  <2>1. \A i \in 1..3 : AlikeAt(cfg.groups, new.groups, Candidates(t)[i], v)
    BY <1>2, AlikeCandidates
  <2>2. DeniedInGroup(cfg, v, t) <=> DeniedInGroup(new, v, t)
    BY <1>2 DEF DeniedInGroup, Alike, AlikeAt, AlikeEntries
  <2>3. HasAllow(cfg, t) = HasAllow(new, t)
    BY <2>1 DEF HasAllow, AlikeAt, AlikeEntries
  <2>4. Has(cfg, t) = Has(new, t)
    BY <2>1 DEF Has, AlikeAt
  <2>5. OutsideAllowUsers(cfg, v, t) <=> OutsideAllowUsers(new, v, t)
    <3> DEFINE i == First(HasAllow(cfg, t))
    <3>1. i # 0 => i \in HasAllow(cfg, t)
      BY HasIsFew, FirstIsOf
    <3>2. First(HasAllow(new, t)) = i
      BY <2>3
    <3> HIDE DEF i
    <3>3. i # 0 => (SenderAllowed(v, cfg.groups[Candidates(t)[i]].allow)
                    <=> SenderAllowed(v, new.groups[Candidates(t)[i]].allow))
      BY <2>1, <3>1 DEF HasAllow, AlikeAt, AlikeEntries
    <3>4. OutsideAllowUsers(cfg, v, t) <=>
            i # 0 /\ ~SenderAllowed(v, cfg.groups[Candidates(t)[i]].allow)
      BY OutsideIs DEF i
    <3>5. OutsideAllowUsers(new, v, t) <=>
            i # 0 /\ ~SenderAllowed(v, new.groups[Candidates(t)[i]].allow)
      BY <3>2, OutsideIs
    <3> QED BY <3>3, <3>4, <3>5
  <2>6. GroupAllowed(cfg, t) <=> GroupAllowed(new, t)
    <3> DEFINE i == First(Has(cfg, t))
    <3>1. i # 0 => i \in Has(cfg, t)
      BY HasIsFew, FirstIsOf
    <3>2. First(Has(new, t)) = i
      BY <2>4
    <3> HIDE DEF i
    <3>3. i # 0 => cfg.groups[Candidates(t)[i]].open = new.groups[Candidates(t)[i]].open
      BY <2>1, <3>1 DEF Has, AlikeAt, AlikeEntries
    <3>4. GroupAllowed(cfg, t) <=> i # 0 /\ cfg.groups[Candidates(t)[i]].open
      BY AllowedIs DEF i
    <3>5. GroupAllowed(new, t) <=> i # 0 /\ new.groups[Candidates(t)[i]].open
      BY <3>2, AllowedIs
    <3> QED BY <3>3, <3>4, <3>5, Zenon
  <2> QED BY <2>2, <2>5, <2>6 DEF Refused
<1> QED BY <1>1, <1>2

(* Entries that are alike before names are resolved are alike afterwards.   *)
SameFor(v, L, M) == \A x \in {v, Spelled(v), Named(v)} : x \in L <=> x \in M

RawAlike(e, f, v) == AlikeEntries(e, f, v) /\ SameFor(v, e.deny, f.deny)

RawAlikeAt(gs, hs, k, v) ==
  /\ k \in DOMAIN gs <=> k \in DOMAIN hs
  /\ k \in DOMAIN gs => RawAlike(gs[k], hs[k], v)

LEMMA SameListed ==
  ASSUME NEW v \in User, NEW L, NEW M, SameFor(v, L, M)
  PROVE  /\ Listed(v, L) <=> Listed(v, M)
         /\ Listed(v, Resolve(L, Friend)) <=> Listed(v, Resolve(M, Friend))
<1>1. /\ v \in L <=> v \in M
      /\ Spelled(v) \in L <=> Spelled(v) \in M
      /\ Named(v) \in L <=> Named(v) \in M
  BY DEF SameFor
<1>2. ASSUME NEW K
      PROVE  Listed(v, Resolve(K, Friend)) <=>
               v \in K \/ Spelled(v) \in K \/ (v \in Friend /\ Named(v) \in K)
  <2>1. Spelled(v) \in Resolve(K, Friend) <=> Spelled(v) \in K
    BY WordsDiffer DEF Resolve
  <2>2. v \in Resolve(K, Friend) <=>
          v \in K \/ Spelled(v) \in K \/ (v \in Friend /\ Named(v) \in K)
    BY DEF Resolve
  <2> QED BY <2>1, <2>2 DEF Listed
<1> QED BY <1>1, <1>2 DEF Listed

LEMMA KnownAlike ==
  ASSUME NEW e \in GroupEntry, NEW f \in GroupEntry, NEW v \in User, RawAlike(e, f, v)
  PROVE  AlikeEntries(Known(e), Known(f), v)
<1>1. Listed(v, Resolve(e.deny, Friend)) <=> Listed(v, Resolve(f.deny, Friend))
  BY SameListed DEF RawAlike
<1> QED BY <1>1, KnownFields DEF RawAlike, AlikeEntries

LEMMA ResolvedAlike ==
  ASSUME NEW gs, gs \in [DOMAIN gs -> GroupEntry],
         NEW hs, hs \in [DOMAIN hs -> GroupEntry],
         NEW v \in User, NEW t \in Group,
         \A k \in {ById(t), ByName(t), Prefixed(t), AnyGroup} : RawAlikeAt(gs, hs, k, v)
  PROVE  Alike(ResolveGroups(gs, Friend, Group), ResolveGroups(hs, Friend, Group), v, t)
<1> DEFINE new == ResolveGroups(gs, Friend, Group)
           now == ResolveGroups(hs, Friend, Group)
<1>1. ASSUME NEW k \in DOMAIN gs, RawAlikeAt(gs, hs, k, v)
      PROVE  AlikeEntries(Known(gs[k]), Known(hs[k]), v)
  BY <1>1, KnownAlike DEF RawAlikeAt
<1>2. \A k \in {Prefixed(t), AnyGroup} :
        /\ k \in DOMAIN new <=> k \in DOMAIN gs
        /\ k \in DOMAIN gs => new[k] = Known(gs[k])
        /\ k \in DOMAIN now <=> k \in DOMAIN hs
        /\ k \in DOMAIN hs => now[k] = Known(hs[k])
  BY ResolvedAt
<1>3. /\ ById(t) \in DOMAIN new <=> {ById(t), ByName(t)} \cap DOMAIN gs # {}
      /\ ById(t) \in DOMAIN gs => new[ById(t)] = Known(gs[ById(t)])
      /\ ById(t) \notin DOMAIN gs /\ ByName(t) \in DOMAIN gs =>
           new[ById(t)] = Known(gs[ByName(t)])
  BY ResolvedAt
<1>4. /\ ById(t) \in DOMAIN now <=> {ById(t), ByName(t)} \cap DOMAIN hs # {}
      /\ ById(t) \in DOMAIN hs => now[ById(t)] = Known(hs[ById(t)])
      /\ ById(t) \notin DOMAIN hs /\ ByName(t) \in DOMAIN hs =>
           now[ById(t)] = Known(hs[ByName(t)])
  BY ResolvedAt
<1> HIDE DEF new, now
<1>5. \A k \in {Prefixed(t), AnyGroup} : AlikeAt(new, now, k, v)
  BY <1>1, <1>2 DEF AlikeAt, RawAlikeAt
<1>6. /\ ById(t) \in DOMAIN gs <=> ById(t) \in DOMAIN hs
      /\ ByName(t) \in DOMAIN gs <=> ByName(t) \in DOMAIN hs
  BY DEF RawAlikeAt
<1>7. AlikeAt(new, now, ById(t), v)
  <2>1. ById(t) \in DOMAIN new <=> ById(t) \in DOMAIN now
    BY <1>3, <1>4, <1>6
  <2>2. ASSUME ById(t) \in DOMAIN new PROVE AlikeEntries(new[ById(t)], now[ById(t)], v)
    <3>1. CASE ById(t) \in DOMAIN gs
      BY <1>1, <1>3, <1>4, <1>6, <3>1
    <3>2. CASE ById(t) \notin DOMAIN gs
      <4>1. ByName(t) \in DOMAIN gs
        BY <1>3, <2>2, <3>2
      <4> QED BY <1>1, <1>3, <1>4, <1>6, <3>2, <4>1
    <3> QED BY <3>1, <3>2
  <2> QED BY <2>1, <2>2 DEF AlikeAt
<1> QED BY <1>5, <1>7 DEF Alike, new, now

-----------------------------------------------------------------------------
(* An edit and those it does not concern.                                   *)
Touches(cfg, c, v, t) ==
  \/ c.does \in {"deny", "undeny"} /\ v = c.user
  \/ c.does \in GroupEdits /\ t \in Group /\ DOMAIN cfg.groups \subseteq {AnyGroup}
  \/ /\ c.does \in GroupEdits /\ t = c.group[2]
     /\ \/ v = c.user /\ c.does # "mention"
        \/ ById(t) \notin DOMAIN cfg.groups
        \/ (EntryOf(cfg, t).allow = {}) # (EntryOf(Edited(cfg, c), t).allow = {})

LEMMA RevisedAlike ==
  ASSUME NEW e \in GroupEntry, NEW c, Editor(c), c.does \in GroupEdits, NEW v \in User,
         v # c.user \/ c.does = "mention",
         e.allow = {} <=> Revised(e, c).allow = {}
  PROVE  RawAlike(e, Revised(e, c), v)
<1> DEFINE r == Revised(e, c)
<1>1. /\ r.deny = IF c.does = "group deny" THEN e.deny \cup {c.user}
            ELSE IF c.does = "group undeny" THEN e.deny \ {c.user} ELSE e.deny
      /\ r.allow = IF c.does = "group allow" THEN e.allow \cup {c.user}
             ELSE IF c.does = "group unallow" THEN e.allow \ {c.user} ELSE e.allow
      /\ r.open = e.open
  BY DEF Revised
<1>2. c.does # "mention" => c.user \in User
  BY EditorNames
<1>3. c.does # "mention" =>
        c.user # v /\ c.user # Star /\ c.user # Named(v) /\ c.user # Spelled(v)
  BY <1>2, AgentToolAssumption
<1> HIDE DEF r
<1>4. SameFor(v, e.deny, r.deny)
  <2>1. \A x \in {v, Spelled(v), Named(v)} : x \in e.deny <=> x \in r.deny
    BY <1>1, <1>3
  <2> QED BY <2>1 DEF SameFor
<1>5. Listed(v, e.deny) <=> Listed(v, r.deny)
  BY <1>4, SameListed
<1>6. SenderAllowed(v, e.allow) <=> SenderAllowed(v, r.allow)
  <2>1. \A x \in {v, Spelled(v), Star} : x \in e.allow <=> x \in r.allow
    BY <1>1, <1>3
  <2> QED BY <2>1 DEF SenderAllowed, Listed
<1> QED BY <1>1, <1>4, <1>5, <1>6 DEF RawAlike, AlikeEntries, r

LEMMA SameAlike ==
  ASSUME NEW gs, NEW hs, NEW k, NEW v, k \in DOMAIN gs <=> k \in DOMAIN hs,
         k \in DOMAIN gs => gs[k] = hs[k]
  PROVE  RawAlikeAt(gs, hs, k, v)
BY Zenon DEF RawAlikeAt, RawAlike, AlikeEntries, SameFor

LEMMA WithEntryAlike ==
  ASSUME NEW cfg, IsConfig(cfg), NEW c, Editor(c), c.does \in GroupEdits,
         NEW v \in User, NEW t \in Group, ~Touches(cfg, c, v, t),
         Edited(cfg, c) = WithEntry(cfg, c.group[2], Revised(EntryOf(cfg, c.group[2]), c)),
         NEW k \in {ById(t), ByName(t), Prefixed(t), AnyGroup}
  PROVE  RawAlikeAt(cfg.groups, Edited(cfg, c).groups, k, v)
<1> DEFINE new == Edited(cfg, c)
           g == c.group[2]
           r == Revised(EntryOf(cfg, g), c)
<1>1. g \in Group
  BY EditorNames
<1>2. EntryOf(cfg, g) \in GroupEntry /\ r \in GroupEntry
  BY EntryIsOne, RevisedIsEntry
<1>3. new = WithEntry(cfg, g, r)
  OBVIOUS
<1> HIDE DEF new, r, g
<1>4. /\ DOMAIN new.groups = DOMAIN cfg.groups \cup {ById(g)}
      /\ new.groups[ById(g)] = r
      /\ \A j \in DOMAIN cfg.groups : j # ById(g) => new.groups[j] = cfg.groups[j]
  BY <1>1, <1>2, <1>3, WithEntryIs
<1>5. CASE k # ById(g)
  <2>1. RawAlikeAt(cfg.groups, new.groups, k, v)
    BY <1>4, <1>5, SameAlike
  <2> QED BY <2>1 DEF new
<1>6. CASE k = ById(g)
  <2>1. t = g
    BY <1>6, KeysDiffer
  <2>2. /\ v # c.user \/ c.does = "mention"
        /\ k \in DOMAIN cfg.groups
        /\ (EntryOf(cfg, t).allow = {}) = (EntryOf(new, t).allow = {})
    BY <1>6, <2>1 DEF Touches, new, g
  <2>3. EntryOf(cfg, t) = cfg.groups[k] /\ EntryOf(new, t) = r
    BY <1>4, <1>6, <2>1, <2>2 DEF EntryOf
  <2>4. cfg.groups[k] \in GroupEntry /\ r = Revised(cfg.groups[k], c)
    BY <1>2, <2>1, <2>3 DEF r
  <2>5. cfg.groups[k].allow = {} <=> r.allow = {}
    BY <2>2, <2>3
  <2>6. RawAlike(cfg.groups[k], r, v)
    BY <2>2, <2>4, <2>5, RevisedAlike
  <2>7. RawAlikeAt(cfg.groups, new.groups, k, v)
    BY <1>4, <1>6, <2>2, <2>6 DEF RawAlikeAt
  <2> QED BY <2>7 DEF new
<1> QED BY <1>5, <1>6

LEMMA OthersAreRefusedAsBefore ==
  ASSUME NEW cfg, IsConfig(cfg), IsConfig(account.own), NEW c, Editor(c),
         NEW v \in User, NEW t, ~Touches(cfg, c, v, t)
  PROVE  Refused(Started(cfg), v, t) <=> Refused(Started(Edited(cfg, c)), v, t)
<1> DEFINE new == Edited(cfg, c)
           old == ForAccount(cfg)
           now == ForAccount(new)
<1>1. IsConfig(new)
  BY EditedIsConfig
<1>2. CASE c.does \notin GroupEdits
  <2>1. c.does \in {"deny", "undeny"} /\ c.user \in User
    BY <1>2, EditorNames DEF Editor, Edits, GroupEdits
  <2>2. v # c.user /\ Named(v) # c.user /\ Spelled(v) # c.user
    BY <2>1, AgentToolAssumption DEF Touches
  <2>3. /\ new.denyFrom = IF c.does = "deny" THEN cfg.denyFrom \cup {c.user}
                          ELSE cfg.denyFrom \ {c.user}
        /\ new.groups = cfg.groups /\ new.groupPolicy = cfg.groupPolicy
    BY <1>2, DenyEditedIs
  <2> HIDE DEF new
  <2>4. SameFor(v, cfg.denyFrom, new.denyFrom)
    BY <2>2, <2>3 DEF SameFor
  <2>5. SameFor(v, old.denyFrom, now.denyFrom)
    BY <1>1, <2>4, AccountIs DEF SameFor
  <2>6. old.groups = now.groups /\ old.groupPolicy = now.groupPolicy
    BY <1>1, <2>3, AccountIs
  <2>7. /\ Listed(v, Started(cfg).denyFrom) <=> Listed(v, Started(new).denyFrom)
        /\ Started(cfg).groupPolicy = Started(new).groupPolicy
        /\ Started(cfg).groups = Started(new).groups
    BY <1>1, <2>5, <2>6, StartedIs, SameListed
  <2>8. Alike(Started(cfg).groups, Started(new).groups, v, t)
    BY <2>7, Zenon DEF Alike, AlikeAt, AlikeEntries
  <2> QED BY <2>7, <2>8, AlikeRefuse DEF new
<1>3. CASE c.does \in GroupEdits /\ new # cfg
  <2>1. new = WithEntry(cfg, c.group[2], Revised(EntryOf(cfg, c.group[2]), c))
    BY <1>3, GroupEditedIs
  <2>2. new.denyFrom = cfg.denyFrom /\ new.groupPolicy = cfg.groupPolicy
    BY <1>3, EntryAfter
  <2>3. old.denyFrom = now.denyFrom /\ old.groupPolicy = now.groupPolicy
    BY <1>1, <2>2, AccountIs
  <2>4. /\ Started(cfg).denyFrom = Started(new).denyFrom
        /\ Started(cfg).groupPolicy = Started(new).groupPolicy
    BY <1>1, <2>3, StartedIs
  <2>5. ASSUME t \in Group PROVE Alike(Started(cfg).groups, Started(new).groups, v, t)
    <3>1. CASE "groups" \in account.sets
      <4>1. old.groups = now.groups
        BY <1>1, <3>1, AccountIs
      <4>2. Started(cfg).groups = Started(new).groups
        BY <1>1, <4>1, StartedIs
      <4> QED BY <4>2, Zenon DEF Alike, AlikeAt, AlikeEntries
    <3>2. CASE "groups" \notin account.sets
      <4>1. \A k \in {ById(t), ByName(t), Prefixed(t), AnyGroup} :
              RawAlikeAt(cfg.groups, new.groups, k, v)
        BY <1>3, <2>1, <2>5, WithEntryAlike
      <4>2. /\ cfg.groups \in [DOMAIN cfg.groups -> GroupEntry]
            /\ new.groups \in [DOMAIN new.groups -> GroupEntry]
        BY <1>1, Zenon DEF IsConfig
      <4>3. DOMAIN cfg.groups \ {AnyGroup} # {}
        BY <1>3, <2>5 DEF Touches
      <4>4. DOMAIN cfg.groups \subseteq DOMAIN new.groups
        <5>1. c.group[2] \in Group
          BY <1>3, EditorNames
        <5>2. Revised(EntryOf(cfg, c.group[2]), c) \in GroupEntry
          BY <1>3, EntryIsOne, RevisedIsEntry
        <5> QED BY <2>1, <5>1, <5>2, WithEntryIs
      <4> HIDE DEF new
      <4>5. Alike(ResolveGroups(cfg.groups, Friend, Group),
                  ResolveGroups(new.groups, Friend, Group), v, t)
        BY <2>5, <4>1, <4>2, ResolvedAlike
      <4>6. old.groups = cfg.groups /\ now.groups = new.groups
        BY <1>1, <3>2, AccountIs
      <4>7. /\ Started(cfg).groups = ResolveGroups(cfg.groups, Friend, Group)
            /\ Started(new).groups = ResolveGroups(new.groups, Friend, Group)
        BY <1>1, <4>3, <4>4, <4>6, StartedIs
      <4> QED BY <4>5, <4>7
    <3> QED BY <3>1, <3>2
  <2> HIDE DEF new
  <2> QED BY <2>4, <2>5, AlikeRefuse DEF new
<1>4. CASE new = cfg
  BY <1>4
<1> QED BY <1>2, <1>3, <1>4

(* An edit changes whether a monitor that starts later refuses a user only  *)
(* for those whom it concerns.                                              *)
THEOREM OthersUntouched == Spec => OnlyTheNamedUser
<1> DEFINE Mine == config # config' =>
             \A v \in User : \A t \in Group \cup {v} :
               Refused(Started(config), v, t) # Refused(Started(config'), v, t) =>
                 \E s \in Slot : /\ slots[s] # Idle /\ slots'[s] = Idle
                                 /\ Concerns(slots[s], v, t)
<1>1. Typed /\ [Next]_vars => Mine
  <2> SUFFICES ASSUME Typed, [Next]_vars, config # config', NEW v \in User,
                      NEW t \in Group \cup {v},
                      Refused(Started(config), v, t) # Refused(Started(config'), v, t)
               PROVE  \E s \in Slot : /\ slots[s] # Idle /\ slots'[s] = Idle
                                      /\ Concerns(slots[s], v, t)
    OBVIOUS
  <2>1. PICK s \in Slot : EditConfig(s)
    BY NextFile
  <2>2. /\ Editor(slots[s]) /\ config' = Edited(config, slots[s])
        /\ slots' = [slots EXCEPT ![s] = Idle] /\ account' = account
    BY <2>1, IsEditor DEF EditConfig, End
  <2>3. slots[s] # Idle /\ slots'[s] = Idle
    <3>1. slots[s].does # "idle" /\ Idle.does = "idle"
      BY <2>2 DEF Editor, Idle, Edits, GroupEdits
    <3> QED BY <2>2, <3>1 DEF Typed
  <2>4. Touches(config, slots[s], v, t)
    BY <2>2, OthersAreRefusedAsBefore DEF Typed, Refused
  <2>5. Concerns(slots[s], v, t)
    BY <2>2, <2>4 DEF Touches, Concerns
  <2> QED BY <2>3, <2>5
<1>2. Typed /\ [Next]_vars => [Mine]_vars
  BY <1>1
<1> QED BY AlwaysTyped, <1>2, PTL DEF Spec, OnlyTheNamedUser
=============================================================================
