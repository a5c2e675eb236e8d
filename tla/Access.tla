------------------------------- MODULE Access -------------------------------
(***************************************************************************)
(* Who may talk to the agent (src/legacy/openclaw/monitor.ts): the lists   *)
(* and group entries of the channel's configuration, how names in them are *)
(* turned into ids when a monitor starts, and the checks a message passes. *)
(* Pure operators; Monitor uses them on the configuration of one monitor.  *)
(***************************************************************************)
EXTENDS Naturals, FiniteSets, Sequences, SequencesExt

CONSTANTS User,    \* ids of Zalo users
          Group,   \* ids of groups
          Friend,  \* users whose display name the friend list resolves
          Star     \* the entry "*"

(* An entry of a list names a user by id, by the id in another spelling (a  *)
(* number, "zaloclaw:<id>", "oz:<id>"), by display name, or is for everybody*)
Spelled(u) == <<"oz:", u>>
Named(u) == <<"name", u>>
Entry == User \cup {Spelled(u) : u \in User} \cup {Named(u) : u \in User} \cup {Star}

(* The keys of config.groups: the id, "group:<id>", the name, "*".         *)
ById(g) == <<"id", g>>
Prefixed(g) == <<"group:", g>>
ByName(g) == <<"name", g>>
AnyGroup == <<"*", Star>>

GroupEntry ==
  [deny : SUBSET Entry, allow : SUBSET Entry, open : BOOLEAN,
   mention : {"unset", "yes", "no"}]

(* The part of the channel's configuration that decides who is heard.       *)
IsConfig(c) ==
  /\ c.groups \in [DOMAIN c.groups -> GroupEntry]
  /\ c \in [denyFrom : SUBSET Entry, allowFrom : SUBSET Entry,
            dmPolicy : {"open", "pairing", "allowlist", "disabled"},
            groupPolicy : {"open", "allowlist", "disabled"},
            groups : {c.groups}]

-----------------------------------------------------------------------------
(* Ids found for the names of a list are added, and ids for their other     *)
(* spellings; what the list says itself stays.                              *)
Resolve(entries, known) ==
  entries \cup {u \in known : Named(u) \in entries} \cup {u \in User : Spelled(u) \in entries}

ResolveGroups(groups, known, listed) ==
  LET fresh == {g \in listed : ByName(g) \in DOMAIN groups
                               /\ ById(g) \notin DOMAIN groups}
      keys  == DOMAIN groups \cup {ById(g) : g \in fresh}
      From(k) == IF k \in DOMAIN groups THEN groups[k] ELSE groups[ByName(k[2])]
  IN [k \in keys |-> [From(k) EXCEPT !.deny = Resolve(@, known)]]

(***************************************************************************)
(* The lookups at the start of a monitor: the friends, once for each list, *)
(* the groups (with the friends once more, for the users denied in them),  *)
(* and the names of the groups.  One that fails is logged: the lists it    *)
(* was for stay as they are written in the configuration, and groups whose *)
(* names are not known are found by id only.  Groups are looked up only if *)
(* there is a key for a particular one.                                    *)
(***************************************************************************)
ResolveConfig(cfg, ok) ==
  [cfg EXCEPT
     !.allowFrom = IF "allow" \in ok THEN Resolve(@, Friend) ELSE @,
     !.denyFrom  = IF "deny" \in ok THEN Resolve(@, Friend) ELSE @,
     !.groups    = IF "groups" \in ok /\ DOMAIN @ \ {AnyGroup} # {}
                   THEN ResolveGroups(@, Friend, IF "titles" \in ok THEN Group ELSE {})
                   ELSE @]

-----------------------------------------------------------------------------
(* The entries of a list are compared in one spelling.                      *)
Listed(u, entries) == u \in entries \/ Spelled(u) \in entries

SenderAllowed(u, entries) == Star \in entries \/ Listed(u, entries)

(* Bug: the entry for all groups is not looked at. *)
DeniedInGroupOnly(cfg, u, g) ==
  \E k \in {ById(g), Prefixed(g)} \cap DOMAIN cfg.groups :
    Listed(u, cfg.groups[k].deny)

DeniedInGroup(cfg, u, g) ==
  \E k \in {ById(g), Prefixed(g), AnyGroup} \cap DOMAIN cfg.groups :
    Listed(u, cfg.groups[k].deny)

(* The keys that may hold a group's entry, the most particular one first.   *)
Candidates(g) == <<ById(g), Prefixed(g), AnyGroup>>

(* The first of them for which a test holds, or 0.                          *)
FirstKey(cfg, g, Test(_)) ==
  SelectInSeq(Candidates(g), LAMBDA k : k \in DOMAIN cfg.groups
                                        /\ Test(cfg.groups[k]))

OutsideAllowUsers(cfg, u, g) ==
  LET i == FirstKey(cfg, g, LAMBDA e : e.allow # {})
  IN i # 0 /\ ~SenderAllowed(u, cfg.groups[Candidates(g)[i]].allow)

GroupAllowed(cfg, g) ==
  LET i == FirstKey(cfg, g, LAMBDA e : TRUE)
  IN i # 0 /\ cfg.groups[Candidates(g)[i]].open

RequiresMention(cfg, g) ==
  LET i == FirstKey(cfg, g, LAMBDA e : e.mention # "unset")
  IN i = 0 \/ cfg.groups[Candidates(g)[i]].mention = "yes"

(* The checks that processMessage makes before its first await.             *)
Refused(cfg, u, thread) ==
  \/ Listed(u, cfg.denyFrom)
  \/ /\ thread \in Group
     /\ \/ DeniedInGroup(cfg, u, thread)
        \/ OutsideAllowUsers(cfg, u, thread)
        \/ cfg.groupPolicy = "disabled"
        \/ cfg.groupPolicy = "allowlist" /\ ~GroupAllowed(cfg, thread)

(* A message that requires a mention and has none is passed over, unless it *)
(* is a control command of a sender who may give commands.                  *)
PassedOver(cfg, g, mentioned, command, authorised) ==
  RequiresMention(cfg, g) /\ ~mentioned /\ ~(command /\ authorised)
=============================================================================
