----------------------------- MODULE MCMonitor -----------------------------
(***************************************************************************)
(* A small instance of Monitor: two groups and two users, the friend known *)
(* by name, caches of one or two entries and three messages, so that every *)
(* cache overflows, a message is repeated, and a second monitor may be     *)
(* started while the first one's work goes on; or, for the injection       *)
(* guard, five attempts of two members of a group and nothing else.        *)
(***************************************************************************)
EXTENDS Monitor

CONSTANTS team, side, friend, other, star

MCGroup == {team, side}
MCUser == {friend, other}
MCFriend == {friend}

Talk(t, u, mention, ids) ==
  [thread |-> t, from |-> u, mention |-> mention, ids |-> ids, kind |-> "talk"]

Attack(u) == [Talk(team, u, FALSE, TRUE) EXCEPT !.kind = "attack"]

MCShape ==
  {Talk(team, friend, FALSE, TRUE), Talk(team, other, TRUE, TRUE),
   Talk(side, other, FALSE, TRUE), Talk(other, other, FALSE, TRUE),
   [Talk(team, friend, FALSE, FALSE) EXCEPT !.kind = "command"],
   [Talk(friend, friend, FALSE, TRUE) EXCEPT !.kind = "notice"],
   Attack(friend), Attack(other)}

Open == [deny |-> {}, allow |-> {}, open |-> TRUE, mention |-> "unset"]

(* Names to be found in every list; other, in another spelling, is denied   *)
(* in all groups.                                                           *)
Strict ==
  [denyFrom |-> {Named(friend)}, allowFrom |-> {star}, dmPolicy |-> "disabled",
   groupPolicy |-> "open",
   groups |-> (AnyGroup :> [Open EXCEPT !.deny = {Spelled(other)}]
               @@ ByName(team) :> [Open EXCEPT !.mention = "no"])]

(* One group is listed by id, direct messages need an approval.             *)
Careful ==
  [denyFrom |-> {}, allowFrom |-> {Named(friend)}, dmPolicy |-> "pairing",
   groupPolicy |-> "allowlist",
   groups |-> (ById(team) :> Open)]

MCConfiguration == {Strict, Careful}

MCLookups == {{"allow", "groups"}, AllLookups}

Bounds(talk, others, attacks, events, outages) ==
  [talk |-> talk, command |-> others, notice |-> others, attack |-> attacks,
   events |-> events, outages |-> outages]

(* Talk that fills the buffers; messages of every kind, and starts with     *)
(* lookups that failed; attempts of group members.                          *)
MCBudgets == {Bounds(3, 0, 0, 2, 0), Bounds(1, 1, 0, 1, 1), Bounds(0, 0, 5, 2, 0)}
=============================================================================
