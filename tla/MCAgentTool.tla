---------------------------- MODULE MCAgentTool ----------------------------
(***************************************************************************)
(* A small instance of AgentTool: two calls at a time, every action of the *)
(* tool, two users and two groups named by id or by name; configurations   *)
(* whose group entries are written by id, by name, or for all groups,      *)
(* which name users by id, by name, or in another spelling, and of which   *)
(* accounts.<id> sets nothing, the list of denied users, or the groups;    *)
(* or, for the friend requests, an empty configuration.                    *)
(***************************************************************************)
EXTENDS AgentTool

CONSTANTS team, club, friend, other, star, s1, s2

MCUser == {friend, other}
MCFriend == {friend}
MCSlot == {s1, s2}
MCNaming == {other, Named(friend)}
SlotsAlike == Permutations(MCSlot)

MCGroup == {team, club}

Cfg(denyFrom, groupPolicy, groups) ==
  [allowFrom |-> {}, denyFrom |-> denyFrom, dmPolicy |-> "open",
   groupPolicy |-> groupPolicy, groups |-> groups]

EmptyConfig == Cfg({}, "open", <<>>)

DeniedTwice == Cfg({}, "open", ById(team) :> [NoEntry EXCEPT !.deny = {other, Spelled(other)}])
DeniedEverywhere ==
  Cfg({Spelled(friend)}, "open", AnyGroup :> [NoEntry EXCEPT !.deny = {Named(friend)}])
ListedByName ==
  Cfg({Named(friend)}, "allowlist",
      (ByName(team) :> [NoEntry EXCEPT !.deny = {other}])
      @@ (AnyGroup :> [NoEntry EXCEPT !.open = FALSE]))
LetIn ==
  Cfg({other}, "allowlist", ById(team) :> [NoEntry EXCEPT !.allow = {other}, !.mention = "no"])

Unset == [sets |-> {}, own |-> EmptyConfig]
OwnDenied == [sets |-> {"denyFrom"}, own |-> Cfg({Named(friend)}, "open", <<>>)]
OwnGroups ==
  [sets |-> {"groups", "groupPolicy"},
   own |-> Cfg({}, "allowlist", ById(team) :> [NoEntry EXCEPT !.deny = {other}])]

Setting(c, a, requests, failures) ==
  [config |-> c, account |-> a,
   budget |-> [calls |-> 2, requests |-> requests, failures |-> failures]]

MCSettings ==
  {Setting(c, Unset, 0, 1) : c \in {DeniedTwice, DeniedEverywhere, LetIn}}
  \cup {Setting(ListedByName, OwnDenied, 0, 1), Setting(LetIn, OwnGroups, 0, 1)}
  \cup {Setting(EmptyConfig, Unset, 2, 1),
        [Setting(EmptyConfig, Unset, 2, 2) EXCEPT !.budget.calls = 1]}
=============================================================================
