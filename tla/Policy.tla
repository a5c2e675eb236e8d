-------------------------------- MODULE Policy --------------------------------
(***************************************************************************)
(* The policy of the gateway (src/src/gateway/policy.ts, policy-store.ts): *)
(* two allow lists and two deny lists of ids, and the decisions on what    *)
(* comes in from Zalo and what goes out to it.                             *)
(*                                                                         *)
(* A list is the set of its entries: the code removes duplicates, and      *)
(* nothing depends on the order.  A record that lacks a list, as an update *)
(* may, is a function with a smaller domain.                               *)
(***************************************************************************)
EXTENDS FiniteSets

CONSTANTS Id,       \* ids of users and of threads; one-to-one threads have the user's
          Wildcard  \* "*"

ASSUME WildcardIsNoId == Wildcard \notin Id

Key    == {"allowedSenders", "allowedThreads", "deniedSenders", "deniedThreads"}
List   == SUBSET (Id \cup {Wildcard})
Policy == [Key -> List]

(* What PUT /policy may bring: some of the lists.                           *)
PolicyUpdate == UNION {[K -> List] : K \in SUBSET Key}

(* What the code sees of an inbound message and of an outbound request.     *)
(* The sender of a direct message is its thread.                            *)
Inbound  == {e \in [sender : Id, thread : Id, isGroup : BOOLEAN] :
               e.isGroup \/ e.sender = e.thread}
Outbound == [thread : Id, isGroup : BOOLEAN]

-----------------------------------------------------------------------------
(* normalizePolicyConfig: a list that was not given is empty.               *)
Normalize(u) == [k \in Key |-> IF k \in DOMAIN u THEN u[k] ELSE {}]

(* { ...p, ...u }: the lists of u in place of those of p.                   *)
Spread(p, u) ==
  [k \in DOMAIN p \cup DOMAIN u |-> IF k \in DOMAIN u THEN u[k] ELSE p[k]]

Matches(p, k, id) == k \in DOMAIN p /\ ({Wildcard, id} \cap p[k]) # {}

HasConfiguredAllowlists(p) ==
  "allowedSenders" \in DOMAIN p \/ "allowedThreads" \in DOMAIN p

(* decideInboundPolicy(e, p).allowed                                        *)
AllowsInbound(p, e) ==
  /\ ~Matches(p, "deniedSenders", e.sender)
  /\ ~Matches(p, "deniedThreads", e.thread)
  /\ HasConfiguredAllowlists(p) =>
       IF e.isGroup THEN Matches(p, "allowedThreads", e.thread)
                    ELSE Matches(p, "allowedSenders", e.sender)

(* decideOutboundPolicy(i, p).allowed: of a direct message, the thread is   *)
(* looked up in the lists of senders.                                       *)
AllowsOutbound(p, i) ==
  /\ ~Matches(p, "deniedThreads", i.thread)
  /\ HasConfiguredAllowlists(p) =>
       IF i.isGroup THEN Matches(p, "allowedThreads", i.thread)
                    ELSE /\ ~Matches(p, "deniedSenders", i.thread)
                         /\ Matches(p, "allowedSenders", i.thread)
=============================================================================
