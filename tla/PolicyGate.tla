------------------------------ MODULE PolicyGate ------------------------------
(***************************************************************************)
(* The policy at work (src/src/gateway/policy-store.ts, server.ts and the  *)
(* routes): it is changed over HTTP while messages come in and requests to *)
(* send are under way, it is saved to a file after each change, and read   *)
(* again when the gateway restarts.                                        *)
(*                                                                         *)
(* The server looks the policy up when the headers of a request to send    *)
(* have arrived; it decides when the body has.  A message that comes in is *)
(* decided on in one step, and so is a change of policy once its own body  *)
(* has arrived, before which it touches nothing.                           *)
(***************************************************************************)
EXTENDS Naturals, Policy

CONSTANTS Request,     \* requests to send that may be under way at a time
          EnvPolicy,   \* the policy that the environment variables give
          Puts,        \* bound: the bodies of PUT /policy
          MaxUpdates,  \* bound: changes of policy
          MaxFailures, \* bound: writes of the policy file that fail
          MaxRestarts  \* bound: restarts of the gateway

ASSUME GateAssumption ==
  /\ EnvPolicy \in Policy
  /\ Puts \subseteq PolicyUpdate
  /\ MaxUpdates \in Nat /\ MaxFailures \in Nat /\ MaxRestarts \in Nat

(* The policy file may be missing, or cut short by a write that failed.     *)
Absent  == [state |-> "absent"]
Garbled == [state |-> "garbled"]
File    == {Absent, Garbled} \cup [state : {"whole"}, policy : Policy]

VARIABLES
  policy,  \* GatewayPolicyStore.policy
  file,    \* gateway-policy.json
  captured,\* per request under way: the policy it was given
  inForce, \* per request under way: the policies in force since it arrived
  passed,  \* what the last step let through, and what was in force meanwhile
  acked,   \* the policy that the API or the start of the gateway established
  doubt,   \* whether a write of the file failed since
  budget   \* how many updates, failures and restarts are left

storeVars == <<policy, file, acked, doubt>>
requestVars == <<captured, inForce>>
vars == <<storeVars, requestVars, passed, budget>>

Spend(what) ==
  /\ budget[what] > 0
  /\ budget' = [budget EXCEPT ![what] = @ - 1]

(* Bug: what a file that was cut short gives is taken for a policy.         *)
LoadUnchecked(f) ==
  IF f.state = "whole" THEN f.policy
  ELSE IF f.state = "absent" THEN EnvPolicy ELSE [k \in {} |-> {}]

Load(f) == IF f.state = "whole" THEN Normalize(f.policy) ELSE Normalize(EnvPolicy)

Init ==
  /\ file = Absent
  /\ policy = Load(file)
  /\ acked = policy
  /\ doubt = FALSE
  /\ captured = [r \in Request |-> {}]
  /\ inForce = [r \in Request |-> {}]
  /\ passed = {}
  /\ budget = [updates |-> MaxUpdates, failures |-> MaxFailures, restarts |-> MaxRestarts]

-----------------------------------------------------------------------------
(* Bug: what is written is the policy before the change.                    *)
SaveOld(p) ==
  /\ file' = [state |-> "whole", policy |-> policy]
  /\ acked' = p
  /\ doubt' = FALSE
  /\ Spend("updates")

(* The file is written, and the request answered with the new policy (if    *)
(* the answer is lost the change counts as confirmed: GET shows it).        *)
Save(p) ==
  /\ file' = [state |-> "whole", policy |-> p]
  /\ acked' = p
  /\ doubt' = FALSE
  /\ Spend("updates")

(* The directory or the file cannot be opened, or the write stops half way  *)
(* (the disk is full, the process dies): the request is answered with 500   *)
(* or not at all.                                                           *)
SaveFails ==
  /\ file' \in {file, Garbled}
  /\ doubt' = TRUE
  /\ Spend("failures")
  /\ UNCHANGED acked

(* update, add and remove: the policy changes in memory before it is saved. *)
Change(p) ==
  /\ policy' = p
  /\ Save(p) \/ SaveFails
  /\ inForce' = [r \in Request |-> IF captured[r] = {} THEN {} ELSE inForce[r] \cup {p}]
  /\ passed' = {}
  /\ UNCHANGED captured

(* PUT /policy: the lists that the body does not give become empty.         *)
PutPolicy(u) == Change(Normalize(Spread(policy, Normalize(u))))

AddIds(k, ids) == Change(Normalize([policy EXCEPT ![k] = @ \cup ids]))

RemoveId(k, id) == Change(Normalize([policy EXCEPT ![k] = @ \ {id}]))

-----------------------------------------------------------------------------
(* A message comes in and is published to streams and webhooks, or dropped. *)
MessageArrives(e) ==
  /\ passed' = IF AllowsInbound(policy, e)
               THEN {[dir |-> "in", what |-> e, under |-> {policy}]}
               ELSE {}
  /\ UNCHANGED <<storeVars, requestVars, budget>>

(* Bug: the server looks the policy up once, when it starts.                *)
SendArrivesLate(r) ==
  /\ captured[r] = {}
  /\ captured' = [captured EXCEPT ![r] = {Normalize(EnvPolicy)}]
  /\ inForce' = [inForce EXCEPT ![r] = {policy}]
  /\ passed' = {}
  /\ UNCHANGED <<storeVars, budget>>

(* The headers of a request to send have arrived.                           *)
SendArrives(r) ==
  /\ captured[r] = {}
  /\ captured' = [captured EXCEPT ![r] = {policy}]
  /\ inForce' = [inForce EXCEPT ![r] = {policy}]
  /\ passed' = {}
  /\ UNCHANGED <<storeVars, budget>>

(* The body of the request has arrived: it is sent, or answered with 403.   *)
SendDecided(r, i) ==
  /\ \E p \in captured[r] :
       passed' = IF AllowsOutbound(p, i)
                 THEN {[dir |-> "out", what |-> i, under |-> inForce[r]]}
                 ELSE {}
  /\ captured' = [captured EXCEPT ![r] = {}]
  /\ inForce' = [inForce EXCEPT ![r] = {}]
  /\ UNCHANGED <<storeVars, budget>>

(* The body is no valid request, too large, or never arrives.               *)
SendRefused(r) ==
  /\ captured[r] # {}
  /\ captured' = [captured EXCEPT ![r] = {}]
  /\ inForce' = [inForce EXCEPT ![r] = {}]
  /\ passed' = {}
  /\ UNCHANGED <<storeVars, budget>>

(* The gateway ends, with the requests under way, and starts again.         *)
Restart ==
  /\ Spend("restarts")
  /\ policy' = Load(file)
  /\ doubt' = (file = Garbled)
  /\ captured' = [r \in Request |-> {}]
  /\ inForce' = [r \in Request |-> {}]
  /\ passed' = {}
  /\ UNCHANGED <<file, acked>>

Next ==
  \/ \E u \in Puts : PutPolicy(u)
  \/ \E k \in Key, id \in Id \cup {Wildcard} : AddIds(k, {id}) \/ RemoveId(k, id)
  \/ \E e \in Inbound : MessageArrives(e)
  \/ \E r \in Request : SendArrives(r) \/ SendRefused(r)
  \/ \E r \in Request, i \in Outbound : SendDecided(r, i)
  \/ Restart

Spec == Init /\ [][Next]_vars

-----------------------------------------------------------------------------
TypeOK ==
  /\ policy \in Policy
  /\ file \in File
  /\ captured \in [Request -> SUBSET Policy]
  /\ inForce \in [Request -> SUBSET Policy]
  /\ passed \subseteq
       [dir : {"in"}, what : Inbound, under : SUBSET Policy]
         \cup [dir : {"out"}, what : Outbound, under : SUBSET Policy]
  /\ acked \in Policy
  /\ doubt \in BOOLEAN
  /\ budget \in [updates : 0..MaxUpdates, failures : 0..MaxFailures,
                 restarts : 0..MaxRestarts]

(* OPERATIONS.md, "Inbound policy" and "Outbound policy": the deny lists    *)
(* win; a direct message needs its user among the allowed senders, a group  *)
(* message its group among the allowed threads.                             *)
Listed(p, k, id) == id \in p[k] \/ Wildcard \in p[k]

Permitted(p, dir, x) ==
  LET user == IF dir = "in" THEN x.sender ELSE x.thread
  IN /\ ~Listed(p, "deniedThreads", x.thread)
     /\ dir = "in" \/ ~x.isGroup => ~Listed(p, "deniedSenders", user)
     /\ x.isGroup  => Listed(p, "allowedThreads", x.thread)
     /\ ~x.isGroup => Listed(p, "allowedSenders", user)

(* Whatever passes the gateway was permitted by a policy that was in force  *)
(* while the gateway dealt with it, however requests, changes of policy and *)
(* restarts interleave: neither an older policy nor one that lacks a list   *)
(* lets it through.                                                         *)
PassedWasPermitted ==
  \A x \in passed : \E p \in x.under : Permitted(p, x.dir, x.what)

(* The policy that a restart brings is the one that the API last confirmed, *)
(* unless a write of the file was cut short since; and until a write fails  *)
(* the policy in force is that one too.                                     *)
AckedPolicySurvives ==
  /\ Load(file) = acked \/ (doubt /\ file = Garbled)
  /\ ~doubt => policy = acked
=============================================================================
