-------------------------- MODULE PolicyGateProofs --------------------------
(***************************************************************************)
(* Proofs about PolicyGate, for any sets of ids, requests and bodies and   *)
(* any number of changes, failures and restarts.                           *)
(***************************************************************************)
EXTENDS PolicyGate, TLAPS

(* A request is given a policy that has been in force since it arrived.     *)
CapturedInForce == \A r \in Request : captured[r] \subseteq inForce[r]

IInv == TypeOK /\ CapturedInForce /\ PassedWasPermitted /\ AckedPolicySurvives

-----------------------------------------------------------------------------
(* normalizePolicyConfig yields a policy with all four lists ...            *)
LEMMA NormalizeUpdate ==
  ASSUME NEW u \in PolicyUpdate
  PROVE  Normalize(u) \in Policy
BY DEF PolicyUpdate, Normalize, Policy, List

(* ... and changes nothing in one that has them.                            *)
LEMMA NormalizePolicy ==
  ASSUME NEW p \in Policy
  PROVE  Normalize(p) = p
BY DEF Normalize, Policy

LEMMA SpreadPolicy ==
  ASSUME NEW p \in Policy, NEW u \in Policy
  PROVE  Spread(p, u) \in Policy
BY DEF Spread, Policy

LEMMA LoadPolicy ==
  ASSUME NEW f \in File
  PROVE  Load(f) \in Policy
<1>1. Normalize(EnvPolicy) \in Policy
  BY NormalizePolicy, GateAssumption
<1>2. CASE f.state = "whole"
  <2>1. f.policy \in Policy
    BY <1>2 DEF File, Absent, Garbled
  <2> QED BY <1>2, <2>1, NormalizePolicy DEF Load
<1> QED BY <1>1, <1>2 DEF Load

LEMMA LoadWhole ==
  ASSUME NEW p \in Policy
  PROVE  Load([state |-> "whole", policy |-> p]) = p
BY NormalizePolicy DEF Load

(* The decisions of the code permit nothing that the lists forbid.          *)
LEMMA InboundPermitted ==
  ASSUME NEW p \in Policy, NEW e \in Inbound, AllowsInbound(p, e)
  PROVE  Permitted(p, "in", e)
BY DEF Policy, Key, Inbound, AllowsInbound, Matches, HasConfiguredAllowlists,
       Permitted, Listed

LEMMA OutboundPermitted ==
  ASSUME NEW p \in Policy, NEW i \in Outbound, AllowsOutbound(p, i)
  PROVE  Permitted(p, "out", i)
BY DEF Policy, Key, Outbound, AllowsOutbound, Matches, HasConfiguredAllowlists,
       Permitted, Listed

-----------------------------------------------------------------------------
LEMMA InitIInv == Init => IInv
<1> SUFFICES ASSUME Init PROVE IInv
  OBVIOUS
<1>1. file \in File
  BY DEF Init, File, Absent
<1>2. policy \in Policy /\ acked \in Policy
  BY <1>1, LoadPolicy DEF Init
<1>3. TypeOK
  <2>1. budget \in [updates : 0..MaxUpdates, failures : 0..MaxFailures, restarts : 0..MaxRestarts]
    BY GateAssumption DEF Init
  <2>2. /\ captured \in [Request -> SUBSET Policy]
        /\ inForce \in [Request -> SUBSET Policy]
        /\ passed = {} /\ doubt = FALSE
    BY DEF Init
  <2> QED BY <1>1, <1>2, <2>1, <2>2 DEF TypeOK
<1>4. CapturedInForce /\ PassedWasPermitted /\ AckedPolicySurvives
  BY DEF Init, CapturedInForce, PassedWasPermitted, AckedPolicySurvives
<1> QED BY <1>3, <1>4 DEF IInv

(* The three changes of the API have this in common.                        *)
LEMMA ChangeIInv ==
  ASSUME IInv, NEW p \in Policy, Change(p)
  PROVE  IInv'
<1>1. /\ inForce' = [r \in Request |-> IF captured[r] = {} THEN {} ELSE inForce[r] \cup {p}]
      /\ policy' = p /\ passed' = {} /\ captured' = captured
  BY DEF Change
<1>2. CapturedInForce'
  BY <1>1 DEF IInv, CapturedInForce, TypeOK
<1>3. PassedWasPermitted'
  BY <1>1 DEF PassedWasPermitted
<1>4. inForce' \in [Request -> SUBSET Policy]
  BY <1>1 DEF IInv, TypeOK
<1>5. CASE Save(p)
  <2>1. file' = [state |-> "whole", policy |-> p] /\ acked' = p /\ doubt' = FALSE
    BY <1>5 DEF Save
  <2>2. file' \in File
    BY <2>1 DEF File
  <2>3. budget' \in [updates : 0..MaxUpdates, failures : 0..MaxFailures, restarts : 0..MaxRestarts]
    BY <1>5, GateAssumption DEF Save, Spend, IInv, TypeOK
  <2>4. TypeOK'
    BY <1>1, <1>4, <2>1, <2>2, <2>3 DEF IInv, TypeOK
  <2>5. Load(file') = acked'
    BY <2>1, LoadWhole
  <2>6. AckedPolicySurvives'
    BY <1>1, <2>1, <2>5 DEF AckedPolicySurvives, Load
  <2> QED BY <1>2, <1>3, <2>4, <2>6 DEF IInv
<1>6. CASE SaveFails
  <2>1. file' \in {file, Garbled} /\ acked' = acked /\ doubt' = TRUE
    BY <1>6 DEF SaveFails
  <2>2. file' \in File
    BY <2>1 DEF IInv, TypeOK, File
  <2>3. budget' \in [updates : 0..MaxUpdates, failures : 0..MaxFailures, restarts : 0..MaxRestarts]
    BY <1>6, GateAssumption DEF SaveFails, Spend, IInv, TypeOK
  <2>4. TypeOK'
    BY <1>1, <1>4, <2>1, <2>2, <2>3 DEF IInv, TypeOK
  <2>5. AckedPolicySurvives'
    BY <2>1 DEF IInv, AckedPolicySurvives, Load
  <2> QED BY <1>2, <1>3, <2>4, <2>5 DEF IInv
<1> QED BY <1>5, <1>6 DEF Change

LEMMA PutPolicyIInv ==
  ASSUME IInv, NEW u \in Puts, PutPolicy(u)
  PROVE  IInv'
<1>1. Normalize(u) \in Policy
  BY NormalizeUpdate, GateAssumption
<1>2. policy \in Policy
  BY DEF IInv, TypeOK
<1>3. Spread(policy, Normalize(u)) \in Policy
  BY <1>1, <1>2, SpreadPolicy
<1> QED BY <1>3, NormalizePolicy, ChangeIInv DEF PutPolicy

LEMMA ListChangesIInv ==
  ASSUME IInv, NEW k \in Key, NEW id \in Id \cup {Wildcard},
         AddIds(k, {id}) \/ RemoveId(k, id)
  PROVE  IInv'
<1>1. policy \in Policy
  BY DEF IInv, TypeOK
<1>2. [policy EXCEPT ![k] = @ \cup {id}] \in Policy
  BY <1>1 DEF Policy, List
<1>3. [policy EXCEPT ![k] = @ \ {id}] \in Policy
  BY <1>1 DEF Policy, List
<1> QED BY <1>2, <1>3, NormalizePolicy, ChangeIInv DEF AddIds, RemoveId

-----------------------------------------------------------------------------
LEMMA MessageArrivesIInv ==
  ASSUME IInv, NEW e \in Inbound, MessageArrives(e)
  PROVE  IInv'
<1> USE DEF MessageArrives, storeVars, requestVars
<1>1. policy \in Policy
  BY DEF IInv, TypeOK
<1>2. TypeOK'
  BY <1>1 DEF IInv, TypeOK
<1>3. PassedWasPermitted'
  BY <1>1, InboundPermitted DEF PassedWasPermitted
<1>4. CapturedInForce' /\ AckedPolicySurvives'
  BY DEF IInv, CapturedInForce, AckedPolicySurvives
<1> QED BY <1>2, <1>3, <1>4 DEF IInv

LEMMA SendArrivesIInv ==
  ASSUME IInv, NEW r \in Request, SendArrives(r)
  PROVE  IInv'
<1> USE DEF SendArrives, storeVars
<1>1. TypeOK'
  BY DEF IInv, TypeOK
<1>2. CapturedInForce'
  BY DEF IInv, TypeOK, CapturedInForce
<1>3. PassedWasPermitted' /\ AckedPolicySurvives'
  BY DEF IInv, PassedWasPermitted, AckedPolicySurvives
<1> QED BY <1>1, <1>2, <1>3 DEF IInv

(* The policy that decides is among those in force meanwhile.               *)
LEMMA SendDecidedIInv ==
  ASSUME IInv, NEW r \in Request, NEW i \in Outbound, SendDecided(r, i)
  PROVE  IInv'
<1>1. PICK p \in captured[r] :
        passed' = IF AllowsOutbound(p, i)
                  THEN {[dir |-> "out", what |-> i, under |-> inForce[r]]}
                  ELSE {}
  BY DEF SendDecided
<1>2. p \in inForce[r] /\ p \in Policy /\ inForce[r] \in SUBSET Policy
  BY DEF IInv, TypeOK, CapturedInForce
<1>3. /\ captured' = [captured EXCEPT ![r] = {}]
      /\ inForce' = [inForce EXCEPT ![r] = {}]
      /\ UNCHANGED <<policy, file, acked, doubt, budget>>
  BY DEF SendDecided, storeVars
<1>4. TypeOK'
  BY <1>1, <1>2, <1>3 DEF IInv, TypeOK
<1>5. CapturedInForce'
  BY <1>3 DEF IInv, TypeOK, CapturedInForce
<1>6. PassedWasPermitted'
  BY <1>1, <1>2, OutboundPermitted DEF PassedWasPermitted
<1>7. AckedPolicySurvives'
  BY <1>3 DEF IInv, AckedPolicySurvives
<1> QED BY <1>4, <1>5, <1>6, <1>7 DEF IInv

LEMMA SendRefusedIInv ==
  ASSUME IInv, NEW r \in Request, SendRefused(r)
  PROVE  IInv'
<1> USE DEF SendRefused, storeVars
<1>1. TypeOK'
  BY DEF IInv, TypeOK
<1>2. CapturedInForce'
  BY DEF IInv, TypeOK, CapturedInForce
<1>3. PassedWasPermitted' /\ AckedPolicySurvives'
  BY DEF IInv, PassedWasPermitted, AckedPolicySurvives
<1> QED BY <1>1, <1>2, <1>3 DEF IInv

(* Unless the file was cut short it holds the policy that was confirmed.    *)
LEMMA RestartIInv ==
  ASSUME IInv, Restart
  PROVE  IInv'
<1>1. policy' \in Policy
  BY LoadPolicy DEF IInv, TypeOK, Restart
<1>2. budget' \in [updates : 0..MaxUpdates, failures : 0..MaxFailures, restarts : 0..MaxRestarts]
  BY GateAssumption DEF Restart, Spend, IInv, TypeOK
<1>3. TypeOK'
  BY <1>1, <1>2 DEF IInv, TypeOK, Restart
<1>4. CapturedInForce' /\ PassedWasPermitted'
  BY DEF Restart, CapturedInForce, PassedWasPermitted
<1>5. AckedPolicySurvives'
  BY DEF IInv, AckedPolicySurvives, Restart
<1> QED BY <1>3, <1>4, <1>5 DEF IInv

LEMMA NextIInv == IInv /\ [Next]_vars => IInv'
<1> SUFFICES ASSUME IInv, [Next]_vars PROVE IInv'
  OBVIOUS
<1>1. CASE \E u \in Puts : PutPolicy(u)
  BY <1>1, PutPolicyIInv
<1>2. CASE \E k \in Key, id \in Id \cup {Wildcard} : AddIds(k, {id}) \/ RemoveId(k, id)
  BY <1>2, ListChangesIInv
<1>3. CASE \E e \in Inbound : MessageArrives(e)
  BY <1>3, MessageArrivesIInv
<1>4. CASE \E r \in Request : SendArrives(r) \/ SendRefused(r)
  BY <1>4, SendArrivesIInv, SendRefusedIInv
<1>5. CASE \E r \in Request, i \in Outbound : SendDecided(r, i)
  BY <1>5, SendDecidedIInv
<1>6. CASE Restart
  BY <1>6, RestartIInv
<1>7. CASE UNCHANGED vars
  BY <1>7 DEF vars, storeVars, requestVars, IInv, TypeOK, CapturedInForce,
              PassedWasPermitted, AckedPolicySurvives
<1> QED BY <1>1, <1>2, <1>3, <1>4, <1>5, <1>6, <1>7 DEF Next

-----------------------------------------------------------------------------
(* The inductive invariant holds in every reachable state.                  *)
THEOREM InductiveInvariant == Spec => []IInv
BY InitIInv, NextIInv, PTL DEF Spec

(* Every policy in force, in the file or given to a request has all lists.  *)
THEOREM TypeCorrect == Spec => []TypeOK
BY InductiveInvariant, PTL DEF IInv

(* Nothing passes the gateway, in or out, but what a policy in force while  *)
(* the gateway dealt with it permitted.                                     *)
THEOREM PassedIsPermitted == Spec => []PassedWasPermitted
BY InductiveInvariant, PTL DEF IInv

(* A confirmed policy is what a restart brings back, unless a write was cut *)
(* short since.                                                             *)
THEOREM AckedSurvives == Spec => []AckedPolicySurvives
BY InductiveInvariant, PTL DEF IInv
=============================================================================
