---------------------------- MODULE SessionProofs ----------------------------
(***************************************************************************)
(* Proofs about Session, for any callers and any number of attempts to log *)
(* in and of logouts.  An attempt is known by its id from the start to the *)
(* end, so all that its continuations can get wrong is whom they write to. *)
(***************************************************************************)
EXTENDS Session, TLAPS

(* While nobody has logged out, getApi's attempt is the memoized one.       *)
CallersAreMemoized ==
  logouts = 0 => \A a \in attempts : a.via = "getApi" => a.id = loginPromise

IInv == TypeOK /\ MemoIsPending /\ CallersAreMemoized /\ RouteSessionIsOwn

(* The attempts there can be by now.                                        *)
AttemptType == [id : 1..lastId, via : Via, phase : Phase]

-----------------------------------------------------------------------------
LEMMA InitIInv == Init => IInv
BY SessionAssumption DEF Init, IInv, TypeOK, MemoIsPending, CallersAreMemoized,
   RouteSessionIsOwn, Status

(* What becomes of the attempts in a step: one goes on in the place of what *)
(* it was, one starts, one ends, or nothing.                                *)
LEMMA GoOnIInv ==
  ASSUME IInv, NEW a \in attempts, NEW phase \in Phase, GoOn(a, phase),
         UNCHANGED <<lastId, loginPromise, call, logouts>>,
         legacy' = legacy, creds' \in BOOLEAN,
         apiInstance' \in 0..lastId,
         session'.for = session.for, session' \in [status : Status, for : 0..lastId]
  PROVE  IInv'
<1> DEFINE b == [a EXCEPT !.phase = phase]
<1>1. /\ attempts' = (attempts \ {a}) \cup {b}
      /\ b \in AttemptType /\ b.id = a.id /\ b.via = a.via
  BY DEF GoOn, IInv, TypeOK, AttemptType
<1> HIDE DEF b
<1>2. TypeOK'
  BY <1>1 DEF IInv, TypeOK, AttemptType
<1>3. MemoIsPending'
  BY <1>1 DEF IInv, MemoIsPending
<1>4. CallersAreMemoized' /\ RouteSessionIsOwn'
  BY <1>1 DEF IInv, CallersAreMemoized, RouteSessionIsOwn
<1> QED BY <1>2, <1>3, <1>4 DEF IInv

LEMMA StartIInv ==
  ASSUME IInv, NEW via \in Via, NEW phase \in Phase,
         Start(Attempt(via, phase)),
         via = "getApi" => loginPromise = 0 /\ loginPromise' = lastId + 1,
         via # "getApi" => UNCHANGED loginPromise,
         via = "route" => /\ \A a \in attempts : a.via # "route"
                          /\ session'.for = lastId + 1,
         via # "route" => UNCHANGED session,
         session' \in [status : Status, for : 0..(lastId + 1)],
         call' \in [Caller -> [state : {"idle", "waiting", "api", "error"},
                               on : 0..(lastId + 1)]],
         UNCHANGED <<legacy, apiInstance, logouts>>, creds' \in BOOLEAN
  PROVE  IInv'
<1> DEFINE b == Attempt(via, phase)
<1>1. /\ attempts' = attempts \cup {b} /\ lastId' = lastId + 1
      /\ lastId' \in 0..MaxAttempts
      /\ b.id = lastId + 1 /\ b.via = via
      /\ b \in [id : 1..lastId', via : Via, phase : Phase]
  BY SessionAssumption DEF Start, Attempt, IInv, TypeOK
<1>2. \A a \in attempts : a.id # b.id /\ a \in [id : 1..lastId', via : Via, phase : Phase]
  BY <1>1 DEF IInv, TypeOK
<1> HIDE DEF b
<1>3. TypeOK'
  BY <1>1, <1>2 DEF IInv, TypeOK
<1>4. MemoIsPending'
  BY <1>1 DEF IInv, MemoIsPending
<1>5. CallersAreMemoized'
  <2>1. loginPromise = 0 /\ logouts = 0 => \A a \in attempts : a.via # "getApi"
    BY DEF IInv, TypeOK, CallersAreMemoized
  <2> QED BY <1>1, <2>1 DEF IInv, CallersAreMemoized
<1>6. RouteSessionIsOwn'
  BY <1>1 DEF IInv, RouteSessionIsOwn
<1> QED BY <1>3, <1>4, <1>5, <1>6 DEF IInv

LEMMA EndIInv ==
  ASSUME IInv, NEW a \in attempts, NEW result \in {"api", "error"}, End(a, result),
         UNCHANGED apiInstance,
         session'.for = session.for, session' \in [status : Status, for : 0..lastId]
  PROVE  IInv'
<1>1. attempts' = attempts \ {a} /\ UNCHANGED <<lastId, logouts, legacy>>
  BY DEF End
<1>2. loginPromise' = IF a.via = "getApi" THEN 0 ELSE loginPromise
  BY DEF End, Forget
<1>3. call' \in [Caller -> [state : {"idle", "waiting", "api", "error"},
                            on : 0..lastId]]
  BY DEF End, Tell, IInv, TypeOK
<1>4. creds' \in BOOLEAN
  BY DEF End, Stored, IInv, TypeOK
<1>5. TypeOK'
  BY <1>1, <1>2, <1>3, <1>4 DEF IInv, TypeOK
<1>6. MemoIsPending'
  BY <1>1, <1>2 DEF IInv, TypeOK, MemoIsPending
<1>7. CallersAreMemoized'
  BY <1>1, <1>2 DEF IInv, TypeOK, CallersAreMemoized
<1>8. RouteSessionIsOwn'
  BY <1>1 DEF IInv, RouteSessionIsOwn
<1> QED BY <1>5, <1>6, <1>7, <1>8 DEF IInv

(* A caller is answered, or the credentials are written, and no more.       *)
LEMMA CallIInv ==
  ASSUME IInv, creds' \in BOOLEAN,
         UNCHANGED <<legacy, apiInstance, loginPromise, attempts, lastId,
                     session, logouts>>,
         call' \in [Caller -> [state : {"idle", "waiting", "api", "error"},
                               on : 0..lastId]]
  PROVE  IInv'
BY DEF IInv, TypeOK, MemoIsPending, CallersAreMemoized, RouteSessionIsOwn

-----------------------------------------------------------------------------
LEMMA StatusIInv ==
  ASSUME IInv, NEW a \in attempts, NEW status \in Status, SetStatus(a, status)
  PROVE  session'.for = session.for /\ session' \in [status : Status, for : 0..lastId]
BY DEF SetStatus, IInv, TypeOK

LEMMA AnswerType ==
  ASSUME IInv, NEW c \in Caller, NEW state \in {"waiting", "api", "error"},
         NEW k \in Nat, NEW n \in 0..k, lastId <= k, Answer(c, state, n)
  PROVE  call' \in [Caller -> [state : {"idle", "waiting", "api", "error"},
                               on : 0..k]]
<1>1. \A d \in Caller : call[d] \in [state : {"idle", "waiting", "api", "error"},
                                     on : 0..k]
  BY DEF IInv, TypeOK
<1> QED BY <1>1 DEF Answer, IInv, TypeOK

LEMMA GetApiIInv ==
  ASSUME IInv, NEW c \in Caller, GetApi(c)
  PROVE  IInv'
<1>1. Stored \in BOOLEAN /\ lastId \in Nat /\ lastId + 1 \in Nat
  BY DEF Stored, IInv, TypeOK
<1>2. CASE apiInstance # 0
  <2>1. Answer(c, "api", apiInstance) /\ UNCHANGED <<creds, legacy, loginPromise, attempts, lastId, apiInstance, session, logouts>>
    BY <1>2 DEF GetApi
  <2>2. apiInstance \in 0..lastId /\ creds' \in BOOLEAN
    BY <2>1 DEF IInv, TypeOK
  <2> QED BY <1>1, <2>1, <2>2, AnswerType, CallIInv
<1>3. CASE apiInstance = 0 /\ ~Stored
  <2>1. /\ Answer(c, "error", 0) /\ creds' = Stored
        /\ UNCHANGED <<legacy, apiInstance, loginPromise, attempts, lastId,
                       session, logouts>>
    BY <1>3 DEF GetApi
  <2> QED BY <1>1, <2>1, AnswerType, CallIInv
<1>4. CASE apiInstance = 0 /\ Stored /\ loginPromise # 0
  <2>1. /\ Answer(c, "waiting", loginPromise) /\ creds' = Stored
        /\ UNCHANGED <<legacy, apiInstance, loginPromise, attempts, lastId,
                       session, logouts>>
    BY <1>4 DEF GetApi
  <2>2. loginPromise \in 0..lastId
    BY DEF IInv, TypeOK
  <2> QED BY <1>1, <2>1, <2>2, AnswerType, CallIInv
<1>5. CASE apiInstance = 0 /\ Stored /\ loginPromise = 0
  <2>1. /\ Start(Attempt("getApi", "login")) /\ loginPromise' = lastId + 1
        /\ Answer(c, "waiting", lastId + 1) /\ creds' = Stored
        /\ UNCHANGED <<legacy, apiInstance, session, logouts>>
    BY <1>5 DEF GetApi
  <2>2. call' \in [Caller -> [state : {"idle", "waiting", "api", "error"},
                              on : 0..(lastId + 1)]]
    BY <1>1, <2>1, AnswerType
  <2>3. session' \in [status : Status, for : 0..(lastId + 1)]
    BY <2>1 DEF IInv, TypeOK
  <2>4. "getApi" \in Via /\ "login" \in Phase
    BY DEF Via, Phase
  <2> QED BY <1>1, <1>5, <2>1, <2>2, <2>3, <2>4, StartIInv
<1> QED BY <1>2, <1>3, <1>4, <1>5

LEMMA CheckStatusIInv ==
  ASSUME IInv, CheckStatus
  PROVE  IInv'
<1>1. creds' \in BOOLEAN
  BY DEF CheckStatus, Stored, IInv, TypeOK
<1>2. CASE apiInstance = 0 /\ Stored
  <2>1. Start(Attempt("status", "login"))
    BY <1>2 DEF CheckStatus
  <2>2. UNCHANGED <<legacy, apiInstance, loginPromise, call, session, logouts>>
    BY DEF CheckStatus
  <2>3. /\ session' \in [status : Status, for : 0..(lastId + 1)]
        /\ call' \in [Caller -> [state : {"idle", "waiting", "api", "error"},
                                 on : 0..(lastId + 1)]]
    BY <2>2 DEF IInv, TypeOK
  <2>4. "status" \in Via /\ "login" \in Phase
    BY DEF Via, Phase
  <2> QED BY <1>1, <2>1, <2>2, <2>3, <2>4, StartIInv
<1>3. CASE ~(apiInstance = 0 /\ Stored)
  BY <1>1, <1>3, CallIInv DEF CheckStatus, IInv, TypeOK
<1> QED BY <1>2, <1>3

LEMMA StartLoginIInv ==
  ASSUME IInv, StartLogin
  PROVE  IInv'
<1> DEFINE phase == IF Stored THEN "login" ELSE "qr"
<1>1. Start(Attempt("route", phase)) /\ phase \in Phase /\ "route" \in Via
  BY DEF StartLogin, Phase, Via
<1>2. /\ creds' \in BOOLEAN
      /\ UNCHANGED <<legacy, apiInstance, loginPromise, call, logouts>>
      /\ \A a \in attempts : a.via # "route"
  BY DEF StartLogin, Stored, IInv, TypeOK
<1>3. session'.for = lastId + 1 /\ session' \in [status : Status, for : 0..(lastId + 1)]
  BY DEF StartLogin, Status, IInv, TypeOK
<1>4. call' \in [Caller -> [state : {"idle", "waiting", "api", "error"},
                            on : 0..(lastId + 1)]]
  BY <1>2 DEF IInv, TypeOK
<1> HIDE DEF phase
<1> QED BY <1>1, <1>2, <1>3, <1>4, StartIInv

(* The continuations of an attempt.                                         *)
LEMMA ContinuationIInv ==
  ASSUME IInv, NEW a \in attempts,
         \/ LoginAccepted(a) \/ LoginRefused(a) \/ RouteRefused(a) \/ QrShown(a)
         \/ QrConfirmed(a) \/ QrLoggedIn(a) \/ QrFails(a) \/ AccountFetched(a)
  PROVE  IInv'
<1>1. /\ Phase = {"login", "qr", "confirmed", "account"}
      /\ {"idle", "qr", "authenticated", "failed"} \subseteq Status
  BY DEF Phase, Status
<1>2. /\ a.id \in 0..lastId /\ creds \in BOOLEAN /\ apiInstance \in 0..lastId
      /\ session \in [status : Status, for : 0..lastId]
  BY DEF IInv, TypeOK
<1>3. CASE LoginAccepted(a) \/ QrLoggedIn(a)
  BY <1>1, <1>2, <1>3, GoOnIInv DEF LoginAccepted, QrLoggedIn
<1>4. CASE LoginRefused(a)
  BY <1>2, <1>4, EndIInv DEF LoginRefused
<1>5. CASE RouteRefused(a)
  <2>1. session'.for = session.for /\ session' \in [status : Status, for : 0..lastId]
    BY <1>1, <1>5, StatusIInv DEF RouteRefused
  <2> QED BY <1>1, <1>2, <1>5, <2>1, GoOnIInv DEF RouteRefused
<1>6. CASE QrShown(a)
  <2>1. session'.for = session.for /\ session' \in [status : Status, for : 0..lastId]
    BY <1>1, <1>6, StatusIInv DEF QrShown
  <2> QED BY <1>6, <2>1 DEF QrShown, IInv, TypeOK, MemoIsPending,
                            CallersAreMemoized, RouteSessionIsOwn
<1>7. CASE QrConfirmed(a)
  <2>1. session'.for = session.for /\ session' \in [status : Status, for : 0..lastId]
    BY <1>1, <1>7, StatusIInv DEF QrConfirmed
  <2> QED BY <1>1, <1>2, <1>7, <2>1, GoOnIInv DEF QrConfirmed
<1>8. CASE QrFails(a)
  <2>1. session'.for = session.for /\ session' \in [status : Status, for : 0..lastId]
    BY <1>1, <1>8, StatusIInv DEF QrFails
  <2> QED BY <1>8, <2>1, EndIInv DEF QrFails
<1>9. CASE AccountFetched(a)
  <2>1. session'.for = session.for /\ session' \in [status : Status, for : 0..lastId]
    BY <1>1, <1>9, StatusIInv DEF AccountFetched
  <2> QED BY <1>9, <2>1, EndIInv DEF AccountFetched
<1> QED BY <1>3, <1>4, <1>5, <1>6, <1>7, <1>8, <1>9

(* After a logout nothing is memoized, and what is under way goes on.       *)
LEMMA LogoutIInv ==
  ASSUME IInv, Logout
  PROVE  IInv'
<1>1. TypeOK'
  <2>1. logouts' \in 0..MaxLogouts /\ lastId' = lastId /\ 0 \in 0..lastId
    BY SessionAssumption DEF IInv, TypeOK, Logout
  <2>2. UNCHANGED <<legacy, attempts, call, session>> /\ creds' \in BOOLEAN
    BY DEF Logout
  <2>3. apiInstance' \in 0..lastId /\ loginPromise' \in 0..lastId
    BY <2>1 DEF Logout
  <2> QED BY <2>1, <2>2, <2>3 DEF IInv, TypeOK
<1>2. logouts' # 0
  BY DEF IInv, TypeOK, Logout
<1> QED BY <1>1, <1>2 DEF IInv, Logout, MemoIsPending, CallersAreMemoized,
                          RouteSessionIsOwn

LEMMA NextIInv == IInv /\ [Next]_vars => IInv'
<1> SUFFICES ASSUME IInv, [Next]_vars PROVE IInv'
  OBVIOUS
<1>1. CASE \E c \in Caller : GetApi(c)
  BY <1>1, GetApiIInv
<1>2. CASE CheckStatus
  BY <1>2, CheckStatusIInv
<1>3. CASE StartLogin
  BY <1>3, StartLoginIInv
<1>4. CASE \E a \in attempts :
             \/ LoginAccepted(a) \/ LoginRefused(a) \/ RouteRefused(a) \/ QrShown(a)
             \/ QrConfirmed(a) \/ QrLoggedIn(a) \/ QrFails(a) \/ AccountFetched(a)
  BY <1>4, ContinuationIInv
<1>5. CASE Logout
  BY <1>5, LogoutIInv
<1>6. CASE CliLogin
  BY <1>6, CallIInv DEF CliLogin, IInv, TypeOK
<1>7. CASE UNCHANGED vars
  BY <1>7, CallIInv DEF vars, IInv, TypeOK
<1> QED BY <1>1, <1>2, <1>3, <1>4, <1>5, <1>6, <1>7 DEF Next

-----------------------------------------------------------------------------
(* The inductive invariant holds in every reachable state.                  *)
THEOREM InductiveInvariant == Spec => []IInv
BY InitIInv, NextIInv, PTL DEF Spec

(* Every variable has its type, and no attempt is in two phases.            *)
THEOREM TypeCorrect == Spec => []TypeOK
BY InductiveInvariant, PTL DEF IInv

(* getApi never memoizes a login that has ended: one that a logout made it   *)
(* forget may clear the memo of a later one, but never leaves its own.      *)
THEOREM MemoStaysPending == Spec => []MemoIsPending
BY InductiveInvariant, PTL DEF IInv

(* Until the first logout the callers of getApi share one attempt.          *)
THEOREM AttemptIsShared == Spec => []CallersShareAttempt
<1>1. IInv => CallersShareAttempt
  BY DEF IInv, TypeOK, CallersAreMemoized, CallersShareAttempt
<1> QED BY <1>1, InductiveInvariant, PTL

(* However attempts overlap, the QR route's session is written by its own.  *)
THEOREM RouteOwnsItsSession == Spec => []RouteSessionIsOwn
BY InductiveInvariant, PTL DEF IInv
=============================================================================
