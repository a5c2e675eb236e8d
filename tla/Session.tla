------------------------------- MODULE Session -------------------------------
(***************************************************************************)
(* The session with Zalo that the gateway owns: the module variables of    *)
(* src/src/client/zalo-client.ts and the stored credentials, and those who *)
(* log in: every user of getApi (among them the listener for inbound       *)
(* messages, src/src/gateway/zalo-client.ts), the health check, and the    *)
(* QR login route (src/src/gateway/routes/login.ts).                       *)
(*                                                                         *)
(* A login is an attempt with an id; the API object it yields is known by  *)
(* the same id.  Its awaits are its phases: "login" with the credentials,  *)
(* "qr" until the user has confirmed, "confirmed" until the QR login       *)
(* returns, "account" while the account is fetched, whose failure changes  *)
(* nothing.  All attempts are for one account.                             *)
(***************************************************************************)
EXTENDS Naturals, FiniteSets

CONSTANTS Sender,      \* users of getApi other than the listener
          Listener,    \* onMessage, which the server calls once, as it starts
          MaxAttempts, \* bound: attempts to log in
          MaxLogouts   \* bound: logouts

ASSUME SessionAssumption ==
  /\ Listener \notin Sender
  /\ MaxAttempts \in Nat /\ MaxLogouts \in Nat

Caller == Sender \cup {Listener}
Id     == 1..MaxAttempts

VARIABLES
  creds,        \* whether the credentials file exists
  legacy,       \* whether there is one in its former location, never deleted
  apiInstance,  \* the API object in use, 0 if null
  loginPromise, \* the attempt that getApi memoized, 0 if null
  attempts,     \* the attempts under way
  lastId,       \* the last attempt that was started
  call,         \* per caller of getApi: its last call
  session,      \* the QR route's session and the attempt it was made for
  logouts       \* how many logouts there were

vars == <<creds, legacy, apiInstance, loginPromise, attempts, lastId, call, session, logouts>>

Via   == {"getApi", "status", "route"}
Phase == {"login", "qr", "confirmed", "account"}

(* The statuses between the QR code's appearance and its confirmation are   *)
(* all "qr".                                                                *)
Status == {"none", "idle", "refreshing", "qr", "authenticated", "failed"}

Init ==
  /\ creds \in BOOLEAN
  /\ legacy \in BOOLEAN
  /\ apiInstance = 0
  /\ loginPromise = 0
  /\ attempts = {}
  /\ lastId = 0
  /\ call = [c \in Caller |-> [state |-> "idle", on |-> 0]]
  /\ session = [status |-> "none", for |-> 0]
  /\ logouts = 0

-----------------------------------------------------------------------------
(* hasCredentials, which also copies the credentials of the former location *)
(* to where they are missing.                                               *)
Stored == creds \/ legacy

(* The server calls onMessage before it serves anybody.                     *)
Serving == call[Listener].state # "idle"

Attempt(via, phase) == [id |-> lastId + 1, via |-> via, phase |-> phase]

Start(a) ==
  /\ lastId < MaxAttempts
  /\ lastId' = lastId + 1
  /\ attempts' = attempts \cup {a}

(* Bug: a continuation runs and the attempt goes on waiting as well.        *)
GoOnTwice(a, phase) == attempts' = attempts \cup {[a EXCEPT !.phase = phase]}

GoOn(a, phase) == attempts' = (attempts \ {a}) \cup {[a EXCEPT !.phase = phase]}

Answer(c, state, n) == call' = [call EXCEPT ![c] = [state |-> state, on |-> n]]

(* Bug: getApi does not look for an attempt that is under way.              *)
GetApiAlone(c) ==
  /\ call[c].state # "waiting"
  /\ Serving <=> c # Listener
  /\ IF apiInstance # 0
     THEN /\ Answer(c, "api", apiInstance)
          /\ UNCHANGED <<creds, legacy, loginPromise, attempts, lastId>>
     ELSE /\ creds' = Stored
          /\ \/ /\ ~Stored
                /\ Answer(c, "error", 0)
                /\ UNCHANGED <<loginPromise, attempts, lastId>>
             \/ /\ Stored
                /\ Start(Attempt("getApi", "login"))
                /\ loginPromise' = lastId + 1
                /\ Answer(c, "waiting", lastId + 1)
  /\ UNCHANGED <<legacy, apiInstance, session, logouts>>

GetApi(c) ==
  /\ call[c].state # "waiting"
  /\ Serving <=> c # Listener
  /\ IF apiInstance # 0
     THEN /\ Answer(c, "api", apiInstance)
          /\ UNCHANGED <<creds, legacy, loginPromise, attempts, lastId>>
     ELSE /\ creds' = Stored
          /\ \/ /\ ~Stored
                /\ Answer(c, "error", 0)
                /\ UNCHANGED <<loginPromise, attempts, lastId>>
             \/ /\ Stored /\ loginPromise # 0
                /\ Answer(c, "waiting", loginPromise)
                /\ UNCHANGED <<loginPromise, attempts, lastId>>
             \/ /\ Stored /\ loginPromise = 0
                /\ Start(Attempt("getApi", "login"))
                /\ loginPromise' = lastId + 1
                /\ Answer(c, "waiting", lastId + 1)
  /\ UNCHANGED <<legacy, apiInstance, session, logouts>>

(* GET /health: without a session it logs in on its own.                    *)
CheckStatus ==
  /\ Serving
  /\ creds' = Stored
  /\ IF apiInstance = 0 /\ Stored
     THEN Start(Attempt("status", "login"))
     ELSE UNCHANGED <<attempts, lastId>>
  /\ UNCHANGED <<legacy, apiInstance, loginPromise, call, session, logouts>>

(* Bug: a second start is not told from the first.                          *)
StartLoginAgain ==
  /\ Serving
  /\ creds' = Stored
  /\ Start(Attempt("route", IF Stored THEN "login" ELSE "qr"))
  /\ session' = [status |-> IF Stored THEN "refreshing" ELSE "idle", for |-> lastId + 1]
  /\ UNCHANGED <<legacy, apiInstance, loginPromise, call, logouts>>

(* POST /login/qr/start, when no attempt of the route is under way; when    *)
(* one is, the answer is the session as it stands.                          *)
StartLogin ==
  /\ Serving
  /\ \A a \in attempts : a.via # "route"
  /\ creds' = Stored
  /\ Start(Attempt("route", IF Stored THEN "login" ELSE "qr"))
  /\ session' = [status |-> IF Stored THEN "refreshing" ELSE "idle", for |-> lastId + 1]
  /\ UNCHANGED <<legacy, apiInstance, loginPromise, call, logouts>>

-----------------------------------------------------------------------------
(* Bug: the memoized promise is cleared only when the login succeeds.       *)
ForgetOnSuccess(a, result) ==
  loginPromise' = IF a.via = "getApi" /\ result = "api" THEN 0 ELSE loginPromise

(* getApi's finally, whichever attempt is memoized by now.                  *)
Forget(a, result) ==
  loginPromise' = IF a.via = "getApi" THEN 0 ELSE loginPromise

(* Bug: those who wait are answered only when the login succeeds.           *)
TellOnSuccess(a, result) ==
  call' = [c \in Caller |->
             IF result = "api" /\ call[c] = [state |-> "waiting", on |-> a.id]
             THEN [call[c] EXCEPT !.state = result] ELSE call[c]]

(* All who wait for the attempt get its API or its error.                   *)
Tell(a, result) ==
  call' = [c \in Caller |->
             IF call[c] = [state |-> "waiting", on |-> a.id]
             THEN [call[c] EXCEPT !.state = result] ELSE call[c]]

End(a, result) ==
  /\ attempts' = attempts \ {a}
  /\ Forget(a, result)
  /\ Tell(a, result)
  /\ creds' = IF a.via = "status" THEN Stored ELSE creds
  /\ UNCHANGED <<legacy, lastId, logouts>>

SetStatus(a, status) ==
  session' = IF a.via = "route" THEN [session EXCEPT !.status = status] ELSE session

(* zalo.login resolves.                                                     *)
LoginAccepted(a) ==
  /\ a.phase = "login"
  /\ apiInstance' = a.id
  /\ GoOn(a, "account")
  /\ UNCHANGED <<creds, legacy, loginPromise, lastId, call, session, logouts>>

(* It rejects; the route goes on to show a QR code.                         *)
LoginRefused(a) ==
  /\ a.phase = "login" /\ a.via # "route"
  /\ End(a, "error")
  /\ UNCHANGED <<apiInstance, session>>

RouteRefused(a) ==
  /\ a.phase = "login" /\ a.via = "route"
  /\ GoOn(a, "qr")
  /\ SetStatus(a, "idle")
  /\ UNCHANGED <<creds, legacy, apiInstance, loginPromise, lastId, call, logouts>>

QrShown(a) ==
  /\ a.phase = "qr"
  /\ SetStatus(a, "qr")
  /\ UNCHANGED <<creds, legacy, apiInstance, loginPromise, attempts, lastId, call, logouts>>

(* GotLoginInfo: the credentials are saved before the login is complete.    *)
QrConfirmed(a) ==
  /\ a.phase = "qr"
  /\ creds' = TRUE
  /\ GoOn(a, "confirmed")
  /\ SetStatus(a, "authenticated")
  /\ UNCHANGED <<legacy, apiInstance, loginPromise, lastId, call, logouts>>

QrLoggedIn(a) ==
  /\ a.phase = "confirmed"
  /\ apiInstance' = a.id
  /\ GoOn(a, "account")
  /\ UNCHANGED <<creds, legacy, loginPromise, lastId, call, session, logouts>>

QrFails(a) ==
  /\ a.phase \in {"qr", "confirmed"}
  /\ End(a, "error")
  /\ SetStatus(a, "failed")
  /\ UNCHANGED apiInstance

AccountFetched(a) ==
  /\ a.phase = "account"
  /\ End(a, "api")
  /\ SetStatus(a, "authenticated")
  /\ UNCHANGED apiInstance

Logout ==
  /\ logouts < MaxLogouts
  /\ logouts' = logouts + 1
  /\ apiInstance' = 0
  /\ loginPromise' = 0
  /\ creds' = FALSE
  /\ UNCHANGED <<legacy, attempts, lastId, call, session>>

(* npm run zalo:login, in a process of its own.                             *)
CliLogin ==
  /\ ~creds
  /\ creds' = TRUE
  /\ UNCHANGED <<legacy, apiInstance, loginPromise, attempts, lastId, call, session, logouts>>

Next ==
  \/ \E c \in Caller : GetApi(c)
  \/ CheckStatus
  \/ StartLogin
  \/ \E a \in attempts :
       \/ LoginAccepted(a)
       \/ LoginRefused(a)
       \/ RouteRefused(a)
       \/ QrShown(a)
       \/ QrConfirmed(a)
       \/ QrLoggedIn(a)
       \/ QrFails(a)
       \/ AccountFetched(a)
  \/ Logout
  \/ CliLogin

Spec == Init /\ [][Next]_vars

(***************************************************************************)
(* Zalo answers every request, with yes or with no; a user need not        *)
(* confirm.  The server calls onMessage.                                   *)
(***************************************************************************)
ZaloAnswers(n) ==
  \E a \in attempts :
    /\ a.id = n
    /\ \/ LoginAccepted(a)
       \/ LoginRefused(a)
       \/ RouteRefused(a)
       \/ QrLoggedIn(a)
       \/ a.phase = "confirmed" /\ QrFails(a)
       \/ AccountFetched(a)

FairSpec ==
  /\ Spec
  /\ WF_vars(GetApi(Listener))
  /\ \A n \in Id : WF_vars(ZaloAnswers(n))

-----------------------------------------------------------------------------
(* Every variable has its type, and an attempt is in one phase only.        *)
TypeOK ==
  /\ creds \in BOOLEAN /\ legacy \in BOOLEAN
  /\ apiInstance \in 0..lastId
  /\ loginPromise \in 0..lastId
  /\ attempts \subseteq [id : 1..lastId, via : Via, phase : Phase]
  /\ \A a, b \in attempts : a.id = b.id => a = b
  /\ lastId \in 0..MaxAttempts
  /\ call \in [Caller -> [state : {"idle", "waiting", "api", "error"}, on : 0..lastId]]
  /\ session \in [status : Status, for : 0..lastId]
  /\ logouts \in 0..MaxLogouts

(* The memoized promise is always one that is still pending: no caller of   *)
(* getApi is handed the outcome of a login that ended before it called.     *)
MemoIsPending ==
  loginPromise # 0 => \E a \in attempts : a.id = loginPromise /\ a.via = "getApi"

(* "Concurrent callers wait for the same login attempt": as long as nobody  *)
(* logs out, the callers of getApi never have two attempts under way.       *)
CallersShareAttempt ==
  logouts = 0 => \A a, b \in attempts : a.via = "getApi" /\ b.via = "getApi" => a = b

(* The session that the QR route shows is that of the attempt under way: no *)
(* attempt writes its status or its QR code into the session of another.    *)
RouteSessionIsOwn ==
  \A a \in attempts : a.via = "route" => session.for = a.id

(* A caller of getApi gets an API object or an error in the end, even one   *)
(* that waits for an attempt that a logout has made everybody forget.       *)
EveryCallAnswered ==
  \A c \in Caller : call[c].state = "waiting" ~> call[c].state # "waiting"

(* README.md: the gateway "dispatches inbound Zalo messages to              *)
(* agent-agnostic consumers".  Once it is logged in it listens to Zalo in   *)
(* the end.                                                                 *)
SessionIsListenedTo ==
  apiInstance # 0 ~> call[Listener].state = "api" \/ apiInstance = 0
=============================================================================
