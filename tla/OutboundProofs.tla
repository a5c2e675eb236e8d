--------------------------- MODULE OutboundProofs ---------------------------
(***************************************************************************)
(* Proofs about Outbound, for any requests, permitted threads, members,    *)
(* names and texts, and any number of requests under way: what a status    *)
(* says about Zalo, and what the mentions and styles of a text that is     *)
(* sent cover.                                                             *)
(*                                                                         *)
(* The text goes through functions that are defined by recursion on its    *)
(* places.  Each is shown to satisfy its equation (Recursion), and each of *)
(* its values to be good (Values): what it wrote is what it read less some *)
(* droppable symbols (Left), and what it promised about that is kept by    *)
(* the next step (MoveGood, PassGood, ParseGood).                          *)
(***************************************************************************)
EXTENDS Outbound, SequenceTheorems, FiniteSetTheorems, WellFoundedInduction,
        NaturalsInduction, TLAPS

IsCall(x) ==
  LET fields == {"req", "phase", "status", "accepted", "index", "content"}
  IN DOMAIN x = fields /\ x = [f \in fields |-> x[f]]

(* A call that has not been answered has asked Zalo nothing that counts,    *)
(* and one that will ask Zalo to send something has passed the policy.      *)
CallGood(x) ==
  /\ IsCall(x) /\ CallType(x)
  /\ x.phase # "answered" => x.status = 0 /\ x.accepted = 0
  /\ x.phase \in {"loading", "sending"} =>
       /\ <<x.req.thread, x.req.isGroup>> \in Permitted
       /\ Does(x.req) \in {"text", "media"}
  /\ x.phase = "query" => Does(x.req) = "query"
  /\ x.accepted > 0 => /\ <<x.req.thread, x.req.isGroup>> \in Permitted
                       /\ x.status >= 200
  /\ x.status = 200 /\ Does(x.req) \in {"text", "media"} => x.accepted = 1
  /\ x.status \in 400..499 => x.accepted = 0

IInv ==
  /\ \E S : calls \in Seq(S)
  /\ \A c \in DOMAIN calls : CallGood(calls[c])

-----------------------------------------------------------------------------
(* Whatever is sent is asked about.                                         *)
LEMMA SendsAreAsked ==
  ASSUME NEW r, r.action \in DOMAIN ActionRegistry
  PROVE  /\ Does(r) \in {"text", "media", "nothing", "query"}
         /\ Does(r) \in {"text", "media"} => Asks(r)
BY DEF Does, Asks, ActionRegistry, Handler, TextActions, MediaActions, QueryActions

(* A call is added, or takes the place of what it was.                      *)
LEMMA AddedIInv ==
  ASSUME IInv, NEW x, CallGood(x), calls' = Append(calls, x)
  PROVE  IInv'
<1>1. PICK S : calls \in Seq(S)
  BY DEF IInv
<1> DEFINE T == S \cup {x}
<1>2. calls \in Seq(T) /\ x \in T
  BY <1>1
<1>3. /\ calls' \in Seq(T) /\ Len(calls') = Len(calls) + 1
      /\ \A c \in 1..Len(calls) : calls'[c] = calls[c]
      /\ calls'[Len(calls) + 1] = x
  BY <1>2, AppendProperties
<1>4. DOMAIN calls = 1..Len(calls) /\ Len(calls) \in Nat
      /\ DOMAIN calls' = 1..(Len(calls) + 1)
  BY <1>2, <1>3
<1>5. ASSUME NEW c \in DOMAIN calls' PROVE CallGood(calls'[c])
  <2>1. CASE c \in DOMAIN calls
    BY <1>3, <1>4, <2>1 DEF IInv
  <2>2. CASE c = Len(calls) + 1
    BY <1>3, <2>2
  <2> QED BY <1>4, <2>1, <2>2
<1> QED BY <1>3, <1>5 DEF IInv

LEMMA ReplacedIInv ==
  ASSUME IInv, NEW c \in DOMAIN calls, NEW x, CallGood(x),
         calls' = [calls EXCEPT ![c] = x]
  PROVE  IInv'
<1>1. PICK S : calls \in Seq(S)
  BY DEF IInv
<1>2. calls \in Seq(S \cup {x}) /\ x \in S \cup {x}
  BY <1>1
<1>3. calls' \in Seq(S \cup {x}) /\ DOMAIN calls' = DOMAIN calls
  BY <1>2
<1>4. \A d \in DOMAIN calls : calls'[d] = IF d = c THEN x ELSE calls[d]
  OBVIOUS
<1> QED BY <1>3, <1>4 DEF IInv

LEMMA AnsweredGood ==
  ASSUME NEW x, CallGood(x), NEW status \in {200, 500, 502}, NEW accepted \in 0..1,
         x.phase = "query" => accepted = 0,
         x.phase = "sending" \/ x.phase = "query",
         x.phase = "sending" /\ status = 200 => accepted = 1
  PROVE  CallGood(Settled(x, status, accepted))
<1> DEFINE y == Settled(x, status, accepted)
<1>1. /\ IsCall(y) /\ y.req = x.req /\ y.phase = "answered" /\ y.status = status
      /\ y.accepted = x.accepted + accepted
  <2>1. DOMAIN x = {"req", "phase", "status", "accepted", "index", "content"}
    BY Zenon DEF CallGood, IsCall
  <2>2. y = [f \in DOMAIN x |->
               IF f = "phase" THEN "answered" ELSE IF f = "status" THEN status
               ELSE IF f = "accepted" THEN x.accepted + accepted ELSE x[f]]
    BY <2>1 DEF Settled
  <2> HIDE DEF y
  <2> QED BY <2>1, <2>2 DEF IsCall
<1>2. y.accepted = accepted
  BY <1>1 DEF CallGood
<1> QED BY <1>1, <1>2 DEF CallGood, CallType, Does

LEMMA AnswerIInv ==
  ASSUME IInv, NEW c \in DOMAIN calls, NEW status \in {200, 500, 502},
         NEW accepted \in 0..1, Answer(c, status, accepted),
         calls[c].phase = "query" => accepted = 0,
         calls[c].phase = "sending" \/ calls[c].phase = "query",
         calls[c].phase = "sending" /\ status = 200 => accepted = 1
  PROVE  IInv'
<1>1. calls' = [calls EXCEPT ![c] = Settled(calls[c], status, accepted)]
  BY DEF Answer
<1>2. CallGood(Settled(calls[c], status, accepted))
  BY AnsweredGood DEF IInv
<1> QED BY <1>1, <1>2, ReplacedIInv

-----------------------------------------------------------------------------
LEMMA NewCallGood ==
  ASSUME NEW r, NEW phase, NEW status, NEW index,
         \/ phase = "answered" /\ status = 502 /\ Does(r) = "nothing"
         \/ phase = "query" /\ status = 0 /\ Does(r) = "query"
         \/ /\ phase \in {"loading", "sending"} /\ status = 0
            /\ Does(r) \in {"text", "media"}
            /\ <<r.thread, r.isGroup>> \in Permitted
  PROVE  CallGood(Call(r, phase, status, index))
BY DEF CallGood, IsCall, CallType, Call

LEMMA RefusedIInv ==
  ASSUME IInv, NEW r, NEW status \in {400, 403, 404}, Refuse(r, status)
  PROVE  IInv'
<1> DEFINE x == Call(r, "answered", status, Nobody)
<1>1. CallGood(x)
  BY DEF CallGood, IsCall, CallType, Call
<1>2. calls' = Append(calls, x)
  BY DEF Refuse, Add
<1> QED BY <1>1, <1>2, AddedIInv

LEMMA ReceiveIInv ==
  ASSUME IInv, NEW r, Receive(r)
  PROVE  IInv'
<1>1. CASE r.action \notin DOMAIN ActionRegistry
  BY <1>1, RefusedIInv DEF Receive
<1>2. CASE r.action \in DOMAIN ActionRegistry /\ Malformed(r)
  BY <1>2, RefusedIInv DEF Receive
<1>3. CASE r.action \in DOMAIN ActionRegistry /\ ~Malformed(r)
  <2> DEFINE blocked == Asks(r) /\ <<r.thread, r.isGroup>> \notin Permitted
  <2>1. IF blocked THEN Refuse(r, 403)
        ELSE IF Does(r) = "nothing" THEN Refuse(r, 502)
        ELSE IF Does(r) = "query" THEN Add(r, "query", 0)
        ELSE IF ~NeedsMembers(r) THEN Add(r, "sending", 0)
        ELSE IF ~IsCached(r.thread) THEN Add(r, "loading", 0)
        ELSE calls' = Append(calls, Call(r, "sending", 0, CachedFor(r.thread)))
    BY <1>3 DEF Receive
  <2>2. CASE blocked
    BY <2>1, <2>2, RefusedIInv
  <2>3. CASE ~blocked /\ Does(r) = "nothing"
    <3>1. calls' = Append(calls, Call(r, "answered", 502, Nobody))
      BY <2>1, <2>3 DEF Refuse, Add
    <3> QED BY <2>3, <3>1, NewCallGood, AddedIInv
  <2>4. CASE ~blocked /\ Does(r) = "query"
    <3>1. calls' = Append(calls, Call(r, "query", 0, Nobody))
      BY <2>1, <2>4 DEF Add
    <3> QED BY <2>4, <3>1, NewCallGood, AddedIInv
  <2>5. CASE ~blocked /\ Does(r) \in {"text", "media"}
    <3>1. <<r.thread, r.isGroup>> \in Permitted
      BY <1>3, <2>5, SendsAreAsked
    <3>2. \E phase \in {"loading", "sending"} : \E index :
            calls' = Append(calls, Call(r, phase, 0, index))
      BY <2>1, <2>5 DEF Add
    <3> QED BY <2>5, <3>1, <3>2, NewCallGood, AddedIInv
  <2> QED BY <1>3, <2>2, <2>3, <2>4, <2>5, SendsAreAsked
<1> QED BY <1>1, <1>2, <1>3

LEMMA MembersLoadedIInv ==
  ASSUME IInv, NEW c \in DOMAIN calls, NEW known, MembersLoaded(c, known)
  PROVE  IInv'
<1> DEFINE index == [u \in known |-> dir[u]]
           x == Call(calls[c].req, "sending", 0, index)
<1>1. calls' = [calls EXCEPT ![c] = x]
  BY DEF MembersLoaded
<1>2. CallGood(calls[c]) /\ calls[c].phase = "loading"
  BY DEF IInv, MembersLoaded
<1>3. CallGood(x)
  BY <1>2, NewCallGood DEF CallGood
<1> QED BY <1>1, <1>3, ReplacedIInv

LEMMA MembersUnknownIInv ==
  ASSUME IInv, NEW c \in DOMAIN calls, MembersUnknown(c)
  PROVE  IInv'
<1> DEFINE x == calls[c]
           y == [x EXCEPT !.phase = "sending"]
<1>1. CallGood(x) /\ x.phase = "loading"
  BY DEF IInv, MembersUnknown
<1>2. calls' = [calls EXCEPT ![c] = y]
  BY DEF MembersUnknown
<1> HIDE DEF x
<1>3. /\ IsCall(y) /\ y.req = x.req /\ y.phase = "sending" /\ y.status = x.status
      /\ y.accepted = x.accepted
  BY <1>1 DEF CallGood, IsCall
<1> HIDE DEF y
<1>4. CallGood(y)
  BY <1>1, <1>3 DEF CallGood, CallType, Does
<1> QED BY <1>2, <1>4, ReplacedIInv

LEMMA NextIInv ==
  ASSUME IInv, [Next]_vars
  PROVE  IInv'
<1>1. CASE UNCHANGED calls
  BY <1>1 DEF IInv
<1>2. ASSUME NEW r \in Request, Receive(r)
      PROVE  IInv'
  BY <1>2, ReceiveIInv
<1>3. ASSUME NEW c \in DOMAIN calls
      PROVE  /\ \A known \in SUBSET User : MembersLoaded(c, known) => IInv'
             /\ MembersUnknown(c) => IInv'
             /\ ZaloAnswers(c) => IInv'
             /\ \A accepted \in 0..1 : ZaloFails(c, accepted) => IInv'
             /\ \A status \in {200, 500, 502} : QueryEnds(c, status) => IInv'
  <2>1. \A known \in SUBSET User : MembersLoaded(c, known) => IInv'
    BY MembersLoadedIInv
  <2>2. MembersUnknown(c) => IInv'
    BY MembersUnknownIInv
  <2>3. ZaloAnswers(c) => IInv'
    BY AnswerIInv DEF ZaloAnswers
  <2>4. \A accepted \in 0..1 : ZaloFails(c, accepted) => IInv'
    <3>1. \A r : FailureStatus(r) \in {500, 502}
      BY DEF FailureStatus
    <3> QED BY <3>1, AnswerIInv DEF ZaloFails
  <2>5. \A status \in {200, 500, 502} : QueryEnds(c, status) => IInv'
    BY AnswerIInv DEF QueryEnds
  <2> QED BY <2>1, <2>2, <2>3, <2>4, <2>5
<1>4. ASSUME NEW i \in DOMAIN cache, CacheExpires(i)
      PROVE  UNCHANGED calls
  BY <1>4 DEF CacheExpires
<1>5. ASSUME NEW u \in User, NEW name \in Name, Rename(u, name)
      PROVE  UNCHANGED calls
  BY <1>5 DEF Rename
<1> QED BY <1>1, <1>2, <1>3, <1>4, <1>5 DEF Next, vars

LEMMA InitIInv == Init => IInv
<1>1. <<>> \in Seq({}) /\ DOMAIN <<>> = {}
  OBVIOUS
<1> QED BY <1>1 DEF Init, IInv

(* Every call, as far as it has come, is good.                              *)
THEOREM InductiveInvariant == Spec => []IInv
BY InitIInv, NextIInv, PTL DEF Spec

(* For any requests and any policy: a request to send that is answered with *)
(* 200 was accepted by Zalo, one that is answered with 4xx was not put to   *)
(* Zalo, nothing is accepted twice, and nothing at all in a thread that the *)
(* policy does not permit, whichever action asks for it.                    *)
THEOREM StatusesAreHonest == Spec => []OkMeansSent
<1>1. IInv => OkMeansSent
  BY DEF IInv, CallGood, OkMeansSent
<1> QED BY <1>1, InductiveInvariant, PTL

-----------------------------------------------------------------------------
(* Numbers: least and greatest elements, induction, recursive functions.    *)
LEMMA LeastNumber ==
  ASSUME NEW I \in SUBSET Nat, I # {}
  PROVE  \E k \in I : \A i \in I : k <= i
<1>1. PICK R : /\ IsWellFoundedOn(R, Nat)
               /\ \A a, b \in Nat : a < b => <<a, b>> \in R
  <2>1. \A a, b \in Nat : a < b => <<a, b>> \in OpToRel(<, Nat)
    BY DEF OpToRel
  <2> QED BY <2>1, NatLessThanWellFounded, Zenon
<1>2. PICK k \in I : \A i \in I : ~(<<i, k>> \in R)
  <2>1. IsWellFoundedOn(R, Nat)
    BY <1>1
  <2> QED BY <2>1, WFMin
<1>3. ASSUME NEW i \in I
      PROVE  k <= i
  <2>1. ~(i < k)
    BY <1>1, <1>2, <1>3, Zenon
  <2> QED BY <2>1
<1> QED BY <1>3

LEMMA GreatestNumber ==
  ASSUME NEW b \in Nat, NEW I \in SUBSET (0..b), I # {}
  PROVE  \E k \in I : \A i \in I : i <= k
<1> DEFINE J == {b - i : i \in I}
<1>1. J \in SUBSET Nat /\ J # {}
  <2>1. \A i \in I : b - i \in Nat
    OBVIOUS
  <2>2. PICK i \in I : TRUE
    OBVIOUS
  <2>3. b - i \in J
    BY <2>2
  <2> QED BY <2>1, <2>3
<1>2. PICK j \in J : \A i \in J : j <= i
  <2> HIDE DEF J
  <2> QED BY <1>1, LeastNumber
<1>3. PICK k \in I : j = b - k
  BY <1>2
<1>4. ASSUME NEW i \in I
      PROVE  i <= k
  <2>1. j <= b - i
    BY <1>2
  <2> QED BY <1>3, <2>1
<1> QED BY <1>4

LEMMA SetInduction ==
  ASSUME NEW S \in SUBSET Nat, 0 \in S, \A n \in S : n + 1 \in S
  PROVE  \A n \in Nat : n \in S
<1>1. SUFFICES ASSUME Nat \ S # {}
               PROVE  FALSE
  BY <1>1
<1>2. PICK k \in Nat \ S : \A i \in Nat \ S : k <= i
  BY <1>1, LeastNumber
<1>3. k - 1 \in Nat /\ k - 1 \notin Nat \ S
  BY <1>2
<1>4. (k - 1) + 1 \in S
  BY <1>3
<1> QED BY <1>2, <1>4

(* A function that is defined by recursion on 0..n exists, and has at every *)
(* j a value in X[j] if each step leads from one of these sets to the next. *)
Steps(n, X, base, step) ==
  /\ n \in Nat /\ DOMAIN step = 1..n /\ DOMAIN X = 0..n /\ base \in X[0]
  /\ \A j \in 1..n : \A x \in X[j - 1] : step[j][x] \in X[j]

Runs(f, n, X, base, step) ==
  /\ f = [j \in 0..n |-> f[j]]
  /\ \A j \in 0..n : f[j] = IF j = 0 THEN base ELSE step[j][f[j - 1]]
  /\ \A j \in 0..n : f[j] \in X[j]

LEMMA Recursion ==
  ASSUME NEW n, NEW X, NEW base, NEW step, Steps(n, X, base, step)
  PROVE  \E f : Runs(f, n, X, base, step)
<1>0. /\ n \in Nat /\ DOMAIN step = 1..n /\ DOMAIN X = 0..n /\ base \in X[0]
      /\ \A j \in 1..n : \A x \in X[j - 1] : step[j][x] \in X[j]
  BY DEF Steps
<1> DEFINE Exists(m) == \E f : Runs(f, m, X, base, step)
           S == {m \in Nat : m <= n => Exists(m)}
<1>1. Exists(0)
  <2> DEFINE f == [j \in 0..0 |-> base]
  <2>1. \A j \in 0..0 : j = 0 /\ f[j] = base
    OBVIOUS
  <2>2. f = [j \in 0..0 |-> f[j]]
    OBVIOUS
  <2> HIDE DEF f
  <2>3. \A j \in 0..0 : f[j] = IF j = 0 THEN base ELSE step[j][f[j - 1]]
    BY <2>1
  <2>4. \A j \in 0..0 : f[j] \in X[j]
    BY <1>0, <2>1
  <2>5. Runs(f, 0, X, base, step)
    BY <2>2, <2>3, <2>4 DEF Runs
  <2> QED BY <2>5
<1>2. ASSUME NEW m \in Nat, m + 1 <= n, Exists(m)
      PROVE  Exists(m + 1)
  <2>0. PICK f : Runs(f, m, X, base, step)
    BY <1>2
  <2>1. /\ f = [j \in 0..m |-> f[j]]
        /\ \A j \in 0..m : f[j] = IF j = 0 THEN base ELSE step[j][f[j - 1]]
        /\ \A j \in 0..m : f[j] \in X[j]
    BY <2>0 DEF Runs
  <2> DEFINE g == [j \in 0..(m + 1) |-> IF j = m + 1 THEN step[j][f[m]] ELSE f[j]]
  <2>2. m + 1 \in 1..n /\ f[m] \in X[m] /\ (m + 1) - 1 = m
    BY <1>0, <1>2, <2>1
  <2>3. step[m + 1][f[m]] \in X[m + 1]
    BY <1>0, <2>2
  <2>4. \A j \in 0..(m + 1) : g[j] \in X[j]
    BY <2>1, <2>3
  <2>5. ASSUME NEW j \in 0..(m + 1)
        PROVE  g[j] = IF j = 0 THEN base ELSE step[j][g[j - 1]]
    <3>1. CASE j = m + 1
      BY <2>2, <3>1
    <3>2. CASE j # m + 1
      <4>1. j \in 0..m /\ (j # 0 => j - 1 \in 0..m)
        BY <3>2
      <4>2. g[j] = f[j] /\ (j # 0 => g[j - 1] = f[j - 1])
        BY <4>1
      <4>3. f[j] = IF j = 0 THEN base ELSE step[j][f[j - 1]]
        BY <2>1, <4>1
      <4> QED BY <4>2, <4>3
    <3> QED BY <3>1, <3>2
  <2>6. g = [j \in 0..(m + 1) |-> g[j]]
    OBVIOUS
  <2> HIDE DEF g
  <2>7. Runs(g, m + 1, X, base, step)
    BY <2>4, <2>5, <2>6 DEF Runs
  <2> QED BY <2>7
<1> HIDE DEF Exists
<1>3. \A m \in Nat : m \in S
  <2>1. S \in SUBSET Nat /\ 0 \in S
    BY <1>1
  <2>2. ASSUME NEW m \in S
        PROVE  m + 1 \in S
    <3>1. SUFFICES ASSUME m + 1 <= n
                   PROVE  Exists(m + 1)
      OBVIOUS
    <3>2. m \in Nat /\ m <= n
      BY <1>0, <3>1
    <3> QED BY <1>2, <3>1, <3>2
  <2> HIDE DEF S
  <2> QED BY <2>1, <2>2, SetInduction
<1>4. Exists(n)
  BY <1>0, <1>3
<1> QED BY <1>4 DEF Exists

LEMMA Values ==
  ASSUME NEW n \in Nat, NEW X, NEW f,
         f[0] \in X[0],
         \A j \in 1..n : f[j - 1] \in X[j - 1] => f[j] \in X[j]
  PROVE  \A j \in 0..n : f[j] \in X[j]
<1> DEFINE S == {m \in Nat : m <= n => f[m] \in X[m]}
<1>1. 0 \in S
  OBVIOUS
<1>2. ASSUME NEW m \in S
      PROVE  m + 1 \in S
  <2>1. SUFFICES ASSUME m + 1 <= n
                 PROVE  f[m + 1] \in X[m + 1]
    OBVIOUS
  <2>2. m + 1 \in 1..n /\ (m + 1) - 1 = m /\ f[m] \in X[m]
    BY <2>1
  <2> QED BY <2>2
<1>3. S \in SUBSET Nat
  OBVIOUS
<1> HIDE DEF S
<1>4. \A m \in Nat : m \in S
  BY <1>1, <1>2, <1>3, SetInduction
<1> QED BY <1>4 DEF S

-----------------------------------------------------------------------------
(* What is left of a text when symbols are dropped from it.  R is what is   *)
(* left of the first e symbols of D when those at the places G are dropped: *)
(* the others stand, in order, as many places earlier as were dropped       *)
(* before them.                                                             *)
Char == [ch : Symbol, at : Nat]
Droppable == Range(Passes) \cup {"heading", "[", "]"}
Increasing(D) == \A i, j \in 1..Len(D) : i < j => D[i].at < D[j].at
Before(G, x) == {g \in G : g < x}
Rank(G, x) == x - Cardinality(Before(G, x))

Left(D, e, G, R) ==
  /\ R \in Seq(Char)
  /\ G \subseteq 1..e
  /\ Len(R) = e - Cardinality(G)
  /\ \A x \in (1..e) \ G : Rank(G, x) \in 1..Len(R) /\ R[Rank(G, x)] = D[x]
  /\ \A k \in 1..Len(R) : \E x \in (1..e) \ G : R[k] = D[x]
  /\ Increasing(R)
  /\ \A x \in G : D[x].ch \in Droppable

LEMMA LeftStart ==
  ASSUME NEW D
  PROVE  Left(D, 0, {}, <<>>)
<1>1. Cardinality({}) = 0 /\ <<>> \in Seq(Char) /\ Len(<<>>) = 0
  BY FS_EmptySet
<1>2. 1..0 = {}
  OBVIOUS
<1> QED BY <1>1, <1>2 DEF Left, Increasing

LEMMA Dropped ==
  ASSUME NEW e \in Nat, NEW G \in SUBSET (1..e)
  PROVE  IsFiniteSet(G) /\ Cardinality(G) \in Nat
<1>1. IsFiniteSet(1..e)
  BY FS_Interval
<1> QED BY <1>1, FS_Subset, FS_CardinalityType

LEMMA LeftNumbers ==
  ASSUME NEW D, NEW e \in Nat, NEW G, NEW R, Left(D, e, G, R)
  PROVE  /\ IsFiniteSet(G) /\ Cardinality(G) \in Nat
         /\ Len(R) \in Nat /\ Len(R) = e - Cardinality(G) /\ R \in Seq(Char)
<1>1. R \in Seq(Char) /\ Len(R) = e - Cardinality(G) /\ G \subseteq 1..e
  BY DEF Left
<1>2. IsFiniteSet(G) /\ Cardinality(G) \in Nat
  BY <1>1, Dropped
<1> QED BY <1>1, <1>2

(* A piece of D, and a piece of D behind R.                                 *)
LEMMA Piece ==
  ASSUME NEW S, NEW D \in Seq(S), NEW e \in 0..Len(D), NEW n \in e..Len(D)
  PROVE  LET X == SubSeq(D, e + 1, n) IN
         X \in Seq(S) /\ Len(X) = n - e /\ \A y \in 1..(n - e) : X[y] = D[e + y]
<1> DEFINE X == SubSeq(D, e + 1, n)
<1>1. Len(D) \in Nat /\ e \in Nat /\ n \in Nat /\ e <= n /\ n <= Len(D)
  OBVIOUS
<1>2. CASE n = e
  <2>1. X = <<>>
    BY <1>1, <1>2, SubSeqEmpty
  <2> QED BY <1>2, <2>1
<1>3. CASE n > e
  <2>1. e + 1 \in 1..Len(D) + 1 /\ n \in e..Len(D)
    BY <1>1, <1>3
  <2> QED BY <1>1, <1>3, <2>1, SubSeqProperties
<1> QED BY <1>1, <1>2, <1>3

(* T is R, and behind it the places e + 1 to n of D.                        *)
Behind(S, R, D, e, n, T) ==
  /\ T \in Seq(S) /\ Len(T) = Len(R) + (n - e)
  /\ \A k \in 1..Len(R) : T[k] = R[k]
  /\ \A y \in 1..(n - e) : T[Len(R) + y] = D[e + y]

LEMMA Joined ==
  ASSUME NEW S, NEW D \in Seq(S), NEW R \in Seq(S),
         NEW e \in 0..Len(D), NEW n \in e..Len(D)
  PROVE  Behind(S, R, D, e, n, R \o SubSeq(D, e + 1, n))
<1> DEFINE X == SubSeq(D, e + 1, n)
           T == R \o X
<1>1. PICK L \in Nat, m \in Nat : L = Len(R) /\ m = n - e
  OBVIOUS
<1>2. X \in Seq(S) /\ Len(X) = m /\ \A y \in 1..m : X[y] = D[e + y]
  BY <1>1, Piece
<1> HIDE DEF X
<1>3. /\ T \in Seq(S) /\ Len(T) = L + m
      /\ \A k \in 1..(L + m) : T[k] = IF k <= L THEN R[k] ELSE X[k - L]
  <2>1. /\ T \in Seq(S) /\ Len(T) = Len(R) + Len(X)
        /\ \A k \in 1..Len(R) + Len(X) :
             T[k] = IF k <= Len(R) THEN R[k] ELSE X[k - Len(R)]
    BY <1>2, ConcatProperties
  <2> QED BY <1>1, <1>2, <2>1
<1> HIDE DEF T
<1>4. ASSUME NEW k \in 1..L
      PROVE  T[k] = R[k]
  <2>1. k \in 1..(L + m) /\ k <= L
    OBVIOUS
  <2> QED BY <1>3, <2>1
<1>5. ASSUME NEW y \in 1..m
      PROVE  T[L + y] = D[e + y]
  <2>1. L + y \in 1..(L + m) /\ ~(L + y <= L) /\ (L + y) - L = y
    OBVIOUS
  <2>2. T[L + y] = X[y]
    BY <1>3, <2>1
  <2> QED BY <1>2, <2>2
<1>6. Behind(S, R, D, e, n, T)
  BY <1>1, <1>3, <1>4, <1>5 DEF Behind
<1> QED BY <1>6 DEF T, X

(* The next symbols are kept.                                               *)
LEMMA LeftKeep ==
  ASSUME NEW D \in Seq(Char), Increasing(D), NEW e \in 0..Len(D),
         NEW G, NEW R, Left(D, e, G, R), NEW n \in e..Len(D)
  PROVE  Left(D, n, G, R \o SubSeq(D, e + 1, n))
<1> DEFINE T == R \o SubSeq(D, e + 1, n)
<1>1. PICK N \in Nat, L \in Nat, C \in Nat :
        N = Len(D) /\ L = Len(R) /\ C = Cardinality(G)
  BY LeftNumbers
<1>2. e \in Nat /\ n \in Nat /\ e <= n /\ n <= N /\ L = e - C /\ R \in Seq(Char)
  BY <1>1, LeftNumbers
<1>3. /\ T \in Seq(Char) /\ Len(T) = L + (n - e)
      /\ \A k \in 1..L : T[k] = R[k]
      /\ \A y \in 1..(n - e) : T[L + y] = D[e + y]
  <2>1. /\ T \in Seq(Char) /\ Len(T) = Len(R) + (n - e)
        /\ \A k \in 1..Len(R) : T[k] = R[k]
        /\ \A y \in 1..(n - e) : T[Len(R) + y] = D[e + y]
    <3>1. Behind(Char, R, D, e, n, T)
      BY <1>2, Joined DEF T
    <3> HIDE DEF T
    <3> QED BY <3>1 DEF Behind
  <2> QED BY <1>1, <2>1
<1> HIDE DEF T
<1>4. /\ \A x \in (1..e) \ G : Rank(G, x) \in 1..L /\ R[Rank(G, x)] = D[x]
      /\ \A k \in 1..L : \E x \in (1..e) \ G : R[k] = D[x]
      /\ \A i, j \in 1..L : i < j => R[i].at < R[j].at
      /\ \A x \in G : D[x].ch \in Droppable
      /\ G \subseteq 1..e
  BY <1>1 DEF Left, Increasing
<1>5. PICK M \in Nat : M = Len(T) /\ M = L + (n - e)
  BY <1>2, <1>3
<1>6. ASSUME NEW x \in (1..n) \ G
      PROVE  Rank(G, x) \in 1..M /\ T[Rank(G, x)] = D[x]
  <2>1. CASE x <= e
    <3>1. x \in (1..e) \ G
      BY <1>2, <2>1
    <3>2. Rank(G, x) \in 1..L /\ R[Rank(G, x)] = D[x]
      BY <1>4, <3>1
    <3>3. Rank(G, x) \in 1..M
      BY <1>2, <1>5, <3>2
    <3> QED BY <1>3, <3>2, <3>3
  <2>2. CASE x > e
    <3>1. \A g \in G : g < x
      <4>1. G \subseteq 1..e
        BY <1>4
      <4> QED BY <1>2, <2>2, <4>1
    <3>2. Before(G, x) = G
      BY <3>1 DEF Before
    <3>3. Rank(G, x) = x - C
      BY <1>1, <3>2 DEF Rank
    <3>4. x - e \in 1..(n - e) /\ x - C = L + (x - e) /\ e + (x - e) = x /\ x - C \in 1..M
      BY <1>2, <1>5, <2>2
    <3>5. T[L + (x - e)] = D[e + (x - e)]
      BY <1>3, <3>4
    <3> QED BY <3>3, <3>4, <3>5
  <2> QED BY <1>2, <2>1, <2>2
<1>7. \A k \in 1..M : \/ k \in 1..L /\ T[k] = R[k]
                      \/ \E y \in 1..(n - e) : k = L + y /\ T[k] = D[e + y]
  <2>1. SUFFICES ASSUME NEW k \in 1..M, k \notin 1..L
                 PROVE  \E y \in 1..(n - e) : k = L + y /\ T[k] = D[e + y]
    BY <1>3
  <2>2. k - L \in 1..(n - e) /\ k = L + (k - L)
    BY <1>2, <1>5, <2>1
  <2> QED BY <1>3, <2>2
<1>8. ASSUME NEW k \in 1..M
      PROVE  \E x \in (1..n) \ G : T[k] = D[x]
  <2>1. CASE k \in 1..L /\ T[k] = R[k]
    <3>1. PICK x \in (1..e) \ G : R[k] = D[x]
      BY <1>4, <2>1
    <3>2. x \in (1..n) \ G
      BY <1>2
    <3> QED BY <2>1, <3>1, <3>2
  <2>2. ASSUME NEW y \in 1..(n - e), k = L + y, T[k] = D[e + y]
        PROVE  \E x \in (1..n) \ G : T[k] = D[x]
    <3>1. e + y \in 1..n /\ e + y \notin 1..e
      BY <1>2
    <3>2. e + y \notin G
      BY <1>4, <3>1
    <3> QED BY <2>2, <3>1, <3>2
  <2> QED BY <1>7, <2>1, <2>2
<1>9. ASSUME NEW i \in 1..M, NEW j \in 1..M, i < j
      PROVE  T[i].at < T[j].at
  <2>1. \A a, b \in 1..N : a < b => D[a].at < D[b].at
    BY <1>1 DEF Increasing
  <2>2. CASE i \in 1..L /\ T[i] = R[i] /\ j \in 1..L /\ T[j] = R[j]
    BY <1>4, <1>9, <2>2
  <2>3. ASSUME i \in 1..L, T[i] = R[i], NEW y \in 1..(n - e), j = L + y, T[j] = D[e + y]
        PROVE  T[i].at < T[j].at
    <3>1. PICK x \in (1..e) \ G : R[i] = D[x]
      BY <1>4, <2>3
    <3>2. x \in 1..N /\ e + y \in 1..N /\ x < e + y
      BY <1>2
    <3> QED BY <2>1, <2>3, <3>1, <3>2
  <2>4. ASSUME j \in 1..L, NEW y \in 1..(n - e), i = L + y
        PROVE  FALSE
    BY <1>2, <1>9, <2>4
  <2>5. ASSUME NEW y \in 1..(n - e), i = L + y, T[i] = D[e + y],
               NEW z \in 1..(n - e), j = L + z, T[j] = D[e + z]
        PROVE  T[i].at < T[j].at
    <3>1. L + y < L + z
      BY <1>9, <2>5
    <3>2. e + y \in 1..N /\ e + z \in 1..N /\ e + y < e + z
      BY <1>2, <3>1
    <3> QED BY <2>1, <2>5, <3>2
  <2> QED BY <1>7, <2>2, <2>3, <2>4, <2>5
<1>10. G \subseteq 1..n /\ M = n - C
  BY <1>2, <1>4, <1>5
<1>11. Left(D, n, G, T)
  BY <1>1, <1>3, <1>4, <1>5, <1>6, <1>8, <1>9, <1>10 DEF Left, Increasing
<1> QED BY <1>11 DEF T

LEMMA LeftKeepOne ==
  ASSUME NEW D \in Seq(Char), Increasing(D), NEW e \in 0..Len(D), e < Len(D),
         NEW G, NEW R, Left(D, e, G, R)
  PROVE  Left(D, e + 1, G, Append(R, D[e + 1]))
<1>1. R \in Seq(Char) /\ e + 1 \in 1..Len(D) /\ e + 1 \in e..Len(D) /\ Len(D) \in Nat
  BY LeftNumbers
<1>2. Append(R, D[e + 1]) = R \o <<D[e + 1]>>
  BY <1>1, AppendIsConcat, ElementOfSeq
<1>3. SubSeq(D, e + 1, e + 1) = <<D[e + 1]>>
  <2>1. SubSeq(D, e + 1, e + 1) \in Seq(Char) /\ Len(SubSeq(D, e + 1, e + 1)) = 1
        /\ SubSeq(D, e + 1, e + 1)[1] = D[e + 1]
    BY <1>1
  <2>2. <<D[e + 1]>> \in Seq(Char) /\ Len(<<D[e + 1]>>) = 1 /\ <<D[e + 1]>>[1] = D[e + 1]
    BY <1>1
  <2>3. \A i \in 1..1 : i = 1
    OBVIOUS
  <2> HIDE <1>1
  <2> QED BY <2>1, <2>2, <2>3, SeqEqual, Zenon
<1> QED BY <1>1, <1>2, <1>3, LeftKeep

(* The next symbol is dropped.                                              *)
LEMMA LeftDrop ==
  ASSUME NEW D \in Seq(Char), NEW e \in 0..Len(D), e < Len(D),
         D[e + 1].ch \in Droppable, NEW G, NEW R, Left(D, e, G, R)
  PROVE  Left(D, e + 1, G \cup {e + 1}, R)
<1> DEFINE H == G \cup {e + 1}
<1>1. /\ Len(D) \in Nat /\ e \in Nat
      /\ IsFiniteSet(G) /\ Cardinality(G) \in Nat
      /\ Len(R) \in Nat /\ Len(R) = e - Cardinality(G)
  BY LeftNumbers
<1>2. e + 1 \notin G /\ H \subseteq 1..(e + 1) /\ G \subseteq 1..e
  <2>1. G \subseteq 1..e
    BY DEF Left
  <2> QED BY <1>1, <2>1
<1>3. Cardinality(H) = Cardinality(G) + 1
  BY <1>1, <1>2, FS_AddElement
<1>4. Len(R) = (e + 1) - Cardinality(H)
  BY <1>1, <1>3
<1>5. (1..(e + 1)) \ H = (1..e) \ G
  BY <1>1, <1>2
<1>6. ASSUME NEW x \in (1..e) \ G
      PROVE  Rank(H, x) = Rank(G, x)
  <2>1. Before(H, x) = Before(G, x)
    BY <1>1, <1>2 DEF Before
  <2> QED BY <2>1 DEF Rank
<1>7. \A x \in H : D[x].ch \in Droppable
  BY DEF Left
<1> QED BY <1>2, <1>4, <1>5, <1>6, <1>7 DEF Left

-----------------------------------------------------------------------------
(* R is D less some symbols that may be dropped.                            *)
Thin(D, R) ==
  /\ R \in Seq(Char) /\ Increasing(R)
  /\ \A k \in 1..Len(R) : \E x \in 1..Len(D) : R[k] = D[x]
  /\ \A x \in 1..Len(D) : D[x].ch \in Droppable \/ \E k \in 1..Len(R) : R[k] = D[x]

LEMMA LeftThin ==
  ASSUME NEW D \in Seq(Char), NEW G, NEW R, Left(D, Len(D), G, R)
  PROVE  Thin(D, R)
<1>1. ASSUME NEW x \in 1..Len(D)
      PROVE  D[x].ch \in Droppable \/ \E k \in 1..Len(R) : R[k] = D[x]
  <2>1. CASE x \in G
    BY <2>1 DEF Left
  <2>2. CASE x \notin G
    BY <2>2 DEF Left
  <2> QED BY <2>1, <2>2
<1> QED BY <1>1 DEF Left, Thin

LEMMA ThinOfThin ==
  ASSUME NEW K, NEW D, NEW R, Thin(K, D), Thin(D, R)
  PROVE  Thin(K, R)
<1>1. \A k \in 1..Len(R) : \E x \in 1..Len(K) : R[k] = K[x]
  BY DEF Thin
<1>2. ASSUME NEW x \in 1..Len(K), K[x].ch \notin Droppable
      PROVE  \E k \in 1..Len(R) : R[k] = K[x]
  <2>1. PICK y \in 1..Len(D) : D[y] = K[x]
    BY <1>2 DEF Thin
  <2> QED BY <1>2, <2>1 DEF Thin
<1> QED BY <1>1, <1>2 DEF Thin

-----------------------------------------------------------------------------
(* Without is the function its recursion describes.                         *)
LEMMA WithoutEquation ==
  ASSUME NEW D \in Seq(Char), NEW gone
  PROVE  \E f : /\ f = [i \in 0..Len(D) |->
                          IF i = 0 THEN <<>>
                          ELSE IF i \in gone THEN f[i - 1] ELSE Append(f[i - 1], D[i])]
                /\ Without(D, gone) = f[Len(D)]
<1> DEFINE n == Len(D)
           X == [j \in 0..n |-> Seq(Char)]
           step == [j \in 1..n |-> [R \in Seq(Char) |->
                      IF j \in gone THEN R ELSE Append(R, D[j])]]
           F(f) == [i \in 0..n |->
                      IF i = 0 THEN <<>>
                      ELSE IF i \in gone THEN f[i - 1] ELSE Append(f[i - 1], D[i])]
<1>1. n \in Nat /\ <<>> \in X[0] /\ DOMAIN step = 1..n /\ DOMAIN X = 0..n
  OBVIOUS
<1>2. ASSUME NEW j \in 1..n, NEW R \in X[j - 1]
      PROVE  step[j][R] \in X[j]
  <2>1. j \in 0..n /\ j - 1 \in 0..n /\ j \in 1..Len(D)
    BY <1>1
  <2>2. R \in Seq(Char)
    BY <2>1
  <2> QED BY <2>1, <2>2
<1>3. PICK f : /\ f = [j \in 0..n |-> f[j]]
               /\ \A j \in 0..n : f[j] = IF j = 0 THEN <<>> ELSE step[j][f[j - 1]]
               /\ \A j \in 0..n : f[j] \in X[j]
  <2> HIDE DEF X, step, n
  <2>1. Steps(n, X, <<>>, step)
    BY <1>1, <1>2 DEF Steps
  <2>2. \E f : Runs(f, n, X, <<>>, step)
    BY <2>1, Recursion
  <2> QED BY <2>2 DEF Runs
<1>4. f = F(f)
  <2>1. \A i \in 0..n : f[i] = IF i = 0 THEN <<>> ELSE step[i][f[i - 1]]
    BY <1>3, Zenon
  <2>2. ASSUME NEW i \in 0..n, i # 0
        PROVE  step[i][f[i - 1]] = IF i \in gone THEN f[i - 1] ELSE Append(f[i - 1], D[i])
    <3>1. i - 1 \in 0..n /\ i \in 1..n
      BY <1>1, <2>2
    <3>2. f[i - 1] \in Seq(Char)
      BY <1>3, <3>1
    <3> QED BY <3>1, <3>2
  <2>3. \A i \in 0..n : f[i] = F(f)[i]
    BY <2>1, <2>2
  <2>4. DOMAIN f = 0..n /\ f = [i \in 0..n |-> f[i]]
    BY <1>3
  <2> QED BY <2>3, <2>4
<1> DEFINE kept == CHOOSE g : g = F(g)
<1>5. kept = F(kept)
  BY <1>4
<1>6. Without(D, gone) = kept[n]
  BY DEF Without
<1> QED BY <1>5, <1>6

(* Symbols are dropped at places where they may be dropped.                 *)
LEMMA WithoutThin ==
  ASSUME NEW D \in Seq(Char), Increasing(D), NEW gone,
         \A x \in 1..Len(D) : x \in gone => D[x].ch \in Droppable
  PROVE  Thin(D, Without(D, gone))
<1> DEFINE n == Len(D)
           X == [j \in 0..n |-> {R \in Seq(Char) : \E G : Left(D, j, G, R)}]
<1>1. PICK f : /\ f = [i \in 0..n |->
                         IF i = 0 THEN <<>>
                         ELSE IF i \in gone THEN f[i - 1] ELSE Append(f[i - 1], D[i])]
               /\ Without(D, gone) = f[n]
  BY WithoutEquation
<1>2. n \in Nat
  OBVIOUS
<1>3. f[0] \in X[0]
  <2>1. f[0] = <<>>
    BY <1>1, <1>2
  <2>2. Left(D, 0, {}, <<>>) /\ <<>> \in Seq(Char)
    BY LeftStart
  <2> QED BY <1>2, <2>1, <2>2
<1>4. ASSUME NEW j \in 1..n, f[j - 1] \in X[j - 1]
      PROVE  f[j] \in X[j]
  <2>1. j \in 0..n /\ j - 1 \in 0..n /\ j # 0 /\ (j - 1) + 1 = j /\ j - 1 < Len(D)
        /\ j - 1 \in 0..Len(D)
    BY <1>2
  <2>2. PICK G : Left(D, j - 1, G, f[j - 1]) /\ f[j - 1] \in Seq(Char)
    BY <1>4, <2>1
  <2>3. f[j] = IF j \in gone THEN f[j - 1] ELSE Append(f[j - 1], D[j])
    BY <1>1, <2>1
  <2>4. \E H : Left(D, j, H, f[j])
    <3>1. CASE j \in gone
      <4>1. D[j].ch \in Droppable
        BY <3>1
      <4>2. Left(D, (j - 1) + 1, G \cup {(j - 1) + 1}, f[j - 1])
        BY <2>1, <2>2, <4>1, LeftDrop
      <4> QED BY <2>1, <2>3, <3>1, <4>2
    <3>2. CASE j \notin gone
      <4>1. Left(D, (j - 1) + 1, G, Append(f[j - 1], D[(j - 1) + 1]))
        BY <2>1, <2>2, LeftKeepOne
      <4> QED BY <2>1, <2>3, <3>2, <4>1
    <3> QED BY <3>1, <3>2
  <2>5. f[j] \in Seq(Char)
    BY <2>4 DEF Left
  <2> QED BY <2>1, <2>4, <2>5
<1>5. f[n] \in X[n]
  <2> HIDE DEF X, n
  <2>1. \A j \in 0..n : f[j] \in X[j]
    BY <1>2, <1>3, <1>4, Values, Zenon
  <2> QED BY <1>2, <2>1
<1>6. PICK G : Left(D, n, G, f[n])
  BY <1>2, <1>5
<1> QED BY <1>1, <1>6, LeftThin

LEMMA HeadingsThin ==
  ASSUME NEW D \in Seq(Char), Increasing(D)
  PROVE  Thin(D, Without(D, Headings(D)))
<1>1. \A x \in 1..Len(D) : x \in Headings(D) => D[x].ch \in Droppable
  BY DEF Headings, Droppable
<1> QED BY <1>1, WithoutThin

-----------------------------------------------------------------------------
(* The pairs of a marker: within the first j places, markers at both ends   *)
(* and a symbol between, one behind the other.                              *)
ScanType == [open : Nat, pairs : Seq(Nat \X Nat)]

PairsIn(D, k, j, ps) ==
  /\ \A i \in 1..Len(ps) : /\ ps[i][1] \in 1..j /\ ps[i][2] \in 1..j
                           /\ ps[i][1] + 2 <= ps[i][2]
                           /\ D[ps[i][1]].ch = k /\ D[ps[i][2]].ch = k
  /\ \A i \in 2..Len(ps) : ps[i - 1][2] < ps[i][1]

ScanGood(D, k, j, acc) ==
  /\ acc \in ScanType
  /\ PairsIn(D, k, j, acc.pairs)
  /\ acc.open \in 0..j
  /\ acc.open # 0 => /\ D[acc.open].ch = k
                     /\ \A i \in 1..Len(acc.pairs) : acc.pairs[i][2] < acc.open

LEMMA TakeType ==
  ASSUME NEW D, NEW k, NEW acc \in ScanType, NEW j \in Nat
  PROVE  Take(D, k, acc, j) \in ScanType
<1>1. acc.open \in Nat /\ acc.pairs \in Seq(Nat \X Nat)
  BY DEF ScanType
<1>2. [acc EXCEPT !.open = j] \in ScanType
  BY DEF ScanType
<1>3. [open |-> 0, pairs |-> Append(acc.pairs, <<acc.open, j>>)] \in ScanType
  BY <1>1 DEF ScanType
<1>4. [acc EXCEPT !.open = 0] \in ScanType
  BY DEF ScanType
<1> QED BY <1>2, <1>3, <1>4 DEF Take

LEMMA TakeGood ==
  ASSUME NEW D, NEW k, NEW j \in Nat \ {0}, NEW acc, ScanGood(D, k, j - 1, acc)
  PROVE  ScanGood(D, k, j, Take(D, k, acc, j))
<1> DEFINE ps == acc.pairs
           new == Take(D, k, acc, j)
<1>1. /\ acc \in ScanType /\ acc.open \in Nat /\ ps \in Seq(Nat \X Nat)
      /\ acc.open <= j - 1 /\ Len(ps) \in Nat
  BY DEF ScanGood, ScanType
<1>2. new \in ScanType
  BY <1>1, TakeType
<1>3. PairsIn(D, k, j, ps)
  <2>1. \A a : a \in 1..(j - 1) => a \in 1..j
    OBVIOUS
  <2> QED BY <2>1 DEF ScanGood, PairsIn
<1>4. CASE new = acc
  <2>1. acc.open \in 0..j
    BY <1>1
  <2> QED BY <1>1, <1>3, <1>4, <2>1 DEF ScanGood
<1>5. CASE new = [acc EXCEPT !.open = j] /\ D[j].ch = k
  <2>1. new.open = j /\ new.pairs = ps
    BY <1>1, <1>5 DEF ScanType
  <2>2. \A i \in 1..Len(ps) : ps[i][2] < j
    <3>1. \A i \in 1..Len(ps) : ps[i][2] \in 1..(j - 1)
      BY DEF ScanGood, PairsIn
    <3> QED BY <3>1
  <2> HIDE DEF new, ps
  <2>3. j \in 0..j
    OBVIOUS
  <2>4. ScanGood(D, k, j, new)
    BY <1>2, <1>3, <1>5, <2>1, <2>2, <2>3 DEF ScanGood
  <2> QED BY <2>4 DEF new
<1>6. CASE /\ new = [open |-> 0, pairs |-> Append(ps, <<acc.open, j>>)]
           /\ D[j].ch = k /\ acc.open # 0 /\ j # acc.open + 1
  <2> DEFINE p == <<acc.open, j>>
             qs == Append(ps, p)
  <2>1. new.open = 0 /\ new.pairs = qs
    BY <1>6
  <2>2. PICK n \in Nat : n = Len(ps)
    BY <1>1
  <2>3. /\ Len(qs) = n + 1 /\ qs[n + 1] = p
        /\ \A i \in 1..n : qs[i] = ps[i]
    <3>1. p \in Nat \X Nat
      BY <1>1
    <3> QED BY <1>1, <2>2, <3>1, AppendProperties
  <2>4. /\ p[1] = acc.open /\ p[2] = j /\ acc.open \in 1..j /\ j \in 1..j
        /\ acc.open + 2 <= j /\ D[acc.open].ch = k
    BY <1>1, <1>6 DEF ScanGood
  <2> HIDE DEF p, qs, new
  <2>5. ASSUME NEW i \in 1..(n + 1)
        PROVE  /\ qs[i][1] \in 1..j /\ qs[i][2] \in 1..j
               /\ qs[i][1] + 2 <= qs[i][2]
               /\ D[qs[i][1]].ch = k /\ D[qs[i][2]].ch = k
    <3>1. CASE i = n + 1
      BY <1>6, <2>3, <2>4, <3>1
    <3>2. CASE i \in 1..n
      BY <1>3, <2>2, <2>3, <3>2 DEF PairsIn
    <3> QED BY <3>1, <3>2
  <2>6. ASSUME NEW i \in 2..(n + 1)
        PROVE  qs[i - 1][2] < qs[i][1]
    <3>1. CASE i = n + 1
      <4>1. i - 1 \in 1..n
        BY <3>1
      <4>2. ps[i - 1][2] < acc.open
        BY <1>6, <2>2, <4>1 DEF ScanGood
      <4> QED BY <2>3, <2>4, <3>1, <4>1, <4>2
    <3>2. CASE i # n + 1
      <4>1. i \in 2..n /\ i \in 1..n /\ i - 1 \in 1..n
        BY <3>2
      <4>2. ps[i - 1][2] < ps[i][1]
        BY <1>3, <2>2, <4>1 DEF PairsIn
      <4> QED BY <2>3, <4>1, <4>2
    <3> QED BY <3>1, <3>2
  <2>7. PairsIn(D, k, j, qs)
    BY <2>3, <2>5, <2>6 DEF PairsIn
  <2>8. 0 \in 0..j
    OBVIOUS
  <2>9. ScanGood(D, k, j, new)
    BY <1>2, <2>1, <2>7, <2>8 DEF ScanGood
  <2> QED BY <2>9 DEF new
<1>7. CASE new = [acc EXCEPT !.open = 0]
  <2>1. new.open = 0 /\ new.pairs = ps
    BY <1>1, <1>7 DEF ScanType
  <2> HIDE DEF new, ps
  <2>2. 0 \in 0..j
    OBVIOUS
  <2>3. ScanGood(D, k, j, new)
    BY <1>2, <1>3, <2>1, <2>2 DEF ScanGood
  <2> QED BY <2>3 DEF new
<1> QED BY <1>4, <1>5, <1>6, <1>7 DEF Take

LEMMA PairsEquation ==
  ASSUME NEW D \in Seq(Char), NEW k
  PROVE  \E f : /\ f = [j \in 0..Len(D) |->
                          IF j = 0 THEN [open |-> 0, pairs |-> <<>>]
                          ELSE Take(D, k, f[j - 1], j)]
                /\ Pairs(D, k) = f[Len(D)].pairs
<1> DEFINE n == Len(D)
           base == [open |-> 0, pairs |-> <<>>]
           X == [j \in 0..n |-> ScanType]
           step == [j \in 1..n |-> [acc \in ScanType |-> Take(D, k, acc, j)]]
           F(f) == [j \in 0..n |-> IF j = 0 THEN base ELSE Take(D, k, f[j - 1], j)]
<1>1. n \in Nat /\ base \in X[0] /\ DOMAIN step = 1..n /\ DOMAIN X = 0..n
  <2>1. base \in ScanType
    BY DEF ScanType
  <2>2. 0 \in 0..n /\ n \in Nat
    OBVIOUS
  <2> HIDE DEF base
  <2> QED BY <2>1, <2>2
<1>2. ASSUME NEW j \in 1..n, NEW acc \in X[j - 1]
      PROVE  step[j][acc] \in X[j]
  <2>1. j \in 0..n /\ j - 1 \in 0..n /\ j \in Nat
    BY <1>1
  <2>2. acc \in ScanType
    BY <2>1
  <2>3. Take(D, k, acc, j) \in ScanType
    BY <2>1, <2>2, TakeType
  <2> QED BY <2>1, <2>2, <2>3
<1>3. PICK f : /\ f = [j \in 0..n |-> f[j]]
               /\ \A j \in 0..n : f[j] = IF j = 0 THEN base ELSE step[j][f[j - 1]]
               /\ \A j \in 0..n : f[j] \in X[j]
  <2> HIDE DEF X, step, n, base
  <2>1. Steps(n, X, base, step)
    BY <1>1, <1>2 DEF Steps
  <2>2. \E f : Runs(f, n, X, base, step)
    BY <2>1, Recursion
  <2> QED BY <2>2 DEF Runs
<1>4. f = F(f)
  <2>1. \A j \in 0..n : f[j] = IF j = 0 THEN base ELSE step[j][f[j - 1]]
    BY <1>3, Zenon
  <2>2. ASSUME NEW j \in 0..n, j # 0
        PROVE  step[j][f[j - 1]] = Take(D, k, f[j - 1], j)
    <3>1. j - 1 \in 0..n /\ j \in 1..n
      BY <1>1, <2>2
    <3>2. f[j - 1] \in ScanType
      BY <1>3, <3>1
    <3> QED BY <3>1, <3>2
  <2> HIDE DEF base
  <2>3. \A j \in 0..n : f[j] = F(f)[j]
    BY <2>1, <2>2
  <2>4. DOMAIN f = 0..n /\ f = [j \in 0..n |-> f[j]]
    BY <1>3
  <2> QED BY <2>3, <2>4
<1> DEFINE scan == CHOOSE g : g = F(g)
<1>5. scan = F(scan)
  BY <1>4
<1>6. Pairs(D, k) = scan[n].pairs
  BY DEF Pairs
<1> QED BY <1>5, <1>6

LEMMA PairsAre ==
  ASSUME NEW D \in Seq(Char), NEW k
  PROVE  Pairs(D, k) \in Seq(Nat \X Nat) /\ PairsIn(D, k, Len(D), Pairs(D, k))
<1> DEFINE n == Len(D)
           base == [open |-> 0, pairs |-> <<>>]
           X == [j \in 0..n |-> {acc \in ScanType : ScanGood(D, k, j, acc)}]
<1>1. PICK f : /\ f = [j \in 0..n |-> IF j = 0 THEN base
                                      ELSE Take(D, k, f[j - 1], j)]
               /\ Pairs(D, k) = f[n].pairs
  BY PairsEquation
<1>2. n \in Nat
  OBVIOUS
<1>3. f[0] \in X[0]
  <2>1. f[0] = base
    BY <1>1, <1>2
  <2>2. base \in ScanType /\ base.open = 0 /\ base.pairs = <<>> /\ 0 \in 0..0
    BY DEF ScanType
  <2>3. ScanGood(D, k, 0, base)
    BY <2>2 DEF ScanGood, PairsIn
  <2> QED BY <1>2, <2>1, <2>2, <2>3
<1>4. ASSUME NEW j \in 1..n, f[j - 1] \in X[j - 1]
      PROVE  f[j] \in X[j]
  <2>1. j \in 0..n /\ j - 1 \in 0..n /\ j # 0 /\ j \in Nat \ {0}
    BY <1>2
  <2>2. ScanGood(D, k, j - 1, f[j - 1])
    BY <1>4, <2>1
  <2>3. f[j] = Take(D, k, f[j - 1], j)
    BY <1>1, <2>1
  <2>4. ScanGood(D, k, j, f[j])
    BY <2>1, <2>2, <2>3, TakeGood
  <2> QED BY <2>1, <2>4 DEF ScanGood
<1>5. f[n] \in X[n]
  <2> HIDE DEF X, n
  <2>1. \A j \in 0..n : f[j] \in X[j]
    BY <1>2, <1>3, <1>4, Values, Zenon
  <2> QED BY <1>2, <2>1
<1>6. ScanGood(D, k, n, f[n])
  BY <1>2, <1>5
<1>7. f[n].pairs \in Seq(Nat \X Nat)
  BY <1>6 DEF ScanGood, ScanType
<1> QED BY <1>1, <1>6, <1>7 DEF ScanGood

-----------------------------------------------------------------------------
(* A style covers, in the text R, exactly the places it is of.              *)
StyleSet == [start : Nat, len : Nat, st : Symbol, of : SUBSET Nat]

Covers(s, R) ==
  /\ s.start + s.len <= Len(R)
  /\ s.of = {R[x].at : x \in (s.start + 1)..(s.start + s.len)}

LEMMA CoversMore ==
  ASSUME NEW s \in StyleSet, NEW R \in Seq(Char), Covers(s, R), NEW T \in Seq(Char),
         Len(R) <= Len(T), \A x \in 1..Len(R) : T[x] = R[x]
  PROVE  Covers(s, T)
<1>1. s.start \in Nat /\ s.len \in Nat /\ s.start + s.len <= Len(R)
      /\ Len(R) \in Nat /\ Len(T) \in Nat
  BY DEF StyleSet, Covers
<1>2. \A x \in (s.start + 1)..(s.start + s.len) : x \in 1..Len(R)
  BY <1>1
<1>3. {T[x].at : x \in (s.start + 1)..(s.start + s.len)}
        = {R[x].at : x \in (s.start + 1)..(s.start + s.len)}
  BY <1>2
<1>4. s.of = {R[x].at : x \in (s.start + 1)..(s.start + s.len)}
  BY DEF Covers
<1>5. s.of = {T[x].at : x \in (s.start + 1)..(s.start + s.len)}
  BY <1>3, <1>4, Zenon
<1>6. s.start + s.len <= Len(T)
  BY <1>1
<1> QED BY <1>5, <1>6 DEF Covers

(* What the patterns work on.                                               *)
PassType == [doc : Seq(Char), styles : Seq(StyleSet)]

(* The first i pairs have been moved to the result.                         *)
MoveType == [result : Seq(Char), last : Nat, styles : Seq(StyleSet)]

MoveGood(D, k, pairs, old, i, acc) ==
  /\ acc \in MoveType
  /\ acc.last = IF i = 0 THEN 0 ELSE pairs[i][2]
  /\ \E G : Left(D, acc.last, G, acc.result)
  /\ Len(acc.styles) = Len(old) + i
  /\ \A x \in 1..Len(old) : acc.styles[x] = old[x]
  /\ \A x \in (Len(old) + 1)..(Len(old) + i) :
       acc.styles[x].st = k /\ Covers(acc.styles[x], acc.result)

(* The text before a match is kept, its markers are dropped, and what is    *)
(* between them is kept and covered by the match's style.                   *)
LEMMA MoveText ==
  ASSUME NEW D \in Seq(Char), Increasing(D), NEW k \in Droppable,
         NEW e \in Nat, NEW G, NEW R, Left(D, e, G, R),
         NEW a \in 1..Len(D), NEW b \in 1..Len(D), e < a, a + 2 <= b,
         D[a].ch = k, D[b].ch = k, k \in Symbol
  PROVE  LET before == R \o SubSeq(D, e + 1, a - 1)
             inner  == SubSeq(D, a + 1, b - 1)
             T == before \o inner
             s == [start |-> Len(before), len |-> Len(inner), st |-> k,
                   of |-> Places(inner)]
         IN /\ T \in Seq(Char) /\ Len(R) <= Len(T)
            /\ \A x \in 1..Len(R) : T[x] = R[x]
            /\ \E H : Left(D, b, H, T)
            /\ s \in StyleSet /\ Covers(s, T)
<1> DEFINE before == R \o SubSeq(D, e + 1, a - 1)
           inner  == SubSeq(D, a + 1, b - 1)
           T == before \o inner
           s == [start |-> Len(before), len |-> Len(inner), st |-> k,
                 of |-> Places(inner)]
<1>1. PICK n \in Nat : n = Len(D)
  OBVIOUS
<1>2. /\ a \in Nat /\ b \in Nat /\ a <= n /\ b <= n /\ a - 1 \in Nat /\ b - 1 \in Nat
      /\ e \in 0..n /\ a - 1 \in e..n /\ a - 1 \in 0..n /\ a - 1 < n /\ (a - 1) + 1 = a
      /\ a \in 0..n /\ b - 1 \in a..n /\ b - 1 \in 0..n /\ b - 1 < n /\ (b - 1) + 1 = b
      /\ (b - 1) - a \in Nat
  BY <1>1
<1>3. R \in Seq(Char) /\ Len(R) \in Nat
  BY LeftNumbers
<1>4. /\ before \in Seq(Char) /\ Len(before) = Len(R) + ((a - 1) - e)
      /\ \A x \in 1..Len(R) : before[x] = R[x]
  <2>1. Behind(Char, R, D, e, a - 1, before)
    BY <1>1, <1>2, <1>3, Joined
  <2> HIDE DEF before
  <2> QED BY <2>1 DEF Behind
<1>5. Left(D, a - 1, G, before)
  BY <1>1, <1>2, LeftKeep
<1> HIDE DEF before
<1>6. PICK H : Left(D, a, H, before)
  <2>1. D[(a - 1) + 1].ch \in Droppable
    BY <1>2
  <2>2. Left(D, (a - 1) + 1, G \cup {(a - 1) + 1}, before)
    BY <1>1, <1>2, <1>5, <2>1, LeftDrop
  <2> QED BY <1>2, <2>2
<1>7. Left(D, b - 1, H, T)
  BY <1>1, <1>2, <1>6, LeftKeep
<1>8. PICK J : Left(D, b, J, T)
  <2>1. D[(b - 1) + 1].ch \in Droppable
    BY <1>2
  <2>2. Left(D, (b - 1) + 1, H \cup {(b - 1) + 1}, T)
    BY <1>1, <1>2, <1>7, <2>1, LeftDrop
  <2> QED BY <1>2, <2>2
<1>9. /\ T \in Seq(Char) /\ Len(T) = Len(before) + ((b - 1) - a)
      /\ \A x \in 1..Len(before) : T[x] = before[x]
      /\ \A y \in 1..((b - 1) - a) : T[Len(before) + y] = D[a + y]
  <2>1. PICK c \in Nat : c = b - 1
    BY <1>2
  <2>2. a \in 0..Len(D) /\ c \in a..Len(D) /\ before \in Seq(Char)
    BY <1>1, <1>2, <1>4, <2>1
  <2>3. Behind(Char, before, D, a, c, before \o SubSeq(D, a + 1, c))
    <3> HIDE DEF T, inner
    <3> QED BY ONLY <2>2, D \in Seq(Char), Joined
  <2>4. Behind(Char, before, D, a, c, T)
    BY <2>1, <2>3
  <2> HIDE DEF T
  <2> QED BY <2>1, <2>4 DEF Behind
<1>10. /\ inner \in Seq(Char) /\ Len(inner) = (b - 1) - a
       /\ \A y \in 1..((b - 1) - a) : inner[y] = D[a + y]
  <2>1. a \in 0..Len(D) /\ b - 1 \in a..Len(D)
    BY <1>1, <1>2
  <2> QED BY <2>1, Piece
<1> HIDE DEF inner, T
<1>11. PICK m \in Nat, B \in Nat : m = Len(inner) /\ m = (b - 1) - a /\ B = Len(before)
  <2>1. (b - 1) - a \in Nat /\ Len(inner) = (b - 1) - a /\ Len(before) \in Nat
    <3>1. Len(inner) = (b - 1) - a
      BY <1>10
    <3>2. (b - 1) - a \in Nat
      BY <1>2
    <3>3. Len(before) \in Nat
      BY <1>4
    <3> QED BY <3>1, <3>2, <3>3
  <2> QED BY <2>1
<1>12. Places(inner) = {T[x].at : x \in (B + 1)..(B + m)}
  <2>1. DOMAIN inner = 1..m
    BY <1>10, <1>11
  <2>2. \A y \in 1..m : inner[y] = T[B + y]
    BY <1>9, <1>10, <1>11
  <2>3. ASSUME NEW y \in 1..m
        PROVE  B + y \in (B + 1)..(B + m)
    OBVIOUS
  <2>4. ASSUME NEW x \in (B + 1)..(B + m)
        PROVE  x - B \in 1..m /\ x = B + (x - B)
    OBVIOUS
  <2>5. Places(inner) \subseteq {T[x].at : x \in (B + 1)..(B + m)}
    BY <2>1, <2>2, <2>3 DEF Places
  <2>6. ASSUME NEW x \in (B + 1)..(B + m)
        PROVE  T[x].at \in Places(inner)
    <3>1. T[x].at = inner[x - B].at
      BY <2>2, <2>4
    <3> QED BY <2>1, <2>4, <3>1 DEF Places
  <2> QED BY <2>5, <2>6
<1>13. Places(inner) \subseteq Nat
  <2>1. inner \in Seq(Char)
    BY <1>10
  <2>2. \A y \in DOMAIN inner : inner[y] \in Char
    BY <2>1
  <2>3. \A y \in DOMAIN inner : inner[y].at \in Nat
    BY <2>2 DEF Char
  <2> QED BY <2>3 DEF Places
<1>14. s \in StyleSet
  BY <1>11, <1>13 DEF StyleSet
<1>15. Covers(s, T)
  <2>1. s.start = B /\ s.len = m /\ s.of = Places(inner)
    BY <1>11
  <2> HIDE DEF s
  <2>2. Len(T) = B + m
    BY <1>9, <1>11
  <2> QED BY <1>11, <1>12, <2>1, <2>2 DEF Covers
<1>16. Len(R) <= Len(T) /\ \A x \in 1..Len(R) : T[x] = R[x]
  <2>1. PICK r \in Nat : r = Len(R) /\ B = r + ((a - 1) - e) /\ Len(T) = B + m
    BY <1>3, <1>4, <1>9, <1>11
  <2>2. r <= B /\ r <= B + m /\ \A x \in 1..r : x \in 1..B
    BY <1>2, <2>1
  <2>3. \A x \in 1..r : T[x] = before[x]
    BY <1>9, <1>11, <2>2
  <2> QED BY <1>4, <2>1, <2>2, <2>3
<1>17. T \in Seq(Char)
  BY <1>9
<1> HIDE DEF s
<1> QED BY <1>8, <1>14, <1>15, <1>16, <1>17 DEF s, T, inner, before

LEMMA MoveIsGood ==
  ASSUME NEW D \in Seq(Char), Increasing(D), NEW k \in Droppable, k \in Symbol,
         NEW pairs \in Seq(Nat \X Nat), PairsIn(D, k, Len(D), pairs),
         NEW old \in Seq(StyleSet), NEW i \in 1..Len(pairs),
         NEW acc, MoveGood(D, k, pairs, old, i - 1, acc)
  PROVE  MoveGood(D, k, pairs, old, i, Move(D, k, acc, pairs[i]))
<1> DEFINE a == pairs[i][1]
           b == pairs[i][2]
           e == acc.last
           R == acc.result
           before == R \o SubSeq(D, e + 1, a - 1)
           inner  == SubSeq(D, a + 1, b - 1)
           T == before \o inner
           s == [start |-> Len(before), len |-> Len(inner), st |-> k,
                 of |-> Places(inner)]
           new == Move(D, k, acc, pairs[i])
<1>1. /\ a \in 1..Len(D) /\ b \in 1..Len(D) /\ a + 2 <= b
      /\ D[a].ch = k /\ D[b].ch = k
  BY DEF PairsIn
<1>2. e \in Nat /\ R \in Seq(Char) /\ acc.styles \in Seq(StyleSet)
  BY DEF MoveGood, MoveType
<1>3. e < a
  <2>1. Len(pairs) \in Nat /\ i \in Nat
    OBVIOUS
  <2>2. CASE i = 1
    <3>1. e = 0
      BY <2>2 DEF MoveGood
    <3>2. a \in 1..Len(D)
      BY <1>1
    <3> HIDE DEF a, e
    <3> QED BY <3>1, <3>2
  <2>3. CASE i # 1
    <3>1. i \in 2..Len(pairs) /\ i - 1 # 0
      BY <2>1, <2>3
    <3>2. e = pairs[i - 1][2]
      BY <3>1 DEF MoveGood
    <3> QED BY <3>1, <3>2 DEF PairsIn
  <2> QED BY <2>2, <2>3
<1>4. PICK G : Left(D, e, G, R)
  BY DEF MoveGood
<1>5. new = [result |-> T, last |-> b, styles |-> Append(acc.styles, s)]
  BY DEF Move
<1>6. /\ T \in Seq(Char) /\ Len(R) <= Len(T)
      /\ \A x \in 1..Len(R) : T[x] = R[x]
      /\ \E H : Left(D, b, H, T)
      /\ s \in StyleSet /\ Covers(s, T)
  <2> HIDE DEF a, b, e, R
  <2> QED BY <1>1, <1>2, <1>3, <1>4, MoveText
<1>7. s.st = k
  OBVIOUS
<1> HIDE DEF s, T
<1> DEFINE ss == Append(acc.styles, s)
<1>8. PICK n \in Nat : n = Len(old)
  OBVIOUS
<1>9. /\ i \in Nat /\ i - 1 \in Nat /\ i # 0
      /\ Len(acc.styles) = n + (i - 1) /\ n + (i - 1) \in Nat /\ (n + (i - 1)) + 1 = n + i
  <2>1. i \in Nat /\ i - 1 \in Nat /\ i # 0
    OBVIOUS
  <2>2. n + (i - 1) \in Nat /\ (n + (i - 1)) + 1 = n + i
    BY <2>1
  <2>3. Len(acc.styles) = n + (i - 1)
    BY <1>8 DEF MoveGood
  <2> QED BY <2>1, <2>2, <2>3
<1>10. /\ ss \in Seq(StyleSet) /\ Len(ss) = n + i /\ ss[n + i] = s
       /\ \A x \in 1..(n + (i - 1)) : ss[x] = acc.styles[x]
  <2>1. /\ ss \in Seq(StyleSet) /\ Len(ss) = Len(acc.styles) + 1
        /\ \A x \in 1..Len(acc.styles) : ss[x] = acc.styles[x]
        /\ ss[Len(acc.styles) + 1] = s
    <3>1. acc.styles \in Seq(StyleSet) /\ s \in StyleSet
      BY <1>2, <1>6
    <3> QED BY <3>1, AppendProperties
  <2> HIDE DEF ss
  <2> QED BY <1>9, <2>1
<1> HIDE DEF ss
<1>11. ASSUME NEW x \in 1..n
       PROVE  ss[x] = old[x]
  <2>1. acc.styles[x] = old[x]
    BY <1>8 DEF MoveGood
  <2>2. x \in 1..(n + (i - 1))
    BY <1>9
  <2> QED BY <1>10, <2>1, <2>2
<1>12. ASSUME NEW x \in (n + 1)..(n + i)
       PROVE  ss[x].st = k /\ Covers(ss[x], T)
  <2>1. CASE x = n + i
    BY <1>6, <1>7, <1>10, <2>1
  <2>2. CASE x # n + i
    <3>1. x \in (n + 1)..(n + (i - 1)) /\ x \in 1..(n + (i - 1))
      BY <1>9, <2>2
    <3>2. acc.styles[x].st = k /\ Covers(acc.styles[x], R)
      BY <1>8, <3>1 DEF MoveGood
    <3>3. acc.styles[x] \in StyleSet
      <4>1. x \in 1..Len(acc.styles)
        BY <1>9, <3>1
      <4> QED BY <1>2, <4>1, ElementOfSeq
    <3>4. Covers(acc.styles[x], T)
      <4> HIDE DEF R
      <4> QED BY <1>2, <1>6, <3>2, <3>3, CoversMore
    <3> QED BY <1>10, <3>1, <3>2, <3>4
  <2> QED BY <2>1, <2>2
<1>13. new \in MoveType
  <2>1. b \in Nat
    <3>1. b \in 1..Len(D)
      BY <1>1
    <3> HIDE DEF b
    <3> QED BY <3>1
  <2>2. T \in Seq(Char) /\ ss \in Seq(StyleSet)
    BY <1>6, <1>10
  <2>3. new = [result |-> T, last |-> b, styles |-> ss]
    BY <1>5 DEF ss
  <2> HIDE DEF b, new
  <2> QED BY <2>1, <2>2, <2>3 DEF MoveType
<1>14. new.last = b /\ new.result = T /\ new.styles = ss
  <2>1. new = [result |-> T, last |-> b, styles |-> ss]
    BY <1>5 DEF ss
  <2> HIDE DEF new, b
  <2> QED BY <2>1
<1> HIDE DEF new
<1>15. MoveGood(D, k, pairs, old, i, new)
  BY <1>6, <1>8, <1>9, <1>10, <1>11, <1>12, <1>13, <1>14 DEF MoveGood
<1> QED BY <1>15 DEF new

Moved(D, k, pairs, old, f) ==
  [i \in 0..Len(pairs) |->
     IF i = 0 THEN [result |-> <<>>, last |-> 0, styles |-> old]
     ELSE Move(D, k, f[i - 1], pairs[i])]

LEMMA MoveStart ==
  ASSUME NEW D \in Seq(Char), NEW k, NEW pairs, NEW old \in Seq(StyleSet)
  PROVE  MoveGood(D, k, pairs, old, 0, [result |-> <<>>, last |-> 0, styles |-> old])
<1> DEFINE m == [result |-> <<>>, last |-> 0, styles |-> old]
<1>1. m \in MoveType /\ m.result = <<>> /\ m.last = 0 /\ m.styles = old
  BY DEF MoveType
<1>2. Left(D, 0, {}, <<>>)
  BY LeftStart
<1>3. Len(old) \in Nat /\ Len(old) + 0 = Len(old)
  OBVIOUS
<1>4. \A x \in (Len(old) + 1)..(Len(old) + 0) : FALSE
  BY <1>3
<1> HIDE DEF m
<1>5. MoveGood(D, k, pairs, old, 0, m)
  BY <1>1, <1>2, <1>3, <1>4 DEF MoveGood
<1> QED BY <1>5 DEF m

LEMMA StyledEquation ==
  ASSUME NEW acc \in PassType, Increasing(acc.doc), NEW k \in Droppable, k \in Symbol
  PROVE  LET D == acc.doc
             n == Len(Pairs(D, k))
         IN \E f : /\ f = Moved(D, k, Pairs(D, k), acc.styles, f)
                   /\ Styled(acc, k).doc =
                        f[n].result \o SubSeq(D, f[n].last + 1, Len(D))
                   /\ Styled(acc, k).styles = f[n].styles
<1> DEFINE D == acc.doc
           old == acc.styles
           pairs == Pairs(D, k)
           n == Len(pairs)
           base == [result |-> <<>>, last |-> 0, styles |-> old]
           X == [j \in 0..n |-> {m \in MoveType : MoveGood(D, k, pairs, old, j, m)}]
           step == [j \in 1..n |-> [m \in MoveType |-> Move(D, k, m, pairs[j])]]
<1>0. D \in Seq(Char) /\ Increasing(D) /\ old \in Seq(StyleSet)
  BY DEF PassType
<1>1. pairs \in Seq(Nat \X Nat) /\ PairsIn(D, k, Len(D), pairs)
  BY <1>0, PairsAre
<1> HIDE DEF pairs, D, old
<1>2. n \in Nat /\ 0 \in 0..n
  BY <1>1
<1>3. base \in X[0] /\ DOMAIN step = 1..n /\ DOMAIN X = 0..n
  <2>1. MoveGood(D, k, pairs, old, 0, base)
    BY <1>0, MoveStart
  <2> HIDE DEF base
  <2>2. base \in MoveType
    BY <2>1 DEF MoveGood
  <2> QED BY <1>2, <2>1, <2>2
<1>4. ASSUME NEW j \in 1..n, NEW m \in X[j - 1]
      PROVE  step[j][m] \in X[j]
  <2>1. j \in 0..n /\ j - 1 \in 0..n
    BY <1>2
  <2>2. m \in MoveType /\ MoveGood(D, k, pairs, old, j - 1, m)
    BY <2>1
  <2>3. MoveGood(D, k, pairs, old, j, Move(D, k, m, pairs[j]))
    BY <1>0, <1>1, <2>2, MoveIsGood
  <2>4. step[j][m] = Move(D, k, m, pairs[j])
    BY <2>2
  <2>5. Move(D, k, m, pairs[j]) \in MoveType
    BY <2>3 DEF MoveGood
  <2> QED BY <2>1, <2>3, <2>4, <2>5
<1>5. PICK f : /\ f = [j \in 0..n |-> f[j]]
               /\ \A j \in 0..n : f[j] = IF j = 0 THEN base ELSE step[j][f[j - 1]]
               /\ \A j \in 0..n : f[j] \in X[j]
  <2> HIDE DEF X, step, n, base
  <2>1. Steps(n, X, base, step)
    BY <1>2, <1>3, <1>4 DEF Steps
  <2>2. \E f : Runs(f, n, X, base, step)
    BY <2>1, Recursion
  <2> QED BY <2>2 DEF Runs
<1>6. f = Moved(D, k, pairs, old, f)
  <2>1. ASSUME NEW j \in 0..n
        PROVE  f[j] = IF j = 0 THEN base ELSE Move(D, k, f[j - 1], pairs[j])
    <3>1. CASE j = 0
      BY <1>5, <3>1
    <3>2. CASE j # 0
      <4>1. j - 1 \in 0..n /\ j \in 1..n
        BY <1>2, <3>2
      <4>2. f[j - 1] \in MoveType
        BY <1>5, <4>1
      <4>3. f[j] = step[j][f[j - 1]]
        BY <1>5, <3>2
      <4> QED BY <3>2, <4>1, <4>2, <4>3
    <3> QED BY <3>1, <3>2
  <2> HIDE DEF base
  <2>2. \A j \in 0..n : f[j] = Moved(D, k, pairs, old, f)[j]
    BY <2>1 DEF Moved, base
  <2>3. Moved(D, k, pairs, old, f) = [j \in 0..n |-> Moved(D, k, pairs, old, f)[j]]
    BY DEF Moved
  <2> QED BY <1>5, <2>2, <2>3
<1> DEFINE moved == CHOOSE g : g = Moved(D, k, pairs, old, g)
<1>7. moved = Moved(D, k, pairs, old, moved)
  BY <1>6
<1>8. /\ Styled(acc, k).doc = moved[n].result \o SubSeq(D, moved[n].last + 1, Len(D))
      /\ Styled(acc, k).styles = moved[n].styles
  BY DEF Styled, Moved, pairs, D, old
<1> HIDE DEF moved
<1> QED BY <1>7, <1>8 DEF pairs, D, old

(* One pattern thins the text.  The styles it adds are of its kind and      *)
(* cover what they are of; if it adds none, the text is as it was.          *)
LEMMA StyledIs ==
  ASSUME NEW acc \in PassType, Increasing(acc.doc), NEW k \in Droppable, k \in Symbol
  PROVE  LET new == Styled(acc, k)
             old == acc.styles
         IN
         /\ Thin(acc.doc, new.doc)
         /\ new.styles \in Seq(StyleSet) /\ Len(old) <= Len(new.styles)
         /\ \A x \in 1..Len(old) : new.styles[x] = old[x]
         /\ \A x \in (Len(old) + 1)..Len(new.styles) :
              new.styles[x].st = k /\ Covers(new.styles[x], new.doc)
         /\ Len(new.styles) = Len(old) => new.doc = acc.doc
<1> DEFINE D == acc.doc
           old == acc.styles
           pairs == Pairs(D, k)
           n == Len(pairs)
           new == Styled(acc, k)
           X == [j \in 0..n |-> {m \in MoveType : MoveGood(D, k, pairs, old, j, m)}]
<1>0. D \in Seq(Char) /\ Increasing(D) /\ old \in Seq(StyleSet)
  BY DEF PassType
<1>1. pairs \in Seq(Nat \X Nat) /\ PairsIn(D, k, Len(D), pairs)
  BY <1>0, PairsAre
<1>2. PICK f : /\ f = Moved(D, k, pairs, old, f)
               /\ new.doc = f[n].result \o SubSeq(D, f[n].last + 1, Len(D))
               /\ new.styles = f[n].styles
  BY StyledEquation
<1> HIDE DEF pairs, new, D, old
<1>3. n \in Nat /\ 0 \in 0..n /\ n \in 0..n
  BY <1>1
<1>4. f[0] \in X[0]
  <2>1. f[0] = [result |-> <<>>, last |-> 0, styles |-> old]
    BY <1>2, <1>3 DEF Moved
  <2>2. MoveGood(D, k, pairs, old, 0, f[0])
    BY <1>0, <2>1, MoveStart
  <2>3. f[0] \in MoveType
    BY <2>2 DEF MoveGood
  <2> QED BY <1>3, <2>2, <2>3
<1>5. ASSUME NEW j \in 1..n, f[j - 1] \in X[j - 1]
      PROVE  f[j] \in X[j]
  <2>1. j \in 0..n /\ j - 1 \in 0..n /\ j # 0
    BY <1>3
  <2>2. MoveGood(D, k, pairs, old, j - 1, f[j - 1])
    BY <1>5, <2>1
  <2>3. f[j] = Move(D, k, f[j - 1], pairs[j])
    BY <1>2, <2>1 DEF Moved
  <2>4. MoveGood(D, k, pairs, old, j, f[j])
    BY <1>0, <1>1, <2>2, <2>3, MoveIsGood
  <2> QED BY <2>1, <2>4 DEF MoveGood
<1>6. MoveGood(D, k, pairs, old, n, f[n])
  <2> HIDE DEF X, n
  <2>1. \A j \in 0..n : f[j] \in X[j]
    BY <1>3, <1>4, <1>5, Values, Zenon
  <2>2. f[n] \in X[n]
    BY <1>3, <2>1
  <2> QED BY <1>3, <2>2 DEF X
<1> HIDE DEF n
<1> DEFINE R == f[n].result
           e == f[n].last
           ss == f[n].styles
<1>7. /\ R \in Seq(Char) /\ e \in Nat /\ ss \in Seq(StyleSet)
      /\ Len(ss) = Len(old) + n /\ Len(old) \in Nat
  BY <1>6 DEF MoveGood, MoveType
<1>8. new.doc = R \o SubSeq(D, e + 1, Len(D)) /\ new.styles = ss
  BY <1>2
<1>9. e \in 0..Len(D) /\ Len(D) \in e..Len(D)
  <2>0. Len(D) \in Nat
    BY <1>0
  <2>1. CASE n = 0
    <3>1. e = 0
      BY <1>6, <2>1 DEF MoveGood
    <3> QED BY <2>0, <3>1
  <2>2. CASE n # 0
    <3>1. e = pairs[n][2]
      BY <1>6, <2>2 DEF MoveGood
    <3>2. n \in 1..Len(pairs)
      BY <1>3, <2>2 DEF n
    <3>3. pairs[n][2] \in 1..Len(D)
      BY <1>1, <3>2 DEF PairsIn
    <3> QED BY <2>0, <3>1, <3>3
  <2> QED BY <2>1, <2>2
<1>10. PICK G : Left(D, e, G, R)
  BY <1>6 DEF MoveGood
<1>11. Thin(D, new.doc)
  <2>1. Left(D, Len(D), G, new.doc)
    BY <1>0, <1>8, <1>9, <1>10, LeftKeep
  <2> QED BY <1>0, <2>1, LeftThin
<1>12. /\ new.doc \in Seq(Char) /\ Len(R) <= Len(new.doc)
       /\ \A x \in 1..Len(R) : new.doc[x] = R[x]
  <2>1. /\ new.doc \in Seq(Char) /\ Len(new.doc) = Len(R) + (Len(D) - e)
        /\ \A x \in 1..Len(R) : new.doc[x] = R[x]
    <3> HIDE DEF R, e
    <3>1. R \in Seq(Char) /\ e \in 0..Len(D) /\ Len(D) \in e..Len(D)
      BY <1>7, <1>9
    <3>2. Behind(Char, R, D, e, Len(D), R \o SubSeq(D, e + 1, Len(D)))
      BY <1>0, <3>1, Joined
    <3>3. Behind(Char, R, D, e, Len(D), new.doc)
      BY <1>8, <3>2
    <3> QED BY <3>3 DEF Behind
  <2>2. Len(R) \in Nat /\ Len(D) - e \in Nat
    BY <1>7, <1>9
  <2> QED BY <2>1, <2>2
<1>13. ASSUME NEW x \in (Len(old) + 1)..Len(ss)
       PROVE  ss[x].st = k /\ Covers(ss[x], new.doc)
  <2>1. ss[x].st = k /\ Covers(ss[x], R)
    BY <1>6, <1>7 DEF MoveGood
  <2>2. x \in 1..Len(ss)
    BY <1>7
  <2>3. ss[x] \in StyleSet
    BY <1>7, <2>2, ElementOfSeq
  <2> HIDE DEF R, ss
  <2> QED BY <1>7, <1>12, <2>1, <2>3, CoversMore
<1>14. ASSUME Len(ss) = Len(old)
       PROVE  new.doc = D
  <2>1. n = 0
    BY <1>3, <1>7, <1>14
  <2>2. e = 0
    BY <1>6, <2>1 DEF MoveGood
  <2>3. R = <<>>
    <3>1. Len(R) = 0 - Cardinality(G) /\ Cardinality(G) \in Nat /\ Len(R) \in Nat
      <4>1. 0 \in Nat /\ Left(D, 0, G, R)
        BY <1>10, <2>2
      <4> HIDE DEF R, e
      <4> QED BY <4>1, LeftNumbers
    <3> QED BY <1>7, <3>1
  <2>4. SubSeq(D, 0 + 1, Len(D)) = D
    BY <1>0, SubSeqFull
  <2> QED BY <1>8, <2>2, <2>3, <2>4
<1>15. \A x \in 1..Len(old) : ss[x] = old[x]
  BY <1>6 DEF MoveGood
<1>16. Len(old) <= Len(ss)
  BY <1>3, <1>7
<1> HIDE DEF ss
<1>17. /\ Thin(D, new.doc)
       /\ new.styles \in Seq(StyleSet) /\ Len(old) <= Len(new.styles)
       /\ \A x \in 1..Len(old) : new.styles[x] = old[x]
       /\ \A x \in (Len(old) + 1)..Len(new.styles) :
            new.styles[x].st = k /\ Covers(new.styles[x], new.doc)
       /\ Len(new.styles) = Len(old) => new.doc = D
  BY <1>7, <1>8, <1>11, <1>13, <1>14, <1>15, <1>16
<1> QED BY <1>17 DEF new, D, old

-----------------------------------------------------------------------------
(* The first i patterns have been applied to the text K.                    *)
PassGood(K, i, acc) ==
  /\ acc \in PassType
  /\ Thin(K, acc.doc)
  /\ \A x \in 1..Len(acc.styles) : \E y \in 1..i : acc.styles[x].st = Passes[y]
  /\ (\A x, y \in 1..Len(acc.styles) : acc.styles[x].st = acc.styles[y].st)
       => \A x \in 1..Len(acc.styles) : Covers(acc.styles[x], acc.doc)

LEMMA PassesAre ==
  /\ Len(Passes) = 6
  /\ \A i \in 1..6 : Passes[i] \in Droppable /\ Passes[i] \in Symbol
  /\ \A i, j \in 1..6 : Passes[i] = Passes[j] => i = j
<1>1. Len(Passes) = 6 /\ DOMAIN Passes = 1..6
  BY DEF Passes
<1>2. \A i \in 1..6 : Passes[i] \in Symbol
  BY <1>1, MarkersAreSymbols DEF Range
<1>3. \A i, j \in 1..6 : Passes[i] = Passes[j] => i = j
  BY DEF Passes
<1>4. \A i \in 1..6 : Passes[i] \in Droppable
  BY <1>1 DEF Droppable, Range
<1> QED BY <1>1, <1>2, <1>3, <1>4

LEMMA PassIsGood ==
  ASSUME NEW K, NEW i \in 1..6, NEW acc, PassGood(K, i - 1, acc)
  PROVE  PassGood(K, i, Styled(acc, Passes[i]))
<1> DEFINE k == Passes[i]
           D == acc.doc
           old == acc.styles
           new == Styled(acc, k)
<1>1. k \in Droppable /\ k \in Symbol
  BY PassesAre
<1>2. D \in Seq(Char) /\ old \in Seq(StyleSet) /\ Thin(K, D) /\ Increasing(D)
  BY DEF PassGood, PassType, Thin
<1>3. /\ Thin(D, new.doc)
      /\ new.styles \in Seq(StyleSet) /\ Len(old) <= Len(new.styles)
      /\ \A x \in 1..Len(old) : new.styles[x] = old[x]
      /\ \A x \in (Len(old) + 1)..Len(new.styles) :
           new.styles[x].st = k /\ Covers(new.styles[x], new.doc)
      /\ Len(new.styles) = Len(old) => new.doc = D
  <2>1. acc \in PassType
    BY DEF PassGood
  <2> HIDE DEF k
  <2> QED BY <1>1, <1>2, <2>1, StyledIs
<1>4. new = [doc |-> new.doc, styles |-> new.styles]
  BY DEF Styled
<1>5. Thin(K, new.doc) /\ new.doc \in Seq(Char)
  <2>1. Thin(D, new.doc)
    BY <1>3
  <2>2. new.doc \in Seq(Char)
    BY <2>1 DEF Thin
  <2> HIDE DEF new, D
  <2> QED BY <1>2, <2>1, <2>2, ThinOfThin
<1>6. \A x \in 1..Len(old) : \E y \in 1..(i - 1) : old[x].st = Passes[y]
  BY DEF PassGood
<1>7. (\A x, y \in 1..Len(old) : old[x].st = old[y].st)
        => \A x \in 1..Len(old) : Covers(old[x], D)
  BY DEF PassGood
<1> DEFINE ss == new.styles
           E == new.doc
<1> HIDE DEF ss, E, D, old, k, new
<1>8. PICK m \in Nat, n \in Nat : m = Len(old) /\ n = Len(ss) /\ m <= n
  BY <1>2, <1>3 DEF ss
<1>9. /\ \A x \in 1..m : ss[x] = old[x]
      /\ \A x \in (m + 1)..n : ss[x].st = k /\ Covers(ss[x], E)
      /\ n = m => E = D
  BY <1>3, <1>8 DEF ss, E
<1>10. ASSUME NEW x \in 1..n
       PROVE  \E y \in 1..i : ss[x].st = Passes[y]
  <2>1. CASE x \in 1..m
    <3>1. PICK y \in 1..(i - 1) : old[x].st = Passes[y]
      BY <1>6, <1>8, <2>1
    <3>2. y \in 1..i
      OBVIOUS
    <3> QED BY <1>9, <2>1, <3>1, <3>2
  <2>2. CASE x \in (m + 1)..n
    <3>1. i \in 1..i
      OBVIOUS
    <3> QED BY <1>9, <2>2, <3>1 DEF k
  <2> QED BY <1>8, <2>1, <2>2
<1>11. ASSUME \A x, y \in 1..n : ss[x].st = ss[y].st, NEW x \in 1..n
       PROVE  Covers(ss[x], E)
  <2>1. CASE n = m
    <3>1. \A y, z \in 1..Len(old) : old[y].st = old[z].st
      BY <1>8, <1>9, <1>11, <2>1
    <3>2. Covers(old[x], D)
      BY <1>7, <1>8, <2>1, <3>1
    <3> QED BY <1>9, <2>1, <3>2
  <2>2. CASE n # m
    <3>1. n \in (m + 1)..n /\ n \in 1..n
      BY <1>8, <2>2
    <3>2. ss[n].st = k
      BY <1>9, <3>1
    <3>3. CASE x \in (m + 1)..n
      BY <1>9, <3>3
    <3>4. CASE x \in 1..m
      <4>1. PICK y \in 1..(i - 1) : old[x].st = Passes[y]
        BY <1>6, <1>8, <3>4
      <4>2. Passes[y] = Passes[i]
        BY <1>9, <1>11, <3>1, <3>2, <3>4, <4>1 DEF k
      <4>3. y \in 1..6 /\ y # i
        OBVIOUS
      <4> QED BY <4>2, <4>3, PassesAre
    <3> QED BY <1>8, <3>3, <3>4
  <2> QED BY <2>1, <2>2
<1>12. new \in PassType
  BY <1>3, <1>4, <1>5 DEF PassType
<1>13. PassGood(K, i, new)
  BY <1>5, <1>8, <1>10, <1>11, <1>12 DEF PassGood, ss, E
<1> QED BY <1>13 DEF new, k

LEMMA NothingStyled ==
  ASSUME NEW K \in Seq(Char), Increasing(K)
  PROVE  PassGood(K, 0, [doc |-> Without(K, Headings(K)), styles |-> <<>>])
<1> DEFINE D == Without(K, Headings(K))
           acc == [doc |-> D, styles |-> <<>>]
<1>1. Thin(K, D) /\ D \in Seq(Char)
  BY HeadingsThin DEF Thin
<1> HIDE DEF D
<1>2. acc \in PassType /\ acc.doc = D /\ acc.styles = <<>>
  BY <1>1 DEF PassType
<1>3. \A x \in 1..Len(<<>>) : FALSE
  OBVIOUS
<1> HIDE DEF acc
<1>4. PassGood(K, 0, acc)
  BY <1>1, <1>2, <1>3 DEF PassGood
<1> QED BY <1>4 DEF acc, D

-----------------------------------------------------------------------------
LEMMA MarkdownEquation ==
  ASSUME NEW K \in Seq(Char), Increasing(K)
  PROVE  \E f : /\ f = [i \in 0..6 |->
                          IF i = 0
                          THEN [doc |-> Without(K, Headings(K)), styles |-> <<>>]
                          ELSE Styled(f[i - 1], Passes[i])]
                /\ MarkdownToZaloStyles(K) = f[6]
<1> DEFINE base == [doc |-> Without(K, Headings(K)), styles |-> <<>>]
           X == [j \in 0..6 |-> {acc \in PassType : PassGood(K, j, acc)}]
           step == [j \in 1..6 |-> [acc \in PassType |-> Styled(acc, Passes[j])]]
           F(f) == [i \in 0..6 |-> IF i = 0 THEN base ELSE Styled(f[i - 1], Passes[i])]
<1>1. PassGood(K, 0, base)
  BY NothingStyled
<1> HIDE DEF base
<1>2. base \in X[0] /\ DOMAIN step = 1..6 /\ DOMAIN X = 0..6
  <2>1. base \in PassType
    BY <1>1 DEF PassGood
  <2> QED BY <1>1, <2>1
<1>3. ASSUME NEW j \in 1..6, NEW acc \in X[j - 1]
      PROVE  step[j][acc] \in X[j]
  <2>1. j \in 0..6 /\ j - 1 \in 0..6
    OBVIOUS
  <2>2. acc \in PassType /\ PassGood(K, j - 1, acc)
    BY <2>1
  <2>3. PassGood(K, j, Styled(acc, Passes[j]))
    BY <2>2, PassIsGood
  <2>4. Styled(acc, Passes[j]) \in PassType
    BY <2>3 DEF PassGood
  <2>5. step[j][acc] = Styled(acc, Passes[j])
    BY <2>2
  <2> QED BY <2>1, <2>3, <2>4, <2>5
<1>4. PICK f : /\ f = [j \in 0..6 |-> f[j]]
               /\ \A j \in 0..6 : f[j] = IF j = 0 THEN base ELSE step[j][f[j - 1]]
               /\ \A j \in 0..6 : f[j] \in X[j]
  <2> HIDE DEF X, step
  <2>1. Steps(6, X, base, step)
    BY <1>2, <1>3 DEF Steps
  <2>2. \E f : Runs(f, 6, X, base, step)
    BY <2>1, Recursion
  <2> QED BY <2>2 DEF Runs
<1>5. f = F(f)
  <2>1. ASSUME NEW j \in 0..6
        PROVE  f[j] = IF j = 0 THEN base ELSE Styled(f[j - 1], Passes[j])
    <3>1. CASE j = 0
      BY <1>4, <3>1
    <3>2. CASE j # 0
      <4>1. j - 1 \in 0..6 /\ j \in 1..6
        BY <3>2
      <4>2. f[j - 1] \in PassType
        BY <1>4, <4>1
      <4>3. f[j] = step[j][f[j - 1]]
        BY <1>4, <3>2
      <4> QED BY <3>2, <4>1, <4>2, <4>3
    <3> QED BY <3>1, <3>2
  <2>2. \A j \in 0..6 : f[j] = F(f)[j]
    BY <2>1
  <2> QED BY <1>4, <2>2
<1> DEFINE after == CHOOSE g : g = F(g)
<1>6. after = F(after)
  BY <1>5
<1>7. MarkdownToZaloStyles(K) = after[6]
  BY PassesAre DEF MarkdownToZaloStyles, base
<1> HIDE DEF after
<1> QED BY <1>6, <1>7 DEF base

(* The text is thinned, and styles of one kind cover what they are of.      *)
LEMMA MarkdownIsGood ==
  ASSUME NEW K \in Seq(Char), Increasing(K)
  PROVE  PassGood(K, 6, MarkdownToZaloStyles(K))
<1> DEFINE base == [doc |-> Without(K, Headings(K)), styles |-> <<>>]
           X == [j \in 0..6 |-> {acc \in PassType : PassGood(K, j, acc)}]
<1>1. PICK f : /\ f = [i \in 0..6 |-> IF i = 0 THEN base
                                      ELSE Styled(f[i - 1], Passes[i])]
               /\ MarkdownToZaloStyles(K) = f[6]
  BY MarkdownEquation
<1>2. PassGood(K, 0, base)
  BY NothingStyled
<1> HIDE DEF base
<1>3. f[0] \in X[0]
  <2>1. f[0] = base
    BY <1>1
  <2> QED BY <1>2, <2>1 DEF PassGood
<1>4. ASSUME NEW j \in 1..6, f[j - 1] \in X[j - 1]
      PROVE  f[j] \in X[j]
  <2>1. j \in 0..6 /\ j - 1 \in 0..6 /\ j # 0
    OBVIOUS
  <2>2. PassGood(K, j - 1, f[j - 1])
    BY <1>4, <2>1
  <2>3. f[j] = Styled(f[j - 1], Passes[j])
    BY <1>1, <2>1
  <2>4. PassGood(K, j, f[j])
    BY <2>2, <2>3, PassIsGood
  <2> QED BY <2>1, <2>4 DEF PassGood
<1>5. f[6] \in X[6]
  <2> HIDE DEF X
  <2>1. 6 \in Nat
    OBVIOUS
  <2>2. \A j \in 0..6 : f[j] \in X[j]
    BY <1>3, <1>4, <2>1, Values, Zenon
  <2> QED BY <2>2
<1> QED BY <1>1, <1>5

-----------------------------------------------------------------------------
IndexGood(index) == \A u \in DOMAIN index : index[u] \in Seq(Symbol)

LEMMA SymbolsOfPiece ==
  ASSUME NEW D \in Seq(Char), NEW e \in 0..Len(D), NEW n \in e..Len(D)
  PROVE  LET w == Symbols(SubSeq(D, e + 1, n)) IN
         /\ w \in Seq(Symbol) /\ Len(w) = n - e
         /\ \A y \in 1..(n - e) : w[y] = D[e + y].ch
<1> DEFINE X == SubSeq(D, e + 1, n)
           w == Symbols(X)
<1>1. X \in Seq(Char) /\ Len(X) = n - e /\ \A y \in 1..(n - e) : X[y] = D[e + y]
  BY Piece
<1> HIDE DEF X
<1>2. n - e \in Nat
  OBVIOUS
<1>3. DOMAIN X = 1..(n - e)
  BY <1>1, <1>2
<1>4. w = [y \in 1..(n - e) |-> X[y].ch]
  BY <1>3 DEF Symbols
<1>5. \A y \in 1..(n - e) : X[y].ch \in Symbol
  <2>1. \A y \in 1..(n - e) : X[y] \in Char
    BY <1>1, <1>3, ElementOfSeq
  <2> QED BY <2>1 DEF Char
<1>6. w \in Seq(Symbol) /\ Len(w) = n - e
  <2>1. w \in [1..(n - e) -> Symbol]
    BY <1>4, <1>5
  <2> HIDE DEF w
  <2> QED BY <1>2, <2>1, SeqDef, LenProperties
<1>7. \A y \in 1..(n - e) : w[y] = D[e + y].ch
  BY <1>1, <1>4
<1> QED BY <1>6, <1>7 DEF X

LEMMA LongestIs ==
  ASSUME NEW names, names # {}, NEW b \in Nat, \A n \in names : Len(n) \in 0..b
  PROVE  Longest(names) \in names
<1> DEFINE I == {Len(n) : n \in names}
<1>1. I \in SUBSET (0..b) /\ I # {}
  OBVIOUS
<1>2. PICK k \in I : \A i \in I : i <= k
  <2> HIDE DEF I
  <2> QED BY <1>1, GreatestNumber
<1>3. PICK n \in names : k = Len(n)
  BY <1>2
<1>4. \A m \in names : Len(m) <= Len(n)
  BY <1>2, <1>3
<1> QED BY <1>4 DEF Longest

(* A mention stands right after its @, or between brackets.                 *)
IsBare(D, i, m) ==
  /\ m.from = i + 1 /\ m.to = i + Len(m.name) /\ m.done = i + Len(m.name)
  /\ m.strips = {}

IsBracketed(D, i, m) ==
  /\ m.from = i + 2 /\ m.to = i + 1 + Len(m.name) /\ m.done = i + 2 + Len(m.name)
  /\ m.strips = {i + 1, m.done}
  /\ D[i + 1].ch = "[" /\ D[m.done].ch = "]"

MentionIn(D, i, index, m) ==
  /\ m.name \in Seq(Symbol) /\ Unique(index, m.name)
  /\ IsBare(D, i, m) \/ IsBracketed(D, i, m)
  /\ m.done <= Len(D)
  /\ \A y \in 1..Len(m.name) : D[(m.from - 1) + y].ch = m.name[y]

LEMMA BareNameIs ==
  ASSUME NEW D \in Seq(Char), NEW i \in 1..Len(D), NEW index, IndexGood(index),
         NEW n \in BareNames(D, i + 1, index)
  PROVE  /\ n \in Seq(Symbol) /\ Unique(index, n) /\ i + Len(n) <= Len(D)
         /\ \A y \in 1..Len(n) : D[i + y].ch = n[y]
<1>1. n \in Seq(Symbol) /\ Len(n) \in Nat
  BY DEF BareNames, Names, IndexGood
<1>2. /\ Unique(index, n) /\ (i + 1) + Len(n) - 1 <= Len(D)
      /\ Symbols(SubSeq(D, i + 1, (i + 1) + Len(n) - 1)) = n
  BY DEF BareNames
<1>3. PICK e \in Nat : e = (i + 1) + Len(n) - 1 /\ e = i + Len(n)
  BY <1>1
<1>4. i \in 0..Len(D) /\ e \in i..Len(D) /\ e - i = Len(n) /\ i + Len(n) <= Len(D)
  BY <1>1, <1>2, <1>3
<1>5. \A y \in 1..(e - i) : Symbols(SubSeq(D, i + 1, e))[y] = D[i + y].ch
  BY <1>4, SymbolsOfPiece
<1> QED BY <1>1, <1>2, <1>3, <1>4, <1>5

LEMMA MentionIs ==
  ASSUME NEW D \in Seq(Char), NEW i \in 1..Len(D), NEW index, IndexGood(index),
         MentionAt(D, i, index) # NoMention
  PROVE  MentionIn(D, i, index, MentionAt(D, i, index))
<1> DEFINE close == {j \in i + 2 .. Len(D) : D[j].ch = "]"}
           end   == CHOOSE j \in close : \A k \in close : j <= k
           inner == Symbols(SubSeq(D, i + 2, end - 1))
           bare  == BareNames(D, i + 1, index)
           name  == Longest(bare)
           m     == MentionAt(D, i, index)
           bracketed == [name |-> inner, from |-> i + 2, to |-> end - 1,
                         strips |-> {i + 1, end}, done |-> end]
           plain == [name |-> name, from |-> i + 1, to |-> i + Len(name),
                     strips |-> {}, done |-> i + Len(name)]
<1>1. \/ /\ m = bracketed /\ i < Len(D) /\ D[i + 1].ch = "[" /\ close # {}
         /\ Unique(index, inner)
      \/ m = plain /\ bare # {}
  BY DEF MentionAt
<1> HIDE DEF m, bare
<1>2. Len(D) \in Nat /\ i \in Nat /\ i <= Len(D)
  OBVIOUS
<1>3. CASE /\ m = bracketed /\ D[i + 1].ch = "[" /\ close # {} /\ Unique(index, inner)
  <2>1. close \in SUBSET Nat
    BY <1>2
  <2>2. end \in close
    <3> HIDE DEF close
    <3>1. \E j \in close : \A k \in close : j <= k
      BY <1>3, <2>1, LeastNumber
    <3> QED BY <3>1
  <2>3. end \in Nat /\ i + 2 <= end /\ end <= Len(D) /\ D[end].ch = "]"
    BY <1>2, <2>2
  <2> HIDE DEF end, close
  <2>4. PICK e \in Nat, n \in Nat : e = i + 1 /\ n = end - 1
    BY <1>2, <2>3
  <2>5. e \in 0..Len(D) /\ n \in e..Len(D) /\ e + 1 = i + 2
    BY <1>2, <2>3, <2>4
  <2>6. /\ inner \in Seq(Symbol) /\ Len(inner) = n - e
        /\ \A y \in 1..(n - e) : inner[y] = D[e + y].ch
    <3>1. LET w == Symbols(SubSeq(D, e + 1, n)) IN
          /\ w \in Seq(Symbol) /\ Len(w) = n - e
          /\ \A y \in 1..(n - e) : w[y] = D[e + y].ch
      BY ONLY <2>5, D \in Seq(Char), SymbolsOfPiece
    <3> QED BY <2>4, <2>5, <3>1
  <2> HIDE DEF inner
  <2>7. /\ m.name = inner /\ m.from = i + 2 /\ m.to = end - 1 /\ m.done = end
        /\ m.strips = {i + 1, end}
    BY <1>3
  <2>8. Len(inner) = end - (i + 2)
    BY <1>2, <2>3, <2>4, <2>6
  <2>9. end - 1 = i + 1 + Len(inner) /\ end = i + 2 + Len(inner) /\ (i + 2) - 1 = e
    BY <1>2, <2>3, <2>4, <2>8
  <2>10. IsBracketed(D, i, m)
    BY <1>3, <2>3, <2>7, <2>9 DEF IsBracketed
  <2>11. \A y \in 1..Len(m.name) : D[(m.from - 1) + y].ch = m.name[y]
    BY <2>6, <2>7, <2>9
  <2>12. MentionIn(D, i, index, m)
    BY <1>3, <2>3, <2>6, <2>7, <2>10, <2>11 DEF MentionIn
  <2> QED BY <2>12 DEF m
<1>4. CASE m = plain /\ bare # {}
  <2>1. \A n \in bare : Len(n) \in 0..Len(D)
    <3>1. \A n \in bare : n \in Seq(Symbol) /\ i + Len(n) <= Len(D)
      BY BareNameIs DEF bare
    <3>2. \A n \in Seq(Symbol) : Len(n) \in Nat
      OBVIOUS
    <3> QED BY <1>2, <3>1, <3>2
  <2>2. name \in bare
    BY <1>2, <1>4, <2>1, LongestIs
  <2> HIDE DEF name
  <2>3. /\ name \in Seq(Symbol) /\ Unique(index, name) /\ i + Len(name) <= Len(D)
        /\ \A y \in 1..Len(name) : D[i + y].ch = name[y]
    BY <2>2, BareNameIs DEF bare
  <2>4. /\ m.name = name /\ m.from = i + 1 /\ m.to = i + Len(name)
        /\ m.done = i + Len(name) /\ m.strips = {} /\ (i + 1) - 1 = i
    BY <1>2, <1>4
  <2>5. IsBare(D, i, m)
    BY <2>4 DEF IsBare
  <2>6. MentionIn(D, i, index, m)
    BY <2>3, <2>4, <2>5 DEF MentionIn
  <2> QED BY <2>6 DEF m
<1> QED BY <1>1, <1>3, <1>4

-----------------------------------------------------------------------------
(* A mention in the text R: an @ and the name of the one member who bears it.*)
MentionSet(index) == [pos : Nat, len : Nat, uid : DOMAIN index]

MentionGood(m, R, index) ==
  LET name == index[m.uid] IN
  /\ m.pos + m.len <= Len(R) /\ m.len = 1 + Len(name)
  /\ R[m.pos + 1].ch = "@"
  /\ \A y \in 1..Len(name) : R[m.pos + 1 + y].ch = name[y]
  /\ Unique(index, name)

LEMMA MentionStays ==
  ASSUME NEW index, IndexGood(index), NEW m \in MentionSet(index),
         NEW R \in Seq(Char), MentionGood(m, R, index), NEW T \in Seq(Char),
         Len(R) <= Len(T), \A x \in 1..Len(R) : T[x] = R[x]
  PROVE  MentionGood(m, T, index)
<1> DEFINE name == index[m.uid]
<1>1. m.pos \in Nat /\ m.len \in Nat /\ name \in Seq(Symbol)
  BY DEF MentionSet, IndexGood
<1>2. /\ m.pos + m.len <= Len(R) /\ m.len = 1 + Len(name)
      /\ R[m.pos + 1].ch = "@"
      /\ \A y \in 1..Len(name) : R[m.pos + 1 + y].ch = name[y]
      /\ Unique(index, name)
  BY DEF MentionGood
<1> HIDE DEF name
<1>3. Len(name) \in Nat /\ Len(R) \in Nat /\ Len(T) \in Nat
  BY <1>1
<1>4. m.pos + 1 \in 1..Len(R) /\ \A y \in 1..Len(name) : m.pos + 1 + y \in 1..Len(R)
  <2>1. PICK p \in Nat, l \in Nat, r \in Nat : p = m.pos /\ l = Len(name) /\ r = Len(R)
    BY <1>1, <1>3
  <2>2. p + (1 + l) <= r
    BY <1>2, <2>1
  <2>3. p + 1 \in 1..r /\ \A y \in 1..l : p + 1 + y \in 1..r
    BY <2>2
  <2> QED BY <2>1, <2>3
<1>5. m.pos + m.len <= Len(T)
  BY <1>1, <1>2, <1>3
<1>6. T[m.pos + 1].ch = "@"
  BY <1>2, <1>4
<1>7. \A y \in 1..Len(name) : T[m.pos + 1 + y].ch = name[y]
  BY <1>2, <1>4
<1> QED BY <1>2, <1>5, <1>6, <1>7 DEF MentionGood, name

(* The text of a mention is kept, less its brackets.                        *)
LEMMA MentionText ==
  ASSUME NEW D \in Seq(Char), Increasing(D), NEW i \in 1..Len(D),
         NEW G, NEW R, Left(D, i - 1, G, R), NEW index, NEW m, MentionIn(D, i, index, m)
  PROVE  LET T == Append(R, D[i]) \o SubSeq(D, m.from, m.to) IN
         /\ Left(D, m.done, G \cup m.strips, T)
         /\ T \in Seq(Char) /\ Len(T) = Len(R) + 1 + Len(m.name)
         /\ \A x \in 1..Len(R) : T[x] = R[x]
         /\ T[Len(R) + 1] = D[i]
         /\ \A y \in 1..Len(m.name) : T[Len(R) + 1 + y].ch = m.name[y]
         /\ m.done \in i..Len(D)
<1> DEFINE A == Append(R, D[i])
           T == A \o SubSeq(D, m.from, m.to)
<1>1. PICK n \in Nat, L \in Nat, c \in Nat :
        n = Len(D) /\ L = Len(m.name) /\ c = Len(R)
  <2>1. m.name \in Seq(Symbol)
    BY DEF MentionIn
  <2>2. i - 1 \in Nat
    OBVIOUS
  <2>3. Len(R) \in Nat
    BY <2>2, LeftNumbers
  <2> QED BY <2>1, <2>3
<1>2. /\ i \in Nat /\ i <= n /\ i - 1 \in 0..n /\ i - 1 < n /\ (i - 1) + 1 = i
      /\ i \in 0..n /\ i - 1 \in Nat
  BY <1>1
<1>3. R \in Seq(Char) /\ D[i] \in Char
  <2>1. R \in Seq(Char)
    BY <1>2, LeftNumbers
  <2> QED BY <2>1, ElementOfSeq
<1>4. A \in Seq(Char) /\ Len(A) = c + 1 /\ A[c + 1] = D[i]
      /\ \A x \in 1..c : A[x] = R[x]
  BY <1>1, <1>3, AppendProperties
<1>5. Left(D, i, G, A)
  <2>1. Left(D, (i - 1) + 1, G, Append(R, D[(i - 1) + 1]))
    BY <1>1, <1>2, LeftKeepOne
  <2> QED BY <1>2, <2>1
<1> HIDE DEF A
(* The name stands behind place e, and ends with place d.                   *)
<1> DEFINE Stands(e, d, H) ==
             /\ Left(D, e, H, A) /\ d - e = L
             /\ m.from = e + 1 /\ m.to = d /\ i <= e
             /\ \/ m.strips = {} /\ H = G /\ m.done = d
                \/ /\ m.strips = {e, d + 1} /\ H = G \cup {e} /\ m.done = d + 1
                   /\ D[d + 1].ch = "]" /\ d < n
<1>14. \E e \in 0..n : \E d \in e..n : \E H : Stands(e, d, H)
  <2>1. m.done <= n /\ (IsBare(D, i, m) \/ IsBracketed(D, i, m))
    BY <1>1 DEF MentionIn
  <2>2. CASE IsBare(D, i, m)
    <3>1. m.from = i + 1 /\ m.to = i + L /\ m.done = i + L /\ m.strips = {}
      BY <1>1, <2>2 DEF IsBare
    <3>2. i \in 0..n /\ i + L \in i..n /\ (i + L) - i = L
      BY <1>1, <1>2, <2>1, <3>1
    <3> QED BY <1>5, <3>1, <3>2
  <2>3. CASE IsBracketed(D, i, m)
    <3>1. /\ m.from = i + 2 /\ m.to = i + 1 + L /\ m.done = i + 2 + L
          /\ m.strips = {i + 1, m.done}
          /\ D[i + 1].ch = "[" /\ D[m.done].ch = "]"
      BY <1>1, <2>3 DEF IsBracketed
    <3>2. /\ i + 1 \in 0..n /\ i + 1 + L \in (i + 1)..n /\ (i + 1 + L) - (i + 1) = L
          /\ i + 2 = (i + 1) + 1 /\ m.done = (i + 1 + L) + 1 /\ i + 1 + L < n
          /\ i < n /\ i <= i + 1
      <4>1. n \in Nat /\ L \in Nat /\ i \in Nat /\ i + 2 + L <= n
        BY <1>1, <1>2, <2>1, <3>1
      <4>2. m.done = (i + 1 + L) + 1
        BY <3>1, <4>1
      <4> QED BY ONLY <4>1, <4>2
    <3>3. Left(D, i + 1, G \cup {i + 1}, A)
      <4>1. D[i + 1].ch \in Droppable
        BY <3>1 DEF Droppable
      <4> QED BY <1>1, <1>2, <1>5, <3>2, <4>1, LeftDrop
    <3>4. m.strips = {i + 1, (i + 1 + L) + 1} /\ D[(i + 1 + L) + 1].ch = "]"
      BY <3>1, <3>2
    <3> QED BY <3>1, <3>2, <3>3, <3>4
  <2> QED BY <2>1, <2>2, <2>3
<1>15. PICK e \in 0..n : \E d \in e..n : \E H : Stands(e, d, H)
  BY <1>14
<1>16. PICK d \in e..n : \E H : Stands(e, d, H)
  BY <1>15
<1>6. PICK H : Stands(e, d, H)
  BY <1>16
<1>7. Left(D, d, H, T)
  <2>1. Left(D, d, H, A \o SubSeq(D, e + 1, d))
    BY <1>1, <1>6, LeftKeep
  <2> QED BY <1>6, <2>1
<1>8. /\ T \in Seq(Char) /\ Len(T) = (c + 1) + L
      /\ \A x \in 1..(c + 1) : T[x] = A[x]
      /\ \A y \in 1..L : T[(c + 1) + y] = D[e + y]
  <2>1. e \in 0..Len(D) /\ d \in e..Len(D)
    BY <1>1
  <2>2. Behind(Char, A, D, e, d, A \o SubSeq(D, e + 1, d))
    <3>1. A \in Seq(Char)
      BY <1>4
    <3> HIDE DEF T, Stands
    <3> QED BY <2>1, <3>1, Joined
  <2>3. Behind(Char, A, D, e, d, T)
    BY <1>6, <2>2
  <2> HIDE DEF T
  <2>4. d - e = L /\ Len(A) = c + 1
    BY <1>4, <1>6
  <2> QED BY <2>3, <2>4 DEF Behind
<1> HIDE DEF T
<1>9. Left(D, m.done, G \cup m.strips, T)
  <2>1. CASE m.strips = {} /\ H = G /\ m.done = d
    BY <1>7, <2>1
  <2>2. CASE /\ m.strips = {e, d + 1} /\ H = G \cup {e} /\ m.done = d + 1
             /\ D[d + 1].ch = "]" /\ d < n
    <3>1. D[d + 1].ch \in Droppable
      BY <2>2 DEF Droppable
    <3>2. d \in 0..Len(D) /\ d < Len(D)
      BY <1>1, <1>6, <2>2
    <3>3. Left(D, d + 1, H \cup {d + 1}, T)
      BY <1>7, <3>1, <3>2, LeftDrop
    <3>4. H \cup {d + 1} = G \cup m.strips
      BY <2>2
    <3> QED BY <2>2, <3>3, <3>4
  <2> QED BY <1>6, <2>1, <2>2
<1>10. \A x \in 1..c : T[x] = R[x]
  <2>1. \A x \in 1..c : x \in 1..(c + 1)
    OBVIOUS
  <2> QED BY <1>4, <1>8, <2>1
<1>11. T[c + 1] = D[i]
  <2>1. c + 1 \in 1..(c + 1)
    OBVIOUS
  <2> QED BY <1>4, <1>8, <2>1
<1>12. \A y \in 1..L : T[(c + 1) + y].ch = m.name[y]
  <2>1. (m.from - 1) = e
    BY <1>6
  <2>2. \A y \in 1..L : D[e + y].ch = m.name[y]
    BY <1>1, <2>1 DEF MentionIn
  <2> QED BY <1>8, <2>2
<1>13. m.done \in i..Len(D)
  BY <1>1, <1>2, <1>6
<1> QED BY <1>1, <1>8, <1>9, <1>10, <1>11, <1>12, <1>13 DEF T, A

-----------------------------------------------------------------------------
(* The scan for mentions is at place i of the text D: what it has read,     *)
(* less the brackets it dropped, is what it wrote, and its mentions stand   *)
(* there one behind the other.                                              *)
ParseType(index) ==
  [out : Seq(Char), mentions : Seq(MentionSet(index)), strips : SUBSET Nat, done : Nat]

Reached(acc, i) == IF acc.done > i THEN acc.done ELSE i

InOrder(ms) == \A x \in 2..Len(ms) : ms[x].pos >= ms[x - 1].pos + ms[x - 1].len

ParseGood(D, index, i, acc) ==
  /\ acc \in ParseType(index)
  /\ acc.done <= Len(D)
  /\ Left(D, Reached(acc, i), acc.strips, acc.out)
  /\ \A x \in 1..Len(acc.mentions) : MentionGood(acc.mentions[x], acc.out, index)
  /\ InOrder(acc.mentions)

LEMMA MentionAdded ==
  ASSUME NEW index, IndexGood(index), NEW ms \in Seq(MentionSet(index)), InOrder(ms),
         NEW R \in Seq(Char), \A x \in 1..Len(ms) : MentionGood(ms[x], R, index),
         NEW T \in Seq(Char), Len(R) <= Len(T), \A x \in 1..Len(R) : T[x] = R[x],
         NEW m \in MentionSet(index), MentionGood(m, T, index), m.pos = Len(R)
  PROVE  LET new == Append(ms, m) IN
         /\ new \in Seq(MentionSet(index)) /\ InOrder(new)
         /\ \A x \in 1..Len(new) : MentionGood(new[x], T, index)
<1> DEFINE new == Append(ms, m)
<1>1. PICK n \in Nat : n = Len(ms)
  OBVIOUS
<1>2. /\ new \in Seq(MentionSet(index)) /\ Len(new) = n + 1 /\ new[n + 1] = m
      /\ \A x \in 1..n : new[x] = ms[x]
  BY <1>1, AppendProperties
<1> HIDE DEF new
<1>3. ASSUME NEW x \in 1..(n + 1)
      PROVE  MentionGood(new[x], T, index)
  <2>1. CASE x = n + 1
    BY <1>2, <2>1
  <2>2. CASE x \in 1..n
    <3>1. ms[x] \in MentionSet(index) /\ MentionGood(ms[x], R, index)
      BY <1>1, <2>2, ElementOfSeq
    <3>2. MentionGood(ms[x], T, index)
      BY <3>1, MentionStays
    <3> QED BY <1>2, <2>2, <3>2
  <2> QED BY <2>1, <2>2
<1>4. ASSUME NEW x \in 2..(n + 1)
      PROVE  new[x].pos >= new[x - 1].pos + new[x - 1].len
  <2>1. CASE x = n + 1
    <3>1. x - 1 \in 1..n
      BY <2>1
    <3>2. MentionGood(ms[x - 1], R, index)
      BY <1>1, <3>1
    <3>3. ms[x - 1].pos + ms[x - 1].len <= Len(R)
      BY <3>2 DEF MentionGood
    <3>4. ms[x - 1] \in MentionSet(index)
      BY <1>1, <3>1, ElementOfSeq
    <3>5. ms[x - 1].pos \in Nat /\ ms[x - 1].len \in Nat /\ Len(R) \in Nat
      BY <3>4 DEF MentionSet
    <3>6. new[x] = m /\ new[x - 1] = ms[x - 1]
      BY <1>2, <2>1, <3>1
    <3> QED BY <3>3, <3>5, <3>6
  <2>2. CASE x # n + 1
    <3>1. x \in 2..n /\ x \in 1..n /\ x - 1 \in 1..n
      BY <2>2
    <3>2. ms[x].pos >= ms[x - 1].pos + ms[x - 1].len
      BY <1>1, <3>1 DEF InOrder
    <3> QED BY <1>2, <3>1, <3>2
  <2> QED BY <2>1, <2>2
<1>5. /\ new \in Seq(MentionSet(index)) /\ InOrder(new)
      /\ \A x \in 1..Len(new) : MentionGood(new[x], T, index)
  BY <1>2, <1>3, <1>4 DEF InOrder
<1> QED BY <1>5 DEF new

LEMMA MentionedIsGood ==
  ASSUME NEW D \in Seq(Char), Increasing(D), NEW index, IndexGood(index),
         NEW i \in 1..Len(D), NEW acc, ParseGood(D, index, i - 1, acc)
  PROVE  ParseGood(D, index, i, Mentioned(acc, i, D, index))
<1> DEFINE m == MentionAt(D, i, index)
           R == acc.out
           new == Mentioned(acc, i, D, index)
<1>1. PICK n \in Nat : n = Len(D)
  OBVIOUS
<1>2. /\ acc \in ParseType(index) /\ R \in Seq(Char) /\ acc.strips \in SUBSET Nat
      /\ acc.mentions \in Seq(MentionSet(index)) /\ acc.done \in Nat /\ acc.done <= n
      /\ Left(D, Reached(acc, i - 1), acc.strips, R)
      /\ \A x \in 1..Len(acc.mentions) : MentionGood(acc.mentions[x], R, index)
      /\ InOrder(acc.mentions)
  BY <1>1 DEF ParseGood, ParseType
<1>3. i \in Nat /\ i <= n /\ i - 1 \in 0..n /\ i - 1 < n /\ (i - 1) + 1 = i /\ i - 1 \in Nat
  BY <1>1
<1>4. CASE i <= acc.done
  <2>1. new = acc
    BY <1>4 DEF Mentioned
  <2>2. Reached(acc, i) = Reached(acc, i - 1)
    BY <1>2, <1>3, <1>4 DEF Reached
  <2> QED BY <1>1, <1>2, <2>1, <2>2 DEF ParseGood
<1>5. CASE ~(i <= acc.done) /\ (D[i].ch # "@" \/ m = NoMention)
  <2>1. new = [acc EXCEPT !.out = Append(R, D[i])]
    BY <1>5 DEF Mentioned
  <2>2. Reached(acc, i - 1) = i - 1 /\ acc.done <= i /\ ~(acc.done > i)
    BY <1>2, <1>3, <1>5 DEF Reached
  <2>3. Left(D, (i - 1) + 1, acc.strips, Append(R, D[(i - 1) + 1]))
    BY <1>1, <1>2, <1>3, <2>2, LeftKeepOne
  <2> DEFINE T == Append(R, D[i])
  <2>4. Left(D, i, acc.strips, T)
    BY <1>3, <2>3
  <2>5. /\ T \in Seq(Char) /\ Len(R) <= Len(T)
        /\ \A x \in 1..Len(R) : T[x] = R[x]
    <3>1. D[i] \in Char
      BY ElementOfSeq
    <3>2. /\ T \in Seq(Char) /\ Len(T) = Len(R) + 1
          /\ \A x \in 1..Len(R) : T[x] = R[x]
      BY <1>2, <3>1, AppendProperties
    <3>3. Len(R) \in Nat
      BY <1>2
    <3> HIDE DEF T, R
    <3> QED BY <3>2, <3>3
  <2> HIDE DEF T
  <2>6. /\ new.out = T /\ new.mentions = acc.mentions /\ new.strips = acc.strips
        /\ new.done = acc.done /\ new \in ParseType(index)
    BY <1>2, <2>1, <2>5 DEF ParseType, T
  <2> HIDE DEF new, R
  <2>7. Reached(new, i) = i
    BY <2>2, <2>6 DEF Reached
  <2>8. ASSUME NEW x \in 1..Len(acc.mentions)
        PROVE  MentionGood(acc.mentions[x], T, index)
    <3>1. acc.mentions[x] \in MentionSet(index)
      BY <1>2, ElementOfSeq
    <3>2. MentionGood(acc.mentions[x], R, index)
      BY <1>2
    <3> QED BY <1>2, <2>5, <3>1, <3>2, MentionStays
  <2>9. new.done <= Len(D)
    BY <1>1, <1>2, <2>6
  <2>10. ParseGood(D, index, i, new)
    BY <1>2, <2>4, <2>6, <2>7, <2>8, <2>9 DEF ParseGood
  <2> QED BY <2>10 DEF new
<1>6. CASE ~(i <= acc.done) /\ D[i].ch = "@" /\ m # NoMention
  <2> DEFINE T == Append(R, D[i]) \o SubSeq(D, m.from, m.to)
             u == CHOOSE v \in Bearers(index, m.name) : TRUE
             men == [pos |-> Len(R), len |-> 1 + Len(m.name), uid |-> u]
  <2>1. new = [out |-> T, mentions |-> Append(acc.mentions, men),
               strips |-> acc.strips \cup m.strips, done |-> m.done]
    BY <1>6 DEF Mentioned
  <2>2. Reached(acc, i - 1) = i - 1
    BY <1>2, <1>3, <1>6 DEF Reached
  <2>3. MentionIn(D, i, index, m)
    BY <1>6, MentionIs
  <2> HIDE DEF m, new, R
  <2>4. /\ Left(D, m.done, acc.strips \cup m.strips, T)
        /\ T \in Seq(Char) /\ Len(T) = Len(R) + 1 + Len(m.name)
        /\ \A x \in 1..Len(R) : T[x] = R[x]
        /\ T[Len(R) + 1] = D[i]
        /\ \A y \in 1..Len(m.name) : T[Len(R) + 1 + y].ch = m.name[y]
        /\ m.done \in i..Len(D)
    <3>1. Left(D, i - 1, acc.strips, R)
      BY <1>2, <2>2
    <3> QED BY <2>3, <3>1, MentionText
  <2>5. m.name \in Seq(Symbol) /\ Unique(index, m.name)
    BY <2>3 DEF MentionIn
  <2>6. Len(R) \in Nat /\ Len(m.name) \in Nat
    BY <1>2, <2>5
  <2>18. PICK r \in Nat, l \in Nat : r = Len(R) /\ l = Len(m.name)
    BY <2>6
  <2>22. T \in Seq(Char)
    BY <2>4
  <2>20. PICK k \in Nat : k = Len(T)
    BY <2>22
  <2>19. k = r + 1 + l
    BY <2>4, <2>18, <2>20
  <2>21. r <= k /\ r + (1 + l) <= k
    BY <2>19
  <2>7. u \in DOMAIN index /\ index[u] = m.name
    <3>1. Bearers(index, m.name) # {}
      BY <2>5 DEF Unique
    <3>2. u \in Bearers(index, m.name)
      BY <3>1
    <3> QED BY <3>2 DEF Bearers
  <2> HIDE DEF T, u
  <2>8. /\ men \in MentionSet(index) /\ men.pos = Len(R) /\ men.uid = u
        /\ men.len = 1 + Len(m.name)
    BY <2>6, <2>7 DEF MentionSet
  <2> HIDE DEF men
  <2>9. MentionGood(men, T, index)
    <3>1. men.pos + men.len <= Len(T)
      BY <2>8, <2>18, <2>20, <2>21
    <3>2. T[men.pos + 1].ch = "@"
      BY <1>6, <2>4, <2>8
    <3>3. \A y \in 1..Len(m.name) : T[men.pos + 1 + y].ch = m.name[y]
      BY <2>4, <2>8
    <3> QED BY <2>5, <2>7, <2>8, <3>1, <3>2, <3>3 DEF MentionGood
  <2> DEFINE ms == Append(acc.mentions, men)
  <2>10. Len(R) <= Len(T)
    BY <2>18, <2>20, <2>21
  <2>11. /\ ms \in Seq(MentionSet(index)) /\ InOrder(ms)
         /\ \A x \in 1..Len(ms) : MentionGood(ms[x], T, index)
    <3> HIDE DEF ms
    <3>1. LET add == Append(acc.mentions, men) IN
          /\ add \in Seq(MentionSet(index)) /\ InOrder(add)
          /\ \A x \in 1..Len(add) : MentionGood(add[x], T, index)
      BY <1>2, <2>4, <2>8, <2>9, <2>10, MentionAdded
    <3> QED BY <3>1 DEF ms
  <2> HIDE DEF ms
  <2>12. new.out = T /\ new.mentions = ms /\ new.strips = acc.strips \cup m.strips
         /\ new.done = m.done
    BY <2>1 DEF ms
  <2>13. m.done \in Nat /\ m.done <= Len(D) /\ i <= m.done
    BY <1>3, <2>4
  <2>14. acc.strips \cup m.strips \in SUBSET Nat
    <3>1. acc.strips \cup m.strips \subseteq 1..m.done
      BY <2>4 DEF Left
    <3> QED BY <2>13, <3>1
  <2>15. new \in ParseType(index)
    BY <2>1, <2>4, <2>11, <2>13, <2>14 DEF ParseType, ms
  <2>16. Reached(new, i) = m.done
    BY <1>3, <2>12, <2>13 DEF Reached
  <2>17. ParseGood(D, index, i, new)
    BY <2>4, <2>11, <2>12, <2>13, <2>15, <2>16 DEF ParseGood
  <2> QED BY <2>17 DEF new
<1> QED BY <1>4, <1>5, <1>6

LEMMA ParseStart ==
  ASSUME NEW D \in Seq(Char), NEW index
  PROVE  ParseGood(D, index, 0, [out |-> <<>>, mentions |-> <<>>, strips |-> {}, done |-> 0])
<1> DEFINE m == [out |-> <<>>, mentions |-> <<>>, strips |-> {}, done |-> 0]
<1>1. /\ m \in ParseType(index) /\ m.out = <<>> /\ m.mentions = <<>> /\ m.strips = {}
      /\ m.done = 0
  BY DEF ParseType
<1>2. Left(D, 0, {}, <<>>)
  BY LeftStart
<1> HIDE DEF m
<1>3. Reached(m, 0) = 0 /\ m.done <= Len(D)
  BY <1>1 DEF Reached
<1>4. ParseGood(D, index, 0, m)
  BY <1>1, <1>2, <1>3 DEF ParseGood, InOrder
<1> QED BY <1>4 DEF m

LEMMA ParseEquation ==
  ASSUME NEW D \in Seq(Char), Increasing(D), NEW index, IndexGood(index)
  PROVE  \E f : /\ f = [i \in 0..Len(D) |->
                          IF i = 0 THEN [out |-> <<>>, mentions |-> <<>>,
                                         strips |-> {}, done |-> 0]
                          ELSE Mentioned(f[i - 1], i, D, index)]
                /\ ParseOutboundMentions(D, index) = f[Len(D)]
<1> DEFINE n == Len(D)
           base == [out |-> <<>>, mentions |-> <<>>, strips |-> {}, done |-> 0]
           X == [j \in 0..n |-> {acc \in ParseType(index) : ParseGood(D, index, j, acc)}]
           step == [j \in 1..n |-> [acc \in ParseType(index) |-> Mentioned(acc, j, D, index)]]
           F(f) == [i \in 0..n |-> IF i = 0 THEN base ELSE Mentioned(f[i - 1], i, D, index)]
<1>1. n \in Nat /\ base \in X[0] /\ DOMAIN step = 1..n /\ DOMAIN X = 0..n
  <2>1. ParseGood(D, index, 0, base)
    BY ParseStart
  <2>2. 0 \in 0..n /\ n \in Nat
    OBVIOUS
  <2> HIDE DEF base
  <2>3. base \in ParseType(index)
    BY <2>1 DEF ParseGood
  <2> QED BY <2>1, <2>2, <2>3
<1>2. ASSUME NEW j \in 1..n, NEW acc \in X[j - 1]
      PROVE  step[j][acc] \in X[j]
  <2>1. j \in 0..n /\ j - 1 \in 0..n
    BY <1>1
  <2>2. acc \in ParseType(index) /\ ParseGood(D, index, j - 1, acc)
    BY <2>1
  <2>3. ParseGood(D, index, j, Mentioned(acc, j, D, index))
    BY <2>2, MentionedIsGood
  <2>4. step[j][acc] = Mentioned(acc, j, D, index)
    BY <2>2
  <2>5. Mentioned(acc, j, D, index) \in ParseType(index)
    BY <2>3 DEF ParseGood
  <2> QED BY <2>1, <2>3, <2>4, <2>5
<1>3. PICK f : /\ f = [j \in 0..n |-> f[j]]
               /\ \A j \in 0..n : f[j] = IF j = 0 THEN base ELSE step[j][f[j - 1]]
               /\ \A j \in 0..n : f[j] \in X[j]
  <2> HIDE DEF X, step, n, base
  <2>1. Steps(n, X, base, step)
    BY <1>1, <1>2 DEF Steps
  <2>2. \E f : Runs(f, n, X, base, step)
    BY <2>1, Recursion
  <2> QED BY <2>2 DEF Runs
<1>4. f = F(f)
  <2>1. \A j \in 0..n : f[j] = IF j = 0 THEN base ELSE step[j][f[j - 1]]
    BY <1>3, Zenon
  <2>2. ASSUME NEW j \in 0..n, j # 0
        PROVE  step[j][f[j - 1]] = Mentioned(f[j - 1], j, D, index)
    <3>1. j - 1 \in 0..n /\ j \in 1..n
      BY <1>1, <2>2
    <3>2. f[j - 1] \in ParseType(index)
      BY <1>3, <3>1
    <3> QED BY <3>1, <3>2
  <2> HIDE DEF base
  <2>3. \A j \in 0..n : f[j] = F(f)[j]
    BY <2>1, <2>2
  <2>4. DOMAIN f = 0..n /\ f = [j \in 0..n |-> f[j]]
    BY <1>3
  <2> QED BY <2>3, <2>4
<1> DEFINE parsed == CHOOSE g : g = F(g)
<1>5. parsed = F(parsed)
  BY <1>4
<1>6. ParseOutboundMentions(D, index) = parsed[n]
  BY DEF ParseOutboundMentions
<1> QED BY <1>5, <1>6

LEMMA ParseIsGood ==
  ASSUME NEW D \in Seq(Char), Increasing(D), NEW index, IndexGood(index)
  PROVE  LET p == ParseOutboundMentions(D, index) IN
         /\ p \in ParseType(index)
         /\ Left(D, Len(D), p.strips, p.out)
         /\ \A x \in 1..Len(p.mentions) : MentionGood(p.mentions[x], p.out, index)
         /\ InOrder(p.mentions)
<1> DEFINE n == Len(D)
           base == [out |-> <<>>, mentions |-> <<>>, strips |-> {}, done |-> 0]
           X == [j \in 0..n |-> {acc \in ParseType(index) : ParseGood(D, index, j, acc)}]
<1>1. PICK f : /\ f = [i \in 0..n |-> IF i = 0 THEN base
                                      ELSE Mentioned(f[i - 1], i, D, index)]
               /\ ParseOutboundMentions(D, index) = f[n]
  BY ParseEquation
<1>2. n \in Nat
  OBVIOUS
<1>3. f[0] \in X[0]
  <2>1. f[0] = base
    BY <1>1, <1>2
  <2>2. ParseGood(D, index, 0, base)
    BY ParseStart
  <2> HIDE DEF base
  <2>3. base \in ParseType(index)
    BY <2>2 DEF ParseGood
  <2> QED BY <1>2, <2>1, <2>2, <2>3
<1>4. ASSUME NEW j \in 1..n, f[j - 1] \in X[j - 1]
      PROVE  f[j] \in X[j]
  <2>1. j \in 0..n /\ j - 1 \in 0..n /\ j # 0
    BY <1>2
  <2>2. ParseGood(D, index, j - 1, f[j - 1])
    BY <1>4, <2>1
  <2>3. f[j] = Mentioned(f[j - 1], j, D, index)
    BY <1>1, <2>1
  <2>4. ParseGood(D, index, j, f[j])
    BY <2>2, <2>3, MentionedIsGood
  <2> QED BY <2>1, <2>4 DEF ParseGood
<1>5. ParseGood(D, index, n, f[n])
  <2> HIDE DEF X, n
  <2>1. \A j \in 0..n : f[j] \in X[j]
    BY <1>2, <1>3, <1>4, Values, Zenon
  <2>2. f[n] \in X[n]
    BY <1>2, <2>1
  <2> QED BY <1>2, <2>2 DEF X
<1>6. Reached(f[n], n) = n
  <2>1. f[n].done \in Nat /\ f[n].done <= n
    BY <1>5 DEF ParseGood, ParseType
  <2> QED BY <1>2, <2>1 DEF Reached
<1>7. Left(D, Len(D), f[n].strips, f[n].out)
  BY <1>5, <1>6 DEF ParseGood
<1> QED BY <1>1, <1>5, <1>7 DEF ParseGood

-----------------------------------------------------------------------------
(* The written text carries its places.                                     *)
LEMMA KeptIs ==
  ASSUME NEW text \in Seq(Symbol)
  PROVE  LET K == Kept(text) IN
         /\ K \in Seq(Char) /\ Increasing(K)
         /\ \A i \in 1..Len(K) : K[i].at = i
<1> DEFINE red == Redact(text)
           cut == Truncate(red)
           K == Placed(cut)
<1>1. Redacted \in Symbol /\ CutOff \in Symbol
  BY MarkersAreSymbols
<1>2. red \in Seq(Symbol)
  <2>1. DOMAIN text = 1..Len(text) /\ Len(text) \in Nat
    OBVIOUS
  <2>2. red = [i \in 1..Len(text) |-> IF text[i] = Secret THEN Redacted ELSE text[i]]
    BY <2>1 DEF Redact
  <2>3. \A i \in 1..Len(text) : (IF text[i] = Secret THEN Redacted ELSE text[i]) \in Symbol
    BY <1>1
  <2> HIDE DEF red
  <2> QED BY <2>1, <2>2, <2>3
<1> HIDE DEF red
<1>3. cut \in Seq(Symbol)
  <2>1. CASE ~(Len(red) > MaxText)
    BY <1>2, <2>1 DEF Truncate
  <2>2. CASE Len(red) > MaxText
    <3>1. PICK n \in Nat : n = MaxText - 1
      BY TextsHaveALimit
    <3>2. 0 \in 0..Len(red) /\ n \in 0..Len(red) /\ 0 + 1 = 1
      BY <1>2, <2>2, <3>1, TextsHaveALimit
    <3>3. SubSeq(red, 0 + 1, n) \in Seq(Symbol)
      BY <1>2, <3>2, Piece
    <3>4. cut = Append(SubSeq(red, 1, MaxText - 1), CutOff)
      BY <2>2 DEF Truncate
    <3> HIDE DEF cut
    <3> QED BY <1>1, <3>1, <3>3, <3>4, AppendProperties
  <2> QED BY <2>1, <2>2
<1> HIDE DEF cut
<1>4. PICK n \in Nat : n = Len(cut) /\ DOMAIN cut = 1..n
  BY <1>3
<1>5. K = [i \in 1..n |-> [ch |-> cut[i], at |-> i]]
  BY <1>4 DEF Placed
<1>6. \A i \in 1..n : [ch |-> cut[i], at |-> i] \in Char
  BY <1>3, <1>4 DEF Char
<1> HIDE DEF K
<1>7. K \in Seq(Char) /\ Len(K) = n
  BY <1>5, <1>6
<1>8. \A i \in 1..n : K[i].at = i
  BY <1>5
<1>9. Increasing(K)
  BY <1>7, <1>8 DEF Increasing
<1>10. Kept(text) = K
  BY DEF Kept, K, cut, red
<1> QED BY <1>7, <1>8, <1>9, <1>10

(* A mention covers its @ and its name.                                     *)
LEMMA MentionCovers ==
  ASSUME NEW index, IndexGood(index), NEW m \in MentionSet(index),
         NEW R \in Seq(Char), MentionGood(m, R, index)
  PROVE  Symbols(Covered(R, m.pos, m.len)) = <<"@">> \o index[m.uid]
<1> DEFINE name == index[m.uid]
           T == <<"@">> \o name
<1>1. name \in Seq(Symbol) /\ m.pos \in Nat /\ m.len \in Nat
  BY DEF MentionSet, IndexGood
<1>2. /\ m.pos + m.len <= Len(R) /\ m.len = 1 + Len(name)
      /\ R[m.pos + 1].ch = "@"
      /\ \A y \in 1..Len(name) : R[m.pos + 1 + y].ch = name[y]
  BY DEF MentionGood
<1> HIDE DEF name
<1>3. PICK e \in Nat, l \in Nat, r \in Nat, d \in Nat :
        e = m.pos /\ l = Len(name) /\ r = Len(R) /\ d = m.pos + m.len
  BY <1>1
<1>4. d = e + (1 + l) /\ d <= r /\ m.len = 1 + l
  BY <1>2, <1>3
<1>5. e \in 0..Len(R) /\ d \in e..Len(R) /\ d - e = 1 + l /\ e + 1 \in 1..r
  BY <1>3, <1>4
<1>6. Min({d, r}) = d
  <2>1. Min({d, r}) = CHOOSE x \in {d, r} : \A y \in {d, r} : x =< y
    BY Zenon DEF Min
  <2>2. \A x \in {d, r} : (\A y \in {d, r} : x =< y) => x = d
    BY <1>4
  <2>3. \A y \in {d, r} : d =< y
    BY <1>4
  <2> QED BY <2>1, <2>2, <2>3
<1> DEFINE w == Symbols(SubSeq(R, e + 1, d))
<1>7. Symbols(Covered(R, m.pos, m.len)) = w
  BY <1>3, <1>6 DEF Covered
<1>8. w \in Seq(Symbol) /\ Len(w) = 1 + l /\ \A y \in 1..(1 + l) : w[y] = R[e + y].ch
  <2>1. /\ w \in Seq(Symbol) /\ Len(w) = d - e
        /\ \A y \in 1..(d - e) : w[y] = R[e + y].ch
    BY ONLY <1>5, R \in Seq(Char), SymbolsOfPiece
  <2> HIDE DEF w
  <2> QED BY <1>5, <2>1
<1> HIDE DEF w
<1>9. "@" \in Symbol
  <2>1. R[e + 1] \in Char
    BY <1>3, <1>5, ElementOfSeq
  <2>2. R[e + 1].ch \in Symbol
    BY <2>1 DEF Char
  <2> QED BY <1>2, <1>3, <2>2
<1>10. /\ T \in Seq(Symbol) /\ Len(T) = 1 + l /\ T[1] = "@"
       /\ \A y \in 1..l : T[1 + y] = name[y]
  <2> DEFINE at == <<"@">>
  <2>1. at \in Seq(Symbol) /\ Len(at) = 1 /\ at[1] = "@"
    BY <1>9
  <2> HIDE DEF at
  <2>2. /\ at \o name \in Seq(Symbol) /\ Len(at \o name) = 1 + l
        /\ (at \o name)[1] = "@"
        /\ \A y \in 1..l : (at \o name)[1 + y] = name[y]
    <3> DEFINE u == at \o name
    <3>1. /\ u \in Seq(Symbol) /\ Len(u) = Len(at) + Len(name)
          /\ \A i \in 1..Len(at) + Len(name) :
               u[i] = IF i <= Len(at) THEN at[i] ELSE name[i - Len(at)]
      BY <1>1, <2>1, ConcatProperties
    <3> HIDE DEF u
    <3>2. Len(u) = 1 + l /\ \A i \in 1..(1 + l) : u[i] = IF i <= 1 THEN at[i] ELSE name[i - 1]
      BY <1>3, <2>1, <3>1
    <3>3. 1 \in 1..(1 + l) /\ \A y \in 1..l : 1 + y \in 1..(1 + l) /\ ~(1 + y <= 1) /\ (1 + y) - 1 = y
      OBVIOUS
    <3>4. u[1] = "@" /\ \A y \in 1..l : u[1 + y] = name[y]
      BY <2>1, <3>2, <3>3
    <3> QED BY <3>1, <3>2, <3>4 DEF u
  <2> QED BY <2>2 DEF at
<1> HIDE DEF T
<1>11. ASSUME NEW x \in 1..(1 + l)
       PROVE  w[x] = T[x]
  <2>1. CASE x = 1
    BY <1>2, <1>3, <1>8, <1>10, <2>1
  <2>2. CASE x # 1
    <3>1. PICK y \in 1..l : x = 1 + y
      <4>1. x - 1 \in 1..l /\ x = 1 + (x - 1)
        BY <2>2
      <4> QED BY <4>1
    <3>2. e + (1 + y) = e + 1 + y
      OBVIOUS
    <3>3. w[x] = R[e + 1 + y].ch
      BY <1>8, <3>1, <3>2
    <3>4. T[x] = name[y]
      BY <1>10, <3>1
    <3>5. R[e + 1 + y].ch = name[y]
      BY <1>2, <1>3
    <3> QED BY <3>3, <3>4, <3>5
  <2> QED BY <2>1, <2>2
<1>12. w = T
  BY <1>8, <1>10, <1>11, SeqEqual
<1> QED BY <1>7, <1>12 DEF T, name

(* A style that covers its places before the brackets go covers them after, *)
(* moved by the brackets that went before it, if none went inside.          *)
LEMMA StyleStays ==
  ASSUME NEW D \in Seq(Char), Increasing(D), NEW G, NEW R, Left(D, Len(D), G, R),
         NEW s \in StyleSet, Covers(s, D), s.of \subseteq Places(R)
  PROVE  Places(Covered(R, s.start - CountStripsBefore(G, s.start, D), s.len)) = s.of
<1> DEFINE B == {g \in G : g - 1 < s.start}
<1>1. PICK a \in Nat, l \in Nat, n \in Nat, r \in Nat :
        a = s.start /\ l = s.len /\ n = Len(D) /\ r = Len(R)
  <2>1. s.start \in Nat /\ s.len \in Nat
    BY DEF StyleSet
  <2>2. R \in Seq(Char)
    BY DEF Left
  <2>3. Len(R) \in Nat /\ Len(D) \in Nat
    BY <2>2
  <2> QED BY <2>1, <2>3
<1>2. /\ R \in Seq(Char) /\ G \subseteq 1..n
      /\ \A x \in (1..n) \ G : Rank(G, x) \in 1..r /\ R[Rank(G, x)] = D[x]
      /\ \A k \in 1..r : \E x \in (1..n) \ G : R[k] = D[x]
  BY <1>1 DEF Left
<1>3. a + l <= n
  BY <1>1 DEF Covers
<1>4. s.of = {D[x].at : x \in (a + 1)..(a + l)}
  BY <1>1 DEF Covers
<1>5. PICK c \in Nat : c = Cardinality(B) /\ c <= a
  <2>1. B \subseteq 1..a
    <3>1. \A g \in B : g \in 1..n /\ g - 1 < a
      BY <1>1, <1>2
    <3> HIDE DEF B
    <3> QED BY <3>1
  <2> HIDE DEF B
  <2>2. IsFiniteSet(1..a) /\ Cardinality(1..a) = a
    BY FS_Interval
  <2>3. IsFiniteSet(B) /\ Cardinality(B) <= a
    <3>1. B \in SUBSET (1..a)
      BY <2>1
    <3>2. IsFiniteSet(B) /\ Cardinality(B) <= Cardinality(1..a)
      BY <2>2, <3>1, FS_Subset
    <3> QED BY <2>2, <3>2
  <2>4. Cardinality(B) \in Nat
    BY <2>3, FS_CardinalityType
  <2> QED BY <2>3, <2>4
(* No symbol of the span went.                                              *)
<1>6. ASSUME NEW x \in (a + 1)..(a + l)
      PROVE  x \in (1..n) \ G
  <2>1. x \in 1..n
    BY <1>3
  <2>2. D[x].at \in Places(R)
    BY <1>4
  <2>3. DOMAIN R = 1..r
    BY <1>1, <1>2
  <2>4. PICK k \in 1..r : R[k].at = D[x].at
    BY <2>2, <2>3 DEF Places
  <2>5. PICK y \in (1..n) \ G : R[k] = D[y]
    BY <1>2
  <2>6. D[y].at = D[x].at
    BY <2>4, <2>5
  <2>7. \A i, j \in 1..n : i < j => D[i].at < D[j].at
    BY <1>1 DEF Increasing
  <2>8. D[x].at \in Nat
    <3>1. D[x] \in Char
      BY <1>1, <2>1, ElementOfSeq
    <3> QED BY <3>1 DEF Char
  <2>9. ~(D[x].at < D[x].at)
    BY <2>8
  <2>10. ~(x < y) /\ ~(y < x)
    BY <2>1, <2>6, <2>7, <2>9
  <2>11. x = y
    BY <2>1, <2>10
  <2> QED BY <2>11
<1>7. ASSUME NEW x \in (a + 1)..(a + l)
      PROVE  x - c \in 1..r /\ R[x - c] = D[x]
  <2>1. Before(G, x) = B
    <3>1. ASSUME NEW g \in G
          PROVE  g < x <=> g - 1 < a
      <4>1. g \in Nat /\ g \in 1..n
        BY <1>2
      <4>2. CASE g \in (a + 1)..(a + l)
        BY <1>6, <4>2
      <4>3. CASE g \notin (a + 1)..(a + l)
        BY <4>1, <4>3
      <4> QED BY <4>2, <4>3
    <3> QED BY <1>1, <3>1 DEF Before
  <2>2. Rank(G, x) = x - c
    BY <1>5, <2>1 DEF Rank
  <2> QED BY <1>2, <1>6, <2>2
<1> DEFINE b == a - c
           d == Min({b + l, r})
           X == SubSeq(R, b + 1, d)
<1>8. b \in Nat /\ b + l \in Nat
  BY <1>5
<1>9. Covered(R, s.start - CountStripsBefore(G, s.start, D), s.len) = X
  BY <1>1, <1>5 DEF Covered, CountStripsBefore
<1> HIDE DEF B, b
<1>10. d \in {b + l, r} /\ d <= b + l /\ d <= r
  <2>1. d = CHOOSE x \in {b + l, r} : \A y \in {b + l, r} : x =< y
    BY Zenon DEF Min
  <2>2. \E x \in {b + l, r} : \A y \in {b + l, r} : x =< y
    BY <1>8
  <2> HIDE DEF d
  <2> QED BY <2>1, <2>2
<1>11. CASE l = 0
  <2>1. s.of = {}
    BY <1>4, <1>11
  <2>2. d \in Int /\ b + 1 \in Int /\ d < b + 1
    BY <1>8, <1>10, <1>11
  <2> HIDE DEF d
  <2>3. X = <<>>
    BY <2>2, SubSeqEmpty
  <2> HIDE DEF X
  <2>4. DOMAIN X = {}
    BY <2>3
  <2>5. Places(X) = {}
    BY <2>4 DEF Places
  <2> QED BY <1>9, <2>1, <2>5
<1>12. CASE l # 0
  <2>1. (a + l) - c = b + l
    BY <1>5 DEF b
  <2>2. b + l <= r
    <3>1. a + l \in (a + 1)..(a + l)
      BY <1>12
    <3>2. (a + l) - c \in 1..r
      BY <1>7, <3>1
    <3> QED BY <2>1, <3>2
  <2>3. d = b + l
    BY <1>8, <1>10, <2>2
  <2> HIDE DEF d
  <2>4. X \in Seq(Char) /\ Len(X) = l /\ \A y \in 1..l : X[y] = R[b + y]
    <3>1. b \in 0..Len(R) /\ d \in b..Len(R) /\ d - b = l
      BY <1>1, <1>8, <2>2, <2>3
    <3>2. /\ X \in Seq(Char) /\ Len(X) = d - b
          /\ \A y \in 1..(d - b) : X[y] = R[b + y]
      BY ONLY <3>1, <1>2, R \in Seq(Char), Piece
    <3> HIDE DEF X
    <3> QED BY <3>1, <3>2
  <2> HIDE DEF X
  <2>5. DOMAIN X = 1..l
    BY <2>4
  <2>6. ASSUME NEW y \in 1..l
        PROVE  a + y \in (a + 1)..(a + l) /\ X[y] = D[a + y]
    <3>1. a + y \in (a + 1)..(a + l) /\ (a + y) - c = b + y
      BY <1>5 DEF b
    <3> QED BY <1>7, <2>4, <3>1
  <2>7. Places(X) \subseteq s.of
    BY <1>4, <2>5, <2>6 DEF Places
  <2>8. ASSUME NEW x \in (a + 1)..(a + l)
        PROVE  D[x].at \in Places(X)
    <3>1. x - a \in 1..l /\ a + (x - a) = x
      OBVIOUS
    <3> QED BY <2>5, <2>6, <3>1 DEF Places
  <2>9. s.of \subseteq Places(X)
    BY <1>4, <2>8
  <2> QED BY <1>9, <2>7, <2>9
<1> QED BY <1>11, <1>12

-----------------------------------------------------------------------------
(* The content made of a text, whatever members were found.                 *)
Prepared(text, index, content) ==
  /\ Thin(Kept(text), content.doc)
  /\ content.mentions \in Seq(MentionSet(index)) /\ InOrder(content.mentions)
  /\ \A x \in 1..Len(content.mentions) :
       MentionGood(content.mentions[x], content.doc, index)
  /\ (\A i, j \in DOMAIN content.styles : content.styles[i].st = content.styles[j].st)
       => \A i \in DOMAIN content.styles :
            LET s == content.styles[i] IN
            s.of \subseteq Places(content.doc)
              => Places(Covered(content.doc, s.start, s.len)) = s.of

LEMMA PrepareIs ==
  ASSUME NEW text \in Seq(Symbol), NEW index, IndexGood(index)
  PROVE  Prepared(text, index, Prepare(text, index))
<1> DEFINE K == Kept(text)
           md == MarkdownToZaloStyles(K)
           p == ParseOutboundMentions(md.doc, index)
           Align(s) == [s EXCEPT !.start = @ - CountStripsBefore(p.strips, @, md.doc)]
           styles == [i \in DOMAIN md.styles |-> Align(md.styles[i])]
           content == Prepare(text, index)
<1>1. K \in Seq(Char) /\ Increasing(K)
  BY KeptIs
<1>2. content = [doc |-> p.out, styles |-> styles, mentions |-> p.mentions]
  BY DEF Prepare, Kept
<1> HIDE DEF K
<1>3. PassGood(K, 6, md)
  BY <1>1, MarkdownIsGood
<1> HIDE DEF md
<1>4. /\ md.doc \in Seq(Char) /\ Increasing(md.doc) /\ Thin(K, md.doc)
      /\ md.styles \in Seq(StyleSet)
      /\ (\A x, y \in 1..Len(md.styles) : md.styles[x].st = md.styles[y].st)
           => \A x \in 1..Len(md.styles) : Covers(md.styles[x], md.doc)
  BY <1>3 DEF PassGood, PassType, Thin
<1>5. /\ p \in ParseType(index)
      /\ Left(md.doc, Len(md.doc), p.strips, p.out)
      /\ \A x \in 1..Len(p.mentions) : MentionGood(p.mentions[x], p.out, index)
      /\ InOrder(p.mentions)
  BY <1>4, ParseIsGood
<1> HIDE DEF p
<1>6. Thin(K, p.out)
  <2>1. Thin(md.doc, p.out)
    BY <1>4, <1>5, LeftThin
  <2> QED BY <1>4, <2>1, ThinOfThin
<1>7. p.mentions \in Seq(MentionSet(index))
  BY <1>5 DEF ParseType
<1>8. DOMAIN styles = 1..Len(md.styles) /\ DOMAIN md.styles = 1..Len(md.styles)
  BY <1>4
<1>9. ASSUME NEW i \in 1..Len(md.styles)
      PROVE  LET s == md.styles[i] IN
             /\ s \in StyleSet
             /\ styles[i].start = s.start - CountStripsBefore(p.strips, s.start, md.doc)
             /\ styles[i].len = s.len /\ styles[i].st = s.st /\ styles[i].of = s.of
  <2>1. md.styles[i] \in StyleSet
    BY <1>4, ElementOfSeq
  <2>2. styles[i] = Align(md.styles[i])
    BY <1>8
  <2> HIDE DEF styles
  <2>3. PICK s \in StyleSet : s = md.styles[i]
    BY <2>1
  <2>4. styles[i] = [s EXCEPT !.start = s.start - CountStripsBefore(p.strips, s.start, md.doc)]
    BY <2>2, <2>3
  <2> QED BY <2>3, <2>4 DEF StyleSet
<1> HIDE DEF styles
<1>10. ASSUME \A i, j \in DOMAIN styles : styles[i].st = styles[j].st,
              NEW i \in DOMAIN styles, styles[i].of \subseteq Places(p.out)
       PROVE  Places(Covered(p.out, styles[i].start, styles[i].len)) = styles[i].of
  <2>6. i \in 1..Len(md.styles)
    BY <1>8
  <2>1. PICK s \in StyleSet :
          /\ s = md.styles[i]
          /\ styles[i].start = s.start - CountStripsBefore(p.strips, s.start, md.doc)
          /\ styles[i].len = s.len /\ styles[i].of = s.of
    BY <1>9, <2>6, Zenon
  <2>2. ASSUME NEW x \in 1..Len(md.styles), NEW y \in 1..Len(md.styles)
        PROVE  md.styles[x].st = md.styles[y].st
    <3>1. styles[x].st = md.styles[x].st /\ styles[y].st = md.styles[y].st
      BY <1>9
    <3>2. styles[x].st = styles[y].st
      BY <1>8, <1>10
    <3> QED BY <3>1, <3>2
  <2>3. Covers(s, md.doc)
    BY <1>4, <1>8, <2>1, <2>2
  <2>4. s.of \subseteq Places(p.out)
    BY <1>10, <2>1
  <2>5. Places(Covered(p.out, s.start - CountStripsBefore(p.strips, s.start, md.doc), s.len))
          = s.of
    BY <1>4, <1>5, <2>3, <2>4, StyleStays
  <2> QED BY <2>1, <2>5
<1>11. content.doc = p.out /\ content.styles = styles /\ content.mentions = p.mentions
  BY <1>2
<1> HIDE DEF content
<1>12. Prepared(text, index, content)
  BY <1>5, <1>6, <1>7, <1>10, <1>11 DEF Prepared, K
<1> QED BY <1>12 DEF content

-----------------------------------------------------------------------------
(* Names of members are texts wherever they are kept, and what a call sends *)
(* was made of its request's text with the members it knew.                 *)
Index == UNION {[K -> Name] : K \in SUBSET User}
EntryType == [group : {r.thread : r \in Request}, index : Index, fresh : BOOLEAN]

TextGood(x) ==
  /\ x.req \in Request /\ IndexGood(x.index)
  /\ x.content = Prepare(x.req.text, x.index)

TextIInv ==
  /\ dir \in [User -> Name]
  /\ cache \in Seq(EntryType)
  /\ \A c \in DOMAIN calls : TextGood(calls[c])

LEMMA IndexIsGood ==
  /\ IndexGood(Nobody)
  /\ \A index \in Index : IndexGood(index)
<1>1. DOMAIN Nobody = {}
  BY DEF Nobody
<1>2. ASSUME NEW K \in SUBSET User, NEW index \in [K -> Name]
      PROVE  IndexGood(index)
  BY NamesAreTexts DEF IndexGood
<1> QED BY <1>1, <1>2 DEF IndexGood, Index

LEMMA TextAdded ==
  ASSUME IInv, TextIInv, NEW x, TextGood(x), calls' = Append(calls, x),
         UNCHANGED <<dir, cache>>
  PROVE  TextIInv'
<1>1. PICK S : calls \in Seq(S)
  BY DEF IInv
<1>2. calls \in Seq(S \cup {x}) /\ x \in S \cup {x}
  BY <1>1
<1>3. /\ calls' \in Seq(S \cup {x}) /\ Len(calls') = Len(calls) + 1
      /\ \A c \in 1..Len(calls) : calls'[c] = calls[c]
      /\ calls'[Len(calls) + 1] = x
  BY <1>2, AppendProperties
<1>4. DOMAIN calls = 1..Len(calls) /\ Len(calls) \in Nat
      /\ DOMAIN calls' = 1..(Len(calls) + 1)
  BY <1>2, <1>3
<1>5. ASSUME NEW c \in DOMAIN calls' PROVE TextGood(calls'[c])
  <2>1. CASE c \in DOMAIN calls
    BY <1>3, <1>4, <2>1 DEF TextIInv
  <2>2. CASE c = Len(calls) + 1
    BY <1>3, <2>2
  <2> QED BY <1>4, <2>1, <2>2
<1> QED BY <1>5 DEF TextIInv

LEMMA TextReplaced ==
  ASSUME IInv, TextIInv, NEW c \in DOMAIN calls, NEW x, TextGood(x),
         calls' = [calls EXCEPT ![c] = x], dir' = dir, cache' \in Seq(EntryType)
  PROVE  TextIInv'
<1>1. DOMAIN calls' = DOMAIN calls
      /\ \A d \in DOMAIN calls : calls'[d] = IF d = c THEN x ELSE calls[d]
  OBVIOUS
<1>2. \A d \in DOMAIN calls' : TextGood(calls'[d])
  BY <1>1 DEF TextIInv
<1> QED BY <1>2 DEF TextIInv

(* A call whose request, members and content stay is as good as before.     *)
LEMMA SettledText ==
  ASSUME NEW x, CallGood(x), TextGood(x), NEW status, NEW accepted
  PROVE  TextGood(Settled(x, status, accepted)) /\ TextGood([x EXCEPT !.phase = "sending"])
<1> DEFINE y == Settled(x, status, accepted)
           z == [x EXCEPT !.phase = "sending"]
<1>1. DOMAIN x = {"req", "phase", "status", "accepted", "index", "content"}
  BY Zenon DEF CallGood, IsCall
<1>2. y.req = x.req /\ y.index = x.index /\ y.content = x.content
  BY <1>1 DEF Settled
<1>3. z.req = x.req /\ z.index = x.index /\ z.content = x.content
  BY <1>1
<1> HIDE DEF y, z
<1>4. TextGood(y) /\ TextGood(z)
  BY <1>2, <1>3 DEF TextGood
<1> QED BY <1>4 DEF y, z

LEMMA CachedIsGood ==
  ASSUME TextIInv, NEW g, IsCached(g)
  PROVE  IndexGood(CachedFor(g))
<1> DEFINE I == {i \in 1..Len(cache) : cache[i].group = g}
<1>1. cache \in Seq(EntryType) /\ Len(cache) \in Nat /\ DOMAIN cache = 1..Len(cache)
  BY DEF TextIInv
<1>2. I # {} /\ I \in SUBSET Nat
  BY <1>1 DEF IsCached
<1>3. Min(I) \in I
  <2> HIDE DEF I
  <2>1. \E k \in I : \A i \in I : k <= i
    BY <1>2, LeastNumber
  <2> QED BY <2>1, Zenon DEF Min
<1>4. CachedFor(g) = cache[Min(I)].index
  <2>1. SelectInSeq(cache, LAMBDA e : e.group = g) = Min(I)
    BY <1>2, Zenon DEF SelectInSeq
  <2> QED BY <2>1, Zenon DEF CachedFor
<1>5. Min(I) \in 1..Len(cache)
  BY <1>3
<1> HIDE DEF I
<1>6. cache[Min(I)] \in EntryType
  BY <1>1, <1>5, ElementOfSeq
<1>7. cache[Min(I)].index \in Index
  BY <1>6 DEF EntryType
<1> QED BY <1>4, <1>7, IndexIsGood

LEMMA CacheIndexType ==
  ASSUME TextIInv, NEW r \in Request, NEW index \in Index
  PROVE  CacheIndex(r.thread, index) \in Seq(EntryType)
<1> DEFINE g == r.thread
           kept == IF Len(cache) >= CacheMax THEN Tail(cache) ELSE cache
           e == Entry(g, index)
           i == SelectInSeq(kept, LAMBDA x : x.group = g)
<1>1. e \in EntryType
  BY DEF Entry, EntryType
<1>2. cache \in Seq(EntryType) /\ Len(cache) \in Nat
  BY DEF TextIInv
<1>3. kept \in Seq(EntryType)
  <2>1. CASE ~(Len(cache) >= CacheMax)
    BY <1>2, <2>1
  <2>2. CASE Len(cache) >= CacheMax
    <3>1. cache # <<>>
      BY <1>2, <2>2, CacheHoldsSome
    <3>2. Tail(cache) \in Seq(EntryType)
      BY <1>2, <3>1, HeadTailProperties
    <3> QED BY <2>2, <3>2
  <2> QED BY <2>1, <2>2
<1>4. CacheIndex(g, index) = IF i # 0 THEN [kept EXCEPT ![i] = e] ELSE Append(kept, e)
  BY DEF CacheIndex
<1> HIDE DEF e, kept, i
<1>5. Append(kept, e) \in Seq(EntryType)
  BY <1>1, <1>3, AppendProperties
<1>6. [kept EXCEPT ![i] = e] \in Seq(EntryType)
  <2>1. CASE i \in DOMAIN kept
    BY <1>1, <1>3, <2>1
  <2>2. CASE i \notin DOMAIN kept
    <3>1. [kept EXCEPT ![i] = e] = kept
      BY <1>3, <2>2
    <3> QED BY <1>3, <3>1
  <2> QED BY <2>1, <2>2
<1> QED BY <1>4, <1>5, <1>6

LEMMA ReceiveText ==
  ASSUME IInv, TextIInv, NEW r \in Request, Receive(r)
  PROVE  TextIInv'
<1>1. \E phase, status, index : /\ IndexGood(index)
                                /\ calls' = Append(calls, Call(r, phase, status, index))
  <2>1. ASSUME NEW phase, NEW status, Add(r, phase, status)
        PROVE  \E ph, st, index : /\ IndexGood(index)
                                  /\ calls' = Append(calls, Call(r, ph, st, index))
    BY <2>1, IndexIsGood DEF Add
  <2>2. CASE r.action \notin DOMAIN ActionRegistry
    BY <2>1, <2>2 DEF Receive, Refuse
  <2>3. CASE r.action \in DOMAIN ActionRegistry /\ Malformed(r)
    BY <2>1, <2>3 DEF Receive, Refuse
  <2>4. CASE r.action \in DOMAIN ActionRegistry /\ ~Malformed(r)
    <3>1. \/ \E phase, status : Add(r, phase, status)
          \/ /\ IsCached(r.thread)
             /\ calls' = Append(calls, Call(r, "sending", 0, CachedFor(r.thread)))
      BY <2>4 DEF Receive, Refuse
    <3>2. CASE \E phase, status : Add(r, phase, status)
      BY <2>1, <3>2
    <3>3. CASE /\ IsCached(r.thread)
               /\ calls' = Append(calls, Call(r, "sending", 0, CachedFor(r.thread)))
      BY <3>3, CachedIsGood
    <3> QED BY <3>1, <3>2, <3>3
  <2> QED BY <2>2, <2>3, <2>4
<1>2. PICK phase, status, index : /\ IndexGood(index)
                                  /\ calls' = Append(calls, Call(r, phase, status, index))
  BY <1>1
<1>3. TextGood(Call(r, phase, status, index))
  BY <1>2 DEF TextGood, Call
<1>4. UNCHANGED <<dir, cache>>
  BY DEF Receive
<1> QED BY <1>2, <1>3, <1>4, TextAdded

LEMMA LoadedText ==
  ASSUME IInv, TextIInv, NEW c \in DOMAIN calls, NEW known \in SUBSET User,
         MembersLoaded(c, known)
  PROVE  TextIInv'
<1> DEFINE index == [u \in known |-> dir[u]]
           r == calls[c].req
           x == Call(r, "sending", 0, index)
<1>1. /\ cache' = CacheIndex(r.thread, index)
      /\ calls' = [calls EXCEPT ![c] = x] /\ dir' = dir
  BY DEF MembersLoaded
<1>2. index \in Index
  <2>1. index \in [known -> Name]
    BY DEF TextIInv
  <2> QED BY <2>1 DEF Index
<1>3. r \in Request
  BY DEF TextIInv, TextGood
<1> HIDE DEF index, r
<1>4. cache' \in Seq(EntryType)
  BY <1>1, <1>2, <1>3, CacheIndexType
<1>5. TextGood(x)
  BY <1>2, <1>3, IndexIsGood DEF TextGood, Call
<1> HIDE DEF x
<1> QED BY <1>1, <1>4, <1>5, TextReplaced

LEMMA AnswerText ==
  ASSUME IInv, TextIInv, NEW c \in DOMAIN calls, NEW status, NEW accepted,
         Answer(c, status, accepted)
  PROVE  TextIInv'
<1>1. TextGood(Settled(calls[c], status, accepted))
  BY SettledText DEF IInv, TextIInv
<1>2. /\ calls' = [calls EXCEPT ![c] = Settled(calls[c], status, accepted)]
      /\ dir' = dir /\ cache' \in Seq(EntryType)
  BY DEF Answer, TextIInv
<1> QED BY <1>1, <1>2, TextReplaced

LEMMA UnknownText ==
  ASSUME IInv, TextIInv, NEW c \in DOMAIN calls, MembersUnknown(c)
  PROVE  TextIInv'
<1> DEFINE x == calls[c]
           y == [x EXCEPT !.phase = "sending"]
<1>1. TextGood(y)
  BY SettledText DEF IInv, TextIInv
<1>2. calls' = [calls EXCEPT ![c] = y] /\ dir' = dir /\ cache' \in Seq(EntryType)
  BY DEF MembersUnknown, TextIInv
<1> HIDE DEF y
<1> QED BY <1>1, <1>2, TextReplaced

LEMMA NextText ==
  ASSUME IInv, TextIInv, [Next]_vars
  PROVE  TextIInv'
<1>1. CASE UNCHANGED vars
  BY <1>1 DEF TextIInv, vars
<1>2. ASSUME NEW r \in Request, Receive(r)
      PROVE  TextIInv'
  BY <1>2, ReceiveText
<1>3. ASSUME NEW c \in DOMAIN calls
      PROVE  /\ \A known \in SUBSET User : MembersLoaded(c, known) => TextIInv'
             /\ MembersUnknown(c) => TextIInv'
             /\ ZaloAnswers(c) => TextIInv'
             /\ \A accepted \in 0..1 : ZaloFails(c, accepted) => TextIInv'
             /\ \A status \in {200, 500, 502} : QueryEnds(c, status) => TextIInv'
  <2>1. \A known \in SUBSET User : MembersLoaded(c, known) => TextIInv'
    BY LoadedText
  <2>2. MembersUnknown(c) => TextIInv'
    BY UnknownText
  <2>3. ZaloAnswers(c) => TextIInv'
    BY AnswerText DEF ZaloAnswers
  <2>4. \A accepted \in 0..1 : ZaloFails(c, accepted) => TextIInv'
    BY AnswerText DEF ZaloFails
  <2>5. \A status \in {200, 500, 502} : QueryEnds(c, status) => TextIInv'
    BY AnswerText DEF QueryEnds
  <2> QED BY <2>1, <2>2, <2>3, <2>4, <2>5
<1>4. ASSUME NEW i \in DOMAIN cache, CacheExpires(i)
      PROVE  TextIInv'
  <2>1. cache \in Seq(EntryType) /\ cache' = [cache EXCEPT ![i].fresh = FALSE]
        /\ UNCHANGED <<dir, calls>>
    BY <1>4 DEF CacheExpires, TextIInv
  <2>2. cache[i] \in EntryType
    BY <2>1
  <2>3. [cache[i] EXCEPT !.fresh = FALSE] \in EntryType
    BY <2>2 DEF EntryType
  <2>4. cache' \in Seq(EntryType)
    BY <2>1, <2>3
  <2> QED BY <2>1, <2>4 DEF TextIInv
<1>5. ASSUME NEW u \in User, NEW name \in Name, Rename(u, name)
      PROVE  TextIInv'
  <2>1. dir' \in [User -> Name] /\ UNCHANGED <<cache, calls>>
    BY <1>5 DEF Rename, TextIInv
  <2> QED BY <2>1 DEF TextIInv
<1> QED BY <1>1, <1>2, <1>3, <1>4, <1>5 DEF Next

LEMMA InitText == Init => TextIInv
<1>1. <<>> \in Seq(EntryType) /\ DOMAIN <<>> = {}
  OBVIOUS
<1> QED BY <1>1 DEF Init, TextIInv

(* What every call sends was made of its request's text, with the members   *)
(* it knew.                                                                 *)
THEOREM TextInvariant == Spec => []TextIInv
BY InitText, NextText, InductiveInvariant, PTL DEF Spec

LEMMA GoodContent ==
  ASSUME TextIInv, NEW c \in DOMAIN calls
  PROVE  LET text == calls[c].req.text
             K    == Kept(text)
         IN /\ Prepared(text, calls[c].index, calls[c].content)
            /\ IndexGood(calls[c].index)
            /\ K \in Seq(Char) /\ \A i \in 1..Len(K) : K[i].at = i
<1>1. TextGood(calls[c])
  BY DEF TextIInv
<1>2. calls[c].req.text \in Seq(Symbol)
  BY <1>1, RequestsAreFormed DEF TextGood
<1>3. Prepared(calls[c].req.text, calls[c].index, calls[c].content)
  BY <1>1, <1>2, PrepareIs DEF TextGood
<1> QED BY <1>1, <1>2, <1>3, KeptIs DEF TextGood

(* For any text, any members, any part of whom could be loaded, and any     *)
(* names: every mention of what is sent covers an @ and the whole name of   *)
(* the member it notifies, who is the only one of that name among those     *)
(* loaded (members who were not loaded may bear it too); mentions do not    *)
(* overlap, and the rest is what was written, in order, less markers and    *)
(* brackets.                                                                *)
THEOREM MentionsAreRight == Spec => []MentionsPointAtNames
<1>1. ASSUME TextIInv, NEW c \in DOMAIN calls
      PROVE  LET doc  == calls[c].content.doc
                 ms   == calls[c].content.mentions
                 gone == Places(Kept(calls[c].req.text)) \ Places(doc)
             IN /\ \A i \in DOMAIN ms :
                     LET name == calls[c].index[ms[i].uid] IN
                     /\ Symbols(Covered(doc, ms[i].pos, ms[i].len)) = <<"@">> \o name
                     /\ Unique(calls[c].index, name)
                     /\ i > 1 => ms[i].pos >= ms[i - 1].pos + ms[i - 1].len
                /\ \A i \in 2..Len(doc) : doc[i - 1].at < doc[i].at
                /\ \A i \in DOMAIN doc : doc[i] = Kept(calls[c].req.text)[doc[i].at]
                /\ \A p \in gone : Kept(calls[c].req.text)[p].ch
                                     \in Range(Passes) \cup {"heading", "[", "]"}
  <2> DEFINE doc == calls[c].content.doc
             ms  == calls[c].content.mentions
             index == calls[c].index
             K == Kept(calls[c].req.text)
             gone == Places(K) \ Places(doc)
  <2>1. /\ Thin(K, doc) /\ IndexGood(index)
        /\ ms \in Seq(MentionSet(index)) /\ InOrder(ms)
        /\ \A x \in 1..Len(ms) : MentionGood(ms[x], doc, index)
        /\ K \in Seq(Char) /\ \A i \in 1..Len(K) : K[i].at = i
    BY <1>1, GoodContent DEF Prepared
  <2> HIDE DEF doc, ms, index, K
  <2>2. /\ doc \in Seq(Char) /\ Len(doc) \in Nat /\ DOMAIN doc = 1..Len(doc)
        /\ DOMAIN ms = 1..Len(ms) /\ Len(ms) \in Nat
        /\ DOMAIN K = 1..Len(K) /\ Len(K) \in Nat
    BY <2>1 DEF Thin
  <2>3. ASSUME NEW i \in DOMAIN ms
        PROVE  LET name == index[ms[i].uid] IN
               /\ Symbols(Covered(doc, ms[i].pos, ms[i].len)) = <<"@">> \o name
               /\ Unique(index, name)
               /\ i > 1 => ms[i].pos >= ms[i - 1].pos + ms[i - 1].len
    <3>1. ms[i] \in MentionSet(index) /\ MentionGood(ms[i], doc, index)
      BY <2>1, <2>2, ElementOfSeq
    <3>2. Symbols(Covered(doc, ms[i].pos, ms[i].len)) = <<"@">> \o index[ms[i].uid]
      BY <2>1, <2>2, <3>1, MentionCovers
    <3>3. Unique(index, index[ms[i].uid])
      BY <3>1 DEF MentionGood
    <3>4. i > 1 => i \in 2..Len(ms)
      BY <2>2
    <3>5. i > 1 => ms[i].pos >= ms[i - 1].pos + ms[i - 1].len
      BY <2>1, <3>4 DEF InOrder
    <3> QED BY <3>2, <3>3, <3>5
  <2>4. ASSUME NEW i \in 2..Len(doc)
        PROVE  doc[i - 1].at < doc[i].at
    <3>1. i - 1 \in 1..Len(doc) /\ i \in 1..Len(doc) /\ i - 1 < i
      BY <2>2
    <3> QED BY <2>1, <3>1 DEF Thin, Increasing
  <2>5. ASSUME NEW i \in DOMAIN doc
        PROVE  doc[i] = K[doc[i].at]
    <3>1. PICK x \in 1..Len(K) : doc[i] = K[x]
      BY <2>1, <2>2 DEF Thin
    <3> QED BY <2>1, <3>1
  <2>6. ASSUME NEW p \in gone
        PROVE  K[p].ch \in Droppable
    <3>1. PICK x \in 1..Len(K) : p = K[x].at
      BY <2>2 DEF Places
    <3>2. p = x /\ p \in 1..Len(K)
      BY <2>1, <3>1
    <3>3. ~\E k \in 1..Len(doc) : doc[k] = K[p]
      BY <2>2, <3>1, <3>2 DEF Places
    <3> QED BY <2>1, <3>2, <3>3 DEF Thin
  <2> QED BY <2>3, <2>4, <2>5, <2>6 DEF doc, ms, index, K, Droppable
<1>2. TextIInv => MentionsPointAtNames
  BY <1>1 DEF MentionsPointAtNames
<1> QED BY <1>2, TextInvariant, PTL

(* For any text, any members and any names: if markers of one kind only     *)
(* were found, each style of what is sent in whose span no bracket of a     *)
(* mention was dropped covers exactly what stood between its markers.  Of   *)
(* spans in which a bracket was dropped, or of nested kinds, nothing is     *)
(* said: their lengths may be wrong.                                        *)
THEOREM StylesAreRight == Spec => []StylesCoverWhatWasMarked
<1>1. TextIInv => StylesCoverWhatWasMarked
  BY GoodContent DEF Prepared, StylesCoverWhatWasMarked
<1> QED BY <1>1, TextInvariant, PTL
=============================================================================
