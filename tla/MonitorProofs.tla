---------------------------- MODULE MonitorProofs ----------------------------
(***************************************************************************)
(* Proofs about Monitor, for any users, groups, configurations, sizes of   *)
(* the caches and numbers of starts, messages and failures.                *)
(*                                                                         *)
(* The state is well typed and no cache outgrows its limit (Typed); a step *)
(* starts or ends one job, or adds one (JobsGoOn).  From there each        *)
(* property has an invariant of its own: that a queued id is remembered or *)
(* was let go by a full memory (Remembering), that two strikes come with a *)
(* warning sent (WarnedAtTwo), that the cache of quotes has a job's own    *)
(* message until it is read (CachedIsOwn), that what is buffered is older  *)
(* than all that is not decided yet (BufferGood), and that it was let in   *)
(* by a monitor or came in with a history (TalkLetIn).                     *)
(***************************************************************************)
EXTENDS Monitor, FiniteSetTheorems, SequenceTheorems, WellFoundedInduction, TLAPS

-----------------------------------------------------------------------------
(* A set of positions that is not empty has a least element.                *)
LEMMA LeastNumber ==
  ASSUME NEW I \in SUBSET Nat, I # {}
  PROVE  \E k \in I : \A i \in I : k <= i
<1>1. PICK R : /\ IsWellFoundedOn(R, Nat)
               /\ \A a, b \in Nat : a < b => <<a, b>> \in R
  <2>1. \A a, b \in Nat : a < b => <<a, b>> \in OpToRel(<, Nat)
    BY DEF OpToRel
  <2> QED BY <2>1, NatLessThanWellFounded, Zenon
<1>2. PICK k \in I : \A i \in I : ~(<<i, k>> \in R)
  <2>1. IsWellFoundedOn(R, Nat)
    BY <1>1
  <2> QED BY <2>1, WFMin
<1>3. ASSUME NEW i \in I
      PROVE  k <= i
  <2>1. ~(i < k)
    BY <1>1, <1>2, <1>3, Zenon
  <2> QED BY <2>1
<1> QED BY <1>3

LEMMA OldestIsFirst ==
  ASSUME NEW S \in SUBSET Nat, S # {}
  PROVE  Oldest(S) \in S /\ \A k \in S : Oldest(S) <= k
BY LeastNumber, Zenon DEF Oldest

LEMMA MinIsFirst ==
  ASSUME NEW S \in SUBSET Nat, S # {}
  PROVE  Min(S) \in S /\ \A k \in S : Min(S) <= k
BY LeastNumber, Zenon DEF Min

(* The search of a cache for the entry of a thread.                         *)
Place(cache, t) == SelectInSeq(cache, LAMBDA e : e[1] = t)

LEMMA PlaceFound ==
  ASSUME NEW S, NEW cache \in Seq(S), NEW t
  PROVE  \/ Place(cache, t) = 0 /\ \A i \in 1..Len(cache) : cache[i][1] # t
         \/ Place(cache, t) \in 1..Len(cache) /\ cache[Place(cache, t)][1] = t
<1> DEFINE I == {i \in 1..Len(cache) : cache[i][1] = t}
<1>1. Place(cache, t) = IF I # {} THEN Min(I) ELSE 0
  BY Zenon DEF Place, SelectInSeq
<1>2. I \in SUBSET Nat
  OBVIOUS
<1>3. CASE I = {}
  BY <1>1, <1>3
<1>4. CASE I # {}
  <2>1. Min(I) \in I
    BY <1>2, <1>4, MinIsFirst, Zenon
  <2> QED BY <1>1, <1>4, <2>1
<1> QED BY <1>3, <1>4

UniqueKeys(cache) ==
  \A a, b \in 1..Len(cache) : cache[a][1] = cache[b][1] => a = b

(* The cache of quotes keeps one entry per thread and never outgrows its    *)
(* limit; afterwards the thread's entry is the new one, and the others are  *)
(* entries that were there.                                                 *)
LEMMA CacheInboundKeeps ==
  ASSUME NEW T, NEW J, NEW cache \in Seq(T \X J), UniqueKeys(cache),
         Len(cache) <= InboundMax, InboundMax \in Nat \ {0},
         NEW t \in T, NEW j \in J
  PROVE  LET new == CacheInbound(cache, t, j)
         IN /\ new \in Seq(T \X J)
            /\ Len(new) <= InboundMax
            /\ UniqueKeys(new)
            /\ \A a \in 1..Len(new) : new[a][1] = t => new[a][2] = j
            /\ \A a \in 1..Len(new) :
                 new[a][1] # t => new[a] \in ToSet(cache)
<1> DEFINE new == CacheInbound(cache, t, j)
           i == Place(cache, t)
           e == <<t, j>>
           kept == IF Len(cache) >= InboundMax THEN Tail(cache) ELSE cache
<1>1. e \in T \X J /\ e[1] = t /\ e[2] = j
  OBVIOUS
<1>2. new = IF i # 0 THEN [cache EXCEPT ![i] = e] ELSE Append(kept, e)
  BY Zenon DEF CacheInbound, Place
<1>3. CASE i # 0
  <2>1. i \in 1..Len(cache) /\ cache[i][1] = t
    BY <1>3, PlaceFound
  <2>2. /\ new \in Seq(T \X J)
        /\ Len(new) = Len(cache)
        /\ \A a \in 1..Len(cache) : new[a] = IF a = i THEN e ELSE cache[a]
    BY <1>1, <1>2, <1>3, <2>1, ExceptSeq
  <2> HIDE DEF i, e
  <2>3. \A a \in 1..Len(cache) : a # i => cache[a][1] # t
    BY <2>1 DEF UniqueKeys
  <2>4. ASSUME NEW a \in 1..Len(cache), NEW b \in 1..Len(cache), new[a][1] = new[b][1]
        PROVE  a = b
    BY <1>1, <2>1, <2>2, <2>3, <2>4 DEF UniqueKeys
  <2>5. UniqueKeys(new)
    BY <2>2, <2>4, Zenon DEF UniqueKeys
  <2>6. ASSUME NEW a \in 1..Len(cache)
        PROVE  /\ new[a][1] = t => new[a][2] = j
               /\ new[a][1] # t => new[a] = cache[a]
    BY <1>1, <2>2, <2>3
  <2>7. \A a \in 1..Len(new) : new[a][1] # t => new[a] \in ToSet(cache)
    <3> SUFFICES ASSUME NEW a \in 1..Len(cache), new[a][1] # t
                 PROVE  new[a] \in ToSet(cache)
      BY <2>2
    <3> QED BY <2>6, DOMAIN cache = 1..Len(cache) DEF ToSet
  <2> QED BY <2>2, <2>5, <2>6, <2>7
<1>4. CASE i = 0
  <2>1. \A a \in 1..Len(cache) : cache[a][1] # t
    BY <1>4, PlaceFound
  <2> DEFINE Shifted(d) ==
               /\ kept \in Seq(T \X J)
               /\ Len(kept) = Len(cache) - d
               /\ Len(kept) < InboundMax
               /\ \A a \in 1..Len(kept) : a + d \in 1..Len(cache) /\ kept[a] = cache[a + d]
  <2>2. PICK d \in {0, 1} : Shifted(d)
    <3>1. CASE Len(cache) >= InboundMax
      <4>1. cache # <<>>
        BY <3>1
      <4>2. /\ Tail(cache) \in Seq(T \X J)
            /\ Len(Tail(cache)) = Len(cache) - 1
            /\ \A a \in 1..Len(Tail(cache)) : Tail(cache)[a] = cache[a + 1]
        BY <4>1, HeadTailProperties
      <4>3. Shifted(1)
        BY <3>1, <4>1, <4>2
      <4> QED BY <4>3
    <3>2. CASE ~(Len(cache) >= InboundMax)
      <4>1. Shifted(0)
        BY <3>2
      <4> QED BY <4>1
    <3> QED BY <3>1, <3>2
  <2> HIDE DEF kept, e
  <2>3. /\ new \in Seq(T \X J)
        /\ Len(new) = Len(kept) + 1
        /\ \A a \in 1..Len(kept) : new[a] = kept[a]
        /\ new[Len(kept) + 1] = e
    BY <1>1, <1>2, <1>4, <2>2, AppendProperties
  <2>4. ASSUME NEW a \in 1..Len(new)
        PROVE  \/ a = Len(new) /\ new[a] = e
               \/ /\ a < Len(new)
                  /\ a + d \in 1..Len(cache)
                  /\ new[a] = cache[a + d]
    BY <2>2, <2>3, SMTT(20)
  <2>5. UniqueKeys(new)
    <3> SUFFICES ASSUME NEW a \in 1..Len(new), NEW b \in 1..Len(new),
                        new[a][1] = new[b][1]
                 PROVE  a = b
      BY DEF UniqueKeys
    <3>1. CASE new[a][1] = t
      <4>1. ASSUME NEW c \in 1..Len(new), new[c][1] = t
            PROVE  c = Len(new)
        BY <2>1, <2>4, <4>1
      <4> QED BY <3>1, <4>1
    <3>2. CASE new[a][1] # t
      <4>1. /\ a + d \in 1..Len(cache) /\ new[a] = cache[a + d]
            /\ b + d \in 1..Len(cache) /\ new[b] = cache[b + d]
        BY <1>1, <2>4, <3>2
      <4>2. a + d = b + d
        BY <4>1, Zenon DEF UniqueKeys
      <4> QED BY <4>2
    <3> QED BY <3>1, <3>2
  <2>6. ASSUME NEW a \in 1..Len(new)
        PROVE  /\ new[a][1] = t => new[a][2] = j
               /\ new[a][1] # t => \E b \in 1..Len(cache) : new[a] = cache[b]
    BY <1>1, <2>1, <2>4
  <2>7. Len(new) <= InboundMax
    BY <2>2, <2>3
  <2>8. \A a \in 1..Len(new) : new[a][1] # t => new[a] \in ToSet(cache)
    BY <2>6, DOMAIN cache = 1..Len(cache) DEF ToSet
  <2> QED BY <2>3, <2>5, <2>6, <2>7, <2>8
<1> QED BY <1>3, <1>4

(* The store of msg-ids and the memory of the ids that were seen.           *)
LEMMA RecordMsgIdKeeps ==
  ASSUME NEW S, NEW store \in Seq(S), NEW id \in S,
         Len(store) <= IdsMax, IdsMax \in Nat \ {0}
  PROVE  RecordMsgId(store, id) \in Seq(S) /\ Len(RecordMsgId(store, id)) <= IdsMax
<1> DEFINE kept == IF Len(store) >= IdsMax THEN Tail(store) ELSE store
<1>1. kept \in Seq(S) /\ Len(kept) < IdsMax
  <2>1. CASE Len(store) >= IdsMax
    <3>1. store # <<>>
      BY <2>1
    <3> QED BY <2>1, <3>1, HeadTailProperties
  <2>2. CASE ~(Len(store) >= IdsMax)
    BY <2>2
  <2> QED BY <2>1, <2>2
<1>2. RecordMsgId(store, id) = IF Contains(kept, id) THEN kept ELSE Append(kept, id)
  BY Zenon DEF RecordMsgId
<1> HIDE DEF kept
<1> QED BY <1>1, <1>2, AppendProperties

LEMMA DropFirstKeeps ==
  ASSUME NEW S, NEW s \in Seq(S), NEW n \in 0..Len(s)
  PROVE  /\ DropFirst(s, n) \in Seq(S)
         /\ Len(DropFirst(s, n)) = Len(s) - n
         /\ \A i \in 1..(Len(s) - n) : DropFirst(s, n)[i] = s[n + i]
<1>1. CASE n < Len(s)
  BY <1>1, SubSeqProperties DEF DropFirst
<1>2. CASE n = Len(s)
  BY <1>2, SubSeqProperties DEF DropFirst
<1> QED BY <1>1, <1>2

LEMMA ContainsAppended ==
  ASSUME NEW S, NEW s \in Seq(S), NEW e \in S
  PROVE  /\ Contains(Append(s, e), e)
         /\ \A x : Contains(s, x) => Contains(Append(s, e), x)
<1>1. /\ Len(s) \in Nat /\ Len(Append(s, e)) = Len(s) + 1
      /\ Append(s, e)[Len(s) + 1] = e
      /\ \A i \in 1..Len(s) : Append(s, e)[i] = s[i]
  BY AppendProperties
<1>2. Contains(Append(s, e), e)
  <2>1. Len(s) + 1 \in 1..Len(Append(s, e))
    BY <1>1
  <2> QED BY <1>1, <2>1, Zenon DEF Contains
<1>3. ASSUME NEW x, Contains(s, x)
      PROVE  Contains(Append(s, e), x)
  <2>1. PICK i \in 1..Len(s) : s[i] = x
    BY <1>3 DEF Contains
  <2>2. i \in 1..Len(Append(s, e)) /\ Append(s, e)[i] = x
    BY <1>1, <2>1
  <2> QED BY <2>2, Zenon DEF Contains
<1> QED BY <1>2, <1>3

Memory(S) == [ids : Seq(S), gone : SUBSET S]

LEMMA RememberKeeps ==
  ASSUME NEW S, NEW seen \in Memory(S), NEW id \in S, NEW expired \in 1..DedupMax,
         Len(seen.ids) <= DedupMax, DedupMax \in Nat \ {0}
  PROVE  LET r == Remember(seen, id, expired)
         IN /\ r \in Memory(S)
            /\ Len(r.ids) <= DedupMax
            /\ Contains(r.ids, id)
            /\ seen.gone \subseteq r.gone
            /\ \A x : Contains(seen.ids, x) => Contains(r.ids, x) \/ x \in r.gone
<1> DEFINE ids == seen.ids
           r == Remember(seen, id, expired)
<1>1. ids \in Seq(S) /\ seen.gone \in SUBSET S /\ Len(ids) \in Nat
  BY DEF Memory
<1>2. CASE Len(ids) >= DedupMax
  <2> DEFINE kept == DropFirst(ids, expired)
             out == SubSeq(ids, 1, expired)
  <2>1. expired \in 0..Len(ids) /\ expired \in 1..Len(ids)
    BY <1>1, <1>2
  <2>2. /\ kept \in Seq(S) /\ Len(kept) = Len(ids) - expired
        /\ \A i \in 1..(Len(ids) - expired) : kept[i] = ids[expired + i]
    BY <1>1, <2>1, DropFirstKeeps
  <2>3. /\ out \in Seq(S) /\ DOMAIN out = 1..expired
        /\ \A i \in 1..expired : out[i] = ids[i]
    BY <1>1, <2>1, SubSeqProperties
  <2>4. r.ids = Append(kept, id) /\ r.gone = seen.gone \cup ToSet(out)
        /\ r = [ids |-> r.ids, gone |-> r.gone]
    BY <1>2 DEF Remember
  <2> HIDE DEF kept, out, r
  <2>5. ToSet(out) \subseteq S
    BY <2>3 DEF ToSet
  <2>6. Append(kept, id) \in Seq(S) /\ Len(Append(kept, id)) = Len(kept) + 1
    BY <2>2, AppendProperties
  <2>7. r \in Memory(S) /\ Len(r.ids) <= DedupMax
    <3>1. r.ids \in Seq(S) /\ r.gone \in SUBSET S
      BY <1>1, <2>4, <2>5, <2>6
    <3>2. r \in Memory(S)
      BY <2>4, <3>1, Zenon DEF Memory
    <3>3. Len(r.ids) <= DedupMax
      BY <1>1, <2>1, <2>2, <2>4, <2>6
    <3> QED BY <3>2, <3>3
  <2>8. ASSUME NEW x, Contains(ids, x)
        PROVE  Contains(kept, x) \/ x \in ToSet(out)
    <3>1. PICK i \in 1..Len(ids) : ids[i] = x
      BY <2>8 DEF Contains
    <3>2. CASE i <= expired
      <4>1. i \in DOMAIN out /\ out[i] = x
        BY <2>1, <2>3, <3>1, <3>2
      <4> QED BY <4>1 DEF ToSet
    <3>3. CASE ~(i <= expired)
      <4>1. i - expired \in 1..Len(kept) /\ kept[i - expired] = x
        BY <1>1, <2>1, <2>2, <3>1, <3>3
      <4> QED BY <4>1, Zenon DEF Contains
    <3> QED BY <3>2, <3>3
  <2> HIDE DEF ids
  <2> QED BY <2>2, <2>4, <2>7, <2>8, ContainsAppended DEF r, ids
<1>3. CASE ~(Len(ids) >= DedupMax)
  <2>1. r.ids = Append(ids, id) /\ r.gone = seen.gone
        /\ r = [ids |-> r.ids, gone |-> r.gone]
    BY <1>3 DEF Remember, Memory
  <2> HIDE DEF r
  <2>2. Append(ids, id) \in Seq(S) /\ Len(Append(ids, id)) = Len(ids) + 1
    BY <1>1, AppendProperties
  <2>3. r \in Memory(S) /\ Len(r.ids) <= DedupMax
    <3>1. r \in Memory(S)
      BY <1>1, <2>1, <2>2, Zenon DEF Memory
    <3>2. Len(r.ids) <= DedupMax
      BY <1>1, <1>3, <2>1, <2>2
    <3> QED BY <3>1, <3>2
  <2> HIDE DEF ids
  <2> QED BY <1>1, <2>1, <2>3, ContainsAppended DEF r, ids
<1> QED BY <1>2, <1>3

(* The buffer of a group: the end of what was there and what is new.        *)
LEMMA BufferedKeeps ==
  ASSUME NEW S, NEW b \in Seq(S), NEW new \in Seq(S), NEW aged \in 0..Len(b),
         BufferMax \in Nat
  PROVE  LET r == Buffered(b, new, aged)
             n == Len(b) + Len(new) - Len(r)
         IN /\ r \in Seq(S)
            /\ Len(r) <= BufferMax
            /\ n \in Nat
            /\ \A i \in 1..Len(r) : r[i] = (b \o new)[n + i]
<1> DEFINE r == Buffered(b, new, aged)
           all == DropFirst(b, aged) \o new
           over == Len(all) - BufferMax
<1>1. /\ DropFirst(b, aged) \in Seq(S)
      /\ Len(DropFirst(b, aged)) = Len(b) - aged
      /\ \A i \in 1..(Len(b) - aged) : DropFirst(b, aged)[i] = b[aged + i]
  BY DropFirstKeeps
<1>2. /\ all \in Seq(S)
      /\ Len(all) = Len(b) - aged + Len(new)
      /\ \A i \in 1..Len(all) : all[i] = (b \o new)[aged + i]
  <2>1. /\ all \in Seq(S)
        /\ Len(all) = Len(b) - aged + Len(new)
    BY <1>1, ConcatProperties
  <2>2. ASSUME NEW i \in 1..Len(all)
        PROVE  all[i] = (b \o new)[aged + i]
    <3>1. CASE i <= Len(b) - aged
      <4>1. aged + i \in 1..Len(b)
        BY <2>1, <3>1
      <4>2. (b \o new)[aged + i] = b[aged + i]
        BY <4>1, ConcatProperties
      <4>3. all[i] = DropFirst(b, aged)[i]
        BY <1>1, <2>1, <3>1, ConcatProperties
      <4> QED BY <1>1, <2>1, <3>1, <4>2, <4>3
    <3>2. CASE ~(i <= Len(b) - aged)
      <4>1. (b \o new)[aged + i] = new[(aged + i) - Len(b)]
        BY <2>1, <3>2, ConcatProperties
      <4>2. all[i] = new[i - (Len(b) - aged)]
        BY <1>1, <2>1, <3>2, ConcatProperties, SMTT(20)
      <4>3. (aged + i) - Len(b) = i - (Len(b) - aged)
        BY <2>1
      <4> QED BY <4>1, <4>2, <4>3
    <3> QED BY <3>1, <3>2
  <2> QED BY <2>1, <2>2
<1>3. r = IF over > 0 THEN DropFirst(all, over) ELSE all
  BY Zenon DEF Buffered
<1> HIDE DEF all
<1>4. CASE over > 0
  <2>1. over \in 0..Len(all)
    BY <1>2, <1>4
  <2>2. /\ r \in Seq(S)
        /\ Len(r) = Len(all) - over
        /\ \A i \in 1..(Len(all) - over) : r[i] = all[over + i]
    <3>1. r = DropFirst(all, over)
      BY <1>3, <1>4
    <3> HIDE DEF over, r
    <3>2. /\ DropFirst(all, over) \in Seq(S)
          /\ Len(DropFirst(all, over)) = Len(all) - over
          /\ \A i \in 1..(Len(all) - over) : DropFirst(all, over)[i] = all[over + i]
      <4>1. all \in Seq(S)
        BY <1>2
      <4> QED BY <2>1, <4>1, DropFirstKeeps, Zenon
    <3> QED BY <3>1, <3>2, Zenon
  <2>3. Len(b) + Len(new) - Len(r) = aged + over
    BY <1>2, <2>1, <2>2
  <2>4. ASSUME NEW i \in 1..Len(r)
        PROVE  r[i] = (b \o new)[(aged + over) + i]
    <3>1. over + i \in 1..Len(all) /\ aged + (over + i) = (aged + over) + i
      BY <1>2, <2>1, <2>2
    <3> QED BY <1>2, <2>2, <3>1
  <2> QED BY <1>2, <2>1, <2>2, <2>3, <2>4, SMTT(20)
<1>5. CASE ~(over > 0)
  <2>1. r = all /\ Len(b) + Len(new) - Len(r) = aged /\ Len(r) <= BufferMax
    BY <1>2, <1>3, <1>5
  <2>2. \A i \in 1..Len(r) : r[i] = (b \o new)[aged + i]
    BY <1>2, <2>1
  <2>3. r \in Seq(S) /\ aged \in Nat
    BY <1>2, <2>1
  <2>4. Len(r) <= BufferMax /\ Len(b) + Len(new) - Len(r) = aged
    BY <2>1
  <2> HIDE DEF r
  <2>5. /\ r \in Seq(S)
        /\ Len(r) <= BufferMax
        /\ Len(b) + Len(new) - Len(r) \in Nat
        /\ \A i \in 1..Len(r) : r[i] = (b \o new)[(Len(b) + Len(new) - Len(r)) + i]
    BY <2>2, <2>3, <2>4
  <2> QED BY <2>5 DEF r
<1> QED BY <1>4, <1>5

(* The numbers of a set can be listed in order: by induction on the largest *)
(* number that is allowed, that is, on the least one that fails.            *)
Rising(h) == \A i, j \in 1..Len(h) : i < j => h[i] < h[j]

Listing(S) == {h \in [1..Cardinality(S) -> S] : Rising(h)}

LEMMA ListingExists ==
  \A n \in Nat : \A S \in SUBSET (1..n) : Listing(S) # {}
<1> DEFINE Bad == {n \in Nat : \E S \in SUBSET (1..n) : Listing(S) = {}}
<1>1. SUFFICES ASSUME Bad # {} PROVE FALSE
  OBVIOUS
<1>2. PICK n \in Bad : \A m \in Bad : n <= m
  <2>1. Bad \in SUBSET Nat
    OBVIOUS
  <2> QED BY <1>1, <2>1, LeastNumber, Zenon
<1>3. PICK S \in SUBSET (1..n) : Listing(S) = {}
  OBVIOUS
<1>4. n # 0
  <2> SUFFICES ASSUME n = 0 PROVE FALSE
    OBVIOUS
  <2>1. S = {} /\ Cardinality(S) = 0
    BY <1>3, FS_EmptySet, S = {}
  <2>2. <<>> \in [1..Cardinality(S) -> S] /\ Len(<<>>) = 0
    BY <2>1
  <2>3. Rising(<<>>)
    BY DEF Rising
  <2> QED BY <1>3, <2>2, <2>3 DEF Listing
<1>5. /\ n \in Nat /\ n - 1 \in Nat
      /\ \A R \in SUBSET (1..(n - 1)) : Listing(R) # {}
  <2>1. n \in Nat /\ n - 1 \in Nat /\ ~(n <= n - 1)
    BY <1>4
  <2>2. n - 1 \notin Bad
    BY <1>2, <2>1, Zenon
  <2> QED BY <2>1, <2>2
<1> DEFINE R == S \ {n}
           c == Cardinality(R)
<1>6. R \in SUBSET (1..(n - 1))
  BY <1>5
<1>7. n \in S
  BY <1>3, <1>5, <1>6
<1>8. c \in Nat /\ Cardinality(S) = c + 1
  <2>1. IsFiniteSet(S)
    <3>1. IsFiniteSet(1..n)
      BY <1>5, FS_Interval
    <3> QED BY <3>1, FS_Subset
  <2>2. /\ IsFiniteSet(R) /\ Cardinality(S) \in Nat
        /\ Cardinality(R) = Cardinality(S) - 1
    BY <1>7, <2>1, FS_RemoveElement, FS_CardinalityType
  <2> QED BY <2>2, FS_CardinalityType
<1>9. PICK h \in [1..c -> R] : Rising(h)
  BY <1>5, <1>6 DEF Listing
<1> DEFINE g == [i \in 1..(c + 1) |-> IF i <= c THEN h[i] ELSE n]
<1>10. g \in [1..Cardinality(S) -> S]
  <2>1. \A i \in 1..(c + 1) : g[i] \in S
    <3>1. R \subseteq S
      OBVIOUS
    <3>2. n \in S /\ c \in Nat
      BY <1>7, <1>8
    <3> HIDE DEF R, c
    <3> SUFFICES ASSUME NEW i \in 1..(c + 1)
                 PROVE  (IF i <= c THEN h[i] ELSE n) \in S
      OBVIOUS
    <3>3. i <= c => i \in 1..c
      BY <3>2
    <3> QED BY <1>9, <3>1, <3>2, <3>3
  <2>2. g \in [1..(c + 1) -> S]
    <3> HIDE DEF c
    <3> QED BY <2>1
  <2> QED BY <1>8, <2>2
<1>11. Rising(g)
  <2>1. Len(g) = c + 1 /\ Len(h) = c
    BY <1>8, <1>9
  <2>2. ASSUME NEW i \in 1..(c + 1), NEW j \in 1..(c + 1), i < j
        PROVE  g[i] < g[j]
    <3> HIDE DEF R, c
    <3>1. i \in 1..c /\ h[i] \in 1..(n - 1)
      <4>1. i \in 1..c
        BY <1>8, <2>2
      <4> QED BY <1>6, <1>9, <4>1
    <3>2. CASE j \in 1..c
      <4>1. h[i] < h[j]
        BY <1>9, <2>1, <2>2, <3>1, <3>2 DEF Rising
      <4> QED BY <1>8, <3>1, <3>2, <4>1
    <3>3. CASE j = c + 1
      BY <1>5, <1>8, <3>1, <3>3
    <3> QED BY <1>8, <3>2, <3>3
  <2> QED BY <2>1, <2>2 DEF Rising
<1> QED BY <1>3, <1>10, <1>11 DEF Listing

LEMMA HistoryIs ==
  ASSUME NEW g, NEW S, pushed \in Seq(S)
  PROVE  /\ History(g) \in Seq(1..Len(pushed))
         /\ \A i \in 1..Len(History(g)) : pushed[History(g)[i]].thread = g
         /\ Rising(History(g))
<1> DEFINE said == {id \in DOMAIN pushed : pushed[id].thread = g}
           c == Cardinality(said)
<1>1. DOMAIN pushed = 1..Len(pushed) /\ Len(pushed) \in Nat
  OBVIOUS
<1>2. said \in SUBSET (1..Len(pushed)) /\ c \in Nat
  <2>1. said \in SUBSET (1..Len(pushed))
    BY <1>1
  <2>2. IsFiniteSet(1..Len(pushed))
    BY <1>1, FS_Interval
  <2>3. IsFiniteSet(said)
    BY <2>1, <2>2, FS_Subset
  <2> QED BY <2>1, <2>3, FS_CardinalityType
<1>3. History(g) \in Listing(said)
  <2>1. Listing(said) # {}
    BY <1>1, <1>2, ListingExists, Zenon
  <2>2. History(g) = CHOOSE h \in [1..c -> said] : Rising(h)
    BY Zenon DEF History, IsSorted, Rising
  <2> QED BY <2>1, <2>2, Zenon DEF Listing
<1>4. History(g) \in [1..c -> said] /\ Rising(History(g))
  BY <1>3, Zenon DEF Listing
<1> HIDE DEF c
<1>5. Len(History(g)) = c
  BY <1>2, <1>4
<1> QED BY <1>2, <1>4, <1>5

-----------------------------------------------------------------------------
(* The shape of the state.                                                  *)
Phase == Active \cup Ended \cup {"waiting"}

(* A job when p messages were pushed, m monitors started and n jobs queued. *)
JobOver(p, m, n) ==
  [id : 1..p, mon : 1..m, phase : Phase, late : BOOLEAN,
   context : Seq(1..p), quote : 0..n]

(* A monitor keeps the configuration it resolved when it started.           *)
Resolved == {ResolveConfig(x[1], x[2]) : x \in Configuration \X Lookups}

MonitorRecord ==
  [source : Configuration, cfg : Resolved, ok : Lookups, stopped : BOOLEAN,
   filled : SUBSET Nat]

Notice == [to : Group \X User, fate : {"sending", "shown", "failed"}]

(* The guard's records, when n warnings were sent.                          *)
StrikesWith(n) == [Group \X User -> [count : Nat, warned : BOOLEAN, notice : 0..n]]

GuardGood ==
  /\ notices \in Seq(Notice)
  /\ strikes \in StrikesWith(Len(notices))
  /\ removals \in [Group \X User -> Nat]

Shaped ==
  /\ monitors \in Seq(MonitorRecord)
  /\ \A n \in 1..Len(monitors) :
       monitors[n].cfg = ResolveConfig(monitors[n].source, monitors[n].ok)
  /\ callbacks \in Seq(1..Len(monitors))
  /\ pushed \in Seq(Shape)
  /\ remembered \in Memory(1..Len(pushed))
  /\ jobs \in Seq(JobOver(Len(pushed), Len(monitors), Len(jobs)))
  /\ buffer \in [Group -> Seq(1..Len(pushed))]
  /\ inbound \in Seq((Group \cup User) \X (1..Len(jobs)))
  /\ msgIds \in Seq(1..Len(pushed))
  /\ GuardGood

LEMMA SeqGrows ==
  ASSUME NEW S, NEW T, S \subseteq T, NEW s \in Seq(S)
  PROVE  s \in Seq(T)
<1>1. \A i \in 1..Len(s) : s[i] \in T
  OBVIOUS
<1> QED BY <1>1

LEMMA IntervalGrows ==
  ASSUME NEW m \in Nat, NEW n \in Nat, m <= n
  PROVE  1..m \subseteq 1..n /\ 0..m \subseteq 0..n
OBVIOUS

LEMMA JobGrows ==
  ASSUME NEW p \in Nat, NEW p2 \in Nat, NEW m \in Nat, NEW m2 \in Nat,
         NEW n \in Nat, NEW n2 \in Nat, p <= p2, m <= m2, n <= n2
  PROVE  JobOver(p, m, n) \subseteq JobOver(p2, m2, n2)
<1>1. 1..p \subseteq 1..p2 /\ 1..m \subseteq 1..m2 /\ 0..n \subseteq 0..n2
  BY IntervalGrows
<1>2. Seq(1..p) \subseteq Seq(1..p2)
  BY <1>1, SeqGrows
<1> QED BY <1>1, <1>2 DEF JobOver

LEMMA Lengths ==
  ASSUME Shaped
  PROVE  /\ Len(monitors) \in Nat /\ DOMAIN monitors = 1..Len(monitors)
         /\ Len(pushed) \in Nat /\ DOMAIN pushed = 1..Len(pushed)
         /\ Len(jobs) \in Nat /\ DOMAIN jobs = 1..Len(jobs)
         /\ Len(inbound) \in Nat /\ DOMAIN inbound = 1..Len(inbound)
BY DEF Shaped

LEMMA JobFields ==
  ASSUME Shaped, NEW j \in DOMAIN jobs
  PROVE  /\ j \in 1..Len(jobs)
         /\ jobs[j] \in JobOver(Len(pushed), Len(monitors), Len(jobs))
         /\ jobs[j].id \in 1..Len(pushed)
         /\ jobs[j].mon \in 1..Len(monitors)
         /\ jobs[j].phase \in Phase
         /\ jobs[j].late \in BOOLEAN
         /\ jobs[j].context \in Seq(1..Len(pushed))
         /\ jobs[j].quote \in 0..Len(jobs)
<1>1. jobs[j] \in JobOver(Len(pushed), Len(monitors), Len(jobs))
  BY DEF Shaped
<1> QED BY <1>1, Lengths DEF JobOver

LEMMA MsgFields ==
  ASSUME Shaped, NEW i \in 1..Len(pushed)
  PROVE  /\ pushed[i] \in Shape
         /\ pushed[i].thread \in Group \cup User
         /\ pushed[i].from \in User
         /\ pushed[i].ids \in BOOLEAN
<1>1. pushed[i] \in Shape
  BY DEF Shaped
<1>2. pushed[i] \in MessageType
  BY <1>1, MonitorAssumption
<1> QED BY <1>1, <1>2 DEF MessageType

(* What becomes of the jobs when only job j changes.                        *)
Changes(j) ==
  /\ DOMAIN jobs' = DOMAIN jobs
  /\ Len(jobs') = Len(jobs)
  /\ \A k \in DOMAIN jobs : k # j => jobs'[k] = jobs[k]
  /\ jobs'[j].id = jobs[j].id
  /\ jobs'[j].mon = jobs[j].mon

Moves(j, p) ==
  /\ Changes(j)
  /\ jobs'[j].phase = p
  /\ jobs'[j].late = jobs[j].late
  /\ jobs'[j].context = jobs[j].context
  /\ jobs'[j].quote = jobs[j].quote

LEMMA ExceptJob ==
  ASSUME NEW S, jobs \in Seq(S), NEW j \in DOMAIN jobs, NEW r \in S,
         jobs' = [jobs EXCEPT ![j] = r]
  PROVE  /\ jobs' \in Seq(S)
         /\ DOMAIN jobs' = DOMAIN jobs /\ Len(jobs') = Len(jobs)
         /\ \A k \in DOMAIN jobs : jobs'[k] = IF k = j THEN r ELSE jobs[k]
BY ExceptSeq

LEMMA GotoMoves ==
  ASSUME Shaped, NEW j \in DOMAIN jobs, NEW p \in Phase, Goto(j, p)
  PROVE  Moves(j, p) /\ jobs' \in Seq(JobOver(Len(pushed), Len(monitors), Len(jobs)))
<1> DEFINE S == JobOver(Len(pushed), Len(monitors), Len(jobs))
           r == [jobs[j] EXCEPT !.phase = p]
<1>1. jobs \in Seq(S)
  BY DEF Shaped
<1>2. /\ r \in S
      /\ r.id = jobs[j].id /\ r.mon = jobs[j].mon /\ r.phase = p
      /\ r.late = jobs[j].late /\ r.context = jobs[j].context
      /\ r.quote = jobs[j].quote
  BY JobFields DEF JobOver
<1>3. jobs' = [jobs EXCEPT ![j] = r]
  BY DEF Goto
<1> HIDE DEF S, r
<1>4. /\ jobs' \in Seq(S)
      /\ DOMAIN jobs' = DOMAIN jobs /\ Len(jobs') = Len(jobs)
      /\ \A k \in DOMAIN jobs : jobs'[k] = IF k = j THEN r ELSE jobs[k]
  BY <1>1, <1>2, <1>3, ExceptJob, ZenonT(30)
<1> QED BY <1>2, <1>4 DEF S, Moves, Changes

LEMMA TakeContextMoves ==
  ASSUME Shaped, NEW j \in DOMAIN jobs, NEW c \in Seq(1..Len(pushed)),
         jobs' = [jobs EXCEPT ![j].phase = "session", ![j].context = c]
  PROVE  /\ Changes(j)
         /\ jobs'[j].phase = "session" /\ jobs'[j].late = jobs[j].late
         /\ jobs'[j].context = c /\ jobs'[j].quote = jobs[j].quote
         /\ jobs' \in Seq(JobOver(Len(pushed), Len(monitors), Len(jobs)))
<1> DEFINE S == JobOver(Len(pushed), Len(monitors), Len(jobs))
           r == [jobs[j] EXCEPT !.phase = "session", !.context = c]
<1>1. jobs \in Seq(S)
  BY DEF Shaped
<1>2. /\ r \in S
      /\ r.id = jobs[j].id /\ r.mon = jobs[j].mon /\ r.phase = "session"
      /\ r.late = jobs[j].late /\ r.context = c
      /\ r.quote = jobs[j].quote
  BY JobFields DEF JobOver, Phase, Active
<1>3. jobs' = [jobs EXCEPT ![j] = r]
  OBVIOUS
<1> HIDE DEF S, r
<1>4. /\ jobs' \in Seq(S)
      /\ DOMAIN jobs' = DOMAIN jobs /\ Len(jobs') = Len(jobs)
      /\ \A k \in DOMAIN jobs : jobs'[k] = IF k = j THEN r ELSE jobs[k]
  BY <1>1, <1>2, <1>3, ExceptJob, ZenonT(30)
<1> QED BY <1>2, <1>4 DEF S, Changes

LEMMA TakeQuoteMoves ==
  ASSUME Shaped, NEW j \in DOMAIN jobs, NEW q \in 0..Len(jobs),
         jobs' = [jobs EXCEPT ![j].phase = "reply", ![j].quote = q]
  PROVE  /\ Changes(j)
         /\ jobs'[j].phase = "reply" /\ jobs'[j].late = jobs[j].late
         /\ jobs'[j].context = jobs[j].context /\ jobs'[j].quote = q
         /\ jobs' \in Seq(JobOver(Len(pushed), Len(monitors), Len(jobs)))
<1> DEFINE S == JobOver(Len(pushed), Len(monitors), Len(jobs))
           r == [jobs[j] EXCEPT !.phase = "reply", !.quote = q]
<1>1. jobs \in Seq(S)
  BY DEF Shaped
<1>2. /\ r \in S
      /\ r.id = jobs[j].id /\ r.mon = jobs[j].mon /\ r.phase = "reply"
      /\ r.late = jobs[j].late /\ r.context = jobs[j].context
      /\ r.quote = q
  BY JobFields DEF JobOver, Phase, Active
<1>3. jobs' = [jobs EXCEPT ![j] = r]
  OBVIOUS
<1> HIDE DEF S, r
<1>4. /\ jobs' \in Seq(S)
      /\ DOMAIN jobs' = DOMAIN jobs /\ Len(jobs') = Len(jobs)
      /\ \A k \in DOMAIN jobs : jobs'[k] = IF k = j THEN r ELSE jobs[k]
  BY <1>1, <1>2, <1>3, ExceptJob, ZenonT(30)
<1> QED BY <1>2, <1>4 DEF S, Changes

LEMMA DeadlineMoves ==
  ASSUME Shaped, NEW j \in DOMAIN jobs, jobs' = [jobs EXCEPT ![j].late = TRUE]
  PROVE  /\ Changes(j)
         /\ jobs'[j].phase = jobs[j].phase /\ jobs'[j].late = TRUE
         /\ jobs'[j].context = jobs[j].context /\ jobs'[j].quote = jobs[j].quote
         /\ jobs' \in Seq(JobOver(Len(pushed), Len(monitors), Len(jobs)))
<1> DEFINE S == JobOver(Len(pushed), Len(monitors), Len(jobs))
           r == [jobs[j] EXCEPT !.late = TRUE]
<1>1. jobs \in Seq(S)
  BY DEF Shaped
<1>2. /\ r \in S
      /\ r.id = jobs[j].id /\ r.mon = jobs[j].mon /\ r.phase = jobs[j].phase
      /\ r.late = TRUE /\ r.context = jobs[j].context
      /\ r.quote = jobs[j].quote
  BY JobFields DEF JobOver
<1>3. jobs' = [jobs EXCEPT ![j] = r]
  OBVIOUS
<1> HIDE DEF S, r
<1>4. /\ jobs' \in Seq(S)
      /\ DOMAIN jobs' = DOMAIN jobs /\ Len(jobs') = Len(jobs)
      /\ \A k \in DOMAIN jobs : jobs'[k] = IF k = j THEN r ELSE jobs[k]
  BY <1>1, <1>2, <1>3, ExceptJob, ZenonT(30)
<1> QED BY <1>2, <1>4 DEF S, Changes

LEMMA WaitingIsFinite ==
  ASSUME Shaped, NEW n, NEW t
  PROVE  /\ WaitingIn(n, t) \in SUBSET Nat
         /\ IsFiniteSet(WaitingIn(n, t))
         /\ Cardinality(WaitingIn(n, t)) \in Nat
<1>1. WaitingIn(n, t) \in SUBSET (1..Len(jobs)) /\ Len(jobs) \in Nat
  BY Lengths DEF WaitingIn
<1>2. IsFiniteSet(1..Len(jobs))
  BY <1>1, FS_Interval
<1>3. IsFiniteSet(WaitingIn(n, t))
  BY <1>1, <1>2, FS_Subset
<1> QED BY <1>1, <1>3, FS_CardinalityType

(* A new job comes last; the thread's queue may lose its oldest entry.      *)
Joins(id, n) ==
  LET new == Len(jobs) + 1
      t   == pushed'[id].thread
  IN /\ Len(jobs') = new
     /\ DOMAIN jobs' = 1..new
     /\ \A k \in DOMAIN jobs :
          /\ jobs'[k].id = jobs[k].id /\ jobs'[k].mon = jobs[k].mon
          /\ jobs'[k].late = jobs[k].late
          /\ jobs'[k].context = jobs[k].context
          /\ jobs'[k].quote = jobs[k].quote
          /\ \/ jobs'[k].phase = jobs[k].phase
             \/ jobs[k].phase = "waiting" /\ jobs'[k].phase = "skipped"
     /\ jobs'[new].id = id /\ jobs'[new].mon = n
     /\ jobs'[new].phase = "waiting" /\ jobs'[new].late = FALSE
     /\ jobs'[new].context = <<>> /\ jobs'[new].quote = 0
     /\ \/ Cardinality(WaitingIn(n, t)) < QueueMax
        \/ \E k \in WaitingIn(n, t) : jobs'[k].phase = "skipped"

LEMMA EnqueueJoins ==
  ASSUME Shaped, NEW P \in Nat, Len(pushed) <= P,
         NEW id \in 1..P, NEW n \in 1..Len(monitors), Enqueue(id, <<n>>)
  PROVE  Joins(id, n) /\ jobs' \in Seq(JobOver(P, Len(monitors), Len(jobs')))
<1> DEFINE W == WaitingIn(n, pushed'[id].thread)
           S == JobOver(P, Len(monitors), Len(jobs) + 1)
           entry == [id |-> id, mon |-> n, phase |-> "waiting", late |-> FALSE,
                     context |-> <<>>, quote |-> 0]
           lost == IF Cardinality(W) >= QueueMax THEN {Oldest(W)} ELSE {}
           Out(j) == [jobs[j] EXCEPT !.phase = "skipped"]
           kept == [j \in DOMAIN jobs |-> IF j \in lost THEN Out(j) ELSE jobs[j]]
<1>1. jobs' = kept \o <<entry>>
  <2>1. DOMAIN <<n>> = 1..1 /\ <<n>>[1] = n /\ ToSet(<<n>>) = {n}
    BY DEF ToSet
  <2>2. lost = {Oldest(WaitingIn(m, pushed'[id].thread)) :
                  m \in {m \in ToSet(<<n>>) :
                           Cardinality(WaitingIn(m, pushed'[id].thread)) >= QueueMax}}
    BY <2>1
  <2>3. [i \in DOMAIN <<n>> |-> [id |-> id, mon |-> <<n>>[i], phase |-> "waiting",
                                 late |-> FALSE, context |-> <<>>, quote |-> 0]]
          = <<entry>>
    <3> DEFINE Queued(m) == [id |-> id, mon |-> m, phase |-> "waiting", late |-> FALSE,
                             context |-> <<>>, quote |-> 0]
    <3>1. Queued(<<n>>[1]) = entry
      BY <2>1
    <3>2. [i \in DOMAIN <<n>> |-> Queued(<<n>>[i])] = [i \in 1..1 |-> entry]
      <4> HIDE DEF Queued, entry
      <4>1. \A i \in 1..1 : Queued(<<n>>[i]) = entry
        BY <3>1
      <4> QED BY <2>1, <4>1
    <3> HIDE DEF entry
    <3>3. [i \in 1..1 |-> entry] = <<entry>>
      OBVIOUS
    <3> QED BY <3>2, <3>3
  <2> HIDE DEF entry, lost
  <2> QED BY <2>2, <2>3 DEF Enqueue
<1>2. entry \in S
  BY Lengths DEF JobOver, Phase
<1>3. jobs \in Seq(S)
  <2>1. JobOver(Len(pushed), Len(monitors), Len(jobs)) \subseteq S
    <3>1. /\ Len(pushed) \in Nat /\ Len(monitors) \in Nat /\ Len(jobs) \in Nat
          /\ Len(jobs) + 1 \in Nat /\ Len(jobs) <= Len(jobs) + 1
          /\ Len(monitors) <= Len(monitors)
      BY Lengths
    <3>2. ASSUME NEW q \in Nat, Len(jobs) <= q
          PROVE  JobOver(Len(pushed), Len(monitors), Len(jobs))
                   \subseteq JobOver(P, Len(monitors), q)
      BY <3>1, <3>2, JobGrows, Zenon
    <3> QED BY <3>1, <3>2
  <2> QED BY <2>1, SeqGrows DEF Shaped
<1>4. /\ kept \in Seq(S) /\ Len(kept) = Len(jobs)
      /\ \A k \in DOMAIN jobs :
           /\ kept[k].id = jobs[k].id /\ kept[k].mon = jobs[k].mon
           /\ kept[k].late = jobs[k].late
           /\ kept[k].context = jobs[k].context
           /\ kept[k].quote = jobs[k].quote
           /\ \/ kept[k].phase = jobs[k].phase
              \/ jobs[k].phase = "waiting" /\ kept[k].phase = "skipped"
      /\ \/ Cardinality(W) < QueueMax
         \/ \E k \in W : kept[k].phase = "skipped"
  <2>1. \A j \in lost : j \in W /\ j \in DOMAIN jobs /\ jobs[j].phase = "waiting"
    <3>1. CASE Cardinality(W) >= QueueMax
      <4>1. W # {} /\ W \in SUBSET Nat
        <5>1. Cardinality({}) = 0 /\ QueueMax \in Nat \ {0}
          BY FS_EmptySet, MonitorAssumption
        <5>2. W \in SUBSET Nat
          BY WaitingIsFinite
        <5>3. W # {}
          <6>1. W = {} => Cardinality(W) = 0
            BY <5>1, Zenon
          <6>2. Cardinality(W) # 0
            BY <3>1, <5>1, WaitingIsFinite
          <6> QED BY <6>1, <6>2, Zenon
        <5> QED BY <5>2, <5>3
      <4>2. Oldest(W) \in W
        BY <4>1, OldestIsFirst
      <4> QED BY <3>1, <4>2 DEF WaitingIn
    <3> QED BY <3>1
  <2>2. ASSUME NEW j \in DOMAIN jobs
        PROVE  /\ Out(j) \in S
               /\ Out(j).id = jobs[j].id /\ Out(j).mon = jobs[j].mon
               /\ Out(j).phase = "skipped"
               /\ Out(j).late = jobs[j].late /\ Out(j).context = jobs[j].context
               /\ Out(j).quote = jobs[j].quote
    <3>1. jobs[j] \in S
      BY <1>3
    <3> QED BY <3>1 DEF JobOver, Phase, Ended
  <2>3. \/ Cardinality(W) < QueueMax
        \/ \E k \in W : k \in lost
    <3>1. Cardinality(W) \in Nat /\ QueueMax \in Nat
      BY WaitingIsFinite, MonitorAssumption
    <3>2. CASE Cardinality(W) >= QueueMax
      BY <2>1, <3>2
    <3> QED BY <3>1, <3>2
  <2>4. DOMAIN jobs = 1..Len(jobs) /\ Len(jobs) \in Nat
    BY Lengths
  <2>5. \A j \in DOMAIN jobs : jobs[j] \in S
    BY <1>3
  <2> HIDE DEF S, W, lost, Out
  <2>6. kept \in [1..Len(jobs) -> S]
    BY <2>2, <2>4, <2>5
  <2>7. kept \in Seq(S) /\ Len(kept) = Len(jobs)
    BY <2>4, <2>6
  <2>8. \A k \in DOMAIN jobs : kept[k] = IF k \in lost THEN Out(k) ELSE jobs[k]
    OBVIOUS
  <2> HIDE DEF kept
  <2> QED BY <2>1, <2>2, <2>3, <2>7, <2>8
<1> HIDE DEF kept, S, W, entry
<1>5. /\ jobs' \in Seq(S)
      /\ Len(jobs') = Len(jobs) + 1
      /\ \A k \in DOMAIN jobs : jobs'[k] = kept[k]
      /\ jobs'[Len(jobs) + 1] = entry
  <2>1. jobs' = Append(kept, entry)
    BY <1>1, <1>2, <1>4
  <2> QED BY <1>2, <1>4, <2>1, AppendProperties, Lengths
<1>6. DOMAIN jobs' = 1..(Len(jobs) + 1)
  BY <1>5, Lengths
<1>7. \/ Cardinality(W) < QueueMax
      \/ \E k \in W : jobs'[k].phase = "skipped"
  <2>1. \A k \in W : k \in DOMAIN jobs
    BY DEF W, WaitingIn
  <2> QED BY <1>4, <1>5, <2>1
<1>8. \A k \in DOMAIN jobs :
          /\ jobs'[k].id = jobs[k].id /\ jobs'[k].mon = jobs[k].mon
          /\ jobs'[k].late = jobs[k].late
          /\ jobs'[k].context = jobs[k].context
          /\ jobs'[k].quote = jobs[k].quote
          /\ \/ jobs'[k].phase = jobs[k].phase
             \/ jobs[k].phase = "waiting" /\ jobs'[k].phase = "skipped"
  BY <1>4, <1>5
<1>9. jobs' \in Seq(JobOver(P, Len(monitors), Len(jobs')))
  BY <1>5 DEF S
<1>10. /\ entry.id = id /\ entry.mon = n /\ entry.phase = "waiting"
       /\ entry.late = FALSE /\ entry.context = <<>> /\ entry.quote = 0
  BY DEF entry
<1> QED BY <1>5, <1>6, <1>7, <1>8, <1>9, <1>10 DEF Joins, W

(* One attempt: the second warns, the third and later ones remove.          *)
LEMMA StrikeOnce ==
  ASSUME GuardGood, NEW k \in Group \X User, NEW n, Strike(k, <<n>>)
  PROVE  LET r == strikes[k]
             w == ~r.warned /\ r.count + 1 >= 2 /\ ~Struck(r.count + 1)
         IN /\ r.count \in Nat /\ r.warned \in BOOLEAN /\ r.notice \in 0..Len(notices)
            /\ Len(notices) \in Nat
            /\ removals' = [removals EXCEPT
                              ![k] = @ + (IF Struck(r.count + 1) THEN 1 ELSE 0)]
            /\ notices' = IF w THEN Append(notices, [to |-> k, fate |-> "sending"])
                          ELSE notices
            /\ strikes' = [strikes EXCEPT
                 ![k] = [count  |-> r.count + 1, warned |-> r.warned \/ w,
                         notice |-> IF w THEN Len(notices) + 1 ELSE r.notice]]
<1> DEFINE r == strikes[k]
           Counts == {r.count + i : i \in DOMAIN <<n>>}
           w == ~r.warned /\ r.count + 1 >= 2 /\ ~Struck(r.count + 1)
<1>1. /\ r.count \in Nat /\ r.warned \in BOOLEAN /\ r.notice \in 0..Len(notices)
      /\ Len(notices) \in Nat
  BY DEF GuardGood, StrikesWith
<1>2. Counts = {r.count + 1} /\ Len(<<n>>) = 1
  OBVIOUS
<1>3. (~r.warned /\ \E c \in Counts : c >= 2 /\ ~Struck(c)) = w
  BY <1>2
<1>4. Cardinality({c \in Counts : Struck(c)}) = IF Struck(r.count + 1) THEN 1 ELSE 0
  <2>1. CASE Struck(r.count + 1)
    <3>1. {c \in Counts : Struck(c)} = {r.count + 1}
      BY <1>2, <2>1
    <3> QED BY <2>1, <3>1, FS_Singleton
  <2>2. CASE ~Struck(r.count + 1)
    <3>1. {c \in Counts : Struck(c)} = {}
      BY <1>2, <2>2
    <3> QED BY <2>2, <3>1, FS_EmptySet
  <2> QED BY <2>1, <2>2
<1>5. /\ removals' = [removals EXCEPT ![k] = @ + Cardinality({c \in Counts : Struck(c)})]
      /\ notices' = IF ~r.warned /\ \E c \in Counts : c >= 2 /\ ~Struck(c)
                    THEN Append(notices, [to |-> k, fate |-> "sending"]) ELSE notices
      /\ strikes' = [strikes EXCEPT
           ![k] = [count  |-> r.count + Len(<<n>>),
                   warned |-> r.warned
                              \/ (~r.warned /\ \E c \in Counts : c >= 2 /\ ~Struck(c)),
                   notice |-> IF ~r.warned /\ \E c \in Counts : c >= 2 /\ ~Struck(c)
                              THEN Len(notices) + 1 ELSE r.notice]]
  BY DEF Strike
<1> HIDE DEF Counts, w, r
<1>6. /\ removals' = [removals EXCEPT ![k] = @ + (IF Struck(r.count + 1) THEN 1 ELSE 0)]
      /\ notices' = IF w THEN Append(notices, [to |-> k, fate |-> "sending"]) ELSE notices
      /\ strikes' = [strikes EXCEPT
           ![k] = [count  |-> r.count + 1, warned |-> r.warned \/ w,
                   notice |-> IF w THEN Len(notices) + 1 ELSE r.notice]]
  BY <1>2, <1>3, <1>4, <1>5
<1> QED BY <1>1, <1>6 DEF r, w

LEMMA StrikesGrow ==
  ASSUME GuardGood, NEW n \in Nat, Len(notices) <= n
  PROVE  strikes \in StrikesWith(n)
<1>1. 0..Len(notices) \subseteq 0..n
  BY DEF GuardGood
<1> QED BY <1>1 DEF GuardGood, StrikesWith

LEMMA StrikeTyped ==
  ASSUME GuardGood, NEW k \in Group \X User, NEW n, Strike(k, <<n>>)
  PROVE  GuardGood'
<1> DEFINE r == strikes[k]
           w == ~r.warned /\ r.count + 1 >= 2 /\ ~Struck(r.count + 1)
           note == [to |-> k, fate |-> "sending"]
<1>1. /\ r.count \in Nat /\ r.warned \in BOOLEAN /\ r.notice \in 0..Len(notices)
      /\ Len(notices) \in Nat
      /\ removals' = [removals EXCEPT ![k] = @ + (IF Struck(r.count + 1) THEN 1 ELSE 0)]
      /\ notices' = IF w THEN Append(notices, note) ELSE notices
      /\ strikes' = [strikes EXCEPT
           ![k] = [count  |-> r.count + 1, warned |-> r.warned \/ w,
                   notice |-> IF w THEN Len(notices) + 1 ELSE r.notice]]
  BY StrikeOnce
<1>2. note \in Notice
  BY DEF Notice
<1>3. notices' \in Seq(Notice) /\ Len(notices') = IF w THEN Len(notices) + 1 ELSE Len(notices)
  <2> HIDE DEF note
  <2> QED BY <1>1, <1>2, AppendProperties DEF GuardGood
<1>4. removals' \in [Group \X User -> Nat]
  BY <1>1 DEF GuardGood
<1>5. strikes \in StrikesWith(Len(notices'))
  BY <1>1, <1>3, StrikesGrow
<1>6. [count  |-> r.count + 1, warned |-> r.warned \/ w,
       notice |-> IF w THEN Len(notices) + 1 ELSE r.notice]
        \in [count : Nat, warned : BOOLEAN, notice : 0..Len(notices')]
  <2>1. (r.warned \/ w) \in BOOLEAN
    BY <1>1
  <2>2. (IF w THEN Len(notices) + 1 ELSE r.notice) \in 0..Len(notices')
    BY <1>1, <1>3
  <2> QED BY <1>1, <2>1, <2>2
<1>7. strikes' \in StrikesWith(Len(notices'))
  BY <1>1, <1>5, <1>6 DEF StrikesWith
<1> QED BY <1>3, <1>4, <1>7 DEF GuardGood

(* The message callback: which jobs there are afterwards, and the guard.    *)
LEMMA OnMessageShapes ==
  ASSUME Shaped, NEW P \in Nat, Len(pushed) <= P, NEW id \in 1..P,
         pushed' \in Seq(Shape), Len(pushed') = P,
         NEW expired \in 1..DedupMax, Len(remembered.ids) <= DedupMax,
         OnMessage(id, expired)
  PROVE  /\ remembered' \in Memory(1..P)
         /\ Len(remembered'.ids) <= DedupMax
         /\ Contains(remembered'.ids, id)
         /\ remembered.gone \subseteq remembered'.gone
         /\ \A x : Contains(remembered.ids, x) =>
                     Contains(remembered'.ids, x) \/ x \in remembered'.gone
         /\ jobs' \in Seq(JobOver(P, Len(monitors), Len(jobs')))
         /\ \/ jobs' = jobs
            \/ \E n \in 1..Len(monitors) : Joins(id, n)
         /\ GuardGood'
         /\ \/ UNCHANGED guard
            \/ \E k \in Group \X User, n \in 1..Len(monitors) : Strike(k, <<n>>)
<1>1. /\ remembered' \in Memory(1..P)
      /\ Len(remembered'.ids) <= DedupMax
      /\ Contains(remembered'.ids, id)
      /\ remembered.gone \subseteq remembered'.gone
      /\ \A x : Contains(remembered.ids, x) =>
                  Contains(remembered'.ids, x) \/ x \in remembered'.gone
  <2>1. remembered \in Memory(1..P)
    <3>1. 1..Len(pushed) \subseteq 1..P
      BY Lengths
    <3>2. remembered.ids \in Seq(1..P)
      BY <3>1, SeqGrows DEF Shaped, Memory
    <3> QED BY <3>1, <3>2 DEF Shaped, Memory
  <2>2. remembered' = Remember(remembered, id, expired) /\ DedupMax \in Nat \ {0}
    BY MonitorAssumption DEF OnMessage
  <2> DEFINE S == 1..P
  <2>3. id \in S /\ remembered \in Memory(S)
    BY <2>1
  <2> HIDE DEF S
  <2>4. LET r == Remember(remembered, id, expired)
        IN /\ r \in Memory(S)
           /\ Len(r.ids) <= DedupMax
           /\ Contains(r.ids, id)
           /\ remembered.gone \subseteq r.gone
           /\ \A x : Contains(remembered.ids, x) => Contains(r.ids, x) \/ x \in r.gone
    BY <2>2, <2>3, RememberKeeps
  <2> QED BY <2>2, <2>4 DEF S
<1>2. PICK n \in 1..Len(monitors) :
         /\ n = Head(callbacks)
         /\ CASE pushed'[id].kind = "notice" -> UNCHANGED <<jobs, guard>>
              [] pushed'[id].kind = "attack" /\ pushed'[id].thread \in Group ->
                   Strike(<<pushed'[id].thread, pushed'[id].from>>, <<n>>)
                   /\ UNCHANGED jobs
              [] OTHER -> Enqueue(id, <<n>>) /\ UNCHANGED guard
  <2>1. Head(callbacks) \in 1..Len(monitors)
    BY HeadTailProperties DEF Shaped, OnMessage
  <2>2. (IF Contains(remembered'.ids, id) THEN <<Head(callbacks)>> ELSE callbacks)
          = <<Head(callbacks)>>
    BY <1>1
  <2> QED BY <2>1, <2>2, Zenon DEF OnMessage
<1>3. /\ jobs' = jobs \/ Enqueue(id, <<n>>)
      /\ \/ UNCHANGED guard
         \/ \E k \in Group \X User : Strike(k, <<n>>)
  <2>1. CASE pushed'[id].kind = "notice"
    BY <1>2, <2>1
  <2>2. CASE pushed'[id].kind = "attack" /\ pushed'[id].thread \in Group
    <3>1. <<pushed'[id].thread, pushed'[id].from>> \in Group \X User
      <4>1. pushed'[id] \in MessageType
        BY MonitorAssumption
      <4> QED BY <2>2, <4>1 DEF MessageType
    <3>2. pushed'[id].kind # "notice"
      BY <2>2
    <3> QED BY <1>2, <2>2, <3>1, <3>2
  <2>3. CASE pushed'[id].kind # "notice"
             /\ ~(pushed'[id].kind = "attack" /\ pushed'[id].thread \in Group)
    BY <1>2, <2>3
  <2> QED BY <2>1, <2>2, <2>3
<1>4. /\ jobs' \in Seq(JobOver(P, Len(monitors), Len(jobs')))
      /\ jobs' = jobs \/ Joins(id, n)
  <2>1. CASE jobs' = jobs
    <3>1. JobOver(Len(pushed), Len(monitors), Len(jobs))
            \subseteq JobOver(P, Len(monitors), Len(jobs))
      <4>1. /\ Len(pushed) \in Nat /\ Len(monitors) \in Nat /\ Len(jobs) \in Nat
            /\ Len(jobs) <= Len(jobs) /\ Len(monitors) <= Len(monitors)
        BY Lengths
      <4> QED BY <4>1, JobGrows, Zenon
    <3>2. jobs \in Seq(JobOver(P, Len(monitors), Len(jobs)))
      BY <3>1, SeqGrows DEF Shaped
    <3> QED BY <2>1, <3>2
  <2>2. CASE Enqueue(id, <<n>>)
    BY <2>2, EnqueueJoins
  <2> QED BY <1>3, <2>1, <2>2
<1>5. GuardGood'
  <2>1. CASE UNCHANGED guard
    BY <2>1 DEF guard, Shaped, GuardGood, StrikesWith
  <2>2. CASE \E k \in Group \X User : Strike(k, <<n>>)
    BY <2>2, StrikeTyped DEF Shaped
  <2> QED BY <1>3, <2>1, <2>2
<1> QED BY <1>1, <1>3, <1>4, <1>5

-----------------------------------------------------------------------------
(* The caches never outgrow their limits.                                   *)
CachesGood ==
  /\ Len(inbound) <= InboundMax
  /\ UniqueKeys(inbound)
  /\ Len(msgIds) <= IdsMax
  /\ \A g \in Group : Len(buffer[g]) <= BufferMax

Typed == Shaped /\ CachesGood /\ Len(remembered.ids) <= DedupMax

(* What no step undoes: messages, jobs and monitors stay what they are, and *)
(* a deadline that passed has passed.                                       *)
Continues ==
  /\ Len(pushed) <= Len(pushed')
  /\ \A i \in 1..Len(pushed) : pushed'[i] = pushed[i]
  /\ Len(monitors) <= Len(monitors')
  /\ \A i \in 1..Len(monitors) :
       /\ monitors'[i].source = monitors[i].source
       /\ monitors'[i].cfg = monitors[i].cfg
       /\ monitors'[i].ok = monitors[i].ok
       /\ monitors'[i].filled = monitors[i].filled
  /\ Len(jobs) <= Len(jobs')
  /\ \A k \in DOMAIN jobs : /\ jobs'[k].id = jobs[k].id
                            /\ jobs'[k].mon = jobs[k].mon
                            /\ jobs'[k].late \in {jobs[k].late, TRUE}

LEMMA InitTyped == Init => Typed
<1> SUFFICES ASSUME Init PROVE Typed
  OBVIOUS
<1>1. Shaped
  BY DEF Init, Shaped, NoStrikes, GuardGood, StrikesWith, Memory
<1>2. CachesGood /\ Len(remembered.ids) <= DedupMax
  BY MonitorAssumption DEF Init, CachesGood, UniqueKeys
<1> QED BY <1>1, <1>2 DEF Typed

(* A step that works on a job, with what it makes of the caches.            *)
LEMMA JobStepTyped ==
  ASSUME Typed, NEW j \in DOMAIN jobs, Changes(j), jobs'[j].late \in {jobs[j].late, TRUE},
         jobs' \in Seq(JobOver(Len(pushed), Len(monitors), Len(jobs))),
         UNCHANGED <<config, pushed, remembered, guard>>,
         \/ UNCHANGED buffer
         \/ /\ buffer' \in [Group -> Seq(1..Len(pushed))]
            /\ \A g \in Group : Len(buffer'[g]) <= BufferMax,
         \/ UNCHANGED msgIds
         \/ msgIds' \in Seq(1..Len(pushed)) /\ Len(msgIds') <= IdsMax,
         \/ UNCHANGED inbound
         \/ /\ inbound' \in Seq((Group \cup User) \X (1..Len(jobs)))
            /\ Len(inbound') <= InboundMax /\ UniqueKeys(inbound')
  PROVE  Typed' /\ Continues
<1>1. /\ UNCHANGED <<monitors, callbacks, pushed, remembered, guard>>
      /\ Len(jobs') = Len(jobs)
  BY DEF Changes, config, guard
<1>2. Shaped'
  <2>1. GuardGood'
    BY <1>1 DEF Typed, Shaped, guard, GuardGood, StrikesWith
  <2> QED BY <1>1, <2>1 DEF Typed, Shaped
<1>3. CachesGood'
  BY <1>1 DEF Typed, CachesGood, UniqueKeys
<1>4. Continues
  <2>1. \A k \in DOMAIN jobs : /\ jobs'[k].id = jobs[k].id
                               /\ jobs'[k].mon = jobs[k].mon
                               /\ jobs'[k].late \in {jobs[k].late, TRUE}
    BY DEF Changes
  <2>2. \A i \in 1..Len(monitors) : /\ monitors'[i].source = monitors[i].source
                                    /\ monitors'[i].cfg = monitors[i].cfg
                                    /\ monitors'[i].ok = monitors[i].ok
                                    /\ monitors'[i].filled = monitors[i].filled
    <3>1. monitors' = monitors
      BY <1>1
    <3> QED BY <3>1, Zenon
  <2>3. /\ \A i \in 1..Len(pushed) : pushed'[i] = pushed[i]
        /\ Len(pushed) <= Len(pushed') /\ Len(jobs) <= Len(jobs')
        /\ Len(monitors) <= Len(monitors')
    BY <1>1, Lengths DEF Typed
  <2> QED BY <2>1, <2>2, <2>3 DEF Continues
<1> QED BY <1>1, <1>2, <1>3, <1>4 DEF Typed

LEMMA BeginTyped ==
  ASSUME Typed, NEW j \in DOMAIN jobs, Begin(j)
  PROVE  Typed' /\ Continues
<1> DEFINE P == 1..Len(pushed)
           T == Group \cup User
           m == Msg(j)
<1>1. jobs[j].id \in P /\ m.thread \in T /\ j \in 1..Len(jobs)
  BY JobFields, MsgFields DEF Typed, Msg
<1>2. PICK p \in Phase : Goto(j, p)
  BY DEF Begin, Phase, Active, Ended
<1>3. Moves(j, p) /\ jobs' \in Seq(JobOver(Len(pushed), Len(monitors), Len(jobs)))
  BY <1>2, GotoMoves DEF Typed
<1>4. \/ UNCHANGED msgIds
      \/ msgIds' \in Seq(P) /\ Len(msgIds') <= IdsMax
  <2>1. msgIds \in Seq(P) /\ Len(msgIds) <= IdsMax /\ IdsMax \in Nat \ {0}
    BY MonitorAssumption DEF Typed, Shaped, CachesGood
  <2> HIDE DEF P
  <2>2. /\ RecordMsgId(msgIds, jobs[j].id) \in Seq(P)
        /\ Len(RecordMsgId(msgIds, jobs[j].id)) <= IdsMax
    BY <1>1, <2>1, RecordMsgIdKeeps
  <2> QED BY <2>2 DEF Begin
<1>5. \/ UNCHANGED inbound
      \/ /\ inbound' \in Seq(T \X (1..Len(jobs)))
         /\ Len(inbound') <= InboundMax /\ UniqueKeys(inbound')
  <2> DEFINE J == 1..Len(jobs)
  <2>1. /\ inbound \in Seq(T \X J) /\ UniqueKeys(inbound)
        /\ Len(inbound) <= InboundMax /\ InboundMax \in Nat \ {0}
    BY MonitorAssumption DEF Typed, Shaped, CachesGood
  <2>2. j \in J /\ m.thread \in T
    BY <1>1
  <2> HIDE DEF T, J, m
  <2>3. LET new == CacheInbound(inbound, m.thread, j)
        IN new \in Seq(T \X J) /\ Len(new) <= InboundMax /\ UniqueKeys(new)
    BY <2>1, <2>2, CacheInboundKeeps
  <2> QED BY <2>3 DEF Begin, m, J
<1>6. UNCHANGED <<config, pushed, remembered, buffer, guard>>
  BY DEF Begin
<1>7. Changes(j) /\ jobs'[j].late = jobs[j].late
  BY <1>3 DEF Moves
<1> QED BY <1>3, <1>4, <1>5, <1>6, <1>7, JobStepTyped

LEMMA AuthorizeInGroupTyped ==
  ASSUME Typed, NEW j \in DOMAIN jobs, NEW aged,
         Msg(j).thread \in Group => aged \in 0..Len(buffer[Msg(j).thread]),
         AuthorizeInGroup(j, aged)
  PROVE  Typed' /\ Continues
<1> DEFINE P == 1..Len(pushed)
           g == Msg(j).thread
           b == Buffered(buffer[g], <<jobs[j].id>>, aged)
<1>1. PICK p \in Phase : Goto(j, p)
  BY DEF AuthorizeInGroup, Phase, Active, Ended
<1>2. Moves(j, p) /\ jobs' \in Seq(JobOver(Len(pushed), Len(monitors), Len(jobs)))
  BY <1>1, GotoMoves DEF Typed
<1>3. g \in Group /\ aged \in 0..Len(buffer[g])
  BY DEF AuthorizeInGroup
<1>4. /\ buffer \in [Group -> Seq(P)] /\ buffer[g] \in Seq(P)
      /\ <<jobs[j].id>> \in Seq(P)
      /\ \A h \in Group : Len(buffer[h]) <= BufferMax
  BY <1>3, JobFields, SMTT(20) DEF Typed, Shaped, CachesGood
<1>5. b \in Seq(P) /\ Len(b) <= BufferMax
  <2>1. BufferMax \in Nat
    BY MonitorAssumption
  <2> HIDE DEF P, g
  <2>2. LET r == Buffered(buffer[g], <<jobs[j].id>>, aged)
        IN r \in Seq(P) /\ Len(r) <= BufferMax
    BY <1>3, <1>4, <2>1, BufferedKeeps
  <2> QED BY <2>2
<1>6. UNCHANGED buffer \/ buffer' = [buffer EXCEPT ![g] = b]
  BY DEF AuthorizeInGroup
<1>7. \/ UNCHANGED buffer
      \/ buffer' \in [Group -> Seq(P)] /\ \A h \in Group : Len(buffer'[h]) <= BufferMax
  <2> HIDE DEF P, g, b
  <2> QED BY <1>3, <1>4, <1>5, <1>6
<1>8. Changes(j) /\ jobs'[j].late = jobs[j].late
  BY <1>2 DEF Moves
<1>9. UNCHANGED <<config, pushed, remembered, inbound, msgIds, guard>>
  BY DEF AuthorizeInGroup
<1> QED BY <1>2, <1>7, <1>8, <1>9, JobStepTyped

LEMMA TakeContextTyped ==
  ASSUME Typed, NEW j \in DOMAIN jobs, TakeContext(j)
  PROVE  Typed' /\ Continues
<1> DEFINE g == Msg(j).thread
<1>1. UNCHANGED <<config, pushed, remembered, inbound, msgIds, guard>>
  BY DEF TakeContext
<1>2. CASE g \in Group
  <2>1. buffer[g] \in Seq(1..Len(pushed)) /\ Shaped
    BY <1>2 DEF Typed, Shaped
  <2>2. /\ jobs' = [jobs EXCEPT ![j].phase = "session", ![j].context = buffer[g]]
        /\ buffer' = [buffer EXCEPT ![g] = <<>>]
    BY <1>2 DEF TakeContext, TakeBuffer
  <2>3. /\ Changes(j) /\ jobs'[j].late = jobs[j].late
        /\ jobs' \in Seq(JobOver(Len(pushed), Len(monitors), Len(jobs)))
    BY <2>1, <2>2, TakeContextMoves
  <2>4. /\ buffer' \in [Group -> Seq(1..Len(pushed))]
        /\ \A h \in Group : Len(buffer'[h]) <= BufferMax
    BY <1>2, <2>2, MonitorAssumption DEF Typed, Shaped, CachesGood
  <2> QED BY <1>1, <2>3, <2>4, JobStepTyped
<1>3. CASE g \notin Group
  <2>1. Goto(j, "session") /\ UNCHANGED buffer /\ "session" \in Phase
    BY <1>3 DEF TakeContext, Phase, Active
  <2>2. Moves(j, "session")
        /\ jobs' \in Seq(JobOver(Len(pushed), Len(monitors), Len(jobs)))
    BY <2>1, GotoMoves DEF Typed
  <2> QED BY <1>1, <2>1, <2>2, JobStepTyped DEF Moves
<1> QED BY <1>2, <1>3

LEMMA QuoteForIs ==
  ASSUME Shaped, NEW t
  PROVE  \/ QuoteFor(t) = 0 /\ \A a \in DOMAIN inbound : inbound[a][1] # t
         \/ \E a \in DOMAIN inbound : /\ inbound[a][1] = t
                                      /\ QuoteFor(t) = inbound[a][2]
                                      /\ QuoteFor(t) \in 1..Len(jobs)
<1> DEFINE i == Place(inbound, t)
           S == (Group \cup User) \X (1..Len(jobs))
<1>1. QuoteFor(t) = IF i = 0 THEN 0 ELSE inbound[i][2]
  BY Zenon DEF QuoteFor, Place
<1>2. inbound \in Seq(S)
  BY DEF Shaped
<1>3. \/ i = 0 /\ \A a \in 1..Len(inbound) : inbound[a][1] # t
      \/ i \in 1..Len(inbound) /\ inbound[i][1] = t
  <2> HIDE DEF S
  <2> QED BY <1>2, PlaceFound
<1> HIDE DEF i
<1> QED BY <1>1, <1>2, <1>3

LEMMA TakeQuoteTyped ==
  ASSUME Typed, NEW j \in DOMAIN jobs, TakeQuote(j)
  PROVE  Typed' /\ Continues
<1> DEFINE q == QuoteFor(Msg(j).thread)
<1>1. q \in 0..Len(jobs)
  BY QuoteForIs, Lengths DEF Typed
<1>2. jobs' = [jobs EXCEPT ![j].phase = "reply", ![j].quote = q]
  BY DEF TakeQuote
<1> HIDE DEF q
<1>3. /\ Changes(j) /\ jobs'[j].late = jobs[j].late
      /\ jobs' \in Seq(JobOver(Len(pushed), Len(monitors), Len(jobs)))
  BY <1>1, <1>2, TakeQuoteMoves DEF Typed
<1> QED BY <1>3, JobStepTyped DEF TakeQuote, caches

(* The steps that only move a job, or let its deadline pass.                *)
MovesOnly(j) ==
  /\ UNCHANGED <<config, pushed, remembered, caches, guard>>
  /\ \/ \E p \in Ended \cup {"names"} : Goto(j, p)
     \/ jobs' = [jobs EXCEPT ![j].late = TRUE]

LEMMA SimpleSteps ==
  ASSUME NEW j,
         \/ SkipStale(j) \/ Reply(j) \/ Fail(j) \/ DeadlinePasses(j)
         \/ \E approved : AuthorizeDirect(j, approved)
  PROVE  MovesOnly(j)
BY DEF SkipStale, Reply, Fail, DeadlinePasses, AuthorizeDirect, MovesOnly, Ended

LEMMA MovesOnlyTyped ==
  ASSUME Typed, NEW j \in DOMAIN jobs, MovesOnly(j)
  PROVE  Typed' /\ Continues
<1>1. CASE \E p \in Ended \cup {"names"} : Goto(j, p)
  <2>1. PICK p \in Phase : Goto(j, p)
    BY <1>1 DEF Phase, Active
  <2>2. Moves(j, p) /\ jobs' \in Seq(JobOver(Len(pushed), Len(monitors), Len(jobs)))
    BY <2>1, GotoMoves DEF Typed
  <2> QED BY <2>2, JobStepTyped DEF Moves, MovesOnly, caches
<1>2. CASE jobs' = [jobs EXCEPT ![j].late = TRUE]
  <2>1. /\ Changes(j) /\ jobs'[j].late = TRUE
        /\ jobs' \in Seq(JobOver(Len(pushed), Len(monitors), Len(jobs)))
    BY <1>2, DeadlineMoves DEF Typed
  <2> QED BY <2>1, JobStepTyped DEF MovesOnly, caches
<1> QED BY <1>1, <1>2 DEF MovesOnly

LEMMA StepTyped ==
  ASSUME Typed, NEW j \in DOMAIN jobs, Step(j)
  PROVE  Typed' /\ Continues
<1>1. CASE Begin(j)
  BY <1>1, BeginTyped
<1>2. CASE \E aged \in 0..(IF Msg(j).thread \in Group
                            THEN Len(buffer[Msg(j).thread]) ELSE 0) :
             AuthorizeInGroup(j, aged)
  BY <1>2, AuthorizeInGroupTyped
<1>3. CASE TakeContext(j)
  BY <1>3, TakeContextTyped
<1>4. CASE TakeQuote(j)
  BY <1>4, TakeQuoteTyped
<1>5. CASE MovesOnly(j)
  BY <1>5, MovesOnlyTyped
<1> QED BY <1>1, <1>2, <1>3, <1>4, <1>5, SimpleSteps DEF Step

(* The steps of the channel and the listener.                               *)
LEMMA StartMonitorTyped ==
  ASSUME Typed, NEW source \in Configuration, NEW ok \in Lookups,
         NEW filled \in SUBSET Group, StartMonitor(source, ok, filled)
  PROVE  Typed' /\ Continues
<1> DEFINE P == 1..Len(pushed)
           n == Len(monitors) + 1
           came == {id \in DOMAIN pushed :
                      /\ pushed[id].thread \in filled
                      /\ ById(pushed[id].thread) \in DOMAIN ResolveConfig(source, ok).groups}
           r == [source |-> source, cfg |-> ResolveConfig(source, ok), ok |-> ok,
                 stopped |-> FALSE, filled |-> came]
<1>1. r \in MonitorRecord /\ r.cfg = ResolveConfig(r.source, r.ok)
  <2>1. ResolveConfig(source, ok) = ResolveConfig(<<source, ok>>[1], <<source, ok>>[2])
    OBVIOUS
  <2>2. ResolveConfig(source, ok) \in Resolved
    BY <2>1 DEF Resolved
  <2>3. came \in SUBSET Nat
    BY Lengths DEF Typed
  <2> HIDE DEF came
  <2> QED BY <2>2, <2>3 DEF MonitorRecord
<1>2. monitors' = Append(monitors, r) /\ callbacks' = Append(callbacks, n)
  BY DEF StartMonitor, Register
<1>3. UNCHANGED <<pushed, remembered, jobs, inbound, msgIds, guard>>
  BY DEF StartMonitor
<1>4. /\ buffer' \in [Group -> Seq(P)]
      /\ \A g \in Group : Len(buffer'[g]) <= BufferMax
  <2> DEFINE new(g) == Buffered(buffer[g], History(g), 0)
  <2>1. ASSUME NEW g \in Group
        PROVE  new(g) \in Seq(P) /\ Len(new(g)) <= BufferMax
    <3>1. History(g) \in Seq(P)
      <4>1. pushed \in Seq(Shape)
        BY DEF Typed, Shaped
      <4> QED BY <4>1, HistoryIs
    <3>2. buffer[g] \in Seq(P) /\ 0 \in 0..Len(buffer[g]) /\ BufferMax \in Nat
      BY MonitorAssumption DEF Typed, Shaped
    <3> HIDE DEF P
    <3>3. LET b == Buffered(buffer[g], History(g), 0)
          IN b \in Seq(P) /\ Len(b) <= BufferMax
      BY <3>1, <3>2, BufferedKeeps
    <3> QED BY <3>3
  <2>2. \A g \in Group : buffer[g] \in Seq(P) /\ Len(buffer[g]) <= BufferMax
    BY DEF Typed, Shaped, CachesGood
  <2>3. PICK F \in SUBSET Group :
          buffer' = [g \in Group |-> IF g \in F THEN new(g) ELSE buffer[g]]
    <3> DEFINE F == {g \in Group : g \in filled /\
                                   ById(g) \in DOMAIN ResolveConfig(source, ok).groups}
    <3>1. buffer' = [g \in Group |-> IF g \in F THEN new(g) ELSE buffer[g]]
      BY DEF StartMonitor
    <3> QED BY <3>1
  <2> HIDE DEF P, new
  <2> QED BY <2>1, <2>2, <2>3
<1> HIDE DEF r, P
<1>5. /\ monitors' \in Seq(MonitorRecord) /\ Len(monitors') = n
      /\ \A i \in 1..Len(monitors) : monitors'[i] = monitors[i]
      /\ monitors'[n] = r
  BY <1>1, <1>2, AppendProperties DEF Typed, Shaped
<1>6. callbacks' \in Seq(1..Len(monitors'))
  <2>1. 1..Len(monitors) \subseteq 1..n /\ n \in 1..n
    BY Lengths DEF Typed
  <2>2. callbacks \in Seq(1..n)
    BY <2>1, SeqGrows DEF Typed, Shaped
  <2> QED BY <1>2, <1>5, <2>1, <2>2, AppendProperties
<1>7. jobs \in Seq(JobOver(Len(pushed), n, Len(jobs)))
  <2>1. JobOver(Len(pushed), Len(monitors), Len(jobs))
          \subseteq JobOver(Len(pushed), n, Len(jobs))
    <3>1. /\ Len(pushed) \in Nat /\ Len(monitors) \in Nat /\ Len(jobs) \in Nat
          /\ n \in Nat /\ Len(monitors) <= n
          /\ Len(pushed) <= Len(pushed) /\ Len(jobs) <= Len(jobs)
      BY Lengths DEF Typed
    <3> HIDE DEF n
    <3> QED BY <3>1, JobGrows, Zenon
  <2> QED BY <2>1, SeqGrows DEF Typed, Shaped
<1>8. Shaped'
  <2>1. ASSUME NEW i \in 1..Len(monitors')
        PROVE  monitors'[i].cfg = ResolveConfig(monitors'[i].source, monitors'[i].ok)
    <3>1. i \in 1..Len(monitors) \/ i = n
      BY <1>5, Lengths DEF Typed
    <3>2. \A k \in 1..Len(monitors) :
            monitors[k].cfg = ResolveConfig(monitors[k].source, monitors[k].ok)
      BY DEF Typed, Shaped
    <3> HIDE DEF n
    <3> QED BY <1>1, <1>5, <3>1, <3>2, Zenon
  <2>2. GuardGood'
    BY <1>3 DEF Typed, Shaped, guard, GuardGood, StrikesWith
  <2> QED BY <1>3, <1>4, <1>5, <1>6, <1>7, <2>1, <2>2 DEF Typed, Shaped, P
<1>9. CachesGood'
  BY <1>3, <1>4 DEF Typed, CachesGood, UniqueKeys
<1>10. Continues
  BY <1>3, <1>5, Lengths DEF Continues, Typed
<1> QED BY <1>3, <1>8, <1>9, <1>10 DEF Typed

LEMMA StopTyped ==
  ASSUME Typed, NEW n \in DOMAIN monitors, Stop(n)
  PROVE  Typed' /\ Continues
<1> DEFINE r == [monitors[n] EXCEPT !.stopped = TRUE]
<1>1. UNCHANGED <<callbacks, pushed, remembered, jobs, buffer, inbound, msgIds,
                  guard>>
  BY DEF Stop, caches
<1>2. monitors' = [monitors EXCEPT ![n] = r] /\ monitors \in Seq(MonitorRecord)
  BY DEF Stop, Typed, Shaped
<1>3. /\ r \in MonitorRecord
      /\ r.source = monitors[n].source /\ r.cfg = monitors[n].cfg
      /\ r.ok = monitors[n].ok /\ r.filled = monitors[n].filled
  <2>1. monitors[n] \in MonitorRecord
    BY <1>2
  <2> QED BY <2>1 DEF MonitorRecord
<1> HIDE DEF r
<1>4. /\ monitors' \in Seq(MonitorRecord) /\ Len(monitors') = Len(monitors)
      /\ \A i \in 1..Len(monitors) : monitors'[i] = IF i = n THEN r ELSE monitors[i]
  BY <1>2, <1>3, ExceptSeq
<1>5. Shaped'
  <2>1. \A i \in 1..Len(monitors') :
          monitors'[i].cfg = ResolveConfig(monitors'[i].source, monitors'[i].ok)
    <3>1. \A i \in 1..Len(monitors) :
            monitors[i].cfg = ResolveConfig(monitors[i].source, monitors[i].ok)
      BY DEF Typed, Shaped
    <3> QED BY <1>3, <1>4, <3>1
  <2>2. GuardGood'
    BY <1>1 DEF Typed, Shaped, guard, GuardGood, StrikesWith
  <2> QED BY <1>1, <1>4, <2>1, <2>2 DEF Typed, Shaped
<1>6. CachesGood'
  BY <1>1 DEF Typed, CachesGood, UniqueKeys
<1>7. Continues
  BY <1>1, <1>3, <1>4, Lengths DEF Continues, Typed
<1> QED BY <1>1, <1>5, <1>6, <1>7 DEF Typed

(* A step that leaves monitors and caches alone: pushes and the rest.       *)
LEMMA OtherStepTyped ==
  ASSUME Typed, NEW P \in Nat, Len(pushed) <= P,
         pushed' \in Seq(Shape), Len(pushed') = P,
         \A i \in 1..Len(pushed) : pushed'[i] = pushed[i],
         UNCHANGED <<monitors, caches>>,
         callbacks' = callbacks \/ callbacks' = <<>>,
         remembered' \in Memory(1..P), Len(remembered'.ids) <= DedupMax,
         jobs' \in Seq(JobOver(P, Len(monitors), Len(jobs'))),
         jobs' = jobs \/ \E id, n : Joins(id, n),
         GuardGood'
  PROVE  Typed' /\ Continues
<1>1. UNCHANGED <<monitors, buffer, inbound, msgIds>>
  BY DEF caches
<1>2. /\ Len(jobs) <= Len(jobs')
      /\ \A k \in DOMAIN jobs : /\ jobs'[k].id = jobs[k].id
                               /\ jobs'[k].mon = jobs[k].mon
                               /\ jobs'[k].late \in {jobs[k].late, TRUE}
  <2>1. CASE jobs' = jobs
    <3>1. \A k \in DOMAIN jobs : jobs'[k] = jobs[k]
      BY <2>1
    <3> QED BY <2>1, <3>1, Lengths DEF Typed
  <2>2. CASE \E id, n : Joins(id, n)
    <3>1. PICK id, n : Joins(id, n)
      BY <2>2
    <3>2. Len(jobs') = Len(jobs) + 1 /\ Len(jobs) \in Nat
      BY <3>1, Lengths DEF Joins, Typed
    <3>3. \A k \in DOMAIN jobs : /\ jobs'[k].id = jobs[k].id
                               /\ jobs'[k].mon = jobs[k].mon
                               /\ jobs'[k].late = jobs[k].late
      BY <3>1, Zenon DEF Joins
    <3>4. \A k \in DOMAIN jobs : jobs'[k].late \in {jobs[k].late, TRUE}
      BY <3>3, Zenon
    <3>5. Len(jobs) <= Len(jobs')
      BY <3>2
    <3> QED BY <3>3, <3>4, <3>5, Zenon
  <2> QED BY <2>1, <2>2
<1>3. Shaped'
  <2>1. 1..Len(pushed) \subseteq 1..P /\ 1..Len(jobs) \subseteq 1..Len(jobs')
    BY <1>2, Lengths DEF Typed
  <2>2. Seq(1..Len(pushed)) \subseteq Seq(1..P)
    BY <2>1, SeqGrows
  <2>3. buffer \in [Group -> Seq(1..P)] /\ msgIds \in Seq(1..P)
    BY <2>2 DEF Typed, Shaped
  <2>4. inbound \in Seq((Group \cup User) \X (1..Len(jobs')))
    <3>1. (Group \cup User) \X (1..Len(jobs))
            \subseteq (Group \cup User) \X (1..Len(jobs'))
      BY <2>1
    <3> QED BY <3>1, SeqGrows DEF Typed, Shaped
  <2>5. callbacks' \in Seq(1..Len(monitors))
    <3>1. callbacks \in Seq(1..Len(monitors))
      BY DEF Typed, Shaped
    <3>2. <<>> \in Seq(1..Len(monitors))
      OBVIOUS
    <3> QED BY <3>1, <3>2
  <2> QED BY <1>1, <2>3, <2>4, <2>5 DEF Shaped, Typed
<1>4. CachesGood'
  BY <1>1 DEF Typed, CachesGood, UniqueKeys
<1>5. Continues
  <2>1. Len(monitors) <= Len(monitors') /\ Len(pushed) <= Len(pushed')
    BY <1>1, Lengths DEF Typed
  <2>2. \A i \in 1..Len(monitors) : /\ monitors'[i].source = monitors[i].source
                                    /\ monitors'[i].cfg = monitors[i].cfg
                                    /\ monitors'[i].ok = monitors[i].ok
                                    /\ monitors'[i].filled = monitors[i].filled
    <3>1. monitors' = monitors
      BY <1>1
    <3> QED BY <3>1, Zenon
  <2>3. /\ \A i \in 1..Len(pushed) : pushed'[i] = pushed[i]
        /\ Len(pushed) <= Len(pushed')
    BY <2>1
  <2>4. /\ Len(jobs) <= Len(jobs')
        /\ \A k \in DOMAIN jobs : /\ jobs'[k].id = jobs[k].id
                                 /\ jobs'[k].mon = jobs[k].mon
                                 /\ jobs'[k].late \in {jobs[k].late, TRUE}
    BY <1>2
  <2>5. Len(monitors) <= Len(monitors')
    BY <2>1
  <2> QED BY <2>2, <2>3, <2>4, <2>5 DEF Continues
<1> QED BY <1>3, <1>4, <1>5 DEF Typed

LEMMA JobsRetyped ==
  ASSUME Typed, NEW P \in Nat, Len(pushed) <= P
  PROVE  /\ jobs \in Seq(JobOver(P, Len(monitors), Len(jobs)))
         /\ remembered \in Memory(1..P)
<1>1. /\ Len(pushed) \in Nat /\ Len(monitors) \in Nat /\ Len(jobs) \in Nat
      /\ Len(monitors) <= Len(monitors) /\ Len(jobs) <= Len(jobs)
  BY Lengths DEF Typed
<1>2. JobOver(Len(pushed), Len(monitors), Len(jobs))
        \subseteq JobOver(P, Len(monitors), Len(jobs))
  BY <1>1, JobGrows, Zenon
<1>3. 1..Len(pushed) \subseteq 1..P
  BY <1>1
<1>4. remembered.ids \in Seq(1..P) /\ remembered \in Memory(1..P)
  <2>1. remembered.ids \in Seq(1..P)
    BY <1>3, SeqGrows DEF Typed, Shaped, Memory
  <2> QED BY <1>3, <2>1 DEF Typed, Shaped, Memory
<1> QED BY <1>2, <1>4, SeqGrows DEF Typed, Shaped

LEMMA PushTyped ==
  ASSUME Typed, NEW m \in Shape, NEW expired \in 1..DedupMax, Push(m, expired)
  PROVE  Typed' /\ Continues
<1> DEFINE P == Len(pushed) + 1
<1>1. /\ P \in Nat /\ Len(pushed) <= P /\ P \in 1..P
      /\ pushed' \in Seq(Shape) /\ Len(pushed') = P
      /\ \A i \in 1..Len(pushed) : pushed'[i] = pushed[i]
  <2>1. pushed \in Seq(Shape) /\ pushed' = Append(pushed, m)
    BY DEF Push, Typed, Shaped
  <2> QED BY <2>1, AppendProperties
<1>2. OnMessage(P, expired)
  BY DEF Push
<1> HIDE DEF P
<1>3. /\ remembered' \in Memory(1..P)
      /\ Len(remembered'.ids) <= DedupMax
      /\ jobs' \in Seq(JobOver(P, Len(monitors), Len(jobs')))
      /\ jobs' = jobs \/ \E n \in 1..Len(monitors) : Joins(P, n)
      /\ GuardGood'
  BY <1>1, <1>2, OnMessageShapes DEF Typed
<1>4. UNCHANGED <<monitors, callbacks, caches>>
  BY <1>2 DEF OnMessage, config
<1> QED BY <1>1, <1>3, <1>4, OtherStepTyped

LEMMA PushAgainTyped ==
  ASSUME Typed, NEW id \in DOMAIN pushed, NEW expired \in 1..DedupMax,
         PushAgain(id, expired)
  PROVE  Typed' /\ Continues
<1> DEFINE P == Len(pushed)
<1>1. /\ P \in Nat /\ Len(pushed) <= P /\ id \in 1..P
      /\ pushed' \in Seq(Shape) /\ Len(pushed') = P
      /\ \A i \in 1..Len(pushed) : pushed'[i] = pushed[i]
  BY Lengths DEF PushAgain, Typed, Shaped
<1>2. OnMessage(id, expired)
  BY DEF PushAgain
<1> HIDE DEF P
<1>3. /\ remembered' \in Memory(1..P)
      /\ Len(remembered'.ids) <= DedupMax
      /\ jobs' \in Seq(JobOver(P, Len(monitors), Len(jobs')))
      /\ jobs' = jobs \/ \E n \in 1..Len(monitors) : Joins(id, n)
      /\ GuardGood'
  BY <1>1, <1>2, OnMessageShapes DEF Typed
<1>4. UNCHANGED <<monitors, callbacks, caches>>
  BY <1>2 DEF OnMessage, config
<1> QED BY <1>1, <1>3, <1>4, OtherStepTyped

LEMMA MissedTyped ==
  ASSUME Typed, NEW m \in Shape, Missed(m)
  PROVE  Typed' /\ Continues
<1> DEFINE P == Len(pushed) + 1
<1>1. /\ P \in Nat /\ Len(pushed) <= P
      /\ pushed' \in Seq(Shape) /\ Len(pushed') = P
      /\ \A i \in 1..Len(pushed) : pushed'[i] = pushed[i]
  <2>1. pushed \in Seq(Shape) /\ pushed' = Append(pushed, m)
    BY DEF Missed, Typed, Shaped
  <2> QED BY <2>1, AppendProperties
<1> HIDE DEF P
<1>2. UNCHANGED <<monitors, callbacks, caches, remembered, jobs, guard>>
  BY DEF Missed, config
<1>3. /\ jobs' \in Seq(JobOver(P, Len(monitors), Len(jobs')))
      /\ remembered' \in Memory(1..P) /\ Len(remembered'.ids) <= DedupMax
  BY <1>1, <1>2, JobsRetyped DEF Typed
<1>4. GuardGood'
  BY <1>2 DEF Typed, Shaped, guard, GuardGood, StrikesWith
<1> QED BY <1>1, <1>2, <1>3, <1>4, OtherStepTyped

(* The steps that leave messages and jobs alone.                            *)
Elsewhere ==
  /\ UNCHANGED <<monitors, pushed, remembered, jobs, caches>>
  /\ callbacks' = callbacks \/ callbacks' = <<>>
  /\ \/ UNCHANGED guard
     \/ UNCHANGED <<strikes, removals>> /\ \E i \in DOMAIN notices, fate \in {"shown", "failed"} :
          notices' = [notices EXCEPT ![i].fate = fate]
     \/ \E k \in Group \X User :
          /\ strikes' = [strikes EXCEPT ![k] = NoStrikes]
          /\ UNCHANGED notices
          /\ \/ UNCHANGED removals
             \/ removals[k] > 0 /\ removals' = [removals EXCEPT ![k] = @ - 1]

LEMMA ElsewhereSteps ==
  ASSUME \/ Relogin
         \/ \E i \in DOMAIN notices, fate \in {"shown", "failed"} : NoticeSettles(i, fate)
         \/ \E k \in Group \X User : RemovalAnswered(k) \/ StrikesForgiven(k)
         \/ \E u \in User : Approve(u)
  PROVE  Elsewhere
<1>1. CASE Relogin
  BY <1>1 DEF Relogin, Elsewhere
<1>2. ASSUME NEW k \in Group \X User, RemovalAnswered(k) PROVE Elsewhere
  BY <1>2 DEF RemovalAnswered, Elsewhere, config, Cleared
<1>3. ASSUME NEW k \in Group \X User, StrikesForgiven(k) PROVE Elsewhere
  BY <1>3 DEF StrikesForgiven, Elsewhere, config, Cleared
<1>4. CASE \E u \in User : Approve(u)
  BY <1>4 DEF Approve, Elsewhere, config
<1>5. ASSUME NEW i \in DOMAIN notices, NEW fate \in {"shown", "failed"},
             NoticeSettles(i, fate)
      PROVE  Elsewhere
  BY <1>5 DEF NoticeSettles, Elsewhere, config
<1> QED BY <1>1, <1>2, <1>3, <1>4, <1>5

(* The warnings sent stay as many, and to the same members.                 *)
LEMMA SettledKeeps ==
  ASSUME GuardGood, NEW i \in DOMAIN notices, NEW fate \in {"shown", "failed"},
         notices' = [notices EXCEPT ![i].fate = fate]
  PROVE  /\ notices' \in Seq(Notice) /\ Len(notices') = Len(notices)
         /\ \A x \in 1..Len(notices) : notices'[x].to = notices[x].to
<1> DEFINE r == [notices[i] EXCEPT !.fate = fate]
<1>1. notices \in Seq(Notice) /\ notices[i] \in Notice
  BY DEF GuardGood
<1>2. r \in Notice /\ r.to = notices[i].to
  BY <1>1 DEF Notice
<1>3. notices' = [notices EXCEPT ![i] = r]
  OBVIOUS
<1> HIDE DEF r
<1>4. /\ notices' \in Seq(Notice) /\ Len(notices') = Len(notices)
      /\ \A x \in 1..Len(notices) : notices'[x] = IF x = i THEN r ELSE notices[x]
  BY <1>1, <1>2, <1>3, ExceptSeq
<1> QED BY <1>2, <1>4

LEMMA ElsewhereTyped ==
  ASSUME Typed, Elsewhere
  PROVE  Typed' /\ Continues
<1>1. /\ Len(pushed) \in Nat /\ Len(pushed) <= Len(pushed)
      /\ UNCHANGED <<monitors, pushed, remembered, jobs, caches>>
  BY Lengths DEF Typed, Elsewhere
<1>2. GuardGood'
  <2>0. GuardGood
    BY DEF Typed, Shaped
  <2>1. CASE UNCHANGED guard
    BY <2>0, <2>1 DEF guard, GuardGood, StrikesWith
  <2>2. ASSUME NEW k \in Group \X User, removals[k] > 0
        PROVE  removals[k] - 1 \in Nat
    BY <2>0, <2>2 DEF GuardGood
  <2>3. ASSUME NEW k \in Group \X User, strikes' = [strikes EXCEPT ![k] = NoStrikes],
               UNCHANGED notices
        PROVE  strikes' \in StrikesWith(Len(notices'))
    <3>1. NoStrikes \in [count : Nat, warned : BOOLEAN, notice : 0..Len(notices)]
      BY <2>0 DEF NoStrikes, GuardGood
    <3> HIDE DEF NoStrikes
    <3> QED BY <2>0, <2>3, <3>1 DEF GuardGood, StrikesWith
  <2>4. ASSUME NEW k \in Group \X User, removals[k] > 0,
               removals' = [removals EXCEPT ![k] = @ - 1]
        PROVE  removals' \in [Group \X User -> Nat]
    BY <2>0, <2>2, <2>4 DEF GuardGood
  <2>5. ASSUME NEW i \in DOMAIN notices, NEW fate \in {"shown", "failed"},
               notices' = [notices EXCEPT ![i].fate = fate],
               UNCHANGED <<strikes, removals>>
        PROVE  GuardGood'
    <3>1. notices' \in Seq(Notice) /\ Len(notices') = Len(notices)
      BY <2>0, <2>5, SettledKeeps
    <3> QED BY <2>0, <2>5, <3>1 DEF GuardGood, StrikesWith
  <2> QED BY <2>0, <2>1, <2>3, <2>4, <2>5 DEF Elsewhere, GuardGood
<1>3. /\ pushed' \in Seq(Shape) /\ Len(pushed') = Len(pushed)
      /\ \A i \in 1..Len(pushed) : pushed'[i] = pushed[i]
      /\ callbacks' = callbacks \/ callbacks' = <<>>
      /\ remembered' \in Memory(1..Len(pushed)) /\ Len(remembered'.ids) <= DedupMax
      /\ jobs' \in Seq(JobOver(Len(pushed), Len(monitors), Len(jobs')))
      /\ jobs' = jobs /\ UNCHANGED <<monitors, caches>>
  BY DEF Typed, Shaped, Elsewhere
<1> QED BY <1>1, <1>2, <1>3, OtherStepTyped

LEMMA NextTyped == Typed /\ [Next]_vars => Typed' /\ Continues
<1> SUFFICES ASSUME Typed, [Next]_vars PROVE Typed' /\ Continues
  OBVIOUS
<1>1. CASE UNCHANGED vars
  <2>1. Elsewhere
    BY <1>1 DEF vars, Elsewhere, caches, guard
  <2> QED BY <2>1, ElsewhereTyped
<1>2. CASE \E source \in Configuration, ok \in Lookups, filled \in SUBSET Group :
             StartMonitor(source, ok, filled)
  BY <1>2, StartMonitorTyped
<1>3. CASE \E n \in DOMAIN monitors : Stop(n)
  BY <1>3, StopTyped
<1>4. CASE \E m \in Shape : Missed(m)
  BY <1>4, MissedTyped
<1>5. CASE \E m \in Shape, expired \in 1..DedupMax : Push(m, expired)
  BY <1>5, PushTyped
<1>6. CASE \E id \in DOMAIN pushed, expired \in 1..DedupMax : PushAgain(id, expired)
  BY <1>6, PushAgainTyped
<1>7. CASE \E j \in DOMAIN jobs : Step(j)
  BY <1>7, StepTyped
<1>8. CASE Elsewhere
  BY <1>8, ElsewhereTyped
<1> QED
  BY <1>1, <1>2, <1>3, <1>4, <1>5, <1>6, <1>7, <1>8, ElsewhereSteps, Zenon DEF Next

(* What a step does to the jobs: nothing, or one of them leaves the line or *)
(* goes on, or a new one joins, for a new message or for one that is pushed *)
(* again.                                                                   *)
JobsGoOn ==
  \/ /\ jobs' = jobs /\ inbound' = inbound
     /\ \/ buffer' = buffer
        \/ \E source, ok, filled : StartMonitor(source, ok, filled)
  \/ \E j \in DOMAIN jobs :
       Step(j) /\ Changes(j) /\ jobs'[j].phase # "waiting"
  \/ \E id \in 1..Len(pushed'), n \in 1..Len(monitors) :
       /\ Joins(id, n) /\ UNCHANGED <<monitors, buffer, inbound>>
       /\ id = Len(pushed) + 1 \/ \E j \in DOMAIN jobs : jobs[j].id = id

LEMMA StepJobs ==
  ASSUME Shaped, NEW j \in DOMAIN jobs, Step(j)
  PROVE  Changes(j) /\ jobs'[j].phase # "waiting"
<1>1. ASSUME NEW p \in Phase \ {"waiting"}, Goto(j, p)
      PROVE  Changes(j) /\ jobs'[j].phase # "waiting"
  BY <1>1, GotoMoves DEF Moves
<1>2. ASSUME NEW c, jobs' = [jobs EXCEPT ![j].phase = "session", ![j].context = c],
             c \in Seq(1..Len(pushed))
      PROVE  Changes(j) /\ jobs'[j].phase # "waiting"
  BY <1>2, TakeContextMoves
<1>3. ASSUME NEW q \in 0..Len(jobs),
             jobs' = [jobs EXCEPT ![j].phase = "reply", ![j].quote = q]
      PROVE  Changes(j) /\ jobs'[j].phase # "waiting"
  BY <1>3, TakeQuoteMoves
<1>4. ASSUME jobs' = [jobs EXCEPT ![j].late = TRUE], jobs[j].phase \in Active
      PROVE  Changes(j) /\ jobs'[j].phase # "waiting"
  BY <1>4, DeadlineMoves DEF Active
<1>5. CASE Begin(j)
  BY <1>1, <1>5 DEF Begin, Phase, Active, Ended
<1>6. CASE SkipStale(j) \/ Reply(j) \/ Fail(j)
  BY <1>1, <1>6 DEF SkipStale, Reply, Fail, Phase, Active, Ended
<1>7. CASE \E approved : AuthorizeDirect(j, approved)
  BY <1>1, <1>7 DEF AuthorizeDirect, Phase, Active, Ended
<1>8. CASE \E aged : AuthorizeInGroup(j, aged)
  BY <1>1, <1>8 DEF AuthorizeInGroup, Phase, Active, Ended
<1>9. CASE TakeContext(j)
  <2>1. CASE Msg(j).thread \in Group
    <3>1. buffer[Msg(j).thread] \in Seq(1..Len(pushed))
      BY <2>1 DEF Shaped
    <3> QED BY <1>2, <1>9, <2>1, <3>1 DEF TakeContext
  <2>2. CASE Msg(j).thread \notin Group
    BY <1>1, <1>9, <2>2 DEF TakeContext, Phase, Active
  <2> QED BY <2>1, <2>2
<1>10. CASE TakeQuote(j)
  <2>1. QuoteFor(Msg(j).thread) \in 0..Len(jobs)
    BY QuoteForIs, Lengths
  <2> QED BY <1>3, <1>10, <2>1 DEF TakeQuote
<1>11. CASE DeadlinePasses(j)
  BY <1>4, <1>11 DEF DeadlinePasses
<1> QED BY <1>5, <1>6, <1>7, <1>8, <1>9, <1>10, <1>11 DEF Step

LEMMA NextJobs == Typed /\ [Next]_vars => JobsGoOn
<1> SUFFICES ASSUME Typed, [Next]_vars PROVE JobsGoOn
  OBVIOUS
<1>1. CASE UNCHANGED <<jobs, inbound, buffer>>
  BY <1>1 DEF JobsGoOn
<1>2. CASE \E j \in DOMAIN jobs : Step(j)
  BY <1>2, StepJobs DEF JobsGoOn, Typed
<1>3. ASSUME NEW id \in 1..Len(pushed'), NEW expired \in 1..DedupMax,
             pushed' \in Seq(Shape), Len(pushed) <= Len(pushed'),
             OnMessage(id, expired),
             id = Len(pushed) + 1 \/ \E j \in DOMAIN jobs : jobs[j].id = id
      PROVE  JobsGoOn
  <2>1. jobs' = jobs \/ \E n \in 1..Len(monitors) : Joins(id, n)
    <3>1. Len(pushed') \in Nat
      BY <1>3
    <3> QED BY <1>3, <3>1, OnMessageShapes DEF Typed
  <2>2. UNCHANGED <<monitors, buffer, inbound>>
    BY <1>3 DEF OnMessage, config, caches
  <2>3. CASE jobs' = jobs
    BY <2>2, <2>3 DEF JobsGoOn
  <2> QED BY <1>3, <2>1, <2>2, <2>3 DEF JobsGoOn
<1>4. CASE \E m \in Shape, expired \in 1..DedupMax : Push(m, expired)
  <2>1. PICK m \in Shape, expired \in 1..DedupMax : Push(m, expired)
    BY <1>4
  <2>2. pushed \in Seq(Shape) /\ pushed' = Append(pushed, m)
    BY <2>1 DEF Push, Typed, Shaped
  <2>3. /\ pushed' \in Seq(Shape) /\ Len(pushed') = Len(pushed) + 1
        /\ Len(pushed) \in Nat
    BY <2>2, AppendProperties
  <2> QED BY <1>3, <2>1, <2>3 DEF Push
<1>5. CASE \E id \in DOMAIN pushed, expired \in 1..DedupMax : PushAgain(id, expired)
  <2>1. PICK id \in DOMAIN pushed, expired \in 1..DedupMax : PushAgain(id, expired)
    BY <1>5
  <2>2. /\ pushed' = pushed /\ pushed \in Seq(Shape)
        /\ Len(pushed) <= Len(pushed) /\ id \in 1..Len(pushed)
    BY <2>1, Lengths DEF PushAgain, Typed, Shaped
  <2> QED BY <1>3, <2>1, <2>2 DEF PushAgain
<1> QED
  <2>1. CASE UNCHANGED vars
    BY <1>1, <2>1 DEF vars, caches
  <2>2. CASE Next
    <3>1. ASSUME NEW source \in Configuration, NEW ok \in Lookups,
                 NEW filled \in SUBSET Group, StartMonitor(source, ok, filled)
          PROVE  JobsGoOn
      <4>1. jobs' = jobs /\ inbound' = inbound
        BY <3>1 DEF StartMonitor
      <4> QED BY <3>1, <4>1, Zenon DEF JobsGoOn
    <3>2. ASSUME NEW n \in DOMAIN monitors, Stop(n)
          PROVE  UNCHANGED <<jobs, inbound, buffer>>
      BY <3>2 DEF Stop, caches
    <3>3. ASSUME NEW m \in Shape, Missed(m)
          PROVE  UNCHANGED <<jobs, inbound, buffer>>
      BY <3>3 DEF Missed, caches
    <3>4. ASSUME Elsewhere PROVE UNCHANGED <<jobs, inbound, buffer>>
      BY <3>4 DEF Elsewhere, caches
    <3> QED
      BY <1>1, <1>2, <1>4, <1>5, <2>2, <3>1, <3>2, <3>3, <3>4, ElsewhereSteps, Zenon
         DEF Next
  <2> QED BY <2>1, <2>2

QueuesBounded ==
  \A n \in 1..Len(monitors), t \in Group \cup User :
    Cardinality(WaitingIn(n, t)) <= QueueMax

LEMMA WaitingShrinks ==
  ASSUME Typed, Typed', Continues, NEW n, NEW t,
         \A k \in DOMAIN jobs' : jobs'[k].phase = "waiting" =>
            k \in DOMAIN jobs /\ jobs[k].phase = "waiting"
  PROVE  WaitingIn(n, t)' \subseteq WaitingIn(n, t)
<1> SUFFICES ASSUME NEW k \in WaitingIn(n, t)' PROVE k \in WaitingIn(n, t)
  OBVIOUS
<1>1. /\ k \in DOMAIN jobs' /\ jobs'[k].mon = n
      /\ pushed'[jobs'[k].id].thread = t /\ jobs'[k].phase = "waiting"
  BY DEF WaitingIn, Msg
<1>2. k \in DOMAIN jobs /\ jobs[k].phase = "waiting"
  BY <1>1
<1>3. jobs'[k].mon = jobs[k].mon /\ jobs'[k].id = jobs[k].id
  BY <1>2 DEF Continues
<1>4. pushed'[jobs[k].id] = pushed[jobs[k].id]
  BY <1>2, JobFields DEF Continues, Typed
<1> QED BY <1>1, <1>2, <1>3, <1>4 DEF WaitingIn, Msg

LEMMA NextBounded == Typed /\ QueuesBounded /\ [Next]_vars => QueuesBounded'
<1> SUFFICES ASSUME Typed, QueuesBounded, [Next]_vars,
                    NEW n \in 1..Len(monitors'), NEW t \in Group \cup User
             PROVE  Cardinality(WaitingIn(n, t)') <= QueueMax
  BY DEF QueuesBounded
<1>1. Typed' /\ Continues /\ JobsGoOn
  BY NextTyped, NextJobs
<1>2. /\ IsFiniteSet(WaitingIn(n, t)) /\ Cardinality(WaitingIn(n, t)) \in Nat
      /\ QueueMax \in Nat \ {0}
  BY WaitingIsFinite, MonitorAssumption DEF Typed
<1>3. Cardinality(WaitingIn(n, t)) <= QueueMax
  <2>1. CASE n \in 1..Len(monitors)
    BY <2>1 DEF QueuesBounded
  <2>2. CASE n \notin 1..Len(monitors)
    <3>1. WaitingIn(n, t) = {}
      BY <2>2, JobFields DEF WaitingIn, Typed
    <3> QED BY <1>2, <3>1, FS_EmptySet
  <2> QED BY <2>1, <2>2
<1>4. CASE \A k \in DOMAIN jobs' : jobs'[k].phase = "waiting" =>
             k \in DOMAIN jobs /\ jobs[k].phase = "waiting"
  <2>1. WaitingIn(n, t)' \subseteq WaitingIn(n, t)
    BY <1>1, <1>4, WaitingShrinks
  <2>2. Cardinality(WaitingIn(n, t)') <= Cardinality(WaitingIn(n, t))
        /\ Cardinality(WaitingIn(n, t)') \in Nat
    BY <1>2, <2>1, FS_Subset, FS_CardinalityType
  <2> QED BY <1>2, <1>3, <2>2
<1>5. ASSUME NEW id \in 1..Len(pushed'), NEW o \in 1..Len(monitors), Joins(id, o)
      PROVE  Cardinality(WaitingIn(n, t)') <= QueueMax
  <2> DEFINE W == WaitingIn(n, t)
             new == Len(jobs) + 1
  <2>1. ASSUME NEW k \in WaitingIn(n, t)', k # new
        PROVE  k \in W /\ jobs'[k].phase = "waiting"
    <3>1. /\ k \in DOMAIN jobs' /\ jobs'[k].mon = n
          /\ pushed'[jobs'[k].id].thread = t /\ jobs'[k].phase = "waiting"
      BY <2>1 DEF WaitingIn, Msg
    <3>2. k \in DOMAIN jobs
      BY <1>5, <2>1, <3>1, Lengths DEF Joins, Typed
    <3>3. /\ jobs'[k].mon = jobs[k].mon /\ jobs'[k].id = jobs[k].id
          /\ jobs[k].phase = "waiting"
      BY <1>5, <3>1, <3>2 DEF Joins
    <3>4. pushed'[jobs[k].id] = pushed[jobs[k].id]
      BY <1>1, <3>2, JobFields DEF Continues, Typed
    <3> QED BY <3>1, <3>2, <3>3, <3>4 DEF WaitingIn, Msg
  <2>2. PICK V \in SUBSET W : WaitingIn(n, t)' \subseteq V \cup {new}
                              /\ (Cardinality(V) < QueueMax
                                  \/ WaitingIn(n, t)' \subseteq W)
    <3>1. CASE new \in WaitingIn(n, t)'
      <4>1. n = o /\ t = pushed'[id].thread
        BY <1>5, <3>1 DEF WaitingIn, Msg, Joins
      <4>2. CASE Cardinality(W) < QueueMax
        BY <2>1, <4>2
      <4>3. CASE \E k \in W : jobs'[k].phase = "skipped"
        <5>1. PICK k \in W : jobs'[k].phase = "skipped"
          BY <4>3
        <5> DEFINE V == W \ {k}
        <5>2. WaitingIn(n, t)' \subseteq V \cup {new}
          BY <2>1, <5>1
        <5>3. Cardinality(V) < QueueMax
          <6>1. Cardinality(V) = Cardinality(W) - 1
            BY <1>2, <5>1, FS_RemoveElement
          <6> QED BY <1>2, <1>3, <6>1
        <5> QED BY <5>2, <5>3
      <4> QED BY <1>5, <4>1, <4>2, <4>3 DEF Joins
    <3>2. CASE new \notin WaitingIn(n, t)'
      BY <2>1, <3>2
    <3> QED BY <3>1, <3>2
  <2>3. CASE Cardinality(V) < QueueMax
    <3>1. IsFiniteSet(V) /\ Cardinality(V) \in Nat
      BY <1>2, FS_Subset, FS_CardinalityType
    <3>2. /\ IsFiniteSet(V \cup {new})
          /\ Cardinality(V \cup {new}) \in Nat
          /\ Cardinality(V \cup {new}) <= Cardinality(V) + 1
      <4>1. /\ IsFiniteSet(V \cup {new})
            /\ Cardinality(V \cup {new}) = IF new \in V THEN Cardinality(V)
                                          ELSE Cardinality(V) + 1
        BY <3>1, FS_AddElement
      <4> HIDE DEF new
      <4> QED BY <3>1, <4>1
    <3>3. /\ Cardinality(WaitingIn(n, t)') \in Nat
          /\ Cardinality(WaitingIn(n, t)') <= Cardinality(V \cup {new})
      BY <2>2, <3>2, FS_Subset, FS_CardinalityType
    <3> HIDE DEF new
    <3> QED BY <1>2, <2>3, <3>1, <3>2, <3>3
  <2>4. CASE WaitingIn(n, t)' \subseteq W
    <3>1. /\ Cardinality(WaitingIn(n, t)') <= Cardinality(W)
          /\ Cardinality(WaitingIn(n, t)') \in Nat
      BY <1>2, <2>4, FS_Subset, FS_CardinalityType
    <3> QED BY <1>2, <1>3, <3>1
  <2> QED BY <2>2, <2>3, <2>4
<1>6. CASE jobs' = jobs
  BY <1>4, <1>6
<1>7. ASSUME NEW j \in DOMAIN jobs, Changes(j), jobs'[j].phase # "waiting"
      PROVE  Cardinality(WaitingIn(n, t)') <= QueueMax
  BY <1>4, <1>7 DEF Changes
<1> QED BY <1>1, <1>5, <1>6, <1>7 DEF JobsGoOn

LEMMA TypedIsTypeOK == Typed /\ QueuesBounded => TypeOK
<1> SUFFICES ASSUME Typed, QueuesBounded PROVE TypeOK
  OBVIOUS
<1>1. JobType = JobOver(Len(pushed), Len(monitors), Len(jobs))
  <2>1. /\ DOMAIN pushed = 1..Len(pushed) /\ DOMAIN monitors = 1..Len(monitors)
        /\ {0} \cup DOMAIN jobs = 0..Len(jobs)
    BY Lengths DEF Typed
  <2> QED BY <2>1 DEF JobType, JobOver, Phase
<1>2. \A n \in DOMAIN monitors : monitors[n].source \in Configuration
  <2>1. \A n \in DOMAIN monitors : monitors[n] \in MonitorRecord
    BY DEF Typed, Shaped
  <2> QED BY <2>1 DEF MonitorRecord
<1>3. DOMAIN monitors = 1..Len(monitors)
  BY Lengths DEF Typed
<1> QED BY <1>1, <1>2, <1>3 DEF TypeOK, Typed, Shaped, CachesGood, QueuesBounded,
     GuardGood, StrikesWith, Notice

LEMMA InitBounded == Init => QueuesBounded
<1> SUFFICES ASSUME Init PROVE QueuesBounded
  OBVIOUS
<1>1. Len(monitors) = 0
  BY DEF Init
<1> QED BY <1>1 DEF QueuesBounded

LEMMA AlwaysTyped == Spec => [](Typed /\ QueuesBounded)
<1>1. Typed /\ QueuesBounded /\ [Next]_vars => (Typed /\ QueuesBounded)'
  BY NextTyped, NextBounded
<1> QED BY InitTyped, InitBounded, <1>1, PTL DEF Spec

(* The state is well typed, and no cache and no queue of a thread outgrows  *)
(* its limit, for any messages, configurations and limits.                  *)
THEOREM TypeCorrect == Spec => []TypeOK
BY AlwaysTyped, TypedIsTypeOK, PTL

-----------------------------------------------------------------------------
(* Deduplication.  An id that was queued is remembered, or a full memory    *)
(* let it go, so that only the ids let go can be queued again.              *)
Remembering ==
  \A j \in DOMAIN jobs :
    Contains(remembered.ids, jobs[j].id) \/ jobs[j].id \in remembered.gone

DedupInv == Remembering /\ HandledOnceWhileRemembered

LEMMA InitDedup == Init => DedupInv
BY DEF Init, DedupInv, Remembering, HandledOnceWhileRemembered

LEMMA NothingNewDedup ==
  ASSUME Typed, DedupInv, Continues, UNCHANGED remembered,
         DOMAIN jobs' = DOMAIN jobs
  PROVE  DedupInv'
<1>1. \A k \in DOMAIN jobs : jobs'[k].id = jobs[k].id
  BY DEF Continues
<1>2. Remembering'
  BY <1>1 DEF DedupInv, Remembering
<1>3. HandledOnceWhileRemembered'
  BY <1>1 DEF DedupInv, HandledOnceWhileRemembered
<1> QED BY <1>2, <1>3 DEF DedupInv

(* A message is taken that is not remembered: one that was let go, if it is *)
(* in a job already.                                                        *)
LEMMA TakenDedup ==
  ASSUME Typed, DedupInv, Continues, NEW id,
         jobs' = jobs \/ \E n : Joins(id, n),
         Contains(remembered'.ids, id),
         remembered.gone \subseteq remembered'.gone,
         \A x : Contains(remembered.ids, x) =>
                  Contains(remembered'.ids, x) \/ x \in remembered'.gone,
         (\E j \in DOMAIN jobs : jobs[j].id = id) => id \in remembered.gone
  PROVE  DedupInv'
<1>1. /\ \A j \in DOMAIN jobs :
           Contains(remembered'.ids, jobs[j].id) \/ jobs[j].id \in remembered'.gone
      /\ \A j, k \in DOMAIN jobs :
           j # k /\ jobs[j].id = jobs[k].id => jobs[j].id \in remembered'.gone
  BY Zenon DEF DedupInv, Remembering, HandledOnceWhileRemembered
<1>2. CASE jobs' = jobs
  BY <1>1, <1>2 DEF DedupInv, Remembering, HandledOnceWhileRemembered
<1>3. CASE \E n : Joins(id, n)
  <2>1. /\ \A j \in DOMAIN jobs' : j \in DOMAIN jobs \/ j = Len(jobs) + 1
        /\ \A k \in DOMAIN jobs : jobs'[k].id = jobs[k].id
        /\ jobs'[Len(jobs) + 1].id = id
    BY <1>3, Lengths DEF Joins, Typed
  <2>2. Remembering'
    BY <1>1, <2>1, Zenon DEF Remembering
  <2>3. ASSUME NEW j \in DOMAIN jobs', NEW k \in DOMAIN jobs', j # k,
               jobs'[j].id = jobs'[k].id
        PROVE  jobs'[j].id \in remembered'.gone
    <3>1. CASE j \in DOMAIN jobs /\ k \in DOMAIN jobs
      BY <1>1, <2>1, <2>3, <3>1, Zenon
    <3>2. CASE j = Len(jobs) + 1 /\ k \in DOMAIN jobs
      BY <2>1, <2>3, <3>2, Zenon
    <3>3. CASE k = Len(jobs) + 1 /\ j \in DOMAIN jobs
      BY <2>1, <2>3, <3>3, Zenon
    <3> QED BY <2>1, <2>3, <3>1, <3>2, <3>3, Zenon
  <2> QED BY <2>2, <2>3, Zenon DEF DedupInv, HandledOnceWhileRemembered
<1> QED BY <1>2, <1>3

LEMMA PushDedup ==
  ASSUME Typed, DedupInv, Continues, NEW m \in Shape, NEW expired \in 1..DedupMax,
         Push(m, expired)
  PROVE  DedupInv'
<1> DEFINE P == Len(pushed) + 1
<1>1. /\ P \in Nat /\ Len(pushed) <= P /\ P \in 1..P
      /\ pushed' \in Seq(Shape) /\ Len(pushed') = P
  <2>1. pushed \in Seq(Shape) /\ pushed' = Append(pushed, m)
    BY DEF Push, Typed, Shaped
  <2> QED BY <2>1, AppendProperties
<1>2. OnMessage(P, expired)
  BY DEF Push
<1>3. \A j \in DOMAIN jobs : jobs[j].id # P
  BY JobFields, Lengths DEF Typed
<1>4. /\ jobs' = jobs \/ \E n : Joins(P, n)
      /\ Contains(remembered'.ids, P)
      /\ remembered.gone \subseteq remembered'.gone
      /\ \A x : Contains(remembered.ids, x) =>
                  Contains(remembered'.ids, x) \/ x \in remembered'.gone
  <2> HIDE DEF P
  <2> QED BY <1>1, <1>2, OnMessageShapes DEF Typed
<1> HIDE DEF P
<1> QED BY <1>3, <1>4, TakenDedup

LEMMA PushAgainDedup ==
  ASSUME Typed, DedupInv, Continues, NEW id \in DOMAIN pushed,
         NEW expired \in 1..DedupMax, PushAgain(id, expired)
  PROVE  DedupInv'
<1> DEFINE P == Len(pushed)
<1>1. /\ P \in Nat /\ Len(pushed) <= P /\ id \in 1..P
      /\ pushed' \in Seq(Shape) /\ Len(pushed') = P
  BY Lengths DEF PushAgain, Typed, Shaped
<1>2. OnMessage(id, expired) /\ ~Contains(remembered.ids, id)
  BY DEF PushAgain
<1>3. (\E j \in DOMAIN jobs : jobs[j].id = id) => id \in remembered.gone
  BY <1>2 DEF DedupInv, Remembering
<1>4. /\ jobs' = jobs \/ \E n : Joins(id, n)
      /\ Contains(remembered'.ids, id)
      /\ remembered.gone \subseteq remembered'.gone
      /\ \A x : Contains(remembered.ids, x) =>
                  Contains(remembered'.ids, x) \/ x \in remembered'.gone
  <2> HIDE DEF P
  <2> QED BY <1>1, <1>2, OnMessageShapes DEF Typed
<1> QED BY <1>3, <1>4, TakenDedup

LEMMA NextDedup == Typed /\ DedupInv /\ [Next]_vars => DedupInv'
<1> SUFFICES ASSUME Typed, DedupInv, [Next]_vars PROVE DedupInv'
  OBVIOUS
<1>1. Continues
  BY NextTyped
<1>2. ASSUME UNCHANGED remembered, DOMAIN jobs' = DOMAIN jobs
      PROVE  DedupInv'
  BY <1>1, <1>2, NothingNewDedup
<1>3. ASSUME NEW m \in Shape, Missed(m)
      PROVE  DedupInv'
  BY <1>2, <1>3 DEF Missed
<1>4. CASE UNCHANGED vars
  BY <1>2, <1>4 DEF vars
<1>5. ASSUME NEW source, NEW ok, NEW filled, StartMonitor(source, ok, filled)
      PROVE  DedupInv'
  BY <1>2, <1>5 DEF StartMonitor
<1>6. ASSUME NEW n, Stop(n) PROVE DedupInv'
  BY <1>2, <1>6 DEF Stop
<1>7. ASSUME NEW j \in DOMAIN jobs, Step(j) PROVE DedupInv'
  <2>1. DOMAIN jobs' = DOMAIN jobs
    BY <1>7, StepJobs DEF Typed, Changes
  <2>2. UNCHANGED remembered
    BY <1>7 DEF Step, Begin, SkipStale, AuthorizeDirect, AuthorizeInGroup, TakeContext,
                TakeQuote, Reply, Fail, DeadlinePasses
  <2> QED BY <1>2, <2>1, <2>2
<1>8. CASE Elsewhere
  BY <1>2, <1>8 DEF Elsewhere
<1> QED
  BY <1>1, <1>3, <1>4, <1>5, <1>6, <1>7, <1>8, PushDedup, PushAgainDedup,
     ElsewhereSteps, Zenon DEF Next

(* A message is put in a queue once, however often it is pushed and however *)
(* many monitors listen, unless a full memory let its id go.                *)
THEOREM HandledOnce == Spec => []HandledOnceWhileRemembered
<1>1. Typed /\ DedupInv /\ [Next]_vars => DedupInv'
  BY NextDedup
<1>2. DedupInv => HandledOnceWhileRemembered
  BY DEF DedupInv
<1> QED BY AlwaysTyped, InitDedup, <1>1, <1>2, PTL DEF Spec

-----------------------------------------------------------------------------
(* The guard sends a warning at the second attempt, so a count of two means *)
(* that a warning to the member was sent: count and warning are cleared     *)
(* together.                                                                *)
WarnedAtTwo ==
  \A k \in Group \X User :
    /\ strikes[k].count >= 2 \/ strikes[k].warned => strikes[k].notice # 0
    /\ strikes[k].notice # 0 => notices[strikes[k].notice].to = k

LEMMA InitWarned == Init => WarnedAtTwo
BY DEF Init, WarnedAtTwo, NoStrikes

Warning ==
  \A k \in Group \X User : removals'[k] > removals[k] =>
    strikes[k].notice # 0 /\ notices[strikes[k].notice].to = k

LEMMA StrikeWarns ==
  ASSUME GuardGood, WarnedAtTwo, NEW a \in Group \X User, NEW n, Strike(a, <<n>>)
  PROVE  WarnedAtTwo' /\ Warning
<1> DEFINE r == strikes[a]
           w == ~r.warned /\ r.count + 1 >= 2 /\ ~Struck(r.count + 1)
           note == [to |-> a, fate |-> "sending"]
           new == [count |-> r.count + 1, warned |-> r.warned \/ w,
                   notice |-> IF w THEN Len(notices) + 1 ELSE r.notice]
<1>1. /\ r.count \in Nat /\ r.warned \in BOOLEAN /\ r.notice \in 0..Len(notices)
      /\ Len(notices) \in Nat
      /\ removals' = [removals EXCEPT ![a] = @ + (IF Struck(r.count + 1) THEN 1 ELSE 0)]
      /\ notices' = IF w THEN Append(notices, note) ELSE notices
      /\ strikes' = [strikes EXCEPT ![a] = new]
  BY StrikeOnce
<1>2. /\ r.count >= 2 \/ r.warned => r.notice # 0
      /\ r.notice # 0 => notices[r.notice].to = a
  BY DEF WarnedAtTwo
<1>3. /\ new.count = r.count + 1 /\ new.warned = (r.warned \/ w)
      /\ new.notice = IF w THEN Len(notices) + 1 ELSE r.notice
      /\ note.to = a
  OBVIOUS
<1>4. w <=> (~r.warned /\ r.count = 1)
  BY <1>1 DEF Struck
<1>5. \A i \in 1..Len(notices) : notices'[i] = notices[i]
  <2>1. notices \in Seq(Notice) /\ note \in Notice
    BY DEF GuardGood, Notice
  <2> HIDE DEF note, w
  <2> QED BY <1>1, <2>1, AppendProperties
<1>6. w => notices'[Len(notices) + 1] = note
  <2>1. notices \in Seq(Notice) /\ note \in Notice
    BY DEF GuardGood, Notice
  <2> HIDE DEF note, w
  <2> QED BY <1>1, <2>1, AppendProperties
<1>7. \A k \in Group \X User : strikes'[k] = IF k = a THEN new ELSE strikes[k]
  BY <1>1 DEF GuardGood, StrikesWith
<1>8. \A k \in Group \X User :
        removals'[k] = IF k = a THEN removals[k] + (IF Struck(r.count + 1) THEN 1 ELSE 0)
                       ELSE removals[k]
  BY <1>1 DEF GuardGood
<1> HIDE DEF new, note
<1>9. ASSUME NEW k \in Group \X User
      PROVE  /\ strikes'[k].count >= 2 \/ strikes'[k].warned => strikes'[k].notice # 0
             /\ strikes'[k].notice # 0 => notices'[strikes'[k].notice].to = k
  <2>1. CASE k = a
    <3>1. strikes'[k] = new
      BY <1>7, <2>1
    <3>2. new.count >= 2 \/ new.warned => new.notice # 0
      <4>1. CASE w
        BY <1>1, <1>3, <4>1
      <4>2. CASE ~w
        <5>1. new.warned = r.warned
          BY <1>1, <1>3, <4>2
        <5>2. new.count >= 2 => r.warned \/ r.count >= 2
          BY <1>1, <1>3, <1>4, <4>2
        <5> HIDE DEF w
        <5> QED BY <1>2, <1>3, <4>2, <5>1, <5>2
      <4> QED BY <4>1, <4>2
    <3>3. new.notice # 0 => notices'[new.notice].to = a
      <4>1. CASE w
        BY <1>3, <1>6, <4>1
      <4>2. CASE ~w /\ new.notice # 0
        <5>1. new.notice = r.notice /\ r.notice \in 1..Len(notices)
          BY <1>1, <1>3, <4>2
        <5> QED BY <1>2, <1>5, <4>2, <5>1
      <4> QED BY <4>1, <4>2
    <3> QED BY <2>1, <3>1, <3>2, <3>3
  <2>2. CASE k # a
    <3>1. strikes'[k] = strikes[k] /\ strikes[k].notice \in 0..Len(notices)
      BY <1>7, <2>2 DEF GuardGood, StrikesWith
    <3>2. strikes[k].notice # 0 => strikes[k].notice \in 1..Len(notices)
      BY <1>1, <3>1
    <3> QED BY <1>5, <3>1, <3>2 DEF WarnedAtTwo
  <2> QED BY <2>1, <2>2
<1>10. ASSUME NEW k \in Group \X User, removals'[k] > removals[k]
       PROVE  strikes[k].notice # 0 /\ notices[strikes[k].notice].to = k
  <2>1. removals[k] \in Nat
    BY DEF GuardGood
  <2>2. k = a /\ Struck(r.count + 1)
    BY <1>8, <1>10, <2>1
  <2> QED BY <1>1, <1>2, <2>2 DEF Struck
<1>11. WarnedAtTwo'
  BY <1>9, Zenon DEF WarnedAtTwo
<1> QED BY <1>10, <1>11, Zenon DEF Warning

LEMMA NextWarns == Typed /\ WarnedAtTwo /\ [Next]_vars => WarnedAtTwo' /\ Warning
<1> SUFFICES ASSUME Typed, WarnedAtTwo, [Next]_vars PROVE WarnedAtTwo' /\ Warning
  OBVIOUS
<1>0. GuardGood
  BY DEF Typed, Shaped
<1>1. ASSUME UNCHANGED guard PROVE WarnedAtTwo' /\ Warning
  <2>1. \A k \in Group \X User : ~(removals[k] > removals[k])
    BY <1>0 DEF GuardGood
  <2> QED BY <1>1, <2>1 DEF guard, WarnedAtTwo, Warning
<1>2. ASSUME NEW id \in 1..Len(pushed'), NEW expired \in 1..DedupMax,
             pushed' \in Seq(Shape), Len(pushed) <= Len(pushed'), Len(pushed') \in Nat,
             OnMessage(id, expired)
      PROVE  WarnedAtTwo' /\ Warning
  <2>1. \/ UNCHANGED guard
        \/ \E k \in Group \X User, n \in 1..Len(monitors) : Strike(k, <<n>>)
    BY <1>2, OnMessageShapes DEF Typed
  <2> QED BY <1>0, <1>1, <2>1, StrikeWarns
<1>4. ASSUME NEW m \in Shape, NEW expired \in 1..DedupMax, Push(m, expired)
      PROVE  WarnedAtTwo' /\ Warning
  <2>1. pushed \in Seq(Shape) /\ pushed' = Append(pushed, m)
    BY <1>4 DEF Push, Typed, Shaped
  <2>2. /\ pushed' \in Seq(Shape) /\ Len(pushed') = Len(pushed) + 1
        /\ Len(pushed) \in Nat
    BY <2>1, AppendProperties
  <2> QED BY <1>2, <1>4, <2>2 DEF Push
<1>5. ASSUME NEW id \in DOMAIN pushed, NEW expired \in 1..DedupMax, PushAgain(id, expired)
      PROVE  WarnedAtTwo' /\ Warning
  <2>1. /\ pushed' = pushed /\ pushed \in Seq(Shape)
        /\ Len(pushed) <= Len(pushed) /\ id \in 1..Len(pushed) /\ Len(pushed) \in Nat
    BY <1>5, Lengths DEF PushAgain, Typed, Shaped
  <2> QED BY <1>2, <1>5, <2>1 DEF PushAgain
<1>6. CASE Elsewhere
  <2>1. ASSUME NEW a \in Group \X User, strikes' = [strikes EXCEPT ![a] = NoStrikes],
               UNCHANGED notices,
               \/ UNCHANGED removals
               \/ removals[a] > 0 /\ removals' = [removals EXCEPT ![a] = @ - 1]
        PROVE  WarnedAtTwo' /\ Warning
    <3>1. WarnedAtTwo'
      BY <1>0, <2>1 DEF WarnedAtTwo, NoStrikes, GuardGood, StrikesWith
    <3>2. ASSUME NEW k \in Group \X User PROVE ~(removals'[k] > removals[k])
      <4>1. removals \in [Group \X User -> Nat] /\ removals[k] \in Nat
        BY <1>0 DEF GuardGood
      <4>2. removals'[k] \in {removals[k], removals[k] - 1}
        BY <2>1, <4>1
      <4> QED BY <4>1, <4>2
    <3> QED BY <3>1, <3>2 DEF Warning
  <2>2. ASSUME NEW i \in DOMAIN notices, NEW fate \in {"shown", "failed"},
               notices' = [notices EXCEPT ![i].fate = fate],
               UNCHANGED <<strikes, removals>>
        PROVE  WarnedAtTwo' /\ Warning
    <3>1. \A x \in 1..Len(notices) : notices'[x].to = notices[x].to
      BY <1>0, <2>2, SettledKeeps
    <3>2. \A k \in Group \X User :
            strikes[k].notice # 0 => strikes[k].notice \in 1..Len(notices)
      BY <1>0 DEF GuardGood, StrikesWith
    <3>3. \A k \in Group \X User : ~(removals[k] > removals[k])
      BY <1>0 DEF GuardGood
    <3> QED BY <2>2, <3>1, <3>2, <3>3 DEF WarnedAtTwo, Warning
  <2> QED BY <1>1, <1>6, <2>1, <2>2 DEF Elsewhere
<1>7. CASE UNCHANGED vars
  BY <1>1, <1>7 DEF vars, guard
<1>8. ASSUME NEW source, NEW ok, NEW filled, StartMonitor(source, ok, filled)
      PROVE  UNCHANGED guard
  BY <1>8 DEF StartMonitor
<1>9. ASSUME NEW n, Stop(n) PROVE UNCHANGED guard
  BY <1>9 DEF Stop
<1>10. ASSUME NEW m, Missed(m) PROVE UNCHANGED guard
  BY <1>10 DEF Missed
<1>11. ASSUME NEW j, Step(j) PROVE UNCHANGED guard
  BY <1>11 DEF Step, Begin, SkipStale, AuthorizeDirect, AuthorizeInGroup, TakeContext,
               TakeQuote, Reply, Fail, DeadlinePasses
<1> QED
  BY <1>1, <1>4, <1>5, <1>6, <1>7, <1>8, <1>9, <1>10, <1>11, ElsewhereSteps, Zenon
     DEF Next

(* A member's removal from a group is called for only when a warning to him *)
(* there was sent for one of the attempts that count.                       *)
THEOREM RemovedOnlyWarned == Spec => WarnedBeforeRemoved
<1>1. Typed /\ WarnedAtTwo /\ [Next]_vars => WarnedAtTwo' /\ Warning
  BY NextWarns
<1>2. Typed /\ WarnedAtTwo /\ [Next]_vars =>
        [\A k \in Group \X User : removals'[k] > removals[k] =>
           strikes[k].notice # 0 /\ notices[strikes[k].notice].to = k]_vars
  BY <1>1 DEF Warning
<1> QED BY AlwaysTyped, InitWarned, <1>1, <1>2, PTL DEF Spec, WarnedBeforeRemoved

-----------------------------------------------------------------------------
(* Who is denied by the configuration is refused with the resolved one.     *)
Known(ok) == IF "titles" \in ok THEN Group ELSE {}

Looked(c, ok) == "groups" \in ok /\ DOMAIN c.groups \ {AnyGroup} # {}

LEMMA ResolvedFields ==
  ASSUME NEW c, IsConfig(c), NEW ok
  PROVE  /\ ResolveConfig(c, ok).denyFrom =
              IF "deny" \in ok THEN Resolve(c.denyFrom, Friend) ELSE c.denyFrom
         /\ ResolveConfig(c, ok).groups =
              IF Looked(c, ok) THEN ResolveGroups(c.groups, Friend, Known(ok))
              ELSE c.groups
<1>1. c \in [denyFrom : SUBSET Entry, allowFrom : SUBSET Entry,
            dmPolicy : {"open", "pairing", "allowlist", "disabled"},
            groupPolicy : {"open", "allowlist", "disabled"},
            groups : {c.groups}]
  BY Zenon DEF IsConfig
<1> QED BY <1>1 DEF ResolveConfig, Known, Looked

LEMMA ResolvedGroups ==
  ASSUME NEW groups, groups \in [DOMAIN groups -> GroupEntry], NEW known
  PROVE  LET new == ResolveGroups(groups, Friend, known)
         IN /\ \A k \in DOMAIN groups :
                 k \in DOMAIN new /\ new[k].deny = Resolve(groups[k].deny, Friend)
            /\ \A g \in known :
                 ByName(g) \in DOMAIN groups /\ ById(g) \notin DOMAIN groups =>
                   /\ ById(g) \in DOMAIN new
                   /\ new[ById(g)].deny = Resolve(groups[ByName(g)].deny, Friend)
<1> DEFINE new == ResolveGroups(groups, Friend, known)
           fresh == {g \in known : ByName(g) \in DOMAIN groups
                                   /\ ById(g) \notin DOMAIN groups}
           keys == DOMAIN groups \cup {ById(g) : g \in fresh}
           From(k) == IF k \in DOMAIN groups THEN groups[k] ELSE groups[ByName(k[2])]
<1>1. new = [k \in keys |-> [From(k) EXCEPT !.deny = Resolve(@, Friend)]]
  BY Zenon DEF ResolveGroups
<1>2. ASSUME NEW e \in GroupEntry
      PROVE  [e EXCEPT !.deny = Resolve(@, Friend)].deny = Resolve(e.deny, Friend)
  BY <1>2 DEF GroupEntry
<1>3. ASSUME NEW k \in DOMAIN groups
      PROVE  k \in DOMAIN new /\ new[k].deny = Resolve(groups[k].deny, Friend)
  <2>1. k \in keys /\ From(k) = groups[k] /\ groups[k] \in GroupEntry
    OBVIOUS
  <2> HIDE DEF keys, From, new
  <2>2. k \in DOMAIN new /\ new[k] = [From(k) EXCEPT !.deny = Resolve(@, Friend)]
    BY <1>1, <2>1
  <2>3. new[k] = [groups[k] EXCEPT !.deny = Resolve(@, Friend)]
    BY <2>1, <2>2, Zenon
  <2> QED BY <1>2, <2>1, <2>2, <2>3, Zenon
<1>4. ASSUME NEW g \in known, ByName(g) \in DOMAIN groups, ById(g) \notin DOMAIN groups
      PROVE  /\ ById(g) \in DOMAIN new
             /\ new[ById(g)].deny = Resolve(groups[ByName(g)].deny, Friend)
  <2> DEFINE k == ById(g)
             e == groups[ByName(g)]
  <2>1. k \in keys
    BY <1>4
  <2>2. From(k) = e /\ e \in GroupEntry
    <3>1. k[2] = g
      BY DEF ById
    <3> HIDE DEF k
    <3> QED BY <1>4, <3>1 DEF k
  <2> HIDE DEF keys, From, new, k, e
  <2>3. k \in DOMAIN new /\ new[k] = [From(k) EXCEPT !.deny = Resolve(@, Friend)]
    BY <1>1, <2>1
  <2>4. new[k] = [e EXCEPT !.deny = Resolve(@, Friend)]
    BY <2>2, <2>3, Zenon
  <2>5. k \in DOMAIN new /\ new[k].deny = Resolve(e.deny, Friend)
    BY <1>2, <2>2, <2>3, <2>4, Zenon
  <2> QED BY <2>5 DEF k, e
<1> QED BY <1>3, <1>4, Zenon

LEMMA ListedIsKept ==
  ASSUME NEW entries, NEW u, NEW looked,
         Lists(entries, u, looked)
  PROVE  Listed(u, IF looked THEN Resolve(entries, Friend) ELSE entries)
BY DEF Lists, Listed, Resolve

LEMMA DeniedIsRefused ==
  ASSUME Shaped, NEW n \in 1..Len(monitors), NEW u, NEW t, DeniedAt(n, u, t)
  PROVE  Refused(monitors[n].cfg, u, t)
<1> DEFINE src == monitors[n].source
           ok == monitors[n].ok
           cfg == monitors[n].cfg
           named == Looked(src, ok)
           titled == named /\ "titles" \in ok /\ ById(t) \notin DOMAIN src.groups
           keys == {ById(t), Prefixed(t), AnyGroup}
                   \cup IF titled THEN {ByName(t)} ELSE {}
<1>1. IsConfig(src) /\ cfg = ResolveConfig(src, ok)
  <2>1. monitors[n] \in MonitorRecord
    BY DEF Shaped
  <2>2. src \in Configuration
    BY <2>1 DEF MonitorRecord
  <2> QED BY <2>2, MonitorAssumption DEF Shaped
<1>2. /\ cfg.denyFrom = IF "deny" \in ok THEN Resolve(src.denyFrom, Friend)
                        ELSE src.denyFrom
      /\ cfg.groups = IF named THEN ResolveGroups(src.groups, Friend, Known(ok))
                      ELSE src.groups
      /\ src.groups \in [DOMAIN src.groups -> GroupEntry]
  <2>1. src.groups \in [DOMAIN src.groups -> GroupEntry]
    BY <1>1, Zenon DEF IsConfig
  <2> HIDE DEF src, ok
  <2> QED BY <1>1, <2>1, ResolvedFields
<1>3. \/ Lists(src.denyFrom, u, "deny" \in ok)
      \/ /\ t \in Group
         /\ \E k \in keys \cap DOMAIN src.groups : Lists(src.groups[k].deny, u, named)
  BY DEF DeniedAt, Looked
<1> HIDE DEF src, ok, cfg, named
<1>4. CASE Lists(src.denyFrom, u, "deny" \in ok)
  <2>1. Listed(u, cfg.denyFrom)
    <3>1. CASE "deny" \in ok
      BY <1>2, <1>4, <3>1, Zenon DEF Lists, Listed, Resolve
    <3>2. CASE "deny" \notin ok
      BY <1>2, <1>4, <3>2, Zenon DEF Lists
    <3> QED BY <3>1, <3>2
  <2> QED BY <2>1 DEF Refused, cfg
<1>5. ASSUME t \in Group, NEW k \in keys, k \in DOMAIN src.groups,
             Lists(src.groups[k].deny, u, named)
      PROVE  DeniedInGroup(cfg, u, t)
  <2> DEFINE new == ResolveGroups(src.groups, Friend, Known(ok))
  <2>1. CASE ~named
    <3>1. k \in {ById(t), Prefixed(t), AnyGroup} /\ cfg.groups = src.groups
      BY <1>2, <1>5, <2>1
    <3>2. Listed(u, cfg.groups[k].deny)
      BY <1>5, <2>1, <3>1, ListedIsKept
    <3> QED BY <1>5, <3>1, <3>2 DEF DeniedInGroup
  <2>2. CASE named
    <3>1. cfg.groups = new /\ Listed(u, Resolve(src.groups[k].deny, Friend))
      BY <1>2, <1>5, <2>2, ListedIsKept
    <3>2. CASE k \in {ById(t), Prefixed(t), AnyGroup}
      <4>1. k \in DOMAIN new /\ new[k].deny = Resolve(src.groups[k].deny, Friend)
        BY <1>2, <1>5, ResolvedGroups
      <4> QED BY <3>1, <3>2, <4>1, Zenon DEF DeniedInGroup
    <3>3. CASE k \notin {ById(t), Prefixed(t), AnyGroup}
      <4>1. k = ByName(t) /\ ById(t) \notin DOMAIN src.groups /\ t \in Known(ok)
        BY <1>5, <3>3 DEF Known
      <4>2. /\ ById(t) \in DOMAIN new
            /\ new[ById(t)].deny = Resolve(src.groups[k].deny, Friend)
        BY <1>2, <1>5, <4>1, ResolvedGroups
      <4> QED BY <3>1, <4>2, Zenon DEF DeniedInGroup
    <3> QED BY <3>2, <3>3
  <2> QED BY <2>1, <2>2
<1> QED BY <1>3, <1>4, <1>5 DEF Refused, cfg

OutPhases == {"waiting", "skipped", "refused"}

DeniedKeptOut ==
  \A j \in DOMAIN jobs :
    DeniedAt(jobs[j].mon, Msg(j).from, Msg(j).thread) => jobs[j].phase \in OutPhases

(* What denies a user goes on to do so.                                     *)
LEMMA DeniedStays ==
  ASSUME Typed, Continues, NEW n \in 1..Len(monitors), NEW u, NEW t
  PROVE  DeniedAt(n, u, t)' <=> DeniedAt(n, u, t)
<1>1. monitors'[n].source = monitors[n].source /\ monitors'[n].ok = monitors[n].ok
  BY DEF Continues
<1> QED BY <1>1, Zenon DEF DeniedAt

LEMMA MsgOfJobStays ==
  ASSUME Typed, Continues, NEW j \in DOMAIN jobs
  PROVE  /\ jobs'[j].mon = jobs[j].mon /\ jobs'[j].id = jobs[j].id
         /\ jobs[j].mon \in 1..Len(monitors) /\ jobs[j].id \in 1..Len(pushed)
         /\ pushed'[jobs[j].id] = pushed[jobs[j].id]
         /\ Msg(j)' = Msg(j)
<1>1. /\ jobs'[j].mon = jobs[j].mon /\ jobs'[j].id = jobs[j].id
      /\ jobs[j].mon \in 1..Len(monitors) /\ jobs[j].id \in 1..Len(pushed)
      /\ pushed'[jobs[j].id] = pushed[jobs[j].id]
  BY JobFields DEF Continues, Typed
<1> QED BY <1>1 DEF Msg

(* What a step does to the phase of a job that is not past its first check. *)
LEMMA NextKeptOut == Typed /\ DeniedKeptOut /\ [Next]_vars => DeniedKeptOut'
<1> SUFFICES ASSUME Typed, DeniedKeptOut, [Next]_vars,
                    NEW j \in DOMAIN jobs',
                    DeniedAt(jobs[j].mon, Msg(j).from, Msg(j).thread)'
             PROVE  jobs'[j].phase \in OutPhases
  BY DEF DeniedKeptOut
<1>1. Continues /\ JobsGoOn /\ Typed'
  BY NextTyped, NextJobs
<1>2. CASE j \in DOMAIN jobs
  <2>1. /\ jobs'[j].mon = jobs[j].mon /\ jobs[j].mon \in 1..Len(monitors)
        /\ Msg(j)' = Msg(j)
    BY <1>1, <1>2, MsgOfJobStays
  <2>2. /\ monitors'[jobs[j].mon].source = monitors[jobs[j].mon].source
        /\ monitors'[jobs[j].mon].ok = monitors[jobs[j].mon].ok
    BY <1>1, <2>1 DEF Continues
  <2>3. DeniedAt(jobs[j].mon, Msg(j).from, Msg(j).thread)
    BY <2>1, <2>2, Zenon DEF DeniedAt
  <2>4. jobs[j].phase \in OutPhases
    BY <1>2, <2>3 DEF DeniedKeptOut
  <2>5. Refused(ConfigOf(j), Msg(j).from, Msg(j).thread)
    BY <2>1, <2>3, DeniedIsRefused DEF Typed, ConfigOf
  <2>6. CASE jobs' = jobs
    BY <2>4, <2>6
  <2>7. ASSUME NEW id, NEW n, Joins(id, n)
        PROVE  jobs'[j].phase \in OutPhases
    BY <1>2, <2>4, <2>7 DEF Joins, OutPhases
  <2>8. ASSUME NEW k \in DOMAIN jobs, Step(k)
        PROVE  jobs'[j].phase \in OutPhases
    <3>1. CASE k # j
      <4>1. jobs'[j] = jobs[j]
        BY <1>2, <2>8, <3>1, StepJobs DEF Changes, Typed
      <4> QED BY <2>4, <4>1
    <3>2. CASE k = j
      <4>1. Begin(j) \/ SkipStale(j)
        BY <2>4, <2>8, <3>2 DEF Step, OutPhases, AuthorizeDirect, AuthorizeInGroup,
             TakeContext, TakeQuote, Reply, Fail, DeadlinePasses, Active
      <4>2. Goto(j, "refused") \/ Goto(j, "skipped")
        BY <2>5, <4>1 DEF Begin, SkipStale
      <4>3. "refused" \in Phase /\ "skipped" \in Phase
        BY DEF Phase, Ended
      <4> QED BY <1>2, <4>2, <4>3, GotoMoves DEF Typed, Moves, OutPhases
    <3> QED BY <3>1, <3>2
  <2>9. jobs' = jobs \/ (\E id, n : Joins(id, n)) \/ (\E k \in DOMAIN jobs : Step(k))
    BY <1>1, Zenon DEF JobsGoOn
  <2> QED BY <2>6, <2>7, <2>8, <2>9
<1>3. CASE j \notin DOMAIN jobs
  <2>1. ASSUME NEW id, NEW n, Joins(id, n)
        PROVE  jobs'[j].phase \in OutPhases
    <3>1. j = Len(jobs) + 1
      BY <1>3, <2>1, Lengths DEF Joins, Typed
    <3> QED BY <2>1, <3>1 DEF Joins, OutPhases
  <2> QED BY <1>1, <1>3, <2>1 DEF JobsGoOn, Changes
<1> QED BY <1>2, <1>3

-----------------------------------------------------------------------------
(* The quote.  Between the start of a message's processing and the moment   *)
(* its quote is read, the cache holds no other message of its thread: the   *)
(* queue starts none there, unless the deadline passed or another monitor   *)
(* works on the thread as well.                                             *)
Unquoted == {"auth", "names", "session"}

Sole(j) ==
  \A k \in DOMAIN jobs : Msg(k).thread = Msg(j).thread => jobs[k].mon = jobs[j].mon

CachedIsOwn ==
  \A a \in DOMAIN inbound, j \in DOMAIN jobs :
    /\ inbound[a][1] = Msg(j).thread
    /\ Msg(j).ids = TRUE /\ jobs[j].late = FALSE
    /\ jobs[j].phase \in Unquoted
    /\ Sole(j)
    => inbound[a][2] = j

QuoteOwn(j) ==
  \/ jobs[j].quote \in {0, j}
  \/ jobs[j].late = TRUE
  \/ Msg(j).ids = FALSE
  \/ ~Sole(j)

QuoteInv == CachedIsOwn /\ \A j \in DOMAIN jobs : QuoteOwn(j)

LEMMA QuoteInvIsQuoteIsOwn == Typed /\ QuoteInv => QuoteIsOwn
<1> SUFFICES ASSUME Typed, QuoteInv, NEW j \in DOMAIN jobs
             PROVE  \/ jobs[j].quote \in {0, j}
                    \/ jobs[j].late \/ ~Msg(j).ids
                    \/ \E k \in DOMAIN jobs : Msg(k).thread = Msg(j).thread
                                             /\ jobs[k].mon # jobs[j].mon
  BY DEF QuoteIsOwn
<1> QED BY DEF QuoteInv, QuoteOwn, Sole

LEMMA LengthsAfter ==
  ASSUME Typed'
  PROVE  Len(jobs') \in Nat /\ DOMAIN jobs' = 1..Len(jobs')
BY DEF Typed, Shaped

LEMMA MsgStays ==
  ASSUME Typed, Typed', Continues, NEW k \in DOMAIN jobs
  PROVE  /\ k \in DOMAIN jobs'
         /\ Msg(k)' = Msg(k)
         /\ jobs'[k].mon = jobs[k].mon
         /\ jobs'[k].id = jobs[k].id
<1>1. /\ jobs'[k].id = jobs[k].id /\ jobs'[k].mon = jobs[k].mon
      /\ jobs[k].id \in 1..Len(pushed)
  BY JobFields DEF Continues, Typed
<1>2. pushed'[jobs[k].id] = pushed[jobs[k].id]
  BY <1>1 DEF Continues
<1>3. k \in DOMAIN jobs'
  <2>1. Len(jobs) <= Len(jobs') /\ k \in 1..Len(jobs) /\ Len(jobs) \in Nat
    BY Lengths, JobFields DEF Continues, Typed
  <2>2. Len(jobs') \in Nat /\ DOMAIN jobs' = 1..Len(jobs')
    BY LengthsAfter
  <2> QED BY <2>1, <2>2
<1> QED BY <1>1, <1>2, <1>3 DEF Msg

LEMMA SoleStays ==
  ASSUME Typed, Typed', Continues, NEW j \in DOMAIN jobs, Sole(j)'
  PROVE  Sole(j)
<1> SUFFICES ASSUME NEW k \in DOMAIN jobs, Msg(k).thread = Msg(j).thread
             PROVE  jobs[k].mon = jobs[j].mon
  BY DEF Sole
<1>1. /\ k \in DOMAIN jobs' /\ Msg(k)' = Msg(k) /\ jobs'[k].mon = jobs[k].mon
      /\ Msg(j)' = Msg(j) /\ jobs'[j].mon = jobs[j].mon
  BY MsgStays
<1>2. \A i \in DOMAIN jobs' : Msg(i)'.thread = Msg(j)'.thread => jobs'[i].mon = jobs'[j].mon
  BY DEF Sole
<1> QED BY <1>1, <1>2

(* What the steps of processMessage after the first do to their own job.    *)
GoesOn(j) ==
  /\ inbound' = inbound
  /\ jobs'[j].phase \in Unquoted /\ jobs'[j].late = FALSE =>
       jobs[j].phase \in Unquoted /\ jobs[j].late = FALSE
  /\ \/ jobs'[j].quote = jobs[j].quote
     \/ /\ jobs[j].phase = "session"
        /\ jobs'[j].late = jobs[j].late
        /\ jobs'[j].quote = QuoteFor(Msg(j).thread)

LEMMA LaterSteps ==
  ASSUME Shaped, NEW j \in DOMAIN jobs, Step(j), ~Begin(j)
  PROVE  GoesOn(j)
<1>1. ASSUME NEW p \in Phase, Goto(j, p), inbound' = inbound,
             p \in Unquoted => jobs[j].phase \in Unquoted
      PROVE  GoesOn(j)
  BY <1>1, GotoMoves DEF Moves, GoesOn
<1>2. CASE SkipStale(j) \/ Reply(j) \/ Fail(j)
  <2>1. inbound' = inbound
    BY <1>2 DEF SkipStale, Reply, Fail, caches
  <2> QED BY <1>1, <1>2, <2>1 DEF SkipStale, Reply, Fail, Phase, Ended, Unquoted
<1>3. CASE \E approved : AuthorizeDirect(j, approved)
  <2>1. inbound' = inbound /\ jobs[j].phase \in Unquoted
    BY <1>3 DEF AuthorizeDirect, caches, Unquoted
  <2> QED BY <1>1, <1>3, <2>1 DEF AuthorizeDirect, Phase, Ended, Active
<1>4. CASE \E aged : AuthorizeInGroup(j, aged)
  <2>1. inbound' = inbound /\ jobs[j].phase \in Unquoted
    BY <1>4 DEF AuthorizeInGroup, Unquoted
  <2> QED BY <1>1, <1>4, <2>1 DEF AuthorizeInGroup, Phase, Ended, Active
<1>5. CASE TakeContext(j)
  <2>1. inbound' = inbound /\ jobs[j].phase \in Unquoted
    BY <1>5 DEF TakeContext, Unquoted
  <2>2. CASE Msg(j).thread \in Group
    <3>1. buffer[Msg(j).thread] \in Seq(1..Len(pushed))
      BY <2>2 DEF Shaped
    <3>2. jobs'[j].late = jobs[j].late /\ jobs'[j].quote = jobs[j].quote
      BY <1>5, <2>2, <3>1, TakeContextMoves DEF TakeContext
    <3> QED BY <2>1, <3>2 DEF GoesOn
  <2>3. CASE Msg(j).thread \notin Group
    BY <1>1, <1>5, <2>1, <2>3 DEF TakeContext, Phase, Active
  <2> QED BY <2>2, <2>3
<1>6. CASE TakeQuote(j)
  <2> DEFINE q == QuoteFor(Msg(j).thread)
  <2>1. q \in 0..Len(jobs)
    BY QuoteForIs, Lengths
  <2>2. /\ inbound' = inbound /\ jobs[j].phase = "session"
        /\ jobs' = [jobs EXCEPT ![j].phase = "reply", ![j].quote = q]
    BY <1>6 DEF TakeQuote, caches
  <2> HIDE DEF q
  <2>3. /\ jobs'[j].phase = "reply" /\ jobs'[j].quote = q
        /\ jobs'[j].late = jobs[j].late
    BY <2>1, <2>2, TakeQuoteMoves
  <2> QED BY <2>2, <2>3 DEF GoesOn, Unquoted, q
<1>7. CASE DeadlinePasses(j)
  <2>1. inbound' = inbound /\ jobs' = [jobs EXCEPT ![j].late = TRUE]
    BY <1>7 DEF DeadlinePasses, caches
  <2>2. jobs'[j].late = TRUE /\ jobs'[j].quote = jobs[j].quote
    BY <2>1, DeadlineMoves
  <2> QED BY <2>1, <2>2 DEF GoesOn
<1> QED BY <1>2, <1>3, <1>4, <1>5, <1>6, <1>7 DEF Step

(* When a message is started, nothing of its thread is being processed.     *)
LEMMA BeginAlone ==
  ASSUME NEW j \in DOMAIN jobs, MayStart(j), NEW k \in DOMAIN jobs,
         Msg(k).thread = Msg(j).thread, jobs[k].mon = jobs[j].mon,
         jobs[k].phase \in Active, jobs[k].late = FALSE
  PROVE  FALSE
<1>1. k \in Running(jobs[j].mon)
  BY DEF Running
<1> QED BY <1>1 DEF MayStart

LEMMA BeginCached ==
  ASSUME Typed, NEW j \in DOMAIN jobs, Begin(j), Msg(j).ids = TRUE
  PROVE  \A a \in DOMAIN inbound' :
           \/ inbound'[a][1] = Msg(j).thread /\ inbound'[a][2] = j
           \/ /\ inbound'[a][1] # Msg(j).thread
              /\ \E b \in DOMAIN inbound : inbound'[a] = inbound[b]
<1> DEFINE T == Group \cup User
           J == 1..Len(jobs)
           t == Msg(j).thread
<1>1. /\ inbound \in Seq(T \X J) /\ UniqueKeys(inbound)
      /\ Len(inbound) <= InboundMax /\ InboundMax \in Nat \ {0}
  BY MonitorAssumption DEF Typed, Shaped, CachesGood
<1>2. t \in T /\ j \in J
  BY JobFields, MsgFields DEF Typed, Msg
<1>3. inbound' = CacheInbound(inbound, t, j)
  BY DEF Begin
<1> HIDE DEF T, J, t
<1>4. LET new == CacheInbound(inbound, t, j)
      IN /\ new \in Seq(T \X J)
         /\ Len(new) <= InboundMax
         /\ UniqueKeys(new)
         /\ \A a \in 1..Len(new) : new[a][1] = t => new[a][2] = j
         /\ \A a \in 1..Len(new) : new[a][1] # t => new[a] \in ToSet(inbound)
  BY <1>1, <1>2, CacheInboundKeeps
<1>5. DOMAIN inbound' = 1..Len(inbound')
  BY <1>3, <1>4
<1>6. \A a \in DOMAIN inbound' :
        \/ inbound'[a][1] = t /\ inbound'[a][2] = j
        \/ inbound'[a][1] # t /\ \E b \in DOMAIN inbound : inbound'[a] = inbound[b]
  BY <1>3, <1>4, <1>5 DEF ToSet
<1> QED BY <1>6 DEF t

LEMMA BeginQuote ==
  ASSUME Typed, Typed', Continues, QuoteInv, NEW j \in DOMAIN jobs, Begin(j)
  PROVE  QuoteInv'
<1>1. /\ Changes(j) /\ jobs'[j].quote = jobs[j].quote
      /\ jobs'[j].late = jobs[j].late
  <2>1. PICK p \in Phase : Goto(j, p)
    BY DEF Begin, Phase, Active, Ended
  <2> QED BY <2>1, GotoMoves DEF Moves, Typed
<1>2. ASSUME NEW k \in DOMAIN jobs'
      PROVE  /\ k \in DOMAIN jobs /\ Msg(k)' = Msg(k)
             /\ jobs'[k].quote = jobs[k].quote /\ jobs'[k].late = jobs[k].late
             /\ Sole(k)' => Sole(k)
             /\ k # j => jobs'[k] = jobs[k]
  <2>1. k \in DOMAIN jobs
    BY <1>1 DEF Changes
  <2>2. jobs'[k].quote = jobs[k].quote /\ jobs'[k].late = jobs[k].late
    BY <1>1, <2>1 DEF Changes
  <2> QED BY <1>1, <2>1, <2>2, MsgStays, SoleStays DEF Changes
<1>3. ASSUME NEW k \in DOMAIN jobs'
      PROVE  QuoteOwn(k)'
  BY <1>2 DEF QuoteInv, QuoteOwn
<1>4. ASSUME NEW a \in DOMAIN inbound', NEW k \in DOMAIN jobs',
             inbound'[a][1] = Msg(k)'.thread, Msg(k)'.ids = TRUE,
             jobs'[k].late = FALSE, jobs'[k].phase \in Unquoted, Sole(k)'
      PROVE  inbound'[a][2] = k
  <2>1. /\ k \in DOMAIN jobs /\ inbound'[a][1] = Msg(k).thread
        /\ Msg(k).ids = TRUE /\ jobs[k].late = FALSE /\ Sole(k)
        /\ k # j => jobs[k].phase \in Unquoted
    BY <1>2, <1>4
  <2>2. CASE k # j /\ Msg(k).thread = Msg(j).thread
    <3>1. jobs[k].mon = jobs[j].mon
      BY <2>1, <2>2 DEF Sole
    <3>2. jobs[k].phase \in Active /\ MayStart(j)
      BY <2>1, <2>2 DEF Unquoted, Active, Begin
    <3> QED BY <2>1, <2>2, <3>1, <3>2, BeginAlone
  <2>3. CASE Msg(j).ids = TRUE
    <3>1. \/ inbound'[a][1] = Msg(j).thread /\ inbound'[a][2] = j
          \/ /\ inbound'[a][1] # Msg(j).thread
             /\ \E b \in DOMAIN inbound : inbound'[a] = inbound[b]
      BY <2>3, BeginCached
    <3>2. CASE inbound'[a][1] = Msg(j).thread
      BY <2>1, <2>2, <3>1, <3>2
    <3>3. CASE inbound'[a][1] # Msg(j).thread
      <4>1. PICK b \in DOMAIN inbound : inbound'[a] = inbound[b]
        BY <3>1, <3>3
      <4>2. k # j
        BY <2>1, <3>3
      <4> QED BY <2>1, <4>1, <4>2 DEF QuoteInv, CachedIsOwn
    <3> QED BY <3>2, <3>3
  <2>4. CASE Msg(j).ids # TRUE
    <3>1. k # j
      BY <2>1, <2>4
    <3>2. inbound' = inbound
      <4>1. Msg(j).ids \in BOOLEAN
        BY JobFields, MsgFields DEF Typed, Msg
      <4> QED BY <2>4, <4>1 DEF Begin
    <3> QED BY <2>1, <3>1, <3>2 DEF QuoteInv, CachedIsOwn
  <2> QED BY <2>3, <2>4
<1>5. CachedIsOwn'
  BY <1>4, Zenon DEF CachedIsOwn
<1> QED BY <1>3, <1>5 DEF QuoteInv

LEMMA LaterQuote ==
  ASSUME Typed, Typed', Continues, QuoteInv, NEW j \in DOMAIN jobs,
         Changes(j), GoesOn(j)
  PROVE  QuoteInv'
<1>1. ASSUME NEW k \in DOMAIN jobs'
      PROVE  /\ k \in DOMAIN jobs /\ Msg(k)' = Msg(k)
             /\ Sole(k)' => Sole(k)
             /\ k # j => jobs'[k] = jobs[k]
  BY MsgStays, SoleStays DEF Changes
<1>2. CachedIsOwn'
  <2> SUFFICES ASSUME NEW a \in DOMAIN inbound', NEW k \in DOMAIN jobs',
                      inbound'[a][1] = Msg(k)'.thread, Msg(k)'.ids = TRUE,
                      jobs'[k].late = FALSE, jobs'[k].phase \in Unquoted, Sole(k)'
               PROVE  inbound'[a][2] = k
    BY Zenon DEF CachedIsOwn
  <2>1. inbound' = inbound /\ jobs[k].late = FALSE /\ jobs[k].phase \in Unquoted
    BY <1>1 DEF GoesOn
  <2> QED BY <1>1, <2>1 DEF QuoteInv, CachedIsOwn
<1>3. ASSUME NEW k \in DOMAIN jobs'
      PROVE  QuoteOwn(k)'
  <2>0. k \in DOMAIN jobs /\ QuoteOwn(k)
    BY <1>1 DEF QuoteInv
  <2>1. CASE k # j
    BY <1>1, <2>0, <2>1 DEF QuoteOwn
  <2>2. CASE k = j /\ jobs'[j].quote = jobs[j].quote
    <3>1. jobs[k].late = TRUE => jobs'[k].late = TRUE
      BY <2>0 DEF Continues
    <3> QED BY <1>1, <2>0, <2>2, <3>1 DEF QuoteOwn
  <2>3. CASE k = j /\ jobs'[j].quote # jobs[j].quote
    <3>1. /\ jobs[j].phase \in Unquoted
          /\ jobs'[j].late = jobs[j].late
          /\ jobs'[j].quote = QuoteFor(Msg(j).thread)
      BY <2>3 DEF GoesOn, Unquoted
    <3>2. CASE QuoteFor(Msg(j).thread) = 0
      BY <2>3, <3>1, <3>2 DEF QuoteOwn
    <3>3. CASE QuoteFor(Msg(j).thread) # 0
      <4>1. PICK a \in DOMAIN inbound : /\ inbound[a][1] = Msg(j).thread
                                       /\ QuoteFor(Msg(j).thread) = inbound[a][2]
        BY <3>3, QuoteForIs DEF Typed
      <4>2. jobs[j].late \in BOOLEAN /\ Msg(j).ids \in BOOLEAN
        BY JobFields, MsgFields DEF Typed, Msg
      <4>3. CASE Sole(j) /\ jobs[j].late = FALSE /\ Msg(j).ids = TRUE
        <5>1. inbound[a][2] = j
          BY <3>1, <4>1, <4>3 DEF QuoteInv, CachedIsOwn
        <5> QED BY <2>3, <3>1, <4>1, <5>1 DEF QuoteOwn
      <4>4. CASE ~Sole(j) \/ jobs[j].late = TRUE \/ Msg(j).ids = FALSE
        BY <1>1, <2>3, <3>1, <4>4 DEF QuoteOwn
      <4> QED BY <4>2, <4>3, <4>4
    <3> QED BY <3>2, <3>3
  <2> QED BY <2>1, <2>2, <2>3
<1> QED BY <1>2, <1>3 DEF QuoteInv

LEMMA JoinedQuote ==
  ASSUME Typed, Typed', Continues, QuoteInv, NEW id, NEW n, Joins(id, n),
         inbound' = inbound
  PROVE  QuoteInv'
<1>1. ASSUME NEW k \in DOMAIN jobs'
      PROVE  k \in DOMAIN jobs \/ (k = Len(jobs) + 1 /\ k \notin DOMAIN jobs)
  BY Lengths DEF Joins, Typed
<1>2. ASSUME NEW k \in DOMAIN jobs
      PROVE  /\ Msg(k)' = Msg(k)
             /\ Sole(k)' => Sole(k)
             /\ jobs'[k].late = jobs[k].late /\ jobs'[k].quote = jobs[k].quote
             /\ jobs'[k].phase \in Unquoted => jobs[k].phase \in Unquoted
  BY MsgStays, SoleStays DEF Joins, Unquoted
<1>3. /\ jobs'[Len(jobs) + 1].phase \notin Unquoted
      /\ jobs'[Len(jobs) + 1].quote = 0
  BY DEF Joins, Unquoted
<1>4. CachedIsOwn'
  <2> SUFFICES ASSUME NEW a \in DOMAIN inbound', NEW k \in DOMAIN jobs',
                      inbound'[a][1] = Msg(k)'.thread, Msg(k)'.ids = TRUE,
                      jobs'[k].late = FALSE, jobs'[k].phase \in Unquoted, Sole(k)'
               PROVE  inbound'[a][2] = k
    BY Zenon DEF CachedIsOwn
  <2>1. k \in DOMAIN jobs
    BY <1>1, <1>3
  <2> QED BY <1>2, <2>1 DEF QuoteInv, CachedIsOwn
<1>5. ASSUME NEW k \in DOMAIN jobs'
      PROVE  QuoteOwn(k)'
  <2>1. CASE k \in DOMAIN jobs
    BY <1>2, <2>1 DEF QuoteInv, QuoteOwn
  <2>2. CASE k = Len(jobs) + 1
    BY <1>3, <2>2 DEF QuoteOwn
  <2> QED BY <1>1, <2>1, <2>2
<1> QED BY <1>4, <1>5 DEF QuoteInv

LEMMA NextQuote == Typed /\ QuoteInv /\ [Next]_vars => QuoteInv'
<1> SUFFICES ASSUME Typed, QuoteInv, [Next]_vars PROVE QuoteInv'
  OBVIOUS
<1>1. Typed' /\ Continues /\ JobsGoOn
  BY NextTyped, NextJobs
<1>2. CASE jobs' = jobs /\ inbound' = inbound
  <2>1. \A k \in DOMAIN jobs : Msg(k)' = Msg(k) /\ (Sole(k)' => Sole(k))
    BY <1>1, MsgStays, SoleStays
  <2>2. CachedIsOwn'
    BY <1>2, <2>1 DEF QuoteInv, CachedIsOwn
  <2>3. \A k \in DOMAIN jobs' : QuoteOwn(k)'
    BY <1>2, <2>1 DEF QuoteInv, QuoteOwn
  <2> QED BY <2>2, <2>3 DEF QuoteInv
<1>3. ASSUME NEW j \in DOMAIN jobs, Step(j), Changes(j) PROVE QuoteInv'
  <2>1. CASE Begin(j)
    BY <1>1, <2>1, BeginQuote
  <2>2. CASE ~Begin(j)
    BY <1>1, <1>3, <2>2, LaterSteps, LaterQuote DEF Typed
  <2> QED BY <2>1, <2>2
<1>4. ASSUME NEW id, NEW n, Joins(id, n), inbound' = inbound PROVE QuoteInv'
  BY <1>1, <1>4, JoinedQuote
<1> QED BY <1>1, <1>2, <1>3, <1>4 DEF JobsGoOn

LEMMA InitQuote == Init => QuoteInv
BY DEF Init, QuoteInv, CachedIsOwn

(* A reply quotes the message it answers or nothing, unless its deadline    *)
(* passed, it has no ids, or two monitors work on the thread.               *)
THEOREM QuotesAreOwn == Spec => []QuoteIsOwn
BY AlwaysTyped, InitQuote, NextQuote, QuoteInvIsQuoteIsOwn, PTL DEF Spec

-----------------------------------------------------------------------------
(* The context.  With one monitor and no message queued twice, the jobs     *)
(* stand in the order of their messages, and a thread's later messages wait *)
(* while an earlier one waits or is processed in time.  So what is buffered *)
(* was said before everything that is not yet decided, and it was neither   *)
(* given to the agent nor heard before.                                     *)
Talk(g) == ToSet(buffer[g])
Heard(j) == ToSet(jobs[j].context)

Alone ==
  /\ Len(monitors) = 1
  /\ \A j, k \in DOMAIN jobs : jobs[j].id = jobs[k].id => j = k

Blocks(j) ==
  \/ jobs[j].phase = "waiting"
  \/ jobs[j].phase \in Active /\ jobs[j].late = FALSE

Undecided(j) ==
  \/ jobs[j].phase = "waiting"
  \/ jobs[j].phase \in {"auth", "names"} /\ jobs[j].late = FALSE

OnTime == \A j \in DOMAIN jobs : jobs[j].late = FALSE

InOrder == \A j, k \in DOMAIN jobs : j < k => jobs[j].id < jobs[k].id

Turn ==
  \A j, k \in DOMAIN jobs :
    j < k /\ Msg(j).thread = Msg(k).thread /\ Blocks(j) =>
      jobs[k].phase \in {"waiting", "skipped"}

TalkGood(g, x) ==
  /\ pushed[x].thread = g
  /\ \A k \in DOMAIN jobs :
       /\ jobs[k].id = x => jobs[k].phase = "buffered"
       /\ x \notin Heard(k)
       /\ Msg(k).thread = g /\ Undecided(k) => x < jobs[k].id

BufferGood ==
  \A g \in Group : /\ \A x \in Talk(g) : TalkGood(g, x)
                   /\ OnTime => Rising(buffer[g])

WordGood(j, x) ==
  /\ pushed[x].thread = Msg(j).thread
  /\ \A k \in DOMAIN jobs : /\ jobs[k].id = x => jobs[k].phase = "buffered"
                            /\ k # j => x \notin Heard(k)
  /\ x > jobs[j].id => jobs[j].late = TRUE

HeardGood ==
  \A j \in DOMAIN jobs : /\ \A x \in Heard(j) : WordGood(j, x)
                         /\ OnTime => Rising(jobs[j].context)

AllGood == InOrder /\ Turn /\ BufferGood /\ HeardGood

ContextInv ==
  /\ Alone => AllGood
  /\ Len(monitors) = 0 => \A g \in Group : buffer[g] = <<>>

LEMMA WordsWereSaid ==
  ASSUME Shaped
  PROVE  /\ \A g \in Group : /\ Talk(g) \subseteq 1..Len(pushed)
                             /\ buffer[g] \in Seq(1..Len(pushed))
         /\ \A j \in DOMAIN jobs : Heard(j) \subseteq 1..Len(pushed)
<1>1. ASSUME NEW g \in Group
      PROVE  Talk(g) \subseteq 1..Len(pushed) /\ buffer[g] \in Seq(1..Len(pushed))
  BY DEF Shaped, Talk, ToSet
<1>2. ASSUME NEW j \in DOMAIN jobs
      PROVE  Heard(j) \subseteq 1..Len(pushed)
  BY JobFields DEF Heard, ToSet
<1> QED BY <1>1, <1>2

(* A step that leaves the buffers alone, takes no context and decides, at   *)
(* most, what to do with some of the messages; a new job is for a new one.  *)
Onward ==
  /\ buffer' = buffer
  /\ \A k \in DOMAIN jobs :
       /\ jobs'[k].context = jobs[k].context
       /\ jobs[k].phase = "buffered" => jobs'[k].phase = "buffered"
       /\ Undecided(k)' => Undecided(k)
  /\ \A k \in DOMAIN jobs' : k \notin DOMAIN jobs =>
       /\ jobs'[k].id > Len(pushed)
       /\ jobs'[k].context = <<>>

LEMMA OnTimeBefore ==
  ASSUME Typed, Typed', Continues, OnTime'
  PROVE  OnTime
<1> SUFFICES ASSUME NEW j \in DOMAIN jobs PROVE jobs[j].late = FALSE
  BY DEF OnTime
<1>1. j \in DOMAIN jobs' /\ jobs[j].late \in BOOLEAN
  BY MsgStays, JobFields DEF Typed
<1>2. jobs'[j].late = FALSE /\ jobs'[j].late \in {jobs[j].late, TRUE}
  BY <1>1 DEF OnTime, Continues
<1> QED BY <1>1, <1>2

LEMMA OnwardBuffer ==
  ASSUME Typed, Typed', Continues, BufferGood, Onward
  PROVE  BufferGood'
<1> SUFFICES ASSUME NEW g \in Group
             PROVE  /\ \A x \in Talk(g)' : TalkGood(g, x)'
                    /\ OnTime' => Rising(buffer[g])'
  BY Zenon DEF BufferGood
<1>1. buffer' = buffer
  BY DEF Onward
<1>2. ASSUME NEW x \in Talk(g)
      PROVE  TalkGood(g, x)'
  <2>1. TalkGood(g, x) /\ x \in 1..Len(pushed) /\ Len(pushed) \in Nat
    BY WordsWereSaid, Lengths DEF BufferGood, Typed
  <2>2. pushed'[x].thread = g
    BY <2>1 DEF TalkGood, Continues
  <2>3. ASSUME NEW k \in DOMAIN jobs'
        PROVE  /\ jobs'[k].id = x => jobs'[k].phase = "buffered"
               /\ x \notin Heard(k)'
               /\ Msg(k)'.thread = g /\ Undecided(k)' => x < jobs'[k].id
    <3>1. CASE k \in DOMAIN jobs
      <4>1. Msg(k)' = Msg(k) /\ jobs'[k].id = jobs[k].id
        BY <3>1, MsgStays
      <4>2. Heard(k)' = Heard(k)
        BY <3>1 DEF Heard, Onward
      <4> QED BY <2>1, <3>1, <4>1, <4>2 DEF TalkGood, Onward
    <3>2. CASE k \notin DOMAIN jobs
      <4>1. jobs'[k].id > Len(pushed) /\ jobs'[k].context = <<>>
        BY <3>2 DEF Onward
      <4>2. jobs'[k].id \in Nat
        <5>1. jobs'[k] \in JobOver(Len(pushed'), Len(monitors'), Len(jobs'))
          BY SMTT(20) DEF Typed, Shaped
        <5> QED BY <5>1 DEF JobOver
      <4>3. Heard(k)' = {}
        BY <4>1 DEF Heard, ToSet
      <4> QED BY <2>1, <4>1, <4>2, <4>3
    <3> QED BY <3>1, <3>2
  <2> QED BY <2>2, <2>3, Zenon DEF TalkGood
<1>3. OnTime' => Rising(buffer[g])
  BY OnTimeBefore DEF BufferGood
<1>4. Talk(g)' = Talk(g) /\ (Rising(buffer[g])' <=> Rising(buffer[g]))
  BY <1>1 DEF Talk, Rising
<1> QED BY <1>2, <1>3, <1>4

LEMMA HeardStays ==
  ASSUME Typed, Typed', Continues, HeardGood,
         \A k \in DOMAIN jobs :
           /\ jobs'[k].context = jobs[k].context
           /\ jobs[k].phase = "buffered" => jobs'[k].phase = "buffered",
         \A k \in DOMAIN jobs' : k \notin DOMAIN jobs =>
           /\ jobs'[k].id > Len(pushed)
           /\ jobs'[k].context = <<>>
  PROVE  HeardGood'
<1> SUFFICES ASSUME NEW j \in DOMAIN jobs'
             PROVE  /\ \A x \in Heard(j)' : WordGood(j, x)'
                    /\ OnTime' => Rising(jobs[j].context)'
  BY Zenon DEF HeardGood
<1>1. CASE j \notin DOMAIN jobs
  <2>1. jobs'[j].context = <<>>
    BY <1>1
  <2>2. Heard(j)' = {}
    BY <2>1 DEF Heard, ToSet
  <2>3. Rising(jobs[j].context)'
    BY <2>1 DEF Rising
  <2> QED BY <2>2, <2>3
<1>2. CASE j \in DOMAIN jobs
  <2>1. /\ jobs'[j].context = jobs[j].context
        /\ Msg(j)' = Msg(j) /\ jobs'[j].id = jobs[j].id
        /\ jobs[j].late = TRUE => jobs'[j].late = TRUE
    BY <1>2, MsgStays DEF Continues
  <2>2. Heard(j)' = Heard(j) /\ (Rising(jobs[j].context)' <=> Rising(jobs[j].context))
    BY <2>1 DEF Heard, Rising
  <2>3. ASSUME NEW x \in Heard(j)
        PROVE  WordGood(j, x)'
    <3>1. WordGood(j, x) /\ x \in 1..Len(pushed) /\ Len(pushed) \in Nat
      BY <1>2, WordsWereSaid, Lengths DEF HeardGood, Typed
    <3>2. pushed'[x].thread = Msg(j)'.thread
      BY <2>1, <3>1 DEF WordGood, Continues
    <3>3. ASSUME NEW k \in DOMAIN jobs'
          PROVE  /\ jobs'[k].id = x => jobs'[k].phase = "buffered"
                 /\ k # j => x \notin Heard(k)'
      <4>1. CASE k \in DOMAIN jobs
        <5>1. jobs'[k].id = jobs[k].id
          BY <4>1, MsgStays
        <5>2. Heard(k)' = Heard(k)
          BY <4>1 DEF Heard
        <5> QED BY <3>1, <4>1, <5>1, <5>2 DEF WordGood
      <4>2. CASE k \notin DOMAIN jobs
        <5>1. jobs'[k].id > Len(pushed) /\ jobs'[k].context = <<>>
          BY <4>2
        <5>2. Heard(k)' = {}
          BY <5>1 DEF Heard, ToSet
        <5> QED BY <3>1, <5>1, <5>2
      <4> QED BY <4>1, <4>2
    <3>4. x > jobs'[j].id => jobs'[j].late = TRUE
      BY <2>1, <3>1 DEF WordGood
    <3> QED BY <3>2, <3>3, <3>4, Zenon DEF WordGood
  <2>4. OnTime' => Rising(jobs[j].context)
    BY <1>2, OnTimeBefore DEF HeardGood
  <2> QED BY <2>2, <2>3, <2>4
<1> QED BY <1>1, <1>2

LEMMA OrderStays ==
  ASSUME Typed, Typed', Continues, InOrder, DOMAIN jobs' = DOMAIN jobs
  PROVE  InOrder'
<1>1. \A k \in DOMAIN jobs : jobs'[k].id = jobs[k].id
  BY MsgStays
<1> QED BY <1>1 DEF InOrder

(* A job moves: it stops blocking or goes on, and where it does not drop    *)
(* out of the queue nothing before it in the thread blocks.                 *)
LEMMA TurnStays ==
  ASSUME Typed, Typed', Continues, Turn, NEW j \in DOMAIN jobs, Changes(j),
         Blocks(j)' => Blocks(j),
         \/ jobs'[j].phase = "skipped"
         \/ \A i \in DOMAIN jobs : i < j /\ Msg(i).thread = Msg(j).thread => ~Blocks(i)
  PROVE  Turn'
<1> SUFFICES ASSUME NEW i \in DOMAIN jobs', NEW k \in DOMAIN jobs',
                    i < k, Msg(i)'.thread = Msg(k)'.thread, Blocks(i)'
             PROVE  jobs'[k].phase \in {"waiting", "skipped"}
  BY Zenon DEF Turn
<1>1. i \in DOMAIN jobs /\ k \in DOMAIN jobs
  BY DEF Changes
<1>2. Msg(i).thread = Msg(k).thread
  BY <1>1, MsgStays
<1>3. Blocks(i)
  <2>1. CASE i = j
    BY <2>1
  <2>2. CASE i # j
    BY <1>1, <2>2 DEF Changes, Blocks
  <2> QED BY <2>1, <2>2
<1>4. CASE k = j
  BY <1>1, <1>2, <1>3, <1>4
<1>5. CASE k # j
  BY <1>1, <1>2, <1>3, <1>5 DEF Turn, Changes
<1> QED BY <1>4, <1>5

(* While a message is processed nothing before it in its thread blocks.     *)
LEMMA NothingBefore ==
  ASSUME Turn, NEW j \in DOMAIN jobs, jobs[j].phase \in Active,
         NEW i \in DOMAIN jobs, i < j, Msg(i).thread = Msg(j).thread
  PROVE  ~Blocks(i)
BY DEF Turn, Active

(* What is started is the oldest of its thread that waits.                  *)
LEMMA NothingBeforeStart ==
  ASSUME Typed, Len(monitors) = 1, NEW j \in DOMAIN jobs, jobs[j].phase = "waiting",
         MayStart(j),
         NEW i \in DOMAIN jobs, i < j, Msg(i).thread = Msg(j).thread
  PROVE  ~Blocks(i)
<1>1. jobs[i].mon = jobs[j].mon
  BY JobFields DEF Typed
<1>2. CASE jobs[i].phase = "waiting"
  <2> DEFINE W == WaitingIn(jobs[j].mon, Msg(j).thread)
  <2>1. i \in W
    BY <1>1, <1>2 DEF WaitingIn
  <2>2. W \in SUBSET Nat
    BY WaitingIsFinite DEF Typed
  <2>3. Oldest(W) <= i
    BY <2>1, <2>2, OldestIsFirst
  <2>4. j = Oldest(W) /\ i \in Nat /\ j \in Nat
    BY JobFields DEF MayStart, Typed
  <2> QED BY <2>3, <2>4
<1>3. CASE jobs[i].phase \in Active /\ jobs[i].late = FALSE
  BY <1>1, <1>3, BeginAlone
<1> QED BY <1>2, <1>3 DEF Blocks

(* The steps of processMessage that leave the buffers alone.                *)
Quiet(j) ==
  /\ buffer' = buffer
  /\ jobs'[j].context = jobs[j].context
  /\ jobs[j].phase # "buffered"
  /\ Undecided(j)' => Undecided(j)
  /\ Blocks(j)' => Blocks(j)
  /\ \/ jobs'[j].phase = "skipped"
     \/ jobs[j].phase \in Active
     \/ jobs[j].phase = "waiting" /\ MayStart(j)

LEMMA QuietGood ==
  ASSUME Typed, Typed', Continues, Len(monitors) = 1, AllGood,
         NEW j \in DOMAIN jobs, Changes(j), Quiet(j)
  PROVE  AllGood'
<1>1. InOrder'
  BY OrderStays DEF AllGood, Changes
<1>2. Turn'
  <2>1. \/ jobs'[j].phase = "skipped"
        \/ \A i \in DOMAIN jobs : i < j /\ Msg(i).thread = Msg(j).thread => ~Blocks(i)
    BY NothingBefore, NothingBeforeStart DEF Quiet, AllGood
  <2> QED BY <2>1, TurnStays DEF Quiet, AllGood
<1>3. Onward
  <2>1. ASSUME NEW k \in DOMAIN jobs
        PROVE  /\ jobs'[k].context = jobs[k].context
               /\ jobs[k].phase = "buffered" => jobs'[k].phase = "buffered"
               /\ Undecided(k)' => Undecided(k)
    <3>1. CASE k = j
      BY <3>1 DEF Quiet
    <3>2. CASE k # j
      BY <3>2 DEF Changes, Undecided
    <3> QED BY <3>1, <3>2
  <2>2. DOMAIN jobs' = DOMAIN jobs /\ buffer' = buffer
    BY DEF Changes, Quiet
  <2> QED BY <2>1, <2>2 DEF Onward
<1>4. HeardGood'
  BY <1>3, HeardStays DEF AllGood, Onward
<1> QED BY <1>1, <1>2, <1>3, <1>4, OnwardBuffer DEF AllGood

(* The other two: a message is put in its group's buffer, or what is there  *)
(* is taken for a message's context.                                        *)
Buffers(j, aged) ==
  /\ Msg(j).thread \in Group
  /\ aged \in 0..Len(buffer[Msg(j).thread])
  /\ jobs[j].phase = "auth"
  /\ Moves(j, "buffered")
  /\ buffer' = [buffer EXCEPT ![Msg(j).thread] = Buffered(@, <<jobs[j].id>>, aged)]

Takes(j) ==
  /\ Msg(j).thread \in Group
  /\ jobs[j].phase = "names"
  /\ Changes(j)
  /\ jobs'[j].phase = "session" /\ jobs'[j].late = jobs[j].late
  /\ jobs'[j].context = buffer[Msg(j).thread]
  /\ buffer' = [buffer EXCEPT ![Msg(j).thread] = <<>>]

LEMMA StepsOfAJob ==
  ASSUME Typed, NEW j \in DOMAIN jobs, Step(j)
  PROVE  \/ Quiet(j)
         \/ \E aged \in Nat : Buffers(j, aged)
         \/ Takes(j)
<1>1. ASSUME NEW p \in Phase, Goto(j, p)
      PROVE  Moves(j, p)
  BY <1>1, GotoMoves DEF Typed
<1>2. ASSUME NEW p \in Phase, Goto(j, p), buffer' = buffer,
             \/ jobs[j].phase = "auth" /\ p \in {"names"} \cup Ended
             \/ jobs[j].phase \in Active /\ p \in {"session", "reply"} \cup Ended
             \/ jobs[j].phase = "waiting" /\ MayStart(j)
      PROVE  Quiet(j)
  <2>1. /\ jobs'[j].phase = p /\ jobs'[j].late = jobs[j].late
        /\ jobs'[j].context = jobs[j].context
    BY <1>1, <1>2 DEF Moves
  <2> QED BY <1>2, <2>1 DEF Quiet, Undecided, Blocks, Active, Ended
<1>3. CASE Begin(j)
  BY <1>2, <1>3 DEF Begin, Phase, Active, Ended
<1>4. CASE SkipStale(j)
  BY <1>2, <1>4 DEF SkipStale, caches, Phase, Active, Ended
<1>5. CASE Reply(j) \/ Fail(j)
  BY <1>2, <1>5 DEF Reply, Fail, caches, Phase, Active, Ended
<1>6. CASE \E approved : AuthorizeDirect(j, approved)
  BY <1>2, <1>6 DEF AuthorizeDirect, caches, Phase, Active, Ended
<1>7. ASSUME Msg(j).thread \in Group, NEW aged \in 0..Len(buffer[Msg(j).thread]),
             AuthorizeInGroup(j, aged)
      PROVE  Quiet(j) \/ \E a \in Nat : Buffers(j, a)
  <2>1. jobs[j].phase = "auth"
    BY <1>7 DEF AuthorizeInGroup
  <2>2. CASE \E p \in {"refused", "names"} : Goto(j, p) /\ buffer' = buffer
    BY <1>2, <2>1, <2>2 DEF Phase, Active, Ended
  <2>3. CASE /\ Goto(j, "buffered")
             /\ buffer' = [buffer EXCEPT ![Msg(j).thread] =
                                           Buffered(@, <<jobs[j].id>>, aged)]
    <3>1. Moves(j, "buffered")
      BY <1>1, <2>3 DEF Phase, Ended
    <3>2. Buffers(j, aged)
      BY <1>7, <2>1, <2>3, <3>1 DEF Buffers
    <3>3. aged \in Nat
      BY <1>7
    <3> QED BY <3>2, <3>3
  <2> QED BY <1>7, <2>2, <2>3 DEF AuthorizeInGroup
<1>8. CASE TakeContext(j)
  <2>1. CASE Msg(j).thread \in Group
    <3>1. buffer[Msg(j).thread] \in Seq(1..Len(pushed))
      BY <2>1 DEF Typed, Shaped
    <3>2. /\ jobs[j].phase = "names"
          /\ jobs' = [jobs EXCEPT ![j].phase = "session",
                                  ![j].context = buffer[Msg(j).thread]]
          /\ buffer' = [buffer EXCEPT ![Msg(j).thread] = <<>>]
      BY <1>8, <2>1 DEF TakeContext, TakeBuffer
    <3> QED BY <2>1, <3>1, <3>2, TakeContextMoves DEF Takes, Typed
  <2>2. CASE Msg(j).thread \notin Group
    BY <1>2, <1>8, <2>2 DEF TakeContext, Phase, Active, Ended
  <2> QED BY <2>1, <2>2
<1>9. CASE TakeQuote(j)
  <2>1. QuoteFor(Msg(j).thread) \in 0..Len(jobs)
    BY QuoteForIs, Lengths DEF Typed
  <2>2. /\ jobs[j].phase = "session" /\ buffer' = buffer
        /\ jobs'[j].phase = "reply" /\ jobs'[j].late = jobs[j].late
        /\ jobs'[j].context = jobs[j].context
    BY <1>9, <2>1, TakeQuoteMoves DEF TakeQuote, caches, Typed
  <2> QED BY <2>2 DEF Quiet, Undecided, Blocks, Active
<1>10. CASE DeadlinePasses(j)
  <2>1. /\ jobs[j].phase \in Active /\ buffer' = buffer
        /\ jobs'[j].phase = jobs[j].phase /\ jobs'[j].late = TRUE
        /\ jobs'[j].context = jobs[j].context
    BY <1>10, DeadlineMoves DEF DeadlinePasses, caches, Typed
  <2> QED BY <2>1 DEF Quiet, Undecided, Blocks, Active
<1>11. ASSUME NEW aged \in 0..(IF Msg(j).thread \in Group THEN Len(buffer[Msg(j).thread])
                               ELSE 0),
              AuthorizeInGroup(j, aged)
       PROVE  Quiet(j) \/ \E a \in Nat : Buffers(j, a)
  BY <1>7, <1>11 DEF AuthorizeInGroup
<1> QED BY <1>3, <1>4, <1>5, <1>6, <1>8, <1>9, <1>10, <1>11 DEF Step

(* The buffer keeps what was in it and what is new, in that order.          *)
LEMMA BufferedIsOf ==
  ASSUME NEW S, NEW b \in Seq(S), NEW new \in Seq(S), NEW aged \in 0..Len(b)
  PROVE  /\ Buffered(b, new, aged) \in Seq(S)
         /\ ToSet(Buffered(b, new, aged)) \subseteq ToSet(b) \cup ToSet(new)
         /\ Rising(b \o new) => Rising(Buffered(b, new, aged))
<1> DEFINE r == Buffered(b, new, aged)
           n == Len(b) + Len(new) - Len(r)
<1>1. /\ r \in Seq(S) /\ n \in Nat
      /\ \A i \in 1..Len(r) : r[i] = (b \o new)[n + i]
  <2>1. BufferMax \in Nat
    BY MonitorAssumption
  <2>2. LET q == Buffered(b, new, aged)
            m == Len(b) + Len(new) - Len(q)
        IN /\ q \in Seq(S)
           /\ Len(q) <= BufferMax
           /\ m \in Nat
           /\ \A i \in 1..Len(q) : q[i] = (b \o new)[m + i]
    BY <2>1, BufferedKeeps
  <2> QED BY <2>2
<1>2. Len(r) \in Nat /\ Len(b) \in Nat /\ Len(new) \in Nat
  BY <1>1
<1>3. ASSUME NEW i \in 1..Len(r)
      PROVE  n + i \in 1..(Len(b) + Len(new)) /\ r[i] = (b \o new)[n + i]
  <2>1. n + i <= Len(b) + Len(new) /\ 1 <= n + i /\ n + i \in Nat
    BY <1>1, <1>2
  <2> QED BY <1>1, <1>2, <2>1
<1> HIDE DEF r, n
<1>4. ToSet(r) \subseteq ToSet(b) \cup ToSet(new)
  <2> SUFFICES ASSUME NEW i \in 1..Len(r) PROVE r[i] \in ToSet(b) \cup ToSet(new)
    BY <1>1 DEF ToSet
  <2>1. CASE n + i <= Len(b)
    <3>1. n + i \in 1..Len(b) /\ r[i] = b[n + i]
      BY <1>1, <1>2, <1>3, <2>1, ConcatProperties
    <3> QED BY <3>1 DEF ToSet
  <2>2. CASE ~(n + i <= Len(b))
    <3> DEFINE d == (n + i) - Len(b)
    <3>1. d \in 1..Len(new)
      BY <1>1, <1>2, <1>3, <2>2
    <3>2. r[i] = new[d]
      BY <1>1, <1>2, <1>3, <2>2, ConcatProperties
    <3> HIDE DEF d
    <3> QED BY <3>1, <3>2 DEF ToSet
  <2> QED BY <2>1, <2>2
<1>5. ASSUME Rising(b \o new) PROVE Rising(r)
  <2>1. Len(b \o new) = Len(b) + Len(new)
    BY ConcatProperties
  <2> SUFFICES ASSUME NEW i \in 1..Len(r), NEW k \in 1..Len(r), i < k
               PROVE  r[i] < r[k]
    BY Zenon DEF Rising
  <2>2. /\ n + i \in 1..Len(b \o new) /\ n + k \in 1..Len(b \o new)
        /\ n + i < n + k
    BY <1>1, <1>2, <1>3, <2>1
  <2>3. (b \o new)[n + i] < (b \o new)[n + k]
    BY <1>5, <2>2, Zenon DEF Rising
  <2> QED BY <1>3, <2>3
<1> QED BY <1>1, <1>4, <1>5 DEF r

LEMMA RisingAppended ==
  ASSUME NEW b \in Seq(Nat), Rising(b), NEW x \in Nat, \A y \in ToSet(b) : y < x
  PROVE  Rising(b \o <<x>>)
<1>1. /\ Len(b \o <<x>>) = Len(b) + 1
      /\ \A i \in 1..Len(b) : (b \o <<x>>)[i] = b[i]
      /\ (b \o <<x>>)[Len(b) + 1] = x
  OBVIOUS
<1>2. \A i \in 1..Len(b) : b[i] < x
  BY DEF ToSet
<1> SUFFICES ASSUME NEW i \in 1..(Len(b) + 1), NEW k \in 1..(Len(b) + 1), i < k
             PROVE  (b \o <<x>>)[i] < (b \o <<x>>)[k]
  BY <1>1 DEF Rising
<1>3. i \in 1..Len(b)
  OBVIOUS
<1>4. CASE k \in 1..Len(b)
  <2>1. b[i] < b[k]
    BY <1>3, <1>4 DEF Rising
  <2> QED BY <1>1, <1>3, <1>4, <2>1
<1>5. CASE k = Len(b) + 1
  BY <1>1, <1>2, <1>3, <1>5
<1>6. k \in 1..Len(b) \/ k = Len(b) + 1
  OBVIOUS
<1> QED BY <1>4, <1>5, <1>6, Zenon

(* A message that is being decided is in no buffer and no context.          *)
LEMMA UndecidedIsNew ==
  ASSUME AllGood, NEW j \in DOMAIN jobs, jobs[j].phase # "buffered"
  PROVE  /\ \A g \in Group : jobs[j].id \notin Talk(g)
         /\ \A k \in DOMAIN jobs : jobs[j].id \notin Heard(k)
BY DEF AllGood, BufferGood, TalkGood, HeardGood, WordGood

LEMMA BuffersBuffer ==
  ASSUME Typed, Typed', Continues, Alone, AllGood, NEW j \in DOMAIN jobs,
         NEW aged \in Nat, Buffers(j, aged),
         NEW g, g = Msg(j).thread, NEW x, x = jobs[j].id
  PROVE  BufferGood'
<1> DEFINE P == 1..Len(pushed)
<1>1. /\ g \in Group /\ aged \in 0..Len(buffer[g])
      /\ jobs[j].phase = "auth" /\ jobs'[j].phase = "buffered"
      /\ Changes(j) /\ jobs'[j].late = jobs[j].late
      /\ jobs'[j].context = jobs[j].context
      /\ buffer' = [buffer EXCEPT ![g] = Buffered(@, <<x>>, aged)]
  BY DEF Buffers, Moves
<1>2. x \in P /\ Len(pushed) \in Nat /\ pushed[x].thread = g
  BY JobFields, Lengths DEF Typed, Msg
<1>3. /\ buffer \in [Group -> Seq(P)]
      /\ buffer[g] \in Seq(P) /\ <<x>> \in Seq(P)
  <2>1. buffer \in [Group -> Seq(P)]
    BY DEF Typed, Shaped
  <2>2. <<x>> \in Seq(P)
    BY <1>2
  <2> QED BY <1>1, <2>1, <2>2
<1>4. /\ \A h \in Group : h # g => buffer'[h] = buffer[h]
      /\ buffer'[g] = Buffered(buffer[g], <<x>>, aged)
  BY <1>1, <1>3
<1> HIDE DEF P
<1>5. /\ ToSet(buffer'[g]) \subseteq ToSet(buffer[g]) \cup ToSet(<<x>>)
      /\ Rising(buffer[g] \o <<x>>) => Rising(buffer'[g])
  BY <1>1, <1>3, <1>4, BufferedIsOf
<1>6. ASSUME NEW k \in DOMAIN jobs'
      PROVE  /\ k \in DOMAIN jobs /\ Msg(k)' = Msg(k) /\ jobs'[k].id = jobs[k].id
             /\ Heard(k)' = Heard(k)
             /\ jobs[k].phase = "buffered" => jobs'[k].phase = "buffered"
             /\ Undecided(k)' => Undecided(k) /\ k # j
  <2>1. k \in DOMAIN jobs /\ Msg(k)' = Msg(k) /\ jobs'[k].id = jobs[k].id
    BY <1>1, MsgStays DEF Changes
  <2>2. CASE k = j
    BY <1>1, <2>1, <2>2 DEF Heard, Undecided
  <2>3. CASE k # j
    BY <1>1, <2>1, <2>3 DEF Heard, Undecided, Changes
  <2> QED BY <2>1, <2>2, <2>3
<1>7. ASSUME NEW h \in Group, NEW y \in Talk(h)
      PROVE  TalkGood(h, y)'
  <2>1. TalkGood(h, y) /\ y \in P
    BY WordsWereSaid DEF AllGood, BufferGood, Typed, P
  <2>2. pushed'[y].thread = h
    BY <2>1 DEF TalkGood, Continues, P
  <2> QED BY <1>6, <2>1, <2>2 DEF TalkGood
<1>8. TalkGood(g, x)'
  <2>1. pushed'[x].thread = g
    BY <1>2 DEF Continues, P
  <2>2. ASSUME NEW k \in DOMAIN jobs'
        PROVE  /\ jobs'[k].id = x => jobs'[k].phase = "buffered"
               /\ x \notin Heard(k)'
               /\ Msg(k)'.thread = g /\ Undecided(k)' => x < jobs'[k].id
    <3>1. jobs'[k].id = x => jobs'[k].phase = "buffered"
      BY <1>1, <1>6 DEF Alone
    <3>2. x \notin Heard(k)'
      BY <1>1, <1>6, UndecidedIsNew
    <3>3. ASSUME Msg(k)'.thread = g, Undecided(k)'
          PROVE  x < jobs'[k].id
      <4>1. k \in DOMAIN jobs /\ k # j /\ Undecided(k) /\ Msg(k).thread = g
        BY <1>6, <3>3
      <4>2. Blocks(k)
        BY <4>1 DEF Undecided, Blocks, Active
      <4>3. ~(k < j)
        BY <1>1, <4>1, <4>2 DEF AllGood, Turn
      <4>4. j < k
        BY <4>1, <4>3, JobFields DEF Typed
      <4> QED BY <1>6, <4>1, <4>4 DEF AllGood, InOrder
    <3> QED BY <3>1, <3>2, <3>3
  <2> QED BY <2>1, <2>2, Zenon DEF TalkGood
<1>9. ASSUME OnTime' PROVE Rising(buffer'[g])
  <2>1. OnTime /\ Undecided(j)
    BY <1>1, <1>9, OnTimeBefore DEF OnTime, Undecided
  <2>2. Rising(buffer[g]) /\ \A y \in ToSet(buffer[g]) : y < x
    BY <1>1, <2>1 DEF AllGood, BufferGood, TalkGood, Talk
  <2>3. buffer[g] \in Seq(Nat) /\ x \in Nat
    <3>1. P \subseteq Nat
      BY DEF P
    <3> QED BY <1>2, <1>3, <3>1, SeqGrows
  <2>4. Rising(buffer[g] \o <<x>>)
    BY <2>2, <2>3, RisingAppended
  <2> QED BY <1>5, <2>4
<1> SUFFICES ASSUME NEW h \in Group
             PROVE  /\ \A y \in Talk(h)' : TalkGood(h, y)'
                    /\ OnTime' => Rising(buffer[h])'
  BY Zenon DEF BufferGood
<1>10. CASE h = g
  <2>1. \A y \in Talk(g)' : y = x \/ y \in Talk(g)
    BY <1>5 DEF Talk, ToSet
  <2>2. Rising(buffer[g])' <=> Rising(buffer'[g])
    BY DEF Rising
  <2> QED BY <1>7, <1>8, <1>9, <1>10, <2>1, <2>2
<1>11. CASE h # g
  <2>1. buffer'[h] = buffer[h]
    BY <1>4, <1>11
  <2>2. Talk(h)' = Talk(h) /\ (Rising(buffer[h])' <=> Rising(buffer[h]))
    BY <2>1 DEF Talk, Rising
  <2>3. OnTime' => Rising(buffer[h])
    BY OnTimeBefore DEF AllGood, BufferGood
  <2> QED BY <1>7, <2>2, <2>3
<1> QED BY <1>10, <1>11

LEMMA BuffersGood ==
  ASSUME Typed, Typed', Continues, Alone, AllGood, NEW j \in DOMAIN jobs,
         NEW aged \in Nat, Buffers(j, aged)
  PROVE  AllGood'
<1>1. /\ Msg(j).thread \in Group /\ aged \in 0..Len(buffer[Msg(j).thread])
      /\ jobs[j].phase = "auth" /\ jobs'[j].phase = "buffered"
      /\ Changes(j) /\ jobs'[j].context = jobs[j].context
  BY DEF Buffers, Moves
<1>2. BufferGood'
  BY BuffersBuffer
<1>3. InOrder'
  BY <1>1, OrderStays DEF AllGood, Changes
<1>4. Turn'
  <2>1. \A i \in DOMAIN jobs : i < j /\ Msg(i).thread = Msg(j).thread => ~Blocks(i)
    BY <1>1, NothingBefore DEF AllGood, Active
  <2>2. Blocks(j)' => Blocks(j)
    BY <1>1 DEF Blocks, Active
  <2> QED BY <1>1, <2>1, <2>2, TurnStays DEF AllGood
<1>5. HeardGood'
  <2>1. \A k \in DOMAIN jobs : /\ jobs'[k].context = jobs[k].context
                               /\ jobs[k].phase = "buffered" => jobs'[k].phase = "buffered"
    BY <1>1 DEF Changes
  <2>2. DOMAIN jobs' = DOMAIN jobs
    BY <1>1 DEF Changes
  <2> QED BY <2>1, <2>2, HeardStays DEF AllGood
<1> QED BY <1>2, <1>3, <1>4, <1>5 DEF AllGood

LEMMA TakesGood ==
  ASSUME Typed, Typed', Continues, AllGood, NEW j \in DOMAIN jobs, Takes(j),
         NEW g, g = Msg(j).thread
  PROVE  AllGood'
<1>1. /\ g \in Group /\ jobs[j].phase = "names" /\ Changes(j)
      /\ jobs'[j].phase = "session" /\ jobs'[j].late = jobs[j].late
      /\ jobs'[j].context = buffer[g]
      /\ buffer' = [buffer EXCEPT ![g] = <<>>]
  BY DEF Takes
<1>2. buffer'[g] = <<>> /\ \A h \in Group : h # g => buffer'[h] = buffer[h]
  BY <1>1 DEF Typed, Shaped
<1>3. ASSUME NEW k \in DOMAIN jobs'
      PROVE  /\ k \in DOMAIN jobs /\ Msg(k)' = Msg(k) /\ jobs'[k].id = jobs[k].id
             /\ Heard(k)' = IF k = j THEN Talk(g) ELSE Heard(k)
             /\ jobs[k].phase = "buffered" => jobs'[k].phase = "buffered"
             /\ Undecided(k)' => Undecided(k)
             /\ jobs[k].late = TRUE => jobs'[k].late = TRUE
  <2>1. k \in DOMAIN jobs /\ Msg(k)' = Msg(k) /\ jobs'[k].id = jobs[k].id
    BY <1>1, MsgStays DEF Changes
  <2>2. CASE k = j
    BY <1>1, <2>1, <2>2 DEF Heard, Talk, Undecided
  <2>3. CASE k # j
    BY <1>1, <2>1, <2>3 DEF Heard, Undecided, Changes
  <2> QED BY <2>1, <2>2, <2>3
<1>4. InOrder'
  BY <1>1, OrderStays DEF AllGood, Changes
<1>5. Turn'
  <2>1. \A i \in DOMAIN jobs : i < j /\ Msg(i).thread = Msg(j).thread => ~Blocks(i)
    BY <1>1, NothingBefore DEF AllGood, Active
  <2>2. Blocks(j)' => Blocks(j)
    BY <1>1 DEF Blocks, Active
  <2> QED BY <1>1, <2>1, <2>2, TurnStays DEF AllGood
<1>6. \A h \in Group : \A y \in Talk(h) : TalkGood(h, y) /\ y \in 1..Len(pushed)
  BY WordsWereSaid DEF AllGood, BufferGood, Typed
<1>7. BufferGood'
  <2> SUFFICES ASSUME NEW h \in Group
               PROVE  /\ \A y \in Talk(h)' : TalkGood(h, y)'
                      /\ OnTime' => Rising(buffer[h])'
    BY Zenon DEF BufferGood
  <2>1. CASE h = g
    <3>1. buffer[h]' = <<>>
      BY <1>2, <2>1
    <3> QED BY <3>1 DEF Talk, ToSet, Rising
  <2>2. CASE h # g
    <3>1. buffer'[h] = buffer[h]
      BY <1>2, <2>2
    <3>2. Talk(h)' = Talk(h) /\ (Rising(buffer[h])' <=> Rising(buffer[h]))
      BY <3>1 DEF Talk, Rising
    <3>3. OnTime' => Rising(buffer[h])
      BY OnTimeBefore DEF AllGood, BufferGood
    <3>4. ASSUME NEW y \in Talk(h)
          PROVE  TalkGood(h, y)'
      <4>1. TalkGood(h, y) /\ y \in 1..Len(pushed)
        BY <1>6
      <4>2. pushed'[y].thread = h
        BY <4>1 DEF TalkGood, Continues
      <4>3. y \notin Talk(g)
        BY <1>1, <1>6, <2>2, <4>1 DEF TalkGood
      <4> QED BY <1>3, <4>1, <4>2, <4>3 DEF TalkGood
    <3> QED BY <3>2, <3>3, <3>4
  <2> QED BY <2>1, <2>2
<1>8. HeardGood'
  <2> SUFFICES ASSUME NEW k \in DOMAIN jobs'
               PROVE  /\ \A y \in Heard(k)' : WordGood(k, y)'
                      /\ OnTime' => Rising(jobs[k].context)'
    BY Zenon DEF HeardGood
  <2>1. CASE k = j
    <3>1. ASSUME NEW y \in Talk(g)
          PROVE  WordGood(j, y)'
      <4>1. TalkGood(g, y) /\ y \in 1..Len(pushed)
        BY <1>1, <1>6
      <4>2. pushed'[y].thread = Msg(j)'.thread
        BY <1>3, <2>1, <4>1 DEF TalkGood, Continues
      <4>3. ASSUME NEW i \in DOMAIN jobs'
            PROVE  /\ jobs'[i].id = y => jobs'[i].phase = "buffered"
                   /\ i # j => y \notin Heard(i)'
        BY <1>3, <4>1 DEF TalkGood
      <4>4. y > jobs'[j].id => jobs'[j].late = TRUE
        <5>1. jobs[j].late = FALSE => y < jobs[j].id
          BY <1>1, <4>1 DEF TalkGood, Undecided
        <5>2. jobs[j].late \in BOOLEAN /\ jobs[j].id \in Nat
          BY JobFields DEF Typed
        <5>3. j \in DOMAIN jobs'
          BY <2>1
        <5>4. jobs'[j].id = jobs[j].id /\ (jobs[j].late = TRUE => jobs'[j].late = TRUE)
          BY <1>3, <5>3
        <5>5. CASE jobs[j].late = TRUE
          BY <5>4, <5>5
        <5>6. CASE jobs[j].late = FALSE
          <6>1. y < jobs[j].id /\ y \in Nat
            BY <4>1, <5>1, <5>6
          <6> QED BY <5>2, <5>4, <6>1
        <5> QED BY <5>2, <5>5, <5>6
      <4> QED BY <4>2, <4>3, <4>4, Zenon DEF WordGood
    <3>2. OnTime' => Rising(buffer[g])
      BY <1>1, OnTimeBefore DEF AllGood, BufferGood
    <3>3. /\ Heard(k)' = Talk(g)
          /\ Rising(jobs[k].context)' <=> Rising(buffer[g])
      BY <1>1, <1>3, <2>1 DEF Rising
    <3> QED BY <2>1, <3>1, <3>2, <3>3
  <2>2. CASE k # j
    <3>1. jobs'[k] = jobs[k] /\ Heard(k)' = Heard(k)
      BY <1>1, <1>3, <2>2 DEF Changes
    <3>2. Rising(jobs[k].context)' <=> Rising(jobs[k].context)
      BY <3>1 DEF Rising
    <3>3. OnTime' => Rising(jobs[k].context)
      BY <1>3, OnTimeBefore DEF AllGood, HeardGood
    <3>4. ASSUME NEW y \in Heard(k)
          PROVE  WordGood(k, y)'
      <4>1. WordGood(k, y) /\ y \in 1..Len(pushed)
        BY <1>3, WordsWereSaid DEF AllGood, HeardGood, Typed
      <4>2. pushed'[y].thread = Msg(k)'.thread
        BY <1>3, <4>1 DEF WordGood, Continues
      <4>3. y \notin Talk(g)
        BY <1>1, <1>3, <1>6 DEF TalkGood
      <4>4. ASSUME NEW i \in DOMAIN jobs'
            PROVE  /\ jobs'[i].id = y => jobs'[i].phase = "buffered"
                   /\ i # k => y \notin Heard(i)'
        BY <1>3, <4>1, <4>3 DEF WordGood
      <4>5. y > jobs'[k].id => jobs'[k].late = TRUE
        BY <3>1, <4>1 DEF WordGood
      <4> QED BY <4>2, <4>4, <4>5, Zenon DEF WordGood
    <3> QED BY <3>1, <3>2, <3>3, <3>4
  <2> QED BY <2>1, <2>2
<1> QED BY <1>4, <1>5, <1>7, <1>8 DEF AllGood

LEMMA JoinsGood ==
  ASSUME Typed, Typed', Continues, AllGood, NEW n, Joins(Len(pushed) + 1, n),
         buffer' = buffer
  PROVE  AllGood'
<1> DEFINE new == Len(jobs) + 1
<1>1. ASSUME NEW k \in DOMAIN jobs
      PROVE  /\ k \in 1..Len(jobs) /\ k \in DOMAIN jobs'
             /\ Msg(k)' = Msg(k) /\ jobs'[k].id = jobs[k].id
             /\ jobs[k].id <= Len(pushed) /\ jobs[k].id \in Nat
             /\ jobs'[k].context = jobs[k].context
             /\ jobs[k].phase = "buffered" => jobs'[k].phase = "buffered"
             /\ Undecided(k)' => Undecided(k)
             /\ Blocks(k)' => Blocks(k)
             /\ jobs[k].phase \in {"waiting", "skipped"} =>
                  jobs'[k].phase \in {"waiting", "skipped"}
  <2>1. /\ k \in 1..Len(jobs) /\ k \in DOMAIN jobs'
        /\ Msg(k)' = Msg(k) /\ jobs'[k].id = jobs[k].id
        /\ jobs[k].id <= Len(pushed) /\ jobs[k].id \in Nat
    BY MsgStays, JobFields, Lengths DEF Typed
  <2>2. /\ jobs'[k].late = jobs[k].late /\ jobs'[k].context = jobs[k].context
        /\ \/ jobs'[k].phase = jobs[k].phase
           \/ jobs[k].phase = "waiting" /\ jobs'[k].phase = "skipped"
    BY DEF Joins
  <2> QED BY <2>1, <2>2 DEF Undecided, Blocks, Active
<1>2. /\ DOMAIN jobs' = 1..new /\ DOMAIN jobs = 1..Len(jobs)
      /\ Len(jobs) \in Nat /\ Len(pushed) \in Nat
      /\ jobs'[new].id = Len(pushed) + 1
      /\ jobs'[new].phase = "waiting" /\ jobs'[new].context = <<>>
  BY Lengths DEF Joins, Typed
<1>3. \A k \in DOMAIN jobs' : k \in DOMAIN jobs \/ k = new
  BY <1>2
<1> HIDE DEF new
<1>4. Onward
  <2>1. \A k \in DOMAIN jobs' : k \notin DOMAIN jobs =>
          jobs'[k].id > Len(pushed) /\ jobs'[k].context = <<>>
    BY <1>2, <1>3
  <2> QED BY <1>1, <2>1 DEF Onward
<1>5. BufferGood' /\ HeardGood'
  <2>1. HeardGood'
    BY <1>4, HeardStays DEF AllGood, Onward
  <2> QED BY <1>4, <2>1, OnwardBuffer DEF AllGood
<1>6. InOrder'
  <2> SUFFICES ASSUME NEW i \in DOMAIN jobs', NEW k \in DOMAIN jobs', i < k
               PROVE  jobs'[i].id < jobs'[k].id
    BY DEF InOrder
  <2>1. CASE k \in DOMAIN jobs
    <3>1. i \in DOMAIN jobs
      BY <1>2, <2>1
    <3> QED BY <1>1, <2>1, <3>1 DEF AllGood, InOrder
  <2>2. CASE k = new
    <3>1. i \in DOMAIN jobs
      BY <1>2, <1>3, <2>2
    <3>2. jobs'[i].id <= Len(pushed) /\ jobs'[i].id \in Nat
      BY <1>1, <3>1
    <3> QED BY <1>2, <2>2, <3>2
  <2> QED BY <1>3, <2>1, <2>2
<1>7. Turn'
  <2> SUFFICES ASSUME NEW i \in DOMAIN jobs', NEW k \in DOMAIN jobs',
                      i < k, Msg(i)'.thread = Msg(k)'.thread, Blocks(i)'
               PROVE  jobs'[k].phase \in {"waiting", "skipped"}
    BY Zenon DEF Turn
  <2>1. CASE k = new
    BY <1>2, <2>1
  <2>2. CASE k \in DOMAIN jobs
    <3>1. i \in DOMAIN jobs
      BY <1>2, <2>2
    <3>2. Msg(i).thread = Msg(k).thread /\ Blocks(i)
      BY <1>1, <2>2, <3>1
    <3>3. jobs[k].phase \in {"waiting", "skipped"}
      BY <2>2, <3>1, <3>2 DEF AllGood, Turn
    <3> QED BY <1>1, <2>2, <3>3
  <2> QED BY <1>3, <2>1, <2>2
<1> QED BY <1>5, <1>6, <1>7 DEF AllGood

(* The first monitor starts: there are no jobs, and what is buffered is the *)
(* groups' history, in order.                                               *)
LEMMA FirstGood ==
  ASSUME Typed, Typed', Len(monitors) = 0, ContextInv,
         buffer' = buffer \/ \E source, ok, filled : StartMonitor(source, ok, filled),
         jobs' = jobs, pushed' = pushed \/ buffer' = buffer
  PROVE  AllGood'
<1>1. jobs = <<>>
  <2>1. DOMAIN jobs = {}
    <3> SUFFICES ASSUME NEW j \in DOMAIN jobs PROVE FALSE
      OBVIOUS
    <3>1. jobs[j].mon \in 1..Len(monitors)
      BY JobFields DEF Typed
    <3> QED BY <3>1
  <2> QED BY <2>1, Lengths DEF Typed, Shaped
<1>2. \A g \in Group : buffer[g] = <<>>
  BY DEF ContextInv
<1>3. BufferGood'
  <2> SUFFICES ASSUME NEW g \in Group
               PROVE  /\ \A x \in Talk(g)' : TalkGood(g, x)'
                      /\ Rising(buffer[g])'
    BY Zenon DEF BufferGood
  <2>1. CASE buffer'[g] = <<>>
    BY <2>1 DEF Talk, ToSet, Rising
  <2>2. CASE /\ buffer'[g] = Buffered(<<>>, History(g), 0)
             /\ pushed' = pushed
    <3> DEFINE h == History(g)
               P == 1..Len(pushed)
    <3>1. /\ h \in Seq(P)
          /\ \A i \in 1..Len(h) : pushed[h[i]].thread = g
          /\ Rising(h)
      BY HistoryIs DEF Typed, Shaped
    <3> HIDE DEF h, P
    <3>2. <<>> \in Seq(P) /\ 0 \in 0..Len(<<>>) /\ <<>> \o h = h
      BY <3>1
    <3>3. ToSet(<<>>) = {}
      BY DEF ToSet
    <3>4. ToSet(buffer'[g]) \subseteq ToSet(h) /\ Rising(buffer'[g])
      <4>1. /\ ToSet(Buffered(<<>>, h, 0)) \subseteq ToSet(<<>>) \cup ToSet(h)
            /\ Rising(<<>> \o h) => Rising(Buffered(<<>>, h, 0))
        BY <3>1, <3>2, BufferedIsOf
      <4> QED BY <2>2, <3>1, <3>2, <3>3, <4>1 DEF h
    <3>5. Rising(buffer[g])'
      BY <3>4 DEF Rising
    <3>6. \A x \in Talk(g)' : pushed'[x].thread = g
      BY <2>2, <3>1, <3>4 DEF Talk, ToSet
    <3>7. \A x \in Talk(g)' : TalkGood(g, x)'
      BY <1>1, <3>6 DEF TalkGood
    <3> QED BY <3>5, <3>7
  <2>3. ASSUME NEW source, NEW ok, NEW filled, StartMonitor(source, ok, filled)
        PROVE  /\ buffer'[g] \in {<<>>, Buffered(<<>>, History(g), 0)}
               /\ pushed' = pushed
    BY <1>2, <2>3 DEF StartMonitor
  <2> QED BY <1>2, <2>1, <2>2, <2>3
<1>4. InOrder' /\ Turn' /\ HeardGood'
  BY <1>1 DEF InOrder, Turn, HeardGood
<1> QED BY <1>3, <1>4 DEF AllGood

LEMMA NoneButOne ==
  \A a, b \in Nat : a # 0 /\ a <= b /\ b = 1 => a = 1
OBVIOUS

LEMMA NextContext == Typed /\ ContextInv /\ [Next]_vars => ContextInv'
<1> SUFFICES ASSUME Typed, ContextInv, [Next]_vars PROVE ContextInv'
  OBVIOUS
<1>1. Typed' /\ Continues /\ JobsGoOn
  BY NextTyped, NextJobs
<1>2. /\ Len(monitors) \in Nat /\ Len(monitors') \in Nat
      /\ Len(monitors) <= Len(monitors')
  BY <1>1, Lengths, SMTT(20) DEF Typed, Shaped, Continues
<1>3. Alone' /\ Len(monitors) = 1 => Alone
  <2> SUFFICES ASSUME Alone', Len(monitors) = 1,
                      NEW j \in DOMAIN jobs, NEW k \in DOMAIN jobs,
                      jobs[j].id = jobs[k].id
               PROVE  j = k
    BY DEF Alone
  <2>1. /\ j \in DOMAIN jobs' /\ k \in DOMAIN jobs'
        /\ jobs'[j].id = jobs[j].id /\ jobs'[k].id = jobs[k].id
    BY <1>1, MsgStays
  <2> QED BY <2>1 DEF Alone
<1>4. Len(monitors) = 0 => jobs = <<>>
  <2> SUFFICES ASSUME Len(monitors) = 0 PROVE jobs = <<>>
    OBVIOUS
  <2>1. DOMAIN jobs = {}
    <3> SUFFICES ASSUME NEW j \in DOMAIN jobs PROVE FALSE
      OBVIOUS
    <3>1. jobs[j].mon \in 1..Len(monitors)
      BY JobFields DEF Typed
    <3> QED BY <3>1
  <2> QED BY <2>1, Lengths DEF Typed, Shaped
<1>5. CASE jobs' = jobs /\ buffer' = buffer
  <2>1. ASSUME Alone' PROVE AllGood'
    <3>1. CASE Len(monitors) = 0
      BY <1>1, <1>5, <3>1, FirstGood
    <3>2. CASE Len(monitors) # 0
      <4>1. Len(monitors) = 1
        <5>1. Len(monitors') = 1
          BY <2>1, Zenon DEF Alone
        <5> QED BY <1>2, <3>2, <5>1, NoneButOne, Zenon
      <4>2. AllGood
        BY <1>3, <2>1, <4>1 DEF ContextInv
      <4>3. Onward
        BY <1>5 DEF Onward, Undecided
      <4>4. InOrder' /\ HeardGood' /\ BufferGood'
        <5>1. HeardGood'
          BY <1>1, <4>2, <4>3, HeardStays DEF AllGood, Onward
        <5> QED BY <1>1, <1>5, <4>2, <4>3, <5>1, OrderStays, OnwardBuffer DEF AllGood
      <4>5. Turn'
        <5>1. \A k \in DOMAIN jobs : Msg(k)' = Msg(k)
          BY <1>1, MsgStays
        <5> QED BY <1>5, <4>2, <5>1 DEF AllGood, Turn, Blocks
      <4> QED BY <4>4, <4>5 DEF AllGood
    <3> QED BY <3>1, <3>2
  <2>2. Len(monitors') = 0 => \A g \in Group : buffer'[g] = <<>>
    BY <1>2, <1>5 DEF ContextInv
  <2> QED BY <2>1, <2>2 DEF ContextInv
<1>6. ASSUME jobs' = jobs, NEW source, NEW ok, NEW filled,
             StartMonitor(source, ok, filled)
      PROVE  ContextInv'
  <2>1. Len(monitors') = Len(monitors) + 1 /\ pushed' = pushed
    BY <1>6, AppendProperties DEF StartMonitor, Typed, Shaped
  <2>2. ASSUME Alone' PROVE AllGood'
    <3>1. Len(monitors) = 0
      <4>1. Len(monitors') = 1
        BY <2>2, Zenon DEF Alone
      <4>2. Len(monitors) + 1 = 1
        BY <2>1, <4>1, Zenon
      <4> QED BY <1>2, <4>2
    <3> QED BY <1>1, <1>6, <2>1, <3>1, FirstGood
  <2>3. Len(monitors') # 0
    BY <1>2, <2>1
  <2> QED BY <2>2, <2>3 DEF ContextInv
<1>7. ASSUME NEW j \in DOMAIN jobs, Step(j), Changes(j)
      PROVE  ContextInv'
  <2>1. Len(monitors) # 0
    BY <1>4, <1>7
  <2>2. ASSUME Alone' PROVE AllGood'
    <3>1. Len(monitors) = 1
      <4>1. Len(monitors') = 1
        BY <2>2, Zenon DEF Alone
      <4> QED BY <1>2, <2>1, <4>1, NoneButOne, Zenon
    <3>2. Alone /\ AllGood
      BY <1>3, <2>2, <3>1 DEF ContextInv
    <3>3. CASE Quiet(j)
      BY <1>1, <1>7, <3>1, <3>2, <3>3, QuietGood
    <3>4. CASE \E aged \in Nat : Buffers(j, aged)
      BY <1>1, <3>2, <3>4, BuffersGood
    <3>5. CASE Takes(j)
      BY <1>1, <3>2, <3>5, TakesGood
    <3> QED BY <1>7, <3>3, <3>4, <3>5, StepsOfAJob
  <2>3. Len(monitors') # 0
    BY <1>2, <2>1
  <2> QED BY <2>2, <2>3 DEF ContextInv
<1>8. ASSUME NEW id \in 1..Len(pushed'), NEW n \in 1..Len(monitors), Joins(id, n),
             UNCHANGED <<monitors, buffer, inbound>>,
             id = Len(pushed) + 1 \/ \E j \in DOMAIN jobs : jobs[j].id = id
      PROVE  ContextInv'
  <2>1. Len(monitors) # 0 /\ Len(monitors') # 0
    BY <1>2, <1>8
  <2>2. ASSUME Alone' PROVE AllGood'
    <3>1. Alone /\ AllGood
      <4>1. Len(monitors') = 1
        BY <2>2, Zenon DEF Alone
      <4>2. Len(monitors) = 1
        BY <1>2, <2>1, <4>1, NoneButOne, Zenon
      <4> QED BY <1>3, <2>2, <4>2, Zenon DEF ContextInv
    <3>2. \A j \in DOMAIN jobs : jobs[j].id # id
      <4> SUFFICES ASSUME NEW j \in DOMAIN jobs, jobs[j].id = id PROVE FALSE
        OBVIOUS
      <4>1. /\ j \in DOMAIN jobs' /\ jobs'[j].id = id
            /\ j \in 1..Len(jobs) /\ Len(jobs) \in Nat
        BY <1>1, MsgStays, JobFields, Lengths DEF Typed
      <4>2. Len(jobs) + 1 \in DOMAIN jobs' /\ jobs'[Len(jobs) + 1].id = id
        BY <1>8, <4>1 DEF Joins
      <4>3. j = Len(jobs) + 1
        BY <2>2, <4>1, <4>2, Zenon DEF Alone
      <4> QED BY <4>1, <4>3
    <3>3. id = Len(pushed) + 1 /\ buffer' = buffer
      BY <1>8, <3>2
    <3> QED BY <1>1, <1>8, <3>1, <3>3, JoinsGood
  <2> QED BY <2>1, <2>2 DEF ContextInv
<1> QED BY <1>1, <1>5, <1>6, <1>7, <1>8 DEF JobsGoOn

LEMMA InitContext == Init => ContextInv
BY DEF Init, ContextInv, Alone

LEMMA ContextInvIsContextOnce == Typed /\ ContextInv => ContextOnce
<1> SUFFICES ASSUME Typed, ContextInv, Len(monitors) = 1,
                    IsInjective([j \in DOMAIN jobs |-> jobs[j].id]),
                    NEW j \in DOMAIN jobs
             PROVE  LET c == jobs[j].context IN
                    /\ \A i \in DOMAIN c :
                         /\ pushed[c[i]].thread = Msg(j).thread
                         /\ \A k \in DOMAIN jobs :
                              jobs[k].id = c[i] => jobs[k].phase = "buffered"
                         /\ c[i] > jobs[j].id => jobs[j].late
                    /\ \A k \in DOMAIN jobs \ {j} :
                         ToSet(c) \cap ToSet(jobs[k].context) = {}
                    /\ (\A k \in DOMAIN jobs : ~jobs[k].late) => IsSorted(c, <)
  BY DEF ContextOnce
<1>1. HeardGood
  <2>1. Alone
    BY DEF Alone, IsInjective
  <2> QED BY <2>1 DEF ContextInv, AllGood
<1> DEFINE c == jobs[j].context
<1>2. ASSUME NEW i \in DOMAIN c
      PROVE  WordGood(j, c[i])
  <2>1. c[i] \in Heard(j)
    BY DEF Heard, ToSet
  <2> QED BY <1>1, <2>1 DEF HeardGood
<1>3. ASSUME NEW k \in DOMAIN jobs \ {j}
      PROVE  ToSet(c) \cap ToSet(jobs[k].context) = {}
  BY <1>1 DEF HeardGood, WordGood, Heard
<1>4. ASSUME \A k \in DOMAIN jobs : ~jobs[k].late
      PROVE  IsSorted(c, <)
  <2>1. OnTime
    BY <1>4, JobFields DEF OnTime, Typed
  <2>2. Rising(c)
    BY <1>1, <2>1 DEF HeardGood
  <2> QED BY <2>2, Zenon DEF Rising, IsSorted
<1>5. \A i \in DOMAIN c :
        /\ pushed[c[i]].thread = Msg(j).thread
        /\ \A k \in DOMAIN jobs : jobs[k].id = c[i] => jobs[k].phase = "buffered"
        /\ c[i] > jobs[j].id => jobs[j].late
  BY <1>2 DEF WordGood
<1> QED BY <1>3, <1>4, <1>5, Zenon

(* What was said in a group is heard as context at most once, only there,   *)
(* never when it was answered or refused itself, and in order.              *)
THEOREM HeardOnce == Spec => []ContextOnce
BY AlwaysTyped, InitContext, NextContext, ContextInvIsContextOnce, PTL DEF Spec

-----------------------------------------------------------------------------
(* Talk that came in with a history, or that a monitor which does not deny  *)
(* its sender has taken: what the buffers and the contexts are made of.     *)
LetIn(id) ==
  \/ \E n \in DOMAIN monitors : id \in monitors[n].filled
  \/ \E k \in DOMAIN jobs :
       /\ jobs[k].id = id
       /\ ~DeniedAt(jobs[k].mon, pushed[id].from, pushed[id].thread)

Admitted == {id \in 1..Len(pushed) : LetIn(id)}

TalkLetIn ==
  /\ buffer \in [Group -> Seq(Admitted)]
  /\ \A j \in DOMAIN jobs : jobs[j].context \in Seq(Admitted)

LEMMA LetInStays ==
  ASSUME Typed, Typed', Continues
  PROVE  Admitted \subseteq Admitted'
<1> SUFFICES ASSUME NEW id \in 1..Len(pushed), LetIn(id)
             PROVE  id \in 1..Len(pushed') /\ LetIn(id)'
  BY Zenon DEF Admitted
<1>1. id \in 1..Len(pushed')
  BY Lengths DEF Typed, Continues, Shaped
<1>2. CASE \E n \in DOMAIN monitors : id \in monitors[n].filled
  <2>1. PICK n \in DOMAIN monitors : id \in monitors[n].filled
    BY <1>2
  <2>2. n \in 1..Len(monitors)
    BY <2>1, Lengths DEF Typed
  <2>3. monitors'[n].filled = monitors[n].filled
    BY <2>2 DEF Continues
  <2>4. n \in DOMAIN monitors'
    BY <2>2, Lengths DEF Typed, Continues, Shaped
  <2> QED BY <1>1, <2>1, <2>3, <2>4, Zenon DEF LetIn
<1>3. ASSUME NEW k \in DOMAIN jobs, jobs[k].id = id,
             ~DeniedAt(jobs[k].mon, pushed[id].from, pushed[id].thread)
      PROVE  LetIn(id)'
  <2>1. /\ jobs'[k].mon = jobs[k].mon /\ jobs'[k].id = id
        /\ jobs[k].mon \in 1..Len(monitors)
        /\ pushed'[id] = pushed[id]
    BY <1>3, MsgOfJobStays
  <2>2. k \in DOMAIN jobs'
    BY <1>3, Lengths DEF Typed, Continues, Shaped
  <2>3. /\ monitors'[jobs[k].mon].source = monitors[jobs[k].mon].source
        /\ monitors'[jobs[k].mon].ok = monitors[jobs[k].mon].ok
    BY <2>1 DEF Continues
  <2>4. ~DeniedAt(jobs[k].mon, pushed[id].from, pushed[id].thread)'
    BY <1>3, <2>1, <2>3, Zenon DEF DeniedAt
  <2> QED BY <2>1, <2>2, <2>4, Zenon DEF LetIn
<1> QED BY <1>1, <1>2, <1>3, Zenon DEF LetIn

(* A start lets the history of the groups in.                               *)
LEMMA StartLetsIn ==
  ASSUME Typed, Typed', Continues, TalkLetIn, NEW source, NEW ok, NEW filled,
         StartMonitor(source, ok, filled)
  PROVE  buffer' \in [Group -> Seq(Admitted')]
<1> DEFINE A == Admitted'
           Prefill(g) == g \in filled /\ ById(g) \in DOMAIN ResolveConfig(source, ok).groups
           n == Len(monitors) + 1
<1>1. buffer' = [g \in Group |-> IF Prefill(g) THEN Buffered(buffer[g], History(g), 0)
                                 ELSE buffer[g]]
  BY DEF StartMonitor
<1>2. ASSUME NEW g \in Group
      PROVE  buffer[g] \in Seq(A)
  BY LetInStays, SeqGrows DEF TalkLetIn
<1>3. ASSUME NEW g \in Group, Prefill(g)
      PROVE  History(g) \in Seq(A)
  <2>1. /\ History(g) \in Seq(1..Len(pushed))
        /\ \A i \in 1..Len(History(g)) : pushed[History(g)[i]].thread = g
    BY HistoryIs DEF Typed, Shaped
  <2>2. /\ pushed' = pushed /\ n \in DOMAIN monitors'
        /\ monitors'[n].filled = {id \in DOMAIN pushed : Prefill(pushed[id].thread)}
    <3> DEFINE r == [source |-> source, cfg |-> ResolveConfig(source, ok), ok |-> ok,
                     stopped |-> FALSE,
                     filled |-> {id \in DOMAIN pushed : Prefill(pushed[id].thread)}]
    <3>1. monitors' = Append(monitors, r) /\ pushed' = pushed
      BY DEF StartMonitor
    <3>2. r.filled = {id \in DOMAIN pushed : Prefill(pushed[id].thread)}
      OBVIOUS
    <3> HIDE DEF r, Prefill
    <3>3. monitors' = Append(monitors, r) /\ monitors \in Seq(MonitorRecord)
          /\ Len(monitors) \in Nat
      BY <3>1 DEF Typed, Shaped
    <3>4. n \in DOMAIN monitors' /\ monitors'[n] = r
      BY <3>3
    <3> QED BY <3>1, <3>2, <3>4
  <2>3. ASSUME NEW i \in 1..Len(History(g)) PROVE History(g)[i] \in A
    <3>1. History(g)[i] \in 1..Len(pushed) /\ History(g)[i] \in DOMAIN pushed
      BY <2>1, Lengths DEF Typed
    <3>2. History(g)[i] \in monitors'[n].filled
      BY <1>3, <2>1, <2>2, <3>1
    <3> QED BY <2>2, <3>1, <3>2, Zenon DEF Admitted, LetIn
  <2> HIDE DEF A
  <2> QED BY <2>1, <2>3
<1> HIDE DEF A, Prefill
<1>4. ASSUME NEW g \in Group, Prefill(g)
      PROVE  Buffered(buffer[g], History(g), 0) \in Seq(A)
  <2>1. 0 \in 0..Len(buffer[g])
    BY <1>2
  <2> QED BY <1>2, <1>3, <1>4, <2>1, BufferedIsOf
<1> QED BY <1>1, <1>2, <1>4 DEF A

(* Processing a message puts it in the buffer if it is not denied.          *)
LEMMA StepLetsIn ==
  ASSUME Typed, Typed', Continues, TalkLetIn, DeniedKeptOut,
         NEW j \in DOMAIN jobs, Step(j)
  PROVE  TalkLetIn'
<1> DEFINE A == Admitted'
           g == Msg(j).thread
<1>1. Changes(j)
  BY StepJobs DEF Typed
<1>2. /\ buffer \in [Group -> Seq(A)]
      /\ \A k \in DOMAIN jobs : jobs[k].context \in Seq(A)
  BY LetInStays, SeqGrows DEF TalkLetIn
<1>3. buffer' \in [Group -> Seq(A)] /\ jobs'[j].context \in Seq(A)
  <2>1. CASE Quiet(j)
    BY <1>2, <2>1 DEF Quiet
  <2>2. ASSUME NEW aged \in Nat, Buffers(j, aged)
        PROVE  buffer' \in [Group -> Seq(A)] /\ jobs'[j].context \in Seq(A)
    <3>1. /\ g \in Group /\ aged \in 0..Len(buffer[g]) /\ jobs[j].phase = "auth"
          /\ jobs'[j].context = jobs[j].context
          /\ buffer' = [buffer EXCEPT ![g] = Buffered(@, <<jobs[j].id>>, aged)]
      BY <2>2 DEF Buffers, Moves
    <3>2. ~DeniedAt(jobs[j].mon, Msg(j).from, Msg(j).thread)
      BY <3>1 DEF DeniedKeptOut, OutPhases
    <3>3. jobs[j].id \in Admitted
      BY <3>2, JobFields, Zenon DEF Admitted, LetIn, Msg, Typed
    <3>4. jobs[j].id \in A
      BY <3>3, LetInStays
    <3> HIDE DEF A, g
    <3>5. <<jobs[j].id>> \in Seq(A)
      BY <3>4
    <3>6. Buffered(buffer[g], <<jobs[j].id>>, aged) \in Seq(A)
      BY <1>2, <3>1, <3>5, BufferedIsOf
    <3> QED BY <1>2, <3>1, <3>6
  <2>3. CASE Takes(j)
    <3>1. /\ g \in Group /\ jobs'[j].context = buffer[g]
          /\ buffer' = [buffer EXCEPT ![g] = <<>>]
      BY <2>3 DEF Takes
    <3> HIDE DEF A, g
    <3> QED BY <1>2, <3>1
  <2> QED BY <2>1, <2>2, <2>3, StepsOfAJob
<1>4. \A k \in DOMAIN jobs' : jobs'[k].context \in Seq(A)
  BY <1>1, <1>2, <1>3, Zenon DEF Changes
<1> QED BY <1>3, <1>4 DEF TalkLetIn

LEMMA NextLetsIn ==
  Typed /\ DeniedKeptOut /\ TalkLetIn /\ [Next]_vars => TalkLetIn'
<1> SUFFICES ASSUME Typed, DeniedKeptOut, TalkLetIn, [Next]_vars PROVE TalkLetIn'
  OBVIOUS
<1>1. Typed' /\ Continues /\ JobsGoOn
  BY NextTyped, NextJobs
<1> DEFINE A == Admitted'
<1>2. /\ buffer \in [Group -> Seq(A)]
      /\ \A k \in DOMAIN jobs : jobs[k].context \in Seq(A)
  BY <1>1, LetInStays, SeqGrows DEF TalkLetIn
<1>3. ASSUME jobs' = jobs, buffer' \in [Group -> Seq(A)]
      PROVE  TalkLetIn'
  BY <1>2, <1>3 DEF TalkLetIn
<1>4. ASSUME NEW source, NEW ok, NEW filled, StartMonitor(source, ok, filled), jobs' = jobs
      PROVE  TalkLetIn'
  BY <1>1, <1>3, <1>4, StartLetsIn
<1>5. ASSUME NEW j \in DOMAIN jobs, Step(j)
      PROVE  TalkLetIn'
  BY <1>1, <1>5, StepLetsIn
<1>6. ASSUME NEW id, NEW n, Joins(id, n), buffer' = buffer
      PROVE  TalkLetIn'
  <2>1. ASSUME NEW k \in DOMAIN jobs'
        PROVE  jobs'[k].context \in Seq(A)
    <3>1. k \in DOMAIN jobs \/ k = Len(jobs) + 1
      BY <1>6, Lengths DEF Joins, Typed
    <3>2. CASE k \in DOMAIN jobs
      BY <1>2, <1>6, <3>2 DEF Joins
    <3>3. CASE k = Len(jobs) + 1
      <4>1. jobs'[k].context = <<>>
        BY <1>6, <3>3, Zenon DEF Joins
      <4>2. <<>> \in Seq(A)
        OBVIOUS
      <4> QED BY <4>1, <4>2
    <3> QED BY <3>1, <3>2, <3>3
  <2> QED BY <1>2, <1>6, <2>1 DEF TalkLetIn
<1> QED BY <1>1, <1>2, <1>3, <1>4, <1>5, <1>6, Zenon DEF JobsGoOn

LEMMA InitDenied == Init => DeniedKeptOut /\ TalkLetIn
BY DEF Init, DeniedKeptOut, TalkLetIn

LEMMA LetInIsStaysOut == Typed /\ DeniedKeptOut /\ TalkLetIn => DeniedStaysOut
<1> SUFFICES ASSUME Typed, DeniedKeptOut, TalkLetIn, NEW j \in DOMAIN jobs,
                    NEW id \in ToSet(jobs[j].context)
             PROVE  LetIn(id)
  BY Zenon DEF DeniedStaysOut, DeniedKeptOut, OutPhases, LetIn
<1>1. jobs[j].context \in Seq(Admitted)
  BY DEF TalkLetIn
<1>2. id \in Admitted
  BY <1>1 DEF ToSet
<1> QED BY <1>2 DEF Admitted

(* Whom the configuration denies, for the channel or in the group, by id or *)
(* by a name that was resolved, gets no reply and is not heard as context,  *)
(* but for what came in with a group's history.                             *)
THEOREM DeniedAreRefused == Spec => []DeniedStaysOut
<1>1. Typed /\ DeniedKeptOut /\ TalkLetIn /\ [Next]_vars => (DeniedKeptOut /\ TalkLetIn)'
  BY NextKeptOut, NextLetsIn
<1> QED BY AlwaysTyped, InitDenied, <1>1, LetInIsStaysOut, PTL DEF Spec
=============================================================================
