--------------------------- MODULE CacheGroupProofs ---------------------------
(***************************************************************************)
(* Theorems about CacheGroup, for any keys, ttls, queries, requests and    *)
(* faults: what the caches serve belongs to the calls it is given to and   *)
(* may be cached, what is invalid comes from batches, memory forgets in    *)
(* time.                                                                   *)
(*                                                                         *)
(* The invariants follow from what is kept along the whole way of a   *)
(* response: through memory, redis, the pending writes, and the results of *)
(* a lookup that waits for redis.                                          *)
(***************************************************************************)
EXTENDS CacheGroup, FiniteSetTheorems, SequenceTheorems, TLAPS

\* What a tier keeps under k answers k and may be cached.
Own(k, e) == e # None => e.val.key = k /\ Ttl[k] # NoCache

\* A pair that may be stored, with the ttl that its call has been given.
MayStore(p) ==
    /\ p.val.key = p.key
    /\ Ttl[p.key] # NoCache
    /\ \/ p.ttl = Ttl[p.key]
       \/ Ttl[p.key] = IfIrreversible /\ p.ttl \in {DefaultTTL, NoCache}

TiersSound ==
    /\ \A k \in Keys : Own(k, memory[k]) /\ Own(k, redis[k])
    /\ MemoryNotRenewed

\* Given by an upstream no longer ago than a batch may wait for the others.
Recent(v) == v.at <= now /\ now <= v.at + RequestTimeout

\* The writes on their way; those to memory are of recent responses.
WritesSound ==
    \A r \in Requests :
        /\ \A g \in jobs[r] : \A p \in g : MayStore(p) /\ Recent(p.val)
        /\ \A p \in pend[r] : MayStore(p)

\* A result that may be given to the call of key k.
Fits(k, v) == v # None => v.key = k /\ Ttl[k] # NoCache

ReadSound(r) ==
    pc[r] = "reading" =>
        \A i \in DOMAIN query[r].keys : Fits(query[r].keys[i], found[r][i])

\* What a batch has while it waits for the rest.
FetchingSound(r) ==
    pc[r] = "fetching" =>
        \A i \in DOMAIN query[r].keys :
            answer[r][i] # None =>
                answer[r][i].key = query[r].keys[i] /\ Recent(answer[r][i])

ServedSound(r) ==
    pc[r] = "served" =>
        \A i \in DOMAIN query[r].keys :
            /\ answer[r][i].key = query[r].keys[i]
            /\ hit[r] => /\ Valid(query[r].keys[i], answer[r][i])
                         /\ Ttl[query[r].keys[i]] # NoCache
            /\ ~hit[r] => Recent(answer[r][i])

RequestsSound ==
    \A r \in Requests :
        /\ hit[r] => pc[r] = "served"
        /\ ReadSound(r)
        /\ FetchingSound(r)
        /\ ServedSound(r)

IInv == TypeOK /\ TiersSound /\ WritesSound /\ RequestsSound

-----------------------------------------------------------------------------
\* Lemmas on the operators.

LEMMA SeqFacts ==
    ASSUME NEW S, NEW T, NEW s \in Seq(S), NEW f \in [DOMAIN s -> T]
    PROVE  f \in Seq(T) /\ DOMAIN f = DOMAIN s
<1>1. DOMAIN s = 1..Len(s) /\ Len(s) \in Nat
  OBVIOUS
<1>2. f \in [1..Len(s) -> T]
  BY <1>1
<1>3. QED
  BY <1>1, <1>2

LEMMA QueryFacts ==
    ASSUME NEW q \in Queries
    PROVE  /\ q \in Query /\ q # None
           /\ q.keys \in Seq(Keys) /\ q.batch \in BOOLEAN
           /\ \A i \in DOMAIN q.keys : q.keys[i] \in Keys
           /\ 1 \in DOMAIN q.keys
           /\ ~q.batch => DOMAIN q.keys = {1}
<1>1. q \in Query /\ q # None /\ q.keys # <<>> /\ (~q.batch => Len(q.keys) = 1)
  BY QueriesAssumption, NoneAssumption
<1>2. q.keys \in Seq(Keys) /\ q.batch \in BOOLEAN
  BY <1>1 DEF Query
<1>3. PICK n \in Nat : n = Len(q.keys)
  BY <1>2
<1>4. DOMAIN q.keys = 1..n /\ (~q.batch => n = 1)
  BY <1>1, <1>2, <1>3
<1>5. n # 0
  <2>1. n = 0 => q.keys = <<>>
    BY <1>2, <1>3, EmptySeq
  <2>2. QED
    BY <1>1, <2>1
<1>6. 1 \in 1..n /\ (n = 1 => 1..n = {1})
  BY <1>5
<1>7. \A i \in DOMAIN q.keys : q.keys[i] \in Keys
  BY <1>2
<1>8. QED
  BY <1>1, <1>2, <1>4, <1>6, <1>7

\* The lookups.
LEMMA TierFacts ==
    ASSUME TypeOK, TiersSound, NEW k \in Keys
    PROVE  /\ InMemory(k) \in Value \cup {None} /\ InRedis(k) \in Value \cup {None}
           /\ Fits(k, InMemory(k)) /\ Fits(k, InRedis(k))
BY DEF TypeOK, TiersSound, Entry, InMemory, InRedis, Own, Fits

\* The reply of redis is laid over the gaps it was asked for: every place of
\* the result is what memory had or what redis has for the key of that place.
LEMMA FilledFacts ==
    ASSUME TypeOK, NEW r \in Requests, pc[r] = "reading"
    PROVE  /\ DOMAIN Filled(r) = DOMAIN query[r].keys
           /\ \A i \in DOMAIN query[r].keys :
                Filled(r)[i] = IF found[r][i] = None THEN InRedis(query[r].keys[i])
                               ELSE found[r][i]
           /\ Filled(r) = [i \in DOMAIN query[r].keys |-> Filled(r)[i]]
<1>1. /\ query[r] \in Queries
      /\ DOMAIN found[r] = DOMAIN query[r].keys
  BY DEF TypeOK
<1>2. PICK n \in Nat : DOMAIN query[r].keys = 1..n
  BY <1>1, QueryFacts
<1> DEFINE gaps == {i \in DOMAIN found[r] : found[r][i] = None}
           gap(i) == Cardinality({j \in gaps : j <= i})
           asked(m) == query[r].keys[CHOOSE j \in gaps : gap(j) = m]
<1>3. gaps \subseteq 1..n
  BY <1>1, <1>2
<1>4. Filled(r) = [i \in DOMAIN found[r] |->
                     IF i \in gaps THEN InRedis(asked(gap(i))) ELSE found[r][i]]
  BY DEF Filled
<1>5. \A i \in DOMAIN found[r] : i \in gaps <=> found[r][i] = None
  OBVIOUS
<1> HIDE DEF gaps
<1>6. PICK upTo : upTo = [i \in gaps |-> {j \in gaps : j <= i}]
  OBVIOUS
<1>7. IsFiniteSet(gaps)
  <2>1. IsFiniteSet(1..n)
    BY FS_Interval
  <2>2. QED
    BY <1>3, <2>1, FS_Subset
<1>8. ASSUME NEW i \in gaps, NEW j \in gaps, gap(i) = gap(j)
      PROVE  i = j
  <2>1. i \in Nat /\ j \in Nat /\ (i <= j \/ j <= i)
    BY <1>3
  <2>2. ASSUME NEW x \in gaps, NEW y \in gaps, x <= y
        PROVE  upTo[x] \subseteq upTo[y]
    <3>1. \A z \in gaps : z <= x => z <= y
      BY <1>3, <2>2
    <3>2. QED
      BY <1>6, <3>1
  <2>3. IsFiniteSet(upTo[i]) /\ IsFiniteSet(upTo[j])
    BY <1>6, <1>7, FS_Subset
  <2>4. Cardinality(upTo[i]) = Cardinality(upTo[j])
    BY <1>6, <1>8
  <2>5. upTo[i] = upTo[j]
    BY <2>1, <2>2, <2>3, <2>4, FS_Subset
  <2>6. i \in upTo[i] /\ j \in upTo[j]
    BY <1>6, <2>1
  <2>7. i <= j /\ j <= i
    BY <1>6, <2>5, <2>6
  <2>8. QED
    BY <2>1, <2>7
<1>9. \A i \in gaps : asked(gap(i)) = query[r].keys[i]
  <2>1. \A i \in gaps : (CHOOSE j \in gaps : gap(j) = gap(i)) = i
    BY <1>8
  <2>2. QED
    BY <2>1
<1> HIDE DEF gap, asked
<1>10. Filled(r) = [i \in DOMAIN found[r] |->
                      IF i \in gaps THEN InRedis(query[r].keys[i]) ELSE found[r][i]]
  BY <1>4, <1>9
<1>11. QED
  BY <1>1, <1>5, <1>10

\* Pair p is what a write puts under k.
Written(p, k) ==
    /\ p.key = k /\ ~(Lifetime(p.ttl) <= 0)
    /\ memory'[k] = [val |-> p.val, exp |-> now + Lifetime(p.ttl)]

\* After a write a key has lost its entry, kept it, or has one of the pairs.
LEMMA StoreCases ==
    ASSUME NEW pairs, StoreInMemory(pairs), NEW k \in Keys
    PROVE  \/ memory'[k] = None
           \/ memory'[k] = memory[k]
           \/ \E p \in pairs : Written(p, k)
<1>1. PICK F \in SUBSET Keys :
        memory' = [d \in Keys |->
             IF d \in F THEN None
             ELSE IF \E p \in pairs : p.key = d
               THEN LET p == CHOOSE p \in pairs : p.key = d IN
                      IF Lifetime(p.ttl) <= 0 THEN None
                      ELSE [val |-> p.val, exp |-> now + Lifetime(p.ttl)]
             ELSE memory[d]]
  BY DEF StoreInMemory
<1>2. CASE k \in F \/ ~\E p \in pairs : p.key = k
  BY <1>1, <1>2
<1>3. CASE k \notin F /\ \E p \in pairs : p.key = k
  <2>1. PICK p \in pairs : p.key = k /\ p = CHOOSE q \in pairs : q.key = k
    BY <1>3
  <2>2. memory'[k] = IF Lifetime(p.ttl) <= 0 THEN None
                     ELSE [val |-> p.val, exp |-> now + Lifetime(p.ttl)]
    BY <1>1, <1>3, <2>1
  <2>3. QED
    BY <2>1, <2>2 DEF Written
<1>4. QED
  BY <1>2, <1>3

\* What one write to memory does.
LEMMA StoreFacts ==
    ASSUME TypeOK, TiersSound, NEW pairs \in SUBSET Pair, StoreInMemory(pairs),
           \A p \in pairs : MayStore(p) /\ Recent(p.val)
    PROVE  /\ memory' \in [Keys -> Entry(Int) \cup {None}]
           /\ \A k \in Keys : Own(k, memory'[k])
           /\ MemoryNotRenewed'
<1>1. PICK F \in SUBSET Keys :
        memory' = [k \in Keys |->
             IF k \in F THEN None
             ELSE IF \E p \in pairs : p.key = k
               THEN LET p == CHOOSE p \in pairs : p.key = k IN
                      IF Lifetime(p.ttl) <= 0 THEN None
                      ELSE [val |-> p.val, exp |-> now + Lifetime(p.ttl)]
             ELSE memory[k]]
  BY DEF StoreInMemory
<1>2. now \in Nat /\ memory \in [Keys -> Entry(Int) \cup {None}]
  BY DEF TypeOK
<1>3. ASSUME NEW k \in Keys
      PROVE  \/ memory'[k] = None
             \/ memory'[k] = memory[k]
             \/ \E p \in pairs : Written(p, k)
  BY StoreCases
<1>4. \A p \in pairs : /\ p.val \in Value /\ p.ttl \in Int \cup {None}
                       /\ Lifetime(p.ttl) \in Int
  BY TtlAssumption DEF Pair, Lifetime
<1>5. ASSUME NEW k \in Keys, memory'[k] # None
      PROVE  /\ memory'[k] \in Entry(Int)
             /\ Own(k, memory'[k])
             /\ memory'[k].exp <= memory'[k].val.at + RequestTimeout +
                   (IF Ttl[k] = IfIrreversible THEN Lifetime(DefaultTTL)
                    ELSE Lifetime(Ttl[k]))
  <2>1. CASE memory'[k] = memory[k]
    BY <1>2, <1>5, <2>1 DEF TiersSound, MemoryNotRenewed
  <2>2. ASSUME NEW p \in pairs, p.key = k, ~(Lifetime(p.ttl) <= 0),
               memory'[k] = [val |-> p.val, exp |-> now + Lifetime(p.ttl)]
        PROVE  /\ memory'[k] \in Entry(Int)
               /\ Own(k, memory'[k])
               /\ memory'[k].exp <= memory'[k].val.at + RequestTimeout +
                   (IF Ttl[k] = IfIrreversible THEN Lifetime(DefaultTTL)
                    ELSE Lifetime(Ttl[k]))
    <3>1. MayStore(p) /\ Recent(p.val)
      OBVIOUS
    <3>2. memory'[k] \in Entry(Int) /\ Own(k, memory'[k])
      BY <1>2, <1>4, <2>2, <3>1 DEF Entry, Own, MayStore
    <3>3. Ttl[k] # IfIrreversible => p.ttl = Ttl[k]
      BY <2>2, <3>1 DEF MayStore
    <3>4. Ttl[k] = IfIrreversible => p.ttl = DefaultTTL
      <4>1. p.ttl # IfIrreversible /\ p.ttl # NoCache
        BY <2>2, TtlAssumption DEF Lifetime, IfIrreversible, NoCache
      <4>2. QED
        BY <2>2, <3>1, <4>1 DEF MayStore
    <3>5. /\ memory'[k].exp = now + Lifetime(p.ttl)
          /\ now <= memory'[k].val.at + RequestTimeout /\ p.val.at \in Nat
          /\ memory'[k].val.at = p.val.at
      BY <1>4, <2>2, <3>1 DEF Recent, Value
    <3>6. Lifetime(p.ttl) = IF Ttl[k] = IfIrreversible THEN Lifetime(DefaultTTL)
                            ELSE Lifetime(Ttl[k])
      BY <3>3, <3>4
    <3>7. memory'[k].exp <= memory'[k].val.at + RequestTimeout + Lifetime(p.ttl)
      BY <1>2, <1>4, <3>5, TtlAssumption
    <3>8. QED
      BY <3>2, <3>6, <3>7
  <2>3. QED
    BY <1>3, <1>5, <2>1, <2>2 DEF Written
<1>6. DOMAIN memory' = Keys /\ memory' = [k \in Keys |-> memory'[k]]
  BY <1>1
<1>7. QED
  BY <1>5, <1>6 DEF MemoryNotRenewed, Own

\* The pairs that cache_response makes of fresh answers.
LEMMA SingleFacts ==
    ASSUME NEW k \in Keys, NEW v \in Value, v.key = k, Recent(v)
    PROVE  /\ SinglePairs(k, v) \in SUBSET Pair
           /\ \A p \in SinglePairs(k, v) : MayStore(p) /\ Recent(p.val)
<1>1. CASE Ttl[k] = NoCache \/ ~Valid(k, v)
  BY <1>1 DEF SinglePairs
<1>2. ASSUME Ttl[k] # NoCache, Valid(k, v), NEW p \in SinglePairs(k, v)
      PROVE  p \in Pair /\ MayStore(p) /\ Recent(p.val)
  <2>1. p = [key |-> k, val |-> v,
             ttl |-> IF Ttl[k] = IfIrreversible THEN IrreversibleTtl(v) ELSE Ttl[k]]
    BY <1>2 DEF SinglePairs
  <2>2. Ttl[k] = IfIrreversible => p.ttl = DefaultTTL \/ p.ttl = NoCache
    BY <2>1 DEF IrreversibleTtl
  <2>3. Ttl[k] # IfIrreversible => p.ttl = Ttl[k]
    BY <2>1
  <2>4. p.ttl \in Int \cup {None}
    BY <2>2, <2>3, TtlAssumption DEF NoCache
  <2>5. QED
    BY <1>2, <2>1, <2>2, <2>3, <2>4 DEF Pair, MayStore
<1>3. QED
  BY <1>1, <1>2

LEMMA BatchFacts ==
    ASSUME NEW keys \in Seq(Keys), NEW vals \in Seq(Value), DOMAIN vals = DOMAIN keys,
           \A i \in DOMAIN keys : vals[i].key = keys[i] /\ Recent(vals[i])
    PROVE  /\ BatchPairs(keys, vals) \in SUBSET Pair
           /\ \A p \in BatchPairs(keys, vals) : MayStore(p) /\ Recent(p.val)
<1> DEFINE allIrreversible == \A i \in DOMAIN keys : Ttl[keys[i]] = IfIrreversible
           ttl(i) == IF allIrreversible THEN IrreversibleTtl(vals[i]) ELSE Ttl[keys[i]]
<1> SUFFICES ASSUME NEW p \in BatchPairs(keys, vals)
             PROVE  p \in Pair /\ MayStore(p) /\ Recent(p.val)
  OBVIOUS
<1>1. PICK i \in DOMAIN keys :
        /\ ttl(i) # NoCache
        /\ p = [key |-> keys[i], val |-> vals[i], ttl |-> ttl(i)]
  BY DEF BatchPairs
<1>2. keys[i] \in Keys /\ vals[i] \in Value
  OBVIOUS
<1>3. /\ p.key = keys[i] /\ p.val = vals[i] /\ p.ttl = ttl(i)
      /\ p = [key |-> p.key, val |-> p.val, ttl |-> p.ttl]
  BY <1>1
<1>4. CASE allIrreversible
  <2>1. p.ttl = DefaultTTL /\ Ttl[keys[i]] = IfIrreversible
    BY <1>1, <1>3, <1>4 DEF IrreversibleTtl
  <2>2. p.ttl \in Int /\ Ttl[keys[i]] # NoCache
    BY <2>1, TtlAssumption DEF IfIrreversible, NoCache
  <2>3. QED
    BY <1>1, <1>2, <1>3, <2>1, <2>2 DEF Pair, MayStore
<1>5. CASE ~allIrreversible
  <2>1. p.ttl = Ttl[keys[i]] /\ Ttl[keys[i]] # NoCache
    BY <1>1, <1>3, <1>5
  <2>2. p.ttl \in Int \cup {None}
    BY <1>2, <2>1, TtlAssumption
  <2>3. QED
    <3>1. p.key \in Keys /\ p.val \in Value /\ p.ttl = Ttl[p.key]
      BY <1>2, <1>3, <2>1
    <3>2. p.val.key = p.key /\ Recent(p.val) /\ Ttl[p.key] # NoCache
      BY <1>3, <2>1
    <3>3. p = [key |-> p.key, val |-> p.val, ttl |-> p.ttl]
      BY <1>3
    <3> HIDE DEF ttl, allIrreversible
    <3>4. QED
      BY <2>2, <3>1, <3>2, <3>3 DEF Pair, MayStore
<1>6. QED
  BY <1>4, <1>5

-----------------------------------------------------------------------------
\* The steps of a request.

Places == {"new", "reading", "fetching", "served", "done", "failed"}

\* What IInv says of one request.
RequestOK(r) ==
    /\ query[r] = None <=> pc[r] \in {"new", "done", "failed"}
    /\ pc[r] = "reading" => DOMAIN found[r] = DOMAIN query[r].keys
    /\ pc[r] \in {"fetching", "served"} => DOMAIN answer[r] = DOMAIN query[r].keys
    /\ pc[r] = "served" => \A i \in DOMAIN answer[r] : answer[r][i] # None
    /\ hit[r] => pc[r] = "served"
    /\ ReadSound(r)
    /\ FetchingSound(r)
    /\ ServedSound(r)

RequestsTyped ==
    /\ pc \in [Requests -> Places]
    /\ query \in [Requests -> Queries \cup {None}]
    /\ found \in [Requests -> Seq(Value \cup {None})]
    /\ answer \in [Requests -> Seq(Value \cup {None})]
    /\ hit \in [Requests -> BOOLEAN]

StoresTyped ==
    /\ memory \in [Keys -> Entry(Int) \cup {None}]
    /\ redis \in [Keys -> Entry(Int \cup {None}) \cup {None}]
    /\ now \in Nat
    /\ jobs \in [Requests -> SUBSET SUBSET Pair]
    /\ pend \in [Requests -> SUBSET Pair]

LEMMA IInvParts ==
    IInv <=> /\ RequestsTyped /\ (\A r \in Requests : RequestOK(r))
             /\ StoresTyped /\ TiersSound /\ WritesSound
BY DEF IInv, TypeOK, RequestsSound, RequestsTyped, StoresTyped, RequestOK, Places

\* Only request r moves.
Moves(r) ==
    \A q \in Requests : q # r =>
        /\ pc'[q] = pc[q] /\ query'[q] = query[q] /\ found'[q] = found[q]
        /\ answer'[q] = answer[q] /\ hit'[q] = hit[q]

LEMMA OthersOK ==
    ASSUME NEW r \in Requests, \A q \in Requests : RequestOK(q),
           Moves(r), RequestOK(r)', UNCHANGED now
    PROVE  \A q \in Requests : RequestOK(q)'
<1> SUFFICES ASSUME NEW q \in Requests, q # r  PROVE RequestOK(q)'
  OBVIOUS
<1>1. /\ pc'[q] = pc[q] /\ query'[q] = query[q] /\ found'[q] = found[q]
      /\ answer'[q] = answer[q] /\ hit'[q] = hit[q] /\ now' = now
  BY DEF Moves
<1>2. RequestOK(q)
  OBVIOUS
<1>3. ReadSound(q)' /\ FetchingSound(q)' /\ ServedSound(q)'
  BY <1>1, <1>2 DEF RequestOK, ReadSound, FetchingSound, ServedSound, Recent
<1>4. QED
  BY <1>1, <1>2, <1>3 DEF RequestOK

\* A step of a request that leaves the stores and writers alone.
LEMMA RequestMoves ==
    ASSUME IInv, NEW r \in Requests, UNCHANGED <<memory, redis, now, writerVars>>,
           RequestsTyped', Moves(r), RequestOK(r)'
    PROVE  IInv'
<1>1. RequestsTyped' /\ (\A q \in Requests : RequestOK(q)')
  BY IInvParts, OthersOK
<1>2. StoresTyped' /\ TiersSound' /\ WritesSound'
  BY IInvParts DEF StoresTyped, TiersSound, WritesSound, MemoryNotRenewed, Recent,
                     writerVars
<1>3. QED
  BY <1>1, <1>2 DEF IInv, TypeOK, RequestsSound, RequestsTyped, StoresTyped,
                   RequestOK, Places

\* The start of handle_jsonrpc: nothing has come yet.
LEMMA StartFetchingFacts ==
    ASSUME RequestsTyped, NEW r \in Requests, NEW q \in Queries,
           ~hit[r], StartFetching(r, q),
           query' \in [Requests -> Queries \cup {None}], query'[r] = q,
           found' \in [Requests -> Seq(Value \cup {None})],
           \A p \in Requests : p # r => query'[p] = query[p] /\ found'[p] = found[p]
    PROVE  RequestsTyped' /\ Moves(r) /\ RequestOK(r)'
<1>1. PICK none : none = [i \in DOMAIN q.keys |-> None]
  OBVIOUS
<1>2. /\ none \in Seq(Value \cup {None}) /\ DOMAIN none = DOMAIN q.keys
      /\ \A i \in DOMAIN q.keys : none[i] = None
  <2>1. none \in [DOMAIN q.keys -> Value \cup {None}] /\ q.keys \in Seq(Keys)
    BY <1>1, QueryFacts
  <2>2. QED
    BY <1>1, <2>1, SeqFacts
<1>3. /\ pc' = [pc EXCEPT ![r] = "fetching"] /\ hit' = hit
      /\ answer' = [answer EXCEPT ![r] = none]
  BY <1>1 DEF StartFetching
<1>4. /\ RequestsTyped' /\ Moves(r)
      /\ pc'[r] = "fetching" /\ answer'[r] = none /\ ~hit'[r]
  BY <1>2, <1>3 DEF RequestsTyped, Places, Moves
<1>5. q # None
  BY QueryFacts
<1>6. QED
  BY <1>2, <1>4, <1>5 DEF RequestOK, ReadSound, FetchingSound, ServedSound

\* The end of a lookup, in memory or in redis.
LEMMA ConcludeFacts ==
    ASSUME IInv, NEW r \in Requests, NEW q \in Queries,
           NEW results \in Seq(Value \cup {None}), DOMAIN results = DOMAIN q.keys,
           \A i \in DOMAIN q.keys : Fits(q.keys[i], results[i]),
           ~hit[r], Conclude(r, q, results),
           query' \in [Requests -> Queries \cup {None}], query'[r] = q,
           found' \in [Requests -> Seq(Value \cup {None})], UNCHANGED now,
           \A p \in Requests : p # r => query'[p] = query[p] /\ found'[p] = found[p]
    PROVE  RequestsTyped' /\ Moves(r) /\ RequestOK(r)'
<1>1. RequestsTyped /\ q # None
  BY IInvParts, QueryFacts
<1>2. CASE Complete(q, results)
  <2>1. \A i \in DOMAIN q.keys : results[i] # None /\ Valid(q.keys[i], results[i])
    BY <1>2 DEF Complete
  <2>2. /\ pc' = [pc EXCEPT ![r] = "served"]
        /\ answer' = [answer EXCEPT ![r] = results]
        /\ hit' = [hit EXCEPT ![r] = TRUE]
    BY <1>2 DEF Conclude
  <2>3. RequestsTyped' /\ Moves(r)
    BY <1>1, <2>2 DEF RequestsTyped, Places, Moves
  <2>4. pc'[r] = "served" /\ answer'[r] = results /\ hit'[r]
    BY <1>1, <2>2 DEF RequestsTyped
  <2>5. ReadSound(r)' /\ FetchingSound(r)' /\ ServedSound(r)'
    BY <2>1, <2>4 DEF ReadSound, FetchingSound, ServedSound, Fits
  <2>6. QED
    BY <1>1, <2>1, <2>3, <2>4, <2>5 DEF RequestOK
<1>3. CASE ~Complete(q, results)
  <2>1. StartFetching(r, q)
    BY <1>3 DEF Conclude
  <2>2. QED
    BY <1>1, <2>1, StartFetchingFacts
<1>4. QED
  BY <1>2, <1>3

LEMMA ArriveOK == ASSUME IInv, NEW r \in Requests, Arrive(r)  PROVE IInv'
<1>1. PICK q \in Queries :
        LET results == [i \in DOMAIN q.keys |-> InMemory(q.keys[i])]
            all == \A i \in DOMAIN q.keys : results[i] # None
        IN  /\ query' = [query EXCEPT ![r] = q]
            /\ IF ~q.batch /\ Ttl[q.keys[1]] = NoCache
                 THEN StartFetching(r, q) /\ UNCHANGED found
               ELSE IF HasRedis /\ ~all
                 THEN /\ pc' = [pc EXCEPT ![r] = "reading"]
                      /\ found' = [found EXCEPT ![r] = results]
                      /\ UNCHANGED <<answer, hit>>
               ELSE /\ Conclude(r, q, results)
                    /\ UNCHANGED found
  BY DEF Arrive
<1> DEFINE results == [i \in DOMAIN q.keys |-> InMemory(q.keys[i])]
<1>2. /\ pc[r] = "new" /\ UNCHANGED <<memory, redis, now, writerVars>>
      /\ RequestsTyped /\ RequestOK(r) /\ TypeOK /\ TiersSound /\ q # None
  BY IInvParts, QueryFacts DEF Arrive, IInv, writerVars
<1>3. ~hit[r]
  BY <1>2 DEF RequestOK
<1>4. /\ query' \in [Requests -> Queries \cup {None}] /\ query'[r] = q
      /\ \A p \in Requests : p # r => query'[p] = query[p]
  BY <1>1, <1>2 DEF RequestsTyped
<1>5. /\ results \in Seq(Value \cup {None}) /\ DOMAIN results = DOMAIN q.keys
      /\ \A i \in DOMAIN q.keys : Fits(q.keys[i], results[i])
  <2>1. q.keys \in Seq(Keys) /\ \A i \in DOMAIN q.keys : q.keys[i] \in Keys
    BY QueryFacts
  <2>2. \A i \in DOMAIN q.keys : /\ InMemory(q.keys[i]) \in Value \cup {None}
                                 /\ Fits(q.keys[i], InMemory(q.keys[i]))
    BY <1>2, <2>1, TierFacts
  <2>3. results \in [DOMAIN q.keys -> Value \cup {None}]
    BY <2>2
  <2>4. results \in Seq(Value \cup {None}) /\ DOMAIN results = DOMAIN q.keys
    BY <2>1, <2>3, SeqFacts
  <2>5. QED
    BY <2>2, <2>4
<1>6. \/ StartFetching(r, q) /\ UNCHANGED found
      \/ /\ pc' = [pc EXCEPT ![r] = "reading"]
         /\ found' = [found EXCEPT ![r] = results] /\ UNCHANGED <<answer, hit>>
      \/ Conclude(r, q, results) /\ UNCHANGED found
  BY <1>1
<1> HIDE DEF results
<1>7. CASE StartFetching(r, q) /\ UNCHANGED found
  <2>1. RequestsTyped' /\ Moves(r) /\ RequestOK(r)'
    BY <1>2, <1>3, <1>4, <1>7, StartFetchingFacts DEF RequestsTyped
  <2>2. QED
    BY <1>2, <2>1, RequestMoves
<1>8. CASE /\ pc' = [pc EXCEPT ![r] = "reading"]
           /\ found' = [found EXCEPT ![r] = results] /\ UNCHANGED <<answer, hit>>
  <2>1. /\ RequestsTyped' /\ Moves(r) /\ pc'[r] = "reading" /\ ~hit'[r]
        /\ found'[r] = results
    BY <1>2, <1>3, <1>4, <1>5, <1>8 DEF RequestsTyped, Places, Moves
  <2>2. RequestOK(r)'
    BY <1>2, <1>4, <1>5, <2>1 DEF RequestOK, ReadSound, FetchingSound, ServedSound
  <2>3. QED
    BY <1>2, <2>1, <2>2, RequestMoves
<1>9. CASE Conclude(r, q, results) /\ UNCHANGED found
  <2>1. RequestsTyped' /\ Moves(r) /\ RequestOK(r)'
    BY <1>2, <1>3, <1>4, <1>5, <1>9, ConcludeFacts DEF RequestsTyped
  <2>2. QED
    BY <1>2, <2>1, RequestMoves
<1>10. QED
  BY <1>6, <1>7, <1>8, <1>9

LEMMA RedisReplyOK ==
    ASSUME IInv, NEW r \in Requests, RedisReply(r)  PROVE IInv'
<1>1. /\ pc[r] = "reading" /\ Conclude(r, query[r], Filled(r))
      /\ found' = [found EXCEPT ![r] = <<>>] /\ query' = query
      /\ UNCHANGED <<memory, redis, now, writerVars>>
      /\ RequestsTyped /\ RequestOK(r) /\ TypeOK /\ TiersSound
  BY IInvParts DEF RedisReply, IInv, writerVars
<1>2. ~hit[r] /\ query[r] \in Queries
  BY <1>1 DEF RequestOK, RequestsTyped
<1>3. query[r].keys \in Seq(Keys) /\ \A i \in DOMAIN query[r].keys : query[r].keys[i] \in Keys
  BY <1>2, QueryFacts
<1>4. ASSUME NEW i \in DOMAIN query[r].keys
      PROVE  /\ Filled(r)[i] \in Value \cup {None}
             /\ Fits(query[r].keys[i], Filled(r)[i])
  <2>1. CASE found[r][i] = None
    BY <1>1, <1>3, <2>1, FilledFacts, TierFacts
  <2>2. CASE found[r][i] # None
    <3>1. Filled(r)[i] = found[r][i]
      BY <1>1, <2>2, FilledFacts
    <3>2. found[r] \in Seq(Value \cup {None}) /\ i \in DOMAIN found[r]
      BY <1>1 DEF RequestsTyped, RequestOK
    <3>3. QED
      BY <1>1, <3>1, <3>2 DEF RequestOK, ReadSound
  <2>3. QED
    BY <2>1, <2>2
<1>5. /\ Filled(r) \in Seq(Value \cup {None})
      /\ DOMAIN Filled(r) = DOMAIN query[r].keys
  <2>1. Filled(r) \in [DOMAIN query[r].keys -> Value \cup {None}]
    BY <1>1, <1>4, FilledFacts
  <2>2. QED
    BY <1>3, <2>1, SeqFacts
<1>6. /\ found' \in [Requests -> Seq(Value \cup {None})]
      /\ \A p \in Requests : p # r => query'[p] = query[p] /\ found'[p] = found[p]
  <2>1. <<>> \in Seq(Value \cup {None})
    OBVIOUS
  <2>2. QED
    BY <1>1, <2>1 DEF RequestsTyped
<1>7. RequestsTyped' /\ Moves(r) /\ RequestOK(r)'
  BY <1>1, <1>2, <1>4, <1>5, <1>6, ConcludeFacts DEF RequestsTyped
<1>8. QED
  BY <1>1, <1>7, RequestMoves

LEMMA GiveUpReadingOK ==
    ASSUME IInv, NEW r \in Requests, GiveUpReading(r)  PROVE IInv'
<1>1. /\ pc[r] = "reading" /\ StartFetching(r, query[r])
      /\ found' = [found EXCEPT ![r] = <<>>] /\ query' = query
      /\ UNCHANGED <<memory, redis, now, writerVars>>
      /\ RequestsTyped /\ RequestOK(r)
  BY IInvParts DEF GiveUpReading, writerVars
<1>2. <<>> \in Seq(Value \cup {None})
  OBVIOUS
<1>3. /\ ~hit[r] /\ query[r] \in Queries
      /\ found' \in [Requests -> Seq(Value \cup {None})]
      /\ \A p \in Requests : p # r => found'[p] = found[p]
  BY <1>1, <1>2 DEF RequestsTyped, RequestOK
<1>4. RequestsTyped' /\ Moves(r) /\ RequestOK(r)'
  BY <1>1, <1>3, StartFetchingFacts DEF RequestsTyped
<1>5. QED
  BY <1>1, <1>4, RequestMoves

\* A response of this second joins those that wait; they stay recent.
LEMMA FetchedOK ==
    ASSUME IInv, NEW r \in Requests, Fetched(r)  PROVE IInv'
<1>1. /\ pc[r] = "fetching" /\ UNCHANGED <<query, found, hit>>
      /\ UNCHANGED <<memory, redis, now, writerVars>>
      /\ RequestsTyped /\ RequestOK(r) /\ now \in Nat
  BY IInvParts DEF Fetched, writerVars, StoresTyped
<1>2. PICK keys : keys = query[r].keys
  OBVIOUS
<1>3. /\ ~hit[r] /\ query[r] \in Queries /\ query[r] # None
      /\ DOMAIN answer[r] = DOMAIN keys /\ answer[r] \in Seq(Value \cup {None})
      /\ \A i \in DOMAIN keys : keys[i] \in Keys
  BY <1>1, <1>2, QueryFacts DEF RequestOK, RequestsTyped
<1>4. PICK i \in DOMAIN answer[r] :
        /\ \E kind \in KindsOf(keys[i]) :
             answer' = [answer EXCEPT ![r][i] =
                           [key |-> keys[i], kind |-> kind, at |-> now]]
        /\ pc' = IF \E j \in DOMAIN answer[r] : j # i /\ answer[r][j] = None
                   THEN pc ELSE [pc EXCEPT ![r] = "served"]
  BY <1>2 DEF Fetched
<1>5. PICK v : /\ v \in Value /\ v.key = keys[i] /\ v.at = now
               /\ answer' = [answer EXCEPT ![r][i] = v]
  <2>1. PICK kind \in KindsOf(keys[i]) :
          answer' = [answer EXCEPT ![r][i] =
                        [key |-> keys[i], kind |-> kind, at |-> now]]
    BY <1>4
  <2>2. kind \in {"ok", "error", "null", "odd"} /\ keys[i] \in Keys
    BY <1>3 DEF KindsOf
  <2>3. [key |-> keys[i], kind |-> kind, at |-> now] \in Value
    BY <1>1, <2>2 DEF Value
  <2>4. QED
    BY <2>1, <2>3
<1>6. v # None /\ Recent(v)
  BY <1>1, <1>5, NoneAssumption, TtlAssumption DEF Recent
<1>7. PICK as : as = [answer[r] EXCEPT ![i] = v]
  OBVIOUS
<1>8. /\ as \in Seq(Value \cup {None}) /\ DOMAIN as = DOMAIN keys /\ as[i] = v
      /\ \A j \in DOMAIN keys : j # i => as[j] = answer[r][j]
  BY <1>3, <1>4, <1>5, <1>7
<1>9. answer' = [answer EXCEPT ![r] = as]
  BY <1>5, <1>7
<1>10. \A j \in DOMAIN keys : as[j] # None => as[j].key = keys[j] /\ Recent(as[j])
  BY <1>1, <1>2, <1>5, <1>6, <1>8 DEF RequestOK, FetchingSound
<1>11. \/ pc' = pc
       \/ /\ pc' = [pc EXCEPT ![r] = "served"]
          /\ \A j \in DOMAIN keys : as[j] # None
  BY <1>3, <1>4, <1>6, <1>8
<1>12. /\ RequestsTyped' /\ Moves(r)
       /\ answer'[r] = as /\ ~hit'[r] /\ query'[r] = query[r]
       /\ \/ pc'[r] = "fetching"
          \/ pc'[r] = "served" /\ \A j \in DOMAIN keys : as[j] # None
  BY <1>1, <1>3, <1>8, <1>9, <1>11 DEF RequestsTyped, Places, Moves
<1>13. ReadSound(r)' /\ FetchingSound(r)' /\ ServedSound(r)'
  <2>1. ReadSound(r)'
    BY <1>12 DEF ReadSound
  <2>2. \A j \in DOMAIN query'[r].keys :
          answer'[r][j] # None =>
            answer'[r][j].key = query'[r].keys[j] /\ Recent(answer[r][j])'
    BY <1>1, <1>2, <1>10, <1>12 DEF Recent
  <2>3. FetchingSound(r)'
    BY <2>2 DEF FetchingSound
  <2>4. ServedSound(r)'
    BY <1>2, <1>12, <2>2 DEF ServedSound
  <2>5. QED
    BY <2>1, <2>3, <2>4
<1>14. RequestOK(r)'
  BY <1>2, <1>3, <1>8, <1>12, <1>13 DEF RequestOK
<1>15. QED
  BY <1>1, <1>12, <1>14, RequestMoves

LEMMA EndFacts ==
    ASSUME RequestsTyped, NEW r \in Requests, NEW how \in {"done", "failed"}, End(r, how)
    PROVE  RequestsTyped' /\ Moves(r) /\ RequestOK(r)'
<1>1. <<>> \in Seq(Value \cup {None})
  OBVIOUS
<1>2. /\ RequestsTyped' /\ Moves(r)
      /\ pc'[r] = how /\ query'[r] = None /\ ~hit'[r]
  BY <1>1 DEF End, RequestsTyped, Places, Moves
<1>3. QED
  BY <1>2 DEF RequestOK, ReadSound, FetchingSound, ServedSound

LEMMA FetchFailsOK ==
    ASSUME IInv, NEW r \in Requests, FetchFails(r)  PROVE IInv'
<1>1. End(r, "failed") /\ UNCHANGED <<memory, redis, now, writerVars>> /\ RequestsTyped
  BY IInvParts DEF FetchFails, writerVars
<1>2. QED
  BY <1>1, EndFacts, RequestMoves

-----------------------------------------------------------------------------
\* The steps of the writers.

\* The pairs of a response: fresh answers with their own keys.
LEMMA ToCacheFacts ==
    ASSUME IInv, NEW r \in Requests, pc[r] = "served"
    PROVE  /\ ToCache(r) \in SUBSET Pair
           /\ \A p \in ToCache(r) : MayStore(p) /\ Recent(p.val)
<1> DEFINE q == query[r]
<1>1. /\ RequestsTyped /\ RequestOK(r) /\ q \in Queries
  BY IInvParts DEF RequestOK, RequestsTyped
<1>2. /\ q.keys \in Seq(Keys) /\ \A i \in DOMAIN q.keys : q.keys[i] \in Keys
      /\ 1 \in DOMAIN q.keys
  BY <1>1, QueryFacts
<1>3. answer[r] \in Seq(Value) /\ DOMAIN answer[r] = DOMAIN q.keys
  <2>1. /\ answer[r] \in Seq(Value \cup {None}) /\ DOMAIN answer[r] = DOMAIN q.keys
        /\ \A i \in DOMAIN answer[r] : answer[r][i] # None
    BY <1>1 DEF RequestsTyped, RequestOK
  <2>2. \A i \in DOMAIN answer[r] : answer[r][i] \in Value
    BY <2>1
  <2>3. answer[r] \in [DOMAIN q.keys -> Value]
    BY <2>1, <2>2
  <2>4. QED
    BY <1>2, <2>1, <2>3, SeqFacts
<1>4. CASE hit[r]
  BY <1>4 DEF ToCache
<1>5. CASE ~hit[r]
  <2>1. \A i \in DOMAIN q.keys : answer[r][i].key = q.keys[i] /\ Recent(answer[r][i])
    BY <1>1, <1>5 DEF RequestOK, ServedSound
  <2>2. CASE q.batch
    <3>1. ToCache(r) = BatchPairs(q.keys, answer[r])
      BY <1>5, <2>2 DEF ToCache
    <3>2. QED
      BY <1>2, <1>3, <2>1, <3>1, BatchFacts
  <2>3. CASE ~q.batch
    <3>1. ToCache(r) = SinglePairs(q.keys[1], answer[r][1])
      BY <1>5, <2>3 DEF ToCache
    <3>2. answer[r][1] \in Value
      BY <1>2, <1>3
    <3>3. QED
      BY <1>2, <2>1, <3>1, <3>2, SingleFacts
  <2>4. QED
    BY <2>2, <2>3
<1>6. QED
  BY <1>4, <1>5

LEMMA CacheResponseOK ==
    ASSUME IInv, NEW r \in Requests, CacheResponse(r)  PROVE IInv'
<1> DEFINE pairs == ToCache(r)
<1>1. /\ pc[r] = "served" /\ End(r, "done") /\ UNCHANGED <<redis, now>>
      /\ IF pairs = {} THEN UNCHANGED memory ELSE StoreInMemory(pairs)
      /\ \/ jobs' = [jobs EXCEPT ![r] = Grouped(pairs)] /\ pend' = pend
         \/ /\ pend' = [pend EXCEPT ![r] = IF HasRedis THEN pairs ELSE {}]
            /\ jobs' = jobs
  BY DEF CacheResponse
<1>2. pairs \in SUBSET Pair /\ \A p \in pairs : MayStore(p) /\ Recent(p.val)
  BY <1>1, ToCacheFacts
<1> HIDE DEF pairs
<1>3. /\ RequestsTyped /\ StoresTyped /\ TypeOK /\ TiersSound /\ WritesSound
      /\ \A q \in Requests : RequestOK(q)
  BY IInvParts DEF IInv
<1>4. RequestsTyped' /\ \A q \in Requests : RequestOK(q)'
  BY <1>1, <1>3, EndFacts, OthersOK
<1>5. /\ memory' \in [Keys -> Entry(Int) \cup {None}]
      /\ \A k \in Keys : Own(k, memory'[k])
      /\ MemoryNotRenewed'
  <2>1. CASE pairs = {}
    BY <1>1, <1>3, <2>1 DEF StoresTyped, TiersSound, MemoryNotRenewed
  <2>2. CASE pairs # {}
    BY <1>1, <1>2, <1>3, <2>2, StoreFacts
  <2>3. QED
    BY <2>1, <2>2
<1>6. Grouped(pairs) \in SUBSET SUBSET Pair
      /\ \A g \in Grouped(pairs) : g \subseteq pairs
  BY <1>2 DEF Grouped
<1>7. StoresTyped'
  BY <1>1, <1>2, <1>3, <1>5, <1>6 DEF StoresTyped
<1>8. TiersSound'
  BY <1>1, <1>3, <1>5 DEF TiersSound
<1>9. WritesSound'
  <2>1. ASSUME NEW q \in Requests
        PROVE  /\ \A g \in jobs'[q] : g \in jobs[q] \/ g \subseteq pairs
               /\ \A p \in pend'[q] : p \in pend[q] \/ p \in pairs
    BY <1>1, <1>3, <1>6 DEF StoresTyped
  <2>2. QED
    BY <1>1, <1>2, <1>3, <2>1 DEF WritesSound, Recent
<1>10. QED
  BY <1>4, <1>7, <1>8, <1>9
     DEF IInv, TypeOK, RequestsSound, RequestsTyped, StoresTyped, RequestOK, Places

\* The requests of a step that leaves them and the clock alone.
LEMMA RequestsKept ==
    ASSUME IInv, UNCHANGED <<requestVars, now>>
    PROVE  RequestsTyped' /\ \A r \in Requests : RequestOK(r)'
BY IInvParts DEF RequestsTyped, RequestOK, ReadSound, FetchingSound, ServedSound,
                 Recent, requestVars

LEMMA SetManyOK ==
    ASSUME IInv, NEW r \in Requests, SetMany(r)  PROVE IInv'
<1>1. PICK g \in jobs[r] :
        /\ jobs' = [jobs EXCEPT ![r] = @ \ {g}]
        /\ StoreInMemory(g)
        /\ pend' = [pend EXCEPT ![r] = IF HasRedis THEN @ \cup g ELSE @]
  BY DEF SetMany
<1>2. /\ UNCHANGED <<redis, now>> /\ UNCHANGED requestVars
      /\ StoresTyped /\ TypeOK /\ TiersSound /\ WritesSound
  BY IInvParts DEF SetMany, IInv
<1>3. g \in SUBSET Pair /\ \A p \in g : MayStore(p) /\ Recent(p.val)
  BY <1>1, <1>2 DEF StoresTyped, WritesSound
<1>4. RequestsTyped' /\ \A q \in Requests : RequestOK(q)'
  BY <1>2, RequestsKept
<1>5. /\ memory' \in [Keys -> Entry(Int) \cup {None}]
      /\ \A k \in Keys : Own(k, memory'[k])
      /\ MemoryNotRenewed'
  BY <1>1, <1>2, <1>3, StoreFacts
<1>6. StoresTyped'
  BY <1>1, <1>2, <1>3, <1>5 DEF StoresTyped
<1>7. TiersSound'
  BY <1>2, <1>5 DEF TiersSound
<1>8. WritesSound'
  <2>1. ASSUME NEW q \in Requests
        PROVE  /\ jobs'[q] \subseteq jobs[q]
               /\ \A p \in pend'[q] : p \in pend[q] \/ p \in g
    BY <1>1, <1>2 DEF StoresTyped
  <2>2. QED
    BY <1>2, <1>3, <2>1 DEF WritesSound, Recent
<1>9. QED
  BY <1>4, <1>6, <1>7, <1>8
     DEF IInv, TypeOK, RequestsSound, RequestsTyped, StoresTyped, RequestOK, Places

\* redis takes a command, or does not.
LEMMA RedisSetOK ==
    ASSUME IInv, NEW r \in Requests, RedisSet(r) \/ RedisSetFails(r)  PROVE IInv'
<1>1. PICK p \in pend[r] :
        /\ pend' = [pend EXCEPT ![r] = @ \ {p}]
        /\ \/ redis' = redis
           \/ redis' = [redis EXCEPT ![p.key] =
                  [val |-> p.val, exp |-> IF p.ttl = None THEN None ELSE now + p.ttl]]
  BY DEF RedisSet, RedisSetFails
<1>2. /\ UNCHANGED <<memory, now, jobs>> /\ UNCHANGED requestVars
      /\ StoresTyped /\ TiersSound /\ WritesSound
  BY IInvParts DEF RedisSet, RedisSetFails
<1>3. p \in Pair /\ MayStore(p)
  BY <1>1, <1>2 DEF StoresTyped, WritesSound
<1>4. RequestsTyped' /\ \A q \in Requests : RequestOK(q)'
  BY <1>2, RequestsKept
<1>5. PICK e : e = [val |-> p.val, exp |-> IF p.ttl = None THEN None ELSE now + p.ttl]
  OBVIOUS
<1>6. p.key \in Keys /\ e \in Entry(Int \cup {None}) /\ Own(p.key, e)
  <2>1. /\ p.key \in Keys /\ p.val \in Value
        /\ (IF p.ttl = None THEN None ELSE now + p.ttl) \in Int \cup {None}
    BY <1>2, <1>3 DEF Pair, StoresTyped
  <2>2. QED
    BY <1>3, <1>5, <2>1 DEF Entry, Own, MayStore
<1>7. redis' = redis \/ redis' = [redis EXCEPT ![p.key] = e]
  BY <1>1, <1>5
<1>8. /\ redis' \in [Keys -> Entry(Int \cup {None}) \cup {None}]
      /\ \A k \in Keys : Own(k, redis'[k])
  BY <1>2, <1>6, <1>7 DEF StoresTyped, TiersSound
<1>9. \A q \in Requests : pend'[q] \subseteq pend[q]
  BY <1>1, <1>2 DEF StoresTyped
<1>10. StoresTyped'
  <2>1. pend' \in [Requests -> SUBSET Pair]
    BY <1>1, <1>2, <1>9 DEF StoresTyped
  <2>2. QED
    BY <1>2, <1>8, <2>1 DEF StoresTyped
<1>11. TiersSound' /\ WritesSound'
  BY <1>2, <1>8, <1>9 DEF TiersSound, WritesSound, MemoryNotRenewed, Recent
<1>12. QED
  BY <1>4, <1>10, <1>11
     DEF IInv, TypeOK, RequestsSound, RequestsTyped, StoresTyped, RequestOK, Places

-----------------------------------------------------------------------------
\* The process and the clock.

LEMMA RestartOK == ASSUME IInv, Restart  PROVE IInv'
<1>1. RequestsTyped /\ StoresTyped /\ TiersSound /\ WritesSound
  BY IInvParts
<1>2. <<>> \in Seq(Value \cup {None})
  OBVIOUS
<1>3. RequestsTyped'
  BY <1>1, <1>2 DEF Restart, RequestsTyped, Places
<1>4. \A r \in Requests : pc'[r] \in {"new", "failed"} /\ query'[r] = None /\ ~hit'[r]
  BY DEF Restart
<1>5. \A r \in Requests : RequestOK(r)'
  BY <1>4 DEF RequestOK, ReadSound, FetchingSound, ServedSound
<1>6. /\ \A k \in Keys : memory'[k] = None
      /\ memory' \in [Keys -> Entry(Int) \cup {None}] /\ UNCHANGED <<redis, now>>
      /\ \A r \in Requests : jobs'[r] = {} /\ pend'[r] \subseteq pend[r]
      /\ jobs' \in [Requests -> SUBSET SUBSET Pair]
  BY DEF Restart
<1>7. pend' \in [Requests -> SUBSET Pair]
  BY <1>1 DEF Restart, StoresTyped
<1>8. StoresTyped' /\ TiersSound' /\ WritesSound'
  BY <1>1, <1>6, <1>7 DEF StoresTyped, TiersSound, WritesSound, MemoryNotRenewed, Own
<1>9. QED
  BY <1>3, <1>5, <1>8
     DEF IInv, TypeOK, RequestsSound, RequestsTyped, StoresTyped, RequestOK, Places

\* No response waits to be stored when the second ends, and those that wait
\* for the rest of their batch were given within its timeout.
LEMMA TickOK == ASSUME IInv, Tick  PROVE IInv'
<1>1. /\ RequestsTyped /\ StoresTyped /\ TiersSound /\ WritesSound
      /\ \A r \in Requests : RequestOK(r)
  BY IInvParts
<1>2. /\ UNCHANGED requestVars /\ UNCHANGED <<jobs, pend>>
      /\ now' = now + 1
      /\ \A r \in Requests : pc[r] # "served" /\ jobs[r] = {} /\ MayWait(r)
  BY DEF Tick, writerVars
<1>3. \A k \in Keys : /\ memory'[k] = None \/ memory'[k] = memory[k]
                      /\ redis'[k] = None \/ redis'[k] = redis[k]
  BY DEF Tick, Unexpired
<1>4. /\ memory' \in [Keys -> Entry(Int) \cup {None}]
      /\ redis' \in [Keys -> Entry(Int \cup {None}) \cup {None}]
  <2>1. /\ memory' = [k \in Keys |-> memory'[k]] /\ redis' = [k \in Keys |-> redis'[k]]
    BY DEF Tick, Unexpired
  <2>2. QED
    BY <1>1, <1>3, <2>1 DEF StoresTyped
<1>5. StoresTyped'
  <2>1. now' \in Nat
    BY <1>1, <1>2 DEF StoresTyped
  <2>2. QED
    BY <1>1, <1>2, <1>4, <2>1 DEF StoresTyped
<1>6. TiersSound' /\ WritesSound'
  BY <1>1, <1>2, <1>3 DEF TiersSound, WritesSound, MemoryNotRenewed, Own
<1>7. RequestsTyped' /\ \A r \in Requests : RequestOK(r)'
  <2>1. RequestsTyped'
    BY <1>1, <1>2 DEF RequestsTyped, requestVars
  <2>2. ASSUME NEW r \in Requests  PROVE RequestOK(r)'
    <3>1. /\ pc'[r] = pc[r] /\ query'[r] = query[r] /\ found'[r] = found[r]
          /\ answer'[r] = answer[r] /\ hit'[r] = hit[r]
          /\ pc[r] # "served" /\ RequestOK(r)
      BY <1>1, <1>2 DEF requestVars
    <3>2. ASSUME pc[r] = "fetching", NEW i \in DOMAIN query[r].keys, answer[r][i] # None
          PROVE  answer[r][i].key = query[r].keys[i] /\ Recent(answer[r][i])'
      <4>1. /\ answer[r][i].key = query[r].keys[i] /\ Recent(answer[r][i])
            /\ i \in DOMAIN answer[r]
        BY <1>1, <3>2 DEF RequestOK, FetchingSound
      <4>2. now < answer[r][i].at + RequestTimeout
        BY <1>2, <3>2, <4>1 DEF MayWait
      <4>3. PICK n \in Nat : n = answer[r][i].at
        BY <1>1, <3>2, <4>1 DEF RequestsTyped, Value
      <4>4. now \in Nat /\ now' = now + 1
        BY <1>1, <1>2 DEF StoresTyped
      <4>5. n <= now /\ now < n + RequestTimeout
        BY <4>1, <4>2, <4>3 DEF Recent
      <4>6. n <= now + 1 /\ now + 1 <= n + RequestTimeout
        BY <4>4, <4>5, TtlAssumption
      <4>7. QED
        BY <3>1, <4>1, <4>3, <4>4, <4>6 DEF Recent
    <3>3. FetchingSound(r)'
      BY <3>1, <3>2 DEF FetchingSound
    <3>4. ReadSound(r)' /\ ServedSound(r)'
      BY <3>1 DEF RequestOK, ReadSound, ServedSound
    <3>5. QED
      BY <3>1, <3>3, <3>4 DEF RequestOK
  <2>3. QED
    BY <2>1, <2>2
<1>8. QED
  BY <1>5, <1>6, <1>7
     DEF IInv, TypeOK, RequestsSound, RequestsTyped, StoresTyped, RequestOK, Places

-----------------------------------------------------------------------------
\* The theorems.

LEMMA IInvInit == Init => IInv
<1> SUFFICES ASSUME Init  PROVE IInv
  OBVIOUS
<1>1. <<>> \in Seq(Value \cup {None})
  OBVIOUS
<1>2. RequestsTyped
  BY <1>1 DEF Init, RequestsTyped, Places
<1>3. \A r \in Requests : RequestOK(r)
  BY DEF Init, RequestOK, ReadSound, FetchingSound, ServedSound
<1>4. StoresTyped /\ TiersSound /\ WritesSound
  BY DEF Init, StoresTyped, TiersSound, WritesSound, MemoryNotRenewed, Own
<1>5. QED
  BY <1>2, <1>3, <1>4, IInvParts

LEMMA IInvNext == IInv /\ [Next]_vars => IInv'
<1> SUFFICES ASSUME IInv, [Next]_vars  PROVE IInv'
  OBVIOUS
<1>1. ASSUME NEW r \in Requests, RequestStep(r)  PROVE IInv'
  BY <1>1, ArriveOK, RedisReplyOK, GiveUpReadingOK, FetchedOK, FetchFailsOK
     DEF RequestStep
<1>2. ASSUME NEW r \in Requests, WriterStep(r)  PROVE IInv'
  BY <1>2, CacheResponseOK, SetManyOK, RedisSetOK DEF WriterStep
<1>3. CASE UNCHANGED vars
  <2>1. StoresTyped' /\ TiersSound' /\ WritesSound'
    BY <1>3, IInvParts DEF vars, writerVars, StoresTyped, TiersSound, WritesSound,
                           MemoryNotRenewed, Recent
  <2>2. RequestsTyped' /\ \A r \in Requests : RequestOK(r)'
    BY <1>3, RequestsKept DEF vars
  <2>3. QED
    BY <2>1, <2>2 DEF IInv, TypeOK, RequestsSound, RequestsTyped, StoresTyped,
                      RequestOK, Places
<1>4. QED
  BY <1>1, <1>2, <1>3, RestartOK, TickOK DEF Next

\* What is kept along the way of a response, as the other theorems need it.
THEOREM Inductive == Spec => []IInv
  BY IInvInit, IInvNext, PTL DEF Spec

\* The variables keep their types, and what requests wait with or were served
\* has one place per call.
THEOREM TypeCorrect == Spec => []TypeOK
<1>1. IInv => TypeOK
  BY DEF IInv
<1>2. QED
  BY <1>1, Inductive, PTL

\* Whatever memory and redis have of a batch, and whatever other requests
\* change in both while it waits for redis, each of its calls gets a response
\* that was given to a call with the same key.  (mget, merge_cached_responses)
THEOREM HitsAreAligned == Spec => []HitsAligned
<1>1. IInv => HitsAligned
  BY DEF IInv, RequestsSound, ServedSound, HitsAligned, ServedFromCache
<1>2. QED
  BY <1>1, Inductive, PTL

\* Only calls with a ttl that allows it are answered from a cache, also those
\* of a batch, which is looked up whatever the ttls of its calls are.
THEOREM NoCacheIsNotServed == Spec => []NoCacheNotServed
<1>1. IInv => NoCacheNotServed
  BY DEF IInv, RequestsSound, ServedSound, NoCacheNotServed, ServedFromCache
<1>2. QED
  BY <1>1, Inductive, PTL

\* A response leaves memory at most its lifetime after it was first stored,
\* which is at most the timeout of its batch after an upstream gave it: the
\* second write of a batch and reads do not prolong it.
THEOREM MemoryIsNotRenewed == Spec => []MemoryNotRenewed
<1>1. IInv => MemoryNotRenewed
  BY DEF IInv, TiersSound
<1>2. QED
  BY <1>1, Inductive, PTL

-----------------------------------------------------------------------------
\* Where what is cached comes from.

\* The pairs that the responses of r are about to become, and those that wait
\* for their set_many.
New(r) == IF pc[r] = "served" THEN ToCache(r) ELSE {}
Waiting(r) == UNION jobs[r]

\* One step moves pairs only forward: from the responses and the waiting
\* coroutines to memory, from the commands on their way to redis.
Flow ==
    /\ \A k \in Keys :
         \/ memory'[k] = None \/ memory'[k] = memory[k]
         \/ \E r \in Requests : \E p \in New(r) \cup Waiting(r) : Written(p, k)
    /\ \A k \in Keys :
         \/ redis'[k] = None \/ redis'[k] = redis[k]
         \/ \E r \in Requests : \E p \in pend[r] :
              p.key = k /\ redis'[k].val = p.val
    /\ \A r \in Requests :
         /\ \A g \in jobs'[r] : g \in jobs[r] \/ g \subseteq New(r)
         /\ \A p \in pend'[r] : p \in pend[r] \/ p \in New(r) \cup Waiting(r)

LEMMA FlowStill == ASSUME UNCHANGED <<memory, redis, jobs, pend>>  PROVE Flow
BY DEF Flow

LEMMA FlowCacheResponse ==
    ASSUME IInv, NEW r \in Requests, CacheResponse(r)  PROVE Flow
<1>1. /\ New(r) = ToCache(r) /\ UNCHANGED redis
      /\ IF New(r) = {} THEN UNCHANGED memory ELSE StoreInMemory(New(r))
      /\ \/ jobs' = [jobs EXCEPT ![r] = Grouped(New(r))] /\ pend' = pend
         \/ /\ pend' = [pend EXCEPT ![r] = IF HasRedis THEN New(r) ELSE {}]
            /\ jobs' = jobs
  BY DEF CacheResponse, New
<1>2. \A g \in Grouped(New(r)) : g \subseteq New(r)
  BY DEF Grouped
<1>3. StoresTyped
  BY IInvParts
<1>4. \A k \in Keys : \/ memory'[k] = None \/ memory'[k] = memory[k]
                      \/ \E p \in New(r) : Written(p, k)
  BY <1>1, StoreCases
<1>5. \A q \in Requests :
        /\ \A g \in jobs'[q] : g \in jobs[q] \/ g \subseteq New(q)
        /\ \A p \in pend'[q] : p \in pend[q] \/ p \in New(q)
  BY <1>1, <1>2, <1>3 DEF StoresTyped
<1>6. QED
  BY <1>1, <1>4, <1>5 DEF Flow

LEMMA FlowSetMany ==
    ASSUME IInv, NEW r \in Requests, SetMany(r)  PROVE Flow
<1>1. PICK g \in jobs[r] :
        /\ jobs' = [jobs EXCEPT ![r] = @ \ {g}]
        /\ StoreInMemory(g)
        /\ pend' = [pend EXCEPT ![r] = IF HasRedis THEN @ \cup g ELSE @]
  BY DEF SetMany
<1>2. g \subseteq Waiting(r) /\ UNCHANGED redis /\ StoresTyped
  BY IInvParts DEF Waiting, SetMany
<1>3. \A k \in Keys : \/ memory'[k] = None \/ memory'[k] = memory[k]
                      \/ \E p \in g : Written(p, k)
  BY <1>1, StoreCases
<1>4. \A q \in Requests : /\ jobs'[q] \subseteq jobs[q]
                          /\ \A p \in pend'[q] : p \in pend[q] \/ p \in Waiting(q)
  BY <1>1, <1>2 DEF StoresTyped
<1>5. QED
  BY <1>2, <1>3, <1>4 DEF Flow

LEMMA FlowRedisSet ==
    ASSUME IInv, NEW r \in Requests, RedisSet(r) \/ RedisSetFails(r)  PROVE Flow
<1>1. PICK p \in pend[r] :
        /\ pend' = [pend EXCEPT ![r] = @ \ {p}]
        /\ \/ redis' = redis
           \/ redis' = [redis EXCEPT ![p.key] =
                  [val |-> p.val, exp |-> IF p.ttl = None THEN None ELSE now + p.ttl]]
  BY DEF RedisSet, RedisSetFails
<1>2. UNCHANGED <<memory, jobs>> /\ StoresTyped
  BY IInvParts DEF RedisSet, RedisSetFails
<1>3. \A k \in Keys : redis'[k] = redis[k] \/ (p.key = k /\ redis'[k].val = p.val)
  BY <1>1, <1>2 DEF StoresTyped
<1>4. \A q \in Requests : pend'[q] \subseteq pend[q]
  BY <1>1, <1>2 DEF StoresTyped
<1>5. QED
  BY <1>1, <1>2, <1>3, <1>4 DEF Flow

LEMMA FlowNext == ASSUME IInv, [Next]_vars  PROVE Flow
<1>1. ASSUME NEW r \in Requests, RequestStep(r)  PROVE Flow
  BY <1>1, FlowStill
     DEF RequestStep, Arrive, RedisReply, GiveUpReading, Fetched, FetchFails, writerVars
<1>2. ASSUME NEW r \in Requests, WriterStep(r)  PROVE Flow
  BY <1>2, FlowCacheResponse, FlowSetMany, FlowRedisSet DEF WriterStep
<1>3. CASE Restart
  <2>1. /\ \A k \in Keys : memory'[k] = None
        /\ UNCHANGED redis
        /\ \A r \in Requests : jobs'[r] = {} /\ pend'[r] \subseteq pend[r]
    BY <1>3 DEF Restart
  <2>2. QED
    BY <2>1 DEF Flow
<1>4. CASE Tick
  <2>1. /\ \A k \in Keys : /\ memory'[k] = None \/ memory'[k] = memory[k]
                           /\ redis'[k] = None \/ redis'[k] = redis[k]
        /\ UNCHANGED <<jobs, pend>>
    BY <1>4 DEF Tick, Unexpired, writerVars
  <2>2. QED
    BY <2>1 DEF Flow
<1>5. CASE UNCHANGED vars
  BY <1>5, FlowStill DEF vars, writerVars
<1>6. QED
  BY <1>1, <1>2, <1>3, <1>4, <1>5 DEF Next

\* What may be kept under k: a valid response, or what a batch had for it.
Sourced(k, v) == Valid(k, v) \/ InBatch(k)

SourcesKnown ==
    /\ \A k \in Keys : /\ memory[k] # None => Sourced(k, memory[k].val)
                       /\ redis[k] # None => Sourced(k, redis[k].val)
    /\ \A r \in Requests :
         /\ \A g \in jobs[r] : \A p \in g : Sourced(p.key, p.val)
         /\ \A p \in pend[r] : Sourced(p.key, p.val)

\* prepare_response_for_cache judges the response of a single call; in a batch
\* it is not asked.
LEMMA NewSourced ==
    ASSUME IInv, NEW r \in Requests, NEW p \in New(r)
    PROVE  Sourced(p.key, p.val)
<1> DEFINE q == query[r]
<1>1. pc[r] = "served" /\ p \in ToCache(r)
  BY DEF New
<1>2. q \in Queries
  BY <1>1, IInvParts DEF RequestOK, RequestsTyped
<1>3. ~hit[r]
  BY <1>1 DEF ToCache
<1>4. CASE q.batch
  <2>1. p \in BatchPairs(q.keys, answer[r])
    BY <1>1, <1>3, <1>4 DEF ToCache
  <2>2. PICK i \in DOMAIN q.keys : p.key = q.keys[i]
    BY <2>1 DEF BatchPairs
  <2>3. QED
    BY <1>2, <1>4, <2>2 DEF Sourced, InBatch
<1>5. CASE ~q.batch
  <2>1. p \in SinglePairs(q.keys[1], answer[r][1])
    BY <1>1, <1>3, <1>5 DEF ToCache
  <2>2. /\ Valid(q.keys[1], answer[r][1])
        /\ p.key = q.keys[1] /\ p.val = answer[r][1]
    BY <2>1 DEF SinglePairs
  <2>3. QED
    BY <2>2 DEF Sourced
<1>6. QED
  BY <1>4, <1>5

LEMMA SourcesNext ==
    ASSUME IInv, SourcesKnown, [Next]_vars  PROVE SourcesKnown'
<1>1. Flow
  BY FlowNext
<1>2. \A r \in Requests : \A p \in New(r) : Sourced(p.key, p.val)
  BY NewSourced
<1>3. \A r \in Requests : \A p \in Waiting(r) : Sourced(p.key, p.val)
  BY DEF Waiting, SourcesKnown
<1> HIDE DEF New, Waiting, Sourced
<1>4. \A k \in Keys : memory'[k] # None => Sourced(k, memory'[k].val)
  <2> SUFFICES ASSUME NEW k \in Keys, memory'[k] # None
               PROVE  Sourced(k, memory'[k].val)
    OBVIOUS
  <2>1. CASE memory'[k] = memory[k]
    BY <2>1 DEF SourcesKnown
  <2>2. ASSUME NEW r \in Requests, NEW p \in New(r) \cup Waiting(r), Written(p, k)
        PROVE  Sourced(k, memory'[k].val)
    <3>1. p.key = k /\ memory'[k].val = p.val
      BY <2>2 DEF Written
    <3>2. QED
      BY <1>2, <1>3, <3>1
  <2>3. QED
    BY <1>1, <2>1, <2>2 DEF Flow
<1>5. \A k \in Keys : redis'[k] # None => Sourced(k, redis'[k].val)
  <2> SUFFICES ASSUME NEW k \in Keys, redis'[k] # None
               PROVE  Sourced(k, redis'[k].val)
    OBVIOUS
  <2>1. CASE redis'[k] = redis[k]
    BY <2>1 DEF SourcesKnown
  <2>2. ASSUME NEW r \in Requests, NEW p \in pend[r], p.key = k, redis'[k].val = p.val
        PROVE  Sourced(k, redis'[k].val)
    BY <2>2 DEF SourcesKnown
  <2>3. QED
    BY <1>1, <2>1, <2>2 DEF Flow
<1>6. \A r \in Requests :
        /\ \A g \in jobs'[r] : \A p \in g : Sourced(p.key, p.val)
        /\ \A p \in pend'[r] : Sourced(p.key, p.val)
  BY <1>1, <1>2, <1>3 DEF Flow, SourcesKnown
<1>7. QED
  BY <1>4, <1>5, <1>6 DEF SourcesKnown, Sourced, InBatch

\* What prepare_response_for_cache refuses is never in memory or in redis,
\* unless a batch may ask for the same call: cache_batch_jsonrpc_response is
\* the only way in for it.
THEOREM InvalidOnlyOfBatches == Spec => []InvalidFromBatches
<1>1. Init => SourcesKnown
  BY DEF Init, SourcesKnown
<1>2. IInv /\ SourcesKnown /\ [Next]_vars => SourcesKnown'
  BY SourcesNext
<1>3. SourcesKnown => InvalidFromBatches
  BY DEF SourcesKnown, Sourced, InMemory, InRedis, InvalidFromBatches
<1>4. QED
  BY <1>1, <1>2, <1>3, Inductive, PTL DEF Spec

\* The claim of README.md:148 holds of the calls that are never made in a
\* batch: where no batch is accepted no error is cached.
THEOREM SinglesCacheNoErrors ==
    ASSUME \A q \in Queries : ~q.batch
    PROVE  Spec => []ErrorsNotCached
<1>1. InvalidFromBatches => ErrorsNotCached
  BY DEF InBatch, ErrorsNotCached, Valid, InvalidFromBatches
<1>2. QED
  BY <1>1, InvalidOnlyOfBatches, PTL

-----------------------------------------------------------------------------
\* The age of what memory has.

MemoryFresh ==
    \A k \in Keys : memory[k] # None =>
        memory[k].val.at <= now /\ now < memory[k].exp

LEMMA FreshNext ==
    ASSUME IInv, MemoryFresh, [Next]_vars  PROVE MemoryFresh'
<1>1. Flow /\ StoresTyped
  BY FlowNext, IInvParts
<1>2. now \in Nat /\ \A k \in Keys : memory[k] \in Entry(Int) \cup {None}
  BY <1>1 DEF StoresTyped
<1>3. \A r \in Requests : \A p \in New(r) \cup Waiting(r) : p \in Pair /\ p.val.at <= now
  BY ToCacheFacts, IInvParts DEF New, Waiting, WritesSound, StoresTyped, Recent
<1>4. \A p \in Pair : p.val \in Value /\ Lifetime(p.ttl) \in Int
  BY TtlAssumption DEF Pair, Lifetime
<1>5. CASE Tick
  <2>1. now' = now + 1
        /\ \A k \in Keys : memory'[k] # None =>
             /\ memory'[k] = memory[k]
             /\ memory[k].exp = None \/ ~(memory[k].exp <= now + 1)
    BY <1>5 DEF Tick, Unexpired
  <2>2. \A e \in Entry(Int) : e.exp \in Int /\ e.val.at \in Nat /\ e.exp # None
    BY TtlAssumption DEF Entry, Value
  <2>3. ASSUME NEW k \in Keys, memory'[k] # None
        PROVE  memory'[k].val.at <= now' /\ now' < memory'[k].exp
    <3>1. /\ memory[k] \in Entry(Int) /\ memory'[k] = memory[k]
          /\ memory[k].val.at <= now /\ ~(memory[k].exp <= now + 1)
      BY <1>2, <2>1, <2>2, <2>3 DEF MemoryFresh
    <3>2. memory[k].exp \in Int /\ memory[k].val.at \in Nat
      BY <2>2, <3>1
    <3>3. QED
      BY <1>2, <2>1, <3>1, <3>2
  <2>4. QED
    BY <2>3 DEF MemoryFresh
<1>6. CASE now' = now
  <2>1. ASSUME NEW k \in Keys, memory'[k] # None
        PROVE  memory'[k].val.at <= now /\ now < memory'[k].exp
    <3>1. CASE memory'[k] = memory[k]
      BY <2>1, <3>1 DEF MemoryFresh
    <3>2. ASSUME NEW r \in Requests, NEW p \in New(r) \cup Waiting(r), Written(p, k)
          PROVE  memory'[k].val.at <= now /\ now < memory'[k].exp
      <4>1. /\ memory'[k].val = p.val /\ memory'[k].exp = now + Lifetime(p.ttl)
            /\ ~(Lifetime(p.ttl) <= 0)
        BY <3>2 DEF Written
      <4>2. Lifetime(p.ttl) \in Int /\ p.val.at <= now
        BY <1>3, <1>4
      <4>3. QED
        BY <1>2, <4>1, <4>2
    <3>3. QED
      BY <1>1, <2>1, <3>1, <3>2 DEF Flow
  <2>2. QED
    BY <1>6, <2>1 DEF MemoryFresh
<1>7. Tick \/ now' = now
  BY DEF Next, RequestStep, WriterStep, Arrive, RedisReply, GiveUpReading, Fetched,
         FetchFails, CacheResponse, SetMany, RedisSet, RedisSetFails, Restart, vars
<1>8. QED
  BY <1>5, <1>6, <1>7

LifetimeOf(k) == Lifetime(IF Ttl[k] = IfIrreversible THEN DefaultTTL ELSE Ttl[k])

\* What memory answers with is younger than the lifetime its call was given
\* and the timeout of a batch together.
MemoryYoung ==
    \A k \in Keys : InMemory(k) # None =>
        /\ InMemory(k).at <= now
        /\ now - InMemory(k).at < LifetimeOf(k) + RequestTimeout
        /\ LifetimeOf(k) <= MaxTTL

\* The age of an answer from memory, counted from the moment the upstream gave
\* it, is below the ttl of its call (below MaxTTL in any case) and the time a
\* batch may wait for its last response.  (sets, set_manys, expire_time)
THEOREM MemoryIsYoung == Spec => []MemoryYoung
<1>1. Init => MemoryFresh
  BY DEF Init, MemoryFresh
<1>2. IInv /\ MemoryFresh /\ [Next]_vars => MemoryFresh'
  BY FreshNext
<1>3. IInv /\ MemoryFresh => MemoryYoung
  <2> SUFFICES ASSUME IInv, MemoryFresh, NEW k \in Keys, InMemory(k) # None
               PROVE  /\ InMemory(k).at <= now
                      /\ now - InMemory(k).at < LifetimeOf(k) + RequestTimeout
                      /\ LifetimeOf(k) <= MaxTTL
    BY DEF MemoryYoung
  <2>1. memory[k] # None /\ InMemory(k) = memory[k].val
    BY DEF InMemory
  <2>2. StoresTyped /\ MemoryNotRenewed
    BY IInvParts DEF TiersSound
  <2>3. memory[k] \in Entry(Int) /\ now \in Nat
    BY <2>1, <2>2 DEF StoresTyped
  <2>4. memory[k].exp \in Int /\ memory[k].val.at \in Nat
    BY <2>3 DEF Entry, Value
  <2>5. LifetimeOf(k) \in Int /\ LifetimeOf(k) <= MaxTTL
    BY TtlAssumption DEF LifetimeOf, Lifetime
  <2>6. /\ memory[k].exp <= memory[k].val.at + RequestTimeout + LifetimeOf(k)
        /\ memory[k].val.at <= now /\ now < memory[k].exp
    BY <2>1, <2>2 DEF MemoryNotRenewed, MemoryFresh, LifetimeOf
  <2>7. QED
    BY <2>1, <2>3, <2>4, <2>5, <2>6, TtlAssumption
<1>4. QED
  BY <1>1, <1>2, <1>3, Inductive, PTL DEF Spec
=============================================================================
