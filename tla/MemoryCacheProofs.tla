-------------------------- MODULE MemoryCacheProofs -------------------------
(***************************************************************************)
(* Theorems about MemoryCache for any keys, values, sizes and lifetimes.   *)
(***************************************************************************)
EXTENDS MemoryCache, FiniteSetTheorems, SequenceTheorems, TLAPS

Dict == [Keys -> Entry \cup {None}]

\* The keys of a dict took different places in its order, all before n.
Ordered(d, n) ==
    \A j, k \in Stored(d) : d[j].seq < n /\ (d[j].seq = d[k].seq => j = k)

-----------------------------------------------------------------------------
\* Facts about dicts.

LEMMA WithoutFacts ==
    ASSUME NEW d \in Dict, NEW n \in Nat, Ordered(d, n), NEW S
    PROVE  /\ Without(d, S) \in Dict
           /\ Ordered(Without(d, S), n)
           /\ Stored(Without(d, S)) = Stored(d) \ S
           /\ \A k \in Keys \ S : Without(d, S)[k] = d[k]
           /\ \A k \in Keys \cap S : Without(d, S)[k] = None
BY DEF Without, Dict, Stored, Ordered

LEMMA LifetimeFacts ==
    ASSUME NEW ttl \in TTLs
    PROVE  Lifetime(ttl) \in Int /\ Lifetime(ttl) <= MaxTTL
BY TTLsAssumption, SizesAssumption DEF Lifetime

\* The assignment of sets, on a dict that prune left.
LEMMA StoreFacts ==
    ASSUME NEW d \in Dict, inserts \in Nat, now \in Nat, Ordered(d, inserts),
           NEW p \in Pair, Store(d, p)
    PROVE  /\ cache' \in Dict
           /\ inserts' \in Nat
           /\ Ordered(cache', inserts')
           /\ Stored(cache') = Stored(d) \cup (IF p.val = Empty THEN {} ELSE {p.key})
           /\ \A k \in Keys \ {p.key} : cache'[k] = d[k]
           /\ p.val = Empty => cache' = d
           /\ p.val # Empty => /\ cache'[p.key].val = p.val
                               /\ cache'[p.key].exp = now + Lifetime(p.ttl)
<1>1. CASE p.val = Empty
  BY <1>1 DEF Store, Dict, Stored
<1>2. CASE p.val # Empty
  <2>1. p.key \in Keys /\ p.val \in Values \ {Empty} /\ p.ttl \in TTLs
    BY <1>2 DEF Pair
  <2> DEFINE q == IF d[p.key] = None THEN inserts ELSE d[p.key].seq
             e == [val |-> p.val, exp |-> now + Lifetime(p.ttl), seq |-> q]
  <2>2. /\ cache' = [d EXCEPT ![p.key] = e]
        /\ inserts' = IF d[p.key] = None THEN inserts + 1 ELSE inserts
    BY <1>2 DEF Store
  <2>3. q \in Nat
    BY <2>1 DEF Dict, Entry
  <2>4. e \in Entry
    BY <2>1, <2>3, LifetimeFacts DEF Entry
  <2>5. e # None
    BY <2>4, NoneAssumption
  <2>6. q < inserts' /\ inserts' \in Nat /\ inserts' >= inserts
    <3>1. CASE d[p.key] = None
      BY <2>2, <3>1
    <3>2. CASE d[p.key] # None
      BY <2>1, <2>2, <3>2 DEF Ordered, Stored
    <3>3. QED
      BY <3>1, <3>2
  <2>7. e.seq = q /\ e.val = p.val /\ e.exp = now + Lifetime(p.ttl)
    OBVIOUS
  <2> HIDE DEF e
  <2>8. /\ cache' \in Dict
        /\ Stored(cache') = Stored(d) \cup {p.key}
        /\ \A k \in Keys \ {p.key} : cache'[k] = d[k]
        /\ cache'[p.key] = e
    BY <2>1, <2>2, <2>4, <2>5 DEF Dict, Stored
  <2>9. \A k \in Stored(d) \ {p.key} : d[k].seq # q /\ d[k].seq < inserts'
    BY <2>1, <2>2, <2>6 DEF Ordered, Stored, Dict, Entry
  <2>10. Ordered(cache', inserts')
    <3> SUFFICES ASSUME NEW j \in Stored(cache'), NEW k \in Stored(cache')
                 PROVE  /\ cache'[j].seq < inserts'
                        /\ cache'[j].seq = cache'[k].seq => j = k
      BY DEF Ordered
    <3>1. CASE j = p.key /\ k = p.key
      BY <2>6, <2>7, <2>8, <3>1
    <3>2. CASE j = p.key /\ k # p.key
      <4>1. k \in Stored(d) /\ k \in Keys
        BY <2>8, <3>2 DEF Stored
      <4>2. QED
        BY <2>6, <2>7, <2>8, <2>9, <3>2, <4>1
    <3>3. CASE j # p.key /\ k = p.key
      <4>1. j \in Stored(d) /\ j \in Keys
        BY <2>8, <3>3 DEF Stored
      <4>2. QED
        BY <2>7, <2>8, <2>9, <3>3, <4>1
    <3>4. CASE j # p.key /\ k # p.key
      <4>1. j \in Stored(d) /\ k \in Stored(d) /\ j \in Keys /\ k \in Keys
        BY <2>8, <3>4 DEF Stored
      <4>2. QED
        BY <2>8, <2>9, <3>4, <4>1 DEF Ordered
    <3>5. QED
      BY <3>1, <3>2, <3>3, <3>4
  <2>11. QED
    BY <1>2, <2>6, <2>7, <2>8, <2>10
<1>3. QED
  BY <1>1, <1>2

-----------------------------------------------------------------------------
\* The inductive invariant: types, the order, and a size that prune respects.
IInv == TypeOK /\ IsFiniteSet(Stored(cache)) /\ SizeBounded

LEMMA InitIInv == Init => IInv
<1> SUFFICES ASSUME Init PROVE IInv
  OBVIOUS
<1>1. Stored(cache) = {}
  BY DEF Init, Stored
<1>2. TypeOK
  BY <1>1, EmptySeq DEF Init, TypeOK, NoAnswer
<1>3. IsFiniteSet(Stored(cache)) /\ Cardinality(Stored(cache)) = 0
  BY <1>1, FS_EmptySet
<1>4. QED
  BY <1>2, <1>3, SizesAssumption DEF IInv, SizeBounded

\* What a subset of a finite set of keys is.
LEMMA FewerKeys ==
    ASSUME NEW S, IsFiniteSet(S), NEW T \in SUBSET S
    PROVE  IsFiniteSet(T) /\ Cardinality(T) <= Cardinality(S)
BY FS_Subset

\* The four operations that only delete, or do not touch the dict.
LEMMA MGetsKeepsIInv ==
    ASSUME IInv, NEW S \in SUBSET Keys, MGets(S)
    PROVE  IInv'
<1> DEFINE D == {k \in S \cap Stored(cache) : Due(k)}
<1>1. cache \in Dict /\ Ordered(cache, inserts) /\ inserts \in Nat
  BY DEF IInv, TypeOK, Dict, Ordered
<1>2. cache' = Without(cache, D)
  BY DEF MGets
<1>3. /\ cache' \in Dict
      /\ Ordered(cache', inserts)
      /\ Stored(cache') = Stored(cache) \ D
  BY <1>1, <1>2, WithoutFacts
<1>4. DOMAIN answer' = S /\ \A k \in S : answer'[k] \in Values \cup {None}
  BY <1>1 DEF MGets, Dict, Stored, Entry
<1>5. TypeOK'
  BY <1>3, <1>4 DEF MGets, IInv, TypeOK, Dict, Ordered
<1>6. IsFiniteSet(Stored(cache')) /\ Cardinality(Stored(cache')) <= Cardinality(Stored(cache))
  BY <1>3, FewerKeys DEF IInv
<1>7. Cardinality(Stored(cache)) \in Nat /\ Cardinality(Stored(cache')) \in Nat
  BY <1>6, FS_CardinalityType DEF IInv
<1>8. QED
  BY <1>5, <1>6, <1>7, SizesAssumption DEF MGets, IInv, SizeBounded

LEMMA DeletesKeepsIInv ==
    ASSUME IInv, NEW k \in Keys, Deletes(k)
    PROVE  IInv'
<1>1. cache \in Dict /\ Ordered(cache, inserts) /\ inserts \in Nat
  BY DEF IInv, TypeOK, Dict, Ordered
<1>2. cache' = Without(cache, {k})
  BY DEF Deletes
<1>3. /\ cache' \in Dict
      /\ Ordered(cache', inserts)
      /\ Stored(cache') = Stored(cache) \ {k}
  BY <1>1, <1>2, WithoutFacts
<1>5. TypeOK'
  BY <1>3 DEF Deletes, IInv, TypeOK, Dict, Ordered, NoAnswer
<1>6. IsFiniteSet(Stored(cache')) /\ Cardinality(Stored(cache')) <= Cardinality(Stored(cache))
  BY <1>3, FewerKeys DEF IInv
<1>7. Cardinality(Stored(cache)) \in Nat /\ Cardinality(Stored(cache')) \in Nat
  BY <1>6, FS_CardinalityType DEF IInv
<1>8. QED
  BY <1>5, <1>6, <1>7, SizesAssumption DEF Deletes, IInv, SizeBounded

LEMMA ClearsKeepsIInv ==
    ASSUME IInv, Clears
    PROVE  IInv'
<1>1. Stored(cache') = {}
  BY DEF Clears, Stored
<1>2. TypeOK'
  BY <1>1 DEF Clears, IInv, TypeOK, Viewed, NoAnswer, Stored
<1>3. IsFiniteSet(Stored(cache')) /\ Cardinality(Stored(cache')) = 0
  BY <1>1, FS_EmptySet
<1>4. QED
  BY <1>2, <1>3, SizesAssumption DEF IInv, SizeBounded

LEMMA SetManysKeepsIInv ==
    ASSUME IInv, NEW b \in Batches, SetManys(b)
    PROVE  IInv'
<1>1. b \in Seq(Pair)
  BY BatchesAssumption
<1>2. TypeOK'
  BY <1>1 DEF SetManys, IInv, TypeOK, NoAnswer, Stored
<1>3. QED
  BY <1>2 DEF SetManys, IInv, SizeBounded, Stored

LEMMA TickKeepsIInv ==
    ASSUME IInv, Tick
    PROVE  IInv'
<1>1. TypeOK'
  BY DEF Tick, IInv, TypeOK, NoAnswer, Stored
<1>2. QED
  BY <1>1 DEF Tick, IInv, SizeBounded, Stored

-----------------------------------------------------------------------------
\* What one `sets` does to the dict.

\* prune leaves a dict with room for one more entry as long as its view is
\* the dict's.
LEMMA SetsStep ==
    ASSUME IInv, SetsNext
    PROVE  \E d \in Dict :
             /\ Ordered(d, inserts)
             /\ Stored(d) \subseteq Stored(cache)
             /\ \A k \in Stored(d) : d[k] = cache[k]
             /\ detached = None => Cardinality(Stored(d)) < MaxSize
             /\ Store(d, Head(todo))
<1> DEFINE d == Without(cache, Overdue)
<1>1. cache \in Dict /\ Ordered(cache, inserts) /\ inserts \in Nat
  BY DEF IInv, TypeOK, Dict, Ordered
<1>2. /\ d \in Dict
      /\ Ordered(d, inserts)
      /\ Stored(d) = Stored(cache) \ Overdue
      /\ \A k \in Keys \ Overdue : d[k] = cache[k]
  BY <1>1, WithoutFacts
<1>3. IsFiniteSet(Stored(d)) /\ Cardinality(Stored(d)) <= Cardinality(Stored(cache))
  BY <1>2, FewerKeys DEF IInv
<1>4. Cardinality(Stored(d)) \in Nat /\ Cardinality(Stored(cache)) \in Nat
  BY <1>3, FS_CardinalityType DEF IInv
<1>5. \/ ~IsFull(d) /\ Store(d, Head(todo))
      \/ IsFull(d) /\ \E k \in Oldest(d) : Store(Without(d, {k}), Head(todo))
  BY DEF SetsNext
<1> HIDE DEF d
<1>6. \A k \in Stored(d) : d[k] = cache[k]
  BY <1>2 DEF Stored
<1>7. CASE ~IsFull(d) /\ Store(d, Head(todo))
  <2>1. detached = None => Cardinality(Stored(d)) < MaxSize
    BY <1>4, <1>7, SizesAssumption DEF IsFull, Viewed
  <2>2. QED
    BY <1>2, <1>6, <1>7, <2>1
<1>8. CASE IsFull(d) /\ \E k \in Oldest(d) : Store(Without(d, {k}), Head(todo))
  <2>1. PICK k \in Oldest(d) : Store(Without(d, {k}), Head(todo))
    BY <1>8
  <2> DEFINE e == Without(d, {k})
  <2>2. k \in Stored(d)
    BY DEF Oldest
  <2>3. /\ e \in Dict
        /\ Ordered(e, inserts)
        /\ Stored(e) = Stored(d) \ {k}
        /\ \A j \in Keys \ {k} : e[j] = d[j]
    BY <1>1, <1>2, WithoutFacts
  <2> HIDE DEF e
  <2>4. Cardinality(Stored(e)) = Cardinality(Stored(d)) - 1
    BY <1>3, <2>2, <2>3, FS_RemoveElement
  <2>5. detached = None => Cardinality(Stored(e)) < MaxSize
    BY <1>3, <1>4, <2>4, SizesAssumption DEF IInv, SizeBounded
  <2>6. \A j \in Stored(e) : e[j] = cache[j]
    BY <1>6, <2>3 DEF Stored
  <2>7. Stored(e) \subseteq Stored(cache)
    BY <1>2, <2>3
  <2>8. Store(e, Head(todo))
    BY <2>1 DEF e
  <2>9. QED
    BY <2>3, <2>5, <2>6, <2>7, <2>8
<1>9. QED
  BY <1>5, <1>7, <1>8

LEMMA SetsNextKeepsIInv ==
    ASSUME IInv, SetsNext
    PROVE  IInv'
<1>1. PICK d \in Dict : /\ Ordered(d, inserts)
                        /\ Stored(d) \subseteq Stored(cache)
                        /\ detached = None => Cardinality(Stored(d)) < MaxSize
                        /\ Store(d, Head(todo))
  BY SetsStep
<1>2. inserts \in Nat /\ now \in Nat /\ todo \in Seq(Pair) /\ todo # <<>>
  BY DEF IInv, TypeOK, SetsNext
<1>3. Head(todo) \in Pair /\ Tail(todo) \in Seq(Pair)
  BY <1>2, HeadTailProperties
<1>4. PICK p \in Pair : p = Head(todo)
  BY <1>3
<1>5. /\ cache' \in Dict
      /\ inserts' \in Nat
      /\ Ordered(cache', inserts')
      /\ Stored(cache') = Stored(d) \cup (IF p.val = Empty THEN {} ELSE {p.key})
  BY <1>1, <1>2, <1>4, StoreFacts
<1>6. TypeOK'
  BY <1>3, <1>5 DEF SetsNext, IInv, TypeOK, Dict, Ordered
<1>7. IsFiniteSet(Stored(d))
  BY <1>1, FewerKeys DEF IInv
<1>8. Cardinality(Stored(d)) \in Nat
  BY <1>7, FS_CardinalityType
<1>9. CASE p.val = Empty
  <2>1. Stored(cache') = Stored(d)
    BY <1>5, <1>9
  <2>2. QED
    BY <1>1, <1>6, <1>7, <1>8, <2>1, SizesAssumption DEF IInv, SizeBounded, SetsNext
<1>10. CASE p.val # Empty
  <2>1. Stored(cache') = Stored(d) \cup {p.key}
    BY <1>5, <1>10
  <2>2. /\ IsFiniteSet(Stored(cache'))
        /\ \/ Cardinality(Stored(cache')) = Cardinality(Stored(d))
           \/ Cardinality(Stored(cache')) = Cardinality(Stored(d)) + 1
    BY <1>7, <2>1, FS_AddElement
  <2>3. QED
    BY <1>1, <1>6, <1>8, <2>2, SizesAssumption DEF IInv, SizeBounded, SetsNext
<1>11. QED
  BY <1>9, <1>10

LEMMA SetsRaisesKeepsIInv ==
    ASSUME IInv, SetsRaises
    PROVE  IInv'
<1>1. cache \in Dict /\ Ordered(cache, inserts) /\ inserts \in Nat
  BY DEF IInv, TypeOK, Dict, Ordered
<1>2. PICK S : cache' = Without(cache, S)
  BY DEF SetsRaises
<1>3. /\ cache' \in Dict
      /\ Ordered(cache', inserts)
      /\ Stored(cache') = Stored(cache) \ S
  BY <1>1, <1>2, WithoutFacts
<1>4. TypeOK'
  BY <1>3, EmptySeq DEF SetsRaises, IInv, TypeOK, Dict, Ordered
<1>5. IsFiniteSet(Stored(cache')) /\ Cardinality(Stored(cache')) <= Cardinality(Stored(cache))
  BY <1>3, FewerKeys DEF IInv
<1>6. Cardinality(Stored(cache)) \in Nat /\ Cardinality(Stored(cache')) \in Nat
  BY <1>5, FS_CardinalityType DEF IInv
<1>7. QED
  BY <1>4, <1>5, <1>6, SizesAssumption DEF SetsRaises, IInv, SizeBounded

LEMMA NextKeepsIInv == IInv /\ [Next]_vars => IInv'
<1> SUFFICES ASSUME IInv, [Next]_vars PROVE IInv'
  OBVIOUS
<1>1. CASE \E S \in SUBSET Keys : MGets(S)
  BY <1>1, MGetsKeepsIInv
<1>2. CASE \E b \in Batches : SetManys(b)
  BY <1>2, SetManysKeepsIInv
<1>3. CASE SetsNext
  BY <1>3, SetsNextKeepsIInv
<1>4. CASE SetsRaises
  BY <1>4, SetsRaisesKeepsIInv
<1>5. CASE \E k \in Keys : Deletes(k)
  BY <1>5, DeletesKeepsIInv
<1>6. CASE Clears
  BY <1>6, ClearsKeepsIInv
<1>7. CASE Tick
  BY <1>7, TickKeepsIInv
<1>8. CASE UNCHANGED vars
  BY <1>8 DEF vars, IInv, TypeOK, SizeBounded, Stored
<1>9. QED
  BY <1>1, <1>2, <1>3, <1>4, <1>5, <1>6, <1>7, <1>8 DEF Next

LEMMA AlwaysIInv == Spec => []IInv
<1>1. QED
  BY InitIInv, NextKeepsIInv, PTL DEF Spec

-----------------------------------------------------------------------------
\* Whatever callers store, for however long, every variable keeps its type
\* and no two entries of the dict share a place in its order.
THEOREM TypeCorrect == Spec => []TypeOK
<1>1. IInv => TypeOK
  BY DEF IInv
<1>2. QED
  BY <1>1, AlwaysIInv, PTL

\* prune makes room before each insertion: without clears the cache never
\* holds more than _max_size entries, whatever the lifetimes and the batches.
THEOREM SizeIsBounded == Spec => []SizeBounded
<1>1. IInv => SizeBounded
  BY DEF IInv
<1>2. QED
  BY <1>1, AlwaysIInv, PTL

-----------------------------------------------------------------------------
\* The dict as a TtlMap: what the refinement mapping of ImplementsTtlMap gives.
Mapped == [k \in Keys |-> IF cache[k] = None THEN None
                          ELSE [val |-> cache[k].val, exp |-> cache[k].exp]]

\* No mapped entry is None.
LEMMA MappedFacts ==
    ASSUME cache \in Dict
    PROVE  /\ \A k \in Stored(cache) : /\ Mapped[k].val = cache[k].val
                                       /\ Mapped[k].exp = cache[k].exp
                                       /\ Mapped[k] # None
           /\ \A k \in Keys \ Stored(cache) : Mapped[k] = None
<1> SUFFICES ASSUME NEW k \in Stored(cache)
             PROVE  /\ Mapped[k].val = cache[k].val
                    /\ Mapped[k].exp = cache[k].exp
                    /\ Mapped[k] # None
  BY DEF Mapped, Stored
<1>1. Mapped[k] = [val |-> cache[k].val, exp |-> cache[k].exp]
  BY DEF Mapped, Stored
<1>2. cache[k].val \in Values \ {Empty} /\ cache[k].exp \in Int
  BY DEF Dict, Stored, Entry
<1>3. QED
  BY <1>1, <1>2, NoneAssumption

LEMMA MappedAfter ==
    ASSUME cache' \in Dict
    PROVE  \A k \in Stored(cache)' :
             /\ Mapped'[k] = [val |-> cache'[k].val, exp |-> cache'[k].exp]
             /\ Mapped'[k] # None
<1> SUFFICES ASSUME NEW k \in Stored(cache)'
             PROVE  /\ Mapped'[k] = [val |-> cache'[k].val, exp |-> cache'[k].exp]
                    /\ Mapped'[k] # None
  OBVIOUS
<1>1. Mapped'[k] = [val |-> cache'[k].val, exp |-> cache'[k].exp]
  BY DEF Mapped, Stored
<1>2. cache'[k].val \in Values \ {Empty} /\ cache'[k].exp \in Int
  BY DEF Dict, Stored, Entry
<1>3. QED
  BY <1>1, <1>2, NoneAssumption

LEMMA AbstractInit == Init => Promise!Init
BY DEF Init, Promise!Init, NoAnswer, Promise!NoAnswer

\* A step that only deletes keys maps to Forget of the keys absent after it.
LEMMA DeletingForgets ==
    ASSUME cache \in Dict, NEW S, cache' = Without(cache, S),
           answer' = NoAnswer, now' = now
    PROVE  Promise!Next
<1> DEFINE F == Keys \cap S
<1>1. Mapped' = [j \in Keys |-> IF j \in F THEN None ELSE Mapped[j]]
  BY DEF Mapped, Without
<1>2. Promise!Forget(F)
  BY <1>1 DEF Promise!Forget, Mapped, NoAnswer, Promise!NoAnswer
<1>3. QED
  BY <1>2 DEF Promise!Next

LEMMA MGetsLooksUp ==
    ASSUME IInv, NEW S \in SUBSET Keys, MGets(S)
    PROVE  Promise!Next
<1> DEFINE D == {k \in S \cap Stored(cache) : Due(k)}
<1>1. cache \in Dict /\ now \in Nat
  BY DEF IInv, TypeOK, Dict
<1>2. /\ \A k \in Stored(cache) : /\ Mapped[k].val = cache[k].val
                                  /\ Mapped[k].exp = cache[k].exp
                                  /\ Mapped[k] # None
      /\ \A k \in Keys \ Stored(cache) : Mapped[k] = None
  BY <1>1, MappedFacts
<1>3. \A k \in Stored(cache) : cache[k].exp \in Int
  BY <1>1 DEF Dict, Stored, Entry
<1>4. \A k \in Keys : Promise!Live(k) <=> k \in Stored(cache) /\ ~Due(k)
  <2> SUFFICES ASSUME NEW k \in Keys
               PROVE  Promise!Live(k) <=> k \in Stored(cache) /\ ~Due(k)
    OBVIOUS
  <2>1. Promise!Live(k) <=> Mapped[k] # None /\ Mapped[k].exp > now
    BY DEF Promise!Live, Mapped
  <2>2. CASE k \in Stored(cache)
    BY <1>1, <1>2, <1>3, <2>1, <2>2 DEF Due
  <2>3. CASE k \notin Stored(cache)
    BY <1>2, <2>1, <2>3
  <2>4. QED
    BY <2>2, <2>3
<1>5. D \in SUBSET {k \in S : ~Promise!Live(k)}
  BY <1>4
<1>6. Mapped' = [j \in Keys |-> IF j \in D THEN None ELSE Mapped[j]]
  BY DEF MGets, Mapped, Without
<1>7. \A k \in Stored(cache) : Mapped[k].val = cache[k].val
  BY <1>2
<1>8. answer' = [k \in S |-> IF Promise!Live(k) THEN Mapped[k].val ELSE None]
  BY <1>4, <1>7 DEF MGets
<1>9. now' = now
  BY DEF MGets
<1>10. Promise!Lookup(S)
  BY <1>5, <1>6, <1>8, <1>9 DEF Promise!Lookup, Mapped
<1>11. QED
  BY <1>10 DEF Promise!Next

\* Storing a pair maps to Put, with everything forgotten that prune deleted.
LEMMA SetsPuts ==
    ASSUME IInv, IInv', SetsNext
    PROVE  Promise!Next
<1>1. PICK d \in Dict : /\ Ordered(d, inserts)
                        /\ Stored(d) \subseteq Stored(cache)
                        /\ \A k \in Stored(d) : d[k] = cache[k]
                        /\ Store(d, Head(todo))
  BY SetsStep
<1>2. /\ inserts \in Nat /\ now \in Nat /\ todo \in Seq(Pair) /\ todo # <<>>
      /\ cache \in Dict /\ cache' \in Dict
      /\ answer = NoAnswer
  BY DEF IInv, TypeOK, SetsNext, Dict
<1>3. now' = now /\ answer' = NoAnswer
  BY <1>2 DEF SetsNext
<1>4. PICK p \in Pair : p = Head(todo)
  BY <1>2, HeadTailProperties
<1>5. /\ Stored(cache') = Stored(d) \cup (IF p.val = Empty THEN {} ELSE {p.key})
      /\ \A k \in Keys \ {p.key} : cache'[k] = d[k]
      /\ p.val = Empty => cache' = d
      /\ p.val # Empty => /\ cache'[p.key].val = p.val
                          /\ cache'[p.key].exp = now + Lifetime(p.ttl)
  BY <1>1, <1>2, <1>4, StoreFacts
<1> DEFINE F == Keys \ Stored(d)
<1>6. \A k \in Keys \ F : d[k] = cache[k]
  BY <1>1
<1>7. \A k \in Keys \cap F : d[k] = None
  BY DEF Stored
<1>8. CASE p.val = Empty
  <2>1. cache' = Without(cache, F)
    BY <1>1, <1>5, <1>6, <1>7, <1>8 DEF Without, Dict
  <2>2. QED
    BY <1>2, <1>3, <2>1, DeletingForgets
<1>9. CASE p.val # Empty
  <2>1. p.key \in Keys /\ p.val \in Values /\ p.ttl \in TTLs
    BY DEF Pair
  <2>2. p.key \in Stored(cache)'
    BY <1>5, <1>9
  <2>3. /\ Mapped'[p.key] = [val |-> cache'[p.key].val, exp |-> cache'[p.key].exp]
        /\ Mapped'[p.key] # None
    BY <1>2, <2>2, MappedAfter
  <2>4. /\ Mapped'[p.key] = [val |-> p.val, exp |-> now + Lifetime(p.ttl)]
        /\ Mapped'[p.key].exp = now + Lifetime(p.ttl)
    BY <1>5, <1>9, <2>3
  <2>5. now + Lifetime(p.ttl) <= now + MaxTTL
    BY <1>2, <2>1, LifetimeFacts, SizesAssumption
  <2>6. \A j \in Keys \ {p.key} : Mapped'[j] = IF j \in F THEN None ELSE Mapped[j]
    BY <1>5, <1>6, <1>7 DEF Mapped
  <2>7. Mapped' = [j \in Keys |->
                     IF j = p.key THEN [val |-> p.val, exp |-> Mapped'[p.key].exp]
                     ELSE IF j \in F THEN None ELSE Mapped[j]]
    <3>1. Mapped' = [j \in Keys |-> Mapped'[j]]
      BY DEF Mapped
    <3>2. QED
      BY <2>4, <2>6, <3>1
  <2>8. Promise!Put(p.key, p.val, Mapped'[p.key].exp, F)
    BY <1>3, <2>4, <2>5, <2>7 DEF Promise!Put, Mapped, NoAnswer, Promise!NoAnswer
  <2>9. QED
    BY <2>1, <2>3, <2>8 DEF Promise!Next, Mapped
<1>10. QED
  BY <1>8, <1>9

LEMMA AbstractStep == IInv /\ IInv' /\ [Next]_vars => [Promise!Next]_Promise!vars
<1> SUFFICES ASSUME IInv, IInv', [Next]_vars PROVE [Promise!Next]_Promise!vars
  OBVIOUS
<1>0. cache \in Dict
  BY DEF IInv, TypeOK, Dict
<1>1. CASE \E S \in SUBSET Keys : MGets(S)
  BY <1>1, MGetsLooksUp
<1>2. CASE \E b \in Batches : SetManys(b)
  <2>1. cache' = Without(cache, {}) /\ answer' = NoAnswer /\ now' = now
    BY <1>0, <1>2 DEF SetManys, Without, Dict
  <2>2. QED
    BY <1>0, <2>1, DeletingForgets
<1>3. CASE SetsNext
  BY <1>3, SetsPuts
<1>4. CASE SetsRaises
  <2>1. PICK S : cache' = Without(cache, S)
    BY <1>4 DEF SetsRaises
  <2>2. answer' = NoAnswer /\ now' = now
    BY <1>4 DEF SetsRaises, IInv, TypeOK
  <2>3. QED
    BY <1>0, <2>1, <2>2, DeletingForgets
<1>5. CASE \E k \in Keys : Deletes(k)
  <2>1. PICK k \in Keys : Deletes(k)
    BY <1>5
  <2>2. cache' = Without(cache, {k}) /\ answer' = NoAnswer /\ now' = now
    BY <2>1 DEF Deletes
  <2>3. QED
    BY <1>0, <2>2, DeletingForgets
<1>6. CASE Clears
  <2>1. cache' = Without(cache, Keys) /\ answer' = NoAnswer /\ now' = now
    BY <1>6 DEF Clears, Without
  <2>2. QED
    BY <1>0, <2>1, DeletingForgets
<1>7. CASE Tick
  <2>1. Promise!Tick
    BY <1>7 DEF Tick, Promise!Tick, NoAnswer, Promise!NoAnswer
  <2>2. QED
    BY <2>1 DEF Promise!Next
<1>8. CASE UNCHANGED vars
  BY <1>8 DEF vars, Promise!vars
<1>9. QED
  BY <1>1, <1>2, <1>3, <1>4, <1>5, <1>6, <1>7, <1>8 DEF Next

\* The cache in memory keeps the promise of TtlMap: what a lookup returns was
\* put last under its key at most _max_ttl ago and has not expired.
THEOREM MemoryCacheImplementsTtlMap == Spec => ImplementsTtlMap
<1>1. QED
  BY AlwaysIInv, AbstractInit, AbstractStep, PTL
     DEF Spec, ImplementsTtlMap, Promise!Spec
=============================================================================
