---------------------------- MODULE MemoryCache -----------------------------
(***************************************************************************)
(* SimplerMaxTTLMemoryCache (jussi/cache/backends/max_ttl.py): the cache   *)
(* in the memory of the process.  Its operations do not suspend; set_manys *)
(* runs `sets` for one pair after the other, and no other operation runs   *)
(* in between.                                                             *)
(***************************************************************************)
EXTENDS Integers, Sequences, FiniteSets, Functions

CONSTANTS
    Keys,
    Values,      \* the values callers store, Empty among them
    Empty,       \* an instance of jussi.empty.Empty, which is never stored
    TTLs,        \* the expire_time arguments: integers, None among them
    MaxTTL,      \* _max_ttl
    MaxSize,     \* _max_size
    Batches,     \* the arguments of set_manys: sequences of [key, val, ttl]
    MaxTime,     \* bound on the clock
    MaxInserts,  \* bound on the number of keys ever inserted
    MayClear,    \* whether clears is ever called
    None

ASSUME SizesAssumption ==
    /\ MaxSize \in Nat \ {0}
    /\ MaxTTL \in Nat \ {0}
    /\ MaxTime \in Nat
    /\ MaxInserts \in Nat
ASSUME TTLsAssumption == TTLs \subseteq Int \cup {None} /\ None \notin Int
ASSUME ValuesAssumption == Empty \in Values /\ None \notin Values
ASSUME MayClearAssumption == MayClear \in BOOLEAN

Pair == [key : Keys, val : Values, ttl : TTLs]
ASSUME BatchesAssumption == Batches \subseteq Seq(Pair)

\* A dict entry.  Python's dict iterates in the order of insertion; seq says
\* when the key was inserted.
Entry == [val : Values \ {Empty}, exp : Int, seq : Nat]
ASSUME NoneAssumption ==
    None \notin Entry /\ None \notin [val : Values \ {Empty}, exp : Int]

VARIABLES
    cache,    \* _cache: cache[k] is an Entry, or None when k is absent
    detached, \* None, or the former _cache that _keys, _values and _items
              \* are views of since the first call of clears
    now,      \* perf_counter
    inserts,  \* the number of keys inserted so far
    todo,     \* the pairs a running set_manys has not yet stored
    answer,   \* what gets or mgets returned, until the next operation
    raised    \* the last sets raised an exception

vars == <<cache, detached, now, inserts, todo, answer, raised>>

Stored(d) == {k \in Keys : d[k] # None}
Without(d, S) == [k \in Keys |-> IF k \in S THEN None ELSE d[k]]

\* The dict the views show, while _cache is d.
Viewed(d) == IF detached = None THEN d ELSE detached

NoAnswer == [k \in {} |-> None]

Init ==
    /\ cache = [k \in Keys |-> None]
    /\ detached = None
    /\ now = 0
    /\ inserts = 0
    /\ todo = <<>>
    /\ answer = NoAnswer
    /\ raised = FALSE

-----------------------------------------------------------------------------
\* gets and mgets: an entry that is due is deleted instead of returned.

Due(k) == cache[k].exp - now <= 0

MGets(S) ==
    /\ todo = <<>>
    /\ answer' = [k \in S |-> IF k \in Stored(cache) /\ ~Due(k)
                                THEN cache[k].val ELSE None]
    /\ cache' = Without(cache, {k \in S \cap Stored(cache) : Due(k)})
    /\ raised' = FALSE
    /\ UNCHANGED <<detached, now, inserts, todo>>

\* sets and set_manys begin.
SetManys(b) ==
    /\ todo = <<>>
    /\ inserts + Len(b) <= MaxInserts
    /\ todo' = b
    /\ raised' = FALSE
    /\ answer' = NoAnswer
    /\ UNCHANGED <<cache, detached, now, inserts>>

\* The keys prune deletes: those overdue in the view.
Overdue == {k \in Stored(Viewed(cache)) : Viewed(cache)[k].exp - now < 0}

\* next(iter(_cache)): the one key inserted before all others.
Oldest(d) == {k \in Stored(d) : \A j \in Stored(d) : d[k].seq <= d[j].seq}

\* MUTANT: prune leaves one entry too many.
IsFull_OffByOne(d) == Cardinality(Stored(Viewed(d))) > MaxSize

\* The size test of prune, once _cache is d.
IsFull(d) == Cardinality(Stored(Viewed(d))) >= MaxSize

\* MUTANT: only a missing expire_time is replaced by the maximum.
Lifetime_NotCapped(ttl) == IF ttl = None THEN MaxTTL ELSE ttl

Lifetime(ttl) == IF ttl = None THEN MaxTTL
                 ELSE IF ttl > MaxTTL THEN MaxTTL ELSE ttl

\* MUTANT: an Empty value is stored like any other.
Store_Empty(d, p) ==
    /\ cache' = [d EXCEPT ![p.key] =
                    [val |-> p.val,
                     exp |-> now + Lifetime(p.ttl),
                     seq |-> IF d[p.key] = None THEN inserts ELSE d[p.key].seq]]
    /\ inserts' = IF d[p.key] = None THEN inserts + 1 ELSE inserts

\* The assignment that ends sets.  A key that is present keeps its place.
Store(d, p) ==
    IF p.val = Empty
      THEN /\ cache' = d
           /\ UNCHANGED inserts
      ELSE /\ cache' = [d EXCEPT ![p.key] =
                          [val |-> p.val,
                           exp |-> now + Lifetime(p.ttl),
                           seq |-> IF d[p.key] = None THEN inserts
                                   ELSE d[p.key].seq]]
           /\ inserts' = IF d[p.key] = None THEN inserts + 1 ELSE inserts

\* sets: prune, then store.
SetsNext ==
    /\ todo # <<>>
    /\ Overdue \subseteq Stored(cache)
    /\ LET d == Without(cache, Overdue) IN
         \/ ~IsFull(d) /\ Store(d, Head(todo))
         \/ IsFull(d) /\ \E k \in Oldest(d) : Store(Without(d, {k}), Head(todo))
    /\ todo' = Tail(todo)
    /\ UNCHANGED <<detached, now, answer, raised>>

\* prune raises: KeyError at the first key the view still shows and _cache no
\* longer has, or StopIteration on an empty _cache beside a full view.
SetsRaises ==
    /\ todo # <<>>
    /\ \/ /\ ~(Overdue \subseteq Stored(cache))
          /\ LET v == Viewed(cache) IN
               cache' = Without(cache, {k \in Overdue :
                          \A j \in Overdue : v[j].seq <= v[k].seq => cache[j] # None})
       \/ /\ Overdue \subseteq Stored(cache)
          /\ LET d == Without(cache, Overdue) IN
               IsFull(d) /\ Stored(d) = {} /\ cache' = d
    /\ raised' = TRUE
    /\ todo' = <<>>
    /\ UNCHANGED <<detached, now, inserts, answer>>

Deletes(k) ==
    /\ todo = <<>>
    /\ cache' = Without(cache, {k})
    /\ answer' = NoAnswer
    /\ UNCHANGED <<detached, now, inserts, todo, raised>>

\* clears binds _cache to a new dict; the views stay with the old one.
Clears ==
    /\ MayClear
    /\ todo = <<>>
    /\ cache' = [k \in Keys |-> None]
    /\ detached' = Viewed(cache)
    /\ answer' = NoAnswer
    /\ UNCHANGED <<now, inserts, todo, raised>>

Tick ==
    /\ now < MaxTime
    /\ now' = now + 1
    /\ answer' = NoAnswer
    /\ UNCHANGED <<cache, detached, inserts, todo, raised>>

Next ==
    \/ \E S \in SUBSET Keys : MGets(S)
    \/ \E b \in Batches : SetManys(b)
    \/ SetsNext
    \/ SetsRaises
    \/ \E k \in Keys : Deletes(k)
    \/ Clears
    \/ Tick

Spec == Init /\ [][Next]_vars

-----------------------------------------------------------------------------
\* Properties.

\* Every variable has its type, and no two keys share a place in the order.
TypeOK ==
    /\ cache \in [Keys -> Entry \cup {None}]
    /\ detached \in [Keys -> Entry \cup {None}] \cup {None}
    /\ now \in Nat
    /\ inserts \in Nat
    /\ todo \in Seq(Pair)
    /\ DOMAIN answer \subseteq Keys
    /\ \A k \in DOMAIN answer : answer[k] \in Values \cup {None}
    /\ todo # <<>> => answer = NoAnswer
    /\ raised \in BOOLEAN
    /\ \A j, k \in Stored(cache) :
          cache[j].seq < inserts /\ (cache[j].seq = cache[k].seq => j = k)

\* However entries come, expire and are overwritten, the cache never holds
\* more than _max_size of them: prune makes room before each insertion.  That
\* holds until clears is called, which leaves prune with the wrong size.
SizeBounded == detached = None => Cardinality(Stored(cache)) <= MaxSize

\* A lookup returns what was stored last under the key, no longer than
\* MaxTTL after it was stored, and never what expired, was deleted or pruned.
Promise == INSTANCE TtlMap
             WITH map <- [k \in Keys |-> IF cache[k] = None THEN None
                            ELSE [val |-> cache[k].val, exp |-> cache[k].exp]]
ImplementsTtlMap == Promise!Spec
=============================================================================
