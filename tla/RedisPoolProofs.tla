--------------------------- MODULE RedisPoolProofs ---------------------------
(***************************************************************************)
(* Theorems about RedisPool for every number of tasks and connections,     *)
(* every limit and every set of faults.                                    *)
(***************************************************************************)
EXTENDS RedisPool, InjectiveSeqs

\* What NoEarlyEviction rests on: a stamp is at most a wait for the lock older
\* than the use of its connection, and no older when a command runs on it, as
\* its task has put it on itself; what is available has none.
StampSound ==
    /\ \A c \in inUse :
         /\ stamp[c] # None => stamp[c] <= held[c] + MaxWait
         /\ IsUsed(c) => stamp[c] # None /\ (stamp[c] <= held[c] \/ held[c] > MaxAge)
    /\ \A c \in Range(available) : stamp[c] = None

\* The inductive invariant.
IInv == TypeOK /\ CountExact /\ OneUser /\ StampSound /\ IsFiniteSet(inUse)

LEMMA InitIInv == Init => IInv
<1> SUFFICES ASSUME Init PROVE IInv
  OBVIOUS
<1>1. Range(available) = {} /\ IsInjective(available) /\ Len(available) = 0
  BY DEF Init, Range, IsInjective
<1>2. Cardinality(inUse) = 0 /\ IsFiniteSet(inUse)
  BY FS_EmptySet DEF Init
<1>3. TypeOK
  BY PoolAssumption DEF Init, TypeOK, MaxHeld, MaxStamp, PCs, Holding
<1>4. QED
  BY <1>1, <1>2, <1>3, PoolAssumption
     DEF Init, IInv, CountExact, OneUser, StampSound

\* The set in use grows and shrinks by one.
LEMMA InUseFacts ==
    ASSUME IInv, NEW c \in Conns
    PROVE  /\ IsFiniteSet(inUse \cup {c}) /\ IsFiniteSet(inUse \ {c})
           /\ Cardinality(inUse) \in Nat
           /\ c \notin inUse => Cardinality(inUse \cup {c}) = Cardinality(inUse) + 1
           /\ c \in inUse => Cardinality(inUse \ {c}) = Cardinality(inUse) - 1
           /\ c \in inUse => Cardinality(inUse) > 0
<1>1. IsFiniteSet(inUse) /\ Cardinality(inUse) \in Nat
  BY FS_CardinalityType DEF IInv
<1>2. /\ IsFiniteSet(inUse \cup {c})
      /\ c \notin inUse => Cardinality(inUse \cup {c}) = Cardinality(inUse) + 1
  BY <1>1, FS_AddElement
<1>3. /\ IsFiniteSet(inUse \ {c})
      /\ c \in inUse => Cardinality(inUse \ {c}) = Cardinality(inUse) - 1
  BY <1>1, FS_RemoveElement
<1>4. c \in inUse => Cardinality(inUse) > 0
  <2>1. c \in inUse => inUse # {}
    OBVIOUS
  <2>2. QED
    BY <1>1, <2>1, FS_EmptySet
<1>5. QED
  BY <1>1, <1>2, <1>3, <1>4

-----------------------------------------------------------------------------
\* The steps, those first that leave the bookkeeping of the pool alone.

LEMMA PoolUntouched ==
    ASSUME IInv, TypeOK', UNCHANGED <<available, inUse, created, stamp, held>>,
           \A t \in Tasks : conn'[t] = conn[t] \/ conn'[t] = None,
           \A t \in Tasks : pc'[t] = "using" => pc[t] = "using"
    PROVE  IInv'
<1>1. CountExact' /\ IsFiniteSet(inUse)'
  BY DEF IInv, CountExact
<1>4. StampSound'
  <2>1. \A c \in inUse : IsUsed(c)' => IsUsed(c)
    <3>1. SUFFICES ASSUME NEW c \in inUse, NEW t \in Tasks, conn'[t] = c, pc'[t] = "using"
                   PROVE  IsUsed(c)
      BY DEF IsUsed
    <3>2. c # None
      BY PoolAssumption DEF IInv, TypeOK
    <3> QED
      BY <3>1, <3>2 DEF IsUsed
  <2> QED
    BY <2>1 DEF IInv, StampSound
<1>2. OneUser'
  BY DEF IInv, OneUser
<1>3. QED
  BY <1>1, <1>2, <1>4 DEF IInv

LEMMA QuietStepsKeepIInv ==
    ASSUME IInv, NEW t \in Tasks,
           \/ Begin(t) \/ Disconnect(t) \/ ConnectFails(t) \/ Replied(t)
           \/ Breaks(t) \/ Reconnect(t) \/ Lose(t) \/ CancelWaiting(t)
    PROVE  IInv'
<1>1. TypeOK
  BY DEF IInv
<1>2. CASE Begin(t)
  BY <1>1, <1>2, PoolUntouched DEF Begin, TypeOK, PCs, Holding, poolVars
<1>3. CASE Disconnect(t)
  <2>1. TypeOK'
    BY <1>1, <1>3 DEF Disconnect, TypeOK, PCs, Holding, poolVars
  <2>2. QED
    BY <1>3, <2>1, PoolUntouched DEF Disconnect, poolVars
<1>4. CASE ConnectFails(t)
  BY <1>1, <1>4, PoolUntouched DEF ConnectFails, TypeOK, PCs, Holding, poolVars
<1>5. CASE Replied(t)
  BY <1>1, <1>5, PoolUntouched DEF Replied, TypeOK, PCs, Holding, poolVars
<1>6. CASE Breaks(t)
  BY <1>1, <1>6, PoolUntouched DEF Breaks, TypeOK, PCs, Holding, poolVars
<1>7. CASE Reconnect(t)
  BY <1>1, <1>7, PoolUntouched DEF Reconnect, TypeOK, poolVars, taskVars
<1>8. CASE Lose(t)
  <2>1. TypeOK'
    BY <1>1, <1>8 DEF Lose, End, TypeOK, PCs, Holding, poolVars
  <2>2. QED
    BY <1>1, <1>8, <2>1, PoolUntouched DEF Lose, End, TypeOK, poolVars
<1>9. CASE CancelWaiting(t)
  <2>1. TypeOK'
    <3>1. waited' \in [Tasks -> 0..MaxWait]
      BY <1>1, <1>9, PoolAssumption DEF CancelWaiting, TypeOK
    <3> QED
      BY <1>1, <1>9, <3>1 DEF CancelWaiting, End, TypeOK, PCs, Holding, poolVars
  <2>2. QED
    BY <1>1, <1>9, <2>1, PoolUntouched DEF CancelWaiting, End, TypeOK, poolVars
<1>10. QED
  BY <1>2, <1>3, <1>4, <1>5, <1>6, <1>7, <1>8, <1>9

LEMMA ConnectedKeepsIInv ==
    ASSUME IInv, NEW t \in Tasks, Connected(t)
    PROVE  IInv'
<1>1. TypeOK /\ conn[t] \in Conns /\ conn[t] \notin Range(available)
  BY DEF IInv, TypeOK, Connected, Holding, OneUser
<1>2. TypeOK'
  <2>1. 0 \in 0..MaxStamp
    BY PoolAssumption DEF MaxStamp
  <2>2. /\ stamp' \in [Conns -> (0..MaxStamp) \cup {None}]
        /\ alive' \in [Conns -> BOOLEAN]
        /\ pc' \in [Tasks -> PCs]
    BY <1>1, <2>1 DEF Connected, TypeOK, PCs
  <2>3. QED
    BY <1>1, <2>2 DEF Connected, TypeOK, Holding
<1>3. CountExact' /\ OneUser' /\ IsFiniteSet(inUse)'
  BY DEF Connected, IInv, CountExact, OneUser
<1>4. StampSound'
  <2>1. \A u \in Tasks : conn[u] = conn[t] => u = t
    BY <1>1, PoolAssumption DEF IInv, OneUser
  <2>2. \A c \in inUse : c # conn[t] => (IsUsed(c)' => IsUsed(c))
    BY <1>1 DEF Connected, IsUsed, TypeOK
  <2>3. \A c \in inUse : c # conn[t] => stamp'[c] = stamp[c] /\ held'[c] = held[c]
    BY <1>1 DEF Connected, TypeOK
  <2>4. /\ stamp'[conn[t]] = 0 /\ held'[conn[t]] \in 0..MaxHeld /\ 0 # None
        /\ MaxWait \in Nat /\ MaxHeld \in Nat
    BY <1>1, PoolAssumption DEF Connected, TypeOK, MaxHeld
  <2>5. ASSUME NEW c \in inUse'
        PROVE  /\ stamp'[c] # None => stamp'[c] <= held'[c] + MaxWait
               /\ IsUsed(c)' => stamp'[c] # None /\ (stamp'[c] <= held'[c] \/ held'[c] > MaxAge)
    <3>1. c \in inUse
      BY DEF Connected
    <3>2. CASE c = conn[t]
      BY <2>4, <3>2
    <3>3. CASE c # conn[t]
      BY <2>2, <2>3, <3>1, <3>3 DEF IInv, StampSound
    <3> QED
      BY <3>2, <3>3
  <2>6. \A c \in Range(available') : stamp'[c] = None
    BY <1>1 DEF Connected, IInv, StampSound, TypeOK
  <2> QED
    BY <2>5, <2>6 DEF StampSound
<1>5. QED
  BY <1>2, <1>3, <1>4 DEF IInv

LEMMA DiscardedKeepsIInv ==
    ASSUME IInv, NEW t \in Tasks, Discarded(t)
    PROVE  IInv'
<1>1. TypeOK
  BY DEF IInv
<1>2. TypeOK'
  BY <1>1, PoolAssumption DEF Discarded, End, TypeOK, PCs, Holding
<1>3. QED
  BY <1>1, <1>2, PoolUntouched DEF Discarded, End, TypeOK

LEMMA ReapKeepsIInv ==
    ASSUME IInv, NEW t \in Tasks, Reap(t)
    PROVE  IInv'
<1>1. TypeOK /\ Overdue(t) \subseteq inUse /\ IsFiniteSet(inUse)
  BY DEF IInv, Overdue
<1>2. /\ IsFiniteSet(Overdue(t)) /\ IsFiniteSet(inUse \ Overdue(t))
      /\ Cardinality(Overdue(t)) \in Nat /\ Cardinality(inUse) \in Nat
      /\ Cardinality(inUse \ Overdue(t)) \in Nat
      /\ Cardinality(inUse \ Overdue(t)) = Cardinality(inUse) - Cardinality(Overdue(t))
  <2>1. IsFiniteSet(Overdue(t)) /\ IsFiniteSet(inUse \ Overdue(t))
    BY <1>1, FS_Subset
  <2>2. Cardinality(inUse \ Overdue(t)) = Cardinality(inUse) - Cardinality(inUse \cap Overdue(t))
    BY <1>1, FS_Difference
  <2>3. inUse \cap Overdue(t) = Overdue(t)
    BY <1>1
  <2>4. QED
    BY <1>1, <2>1, <2>2, <2>3, FS_CardinalityType
<1>3. CountExact'
  <2>1. created = Len(available) + Cardinality(inUse) /\ created <= MaxConns
    BY DEF IInv, CountExact
  <2>2. Len(available) \in Nat /\ created \in Nat
    BY <1>1, LenProperties DEF TypeOK
  <2>3. created' = created - Cardinality(Overdue(t))
    BY <1>2, <2>1, <2>2 DEF Reap
  <2>4. available' = available /\ inUse' = inUse \ Overdue(t)
    BY DEF Reap
  <2>5. QED
    BY <1>2, <2>1, <2>2, <2>3, <2>4, PoolAssumption DEF CountExact
<1>4. TypeOK'
  <2>1. created' \in Nat
    BY <1>1, <1>2 DEF Reap, TypeOK
  <2>2. /\ inUse' \in SUBSET Conns
        /\ stamp' \in [Conns -> (0..MaxStamp) \cup {None}]
        /\ held' \in [Conns -> 0..MaxHeld]
        /\ waited' \in [Tasks -> 0..MaxWait]
        /\ stuck' \in [Tasks -> SUBSET Conns]
        /\ pc' \in [Tasks -> PCs]
    BY <1>1, PoolAssumption DEF Reap, TypeOK, PCs, MaxStamp, MaxHeld
  <2>3. QED
    BY <1>1, <2>1, <2>2 DEF Reap, TypeOK, PCs, Holding
<1>5. OneUser'
  BY <1>1 DEF Reap, IInv, OneUser
<1>6. StampSound'
  <2>1. ASSUME NEW c \in inUse \ Overdue(t)
        PROVE  /\ stamp'[c] # None => stamp'[c] <= held'[c] + MaxWait
               /\ IsUsed(c)' => stamp'[c] # None /\ (stamp'[c] <= held'[c] \/ held'[c] > MaxAge)
    <3>1. /\ c \in Conns /\ held'[c] = held[c] /\ held[c] \in 0..MaxHeld
          /\ waited[t] \in 0..MaxWait /\ MaxWait \in Nat /\ MaxHeld \in Nat
      BY <1>1, PoolAssumption DEF Reap, TypeOK, MaxHeld
    <3>2. stamp'[c] = IF stamp[c] = None THEN waited[t] ELSE stamp[c]
      BY <3>1 DEF Reap
    <3>3. IsUsed(c)' => IsUsed(c)
      BY <1>1 DEF Reap, IsUsed, TypeOK
    <3>4. CASE stamp[c] = None
      <4>1. ~IsUsed(c)
        BY <3>4 DEF IInv, StampSound
      <4>2. stamp'[c] <= held'[c] + MaxWait
        BY <3>1, <3>2, <3>4
      <4> QED
        BY <3>3, <4>1, <4>2
    <3>5. CASE stamp[c] # None
      BY <3>1, <3>2, <3>3, <3>5 DEF IInv, StampSound
    <3> QED
      BY <3>4, <3>5
  <2>2. ASSUME NEW c \in Range(available) PROVE stamp'[c] = None
    <3>1. c \in Conns /\ c \notin inUse /\ stamp[c] = None
      BY <1>1, <2>2, ElementOfSeq, LenProperties
         DEF IInv, OneUser, StampSound, TypeOK, Range
    <3>2. QED
      BY <1>1, <3>1 DEF Reap
  <2>3. QED
    BY <2>1, <2>2 DEF Reap, StampSound
<1>7. QED
  BY <1>2, <1>3, <1>4, <1>5, <1>6 DEF IInv, Reap

\* Stamps and uses grow older alike, up to their limits.
LEMMA OlderFacts ==
    /\ \A age \in 0..MaxStamp : Older(age, MaxStamp) \in 0..MaxStamp
    /\ \A age \in 0..MaxHeld : Older(age, MaxHeld) \in 0..MaxHeld
    /\ \A a \in 0..MaxStamp, b \in 0..MaxHeld :
         /\ a <= b + MaxWait => Older(a, MaxStamp) <= Older(b, MaxHeld) + MaxWait
         /\ a <= b \/ b > MaxAge =>
              \/ Older(a, MaxStamp) <= Older(b, MaxHeld)
              \/ Older(b, MaxHeld) > MaxAge
  BY PoolAssumption DEF Older, MaxStamp, MaxHeld

LEMMA TickKeepsIInv ==
    ASSUME IInv, Tick
    PROVE  IInv'
<1>1. TypeOK /\ Range(available) \subseteq Conns
  BY ElementOfSeq, LenProperties DEF IInv, TypeOK, Range
<1>2. TypeOK'
  <2>1. stamp' \in [Conns -> (0..MaxStamp) \cup {None}] /\ held' \in [Conns -> 0..MaxHeld]
    BY <1>1, OlderFacts DEF Tick, TypeOK, StampAges
  <2>2. waited' \in [Tasks -> 0..MaxWait]
    BY <1>1, PoolAssumption DEF Tick, TypeOK
  <2>3. QED
    BY <1>1, <2>1, <2>2 DEF Tick, TypeOK
<1>3. CountExact' /\ OneUser' /\ IsFiniteSet(inUse)'
  BY DEF Tick, IInv, CountExact, OneUser
<1>4. StampSound'
  <2>1. ASSUME NEW c \in inUse
        PROVE  /\ stamp'[c] # None => stamp'[c] <= held'[c] + MaxWait
               /\ IsUsed(c)' => stamp'[c] # None /\ (stamp'[c] <= held'[c] \/ held'[c] > MaxAge)
    <3>1. c \in Conns /\ held'[c] = Older(held[c], MaxHeld) /\ held[c] \in 0..MaxHeld
      BY <1>1 DEF TypeOK, Tick
    <3>2. IsUsed(c)' => IsUsed(c)
      BY DEF Tick, IsUsed
    <3>3. CASE stamp[c] = None
      <4>1. stamp'[c] = None /\ ~IsUsed(c)
        BY <3>1, <3>3 DEF Tick, StampAges, IInv, StampSound
      <4> QED
        BY <3>2, <4>1
    <3>4. CASE stamp[c] # None
      <4>1. stamp'[c] = Older(stamp[c], MaxStamp) /\ stamp[c] \in 0..MaxStamp
        BY <1>1, <3>1, <3>4 DEF Tick, StampAges, TypeOK
      <4>2. stamp'[c] # None
        BY <4>1, OlderFacts, PoolAssumption
      <4>3. /\ stamp[c] <= held[c] + MaxWait
            /\ IsUsed(c) => stamp[c] <= held[c] \/ held[c] > MaxAge
        BY <3>4 DEF IInv, StampSound
      <4> QED
        BY <3>1, <3>2, <4>1, <4>2, <4>3, OlderFacts
    <3> QED
      BY <3>3, <3>4
  <2>2. ASSUME NEW c \in Range(available) PROVE stamp'[c] = None
    BY <1>1, <2>2 DEF Tick, IInv, StampSound, StampAges
  <2>3. QED
    BY <2>1, <2>2 DEF Tick, StampSound
<1>5. QED
  BY <1>2, <1>3, <1>4 DEF IInv

\* A connection that nobody has enters the set in use.
LEMMA TakeKeepsIInv ==
    ASSUME IInv, NEW t \in Tasks, NEW c \in Conns,
           pc[t] = "getting", lock = None, lock' = None, stuck' = stuck, waited' = waited,
           Take(t, c), c \notin inUse,
           \A u \in Tasks : conn[u] # c,
           available' \in Seq(Conns), IsInjective(available'),
           Range(available') \subseteq Range(available) \ {c},
           created' \in Nat, created' <= MaxConns,
           created' = Len(available') + Cardinality(inUse) + 1,
           stamp' \in [Conns -> (0..MaxStamp) \cup {None}], stamp'[c] = None,
           \A d \in Conns \ {c} : stamp'[d] = stamp[d],
           alive' \in [Conns -> BOOLEAN]
    PROVE  IInv'
<1>1. TypeOK /\ 0 \in 0..MaxHeld
  BY PoolAssumption DEF IInv, MaxHeld
<1>2. inUse' = inUse \cup {c} /\ IsFiniteSet(inUse')
  BY InUseFacts DEF Take
<1>3. TypeOK'
  <2>1. /\ inUse' \in SUBSET Conns
        /\ held' \in [Conns -> 0..MaxHeld]
        /\ pc' \in [Tasks -> PCs]
        /\ conn' \in [Tasks -> Conns \cup {None}]
    BY <1>1 DEF Take, TypeOK, PCs
  <2>2. \A u \in Tasks :
           /\ conn'[u] # None <=> pc'[u] \in Holding
           /\ lock' = u <=> pc'[u] = "discarding"
    BY <1>1, PoolAssumption DEF Take, TypeOK, Holding
  <2>3. QED
    BY <1>1, <2>1, <2>2 DEF TypeOK
<1>4. CountExact'
  <2>1. Cardinality(inUse') = Cardinality(inUse) + 1 /\ Cardinality(inUse) \in Nat
    BY <1>2, InUseFacts
  <2>2. Len(available') \in Nat
    BY LenProperties
  <2>3. QED
    BY <2>1, <2>2 DEF CountExact
<1>5. OneUser'
  <2>1. Range(available') \cap inUse' = {}
    BY <1>2 DEF IInv, OneUser
  <2>2. \A u \in Tasks : conn'[u] = IF u = t THEN c ELSE conn[u]
    BY <1>1 DEF Take, TypeOK
  <2>3. \A u \in Tasks : conn[u] # None =>
          /\ conn[u] \notin Range(available)
          /\ \A v \in Tasks : conn[v] = conn[u] => v = u
    BY DEF IInv, OneUser
  <2>4. \A u \in Tasks : conn'[u] # None =>
          /\ conn'[u] \notin Range(available')
          /\ \A v \in Tasks : conn'[v] = conn'[u] => v = u
    BY <2>2, <2>3
  <2>5. QED
    BY <2>1, <2>4 DEF OneUser
<1>6. StampSound'
  <2>1. ASSUME NEW d \in inUse'
        PROVE  /\ stamp'[d] # None => stamp'[d] <= held'[d] + MaxWait
               /\ IsUsed(d)' => stamp'[d] # None /\ (stamp'[d] <= held'[d] \/ held'[d] > MaxAge)
    <3>1. d \in Conns /\ (IsUsed(d)' => IsUsed(d) /\ d # c)
      BY <1>1, <1>2 DEF Take, TypeOK, IsUsed
    <3>2. CASE d = c
      BY <3>1, <3>2
    <3>3. CASE d # c
      <4>1. d \in inUse
        BY <1>2, <3>3
      <4>2. stamp'[d] = stamp[d] /\ held'[d] = held[d]
        BY <1>1, <3>1, <3>3 DEF Take, TypeOK
      <4> QED
        BY <3>1, <4>1, <4>2 DEF IInv, StampSound
    <3> QED
      BY <3>2, <3>3
  <2>2. ASSUME NEW d \in Range(available') PROVE stamp'[d] = None
    <3>1. d \in Range(available) /\ d # c
      BY <2>2
    <3>2. d \in Conns
      BY <1>1, <3>1, ElementOfSeq, LenProperties DEF TypeOK, Range
    <3>3. QED
      BY <3>1, <3>2 DEF IInv, StampSound
  <2>3. QED
    BY <2>1, <2>2 DEF StampSound
<1>7. QED
  BY <1>2, <1>3, <1>4, <1>5, <1>6 DEF IInv

LEMMA GetKeepsIInv ==
    ASSUME IInv, NEW t \in Tasks, Get(t)
    PROVE  IInv'
<1>1. /\ TypeOK /\ pc[t] = "getting" /\ lock = None /\ lock' = None
      /\ stuck' = stuck /\ waited' = waited
  BY DEF IInv, Get
<1>2. /\ available \in Seq(Conns) /\ IsInjective(available)
      /\ created = Len(available) + Cardinality(inUse)
      /\ created \in Nat /\ created <= MaxConns /\ MaxConns \in Nat
      /\ Len(available) \in Nat /\ Cardinality(inUse) \in Nat
  BY PoolAssumption, LenProperties, FS_CardinalityType
     DEF IInv, TypeOK, CountExact, OneUser
<1>3. CASE /\ available # <<>>
           /\ Take(t, available[Len(available)])
           /\ available' = SubSeq(available, 1, Len(available) - 1)
           /\ UNCHANGED <<created, alive, stamp>>
  <2> DEFINE c == available[Len(available)]
  <2>1. /\ available' \in Seq(Conns) /\ IsInjective(available')
        /\ c \in Conns /\ c \in Range(available)
        /\ Range(available') = Range(available) \ {c}
        /\ Len(available') = Len(available) - 1
    BY <1>2, <1>3, TakeFacts
  <2>2. c \notin inUse /\ stamp[c] = None /\ \A u \in Tasks : conn[u] # c
    BY <2>1, PoolAssumption DEF IInv, OneUser, StampSound
  <2>3. created' = Len(available') + Cardinality(inUse) + 1
    BY <1>2, <1>3, <2>1
  <2>4. Take(t, c)
    BY <1>3
  <2>5. /\ created' = created /\ stamp' = stamp /\ alive' = alive
    BY <1>3
  <2> HIDE DEF c
  <2>6. stamp' \in [Conns -> (0..MaxStamp) \cup {None}] /\ alive' \in [Conns -> BOOLEAN]
    BY <1>1, <2>5 DEF TypeOK
  <2>7. QED
    BY <1>1, <1>2, <2>1, <2>2, <2>3, <2>4, <2>5, <2>6, TakeKeepsIInv
<1>4. CASE /\ available = <<>>
           /\ created < MaxConns
           /\ \E c \in Conns : Unreferenced(c)
           /\ LET c == CHOOSE c \in Conns : Unreferenced(c) IN
                /\ Take(t, c)
                /\ alive' = [alive EXCEPT ![c] = FALSE]
                /\ stamp' = [stamp EXCEPT ![c] = None]
           /\ created' = created + 1
           /\ UNCHANGED available
  <2> DEFINE new == CHOOSE c \in Conns : Unreferenced(c)
  <2>1. new \in Conns /\ Unreferenced(new)
    BY <1>4
  <2>2. /\ Take(t, new)
        /\ alive' = [alive EXCEPT ![new] = FALSE]
        /\ stamp' = [stamp EXCEPT ![new] = None]
    BY <1>4
  <2> HIDE DEF new
  <2>3. /\ new \notin inUse /\ new \notin Range(available)
        /\ \A u \in Tasks : conn[u] # new
    BY <2>1 DEF Unreferenced
  <2>4. /\ available' \in Seq(Conns) /\ IsInjective(available')
        /\ Range(available') \subseteq Range(available) \ {new}
        /\ created' \in Nat /\ created' <= MaxConns
        /\ created' = Len(available') + Cardinality(inUse) + 1
    BY <1>2, <1>4, <2>3
  <2>5. /\ stamp' \in [Conns -> (0..MaxStamp) \cup {None}] /\ stamp'[new] = None
        /\ \A d \in Conns \ {new} : stamp'[d] = stamp[d]
        /\ alive' \in [Conns -> BOOLEAN]
    BY <1>1, <2>1, <2>2 DEF TypeOK
  <2>6. QED
    BY <1>1, <2>1, <2>2, <2>3, <2>4, <2>5, TakeKeepsIInv
<1>5. CASE /\ available = <<>>
           /\ created >= MaxConns
           /\ End(t)
           /\ UNCHANGED <<available, inUse, created, held, alive, stamp>>
  <2>1. TypeOK'
    BY <1>1, <1>5 DEF End, TypeOK, PCs, Holding
  <2>2. QED
    BY <1>1, <1>5, <2>1, PoolUntouched DEF End, TypeOK
<1>6. QED
  BY <1>3, <1>4, <1>5 DEF Get, TakeConnection
\* What every release does to the stamps.
LEMMA ReleaseStamps ==
    ASSUME IInv, NEW c \in Conns,
           stamp' = [stamp EXCEPT ![c] = None],
           held' = [held EXCEPT ![c] = 0],
           inUse' = inUse \ {c},
           Range(available') \subseteq Range(available) \cup {c},
           \A d \in inUse' : IsUsed(d)' => IsUsed(d)
    PROVE  StampSound'
<1>1. TypeOK
  BY DEF IInv
<1>2. ASSUME NEW d \in inUse'
      PROVE  /\ stamp'[d] # None => stamp'[d] <= held'[d] + MaxWait
             /\ IsUsed(d)' => stamp'[d] # None /\ (stamp'[d] <= held'[d] \/ held'[d] > MaxAge)
  <2>1. d \in inUse /\ d # c /\ d \in Conns
    BY <1>1, <1>2 DEF TypeOK
  <2>2. stamp'[d] = stamp[d] /\ held'[d] = held[d]
    BY <1>1, <2>1 DEF TypeOK
  <2>3. IsUsed(d)' => IsUsed(d)
    BY <1>2
  <2>4. QED
    BY <2>1, <2>2, <2>3 DEF IInv, StampSound
<1>3. ASSUME NEW d \in Range(available') PROVE stamp'[d] = None
  <2>1. CASE d = c
    BY <1>1, <2>1 DEF TypeOK
  <2>2. CASE d # c
    <3>1. d \in Range(available)
      BY <1>3, <2>2
    <3>2. d \in Conns
      BY <1>1, <3>1, ElementOfSeq, LenProperties DEF TypeOK, Range
    <3>3. QED
      BY <1>1, <2>2, <3>1, <3>2 DEF IInv, StampSound, TypeOK
  <2>3. QED
    BY <2>1, <2>2
<1>4. QED
  BY <1>2, <1>3 DEF StampSound

LEMMA ReleaseKeepsIInv ==
    ASSUME IInv, NEW t \in Tasks, Release(t)
    PROVE  IInv'
<1> DEFINE c == conn[t]
<1>1. /\ TypeOK /\ 0 \in 0..MaxHeld /\ pc[t] = "releasing" /\ lock = None
      /\ c \in Conns /\ c \notin Range(available)
  BY PoolAssumption DEF IInv, TypeOK, OneUser, Release, Holding, MaxHeld
<1>2. /\ \A u \in Tasks : conn[u] # None =>
           /\ conn[u] \notin Range(available)
           /\ \A v \in Tasks : conn[v] = conn[u] => v = u
      /\ IsInjective(available) /\ Range(available) \cap inUse = {}
  BY DEF IInv, OneUser
<1>3. /\ created = Len(available) + Cardinality(inUse)
      /\ created \in Nat /\ created <= MaxConns /\ MaxConns \in Nat
      /\ Len(available) \in Nat /\ Cardinality(inUse) \in Nat
  BY <1>1, PoolAssumption, LenProperties, FS_CardinalityType
     DEF IInv, TypeOK, CountExact
<1>4. /\ stamp' = [stamp EXCEPT ![c] = None]
      /\ held' = [held EXCEPT ![c] = 0]
      /\ inUse' = inUse \ {c}
      /\ stuck' = stuck /\ waited' = waited
      /\ IsFiniteSet(inUse')
  BY <1>1, InUseFacts DEF Release
<1>10. \A d \in inUse' : IsUsed(d)' => IsUsed(d)
  <2>1. \A u \in Tasks : pc'[u] = "using" => pc[u] = "using" /\ conn'[u] = conn[u]
    BY <1>1 DEF Release, End, TypeOK
  <2> QED
    BY <2>1 DEF IsUsed
<1>5. /\ stamp' \in [Conns -> (0..MaxStamp) \cup {None}] /\ held' \in [Conns -> 0..MaxHeld]
      /\ inUse' \in SUBSET Conns
  BY <1>1, <1>4 DEF TypeOK
<1>6. CASE /\ c \notin inUse
           /\ alive' = [alive EXCEPT ![c] = FALSE]
           /\ End(t)
           /\ UNCHANGED <<available, created, lock>>
  <2>1. inUse' = inUse
    BY <1>4, <1>6
  <2>2. TypeOK'
    BY <1>1, <1>4, <1>5, <1>6 DEF TypeOK, End, PCs, Holding
  <2>3. StampSound'
    BY <1>1, <1>4, <1>6, <1>10, ReleaseStamps
  <2>4. OneUser'
    BY <1>1, <1>2, <1>6, <2>1 DEF TypeOK, End, OneUser
  <2>5. CountExact'
    BY <1>3, <1>6, <2>1 DEF CountExact
  <2>6. QED
    BY <1>4, <2>2, <2>3, <2>4, <2>5 DEF IInv
<1>7. CASE /\ c \in inUse /\ alive[c]
           /\ available' = Append(available, c)
           /\ End(t)
           /\ UNCHANGED <<created, lock, alive>>
  <2>1. /\ available' \in Seq(Conns) /\ IsInjective(available')
        /\ Range(available') = Range(available) \cup {c}
        /\ Len(available') = Len(available) + 1
    BY <1>1, <1>2, <1>7, PutFacts DEF TypeOK
  <2>2. TypeOK'
    BY <1>1, <1>4, <1>5, <1>7, <2>1 DEF TypeOK, End, PCs, Holding
  <2>3. StampSound'
    BY <1>1, <1>4, <2>1, <1>10, ReleaseStamps
  <2>4. OneUser'
    <3>1. \A u \in Tasks : conn'[u] = IF u = t THEN None ELSE conn[u]
      BY <1>1, <1>7 DEF TypeOK, End
    <3>2. \A u \in Tasks : conn'[u] # None => conn'[u] # c
      BY <1>1, <1>2, <3>1, PoolAssumption
    <3>3. \A u \in Tasks : conn'[u] # None =>
            /\ conn'[u] \notin Range(available')
            /\ \A v \in Tasks : conn'[v] = conn'[u] => v = u
      BY <1>2, <2>1, <3>1, <3>2
    <3>4. QED
      BY <1>2, <1>4, <2>1, <3>3 DEF OneUser
  <2>5. CountExact'
    <3>1. Cardinality(inUse') = Cardinality(inUse) - 1
      BY <1>1, <1>4, <1>7, InUseFacts
    <3>2. created' = created
      BY <1>7
    <3>3. QED
      BY <1>3, <2>1, <3>1, <3>2 DEF CountExact
  <2>6. QED
    BY <1>4, <2>2, <2>3, <2>4, <2>5 DEF IInv
<1>8. CASE /\ c \in inUse /\ ~alive[c]
           /\ created' = created - 1
           /\ lock' = t
           /\ pc' = [pc EXCEPT ![t] = "discarding"]
           /\ UNCHANGED <<available, conn, alive>>
  <2>1. Cardinality(inUse') = Cardinality(inUse) - 1 /\ Cardinality(inUse) > 0
    BY <1>1, <1>4, <1>8, InUseFacts
  <2>2. created' \in Nat
    BY <1>3, <1>8, <2>1
  <2>3. TypeOK'
    BY <1>1, <1>4, <1>5, <1>8, <2>2, PoolAssumption DEF TypeOK, PCs, Holding
  <2>4. StampSound'
    BY <1>1, <1>4, <1>8, <1>10, ReleaseStamps
  <2>5. OneUser'
    BY <1>2, <1>4, <1>8 DEF OneUser
  <2>6. CountExact'
    BY <1>3, <1>8, <2>1 DEF CountExact
  <2>7. QED
    BY <1>4, <2>3, <2>4, <2>5, <2>6 DEF IInv
<1>9. QED
  BY <1>6, <1>7, <1>8 DEF Release

LEMMA NextKeepsIInv == IInv /\ [Next]_vars => IInv'
<1> SUFFICES ASSUME IInv, [Next]_vars PROVE IInv'
  OBVIOUS
<1>1. ASSUME NEW t \in Tasks, TaskStep(t) PROVE IInv'
  BY <1>1, QuietStepsKeepIInv, ReapKeepsIInv, GetKeepsIInv, ConnectedKeepsIInv,
     ReleaseKeepsIInv, DiscardedKeepsIInv DEF TaskStep
<1>2. ASSUME NEW c \in Conns, Drop(c) PROVE IInv'
  <2>1. TypeOK'
    BY <1>2 DEF Drop, IInv, TypeOK, poolVars, taskVars
  <2>2. QED
    BY <1>2, <2>1, PoolUntouched DEF Drop, poolVars, taskVars
<1>3. ASSUME Tick PROVE IInv'
  BY <1>3, TickKeepsIInv
<1>4. ASSUME UNCHANGED vars PROVE IInv'
  <2>1. TypeOK'
    BY <1>4 DEF vars, poolVars, taskVars, IInv, TypeOK
  <2>2. QED
    BY <1>4, <2>1, PoolUntouched DEF vars, poolVars, taskVars
<1>5. QED
  BY <1>1, <1>2, <1>3, <1>4 DEF Next

LEMMA AlwaysIInv == Spec => []IInv
<1>1. QED
  BY InitIInv, NextKeepsIInv, PTL DEF Spec

-----------------------------------------------------------------------------
\* Every variable keeps its type, and tasks have connections and the lock
\* exactly where the code says they do (cache/__init__.py).
THEOREM TypeCorrect == Spec => []TypeOK
<1>1. IInv => TypeOK
  BY DEF IInv
<1>2. QED
  BY <1>1, AlwaysIInv, PTL

\* Evictions and releases, in any order and with any losses, keep
\* _created_connections equal to what the pool has (release,
\* _reap_stuck_in_use).
THEOREM CountIsExact == Spec => []CountExact
<1>1. IInv => CountExact
  BY DEF IInv
<1>2. QED
  BY <1>1, AlwaysIInv, PTL

\* No connection is with two tasks, or with a task and available, although
\* tasks go on using connections that were evicted.
THEOREM ConnectionsHaveOneUser == Spec => []OneUser
<1>1. IInv => OneUser
  BY DEF IInv
<1>2. QED
  BY <1>1, AlwaysIInv, PTL

\* The reaper never takes the stamp of an earlier use for that of the present
\* one: a command keeps its connection for in_use_max_age, whatever time other
\* tasks waited for the lock, and what has no command at most a wait less.
THEOREM EvictionsAreDue == Spec => NoEarlyEviction
<1> DEFINE Due == \A c \in inUse \ inUse' :
          \/ held[c] > MaxAge
          \/ ~IsUsed(c) /\ held[c] + MaxWait > MaxAge
          \/ \E t \in Tasks : conn[t] = c /\ pc[t] = "releasing" /\ pc'[t] # "releasing"
<1>1. IInv /\ [Next]_vars => [Due]_vars
  <2> SUFFICES ASSUME IInv, Next, NEW c \in inUse \ inUse'
               PROVE  \/ held[c] > MaxAge
                      \/ ~IsUsed(c) /\ held[c] + MaxWait > MaxAge
                      \/ \E t \in Tasks : /\ conn[t] = c /\ pc[t] = "releasing"
                                          /\ pc'[t] # "releasing"
    OBVIOUS
  <2>1. c \in Conns
    BY DEF IInv, TypeOK
  <2>2. PICK t \in Tasks : Reap(t) \/ Release(t)
    BY DEF Next, TaskStep, Begin, Disconnect, Get, TakeConnection, Take, Connected,
           ConnectFails, Replied, Breaks, Reconnect, Lose, Discarded, CancelWaiting,
           Drop, Tick, poolVars
  <2>3. CASE Reap(t)
    <3>1. c \in Overdue(t)
      BY <2>3 DEF Reap
    <3>2. /\ stamp[c] # None /\ stamp[c] > MaxAge + waited[t]
          /\ stamp[c] \in 0..MaxStamp /\ held[c] \in 0..MaxHeld /\ waited[t] \in 0..MaxWait
      BY <2>1, <3>1 DEF IInv, Overdue, TypeOK
    <3>3. /\ stamp[c] <= held[c] + MaxWait
          /\ IsUsed(c) => stamp[c] <= held[c] \/ held[c] > MaxAge
      BY <3>1, <3>2 DEF IInv, StampSound, Overdue
    <3>4. CASE IsUsed(c)
      BY <3>2, <3>3, <3>4, PoolAssumption DEF MaxStamp, MaxHeld
    <3>5. CASE ~IsUsed(c)
      BY <3>2, <3>3, <3>5, PoolAssumption DEF MaxStamp, MaxHeld
    <3> QED
      BY <3>4, <3>5
  <2>4. CASE Release(t)
    <3>1. conn[t] = c /\ pc[t] = "releasing"
      BY <2>4 DEF Release
    <3>2. pc'[t] # "releasing"
      BY <2>4 DEF Release, End, IInv, TypeOK
    <3> QED
      BY <3>1, <3>2
  <2>5. QED
    BY <2>2, <2>3, <2>4
<1>2. QED
  BY <1>1, AlwaysIInv, PTL DEF Spec, NoEarlyEviction
=============================================================================
