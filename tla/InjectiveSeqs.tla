---------------------------- MODULE InjectiveSeqs ----------------------------
(***************************************************************************)
(* Facts about sequences without repetitions, such as the list of what a   *)
(* pool can hand out.                                                      *)
(***************************************************************************)
EXTENDS Naturals, Sequences, FiniteSets, Functions,
        FiniteSetTheorems, SequenceTheorems, TLAPS

\* An element that was not there is appended: put_nowait of the LIFO queue of
\* WsPool, or append to the list of available connections of RedisPool.
LEMMA PutFacts ==
    ASSUME NEW S, NEW q \in Seq(S), IsInjective(q), NEW x \in S, x \notin Range(q)
    PROVE  /\ Append(q, x) \in Seq(S)
           /\ IsInjective(Append(q, x))
           /\ Range(Append(q, x)) = Range(q) \cup {x}
           /\ Len(Append(q, x)) = Len(q) + 1
<1> DEFINE r == Append(q, x)
<1>1. /\ r \in Seq(S) /\ Len(r) = Len(q) + 1 /\ Len(q) \in Nat
      /\ DOMAIN r = 1..(Len(q) + 1) /\ DOMAIN q = 1..Len(q)
      /\ \A i \in 1..Len(q) : r[i] = q[i]
      /\ r[Len(q) + 1] = x
  BY AppendProperties, LenProperties
<1> HIDE DEF r
<1>2. IsInjective(r)
  BY <1>1 DEF IsInjective, Range
<1>3. Range(r) = Range(q) \cup {x}
  <2>1. ASSUME NEW y \in Range(r) PROVE y \in Range(q) \cup {x}
    BY <1>1, <2>1 DEF Range
  <2>2. ASSUME NEW y \in Range(q) PROVE y \in Range(r)
    BY <1>1, <2>2 DEF Range
  <2>3. x \in Range(r)
    BY <1>1 DEF Range
  <2>4. QED
    BY <2>1, <2>2, <2>3
<1>4. QED
  BY <1>1, <1>2, <1>3 DEF r

\* The last element is taken.
LEMMA TakeFacts ==
    ASSUME NEW S, NEW q \in Seq(S), IsInjective(q), q # <<>>
    PROVE  LET r == SubSeq(q, 1, Len(q) - 1)
               x == q[Len(q)]
           IN  /\ r \in Seq(S)
               /\ IsInjective(r)
               /\ x \in S
               /\ x \in Range(q)
               /\ Range(r) = Range(q) \ {x}
               /\ Len(r) = Len(q) - 1 /\ Len(q) > 0
<1> DEFINE r == SubSeq(q, 1, Len(q) - 1)
           x == q[Len(q)]
<1>1. Len(q) \in Nat \ {0} /\ DOMAIN q = 1..Len(q)
  BY LenProperties, EmptySeq
<1>2. /\ r \in Seq(S) /\ Len(r) = Len(q) - 1
      /\ \A i \in 1..(Len(q) - 1) : r[i] = q[i]
  <2>1. \A i \in 1..(Len(q) - 1) : q[i] \in S
    BY <1>1, ElementOfSeq
  <2>2. QED
    BY <1>1, <2>1, SubSeqProperties, SMTT(30)
<1>3. DOMAIN r = 1..(Len(q) - 1)
  BY <1>2, LenProperties
<1> HIDE DEF r
<1>4. IsInjective(r)
  BY <1>1, <1>2, <1>3 DEF IsInjective
<1>5. x \in S /\ x \in Range(q)
  BY <1>1, ElementOfSeq DEF Range
<1>6. Range(r) = Range(q) \ {x}
  <2>1. ASSUME NEW y \in Range(r) PROVE y \in Range(q) \ {x}
    <3>1. PICK i \in 1..(Len(q) - 1) : y = q[i]
      BY <1>2, <1>3, <2>1 DEF Range
    <3>2. QED
      BY <1>1, <3>1 DEF Range, IsInjective
  <2>2. ASSUME NEW y \in Range(q) \ {x} PROVE y \in Range(r)
    <3>1. PICK i \in 1..Len(q) : y = q[i]
      BY <1>1, <2>2 DEF Range
    <3>2. i \in 1..(Len(q) - 1)
      BY <1>1, <2>2, <3>1
    <3>3. QED
      BY <1>2, <1>3, <3>1, <3>2 DEF Range
  <2>3. QED
    BY <2>1, <2>2
<1>7. QED
  BY <1>1, <1>2, <1>4, <1>5, <1>6 DEF r

\* Several elements are put back, as Pool.terminate does.
LEMMA PutAllFacts ==
    ASSUME NEW S, NEW q \in Seq(S), IsInjective(q),
           NEW n \in Nat, NEW P \in SUBSET S, NEW s \in Bijection(1..n, P),
           P \cap Range(q) = {}
    PROVE  /\ q \o s \in Seq(S)
           /\ IsInjective(q \o s)
           /\ Range(q \o s) = Range(q) \cup P
<1> DEFINE r == q \o s
<1>1. /\ s \in [1..n -> P]
      /\ \A i, j \in 1..n : s[i] = s[j] => i = j
      /\ \A y \in P : \E i \in 1..n : s[i] = y
  BY DEF Bijection, Injection, Surjection, IsInjective
<1>2. s \in Seq(S) /\ Len(s) = n
  BY <1>1
<1>3. /\ r \in Seq(S) /\ Len(q) \in Nat
      /\ DOMAIN r = 1..(Len(q) + n) /\ DOMAIN q = 1..Len(q)
      /\ \A i \in 1..(Len(q) + n) :
            r[i] = IF i <= Len(q) THEN q[i] ELSE s[i - Len(q)]
  <2>1. /\ r \in Seq(S) /\ Len(r) = Len(q) + n /\ Len(q) \in Nat
        /\ \A i \in 1..(Len(q) + n) :
              r[i] = IF i <= Len(q) THEN q[i] ELSE s[i - Len(q)]
    BY <1>2, ConcatProperties, LenProperties
  <2>2. DOMAIN r = 1..Len(r) /\ DOMAIN q = 1..Len(q)
    BY <2>1, LenProperties
  <2>3. QED
    BY <2>1, <2>2
<1> HIDE DEF r
<1>4. \A i \in 1..Len(q) : q[i] \in Range(q)
  BY <1>3 DEF Range
<1>5. \A i, j \in DOMAIN r : r[i] = r[j] => i = j
  <2> SUFFICES ASSUME NEW i \in DOMAIN r, NEW j \in DOMAIN r, r[i] = r[j]
               PROVE  i = j
    OBVIOUS
  <2>1. CASE i <= Len(q) /\ j <= Len(q)
    BY <1>3, <2>1 DEF IsInjective
  <2>2. CASE i > Len(q) /\ j > Len(q)
    BY <1>1, <1>3, <2>2
  <2>3. CASE i <= Len(q) /\ j > Len(q)
    BY <1>1, <1>3, <1>4, <2>3
  <2>4. CASE i > Len(q) /\ j <= Len(q)
    BY <1>1, <1>3, <1>4, <2>4
  <2>5. QED
    BY <1>3, <2>1, <2>2, <2>3, <2>4
<1>6. Range(r) = Range(q) \cup P
  <2>1. ASSUME NEW y \in Range(r) PROVE y \in Range(q) \cup P
    BY <1>1, <1>3, <1>4, <2>1 DEF Range
  <2>2. ASSUME NEW y \in Range(q) PROVE y \in Range(r)
    BY <1>3, <2>2 DEF Range
  <2>3. ASSUME NEW y \in P PROVE y \in Range(r)
    <3>1. PICK i \in 1..n : s[i] = y
      BY <1>1, <2>3
    <3>2. Len(q) + i \in 1..(Len(q) + n) /\ r[Len(q) + i] = y
      BY <1>3, <3>1
    <3>3. QED
      BY <1>3, <3>2 DEF Range
  <2>4. QED
    BY <2>1, <2>2, <2>3
<1>7. QED
  BY <1>3, <1>5, <1>6 DEF r, IsInjective
=============================================================================
