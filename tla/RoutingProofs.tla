---------------------------- MODULE RoutingProofs ----------------------------
(***************************************************************************)
(* Theorems about Routing, for every set of calls and every configuration. *)
(***************************************************************************)
EXTENDS Routing, FiniteSetTheorems, SequenceTheorems, TLAPS

IsRequest(r) ==
    /\ r \in [method : Names, params : Params \cup {Absent},
              items : Seq(Names \cup {Number}), index : Int]
    /\ Len(r.items) \in {2, 3} => IsCallItems(r.items)

-----------------------------------------------------------------------------
\* URNs.

\* A numeric api stands for the name of an api.
LEMMA CallApiIsName ==
    ASSUME NEW r, IsRequest(r), IsCallable(r)
    PROVE  CallApi(r) \in Names
<1>1. CASE r.items[1] # Number
  BY <1>1 DEF CallApi, IsRequest, IsCallItems, IsCallable
<1>2. CASE r.items[1] = Number
  <2>1. r.index \in Int /\ -2 <= r.index /\ r.index < 2
    BY <1>2 DEF IsCallable, IsIndex, STEEMD_NUMERIC_API_MAPPING, IsRequest
  <2>2. At(STEEMD_NUMERIC_API_MAPPING, r.index) \in { <<"database_api">>, <<"login_api">>}
    BY <2>1 DEF At, STEEMD_NUMERIC_API_MAPPING
  <2>3. <<"database_api">> \in Names /\ <<"login_api">> \in Names
    BY NamesAssumption DEF Names
  <2> QED
    BY <1>2, <2>2, <2>3 DEF CallApi
<1> QED
  BY <1>1, <1>2

\* One token is a name.
LEMMA TokenIsName ==
    ASSUME NEW t \in Tokens
    PROVE  <<t>> \in Names /\ Len(<<t>>) = 1
  BY DEF Names

\* The parser returns a URN or refuses, and one without an api has an undotted method.
LEMMA ParsedIsUrn ==
    ASSUME NEW r, IsRequest(r), Parsed(r) # Absent
    PROVE  /\ Parsed(r) \in Urns
           /\ Parsed(r).api = Absent => Len(Parsed(r).method) = 1
<1> USE NamesAssumption
<1>1. r.method \in Names /\ r.method \in Seq(Tokens) /\ r.params \in Params \cup {Absent}
  BY DEF IsRequest, Names
<1>2. CASE Len(r.method) = 2
  <2> DEFINE a == r.method[1]
             b == r.method[2]
  <2>1. a \in Tokens /\ b \in Tokens /\ Last(r.method) = b /\ r.method # <<"call">>
    BY <1>1, <1>2 DEF Last
  <2>2. \/ Parsed(r) = Urn("appbase", <<a>>, <<b>>, r.params)
        \/ Parsed(r) = Urn("appbase", <<"jsonrpc">>, <<b>>, r.params)
        \/ Parsed(r) = Urn(a, Absent, <<b>>, r.params)
    BY <1>2, <2>1 DEF Parsed
  <2>3. <<a>> \in Names /\ <<b>> \in Names /\ <<"jsonrpc">> \in Names /\ Len(<<b>>) = 1
    BY <2>1, TokenIsName
  <2> HIDE DEF a, b
  <2> QED
    BY <1>1, <2>1, <2>2, <2>3 DEF Urn, Urns
<1>3. CASE Len(r.method) = 3
  <2> DEFINE a == r.method[1]
             b == r.method[2]
             c == r.method[3]
  <2>1. /\ a \in Tokens /\ b \in Tokens /\ c \in Tokens
        /\ Last(r.method) = c /\ r.method # <<"call">>
    BY <1>1, <1>3 DEF Last
  <2>2. \/ Parsed(r) = Urn("appbase", <<"jsonrpc">>, <<c>>, r.params)
        \/ Parsed(r) = Urn(a, <<b>>, <<c>>, r.params)
    BY <1>3, <2>1 DEF Parsed
  <2>3. <<b>> \in Names /\ <<c>> \in Names /\ <<"jsonrpc">> \in Names /\ Len(<<c>>) = 1
    BY <2>1, TokenIsName
  <2> HIDE DEF a, b, c
  <2> QED
    BY <1>1, <2>1, <2>2, <2>3 DEF Urn, Urns
<1>4. CASE r.method = <<"call">>
  <2>1. Parsed(r) = ParsedCall(r)
    BY <1>4 DEF Parsed
  <2>2. IsCallable(r)
    BY <2>1 DEF ParsedCall
  <2>3. CallApi(r) \in Names /\ r.items[2] \in Names
    BY <2>2, CallApiIsName DEF IsRequest, IsCallItems, IsCallable
  <2>4. (IF Len(r.items) = 3 THEN r.items[3] ELSE Absent) \in Params \cup {Absent}
    BY DEF IsRequest, IsCallItems
  <2>5. CallApi(r) # Absent
    BY <2>3
  <2> QED
    BY <2>1, <2>2, <2>3, <2>4, <2>5 DEF ParsedCall, Urn, Urns
<1>5. CASE Len(r.method) = 1 /\ r.method # <<"call">>
  <2>1. Parsed(r) = Urn("steemd", <<"database_api">>, r.method, r.params)
    BY <1>5 DEF Parsed
  <2>2. <<"database_api">> \in Names
    BY TokenIsName
  <2> QED
    BY <1>1, <1>5, <2>1, <2>2 DEF Urn, Urns
<1>6. CASE Len(r.method) \notin {1, 2, 3}
  <2>1. r.method # <<"call">>
    <3>1. Len(<<"call">>) = 1
      OBVIOUS
    <3> QED
      BY <1>6, <3>1
  <2> QED
    BY <1>6, <2>1 DEF Parsed
<1> QED
  BY <1>2, <1>3, <1>4, <1>5, <1>6

\* The tokens of a concatenation.
LEMMA ConcatTokens ==
    ASSUME NEW s \in Seq(Tokens), NEW t \in Seq(Tokens)
    PROVE  /\ s \o t \in Seq(Tokens)
           /\ Len(s \o t) = Len(s) + Len(t)
           /\ \A n \in 1..Len(s) : (s \o t)[n] = s[n]
           /\ \A n \in 1..Len(t) : (s \o t)[Len(s) + n] = t[n]
  OBVIOUS

\* The dotted api and method of a URN.
NameOf(u) == Given(u.api) \o u.method

\* The parts of a URN are sequences of tokens.
LEMMA PartsTyped ==
    ASSUME NEW u \in Urns
    PROVE  /\ Given(u.api) \in Seq(Tokens) /\ Given(u.params) \in Seq(Tokens)
           /\ u.method \in Seq(Tokens) /\ u.method # <<>> /\ u.namespace \in Tokens
           /\ NameOf(u) \in Seq(Tokens)
           /\ Len(NameOf(u)) = Len(Given(u.api)) + Len(u.method)
           /\ Len(NameOf(u)) \in Nat /\ Len(Given(u.params)) \in Nat
           /\ Len(Given(u.api)) \in Nat /\ Len(u.method) \in Nat \ {0}
<1>1. /\ u.api \in Names \cup {Absent} /\ u.params \in Names \cup {Absent}
      /\ u.method \in Names /\ u.namespace \in Tokens
  BY NamesAssumption DEF Urns
<1>2. \A p \in Names \cup {Absent} : Given(p) \in Seq(Tokens)
  <2>1. <<>> \in Seq(Tokens)
    OBVIOUS
  <2> QED
    BY <2>1 DEF Given, Names
<1>3. Given(u.api) \in Seq(Tokens) /\ Given(u.params) \in Seq(Tokens)
  BY <1>1, <1>2
<1>4. u.method \in Seq(Tokens) /\ u.method # <<>>
  BY <1>1 DEF Names
<1> QED
  BY <1>1, <1>3, <1>4, ConcatTokens, EmptySeq, LenProperties DEF NameOf

\* A key is the namespace, then the name, then the params.
LEMMA KeyParts ==
    ASSUME NEW u \in Urns
    PROVE  /\ Len(Key(u)) = 1 + Len(NameOf(u)) + Len(Given(u.params))
           /\ Key(u)[1] = u.namespace
           /\ \A n \in 1..Len(NameOf(u)) : Key(u)[1 + n] = NameOf(u)[n]
           /\ \A n \in 1..Len(Given(u.params)) :
                 Key(u)[1 + Len(NameOf(u)) + n] = Given(u.params)[n]
<1>1. PICK api, method, params, space, name :
        /\ api = Given(u.api) /\ method = u.method /\ params = Given(u.params)
        /\ space = <<u.namespace>> /\ name = NameOf(u)
  OBVIOUS
<1>2. /\ api \in Seq(Tokens) /\ method \in Seq(Tokens) /\ params \in Seq(Tokens)
      /\ space \in Seq(Tokens) /\ Len(space) = 1 /\ space[1] = u.namespace
      /\ name \in Seq(Tokens) /\ Len(name) \in Nat /\ Len(params) \in Nat
  <2>1. u.namespace \in Tokens
    BY PartsTyped
  <2>2. space \in Seq(Tokens) /\ Len(space) = 1 /\ space[1] = u.namespace
    BY <1>1, <2>1
  <2>3. /\ api \in Seq(Tokens) /\ method \in Seq(Tokens) /\ params \in Seq(Tokens)
        /\ name \in Seq(Tokens)
    BY <1>1, PartsTyped
  <2> QED
    BY <2>2, <2>3
<1>3. Key(u) = ((space \o api) \o method) \o params
  BY <1>1 DEF Key
<1>4. (space \o api) \o method = space \o name
  <2>1. name = api \o method
    BY <1>1 DEF NameOf
  <2>2. (space \o api) \o method = space \o (api \o method)
    <3>1. space \in Seq(Tokens) /\ api \in Seq(Tokens) /\ method \in Seq(Tokens)
      BY <1>2
    <3> QED
      BY <3>1, ConcatAssociative
  <2> QED
    BY <2>1, <2>2
<1>5. PICK front : front = space \o name
  OBVIOUS
<1>6. /\ front \in Seq(Tokens) /\ Len(front) = 1 + Len(name)
      /\ front[1] = u.namespace
      /\ \A n \in 1..Len(name) : front[1 + n] = name[n]
  <2>1. /\ front \in Seq(Tokens) /\ Len(front) = Len(space) + Len(name)
        /\ \A n \in 1..Len(space) : front[n] = space[n]
        /\ \A n \in 1..Len(name) : front[Len(space) + n] = name[n]
    <3>1. space \in Seq(Tokens) /\ name \in Seq(Tokens)
      BY <1>2
    <3>2. /\ space \o name \in Seq(Tokens) /\ Len(space \o name) = Len(space) + Len(name)
          /\ \A n \in 1..Len(space) : (space \o name)[n] = space[n]
          /\ \A n \in 1..Len(name) : (space \o name)[Len(space) + n] = name[n]
      BY <3>1, ConcatTokens, Zenon
    <3> QED
      BY <3>2, <1>5, Zenon
  <2> QED
    BY <1>2, <2>1
<1>7. Key(u) = front \o params
  BY <1>3, <1>4, <1>5
<1>8. /\ Len(Key(u)) = Len(front) + Len(params)
      /\ \A n \in 1..Len(front) : Key(u)[n] = front[n]
      /\ \A n \in 1..Len(params) : Key(u)[Len(front) + n] = params[n]
  <2>1. front \in Seq(Tokens) /\ params \in Seq(Tokens)
    BY <1>2, <1>6
  <2> QED
    BY <1>7, <2>1, ConcatTokens
<1>9. Key(u)[1] = u.namespace
  BY <1>2, <1>6, <1>8
<1>10. \A n \in 1..Len(name) : Key(u)[1 + n] = name[n]
  BY <1>2, <1>6, <1>8
<1>11. \A n \in 1..Len(params) : Key(u)[1 + Len(name) + n] = params[n]
  BY <1>2, <1>6, <1>8
<1> QED
  BY <1>1, <1>6, <1>8, <1>9, <1>10, <1>11

\* The params of a URN begin with the first params token after the namespace.
LEMMA ParamsBegin ==
    ASSUME NEW u \in Urns, NEW v \in Urns, Key(u) = Key(v), NamesNoParams(v)
    PROVE  Len(NameOf(v)) <= Len(NameOf(u))
<1>1. PICK l, k, params :
        l = Len(NameOf(u)) /\ k = Len(NameOf(v)) /\ params = Given(u.params)
  OBVIOUS
<1>2. l \in Nat /\ k \in Nat /\ params \in Seq(Tokens) /\ Len(params) \in Nat
  BY <1>1, PartsTyped
<1>3. SUFFICES ASSUME l < k PROVE FALSE
  BY <1>1, <1>2
<1>4. NameOf(v)[l + 1] \notin ParamsTokens
  <2>1. l + 1 \in DOMAIN NameOf(v)
    BY <1>1, <1>2, <1>3, PartsTyped
  <2> QED
    BY <2>1 DEF NamesNoParams, NameOf
<1>5. Key(u)[1 + (l + 1)] = NameOf(v)[l + 1]
  <2>1. l + 1 \in 1..Len(NameOf(v))
    BY <1>1, <1>2, <1>3
  <2> QED
    BY <2>1, KeyParts
<1>6. Len(params) > 0
  <2>1. Len(Key(u)) = 1 + l + Len(params) /\ Len(Key(u)) = 1 + k + Len(Given(v.params))
    BY <1>1, KeyParts
  <2> QED
    BY <1>2, <1>3, <2>1, PartsTyped
<1>7. Key(u)[1 + l + 1] = params[1]
  <2>1. 1 \in 1..Len(Given(u.params))
    BY <1>1, <1>2, <1>6
  <2> QED
    BY <1>1, <2>1, KeyParts
<1>8. params[1] \in ParamsTokens
  <2>1. u.params # Absent
    BY <1>1, <1>6, EmptySeq DEF Given
  <2>2. params = u.params /\ u.params \in Params
    BY <1>1, <2>1 DEF Given, Urns
  <2> QED
    BY <2>2, NamesAssumption
<1>9. 1 + (l + 1) = 1 + l + 1
  BY <1>2
<1> QED
  BY <1>4, <1>5, <1>7, <1>8, <1>9

\* Params that are given are a sequence of at least one token.
LEMMA GivenDetermines ==
    ASSUME NEW p \in Names \cup {Absent}, NEW q \in Names \cup {Absent}, Given(p) = Given(q)
    PROVE  p = q
  BY NamesAssumption DEF Given, Names

\* An undotted URN has a key of its own among those that spell no params out.
LEMMA KeyDetermines ==
    ASSUME NEW u \in Urns, NEW v \in Urns, Key(u) = Key(v),
           v.api = Absent => Len(v.method) = 1,
           IsUndotted(u), NamesNoParams(u), NamesNoParams(v)
    PROVE  u = v
<1>1. /\ u.api \in Names \cup {Absent} /\ v.api \in Names \cup {Absent}
      /\ u.params \in Names \cup {Absent} /\ v.params \in Names \cup {Absent}
  BY NamesAssumption DEF Urns
<1>2. Len(NameOf(u)) = Len(NameOf(v)) /\ Len(NameOf(u)) \in Nat
  BY PartsTyped, ParamsBegin
<1>3. NameOf(u) = NameOf(v)
  <2>1. \A n \in 1..Len(NameOf(u)) : NameOf(u)[n] = NameOf(v)[n]
    BY <1>2, KeyParts
  <2> QED
    BY <1>2, <2>1, PartsTyped, SeqEqual
<1>4. Given(u.params) = Given(v.params)
  <2>1. PICK p, q, l : p = Given(u.params) /\ q = Given(v.params) /\ l = Len(NameOf(u))
    OBVIOUS
  <2>2. p \in Seq(Tokens) /\ q \in Seq(Tokens) /\ Len(p) \in Nat /\ Len(q) \in Nat /\ l \in Nat
    BY <2>1, PartsTyped
  <2>3. Len(Key(u)) = 1 + l + Len(p) /\ Len(Key(u)) = 1 + l + Len(q)
    BY <1>2, <2>1, KeyParts
  <2>4. Len(p) = Len(q)
    BY <2>2, <2>3
  <2>5. /\ \A n \in 1..Len(p) : Key(u)[1 + l + n] = p[n]
        /\ \A n \in 1..Len(q) : Key(u)[1 + l + n] = q[n]
    BY <1>2, <2>1, KeyParts
  <2>6. p = q
    BY <2>2, <2>4, <2>5, SeqEqual
  <2> QED
    BY <2>1, <2>6
<1>5. u.params = v.params
  BY <1>1, <1>4, GivenDetermines
<1>6. u.namespace = v.namespace
  BY KeyParts
<1>7. Len(u.method) = 1 /\ Len(v.method) = 1
  <2>1. Len(u.method) = 1
    BY DEF IsUndotted
  <2>2. Len(Given(u.api)) + 1 = Len(Given(v.api)) + Len(v.method)
    BY <1>2, <2>1, PartsTyped
  <2>3. Len(Given(u.api)) <= 1
    <3>1. Len(<<>>) = 0
      OBVIOUS
    <3>2. Given(u.api) = <<>> \/ Len(Given(u.api)) = 1
      BY DEF IsUndotted, Given
    <3>3. Len(Given(u.api)) = 0 \/ Len(Given(u.api)) = 1
      BY <3>1, <3>2, Zenon
    <3>4. PICK l : l = Len(Given(u.api))
      OBVIOUS
    <3>5. l = 0 \/ l = 1
      BY <3>3, <3>4
    <3>6. l <= 1
      BY <3>5
    <3> QED
      BY <3>4, <3>6
  <2>4. v.api # Absent => Len(Given(v.api)) >= 1
    BY <1>1, EmptySeq DEF Names, Given
  <2>5. /\ Len(Given(u.api)) \in Nat /\ Len(Given(v.api)) \in Nat
        /\ Len(v.method) \in Nat \ {0}
    BY PartsTyped
  <2>6. CASE v.api # Absent
    <3>1. PICK a, b, m : a = Len(Given(u.api)) /\ b = Len(Given(v.api)) /\ m = Len(v.method)
      OBVIOUS
    <3>2. a + 1 = b + m /\ a <= 1 /\ b >= 1
      BY <2>2, <2>3, <2>4, <2>6, <3>1
    <3>3. a \in Nat /\ b \in Nat /\ m \in Nat \ {0}
      BY <2>5, <3>1
    <3>4. m = 1
      BY <3>2, <3>3
    <3> QED
      BY <2>1, <3>1, <3>4
  <2>7. CASE v.api = Absent
    BY <2>1, <2>7
  <2> QED
    BY <2>6, <2>7
<1>8. Given(u.api) = Given(v.api) /\ u.method = v.method
  <2>1. PICK a, b, x, y : /\ a = Given(u.api) /\ b = Given(v.api)
                          /\ x = u.method /\ y = v.method
    OBVIOUS
  <2>2. /\ a \in Seq(Tokens) /\ b \in Seq(Tokens) /\ x \in Seq(Tokens) /\ y \in Seq(Tokens)
        /\ Len(x) = 1 /\ Len(y) = 1 /\ Len(a) \in Nat
    BY <1>7, <2>1, PartsTyped
  <2>3. Len(a) = Len(b)
    <3>1. Len(a) + Len(x) = Len(b) + Len(y)
      BY <1>2, <2>1, PartsTyped
    <3>2. Len(b) \in Nat
      BY <2>1, PartsTyped
    <3> QED
      BY <2>2, <3>1, <3>2
  <2>4. a \o x = b \o y
    BY <1>3, <2>1 DEF NameOf
  <2>5. /\ \A n \in 1..Len(a) : (a \o x)[n] = a[n]
        /\ \A n \in 1..Len(x) : (a \o x)[Len(a) + n] = x[n]
        /\ \A n \in 1..Len(b) : (b \o y)[n] = b[n]
        /\ \A n \in 1..Len(y) : (b \o y)[Len(b) + n] = y[n]
    BY <2>2, ConcatTokens
  <2>6. \A n \in 1..Len(a) : a[n] = b[n]
    BY <2>3, <2>4, <2>5
  <2>7. x[1] = y[1]
    <3>1. 1 \in 1..Len(x) /\ 1 \in 1..Len(y)
      BY <2>2
    <3> QED
      BY <2>3, <2>4, <2>5, <3>1
  <2>8. a = b
    BY <2>2, <2>3, <2>6, SeqEqual
  <2>9. x = y
    BY <2>2, <2>7, SeqEqual
  <2> QED
    BY <2>1, <2>8, <2>9
<1>9. u.api = v.api
  BY <1>1, <1>8, GivenDetermines
<1> QED
  BY <1>5, <1>6, <1>8, <1>9 DEF Urns

\* A translated call has the URN of condenser_api.
LEMMA TranslatedParses ==
    ASSUME NEW u \in Urns
    PROVE  /\ Parsed(Translated(u)) \in Urns
           /\ Parsed(Translated(u)) # Absent
<1> DEFINE p == IF u.params = Absent THEN EmptyList ELSE u.params
           s == Translated(u)
           api == <<"condenser_api">>
<1>1. s.method = <<"call">> /\ s.items = <<api, u.method, p>>
  BY DEF Translated
<1>2. p \in Params /\ u.method \in Names /\ api \in Names /\ api # Number
  BY NamesAssumption, TokenIsName DEF Urns
<1>3. Parsed(s) = ParsedCall(s)
  BY <1>1 DEF Parsed
<1>4. IsCallable(s) /\ IsAppbase(s.items)
  BY <1>1, <1>2 DEF IsCallable, IsAppbase
<1>5. ParsedCall(s) = Urn("appbase", api, u.method, p)
  <2> HIDE DEF api, p
  <2> QED
    BY <1>1, <1>2, <1>4 DEF ParsedCall, CallApi
<1>6. Urn("appbase", api, u.method, p) \in Urns
  BY <1>2, NamesAssumption DEF Urn, Urns
<1> QED
  BY <1>3, <1>5, <1>6, NamesAssumption

-----------------------------------------------------------------------------
\* The memo.

\* A memo holds at most MemoSize URNs, each with the upstream of its own key.
Fresh(c, m) ==
    /\ IsFiniteSet(m) /\ Cardinality(m) <= MemoSize
    /\ \A e \in m : \E u \in Urns :
         /\ e = [key |-> Key(u), upstream |-> Upstream(c, u)]
         /\ Upstream(c, u) # Absent

\* What a lookup of urn may return: the upstream of any URN with the same key.
Answers(c, urn) == {Upstream(c, u) : u \in {v \in Urns : Key(v) = Key(urn)}}

\* What is memoised is what the tries say of the key.
LEMMA MemoAnswers ==
    ASSUME NEW m, Fresh(config, m), NEW urn \in Urns
    PROVE  FromUrn(m, urn) \in Answers(config, urn)
<1>1. CASE ~\E e \in m : Same(e, urn)
  BY <1>1 DEF FromUrn, Answers
<1>2. CASE \E e \in m : Same(e, urn)
  <2> DEFINE d == CHOOSE e \in m : Same(e, urn)
  <2>1. d \in m /\ Same(d, urn)
    BY <1>2
  <2>2. FromUrn(m, urn) = d.upstream
    BY <1>2 DEF FromUrn
  <2> HIDE DEF d
  <2>3. PICK u \in Urns : d = [key |-> Key(u), upstream |-> Upstream(config, u)]
    BY <2>1 DEF Fresh
  <2>4. Key(u) = Key(urn)
    BY <2>1, <2>3 DEF Same
  <2> QED
    BY <2>2, <2>3, <2>4 DEF Answers
<1> QED
  BY <1>1, <1>2

\* A lookup leaves such a memo.
LEMMA MemosFresh ==
    ASSUME NEW m, Fresh(config, m), NEW urn \in Urns, NEW n \in Memos(m, urn)
    PROVE  Fresh(config, n)
<1>1. CASE n = m
  BY <1>1
<1>2. CASE n # m
  <2> DEFINE new == [key |-> Key(urn), upstream |-> Upstream(config, urn)]
  <2>1. Upstream(config, urn) # Absent
    BY <1>2 DEF Memos
  <2>2. PICK k \in SUBSET m : /\ n = k \cup {new}
                               /\ Cardinality(k) < MemoSize /\ IsFiniteSet(k)
    <3>1. CASE Cardinality(m) < MemoSize
      BY <1>2, <3>1 DEF Memos, Fresh
    <3>2. CASE ~(Cardinality(m) < MemoSize)
      <4>1. PICK e \in m : n = (m \ {e}) \cup {new}
        BY <1>2, <3>2 DEF Memos
      <4>2. IsFiniteSet(m \ {e}) /\ Cardinality(m \ {e}) = Cardinality(m) - 1
        BY FS_RemoveElement DEF Fresh
      <4>3. Cardinality(m) \in Nat /\ Cardinality(m) <= MemoSize
        BY FS_CardinalityType DEF Fresh
      <4>4. Cardinality(m \ {e}) < MemoSize
        BY <4>2, <4>3, SizesAssumption
      <4> QED
        BY <4>1, <4>2, <4>4
    <3> QED
      BY <3>1, <3>2
  <2>3. IsFiniteSet(n) /\ Cardinality(n) <= Cardinality(k) + 1
    <3>1. /\ IsFiniteSet(k \cup {new})
          /\ Cardinality(k \cup {new}) = IF new \in k THEN Cardinality(k)
                                           ELSE Cardinality(k) + 1
      BY <2>2, FS_AddElement
    <3>2. Cardinality(k) \in Nat
      BY <2>2, FS_CardinalityType
    <3> QED
      BY <2>2, <3>1, <3>2
  <2>4. Cardinality(n) <= MemoSize
    <3>1. Cardinality(n) \in Nat /\ Cardinality(k) \in Nat
      BY <2>2, <2>3, FS_CardinalityType
    <3> QED
      BY <2>2, <2>3, <3>1, SizesAssumption
  <2>5. \A e \in n : \E u \in Urns :
          /\ e = [key |-> Key(u), upstream |-> Upstream(config, u)]
          /\ Upstream(config, u) # Absent
    <3>1. TAKE e \in n
    <3>2. CASE e \in k
      BY <2>2, <3>2 DEF Fresh
    <3>3. CASE e = new
      BY <2>1, <3>3
    <3> QED
      BY <2>2, <3>2, <3>3
  <2> QED
    BY <2>3, <2>4, <2>5 DEF Fresh
<1> QED
  BY <1>1, <1>2

-----------------------------------------------------------------------------
\* The inductive invariant.

Sendable ==
    {r \in [method : Names, params : Params \cup {Absent},
            items : Seq(Names \cup {Number}), index : Int] : IsRequest(r)}

\* The calls that can be made under configuration c: sent as they came, or
\* translated, and in both cases with the URN of what is sent and an upstream
\* of its key.
Made(c) ==
    {k \in {Call(r, Parsed(r), Upstream(c, u), o) : r \in Sendable, u \in Urns, o \in Requests} :
        /\ Parsed(k.original) # Absent
        /\ \/ k.sent = k.original
           \/ /\ Translates(c, Parsed(k.original))
              /\ k.sent = Translated(Parsed(k.original))
        /\ k.urn # Absent
        /\ k.upstream \in Answers(c, k.urn)
        /\ k.upstream # Absent}

IInv ==
    /\ config \in Configs
    /\ todo \in Seq(Requests)
    /\ calls \in Seq(Made(config))
    /\ Len(calls) + Len(todo) <= MaxBatch
    /\ Fresh(config, memo)

LEMMA RequestsSendable == \A r \in Requests : IsRequest(r) /\ r \in Sendable
  BY RequestsAssumption DEF IsRequest, Sendable

LEMMA TranslatedSendable ==
    ASSUME NEW u \in Urns
    PROVE  /\ Translated(u) \in Sendable
           /\ IsRequest(Translated(u))
<1> DEFINE p == IF u.params = Absent THEN EmptyList ELSE u.params
           api == <<"condenser_api">>
           it == <<api, u.method, p>>
<1>1. p \in Params /\ p \in Names /\ u.method \in Names /\ api \in Names
  BY NamesAssumption, TokenIsName DEF Urns
<1>2. it \in Seq(Names \cup {Number}) /\ Len(it) = 3
  <2> HIDE DEF p, api
  <2> QED
    BY <1>1
<1>3. <<"call">> \in Names
  BY NamesAssumption, TokenIsName
<1>4. Translated(u) = [method |-> <<"call">>, params |-> Absent, index |-> 0, items |-> it]
  BY DEF Translated
<1>5. IsCallItems(it)
  <2> HIDE DEF p, api
  <2> QED
    BY <1>1 DEF IsCallItems
<1> HIDE DEF it, p, api
<1>6. IsRequest(Translated(u))
  BY <1>2, <1>3, <1>4, <1>5 DEF IsRequest
<1> QED
  BY <1>6 DEF Sendable, IsRequest

\* A call made of r, sent as s, is one that can be made.
LEMMA CallIsMade ==
    ASSUME NEW r \in Requests, NEW s \in Sendable, NEW up,
           Parsed(r) # Absent, Parsed(s) # Absent,
           up \in Answers(config, Parsed(s)), up # Absent,
           s = r \/ (Translates(config, Parsed(r)) /\ s = Translated(Parsed(r)))
    PROVE  Call(s, Parsed(s), up, r) \in Made(config)
<1> DEFINE k == Call(s, Parsed(s), up, r)
<1>1. k.sent = s /\ k.urn = Parsed(s) /\ k.upstream = up /\ k.original = r
  BY DEF Call
<1>2. k \in {Call(x, Parsed(x), Upstream(config, u), o) : x \in Sendable, u \in Urns, o \in Requests}
  BY DEF Answers
<1> HIDE DEF k
<1>3. k \in Made(config)
  BY <1>1, <1>2 DEF Made
<1> QED
  BY <1>3 DEF k

LEMMA AcceptKeeps ==
    ASSUME IInv, todo # <<>>, NEW k \in Made(config), Accept(k)
    PROVE  /\ todo' \in Seq(Requests)
           /\ calls' \in Seq(Made(config))
           /\ Len(calls') + Len(todo') <= MaxBatch
  BY DEF IInv, Accept

LEMMA RefuseKeeps ==
    ASSUME IInv, Refuse
    PROVE  /\ todo' \in Seq(Requests)
           /\ calls' \in Seq(Made(config))
           /\ Len(calls') + Len(todo') <= MaxBatch
  BY SizesAssumption DEF IInv, Refuse

LEMMA Invariant == Spec => []IInv
<1>1. Init => IInv
  <2> SUFFICES ASSUME Init PROVE IInv
    OBVIOUS
  <2>1. Fresh(config, memo)
    BY FS_EmptySet, SizesAssumption DEF Init, Fresh
  <2> QED
    BY <2>1, SizesAssumption DEF Init, IInv
<1>2. IInv /\ [Next]_vars => IInv'
  <2> SUFFICES ASSUME IInv, [Next]_vars PROVE IInv'
    OBVIOUS
  <2>1. CASE UNCHANGED vars
    BY <2>1 DEF vars, IInv
  <2>2. ASSUME NEW n \in 1..MaxBatch, NEW batch \in [1..n -> Requests], Receive(batch)
        PROVE  IInv'
    <3>1. batch \in Seq(Requests) /\ Len(batch) = n
      BY SizesAssumption
    <3>2. config' = config /\ memo' = memo /\ todo' = batch /\ calls' = <<>>
      BY <2>2 DEF Receive
    <3>3. calls' \in Seq(Made(config)) /\ Len(calls') = 0
      BY <3>2
    <3>4. Len(calls') + Len(todo') <= MaxBatch
      BY <3>1, <3>2, <3>3, SizesAssumption
    <3> QED
      BY <3>1, <3>2, <3>3, <3>4 DEF IInv
  <2>3. CASE ConvertInvalid
    <3>1. config' = config /\ memo' = memo /\ Refuse
      BY <2>3 DEF ConvertInvalid
    <3> QED
      BY <3>1, RefuseKeeps DEF IInv
  <2>4. CASE ConvertPlain
    <3> DEFINE r == Head(todo)
               urn == Parsed(r)
    <3>1. todo # <<>> /\ r \in Requests /\ config' = config
      BY <2>4 DEF ConvertPlain, IInv
    <3>2. urn \in Urns /\ urn # Absent
      BY <2>4, <3>1, ParsedIsUrn, RequestsSendable DEF ConvertPlain
    <3>3. FromUrn(memo, urn) \in Answers(config, urn)
      BY <3>2, MemoAnswers DEF IInv
    <3>4. Fresh(config, memo')
      BY <2>4, <3>2, MemosFresh DEF ConvertPlain, IInv
    <3>5. CASE FromUrn(memo, urn) = Absent
      <4>1. Refuse
        BY <2>4, <3>5 DEF ConvertPlain
      <4> QED
        BY <3>1, <3>4, <4>1, RefuseKeeps DEF IInv
    <3>6. CASE FromUrn(memo, urn) # Absent
      <4>1. Accept(Call(r, urn, FromUrn(memo, urn), r))
        BY <2>4, <3>6 DEF ConvertPlain
      <4>2. Call(r, urn, FromUrn(memo, urn), r) \in Made(config)
        BY <3>1, <3>2, <3>3, <3>6, CallIsMade, RequestsSendable
      <4> HIDE DEF urn, r
      <4> QED
        BY <3>1, <3>4, <4>1, <4>2, AcceptKeeps DEF IInv
    <3> QED
      BY <3>5, <3>6
  <2>5. CASE ConvertTranslated
    <3> DEFINE r == Head(todo)
               urn == Parsed(r)
               sent == Translated(urn)
               after == Parsed(sent)
    <3>1. todo # <<>> /\ r \in Requests /\ config' = config
      BY <2>5 DEF ConvertTranslated, IInv
    <3>2. urn \in Urns /\ urn # Absent /\ Translates(config, urn)
      BY <2>5, <3>1, ParsedIsUrn, RequestsSendable DEF ConvertTranslated
    <3>3. sent \in Sendable /\ IsRequest(sent)
      BY <3>2, TranslatedSendable
    <3>4. after \in Urns
      BY <3>2, TranslatedParses
    <3>5. PICK m \in Memos(memo, urn) :
            /\ memo' \in Memos(m, after)
            /\ IF FromUrn(m, after) = Absent THEN Refuse
               ELSE Accept(Call(sent, after, FromUrn(m, after), r))
      BY <2>5 DEF ConvertTranslated
    <3>6. Fresh(config, m)
      BY <3>2, <3>5, MemosFresh DEF IInv
    <3>7. Fresh(config, memo')
      BY <3>4, <3>5, <3>6, MemosFresh
    <3>8. FromUrn(m, after) \in Answers(config, after)
      BY <3>4, <3>6, MemoAnswers
    <3>9. CASE FromUrn(m, after) = Absent
      BY <3>1, <3>5, <3>7, <3>9, RefuseKeeps DEF IInv
    <3>10. CASE FromUrn(m, after) # Absent
      <4>1. after # Absent
        BY <3>2, TranslatedParses
      <4>2. Call(sent, after, FromUrn(m, after), r) \in Made(config)
        BY <3>1, <3>2, <3>3, <3>8, <3>10, <4>1, CallIsMade
      <4>3. Accept(Call(sent, after, FromUrn(m, after), r))
        BY <3>5, <3>10
      <4> HIDE DEF after, sent, urn, r
      <4> QED
        BY <3>1, <3>7, <4>2, <4>3, AcceptKeeps DEF IInv
    <3> QED
      BY <3>9, <3>10
  <2> QED
    BY <2>1, <2>2, <2>3, <2>4, <2>5 DEF Next
<1> QED
  BY <1>1, <1>2, PTL DEF Spec

\* What the invariant says of one call.
LEMMA CallProperties ==
    ASSUME IInv, NEW i \in DOMAIN calls
    PROVE  /\ calls[i].original \in Requests /\ calls[i].sent \in Sendable
           /\ calls[i].urn = Parsed(calls[i].sent) /\ calls[i].urn # Absent
           /\ calls[i].upstream \in Answers(config, calls[i].urn)
           /\ calls[i].upstream # Absent
           /\ Parsed(calls[i].original) # Absent
           /\ \/ calls[i].sent = calls[i].original
              \/ /\ Translates(config, Parsed(calls[i].original))
                 /\ calls[i].sent = Translated(Parsed(calls[i].original))
<1>1. calls[i] \in Made(config)
  BY DEF IInv
<1>2. PICK r \in Sendable, u \in Urns, o \in Requests :
        calls[i] = Call(r, Parsed(r), Upstream(config, u), o)
  BY <1>1 DEF Made
<1>3. /\ calls[i].sent = r /\ calls[i].original = o
      /\ calls[i].urn = Parsed(r)
  BY <1>2 DEF Call
<1> QED
  BY <1>1, <1>3 DEF Made

-----------------------------------------------------------------------------
\* The theorems.

\* The types of the variables, and the memo stays within MemoSize.
THEOREM TypeCorrect == Spec => []TypeOK
<1>1. IInv => TypeOK
  <2> SUFFICES ASSUME IInv PROVE TypeOK
    OBVIOUS
  <2>1. \A c, u : Upstream(c, u) # Absent => Upstream(c, u).url \in Urls
    BY DEF Upstream
  <2>2. \A e \in memo : e.upstream.url \in Urls
    <3>1. TAKE e \in memo
    <3>2. PICK u \in Urns : /\ e = [key |-> Key(u), upstream |-> Upstream(config, u)]
                            /\ Upstream(config, u) # Absent
      BY DEF IInv, Fresh
    <3> QED
      BY <2>1, <3>2
  <2>3. \A i \in DOMAIN calls :
          /\ calls[i].original \in Requests
          /\ calls[i].urn # Absent
          /\ calls[i].upstream.url \in Urls
    BY <2>1, CallProperties DEF Answers
  <2>4. Len(calls) \in Nat /\ Len(todo) \in Nat
    BY DEF IInv
  <2>5. Len(todo) <= MaxBatch
    BY <2>4, SizesAssumption DEF IInv
  <2> QED
    BY <2>2, <2>3, <2>5 DEF TypeOK, IInv, Fresh
<1> QED
  BY <1>1, Invariant, PTL

\* The params of a get_state decide on its url, and on no other one.
LEMMA UrlOfKey ==
    ASSUME NEW c, NEW u \in Urns, NEW v \in Urns, Key(u) = Key(v),
           ~IsGetStateKey(Key(u))
    PROVE  Url(c, u) = Url(c, v)
<1>1. ASSUME NEW w \in Urns, Key(w) = Key(u)
      PROVE  Url(c, w) = LongestPrefix(c, "urls", Key(u))
  <2>1. ~(IsGetState(w) /\ w.params \in TransferPaths \cup OddPaths)
    <3>1. SUFFICES ASSUME IsGetState(w), w.params \in TransferPaths \cup OddPaths
                   PROVE  FALSE
      OBVIOUS
    <3>2. PICK api \in {"database_api", "condenser_api"} : w.api = <<api>>
      BY <3>1 DEF IsGetState
    <3>3. w = Urn(w.namespace, <<api>>, <<"get_state">>, w.params) /\ w.namespace \in Tokens
      BY <3>1, <3>2 DEF Urn, Urns, IsGetState
    <3>4. Key(u) = Key(Urn(w.namespace, <<api>>, <<"get_state">>, w.params))
      BY <1>1, <3>3
    <3> QED
      BY <3>1, <3>3, <3>4 DEF IsGetStateKey
  <2> QED
    BY <1>1, <2>1 DEF Url
<1> QED
  BY <1>1

\* A call is sent where its own key says, in spite of the memo and of the
\* upstream it had before its translation; only a call with the key of a
\* get_state whose params decide may get the url of another with that key.
THEOREM CallsRouted == Spec => []RoutedAsConfigured
<1>1. IInv => RoutedAsConfigured
  <2> SUFFICES ASSUME IInv, NEW i \in DOMAIN calls
               PROVE  LET urn == calls[i].urn
                          upstream == calls[i].upstream
                      IN /\ upstream.ttl = Ttl(config, urn)
                         /\ upstream.timeout = Timeout(config, urn)
                         /\ ~IsGetStateKey(Key(urn)) => upstream = Upstream(config, urn)
    BY DEF RoutedAsConfigured
  <2> DEFINE urn == calls[i].urn
             upstream == calls[i].upstream
  <2>1. urn \in Urns /\ upstream \in Answers(config, urn) /\ upstream # Absent
    BY CallProperties, ParsedIsUrn DEF Sendable
  <2>2. PICK v \in Urns : Key(v) = Key(urn) /\ upstream = Upstream(config, v)
    BY <2>1 DEF Answers
  <2> HIDE DEF urn, upstream
  <2>3. /\ Url(config, v) \in Urls
        /\ upstream = [url |-> Url(config, v), ttl |-> Ttl(config, v),
                       timeout |-> Timeout(config, v)]
    BY <2>1, <2>2 DEF Upstream
  <2>4. Ttl(config, v) = Ttl(config, urn) /\ Timeout(config, v) = Timeout(config, urn)
    BY <2>2 DEF Ttl, Timeout
  <2>5. upstream.ttl = Ttl(config, urn) /\ upstream.timeout = Timeout(config, urn)
    BY <2>3, <2>4
  <2>6. ~IsGetStateKey(Key(urn)) => upstream = Upstream(config, urn)
    <3>1. SUFFICES ASSUME ~IsGetStateKey(Key(urn)) PROVE upstream = Upstream(config, urn)
      OBVIOUS
    <3>2. Url(config, v) = Url(config, urn)
      BY <2>1, <2>2, <3>1, UrlOfKey
    <3> QED
      BY <2>3, <2>4, <3>2 DEF Upstream
  <2> QED
    BY <2>5, <2>6 DEF urn, upstream
<1> QED
  BY <1>1, Invariant, PTL

\* The meaning of a URN, whatever form the call had.
UrnMeaning(u) ==
    IF u.api = Absent THEN << <<u.namespace>>, u.method, u.params>>
    ELSE IF u.namespace \in {"steemd", "appbase"} THEN <<u.api, u.method, u.params>>
    ELSE << <<u.namespace>>, u.api, u.method, u.params>>

LEMMA MeaningOfUrn ==
    ASSUME NEW r \in Sendable, Parsed(r) # Absent, ~Malformed(r)
    PROVE  Meaning(r) = UrnMeaning(Parsed(r))
<1> USE NamesAssumption
<1>1. /\ IsRequest(r) /\ r.method \in Seq(Tokens)
      /\ r.params \in Params \cup {Absent}
  BY DEF Sendable, Names
<1>2. CASE Len(r.method) = 2
  <2> DEFINE a == r.method[1]
             b == r.method[2]
  <2>1. r.method = <<a, b>> /\ a \in Tokens /\ b \in Tokens /\ Last(r.method) = b
    BY <1>1, <1>2 DEF Last
  <2>2. Meaning(r) = << <<a>>, <<b>>, r.params>>
    <3>1. Len(<<"call">>) = 1
      OBVIOUS
    <3>2. r.method # <<"call">>
      BY <1>2, <3>1
    <3> QED
      BY <1>2, <3>2 DEF Meaning
  <2>3. CASE a \in ApiNames
    <3>1. Parsed(r) = Urn("appbase", <<a>>, <<b>>, r.params)
      BY <1>2, <2>3 DEF Parsed
    <3>2. <<a>> # Absent
      BY <2>1, TokenIsName
    <3> QED
      BY <2>2, <3>1, <3>2 DEF UrnMeaning, Urn
  <2>4. CASE a = "jsonrpc"
    <3>1. Parsed(r) = Urn("appbase", <<"jsonrpc">>, <<b>>, r.params)
      BY <1>2, <2>1, <2>4 DEF Parsed
    <3>2. <<"jsonrpc">> # Absent
      BY TokenIsName
    <3> QED
      BY <2>2, <2>4, <3>1, <3>2 DEF UrnMeaning, Urn
  <2>5. CASE a \notin ApiNames \cup {"jsonrpc"}
    <3>1. Parsed(r) = Urn(a, Absent, <<b>>, r.params)
      BY <1>2, <2>5 DEF Parsed
    <3> QED
      BY <2>1, <2>2, <3>1 DEF UrnMeaning, Urn
  <2> QED
    BY <2>3, <2>4, <2>5
<1>3. CASE Len(r.method) = 3
  <2> DEFINE a == r.method[1]
             b == r.method[2]
             c == r.method[3]
  <2>1. r.method = <<a, b, c>> /\ a \in Tokens /\ b \in Tokens /\ c \in Tokens
    BY <1>1, <1>3
  <2>2. Meaning(r) = << <<a>>, <<b>>, <<c>>, r.params>>
    <3>1. Len(<<"call">>) = 1
      OBVIOUS
    <3>2. r.method # <<"call">>
      BY <1>3, <3>1
    <3> QED
      BY <1>3, <3>2 DEF Meaning
  <2>3. a \notin {"steemd", "appbase", "jsonrpc"}
    BY <1>3 DEF Malformed
  <2>4. Parsed(r) = Urn(a, <<b>>, <<c>>, r.params)
    BY <1>3, <2>3 DEF Parsed
  <2>5. <<b>> # Absent
    BY <2>1, TokenIsName
  <2> HIDE DEF a, b, c
  <2> QED
    BY <2>2, <2>3, <2>4, <2>5 DEF UrnMeaning, Urn
<1>4. CASE r.method = <<"call">>
  <2>1. Parsed(r) = ParsedCall(r) /\ IsCallable(r)
    BY <1>4 DEF Parsed, ParsedCall
  <2>2. CallApi(r) \in Names
    BY <1>1, <2>1, CallApiIsName
  <2>3. Meaning(r) = <<CallApi(r), r.items[2],
                       IF Len(r.items) = 3 THEN r.items[3] ELSE Absent>>
    BY <1>4 DEF Meaning
  <2> QED
    BY <2>1, <2>2, <2>3 DEF ParsedCall, UrnMeaning, Urn
<1>5. CASE Len(r.method) = 1 /\ r.method # <<"call">>
  <2>1. Parsed(r) = Urn("steemd", <<"database_api">>, r.method, r.params)
    BY <1>5 DEF Parsed
  <2>2. Meaning(r) = << <<"database_api">>, r.method, r.params>>
    BY <1>5 DEF Meaning
  <2>3. <<"database_api">> # Absent
    BY TokenIsName
  <2> QED
    BY <2>1, <2>2, <2>3 DEF UrnMeaning, Urn
<1>6. CASE Len(r.method) \notin {1, 2, 3}
  <2>1. r.method # <<"call">>
    <3>1. Len(<<"call">>) = 1
      OBVIOUS
    <3> QED
      BY <1>6, <3>1
  <2> QED
    BY <1>6, <2>1 DEF Parsed
<1> QED
  BY <1>2, <1>3, <1>4, <1>5, <1>6

\* An undotted call shares its cache key with no call that means something
\* else to an upstream, when neither spells params out in its api or method.
THEOREM KeysDetermineCalls == Spec => []KeyDeterminesCall
<1>1. IInv => KeyDeterminesCall
  <2> SUFFICES ASSUME IInv, NEW i \in DOMAIN calls, NEW j \in DOMAIN calls,
                      Key(calls[i].urn) = Key(calls[j].urn), IsUndotted(calls[i].urn),
                      NamesNoParams(calls[i].urn), NamesNoParams(calls[j].urn),
                      ~Malformed(calls[i].sent), ~Malformed(calls[j].sent)
               PROVE  Meaning(calls[i].sent) = Meaning(calls[j].sent)
    BY DEF KeyDeterminesCall
  <2>1. \A k \in DOMAIN calls :
          /\ calls[k].sent \in Sendable /\ calls[k].urn # Absent
          /\ calls[k].urn = Parsed(calls[k].sent)
    BY CallProperties
  <2>2. /\ calls[i].urn \in Urns /\ calls[j].urn \in Urns
        /\ calls[j].urn.api = Absent => Len(calls[j].urn.method) = 1
    BY <2>1, ParsedIsUrn DEF Sendable
  <2>3. calls[i].urn = calls[j].urn
    BY <2>2, KeyDetermines
  <2> QED
    BY <2>1, <2>3, MeaningOfUrn
<1> QED
  BY <1>1, Invariant, PTL

\* Whatever form a call has, its meaning ends in the method and the params of its URN.
LEMMA MeaningEnds ==
    ASSUME NEW r \in Sendable, Parsed(r) # Absent
    PROVE  LET m == Meaning(r)
           IN /\ m[Len(m) - 1] = Parsed(r).method
              /\ m[Len(m)] = Parsed(r).params
<1> DEFINE u == Parsed(r)
<1>1. r.method \in Seq(Tokens)
  BY DEF Sendable, Names
<1>2. Len(<<"call">>) = 1
  OBVIOUS
<1>3. CASE Len(r.method) = 2
  <2>1. Meaning(r) = << <<r.method[1]>>, <<r.method[2]>>, r.params>>
    BY <1>2, <1>3 DEF Meaning
  <2>2. u.method = <<r.method[2]>> /\ u.params = r.params
    <3>1. Last(r.method) = r.method[2]
      BY <1>3 DEF Last
    <3> QED
      BY <1>2, <1>3, <3>1, NamesAssumption DEF Parsed, Urn
  <2> QED
    BY <2>1, <2>2
<1>4. CASE Len(r.method) = 3
  <2>1. Meaning(r) = << <<r.method[1]>>, <<r.method[2]>>, <<r.method[3]>>, r.params>>
    BY <1>2, <1>4 DEF Meaning
  <2>2. u.method = <<r.method[3]>> /\ u.params = r.params
    <3>1. Last(r.method) = r.method[3]
      BY <1>4 DEF Last
    <3> QED
      BY <1>2, <1>4, <3>1 DEF Parsed, Urn
  <2> QED
    BY <2>1, <2>2
<1>5. CASE r.method = <<"call">>
  <2> DEFINE p == IF Len(r.items) = 3 THEN r.items[3] ELSE Absent
  <2>1. Meaning(r) = <<CallApi(r), r.items[2], p>>
    BY <1>5 DEF Meaning
  <2>2. u = ParsedCall(r) /\ IsCallable(r)
    BY <1>5 DEF Parsed, ParsedCall
  <2>3. u.method = r.items[2] /\ u.params = p
    BY <2>2 DEF ParsedCall, Urn
  <2> HIDE DEF p, u
  <2> QED
    BY <2>1, <2>3 DEF u
<1>6. CASE Len(r.method) = 1 /\ r.method # <<"call">>
  <2>1. Meaning(r) = << <<"database_api">>, r.method, r.params>>
    BY <1>6 DEF Meaning
  <2>2. u.method = r.method /\ u.params = r.params
    BY <1>6 DEF Parsed, Urn
  <2> QED
    BY <2>1, <2>2
<1>7. CASE Len(r.method) \notin {1, 2, 3}
  <2>1. r.method # <<"call">>
    BY <1>7
  <2> QED
    BY <1>7, <2>1 DEF Parsed
<1> QED
  BY <1>3, <1>4, <1>5, <1>6, <1>7

\* A call goes upstream as the client wrote it, or as the same method and
\* params of condenser_api when its namespace is translated.
THEOREM CallsSentAsAsked == Spec => []SentAsAsked
<1>1. IInv => SentAsAsked
  <2> SUFFICES ASSUME IInv, NEW i \in DOMAIN calls,
                      calls[i].sent # calls[i].original
               PROVE  LET asked == Meaning(calls[i].original)
                          sent == Meaning(calls[i].sent)
                      IN /\ Translates(config, Parsed(calls[i].original))
                         /\ sent[1] = <<"condenser_api">>
                         /\ sent[2] = asked[Len(asked) - 1]
                         /\ sent[3] = IF asked[Len(asked)] = Absent THEN EmptyList
                                      ELSE asked[Len(asked)]
    BY DEF SentAsAsked
  <2> DEFINE o == calls[i].original
             u == Parsed(o)
             args == IF u.params = Absent THEN EmptyList ELSE u.params
  <2>1. /\ o \in Sendable /\ u # Absent
        /\ Translates(config, u) /\ calls[i].sent = Translated(u)
    BY CallProperties, RequestsSendable
  <2>2. /\ Meaning(o)[Len(Meaning(o)) - 1] = u.method
        /\ Meaning(o)[Len(Meaning(o))] = u.params
    BY <2>1, MeaningEnds
  <2>3. Meaning(Translated(u)) = << <<"condenser_api">>, u.method, args>>
    <3> HIDE DEF u, args
    <3>1. /\ Translated(u).method = <<"call">>
          /\ Translated(u).items = << <<"condenser_api">>, u.method, args>>
      BY DEF Translated, args
    <3>2. CallApi(Translated(u)) = <<"condenser_api">>
      BY <3>1, NamesAssumption, TokenIsName DEF CallApi
    <3> QED
      BY <3>1, <3>2 DEF Meaning
  <2>4. /\ Meaning(calls[i].sent)[1] = <<"condenser_api">>
        /\ Meaning(calls[i].sent)[2] = u.method
        /\ Meaning(calls[i].sent)[3] = args
    <3> HIDE DEF o, u, args
    <3> QED
      BY <2>1, <2>3
  <2> QED
    BY <2>1, <2>2, <2>4, Zenon
<1> QED
  BY <1>1, Invariant, PTL
=============================================================================
