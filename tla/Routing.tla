------------------------------ MODULE Routing -------------------------------
(***************************************************************************)
(* How the calls of an HTTP request become JSONRPCRequest objects: the URN *)
(* of a call (jussi/urn.py), its upstream by longest prefix                *)
(* (jussi/upstream.py), and the translation of old steemd calls to appbase *)
(* (jussi/request/jsonrpc.py).                                             *)
(*                                                                         *)
(* A string is the sequence of its tokens between the dots: a method, an   *)
(* api, and the params, which stand as the text that a URN has for them,   *)
(* "params=" and their JSON.  The list given to the method `call` is       *)
(* spelled out in items, where a numeric api stands as Number with its     *)
(* value in index; nothing checks the strings in it, dots included.        *)
(***************************************************************************)
EXTENDS Integers, Sequences, FiniteSets, SequencesExt

CONSTANTS
    Tokens,        \* what may stand between dots
    ParamsTokens,  \* the tokens that begin with "params="
    Params,        \* params of calls
    Requests,      \* calls: [method, params, items, index]
    MaxBatch,      \* the longest batch
    Configs,       \* configurations: sequences of [name, translate, urls, ttls, timeouts]
    Urls,          \* what starts with ws or http
    ApiNames,      \* names that end in "_api"
    DictParams,    \* the params that are JSON objects
    EmptyList,     \* the params []
    TransferPaths, \* params for which ACCOUNT_TRANSFER_PATTERN matches
    OddPaths,      \* params that are a list of one item which is no string
    TransferUrl,   \* JUSSI_ACCOUNT_TRANSFER_STEEMD_URL
    Number,
    MemoSize,      \* the size of the lru_cache of Upstream.from_urn
    Absent         \* _empty, None

STEEMD_NUMERIC_API_MAPPING == << <<"database_api">>, <<"login_api">> >>

Names == Seq(Tokens) \ {<<>>}

\* The items of a call that is not refused at once.
IsCallItems(items) ==
    /\ items[1] \in Names \cup {Number}
    /\ items[2] \in Names
    /\ Len(items) = 3 => items[3] \in Params

Urns == [namespace : Tokens, api : Names \cup {Absent},
         method : Names, params : Params \cup {Absent}]

ASSUME NamesAssumption ==
    /\ {"steemd", "appbase", "jsonrpc", "condenser_api", "database_api",
        "login_api", "call"} \subseteq Tokens \ ParamsTokens
    /\ {"steemd", "appbase", "jsonrpc"} \cap ApiNames = {}
    /\ Params \subseteq Names
    /\ \A p \in Params : p[1] \in ParamsTokens
    /\ EmptyList \in Params
    /\ OddPaths \cap TransferPaths = {}
    /\ Number \notin Names
    /\ Absent \notin Names \cup Urls \cup Urns

ASSUME RequestsAssumption ==
    \A r \in Requests :
        /\ r \in [method : Names, params : Params \cup {Absent},
                  items : Seq(Names \cup {Number}), index : Int]
        /\ Len(r.items) \in {2, 3} => IsCallItems(r.items)

ASSUME SizesAssumption == MemoSize \in Nat \ {0} /\ MaxBatch \in Nat \ {0}

VARIABLES
    config,  \* the configuration, read at start
    memo,    \* the lru_cache of Upstream.from_urn: [key, upstream] records
    todo,    \* the calls of the HTTP request that are yet to be converted
    calls    \* the JSONRPCRequest objects made of the others

vars == <<config, memo, todo, calls>>

Init ==
    /\ config \in Configs
    /\ memo = {}
    /\ todo = <<>>
    /\ calls = <<>>

-----------------------------------------------------------------------------
\* The URN of a call.

Urn(namespace, api, method, params) ==
    [namespace |-> namespace, api |-> api, method |-> method, params |-> params]

\* Indexing as Python does it, where the last element is number -1.
At(s, i) == s[IF i < 0 THEN Len(s) + i + 1 ELSE i + 1]

IsIndex(s, i) == -Len(s) <= i /\ i < Len(s)

CallApi(r) ==
    IF r.items[1] = Number THEN At(STEEMD_NUMERIC_API_MAPPING, r.index)
                           ELSE r.items[1]

IsCallable(r) ==
    /\ Len(r.items) \in {2, 3}
    /\ r.items[1] = Number => IsIndex(STEEMD_NUMERIC_API_MAPPING, r.index)

IsAppbase(items) ==
    \/ Len(items) = 2
    \/ items[1] \in {<<"condenser_api">>, <<"jsonrpc">>}
    \/ items[3] \in DictParams

\* The method `call`: [api, method, params], or [api, method].
ParsedCall(r) ==
    IF IsCallable(r)
      THEN Urn(IF IsAppbase(r.items) THEN "appbase" ELSE "steemd",
               CallApi(r), r.items[2],
               IF Len(r.items) = 3 THEN r.items[3] ELSE Absent)
      ELSE Absent

\* The URN, or Absent for an invalid namespace.
Parsed(r) ==
    CASE Len(r.method) = 2 /\ r.method[1] \in ApiNames ->
           Urn("appbase", <<r.method[1]>>, <<r.method[2]>>, r.params)
      [] Len(r.method) \in {2, 3} /\ r.method[1] = "jsonrpc" ->
           Urn("appbase", <<"jsonrpc">>, <<Last(r.method)>>, r.params)
      [] Len(r.method) = 2 /\ r.method[1] \notin ApiNames \cup {"jsonrpc"} ->
           Urn(r.method[1], Absent, <<r.method[2]>>, r.params)
      [] Len(r.method) = 3 /\ r.method[1] # "jsonrpc" ->
           Urn(r.method[1], <<r.method[2]>>, <<r.method[3]>>, r.params)
      [] r.method = <<"call">> -> ParsedCall(r)
      [] Len(r.method) = 1 /\ r.method # <<"call">> ->
           Urn("steemd", <<"database_api">>, r.method, r.params)
      [] OTHER -> Absent

Given(part) == IF part = Absent THEN <<>> ELSE part

\* MUTANT: empty params are left out.
Key_Falsy(urn) ==
    <<urn.namespace>> \o Given(urn.api) \o urn.method
        \o (IF urn.params = EmptyList THEN <<>> ELSE Given(urn.params))

\* str(urn), by which calls are routed and responses cached: the parts joined
\* with dots, whatever dots are in them.
Key(urn) ==
    <<urn.namespace>> \o Given(urn.api) \o urn.method \o Given(urn.params)

-----------------------------------------------------------------------------
\* Upstreams.

\* The entries of a trie of the configuration c, in the order in which they are put into it.
Entries(c, field) == FlattenSeq([i \in DOMAIN c |-> c[i][field]])

\* The value of the longest prefix of a key; the last of equal ones counts.
LongestPrefix(c, field, key) ==
    LET entries == Entries(c, field)
        fit == {i \in DOMAIN entries : IsPrefix(entries[i].prefix, key)}
        better(i, j) == \/ Len(entries[i].prefix) > Len(entries[j].prefix)
                        \/ entries[i].prefix = entries[j].prefix /\ i >= j
    IN IF fit = {} THEN Absent
       ELSE entries[CHOOSE i \in fit : \A j \in fit : better(i, j)].value

IsGetState(urn) ==
    /\ urn.api \in {<<"database_api">>, <<"condenser_api">>}
    /\ urn.method = <<"get_state">>

\* "certain steemd.get_state paths must be routed differently"; to match what
\* is no string raises a TypeError.
Url(c, urn) ==
    CASE IsGetState(urn) /\ urn.params \in OddPaths -> Absent
      [] IsGetState(urn) /\ urn.params \in TransferPaths /\ TransferUrl # Absent ->
           TransferUrl
      [] OTHER -> LongestPrefix(c, "urls", Key(urn))

Ttl(c, urn) == LongestPrefix(c, "ttls", Key(urn))

Timeout(c, urn) ==
    LET timeout == LongestPrefix(c, "timeouts", Key(urn))
    IN IF timeout = 0 THEN Absent ELSE timeout

\* What the tries say, or Absent when url raises.
Upstream(c, urn) ==
    IF Url(c, urn) \in Urls
      THEN [url |-> Url(c, urn), ttl |-> Ttl(c, urn), timeout |-> Timeout(c, urn)]
      ELSE Absent

\* URN.__eq__, which compares their strings.
Same(entry, urn) == entry.key = Key(urn)

\* Upstream.from_urn, memoised; the memos of url, ttl and timeout below it go
\* by the same key.
FromUrn(m, urn) ==
    IF \E e \in m : Same(e, urn) THEN (CHOOSE e \in m : Same(e, urn)).upstream
                                 ELSE Upstream(config, urn)

\* MUTANT: the memo forgets nothing.
Memos_Unbounded(m, urn) ==
    IF Upstream(config, urn) = Absent THEN {m}
    ELSE {m \cup {[key |-> Key(urn), upstream |-> Upstream(config, urn)]}}

\* The memos after a lookup: what raises is not kept, a full memo forgets one.
Memos(m, urn) ==
    IF Upstream(config, urn) = Absent \/ \E e \in m : Same(e, urn) THEN {m}
    ELSE LET new == [key |-> Key(urn), upstream |-> Upstream(config, urn)]
         IN IF Cardinality(m) < MemoSize THEN {m \cup {new}}
            ELSE {(m \ {e}) \cup {new} : e \in m}

-----------------------------------------------------------------------------
\* An HTTP request with one call or a batch of them.

Translates(c, urn) ==
    \E i \in DOMAIN c : c[i].translate /\ c[i].name = urn.namespace

\* MUTANT: params that are absent stay absent.
Translated_NoParams(urn) ==
    [method |-> <<"call">>, params |-> Absent, index |-> 0,
     items |-> <<<<"condenser_api">>, urn.method>>
                  \o (IF urn.params = Absent THEN <<>> ELSE <<urn.params>>)]

\* JSONRPCRequest.translate_to_appbase.
Translated(urn) ==
    [method |-> <<"call">>, params |-> Absent, index |-> 0,
     items |-> <<<<"condenser_api">>, urn.method,
                 IF urn.params = Absent THEN EmptyList ELSE urn.params>>]

Call(r, urn, upstream, original) ==
    [sent |-> r, urn |-> urn, upstream |-> upstream, original |-> original]

Receive(batch) ==
    /\ todo = <<>>
    /\ todo' = batch
    /\ calls' = <<>>
    /\ UNCHANGED <<config, memo>>

\* An exception in one call makes the whole HTTP request an InvalidRequest.
Refuse ==
    /\ todo' = <<>>
    /\ calls' = <<>>

Accept(call) ==
    /\ todo' = Tail(todo)
    /\ calls' = Append(calls, call)

ConvertInvalid ==
    /\ todo # <<>>
    /\ Parsed(Head(todo)) = Absent
    /\ Refuse
    /\ UNCHANGED <<config, memo>>

\* from_http_request for a call that is sent as it is.
ConvertPlain ==
    /\ todo # <<>>
    /\ LET urn == Parsed(Head(todo)) IN
         /\ urn # Absent
         /\ memo' \in Memos(memo, urn)
         /\ IF FromUrn(memo, urn) = Absent THEN Refuse
            ELSE /\ ~Translates(config, urn)
                 /\ Accept(Call(Head(todo), urn, FromUrn(memo, urn), Head(todo)))
    /\ UNCHANGED config

\* MUTANT: a translated call keeps the upstream it had before.
ConvertTranslated_OldUpstream ==
    /\ todo # <<>>
    /\ LET urn == Parsed(Head(todo)) IN
         /\ urn # Absent
         /\ FromUrn(memo, urn) # Absent
         /\ Translates(config, urn)
         /\ memo' \in Memos(memo, urn)
         /\ Accept(Call(Translated(urn), Parsed(Translated(urn)),
                        FromUrn(memo, urn), Head(todo)))
    /\ UNCHANGED config

\* from_http_request for a call of a namespace that translates: it gets its
\* upstream before the translation, and another one after it.
ConvertTranslated ==
    /\ todo # <<>>
    /\ LET urn == Parsed(Head(todo)) IN
         /\ urn # Absent
         /\ FromUrn(memo, urn) # Absent
         /\ Translates(config, urn)
         /\ LET sent == Translated(urn)
                after == Parsed(sent)
            IN \E m \in Memos(memo, urn) :
                 /\ memo' \in Memos(m, after)
                 /\ IF FromUrn(m, after) = Absent THEN Refuse
                    ELSE Accept(Call(sent, after, FromUrn(m, after), Head(todo)))
    /\ UNCHANGED config

Next ==
    \/ \E n \in 1..MaxBatch : \E batch \in [1..n -> Requests] : Receive(batch)
    \/ ConvertInvalid
    \/ ConvertPlain
    \/ ConvertTranslated

Spec == Init /\ [][Next]_vars

-----------------------------------------------------------------------------
\* Properties.

\* What an upstream does for a call: the api, the method and its params.
Meaning(r) ==
    CASE r.method = <<"call">> ->
           <<CallApi(r), r.items[2], IF Len(r.items) = 3 THEN r.items[3] ELSE Absent>>
      [] Len(r.method) = 1 /\ r.method # <<"call">> ->
           << <<"database_api">>, r.method, r.params>>
      [] Len(r.method) = 2 -> << <<r.method[1]>>, <<r.method[2]>>, r.params>>
      [] Len(r.method) = 3 ->
           << <<r.method[1]>>, <<r.method[2]>>, <<r.method[3]>>, r.params>>

\* What jussi accepts and no upstream understands: a negative api number, and
\* a namespace that jussi adds itself, written before an api and a method.
Malformed(r) ==
    \/ r.method = <<"call">> /\ r.items[1] = Number /\ r.index < 0
    \/ Len(r.method) = 3 /\ r.method[1] \in {"steemd", "appbase", "jsonrpc"}

\* Every variable has its type; the memo stays within its size.
TypeOK ==
    /\ config \in Configs
    /\ todo \in Seq(Requests) /\ Len(todo) <= MaxBatch
    /\ Len(calls) + Len(todo) <= MaxBatch
    /\ \A i \in DOMAIN calls :
         /\ calls[i].original \in Requests
         /\ calls[i].urn # Absent
         /\ calls[i].upstream.url \in Urls
    /\ Cardinality(memo) <= MemoSize
    /\ \A e \in memo : e.upstream.url \in Urls

\* The key of a get_state whose params decide on the url.  The same key may
\* be that of another call, one whose method spells these params out.
IsGetStateKey(key) ==
    \E namespace \in Tokens, api \in {"database_api", "condenser_api"},
       params \in TransferPaths \cup OddPaths :
         key = Key(Urn(namespace, <<api>>, <<"get_state">>, params))

\* A call goes where the most specific entries for its own key say, whatever
\* was memoised for other calls and for the same call before translation.
\* Only a get_state can get the url of a call that shares its key.
RoutedAsConfigured ==
    \A i \in DOMAIN calls :
        LET urn == calls[i].urn
            upstream == calls[i].upstream
        IN /\ upstream.ttl = Ttl(config, urn)
           /\ upstream.timeout = Timeout(config, urn)
           /\ ~IsGetStateKey(Key(urn)) => upstream = Upstream(config, urn)

\* No token of the api or the method of urn could begin the params.
NamesNoParams(urn) ==
    LET name == Given(urn.api) \o urn.method
    IN \A n \in DOMAIN name : name[n] \notin ParamsTokens

\* The api and the method of urn have no dots, as in every call but `call`.
IsUndotted(urn) == Len(urn.method) = 1 /\ (urn.api # Absent => Len(urn.api) = 1)

\* An undotted call shares its cache key with no other call, dotted or not,
\* as long as neither spells params out in its name: the response to one may
\* be served for the other.  Two calls of one batch stand for any two calls.
KeyDeterminesCall ==
    \A i, j \in DOMAIN calls :
        LET u == calls[i].urn
            v == calls[j].urn
        IN /\ Key(u) = Key(v)
           /\ IsUndotted(u) /\ NamesNoParams(u) /\ NamesNoParams(v)
           /\ ~Malformed(calls[i].sent) /\ ~Malformed(calls[j].sent)
           => Meaning(calls[i].sent) = Meaning(calls[j].sent)

\* What is sent is what the client asked for: unchanged, or translated to the
\* same method and params of condenser_api.
SentAsAsked ==
    \A i \in DOMAIN calls :
        LET asked == Meaning(calls[i].original)
            sent == Meaning(calls[i].sent)
        IN \/ sent = asked
           \/ /\ Translates(config, Parsed(calls[i].original))
              /\ sent[1] = <<"condenser_api">>
              /\ sent[2] = asked[Len(asked) - 1]
              /\ sent[3] = IF asked[Len(asked)] = Absent THEN EmptyList
                           ELSE asked[Len(asked)]
=============================================================================
