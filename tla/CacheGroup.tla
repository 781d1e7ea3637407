----------------------------- MODULE CacheGroup -----------------------------
(***************************************************************************)
(* The life of a request in the caching middlewares                        *)
(* (jussi/middlewares/caching.py) over the two tiers of CacheGroup         *)
(* (jussi/cache/cache_group.py): the memory of the process and redis.      *)
(*                                                                         *)
(* get_response looks in memory without suspending, then asks redis for    *)
(* what it missed, under a timeout; a miss goes to the upstreams.  After   *)
(* the response cache_response runs as a task of its own.  A request that  *)
(* waits for redis or for an upstream lets all others run.                 *)
(*                                                                         *)
(* The memory tier is used as TtlMap says, which MemoryCache implements.   *)
(***************************************************************************)
EXTENDS Integers, Sequences, FiniteSets

CONSTANTS
    Requests,    \* the HTTP requests, each handled once
    Keys,        \* the cache keys: the URNs of the calls
    Blocks,      \* the keys of get_block calls
    Reversible,  \* the get_block keys beyond the last irreversible block
    Ttl,         \* Ttl[k]: the configured ttl of k, an integer or None
    DefaultTTL,  \* TTL.DEFAULT_TTL
    MaxTTL,      \* _max_ttl of the memory cache
    Queries,     \* the requests clients make: [batch, keys]
    HasRedis,    \* whether a redis_url is configured
    Faults,      \* what the environment may do, a subset of AllFaults
    RequestTimeout, \* what handle_jsonrpc gives a batch, at most 60 seconds
    MaxTime,     \* bound on the clock
    None

AllFaults == {"redisFails", "redisHangs", "upstreamFails", "restart"}

NoCache == -1          \* TTL.NO_CACHE
IfIrreversible == -2   \* TTL.DEFAULT_EXPIRE_IF_IRREVERSIBLE

Query == [batch : BOOLEAN, keys : Seq(Keys)]

ASSUME KeysAssumption == Reversible \subseteq Blocks /\ Blocks \subseteq Keys
ASSUME TtlAssumption ==
    /\ None \notin Int
    /\ Ttl \in [Keys -> Int \cup {None}]
    /\ DefaultTTL \in Nat \ {0}
    /\ MaxTTL \in Nat \ {0}
    /\ MaxTime \in Nat
    /\ RequestTimeout \in Nat
ASSUME QueriesAssumption ==
    /\ Queries \subseteq Query
    /\ \A q \in Queries : q.keys # <<>> /\ (~q.batch => Len(q.keys) = 1)
ASSUME SwitchesAssumption ==
    /\ HasRedis \in BOOLEAN
    /\ Faults \subseteq AllFaults

\* What an upstream answers: a result, an error, or for a get_block a null
\* (the block does not exist yet; any result without a block_id counts as one)
\* or a result whose block_id cannot be parsed ("odd").
KindsOf(k) == {"ok", "error"} \cup (IF k \in Blocks THEN {"null", "odd"} ELSE {})
Value == [key : Keys, kind : {"ok", "error", "null", "odd"}, at : Nat]
Pair == [key : Keys, val : Value, ttl : Int \cup {None}]
ASSUME NoneAssumption ==
    None \notin Query /\ None \notin Value /\ None \notin [val : Value, exp : Int \cup {None}]

VARIABLES
    memory,  \* memory[k]: [val, exp], or None; what has expired is not kept
    redis,   \* redis[k]: the same, with exp None for no expiry
    now,     \* the time, in seconds
    pc,      \* where each request is; "served" until its cache_response runs
    query,   \* what the request asks
    found,   \* found[r]: what mget has found when it awaits redis
    answer,  \* answer[r]: the response to each call of r, None while it is awaited
    hit,     \* hit[r]: the response carries x-jussi-cache-hit
    jobs,    \* jobs[r]: the set_many coroutines that have not begun
    pend     \* pend[r]: the SET commands on their way to redis

requestVars == <<pc, query, found, answer, hit>>
writerVars == <<jobs, pend>>
vars == <<memory, redis, now, requestVars, writerVars>>

Init ==
    /\ memory = [k \in Keys |-> None]
    /\ redis = [k \in Keys |-> None]
    /\ now = 0
    /\ pc = [r \in Requests |-> "new"]
    /\ query = [r \in Requests |-> None]
    /\ found = [r \in Requests |-> <<>>]
    /\ answer = [r \in Requests |-> <<>>]
    /\ hit = [r \in Requests |-> FALSE]
    /\ jobs = [r \in Requests |-> {}]
    /\ pend = [r \in Requests |-> {}]

-----------------------------------------------------------------------------
\* The tiers.

InMemory(k) == IF memory[k] = None THEN None ELSE memory[k].val
InRedis(k) == IF redis[k] = None THEN None ELSE redis[k].val

\* expire_time capped by sets.
Lifetime(ttl) == IF ttl = None THEN MaxTTL ELSE IF ttl > MaxTTL THEN MaxTTL ELSE ttl

\* sets and set_manys of the memory cache: before each pair prune may delete
\* one entry that has not expired.  What expires at once was never there.
StoreInMemory(pairs) ==
    \E F \in SUBSET Keys :
        /\ Cardinality(F) <= Cardinality(pairs)
        /\ \E p \in pairs : p.key \notin F
        /\ memory' = [k \in Keys |->
             IF k \in F THEN None
             ELSE IF \E p \in pairs : p.key = k
               THEN LET p == CHOOSE p \in pairs : p.key = k IN
                      IF Lifetime(p.ttl) <= 0 THEN None
                      ELSE [val |-> p.val, exp |-> now + Lifetime(p.ttl)]
             ELSE memory[k]]

-----------------------------------------------------------------------------
\* get_response.

HasResult(v) == v.kind # "error"

\* is_valid_non_error_jussi_response for the call with key k.
Valid(k, v) == HasResult(v) /\ (k \in Blocks => v.kind = "ok")

\* A response for every call.  merge_cached_response raises on a cached error,
\* which get_response handles like a miss.
Complete(q, results) ==
    \A i \in DOMAIN q.keys : results[i] # None /\ Valid(q.keys[i], results[i])

\* On to handle_jsonrpc, which asks the upstreams for every call of q,
\* whatever the cache had.
StartFetching(r, q) ==
    /\ pc' = [pc EXCEPT ![r] = "fetching"]
    /\ answer' = [answer EXCEPT ![r] = [i \in DOMAIN q.keys |-> None]]
    /\ UNCHANGED hit

\* Respond from the cache, or go on to the upstreams.
Conclude(r, q, results) ==
    IF Complete(q, results)
      THEN /\ pc' = [pc EXCEPT ![r] = "served"]
           /\ answer' = [answer EXCEPT ![r] = results]
           /\ hit' = [hit EXCEPT ![r] = TRUE]
      ELSE StartFetching(r, q)

\* Up to the first await: a single call that must not be cached is not looked
\* up; one found in memory is not asked from redis.
Arrive(r) ==
    /\ pc[r] = "new"
    /\ \E q \in Queries :
         LET results == [i \in DOMAIN q.keys |-> InMemory(q.keys[i])]
             all == \A i \in DOMAIN q.keys : results[i] # None
         IN  /\ query' = [query EXCEPT ![r] = q]
             /\ IF ~q.batch /\ Ttl[q.keys[1]] = NoCache
                  THEN StartFetching(r, q) /\ UNCHANGED found
                ELSE IF HasRedis /\ ~all
                  THEN /\ pc' = [pc EXCEPT ![r] = "reading"]
                       /\ found' = [found EXCEPT ![r] = results]
                       /\ UNCHANGED <<answer, hit>>
                ELSE /\ Conclude(r, q, results)
                     /\ UNCHANGED found
    /\ UNCHANGED <<memory, redis, now, jobs, pend>>

\* MUTANT: redis is asked for all keys, and its reply laid over the gaps.
Filled_AllKeys(r) ==
    LET gap(i) == Cardinality({j \in 1..i : found[r][j] = None}) IN
      [i \in DOMAIN found[r] |->
          IF found[r][i] # None THEN found[r][i]
          ELSE InRedis(query[r].keys[gap(i)])]

\* `[existing or next(cache_iter) ...]` after the mget of the missing keys:
\* the n-th gap takes the n-th value of the reply.
Filled(r) ==
    LET gaps == {i \in DOMAIN found[r] : found[r][i] = None}
        gap(i) == Cardinality({j \in gaps : j <= i})
        asked(n) == query[r].keys[CHOOSE j \in gaps : gap(j) = n]
    IN  [i \in DOMAIN found[r] |->
            IF i \in gaps THEN InRedis(asked(gap(i))) ELSE found[r][i]]

RedisReply(r) ==
    /\ pc[r] = "reading"
    /\ Conclude(r, query[r], Filled(r))
    /\ found' = [found EXCEPT ![r] = <<>>]
    /\ UNCHANGED <<memory, redis, now, query, jobs, pend>>

\* MUTANT: only the read of a single call is under the timeout.
GiveUpReading_SingleOnly(r) ==
    /\ pc[r] = "reading"
    /\ ~query[r].batch
    /\ StartFetching(r, query[r])
    /\ found' = [found EXCEPT ![r] = <<>>]
    /\ UNCHANGED <<memory, redis, now, query, writerVars>>

\* cache_read_timeout, or an error of redis.
GiveUpReading(r) ==
    /\ pc[r] = "reading"
    /\ Faults \cap {"redisFails", "redisHangs"} # {}
    /\ StartFetching(r, query[r])
    /\ found' = [found EXCEPT ![r] = <<>>]
    /\ UNCHANGED <<memory, redis, now, query, writerVars>>

-----------------------------------------------------------------------------
\* The upstreams' answers.

\* MUTANT: the first response of a batch ends the wait for the others.
Fetched_FirstOnly(r) ==
    /\ pc[r] = "fetching"
    /\ \E i \in DOMAIN answer[r] : \E kind \in KindsOf(query[r].keys[i]) :
         answer' = [answer EXCEPT ![r][i] =
                       [key |-> query[r].keys[i], kind |-> kind, at |-> now]]
    /\ pc' = [pc EXCEPT ![r] = "served"]
    /\ UNCHANGED <<memory, redis, now, query, found, hit, jobs, pend>>

\* A response for one of the calls; gather returns with the last.
Fetched(r) ==
    /\ pc[r] = "fetching"
    /\ \E i \in DOMAIN answer[r] :
         /\ answer[r][i] = None
         /\ \E kind \in KindsOf(query[r].keys[i]) :
              answer' = [answer EXCEPT ![r][i] =
                            [key |-> query[r].keys[i], kind |-> kind, at |-> now]]
         /\ pc' = IF \E j \in DOMAIN answer[r] : j # i /\ answer[r][j] = None
                    THEN pc ELSE [pc EXCEPT ![r] = "served"]
    /\ UNCHANGED <<memory, redis, now, query, found, hit, jobs, pend>>

\* The request is over.
End(r, how) ==
    /\ pc' = [pc EXCEPT ![r] = how]
    /\ query' = [query EXCEPT ![r] = None]
    /\ found' = [found EXCEPT ![r] = <<>>]
    /\ answer' = [answer EXCEPT ![r] = <<>>]
    /\ hit' = [hit EXCEPT ![r] = FALSE]

\* A timeout or an exception: the response carries x-jussi-error-id, which
\* cache_response leaves alone.
FetchFails(r) ==
    /\ pc[r] = "fetching"
    /\ "upstreamFails" \in Faults
    /\ End(r, "failed")
    /\ UNCHANGED <<memory, redis, now, writerVars>>

-----------------------------------------------------------------------------
\* cache_response.

\* The ttl of a -2 call: the default whenever a block number could be looked
\* for, whatever it is.
IrreversibleTtl(v) == IF v.kind = "odd" THEN NoCache ELSE DefaultTTL

\* MUTANT: whatever a single call was answered is stored.
SinglePairs_Unchecked(k, v) ==
    IF Ttl[k] = NoCache THEN {}
    ELSE {[key |-> k, val |-> v,
           ttl |-> IF Ttl[k] = IfIrreversible THEN IrreversibleTtl(v) ELSE Ttl[k]]}

\* cache_single_jsonrpc_response: what prepare_response_for_cache refuses is
\* not stored.
SinglePairs(k, v) ==
    IF Ttl[k] = NoCache \/ ~Valid(k, v) THEN {}
    ELSE {[key |-> k, val |-> v,
           ttl |-> IF Ttl[k] = IfIrreversible THEN IrreversibleTtl(v) ELSE Ttl[k]]}

\* MUTANT: one -2 call makes the whole batch irreversible.
BatchPairs_AnyIrreversible(keys, vals) ==
    LET anyIrreversible == \E i \in DOMAIN keys : Ttl[keys[i]] = IfIrreversible
        ttl(i) == IF anyIrreversible THEN IrreversibleTtl(vals[i]) ELSE Ttl[keys[i]]
        stored == {i \in DOMAIN keys : ttl(i) # NoCache}
    IN  {[key |-> keys[i], val |-> vals[i], ttl |-> ttl(i)] :
            i \in {j \in stored : \A l \in stored : l > j => keys[l] # keys[j]}}

\* cache_batch_jsonrpc_response: in a batch of -2 calls only each gets the ttl
\* of its block; in a mixed one new_ttls is dropped and -2 is stored.  Errors
\* are stored like results.
BatchPairs(keys, vals) ==
    LET allIrreversible == \A i \in DOMAIN keys : Ttl[keys[i]] = IfIrreversible
        ttl(i) == IF allIrreversible THEN IrreversibleTtl(vals[i]) ELSE Ttl[keys[i]]
        stored == {i \in DOMAIN keys : ttl(i) # NoCache}
    IN  {[key |-> keys[i], val |-> vals[i], ttl |-> ttl(i)] :
            i \in {j \in stored : \A l \in stored : l > j => keys[l] # keys[j]}}

\* MUTANT: a response that came from the cache is cached again.
ToCache_Hits(r) ==
    LET q == query[r] IN
      IF q.batch THEN BatchPairs(q.keys, answer[r])
      ELSE SinglePairs(q.keys[1], answer[r][1])

\* What cache_response stores; nothing for a response from the cache.
ToCache(r) ==
    LET q == query[r] IN
      IF hit[r] THEN {}
      ELSE IF q.batch THEN BatchPairs(q.keys, answer[r])
      ELSE SinglePairs(q.keys[1], answer[r][1])

Grouped(pairs) == {{p \in pairs : p.ttl = t} : t \in {p.ttl : p \in pairs}}

\* The task of cache_response runs: memory is written at once; a single call
\* then sends its SET, a batch leaves one set_many per ttl to be scheduled.
CacheResponse(r) ==
    /\ pc[r] = "served"
    /\ End(r, "done")
    /\ LET pairs == ToCache(r) IN
         /\ IF pairs = {} THEN UNCHANGED memory ELSE StoreInMemory(pairs)
         /\ IF query[r].batch
              THEN /\ jobs' = [jobs EXCEPT ![r] = Grouped(pairs)]
                   /\ UNCHANGED pend
              ELSE /\ pend' = [pend EXCEPT ![r] = IF HasRedis THEN pairs ELSE {}]
                   /\ UNCHANGED jobs
    /\ UNCHANGED <<redis, now>>

\* set_many of CacheGroup writes memory once more before its pipeline.
SetMany(r) ==
    /\ \E group \in jobs[r] :
         /\ jobs' = [jobs EXCEPT ![r] = @ \ {group}]
         /\ StoreInMemory(group)
         /\ pend' = [pend EXCEPT ![r] = IF HasRedis THEN @ \cup group ELSE @]
    /\ UNCHANGED <<redis, now, requestVars>>

\* redis runs SET key value [EX ttl]; it refuses an EX that is not positive.
RedisSet(r) ==
    /\ \E p \in pend[r] :
         /\ pend' = [pend EXCEPT ![r] = @ \ {p}]
         /\ redis' = IF p.ttl # None /\ p.ttl <= 0 THEN redis
                     ELSE [redis EXCEPT ![p.key] =
                             [val |-> p.val,
                              exp |-> IF p.ttl = None THEN None ELSE now + p.ttl]]
    /\ UNCHANGED <<memory, now, requestVars, jobs>>

RedisSetFails(r) ==
    /\ "redisFails" \in Faults
    /\ \E p \in pend[r] : pend' = [pend EXCEPT ![r] = @ \ {p}]
    /\ UNCHANGED <<memory, redis, now, requestVars, jobs>>

\* The process dies and a new one starts: redis keeps its contents, and gets
\* those commands that were already sent.
Restart ==
    /\ "restart" \in Faults
    /\ memory' = [k \in Keys |-> None]
    /\ pc' = [r \in Requests |-> IF pc[r] = "new" THEN "new" ELSE "failed"]
    /\ query' = [r \in Requests |-> None]
    /\ found' = [r \in Requests |-> <<>>]
    /\ answer' = [r \in Requests |-> <<>>]
    /\ hit' = [r \in Requests |-> FALSE]
    /\ jobs' = [r \in Requests |-> {}]
    /\ \E sent \in SUBSET UNION {pend[r] : r \in Requests} :
          pend' = [r \in Requests |-> pend[r] \cap sent]
    /\ UNCHANGED <<redis, now>>

\* What is left of a tier in the next second.
Unexpired(d) ==
    [k \in Keys |-> IF d[k] # None /\ d[k].exp # None /\ d[k].exp <= now + 1
                      THEN None ELSE d[k]]

\* The responses of a batch wait for its last one, as long as its timeout lets
\* them: it began before the first of them came.
MayWait(r) ==
    pc[r] = "fetching" =>
        \A i \in DOMAIN answer[r] :
            answer[r][i] # None => now < answer[r][i].at + RequestTimeout

\* A second passes.  Ready tasks of the event loop run within their second.
Tick ==
    /\ now < MaxTime
    /\ \A r \in Requests : pc[r] # "served" /\ jobs[r] = {} /\ MayWait(r)
    /\ now' = now + 1
    /\ memory' = Unexpired(memory)
    /\ redis' = Unexpired(redis)
    /\ UNCHANGED <<requestVars, writerVars>>

-----------------------------------------------------------------------------
RequestStep(r) ==
    \/ Arrive(r) \/ RedisReply(r) \/ GiveUpReading(r) \/ Fetched(r) \/ FetchFails(r)
WriterStep(r) == CacheResponse(r) \/ SetMany(r) \/ RedisSet(r) \/ RedisSetFails(r)

Next ==
    \/ \E r \in Requests : RequestStep(r) \/ WriterStep(r)
    \/ Restart
    \/ Tick

Spec == Init /\ [][Next]_vars

\* cache_read_timeout fires, and the upstreams answer or the request times out.
\* redis may hang for ever.
Fairness ==
    \A r \in Requests :
        WF_vars(GiveUpReading(r)) /\ WF_vars(Fetched(r) \/ FetchFails(r))

FairSpec == Spec /\ Fairness

-----------------------------------------------------------------------------
\* Properties.

Entry(exps) == [val : Value, exp : exps]

\* Every variable has its type; a request that awaits redis or the upstreams
\* has one slot per call, and one that was served one response per call.
TypeOK ==
    /\ memory \in [Keys -> Entry(Int) \cup {None}]
    /\ redis \in [Keys -> Entry(Int \cup {None}) \cup {None}]
    /\ now \in Nat
    /\ pc \in [Requests -> {"new", "reading", "fetching", "served", "done", "failed"}]
    /\ query \in [Requests -> Queries \cup {None}]
    /\ found \in [Requests -> Seq(Value \cup {None})]
    /\ answer \in [Requests -> Seq(Value \cup {None})]
    /\ hit \in [Requests -> BOOLEAN]
    /\ jobs \in [Requests -> SUBSET SUBSET Pair]
    /\ pend \in [Requests -> SUBSET Pair]
    /\ \A r \in Requests :
         /\ query[r] = None <=> pc[r] \in {"new", "done", "failed"}
         /\ pc[r] = "reading" => DOMAIN found[r] = DOMAIN query[r].keys
         /\ pc[r] \in {"fetching", "served"} => DOMAIN answer[r] = DOMAIN query[r].keys
         /\ pc[r] = "served" => \A i \in DOMAIN answer[r] : answer[r][i] # None

ServedFromCache(r) == pc[r] = "served" /\ hit[r]

\* Every response of a batch served from the cache was given to a call with
\* the same key, however memory and redis shared the answers between them and
\* whatever changed in memory while redis was asked.
HitsAligned ==
    \A r \in Requests : ServedFromCache(r) =>
        \A i \in DOMAIN query[r].keys : answer[r][i].key = query[r].keys[i]

\* The call with key k may come in a batch.
InBatch(k) == \E q \in Queries : q.batch /\ \E i \in DOMAIN q.keys : q.keys[i] = k

\* Either tier has an invalid response (an error, a block that is missing or
\* cannot be read) only under a key that batches ask for: what
\* prepare_response_for_cache refuses has no other way into a cache.
InvalidFromBatches ==
    \A k \in Keys : ~InBatch(k) =>
        /\ InMemory(k) # None => Valid(k, InMemory(k))
        /\ InRedis(k) # None => Valid(k, InRedis(k))

\* A call whose ttl is -1 is never answered from a cache, alone or in a batch
\* with calls of any other ttl.
NoCacheNotServed ==
    \A r \in Requests : ServedFromCache(r) =>
        \A i \in DOMAIN query[r].keys : Ttl[query[r].keys[i]] # NoCache

\* Neither being read nor being written twice prolongs the life of a response:
\* it leaves memory when a lifetime is over that began with its first store,
\* which is at most the timeout of its batch after the upstream gave it.
MemoryNotRenewed ==
    \A k \in Keys : memory[k] # None =>
        memory[k].exp <= memory[k].val.at + RequestTimeout +
            (IF Ttl[k] = IfIrreversible THEN Lifetime(DefaultTTL) ELSE Lifetime(Ttl[k]))

\* README.md:148 "if response is valid, and response is not a jsonrpc error
\* response, determine the cache ttl": an error never enters the cache.
ErrorsNotCached ==
    \A k \in Keys : InMemory(k) # None => HasResult(InMemory(k))

\* README.md:68 "`-2` will be cached without expiration only if it is still
\* irreversible on chain": a block that can still change is not cached.
ReversibleNotCached ==
    \A k \in Reversible : InMemory(k) = None

\* Every request that waits is answered or fails, even when redis hangs.
Answered ==
    \A r \in Requests :
        pc[r] \in {"reading", "fetching"} ~> pc[r] \in {"served", "done", "failed"}
=============================================================================
