# A verification of jussi in TLA+

jussi is a JSON-RPC proxy: an asyncio (sanic) server that takes single and batch
JSON-RPC requests over HTTP, answers them from a two-tier cache where it may,
and otherwise from upstream nodes over HTTP or over pooled websocket
connections. This directory models the parts of it that keep state across
awaits, checks them with TLC on small instances, and proves the most important
invariants with TLAPS for all instances. Paths are relative to the repository
(`src/`).

## 1. Inventory

One Python process runs one event loop. Code between two awaits that really
suspend is atomic; everything below that is "hard" comes from what other
coroutines, the upstreams, redis or the clock do during an await. Requests share
the websocket pools, the memory cache, the redis connections and
`app.config.last_irreversible_block_num`.

| component | state | operations | hard behaviour | what makes it correct |
|---|---|---|---|---|
| websocket pool (`jussi/ws/pool.py`) | LIFO queue of holders; per holder `_con`, `_in_use`; `_closed` | `acquire`, `release`, `terminate`, startup | `acquire` awaits a handshake in the middle; release is shielded; stale proxies; shutdown while coroutines wait | a holder is in one place; one coroutine per connection; holders come back; nothing open after shutdown |
| websocket fetch (`fetch_ws` in `jussi/handlers.py`) | locals of the coroutine: `conn`, the answer | acquire, send, recv, release, check the id | cancellation at every await, colliding ids, closed connections, failure after the release | the answer returned belongs to the request |
| memory cache (`jussi/cache/backends/max_ttl.py`) | dict with deadlines, three views of it | `gets`, `mgets`, `sets`, `set_manys`, `deletes`, `clears`, `prune` | size limit against insertion order and expiry; views of a replaced dict | bounded size; never serves what expired or was overwritten |
| cache group (`jussi/cache/cache_group.py`, `utils.py`, `ttl.py`) | the tiers | `get`, `mget`, `set`, `set_many`, caching of single and batch responses | awaiting redis between computing gaps and filling them; ttl filters; grouping by ttl; two writes of memory | a cached response is given to its own call only, may be cached, and does not outlive its ttl |
| caching middlewares (`jussi/middlewares/caching.py`) | marks on request and response | `get_response`, `cache_response` | timeout of the read; the write is a background task | always answers; does not cache what came from the cache |
| redis backend (`jussi/cache/backends/redis.py`) | the redis contents (external) | `get`, `mget`, `set`, `set_many` | refused expiry, lost or late commands, survives a restart | as the cache group |
| redis connection pool (`jussi/cache/__init__.py`) | available and in-use connections, a count | `get_connection`, `release`, reaper | reaper against a late release; a time read before the wait for the lock; disconnect outside the lock | count equals what exists; never over the maximum |
| dispatch and HTTP fetch (`jussi/handlers.py`) | the fetches a handler waits for | `handle_jsonrpc`, `dispatch_single`, `dispatch_batch`, `fetch_http` | one call of a batch fails, the others go on; two timeouts, of jussi and of sanic | a response per call, in order; no fetch outlives a timeout |
| block number update (`jussi/middlewares/update_block_num.py`) | `last_irreversible_block_num`, its copy in the caches | one background task per response; the lookup at start | older responses may come later, also from the cache; restarts | never ahead of the chain |
| request parsing (`jussi/request/`) | lazy `jsonrpc` of a request | parse, validate, index a batch | a second access after a failed parse | every request is single, batch or refused |
| URNs and routing (`jussi/urn.py`, `jussi/upstream.py`) | tries built at start | parse, longest prefix, translation to appbase | numeric apis, prefixes before and after translation, unchecked strings in the list of `call` | different calls, different keys; the most specific entry applies |
| validators and limits (`jussi/validators.py`, `jussi/middlewares/limits.py`) | none | predicates | one limit is checked after the lookup in the cache | limits apply to cached answers also |
| other middlewares and errors (`jussi/middlewares/`, `jussi/errors.py`) | none | in their order around the handler; exceptions become responses | a request may be answered at each of them | every request is answered |
| statsd (`jussi/async_stats.py`, `jussi/middlewares/statsd.py`) | the queue `_stats` | `incr`, `decr`, `_sendbatch` | counted up and down at different places of the way | the gauge of calls in flight is exact |
| server setup, logging, `contrib/` | none that is shared | | | not of interest here |

How they interact: the request middlewares run in order (`initialize`, `init_stats`,
`check_limits`, `get_response`, `account_history_limit`); a response returned by
one of them skips the handler. The handler dispatches to `fetch_http` or
`fetch_ws`, the latter through the pool of its upstream. The response
middlewares then start two tasks of their own, `update_last_irreversible_block_num`
and `cache_response`, which outlive the request.

`PROJECT.json` lists every component with its status and every hazard with its
line and the properties that watch it.

## 2. Modules

| module | models | status |
|---|---|---|
| `WsPool` | `Pool`, `PoolConnectionHolder`, the proxy, and `fetch_ws` | complete for what jussi calls |
| `HolderPool` | abstract: what acquire and release promise | refined by `WsPool` |
| `WsPoolProofs` | theorems about the holders and the refinement | |
| `WsConnProofs` | theorems about the connections, over `WsPoolProofs` | |
| `MemoryCache` | `SimplerMaxTTLMemoryCache` | complete |
| `TtlMap` | abstract: what a cache promises | refined by `MemoryCache`, used by `CacheGroup` |
| `MemoryCacheProofs` | theorems | |
| `CacheGroup` | `get_response`, `cache_response`, the cache group over both tiers | reads and writes |
| `CacheGroupProofs` | theorems | |
| `RedisPool` | `HealthCheckedConnectionPool` and the part of redis-py's pool it rests on | complete |
| `RedisPoolProofs` | theorems | |
| `Routing` | `URN`, `_Upstreams`, `Upstream.from_urn`, `from_http_request` | all but `validate_urls` |
| `RoutingProofs` | theorems | |
| `Requests` | the way of a request: middlewares, limits, dispatch, timeouts, background tasks, block number, the inflight gauge | one configuration of the limits |
| `Gateway` | abstract: what a client of jussi may see of a request | refined by `Requests` |
| `RequestsProofs` | theorems and the refinement | |
| `InjectiveSeqs` | lemmas on sequences without repetitions, for both pools | |
| `MCWsPool`, `MCMemoryCache`, `MCCacheGroup`, `MCRouting`, `MCRequests` | constants of the instances | |

### WsPool

Variables and code: `queue` is `Pool._queue` (a `LifoQueue`, last element first),
`con[h]`, `inUse[h]` are `_con`, `_in_use` of a holder, `closed` is
`Pool._closed`; `pc`, `hold`, `pcon`, `got` are a `fetch_ws` coroutine: where it is
suspended, the holder and the connection its proxy is bound to, and the message
`recv` returned; `cstate`, `wire`, `inbox` are the connections of the external
`websockets` library: their state, the requests sent and not yet answered, and
the messages that arrived. `inUse` holds the task instead of the code's future,
because who acquired a holder is what properties talk about; the code only
tests it for None.

One action per await: `Start`, `Get` (a holder from the queue, and its
`acquire` up to the handshake), `Connected`, `AcquireFails`, `SendDone`, `Recv`,
`InnerRelease` (the task that `asyncio.shield` makes), `Finish`, `Reject`,
`ClosedRaised`, `CancelGetting`, `CancelUsing`; `PoolTerminate` for the
shutdown listener; `Answer`, `UpstreamClose`, `Teardown` for the network.

Decisions worth knowing:

- The Python of the Dockerfile and Pipfile is 3.6, where `CancelledError` is an
  `Exception`. So the `except Exception` clauses of `_acquire_impl` and `fetch_ws`
  handle cancellation also. From Python 3.8 on they would not; the mutant
  `AcquireFails_NoPutBack` shows that holders would then be lost.
- A cancelled coroutine that waits for the shielded release is resumed after
  the inner task ran, as both are ready and the inner one was scheduled first.
- `Connected` has one guard that is not in the code: a task that was *ready* to
  touch this holder when the handshake began has run by now. The event loop
  runs ready callbacks in order while a handshake takes round trips on the
  network. Without this guard a stale proxy could terminate the new connection
  in the same step in which it is made, which the loop does not allow.
- `send` writes its frame before it first suspends, so a request is on the wire
  once a coroutine is in `send`.
- `Pool.close`, `wait_until_released`, `max_queries` and the acquire timeout are
  not called, or not set, by anything in jussi and are left out.

### MemoryCache

`cache` is `_cache` with each entry's value, deadline and the position of its
key in the dict; `detached` is the old dict the three views keep showing after
`clears`; `todo` is the rest of the pairs of a running `set_manys`, so that the
state between two pairs is a state of the model (no other operation runs in
between). `SetsNext` is `sets` with its `prune`; `SetsRaises` is `prune` raising
`KeyError` or `StopIteration`, which only happens after `clears`.

### CacheGroup

`memory` and `redis` are the tiers; `pc`, `query`, `found`, `answer`, `hit` follow one
HTTP request through `get_response` (`Arrive`, `RedisReply`, `GiveUpReading`) and the
handler (`Fetched`, the response to one call; `FetchFails`); `jobs` and `pend` are the coroutines and redis
commands that `cache_response` leaves behind (`CacheResponse`, `SetMany`, `RedisSet`,
`RedisSetFails`). `Restart` loses all but redis and the commands on their way.
`Tick` is the clock; it waits for ready tasks, which run in less than the second
that is the unit of the ttls.

The responses of a batch come one by one, each with its own time, and all are stored after the
last. `RequestTimeout` bounds what the first of them may wait for the others: it is the timeout
of `handle_jsonrpc`, for a batch at most 60 seconds.

Values are abstracted to the key of the call they answer, their kind (a result,
an error, a `get_block` null, as which any result without a `block_id` counts, a
block whose id cannot be parsed) and the time an upstream gave them: that is what the caching code and the properties tell apart.
The memory tier is used as `TtlMap` describes it (what expires disappears, `prune`
may forget one live entry per insertion); `MemoryCache` is proved to implement
`TtlMap`. The servers of a redis setup (master and read replicas) are one store;
their replication lag is not modelled. `last_irreversible_block_num` is always a
number (its configured start value is one), so `irreversible_ttl` never takes its
"unknown" branch.

### RedisPool

`available`, `inUse`, `created` are `_available_connections`, `_in_use_connections`,
`_created_connections` of redis-py's pool, `lock` is its `_lock` where a task awaits
with it, `stamp[c]` is the age of `_jussi_in_use_since`, and `alive[c]` is `is_connected`.
`held[c]` is a history variable: how long the connection has really been with its
user. `pc`, `conn`, `stuck`, `waited` are a task that runs redis commands: where it is suspended,
its connection, what it evicted and has yet to disconnect, and the age of the `now` it read before
it waited for the lock.

`get_connection` is `Begin` (when it has to wait), `Reap` (the critical section of `_reap_stuck_in_use`),
`Disconnect` (one `await` of its loop, outside of the lock), `Get`, `Connected`,
`ConnectFails`. `release` is `Release` and, for a dead connection, `Discarded`. A
command ends with `Replied`, `Breaks`, or `Lose` (a cancellation which redis-py does not
answer with a release, as the comment in the class says). `CancelWaiting` is a cancellation at
the lock. `Drop` and `Tick` are the network and the clock.

- The pool class of redis-py (4.x) is external: modelled from the attributes and
  methods `HealthCheckedConnectionPool` uses.
- A free lock is taken without suspending, so `Begin` is only for a lock that another task has. A task
  that waits may get it as soon as nobody awaits with it.
- The lock is held over an await only by `release` that disconnects a dead connection; `MaxWait` bounds
  this. A time that was read before such a wait is what the reaper compares with and stamps: `Overdue`
  and `Reap` use `waited`.
- The reaper tells nobody that it evicted a connection. The task goes on with it, may
  even reconnect it, and its late `release` must find it gone.
- `Conns` bounds the connection objects that are referenced at one time, not those
  made: one nobody refers to stands for the next new one.

### Routing

`config` is the configuration read at start, `memo` the `lru_cache` of `from_urn`, `todo`
and `calls` an HTTP request of one call or a batch of them: those not yet converted, and the
`JSONRPCRequest`s made. `Parsed` is `_parse_jrpc` with its regular expression, `Key` is
`str(urn)`, `LongestPrefix` the lookup in a trie of `Entries`, `Upstream` what the tries
say without a memo. One call is converted by `ConvertPlain`, `ConvertTranslated`
(`from_http_request` with its two lookups) or refused by `ConvertInvalid` with the whole
request.

- A string is the sequence of the tokens between its dots, and a prefix of an entry ends at a dot. The
  params are the text they have in a key, `params=` and their JSON, and may contain dots too. The regular
  expression keeps dots out of the parts of a method, but api and method in the list of `call` are
  any strings: `["condenser_api", "get_block.params=[1]"]` has the key of `condenser_api.get_block` with
  the params `[1]`.
- The `lru_cache` forgets the entry not used for the longest time; the model forgets any. The
  memos of `url`, `ttl` and `timeout` are keyed alike and are subsumed by that of `from_urn`;
  as the tries never change after start, what a memo may get wrong is only which
  calls share an entry.
- Two forms of a call have the key of another call that an upstream understands
  differently, `Malformed`: a negative api number (the tuple is indexed from its end)
  and three parts of which the first is `steemd`, `appbase` or `jsonrpc` (sent as
  written, although jussi added these namespaces itself). `KeyDeterminesCall` leaves them
  out; upstreams answer them with an error or, for the number, as they like.
- A dict given as the params of `call` and params of `null` are not represented.

### Requests

`stage[r]` is how far an HTTP request is (`new`, `reading` the caches, `handling`, `answered`,
`dropped` by a restart), `body[r]` what its client sent, `response[r]` what it got, `fetch[r]` the
coroutines that `handle_jsonrpc` waits for, one per call, and `jobs[r]` its background tasks.
`lib` is `config.last_irreversible_block_num` and `storedLib` its copy in the caches; `cached` is what the
caches hold; `queued` and `sent` are what the unsent `_stats` and what was sent add to the gauge
`jrpc.inflight`; `chain` is the last irreversible block of the chain itself.

| action | code |
|---|---|
| `Arrive` | `initialize_jussi_request` (which parses), `init_stats`, `check_limits`, up to the await in `get_response`; for GET the healthcheck |
| `Hit`, `Miss` | the end of `get_response`; after a miss `account_history_limit` and `handle_jsonrpc` up to the fetches |
| `Acquire`, `FetchReturns`, `FetchFails` | `dispatch_single`, `fetch_ws`, `fetch_http`; the failure of one call through `gather` |
| `Finish`, `Timeout`, `ServerTimeout` | the end of `handle_jsonrpc`: its answers, its own timeout, the response timeout of sanic |
| `Background` | what the response middlewares scheduled: `send_stats`, the update of the block number, the choice of what to cache |
| `StoreLib`, `StoreAnswers` | the two writes of the caches |
| `Advance`, `Restart` | the chain; the process dies, `setup_caching` looks the number up |

- `Gateway` keeps of a request its `status`, what was sent and what came back. `Status` maps `reading` and `handling` to "open" and
  `dropped` to "lost"; the fetches, the caches and the background tasks are not visible.
- Between the first middleware and the await of the lookup nothing suspends, nor between its end
  and the fetches, so each is one step. The tasks made by `async_nowait_middleware` are ready in the same
  iteration and run in their order up to their first suspension: `Background` is one step.
- The two tiers are one map that may miss at any time (`CacheGroup` has the detail); an answer is
  abstracted to its call and the block number it shows; the websocket pool is a number of holders,
  as `HolderPool` allows. A call is within a limit or not. Routes other than `/` and
  `/health`, and methods other than GET and POST, are left out.
- An "invalid" body is what `initialize_jussi_request` refuses. The lazy `jsonrpc` property parses at
  the first access and returns what is left (None) at later ones, so the later middlewares must
  see a request without calls.
- Whether the response middlewares run after sanic's own timeout differs between versions of sanic:
  `ServerTimeout` chooses, and "skipped" in `jobs` records it. The gauge then stays up, and
  `InflightExact` counts such a request.
- `StartLib <= MaxChain` and `chain = StartLib` at the start assume that the number in the
  configuration (20,000,000) is one the chain has passed.

### Constants and assumptions

Every module states its assumptions on its constants as named `ASSUME`s, which
TLC evaluates in each run. The proofs use only these. `MaxConns` of `WsPool`, `MaxTime`,
`MaxInserts` and `MaxChain` bound counters and exist for TLC only: the theorems hold for
every value of them. `RequestTimeout` (`CacheGroup`) and `MaxWait` (`RedisPool`) bound waits of the
program and appear in the properties.

## 3. What the runs check

The passing runs of `WsPool`, `MemoryCache`, `CacheGroup` and `Requests` set `CHECK_DEADLOCK FALSE`:
coroutines and requests are one-shot and counters bounded, so the modelled system really
stops. `redis_pool` and `routing` check for deadlock.

| run | checks | bounds |
|---|---|---|
| `ws_pool` | `TypeOK`, `HolderAccounted`, `ConnExclusive`, `IdleConnClean`, `OwnAnswer`, `ClosedPoolDrains`, and refinement of `HolderPool` | 3 coroutines, 2 holders, 3 connections, every fault, all upstream ids equal |
| `ws_pool_live` | `NoEndlessWait`, `HoldersReturn` | 3 coroutines, 2 holders connected at start, 5 connections, cancellation and wrong ids |
| `memory_cache` | `TypeOK`, `SizeBounded`, refinement of `TtlMap` | 3 keys for a size of 2, 3 insertions, lifetimes None, above the maximum, 0, -2, batches of two, `clears` |
| `cache_group` | `TypeOK`, `HitsAligned`, `InvalidFromBatches`, `NoCacheNotServed`, `MemoryNotRenewed`, `Answered` | 2 requests, seven shapes of query, single and batch, one key that no batch has, ttls of 1, -1, -2 and None, batches that take up to a tick, every fault, two ticks |
| `redis_pool` | `TypeOK`, `CountExact`, `OneUser`, `NoEarlyEviction`, `LostAreReaped` | 2 tasks that never stop, 2 connections at most and one evicted, an `in_use_max_age` of 1, waits for the lock of up to 1, every fault |
| `routing` | `TypeOK`, `RoutedAsConfigured`, `KeyDeterminesCall`, `SentAsAsked` | 26 calls of every form, some with dots or params in the strings of `call`, batches of two, 3 configurations, a memo of two |
| `requests` | `TypeOK`, `LimitsHold`, `InflightExact`, `OrphansAfterFailure`, `BatchesTimeOutFirst`, `LibNeverAhead`, `EveryRequestEnds`, refinement of `Gateway` | 2 requests, 5 calls in 13 bodies, one holder, a size limit of 2, timeouts of none, 40 and 70 seconds, one new block, restarts |
| `ws_leak`, `ws_stale`, `cache_errors`, `cache_reversible`, `zero_timeout` | one property each that the documentation or a comment states and the code breaks | as small as shows it |

What the properties say, in words:

- `HolderAccounted`: every holder is in the queue once, or being connected by one
  coroutine, or in use with a connection. It survives stale proxies (a
  coroutine that terminates a holder which already belongs to another), because
  `_release` returns early for a holder that is not in use.
- `ConnExclusive`, `IdleConnClean`, `OwnAnswer`: a connection has one user, is clean when
  idle, and so the answer read is one's own. `OwnAnswer` is checked with all
  upstream ids equal: the id is the client's own plus the index in the batch, so
  the assertion on it in `fetch_ws` cannot tell answers apart and the pool alone has to.
- `ClosedPoolDrains`: connections opened after `Pool.terminate` are closed too,
  since `release` raises on a closed pool and `fetch_ws` then terminates.
- `SizeBounded`, `ImplementsTtlMap`: the cache never exceeds `_max_size` and never
  serves stale entries. Both hold with `clears` allowed: `SizeBounded` only
  speaks of the time before the first `clears`, see section 6.
- `HitsAligned`: the gaps of `mget` are computed before redis is awaited and filled
  after; other requests change memory meanwhile, and the answers still match.
- `NoCacheNotServed`: mixed batches replace ttls, and a batch is looked up whatever the ttls of its
  calls are; still no call with a ttl of -1 is answered from a cache.
- `InvalidFromBatches`: what `prepare_response_for_cache` refuses (errors, missing and unreadable blocks) is in memory or in redis
  only under keys that batches ask for.
- `MemoryNotRenewed`: reading, redis hits and the second write of a batch do not restart a lifetime. It begins
  with the first store, so counted from the upstream's answer it ends up to `RequestTimeout` later: a batch stores
  nothing before its last fetch has returned. Without that allowance the property is false, as TLC finds at once.
- `CountExact`: an eviction, a late release of the evicted connection, a discard and a
  loss, in any order, leave `_created_connections` at what the pool has, so it neither exceeds its
  limit nor believes to be full for ever.
- `OneUser`: no connection is handed out twice, also not one that was evicted from a task
  that still reads from it.
- `NoEarlyEviction`: a connection under a running command is evicted only when its task has had it for longer than
  `in_use_max_age`; it relates the stamp to the history variable `held`. One that is still connecting may have
  the stamp of a reaper that read the time before it waited for the lock, and one that is being released may
  be in the same place; they may go early, by that wait at most. No stamp of an earlier use counts.
- `RoutedAsConfigured`: the upstream of a call is what the tries say for the URN it is sent
  with, whatever the memo holds and although a translated call had another one before. The memo goes by the key, and
  the url of a `get_state` depends on its params: a `call` that spells these out in its method shares the entry.
  So the url is claimed for all keys but those of such a `get_state`; ttl and timeout are claimed for all.
- `KeyDeterminesCall`: responses are cached by `str(urn)`, so two calls with one key must
  be one call; the two are any two of a batch. The premises are exactly what it takes: one of the two has no dots in its api
  and method, and neither spells out params in them. Two calls that split one dotted string differently, or one that
  ends its method with another's params, do share a key. Without either premise TLC finds such a pair.
- `SentAsAsked`: a call is sent verbatim or as the same method and params of `condenser_api`.
- `ImplementsGateway`: a client gets one response, for good. Without an error it carries for every call, in its place, an answer
  that an upstream gave to it, whether it came from the caches or from the fetches, and nothing unparsed is served; late
  fetches, the two timeouts and the failures after the first one change nothing any more; only a restart loses a request.
- `LimitsHold`: no call over a limit is sent upstream, served or cached, although one of the
  limits is checked after the lookup: an answer to such a call can never get into the caches.
- `InflightExact`: limits, caches, handler, failures and two timeouts answer a request, two middlewares count
  it; they agree on every path, and
  statsd is never told a negative number.
- `OrphansAfterFailure`: `gather` leaves the other fetches of a batch running when one fails, without
  a timeout of their own. Nothing else does: both timeouts cancel what they give up.
- `BatchesTimeOutFirst`: the cap of 60 in `request_timeout` and the 65 of `sanic_config.py`
  make jussi answer a batch before sanic does, as long as `cache_read_timeout` is at most 5 seconds
  (its default is 1); a single call may have a longer timeout. Section 4 proves it under that condition.
- `LibNeverAhead`: from cached answers, in any order, across restarts, the number is one the chain
  has reached. It may go backwards, which only caches less.
- `NoEndlessWait`, `HoldersReturn`, `Answered`, `LostAreReaped`, `EveryRequestEnds`: see fairness.

Why the bounds are enough: two holders and three coroutines are the least for
which one waits while a stale proxy, its holder's new user and another holder
are around; three connections allow a holder to be reconnected twice. Three
keys overflow a cache of two. Two requests let one change memory while
the other awaits redis, and one read what the other left in both tiers; a batch of two
keys makes gaps before and after a hit. A tick lets entries of the ttl 1
expire and separates `now` from the time of an upstream's answer; a second one lets redis
answer with what memory has lost, and one tick within a batch makes its first answer older than
its last. Two redis connections in the pool and a third that was
evicted are the least for which a late release meets a full pool; an `in_use_max_age` of 1 and a wait
of 1 let a stamp be overdue only because of a wait, and a connection still be in time. A batch of two puts any two calls beside each other, and
a memo of two entries is full after one translated call. In `requests` one holder makes the
websocket calls of two requests wait for each other, the bodies are every call alone and batches
that mix upstreams, limits and timeouts, and one new block makes an old answer differ from a new one.

Each property has a mutant in `PROJECT.json`: a definition of the model changed as
a plausible bug would, under which the same run finds the property violated. The
mutated operators stand before the ones they replace, marked `MUTANT`.

### Fairness

`WsPool`: the event loop runs every ready callback (weak fairness of the steps of
`fetch_ws`); `websockets` reports a closed connection within its close timeout. That
an upstream completes a handshake and answers over an open connection is an
assumption, not a fact about the code; nothing is assumed about faults. The live
run leaves out `upstreamClose`, with which `HoldersReturn` and `NoEndlessWait` are false
(finding `ws_leak`), and `stop`.

`CacheGroup`: the read timeout of `get_response` fires (`GiveUpReading`, also when redis
hangs) and the upstreams answer, one call after the other, or the request times out. No fairness of redis or of the
writers is assumed.

`RedisPool`: the clock runs, requests keep coming (the reaper runs in `get_connection`
only), a command ends, by its timeouts if nothing else, and ready tasks run. The fairness of the tasks is strong, as
`asyncio.Lock` serves those who wait in their order: others cannot take the lock before a task over and over. Without
further requests a lost connection stays in use, which does no harm. `Tick` without the fault
"slow" waits for commands, because their timeouts are below `in_use_max_age`; the run has the fault.
`Routing` has no liveness property.

`Requests`: the read of the caches ends (its timeout), the timers of jussi and of sanic expire and ready
tasks run. Nothing is assumed about upstreams or holders: `EveryRequestEnds` holds although no
upstream ever answers.

## 4. What is proved

`WsPoolProofs` (for any coroutines, holders, connections, ids and faults):

- `TypeCorrect`, `HoldersAccounted`: `Spec => []TypeOK`, `Spec => []HolderAccounted`. The
  inductive invariant is `Typed /\ HolderAccounted`. `Len(queue) <= MaxSize` is not
  inductive by itself; it follows because the queue is injective, so
  `QueueBounded` derives it by counting. `HolderAccounted` needs the types of the
  coroutines' locals (`LocalsBound`): a step of a coroutine acts on `hold[t]`.
- `PoolImplementsHolderPool`: initial states and steps map to those of `HolderPool`
  under "free = in the queue, owner = who uses or connects it". The terminate of a
  stale proxy maps to the return of another owner's holder, which `HolderPool`
  allows and `ReleasedByOwner` does not.

`MemoryCacheProofs` (for any keys, values, ttls, sizes and batches, Keys may be
infinite):

- `TypeCorrect`, `SizeIsBounded`. The inductive invariant is `TypeOK`, the finiteness
  of the stored keys, and `SizeBounded`; finiteness is needed since the cardinality of
  an infinite set says nothing. `TypeOK` holds that no two entries share a place,
  so the oldest is one entry.
- `MemoryCacheImplementsTtlMap`: every step is a put, a lookup, a deletion, a tick or
  a stutter of `TtlMap`.

`RedisPoolProofs` (for any tasks, connections, limits, ages and faults):

- `TypeCorrect`, `CountIsExact`, `ConnectionsHaveOneUser`, `EvictionsAreDue`. The inductive
  invariant joins `TypeOK`, `CountExact`, `OneUser` with `StampSound` (a stamp is at most `MaxWait` older than
  the use of its connection, not older at all under a running command, and what is available has none) and the finiteness of the
  set in use. `CountExact` needs `OneUser`: an eviction and a release count down one
  connection each only because no connection is in two places.

`RoutingProofs` (for any tokens, names, params, calls, configurations and sizes, dots wherever the code admits them):

- `TypeCorrect`, `CallsRouted`, `KeysDetermineCalls`, `CallsSentAsAsked`. The inductive invariant says that
  the memo is `Fresh` (each entry is what the tries say for a URN with its key) and that every
  call is `Made` by one of the two ways of `from_http_request` with what the tries say for some URN with its key (`Answers`).
  `UrlOfKey` shows when the url depends on the key alone. `KeyDetermines` finds the parts of a URN in its key: params begin at the
  first token that may begin them (`ParamsBegin`), and what is before them splits in one way if one of the two calls is undotted.
  `MeaningOfUrn` shows that the meaning of a well-formed call depends on its URN alone.

`WsConnProofs` (for the same instances as `WsPoolProofs`, on whose invariant it builds):

- `ConnectionsExclusive`, `IdleConnectionsClean`, `AnswersOwn`, `ClosedDrains`. `ConnExclusive` says nothing of
  holders, so it is not inductive. `OwnsOrLost` is the reason it holds: a coroutine that works with a
  connection either owns its holder, or a stale proxy or the shutdown took the holder from it. Then its
  connection is closing, in no holder, and what the coroutine may still do to the holder it does before that
  holder is connected again (this is where the guard of `Connected` is needed). `TrafficOwn` adds that a
  connection carries what its one user waits for and nothing else, and `ClosedOwned` that after a shutdown
  an open connection has a coroutine which will see that the pool is closed. The lemma
  `TrafficKept` keeps the proofs of the actions short: it says which steps leave a coroutine's traffic alone.
- Where the two comments that the findings `ws_leak` and `ws_stale` contradict do hold. `LeaksOnlyClosed` (under every fault):
  a holder in use by a coroutine that has ended was left by one that returned its answer, over a connection that is now
  closed. Its invariant `UsersKnown` says how far the user of a holder has got. `NoLeakWithoutClose`: without the fault
  `upstreamClose` there is no such holder, as a connection then is open while its user works (`HeldOpen`).
  `ReleasedByOwnerUndisturbed`: without `cancel`, `wrongId` and `stop` only the owner gives a holder back, since then
  no proxy outlives its use (`Undisturbed`). Each of the three faults is enough to break it, so none can be dropped
  from the hypothesis.

`CacheGroupProofs` (for any requests, keys, queries, ttls and faults):

- `TypeCorrect`, `HitsAreAligned`, `NoCacheIsNotServed`, `MemoryIsNotRenewed`. What is served
  comes from what was stored, so the invariant speaks of the tiers (`TiersSound`: a stored response answers its key
  and may be cached), of the writes on their way (`WritesSound`), of what a read has collected (`ReadSound`), of what a batch has
  while it waits for the rest (`FetchingSound`) and of what was served (`ServedSound`). The writes are `Recent`: given by an upstream
  at most `RequestTimeout` ago, which holds through the ticks within a batch. `FilledFacts` is the argument for alignment: as many replies
  as gaps, each gap counted by the gaps before it, so each gets the reply for its own key.
- Two facts that need the history of an entry. `Flow` says once, for every step, where what is in the tiers and on its way after the
  step was before it; each of the following is an induction over it. `InvalidOnlyOfBatches`: an error or an unreadable block is
  in memory or redis only under a key that some batch may ask for, as a single response is judged before it is
  stored (`SourcesKnown`). `MemoryIsYoung`: what memory answers with was given by an upstream less than the lifetime of its
  call (at most `MaxTTL`) and `RequestTimeout` together ago (`MemoryFresh`: an entry goes when its time is over).
- `SinglesCacheNoErrors` tells where the README's claim holds that the finding `cache_errors` contradicts: errors are never
  in memory if clients make no batches.

`RequestsProofs` (for any requests, calls, bodies, limits, timeouts and numbers):

- `TypeCorrect`, `AnswersAreOwn`, `LimitsAlwaysHold`, `OrphansOnlyAfterFailure`, `LibIsNeverAhead`: the invariant
  joins the types with `Bounded` (the caches hold no answer over a limit, and the numbers of
  `get_dynamic_global_properties` in them, as `lib` itself, are not ahead of the chain) and `Safe`, which says
  the same of the fetches and the response of a request, with what its stage tells about them.
- `InflightIsExact` counts: a step adds the calls of a request to the set of those in flight, or takes
  them out, and the cardinality changes by as many as were queued for statsd.
- `ErrorsHaveReasons`: every error of a response has its `Reason`, found in the body of the request and in its fetches. The invariant
  `Explained` is kept because what the reason speaks of is not changed by late fetches.
- Two consequences. `BatchesTimeOutInJussi` is `BatchesTimeOutFirst` for `CacheReadTimeout <= 5`; the reason of sanic's
  timeout is that it comes first, and the cap of 60 excludes this for a batch. For that the sum of the timeouts of a batch has to
  be a number (`SumIsNat`), which is an induction over the size of the batch: `NatLessThanWellFounded` and the
  least number that fails take the place of the library's induction rules. `OnlyBatchesNeedTimeouts`: the claim that the run
  `zero_timeout` refutes is true where no batch has a call without a timeout.
- `AnsweredOnce`: an action property, no step changes the response, the stage or the body of a request that was answered.
- `RequestsImplementGateway`: initial states and steps map to those of `Gateway`. That the response of a step answers its
  calls is `Matched` in the next state, so the proof only has to say which actions respond, and to whom: of `Hit`, `Miss`, `Finish`, the
  failure of a fetch and the timeouts each is a `Reply` to an open request or invisible. Since `Response` need not be
  finite, `Gateway` takes a reply from the next state and judges it.

Assumptions. Each theorem holds under the named assumptions on the constants in its module, which TLC evaluates on every run;
the hypotheses that a theorem adds are those named above: `CacheReadTimeout <= 5`, which the default of 1 satisfies,
and, for four of the five documented claims that the code breaks, what keeps the system away from the breaking case. The violation runs
show that the claims are false without them.

Only model-checked: the liveness properties `NoEndlessWait`, `HoldersReturn`, `Answered`, `LostAreReaped` and
`EveryRequestEnds`, since fairness and ENABLED are out of the prover's reach. Every other
property of the passing runs is a theorem. `TtlMap` and `HolderPool` are not compositions: that `CacheGroup` and
`Requests` may use the abstract cache and the number of holders rests on the two refinement theorems
and on reading their promises.

## 5. Findings

The five violated properties are disagreements of the code with its own comments
and documentation; `PROJECT.json` quotes the lines.

- `ws_leak`: a connection that the upstream closes between `recv` and `release` leaves
  its holder in use for good; a comment says cleanup happens elsewhere.
- `ws_stale`: after a refused answer `fetch_ws` terminates a holder it has already
  given back, and so another coroutine's connection. The comment says the proxy
  is invalidated.
- `cache_errors`: batches cache error responses, which the README excludes.
- `cache_reversible`: a ttl of -2 caches blocks without comparing them to the last
  irreversible one.
- `zero_timeout`: a timeout of 0 means "no timeout" and becomes None; the sum over a batch then
  raises a TypeError, and the batch is refused as an internal error.

## 6. Not modelled, and why

- `Pool.close` and the other parts of `ws/pool.py` nothing calls.
- HTTP and JSON syntax, logging, configuration, command line: no state
  that another part depends on.
- redis itself, `websockets` and sanic, beyond what the code sees of them.
- `clear` and `close` of the cache group and several read replicas of redis: nothing calls the first, the
  second runs when the server has stopped, and replication lag would need a model of redis.
- Timings and gauges of statsd other than `jrpc.inflight`, its datagrams, the wording and ids of errors.
- `contrib/`: load generators and benchmarks.
- `validate_urls`: host name lookups at start that end the program or change nothing.

Seen while modelling and not among the findings: entries of `DEV_config.json` for
`steemd.*` (such as a ttl of -1) do not apply to calls that are translated to
`appbase`, as those are looked up after the translation; its limits use the key
`blacklist_accounts` where the code reads `accounts_blacklist`; prefixes with params in single
quotes never match, since keys hold JSON; and a `get_state` whose only param is no string is
refused as an invalid request, since matching the path raises a TypeError. The key of a `call` may be that of another call,
as its api and method are joined into it unchecked (see `KeyDeterminesCall`); the two then share cached responses and the
memo of their upstream. `clears` rebinds the dict of the
memory cache while its three views stay with the old one, so that `prune` raises or stops limiting the size, but
nothing calls it. A ttl of 0 is refused by redis and expires in memory at once, so such answers are never
cached. The error object of a batch carries the id of the call that failed. A POST to `/health` with a
JSON-RPC body passes the request middlewares and may be answered from the caches.

## 7. Order of the modules

`WsPool` came first, as the code whose interleavings are hardest, then the caches (`MemoryCache`, `CacheGroup`),
`RedisPool`, `Routing` and `Requests`, which joins the parts. What could follow: a composition of
`CacheGroup` with `RedisPool` (a lookup that gives up keeps a connection), and a model of stale answers over
both tiers, for which the code would first have to promise an order of its writes.

## 8. Running

In this directory, with TLC and TLAPS installed and the community modules on the
path:

    tlc -config ws_pool.cfg MCWsPool.tla
    tlapm WsPoolProofs.tla

The longest runs, `requests`, `cache_group`, `redis_pool` and `routing`, take one to two and a half minutes on two workers; the others
about half of that at most. The proofs take some minutes; `WsConnProofs` checks after `WsPoolProofs`.
