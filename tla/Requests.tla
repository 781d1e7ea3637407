------------------------------ MODULE Requests ------------------------------
(***************************************************************************)
(* The way of an HTTP request through jussi: the request middlewares, the  *)
(* lookup in the caches, handle_jsonrpc with one fetch per call, the       *)
(* response and the background tasks of the response middlewares.          *)
(*                                                                         *)
(* Nothing suspends between the first middleware and the await of the      *)
(* lookup, nor between its end and the fetches, so each of these is one    *)
(* step.  The caches are what CacheGroup models in detail, here a lookup   *)
(* finds what was stored or, at any time, misses; of the websocket pool    *)
(* (WsPool) only its size is left.                                         *)
(***************************************************************************)
EXTENDS Integers, Sequences, FiniteSets, Functions

CONSTANTS
    Reqs,               \* the HTTP requests, each sent once
    Calls,              \* the JSON-RPC calls that clients make
    WsCalls,            \* those with an upstream url ws..., others have http...
    DgpCalls,           \* calls of get_dynamic_global_properties
    BadBroadcasts,      \* oversized, blacklisted or malformed custom_json
    LongHistories,      \* get_account_history over the limit, or malformed
    ConfiguredTimeout,  \* ConfiguredTimeout[c]: in seconds; 0 stands for none
    Bodies,             \* what clients send
    BatchSizeLimit,     \* jsonrpc_batch_size_limit
    PoolSize,           \* websocket_pool_maxsize
    CacheReadTimeout,   \* cache_read_timeout, in seconds
    StartLib,           \* the last irreversible block assumed at start
    MaxChain,           \* bound on the chain's last irreversible block
    None                \* Python's None

\* "get" has no calls (GET /health), nor has an "invalid" body.
Body == [kind : {"single", "batch", "get", "invalid"}, calls : Seq(Calls)]

ASSUME CallsAssumption ==
    /\ WsCalls \subseteq Calls
    /\ BadBroadcasts \cup LongHistories \subseteq Calls
    /\ ConfiguredTimeout \in [Calls -> Nat]
ASSUME BodiesAssumption ==
    \A b \in Bodies :
        /\ b \in Body
        /\ b.kind = "single" => Len(b.calls) = 1
        /\ b.kind \in {"get", "invalid"} <=> b.calls = <<>>
ASSUME NumbersAssumption ==
    /\ BatchSizeLimit \in Nat /\ PoolSize \in Nat /\ CacheReadTimeout \in Nat
    /\ StartLib \in Nat /\ MaxChain \in Nat /\ StartLib <= MaxChain

\* The requests.
VARIABLES
    stage,     \* stage[r]: how far request r is
    body,      \* body[r]: what r's client sent
    response,  \* response[r]: what r's client got, or None
    fetch,     \* fetch[r]: the fetches of r, one per call
    jobs       \* jobs[r]: r's background tasks

\* What the process, the caches and statsd keep.
VARIABLES
    lib,       \* config.last_irreversible_block_num
    storedLib, \* the copy of lib in the caches, or None
    cached,    \* cached[c]: the answer to c in the caches, or None
    queued,    \* what _stats, not yet sent, adds to jrpc.inflight
    sent       \* what this process has added to jrpc.inflight at statsd

\* The upstreams.
VARIABLE chain \* the last irreversible block of the chain

reqVars   == <<stage, response, jobs>>
statVars  == <<queued, sent>>
libVars   == <<lib, storedLib>>
vars == <<reqVars, body, fetch, libVars, cached, statVars, chain>>

LimitErrors   == {"batchSize", "limits", "historyLimit"}
TimeoutErrors == {"timeout", "responseTimeout"}
Errors == {"invalid", "internal", "upstream"} \cup LimitErrors \cup TimeoutErrors

Numbers == Nat \cup {None}
FetchState == {"waiting", "asked", "ok", "failed", "cancelled"}
Fetch    == [st : FetchState, at : Numbers]
Answer   == [call : Calls, at : Numbers]
Response == [error : Errors \cup {None}, answers : Seq(Answer), hit : BOOLEAN]

ASSUME NoneAssumption ==
    /\ None \notin Nat \cup Errors
    /\ None \notin Body
    /\ None \notin Response

Init ==
    /\ stage = [r \in Reqs |-> "new"]
    /\ body = [r \in Reqs |-> None]
    /\ response = [r \in Reqs |-> None]
    /\ fetch = [r \in Reqs |-> <<>>]
    /\ jobs = [r \in Reqs |-> {}]
    /\ lib = StartLib
    /\ storedLib = None
    /\ cached = [c \in Calls |-> None]
    /\ queued = 0
    /\ sent = 0
    /\ chain = StartLib

-----------------------------------------------------------------------------
\* Responses.

CallsOf(r) == body[r].calls

\* What sanic does with a response, and the middlewares that only schedule
\* their work (async_nowait_middleware), which starts in the order of the list.
Respond(r, error, answers, hit) ==
    /\ stage' = [stage EXCEPT ![r] = "answered"]
    /\ response' = [response EXCEPT ![r] =
                       [error |-> error, answers |-> answers, hit |-> hit]]
    /\ jobs' = [jobs EXCEPT ![r] = {"start"}]

\* The handler of GET /health; no call was answered.
Healthcheck(r) == Respond(r, None, <<>>, FALSE)

\* JsonRpcError.to_sanic_response: one error object, also for a batch.
Refuse(r, error) == Respond(r, error, <<>>, FALSE)

\* The answers to exceptions that reach sanic (setup_error_handlers).
HandleError(exception) ==
    CASE exception \in {"TimeoutError", "CancelledError"} -> "timeout"
      [] exception = "ServiceUnavailable" -> "responseTimeout"
      [] exception = "UpstreamResponseError" -> "upstream"
      [] OTHER -> "internal"

-----------------------------------------------------------------------------
\* The request middlewares.

\* limit_broadcast_transaction_request raises for one of the calls.
BroadcastRefused(calls) == \E i \in DOMAIN calls : calls[i] \in BadBroadcasts

\* limit_account_history_count_request raises for one of the calls.
HistoryRefused(calls) == \E i \in DOMAIN calls : calls[i] \in LongHistories

\* HTTPRequest.jsonrpc does not raise: it parses at the first access, by
\* initialize_jussi_request, and later returns what that left.
Parsed(b) == b.kind # "invalid"

\* initialize_jussi_request and check_limits.
Refusal(b) ==
    IF ~Parsed(b) THEN "invalid"
    ELSE IF b.kind = "batch" /\ Len(b.calls) > BatchSizeLimit THEN "batchSize"
    ELSE IF BroadcastRefused(b.calls) THEN "limits"
    ELSE None

\* AsyncStatsClient.incr and decr append to _stats, _sendbatch sends all of it.
Put(n) == queued' = queued + n /\ UNCHANGED sent
PutAndSend(n) == queued' = 0 /\ sent' = sent + queued + n

\* MUTANT: init_stats is appended after check_limits.
CountIn_AfterLimits(b) == Put(IF Refusal(b) = None THEN Len(b.calls) ELSE 0)

\* init_stats counts the calls; a body that was not parsed has none.
CountIn(b) == Put(Len(b.calls))

\* Up to the await of the lookup in get_response, or to the response; for GET
\* through the healthcheck.
Arrive(r, b) ==
    /\ stage[r] = "new"
    /\ body' = [body EXCEPT ![r] = b]
    /\ CountIn(b)
    /\ \/ Refusal(b) # None /\ Refuse(r, Refusal(b))
       \/ Refusal(b) = None /\ b.calls = <<>> /\ Healthcheck(r)
       \/ /\ Refusal(b) = None /\ b.calls # <<>>
          /\ stage' = [stage EXCEPT ![r] = "reading"]
          /\ UNCHANGED <<response, jobs>>
    /\ UNCHANGED <<fetch, libVars, cached, chain>>

\* get_response found an answer to every call.
Hit(r) ==
    /\ stage[r] = "reading"
    /\ \A i \in DOMAIN CallsOf(r) : cached[CallsOf(r)[i]] # None
    /\ Respond(r, None, [i \in DOMAIN CallsOf(r) |->
                            [call |-> CallsOf(r)[i], at |-> cached[CallsOf(r)[i]]]],
               TRUE)
    /\ UNCHANGED <<body, fetch, libVars, cached, statVars, chain>>

\* _Upstreams.timeout
TimeoutOf(c) == IF ConfiguredTimeout[c] = 0 THEN None ELSE ConfiguredTimeout[c]

\* The sum of a batch meets a None.
NoTimeout(b) == \E i \in DOMAIN b.calls : TimeoutOf(b.calls[i]) = None

SumOfTimeouts(b) == FoldFunction(+, 0, [i \in DOMAIN b.calls |-> TimeoutOf(b.calls[i])])

\* MUTANT: the timeout of a batch has no upper bound.
RequestTimeout_NoCap(b) ==
    IF b.kind = "single" THEN TimeoutOf(b.calls[1])
    ELSE SumOfTimeouts(b)

\* HTTPRequest.request_timeout, where the sum is defined.
RequestTimeout(b) ==
    IF b.kind = "single" THEN TimeoutOf(b.calls[1])
    ELSE IF SumOfTimeouts(b) < 60 THEN SumOfTimeouts(b) ELSE 60

\* MUTANT: account_history_limit looks at the first call of a batch only.
HandlerRefusal_First(b) ==
    IF HistoryRefused(<<b.calls[1]>>) THEN "historyLimit"
    ELSE IF b.kind = "batch" /\ NoTimeout(b) THEN HandleError("TypeError")
    ELSE None

\* account_history_limit, and request_timeout, which cannot add up the None
\* that a configured 0 became.
HandlerRefusal(b) ==
    IF HistoryRefused(b.calls) THEN "historyLimit"
    ELSE IF b.kind = "batch" /\ NoTimeout(b) THEN HandleError("TypeError")
    ELSE None

-----------------------------------------------------------------------------
\* handle_jsonrpc and the fetches.

\* dispatch_single: fetch_ws first waits for a holder of the pool.
NewFetch(c) == [st |-> IF c \in WsCalls THEN "waiting" ELSE "asked", at |-> None]

\* handle_jsonrpc up to its first suspension: all calls are fetched, those
\* with a cached answer too.
Dispatch(r) ==
    /\ stage' = [stage EXCEPT ![r] = "handling"]
    /\ fetch' = [fetch EXCEPT ![r] = [i \in DOMAIN CallsOf(r) |-> NewFetch(CallsOf(r)[i])]]
    /\ UNCHANGED <<response, jobs>>

\* get_response found less than all, failed or ran into cache_read_timeout.
Miss(r) ==
    /\ stage[r] = "reading"
    /\ IF HandlerRefusal(body[r]) # None
         THEN Refuse(r, HandlerRefusal(body[r])) /\ UNCHANGED fetch
         ELSE Dispatch(r)
    /\ UNCHANGED <<body, libVars, cached, statVars, chain>>

Becomes(r, i, st, at) == fetch' = [fetch EXCEPT ![r][i] = [st |-> st, at |-> at]]

Running(r, i) == fetch[r][i].st \in {"waiting", "asked"}

HeldBy(r) == {i \in DOMAIN fetch[r] :
                 CallsOf(r)[i] \in WsCalls /\ fetch[r][i].st = "asked"}
Holding == UNION {{r} \X HeldBy(r) : r \in Reqs}

\* The pool has a free holder for a fetch_ws.
Acquire(r, i) ==
    /\ fetch[r][i].st = "waiting"
    /\ Cardinality(Holding) < PoolSize
    /\ Becomes(r, i, "asked", None)
    /\ UNCHANGED <<reqVars, body, libVars, cached, statVars, chain>>

\* The number in an upstream's answer: get_dynamic_global_properties reports
\* the last irreversible block, other calls may show the block after it.
Reported(c) == IF c \in DgpCalls THEN chain ELSE chain + 1

\* fetch_ws or fetch_http returns; the holder is given back.
FetchReturns(r, i) ==
    /\ fetch[r][i].st = "asked"
    /\ Becomes(r, i, "ok", Reported(CallsOf(r)[i]))
    /\ UNCHANGED <<reqVars, body, libVars, cached, statVars, chain>>

\* What fetches raise: the errors of fetch_http, timeouts of the libraries, and
\* closed connections, refused ids and the like.
FetchErrors == {"UpstreamResponseError", "TimeoutError", "other"}

\* MUTANT: gather hands over every exception, also those after the first.
FetchFails_Late(r, i) ==
    /\ Running(r, i)
    /\ Becomes(r, i, "failed", None)
    /\ \E e \in FetchErrors : Refuse(r, HandleError(e))
    /\ UNCHANGED <<body, libVars, cached, statVars, chain>>

\* A fetch raises: for a single call out of handle_jsonrpc, for a batch
\* through gather, which leaves the other fetches running.
FetchFails(r, i) ==
    /\ Running(r, i)
    /\ Becomes(r, i, "failed", None)
    /\ IF stage[r] = "handling"
         THEN \E e \in FetchErrors : Refuse(r, HandleError(e))
         ELSE UNCHANGED reqVars
    /\ UNCHANGED <<body, libVars, cached, statVars, chain>>

\* MUTANT: calls with a cached answer are not waited for.
FetchesDone_Missing(r) ==
    \A i \in DOMAIN fetch[r] : fetch[r][i].st = "ok" \/ cached[CallsOf(r)[i]] # None

FetchesDone(r) == \A i \in DOMAIN fetch[r] : fetch[r][i].st = "ok"

\* handle_jsonrpc returns the answers in the order of the calls.
Finish(r) ==
    /\ stage[r] = "handling"
    /\ FetchesDone(r)
    /\ Respond(r, None, [i \in DOMAIN fetch[r] |->
                            [call |-> CallsOf(r)[i], at |-> fetch[r][i].at]], FALSE)
    /\ UNCHANGED <<body, fetch, libVars, cached, statVars, chain>>

-----------------------------------------------------------------------------
\* Timeouts.

\* MUTANT: the fetches are shielded from the cancellation.
Cancelled_Shielded(fs) == fs

\* The cancellation of the handler reaches every fetch it waits for.
Cancelled(fs) ==
    [i \in DOMAIN fs |-> IF fs[i].st \in {"waiting", "asked"}
                           THEN [fs[i] EXCEPT !.st = "cancelled"] ELSE fs[i]]

RESPONSE_TIMEOUT == 65

\* The timeout of handle_jsonrpc.
Timeout(r) ==
    /\ stage[r] = "handling"
    /\ RequestTimeout(body[r]) # None
    /\ RequestTimeout(body[r]) <= RESPONSE_TIMEOUT
    /\ fetch' = [fetch EXCEPT ![r] = Cancelled(@)]
    /\ Refuse(r, HandleError("TimeoutError"))
    /\ UNCHANGED <<body, libVars, cached, statVars, chain>>

\* MUTANT: sanic has no response timeout.
ServerIsFirst_Never(b) == FALSE

\* The response timeout of sanic, which starts before the lookup, has expired.
ServerIsFirst(b) ==
    RequestTimeout(b) # None =>
        RequestTimeout(b) + CacheReadTimeout > RESPONSE_TIMEOUT

\* sanic answers and cancels the handler.  Whether the response middlewares
\* still run depends on the version of sanic.
ServerTimeout(r) ==
    /\ stage[r] = "handling"
    /\ ServerIsFirst(body[r])
    /\ fetch' = [fetch EXCEPT ![r] = Cancelled(@)]
    /\ stage' = [stage EXCEPT ![r] = "answered"]
    /\ response' = [response EXCEPT ![r] =
           [error |-> HandleError("ServiceUnavailable"), answers |-> <<>>, hit |-> FALSE]]
    /\ \E j \in {"start", "skipped"} : jobs' = [jobs EXCEPT ![r] = {j}]
    /\ UNCHANGED <<body, libVars, cached, statVars, chain>>

-----------------------------------------------------------------------------
\* The background tasks.

\* MUTANT: the number of any answer is taken.
UpdatesLib_All(r) == body[r].kind = "single" /\ response[r].error = None

\* update_last_irreversible_block_num: single calls only, no errors.
UpdatesLib(r) ==
    /\ body[r].kind = "single"
    /\ response[r].error = None
    /\ CallsOf(r)[1] \in DgpCalls

\* cache_response: neither errors nor what came from the caches.
Caches(r) ==
    /\ CallsOf(r) # <<>>
    /\ response[r].error = None
    /\ ~response[r].hit

\* send_stats takes the calls back and sends everything that is queued.
CountOut(b) ==
    IF b.calls = <<>> THEN UNCHANGED statVars ELSE PutAndSend(-Len(b.calls))

\* The tasks made by async_nowait_middleware run in order up to their first
\* suspension.  The update is skipped when the answer has no result.
Background(r) ==
    /\ "start" \in jobs[r]
    /\ CountOut(body[r])
    /\ \E update \in {FALSE, UpdatesLib(r)} :
          /\ lib' = (IF update THEN response[r].answers[1].at ELSE lib)
          /\ jobs' = [jobs EXCEPT ![r] = {j \in {"lib", "cache"} :
                         (j = "lib" => update) /\ (j = "cache" => Caches(r))}]
    /\ UNCHANGED <<stage, response, body, fetch, storedLib, cached, chain>>

\* cache_group.set of the number is done, or failed.
StoreLib(r) ==
    /\ "lib" \in jobs[r]
    /\ storedLib' \in {storedLib, response[r].answers[1].at}
    /\ jobs' = [jobs EXCEPT ![r] = @ \ {"lib"}]
    /\ UNCHANGED <<stage, response, body, fetch, lib, cached, statVars, chain>>

\* The answers in S are stored; the others must not be cached, or writing
\* them fails.  Of two answers to one call the later stays.
StoreAnswers(r) ==
    /\ "cache" \in jobs[r]
    /\ \E S \in SUBSET DOMAIN CallsOf(r) :
         LET Last(c) == {i \in S : /\ CallsOf(r)[i] = c
                                   /\ \A j \in S : CallsOf(r)[j] = c => j <= i}
         IN  cached' = [c \in Calls |->
                          IF Last(c) = {} THEN cached[c]
                          ELSE response[r].answers[CHOOSE i \in Last(c) : TRUE].at]
    /\ jobs' = [jobs EXCEPT ![r] = @ \ {"cache"}]
    /\ UNCHANGED <<stage, response, body, fetch, libVars, statVars, chain>>

-----------------------------------------------------------------------------
\* The environment.

Advance ==
    /\ chain < MaxChain
    /\ chain' = chain + 1
    /\ UNCHANGED <<reqVars, body, fetch, libVars, cached, statVars>>

\* The process dies and starts again: setup_caching looks the number up and
\* falls back to StartLib; clients lose their connections.
Restart ==
    /\ stage' = [r \in Reqs |-> IF stage[r] \in {"reading", "handling"}
                                  THEN "dropped" ELSE stage[r]]
    /\ fetch' = [r \in Reqs |-> Cancelled(fetch[r])]
    /\ jobs' = [r \in Reqs |-> {}]
    /\ lib' \in {StartLib} \cup ({storedLib} \ {None})
    /\ queued' = 0
    /\ sent' = 0
    /\ UNCHANGED <<response, body, storedLib, cached, chain>>

ReadEnds(r) == Hit(r) \/ Miss(r)
Handler(r) == Finish(r) \/ Timeout(r) \/ ServerTimeout(r)
Stores(r) == StoreLib(r) \/ StoreAnswers(r)

Next ==
    \/ \E r \in Reqs, b \in Bodies : Arrive(r, b)
    \/ \E r \in Reqs : ReadEnds(r) \/ Handler(r) \/ Background(r) \/ Stores(r)
    \/ \E r \in Reqs : \E i \in DOMAIN fetch[r] :
           Acquire(r, i) \/ FetchReturns(r, i) \/ FetchFails(r, i)
    \/ Advance
    \/ Restart

\* The event loop runs what is ready and its timers expire; upstreams need
\* not answer.
Fairness ==
    \A r \in Reqs :
        /\ WF_vars(ReadEnds(r))
        /\ WF_vars(Finish(r))
        /\ WF_vars(Timeout(r))
        /\ WF_vars(ServerTimeout(r))
        /\ WF_vars(Background(r))
        /\ WF_vars(Stores(r))

Spec == Init /\ [][Next]_vars /\ Fairness

-----------------------------------------------------------------------------
\* Properties.

Stages == {"new", "reading", "handling", "answered", "dropped"}

\* The domains of the variables.
TypeOK ==
    /\ stage \in [Reqs -> Stages]
    /\ body \in [Reqs -> Bodies \cup {None}]
    /\ response \in [Reqs -> Response \cup {None}]
    /\ fetch \in [Reqs -> Seq(Fetch)]
    /\ jobs \in [Reqs -> SUBSET {"start", "lib", "cache", "skipped"}]
    /\ lib \in Nat
    /\ storedLib \in Numbers
    /\ cached \in [Calls -> Numbers]
    /\ queued \in Int
    /\ sent \in Int
    /\ chain \in Nat

Served(r) == response[r] # None /\ response[r].error = None

\* A response without an error carries, for every call of the body and in its
\* place, an answer that an upstream gave; only what was parsed is served.
\* (get_response, gather and dispatch_single, HTTPRequest.jsonrpc)
OwnAnswers ==
    \A r \in Reqs : Served(r) =>
        LET as == response[r].answers IN
        /\ body[r].kind # "invalid"
        /\ Len(as) = Len(CallsOf(r))
        /\ \A i \in DOMAIN as : as[i].call = CallsOf(r)[i] /\ as[i].at # None

Status ==
    [r \in Reqs |-> CASE stage[r] \in {"reading", "handling"} -> "open"
                      [] stage[r] = "dropped" -> "lost"
                      [] OTHER -> stage[r]]

Client == INSTANCE Gateway WITH status <- Status

\* A client gets one response, for good: it answers the calls of its body in
\* their places or is one error, whichever of the caches, fetches, failures and
\* the two timeouts comes first, and nothing that ends later changes it.
\* (get_response, handle_jsonrpc, async_nowait_middleware)
ImplementsGateway == Client!Spec

\* A call over a limit is never sent upstream, cached or served, alone or in
\* a batch, although account_history_limit runs after the lookup.
LimitsHold ==
    /\ \A r \in Reqs : Served(r) \/ fetch[r] # <<>> =>
           /\ body[r].kind = "batch" => Len(CallsOf(r)) <= BatchSizeLimit
           /\ ~BroadcastRefused(CallsOf(r)) /\ ~HistoryRefused(CallsOf(r))
    /\ \A c \in BadBroadcasts \cup LongHistories : cached[c] = None

\* The requests that init_stats has counted and send_stats not yet taken back.
Counted(r) ==
    \/ stage[r] \in {"reading", "handling"}
    \/ jobs[r] \cap {"start", "skipped"} # {}

Inflight == UNION {{r} \X DOMAIN CallsOf(r) : r \in {q \in Reqs : Counted(q)}}

\* jrpc.inflight at statsd and what waits to be sent there add up to the calls
\* of the requests in flight, whatever middleware or handler answers them, and
\* statsd is never told a negative number.  (init_stats, send_stats)
InflightExact ==
    /\ queued + sent = Cardinality(Inflight)
    /\ sent >= 0

\* A fetch still running for a request that was answered belongs to a batch
\* that another fetch made fail: timeouts leave none, so nothing waits for a
\* holder or an upstream without a limit but behind a failure.
\* (gather and timeout in handle_jsonrpc)
OrphansAfterFailure ==
    \A r \in Reqs : stage[r] # "handling" =>
        \A i \in DOMAIN fetch[r] : Running(r, i) =>
            \E j \in DOMAIN fetch[r] : fetch[r][j].st = "failed"

\* A batch times out in jussi, never in sanic, whatever its size: 60 seconds
\* in http.py and the lookup are less than RESPONSE_TIMEOUT in sanic_config.py.
BatchesTimeOutFirst ==
    \A r \in Reqs :
        response[r] # None /\ response[r].error = "responseTimeout" =>
            body[r].kind = "single"

\* Whatever sets it, in any order, also from caches and after a restart, the
\* last irreversible block number is never ahead of the chain's, so no block
\* that may still change is cached for ever.
\* (update_last_irreversible_block_num, setup_caching)
LibNeverAhead ==
    /\ lib <= chain
    /\ storedLib # None => storedLib <= chain

\* A request is answered and its background tasks come to an end, even when
\* no upstream answers, or the process dies.
EveryRequestEnds ==
    \A r \in Reqs :
        stage[r] # "new" ~> /\ stage[r] \in {"answered", "dropped"}
                            /\ jobs[r] \subseteq {"skipped"}

\* What upstream.py says of a configured timeout of 0, "NO TIMEOUT: 0": it is
\* no reason to refuse a request before anything was sent upstream.
NoTimeoutServed ==
    \A r \in Reqs :
        response[r] # None /\ response[r].error = "internal" => fetch[r] # <<>>
=============================================================================
