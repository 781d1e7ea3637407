----------------------------- MODULE MCRequests -----------------------------
(* An instance of Requests for TLC. *)
EXTENDS Requests, TLC

\* dgp and slow go to http upstreams, block and history to a websocket.
CallNames == {"dgp", "block", "slow", "history", "broadcast"}

\* slow has no timeout, dgp one beyond sanic's; two blocks exceed 60.
Timeouts == [c \in CallNames |-> CASE c = "slow" -> 0 [] c = "dgp" -> 70 [] OTHER -> 40]

Single(c) == [kind |-> "single", calls |-> <<c>>]
Batch(cs) == [kind |-> "batch", calls |-> cs]

\* Each call alone, batches that mix upstreams, limits and timeouts, one with
\* the same call twice, one over the size limit, a GET and what does not parse.
BodySet ==
    {Single(c) : c \in CallNames}
    \cup {Batch(cs) : cs \in {<<"block", "dgp">>, <<"block", "block">>,
                             <<"dgp", "slow">>, <<"block", "history">>,
                             <<"block", "broadcast">>, <<"dgp", "dgp", "dgp">>}}
    \cup {[kind |-> k, calls |-> <<>>] : k \in {"get", "invalid"}}

RequestSymmetry == Permutations(Reqs)
=============================================================================
