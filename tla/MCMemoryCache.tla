--------------------------- MODULE MCMemoryCache ----------------------------
(* An instance of MemoryCache for TLC. *)
EXTENDS MemoryCache, TLC

\* No expire_time, one beyond the maximum, zero, and the -2 that a batch of
\* mixed requests stores.
SomeTTLs == {None, 2, 0, -2}

CONSTANTS v1, v2

\* `sets` of one pair, each lifetime and each value once, and set_manys of two.
Stores == {<<v1, 2>>, <<v1, 0>>, <<v1, -2>>, <<v2, None>>, <<Empty, 2>>}

SomeBatches ==
    {<<[key |-> k, val |-> s[1], ttl |-> s[2]]>> : k \in Keys, s \in Stores} \cup
    {<<[key |-> p[1], val |-> v1, ttl |-> 2], [key |-> p[2], val |-> v1, ttl |-> 2]>> :
        p \in {x \in Keys \X Keys : x[1] # x[2]}}

KeySymmetry == Permutations(Keys)
=============================================================================
