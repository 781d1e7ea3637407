---------------------------- MODULE MCCacheGroup ----------------------------
(* Instances of CacheGroup for TLC. *)
EXTENDS CacheGroup, TLC

CONSTANTS plain, secret, block, lone

\* One call cached for a second, one never, one get_block (-2), and one that no
\* batch has, with no expiry of its own.
SomeTtl == [k \in Keys |-> CASE k = plain  -> 1
                             [] k = secret -> NoCache
                             [] k = block  -> IfIrreversible
                             [] k = lone   -> None]

Single(k) == [batch |-> FALSE, keys |-> <<k>>]
Batch(ks) == [batch |-> TRUE, keys |-> ks]

MixedQueries ==
    {Single(plain), Single(block), Single(secret), Single(lone),
     Batch(<<block, plain>>), Batch(<<block, secret>>), Batch(<<block, block>>)}

TwoQueries == {Single(block), Batch(<<block, plain>>)}

RequestSymmetry == Permutations(Requests)
=============================================================================
