CONSTANTS
    r1 = r1
    r2 = r2
    plain = plain
    secret = secret
    block = block
    lone = lone
    Requests = {r1, r2}
    Keys = {plain, secret, block, lone}
    Blocks = {block}
    Reversible = {block}
    Ttl <- SomeTtl
    DefaultTTL = 2
    MaxTTL = 3
    Queries <- MixedQueries
    HasRedis = TRUE
    Faults = {"redisFails", "redisHangs", "upstreamFails", "restart"}
    MaxTime = 2
    RequestTimeout = 1
    None = None
SPECIFICATION FairSpec
INVARIANT TypeOK
INVARIANT HitsAligned
INVARIANT InvalidFromBatches
INVARIANT NoCacheNotServed
INVARIANT MemoryNotRenewed
PROPERTY Answered
CHECK_DEADLOCK FALSE
