CONSTANTS
    r1 = r1
    r2 = r2
    plain = plain
    secret = secret
    block = block
    lone = lone
    Requests = {r1, r2}
    Keys = {plain, secret, block}
    Blocks = {block}
    Reversible = {block}
    Ttl <- SomeTtl
    DefaultTTL = 2
    MaxTTL = 3
    Queries <- TwoQueries
    HasRedis = TRUE
    Faults = {}
    MaxTime = 1
    RequestTimeout = 1
    None = None
SPECIFICATION Spec
SYMMETRY RequestSymmetry
INVARIANT ErrorsNotCached
CHECK_DEADLOCK FALSE
