CONSTANTS
    r1 = r1
    r2 = r2
    Reqs = {r1, r2}
    Calls <- CallNames
    WsCalls = {"block", "history"}
    DgpCalls = {"dgp"}
    BadBroadcasts = {"broadcast"}
    LongHistories = {"history"}
    ConfiguredTimeout <- Timeouts
    Bodies <- BodySet
    BatchSizeLimit = 2
    PoolSize = 1
    CacheReadTimeout = 1
    StartLib = 0
    MaxChain = 1
    None = None
SPECIFICATION Spec
INVARIANT NoTimeoutServed
CHECK_DEADLOCK FALSE
