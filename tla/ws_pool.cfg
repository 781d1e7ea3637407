CONSTANTS
    t1 = t1
    t2 = t2
    t3 = t3
    Tasks = {t1, t2, t3}
    MaxSize = 2
    MinSize = 0
    MaxConns = 3
    UpstreamId <- SameIds
    Faults = {"cancel", "connectFails", "upstreamClose", "wrongId", "garbage", "stop"}
    None = None
SPECIFICATION Spec
SYMMETRY TaskSymmetry
INVARIANT TypeOK
INVARIANT HolderAccounted
INVARIANT ConnExclusive
INVARIANT IdleConnClean
INVARIANT OwnAnswer
INVARIANT ClosedPoolDrains
PROPERTY ImplementsHolderPool
CHECK_DEADLOCK FALSE
