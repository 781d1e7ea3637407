CONSTANTS
    k1 = k1
    k2 = k2
    k3 = k3
    v1 = v1
    v2 = v2
    e = e
    Keys = {k1, k2, k3}
    Values = {v1, v2, e}
    Empty = e
    TTLs <- SomeTTLs
    MaxTTL = 1
    MaxSize = 2
    Batches <- SomeBatches
    MaxTime = 2
    MaxInserts = 3
    MayClear = TRUE
    None = None
SPECIFICATION Spec
SYMMETRY KeySymmetry
INVARIANT TypeOK
INVARIANT SizeBounded
PROPERTY ImplementsTtlMap
CHECK_DEADLOCK FALSE
