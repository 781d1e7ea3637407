CONSTANTS
    t1 = t1
    t2 = t2
    Tasks = {t1, t2}
    MaxSize = 1
    MinSize = 0
    MaxConns = 2
    UpstreamId <- SameIds
    Faults = {"wrongId"}
    None = None
SPECIFICATION Spec
PROPERTY ReleasedByOwner
CHECK_DEADLOCK FALSE
