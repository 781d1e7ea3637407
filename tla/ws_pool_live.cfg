CONSTANTS
    t1 = t1
    t2 = t2
    t3 = t3
    Tasks = {t1, t2, t3}
    MaxSize = 2
    MinSize = 2
    MaxConns = 5
    UpstreamId <- SameIds
    Faults = {"cancel", "wrongId"}
    None = None
SPECIFICATION FairSpec
PROPERTY NoEndlessWait
PROPERTY HoldersReturn
CHECK_DEADLOCK FALSE
