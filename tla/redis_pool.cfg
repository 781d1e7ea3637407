CONSTANTS
    t1 = t1
    t2 = t2
    c1 = c1
    c2 = c2
    c3 = c3
    Tasks = {t1, t2}
    Conns = {c1, c2, c3}
    MaxConns = 2
    MaxAge = 1
    MaxWait = 1
    Faults = {"cancel", "lose", "drop", "refuse", "slow"}
    None = None
SPECIFICATION FairSpec
INVARIANT TypeOK
INVARIANT CountExact
INVARIANT OneUser
PROPERTY NoEarlyEviction
PROPERTY LostAreReaped
