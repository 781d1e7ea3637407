----------------------------- MODULE HolderPool -----------------------------
(***************************************************************************)
(* What Pool.acquire and Pool.release (jussi/ws/pool.py) promise: a holder *)
(* is free or belongs to one coroutine, it is acquired only while free, and *)
(* it changes hands only by becoming free in between.                      *)
(***************************************************************************)
CONSTANTS Tasks, Holders, None

VARIABLES
    free,    \* the holders the queue can hand out
    owner    \* owner[h]: the coroutine that acquired h, or None

vars == <<free, owner>>

Init == free = Holders /\ owner = [h \in Holders |-> None]

Acquire(t, h) ==
    /\ h \in free
    /\ free' = free \ {h}
    /\ owner' = [owner EXCEPT ![h] = t]

\* One coroutine gives back one holder; the termination of the pool gives
\* back several.
Return(S) ==
    /\ S \cap free = {}
    /\ free' = free \cup S
    /\ owner' = [h \in Holders |-> IF h \in S THEN None ELSE owner[h]]

Next ==
    \/ \E t \in Tasks, h \in Holders : Acquire(t, h)
    \/ \E S \in SUBSET Holders : Return(S)

Spec == Init /\ [][Next]_vars
=============================================================================
