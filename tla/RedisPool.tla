------------------------------ MODULE RedisPool ------------------------------
(***************************************************************************)
(* HealthCheckedConnectionPool (jussi/cache/__init__.py): a redis-py pool  *)
(* that discards dead connections on release and evicts those that were in *)
(* use for too long, because a cancelled command may never release its own.*)
(*                                                                         *)
(* A task runs one redis command after the other.  It suspends where it    *)
(* waits for the lock of the pool ("reaping", "getting", "releasing"),     *)
(* while it disconnects what it evicted ("evicting") or discards           *)
(* ("discarding", with the lock), while it connects ("connecting") and     *)
(* while its command runs ("using").                                       *)
(***************************************************************************)
EXTENDS Naturals, Sequences, FiniteSets, Functions

CONSTANTS
    Tasks,
    Conns,     \* the connection objects that may exist at a time
    MaxConns,  \* max_connections
    MaxAge,    \* in_use_max_age
    MaxWait,   \* the longest wait for the lock, which others hold while they discard
    Faults,    \* what the environment may do, a subset of AllFaults
    None

AllFaults ==
    {"cancel",  \* cache_read_timeout fires
     "lose",    \* a cancelled command does not release its connection
     "drop",    \* redis or the network closes a connection
     "refuse",  \* connecting fails
     "slow"}    \* a command outlives in_use_max_age

ASSUME PoolAssumption ==
    /\ MaxConns \in Nat \ {0}
    /\ MaxAge \in Nat /\ MaxWait \in Nat
    /\ None \notin Conns /\ None \notin Tasks /\ None \notin Nat
    /\ Faults \subseteq AllFaults

\* Ages above the limit are alike; those of stamps are compared with a time
\* from before a wait.
MaxHeld == MaxAge + 1
MaxStamp == MaxAge + MaxWait + 1

VARIABLES
    available,  \* _available_connections, a list; the last one is taken
    inUse,      \* _in_use_connections
    created,    \* _created_connections
    stamp,      \* stamp[c]: the age of _jussi_in_use_since, None without it
    held,       \* held[c]: the time since c was taken from the pool
    alive,      \* alive[c]: is_connected, of a connection that a task may ask
    lock,       \* the task that awaits while it has _lock, or None
    pc,
    conn,       \* conn[t]: the connection t has
    stuck,      \* stuck[t]: the evicted connections t has yet to disconnect
    waited      \* waited[t]: the time since t, that reaps, has read now; 0 otherwise

poolVars == <<available, inUse, created, stamp, held, lock>>
taskVars == <<pc, conn, stuck, waited>>
vars == <<poolVars, alive, taskVars>>

Init ==
    /\ available = <<>>
    /\ inUse = {}
    /\ created = 0
    /\ stamp = [c \in Conns |-> None]
    /\ held = [c \in Conns |-> 0]
    /\ alive = [c \in Conns |-> FALSE]
    /\ lock = None
    /\ pc = [t \in Tasks |-> "idle"]
    /\ conn = [t \in Tasks |-> None]
    /\ stuck = [t \in Tasks |-> {}]
    /\ waited = [t \in Tasks |-> 0]

\* Nothing refers to c: it stands for an object not made yet.
Unreferenced(c) ==
    /\ c \notin Range(available) \cup inUse
    /\ \A t \in Tasks : conn[t] # c /\ c \notin stuck[t]

End(t) ==
    /\ pc' = [pc EXCEPT ![t] = "idle"]
    /\ conn' = [conn EXCEPT ![t] = None]

-----------------------------------------------------------------------------
\* get_connection.

\* _reap_stuck_in_use reads now, and waits when another has the lock; a free
\* lock is taken at once, by Reap.
Begin(t) ==
    /\ pc[t] = "idle"
    /\ lock # None
    /\ pc' = [pc EXCEPT ![t] = "reaping"]
    /\ UNCHANGED <<poolVars, alive, conn, stuck, waited>>

\* The part of the parent's get_connection under the lock, when c is taken.
Take(t, c) ==
    /\ inUse' = inUse \cup {c}
    /\ held' = [held EXCEPT ![c] = 0]
    /\ conn' = [conn EXCEPT ![t] = c]
    /\ pc' = [pc EXCEPT ![t] = "connecting"]

\* The last available connection, a new one, or "Too many connections".
TakeConnection(t) ==
    \/ /\ available # <<>>
       /\ Take(t, available[Len(available)])
       /\ available' = SubSeq(available, 1, Len(available) - 1)
       /\ UNCHANGED <<created, alive, stamp>>
    \/ /\ available = <<>>
       /\ created < MaxConns
       /\ \E c \in Conns : Unreferenced(c)
       /\ LET c == CHOOSE c \in Conns : Unreferenced(c) IN
            /\ Take(t, c)
            /\ alive' = [alive EXCEPT ![c] = FALSE]
            /\ stamp' = [stamp EXCEPT ![c] = None]
       /\ created' = created + 1
       /\ UNCHANGED available
    \/ /\ available = <<>>
       /\ created >= MaxConns
       /\ End(t)
       /\ UNCHANGED <<available, inUse, created, held, alive, stamp>>

\* What was in use for too long when t read now, before it waited for the lock.
Overdue(t) == {c \in inUse : stamp[c] # None /\ stamp[c] > MaxAge + waited[t]}

\* MUTANT: the reaper makes what it evicts available again.
Reap_Returns(t) ==
    /\ pc[t] \in {"idle", "reaping"}
    /\ lock = None
    /\ inUse' = inUse \ Overdue(t)
    /\ available' = IF Overdue(t) = {} THEN available
                    ELSE Append(available, CHOOSE c \in Overdue(t) : TRUE)
    /\ created' = created
    /\ stamp' = [c \in Conns |-> IF c \in Overdue(t) THEN None
                                 ELSE IF c \in inUse /\ stamp[c] = None THEN waited[t]
                                 ELSE stamp[c]]
    /\ pc' = [pc EXCEPT ![t] = "getting"]
    /\ waited' = [waited EXCEPT ![t] = 0]
    /\ UNCHANGED <<held, stuck, lock, alive, conn>>

\* MUTANT: a connection without a stamp is passed over.
Reap_NoStamp(t) ==
    /\ pc[t] \in {"idle", "reaping"}
    /\ lock = None
    /\ inUse' = inUse \ Overdue(t)
    /\ created' = created - Cardinality(Overdue(t))
    /\ stamp' = [c \in Conns |-> IF c \in Overdue(t) THEN None ELSE stamp[c]]
    /\ held' = [c \in Conns |-> IF c \in Overdue(t) THEN 0 ELSE held[c]]
    /\ stuck' = [stuck EXCEPT ![t] = Overdue(t)]
    /\ pc' = [pc EXCEPT ![t] = IF Overdue(t) = {} THEN "getting" ELSE "evicting"]
    /\ waited' = [waited EXCEPT ![t] = 0]
    /\ UNCHANGED <<available, lock, alive, conn>>

\* _reap_stuck_in_use under the lock: what has no stamp gets the now read
\* before the wait, what is overdue leaves the pool.  Nothing tells the task
\* that may still use it.
Reap(t) ==
    /\ pc[t] \in {"idle", "reaping"}
    /\ lock = None
    /\ inUse' = inUse \ Overdue(t)
    /\ created' = IF created > Cardinality(Overdue(t))
                    THEN created - Cardinality(Overdue(t)) ELSE 0
    /\ stamp' = [c \in Conns |-> IF c \in Overdue(t) THEN None
                                 ELSE IF c \in inUse /\ stamp[c] = None THEN waited[t]
                                 ELSE stamp[c]]
    /\ held' = [c \in Conns |-> IF c \in Overdue(t) THEN 0 ELSE held[c]]
    /\ stuck' = [stuck EXCEPT ![t] = Overdue(t)]
    /\ pc' = [pc EXCEPT ![t] = IF Overdue(t) = {} THEN "getting" ELSE "evicting"]
    /\ waited' = [waited EXCEPT ![t] = 0]
    /\ UNCHANGED <<available, lock, alive, conn>>

\* One disconnect of the reaper.  It may fail, and a cancellation is caught
\* with the other exceptions: the reaper goes on with the next, and one that
\* no task has is closed with its last reference.
Disconnect(t) ==
    /\ pc[t] = "evicting"
    /\ \E c \in stuck[t], left \in {FALSE} \cup {"cancel" \in Faults} :
         /\ stuck' = [stuck EXCEPT ![t] = @ \ {c}]
         /\ alive' = [alive EXCEPT ![c] = left /\ @ /\ \E u \in Tasks : conn[u] = c]
    /\ pc' = [pc EXCEPT ![t] = IF stuck'[t] = {} THEN "getting" ELSE "evicting"]
    /\ UNCHANGED <<poolVars, conn, waited>>

Get(t) ==
    /\ pc[t] = "getting"
    /\ lock = None
    /\ TakeConnection(t)
    /\ UNCHANGED <<lock, stuck, waited>>

\* The parent's get_connection has connected; the stamp is put on.
Connected(t) ==
    /\ pc[t] = "connecting"
    /\ pc' = [pc EXCEPT ![t] = "using"]
    /\ alive' = [alive EXCEPT ![conn[t]] = TRUE]
    /\ stamp' = [stamp EXCEPT ![conn[t]] = 0]
    /\ UNCHANGED <<available, inUse, created, held, lock, conn, stuck, waited>>

\* Connecting fails or is cancelled: the parent releases the connection.
ConnectFails(t) ==
    /\ Faults \cap {"refuse", "cancel"} # {}
    /\ pc[t] = "connecting"
    /\ pc' = [pc EXCEPT ![t] = "releasing"]
    /\ alive' = [alive EXCEPT ![conn[t]] = FALSE]
    /\ UNCHANGED <<poolVars, conn, stuck, waited>>

-----------------------------------------------------------------------------
\* The command.

Replied(t) ==
    /\ pc[t] = "using"
    /\ alive[conn[t]]
    /\ pc' = [pc EXCEPT ![t] = "releasing"]
    /\ UNCHANGED <<poolVars, alive, conn, stuck, waited>>

\* The connection is closed, or the command is cancelled.
Breaks(t) ==
    /\ pc[t] = "using"
    /\ ~alive[conn[t]] \/ "cancel" \in Faults
    /\ pc' = [pc EXCEPT ![t] = "releasing"]
    /\ alive' = [alive EXCEPT ![conn[t]] = FALSE]
    /\ UNCHANGED <<poolVars, conn, stuck, waited>>

\* retry_on_timeout: a command connects its closed connection again, also one
\* the reaper has evicted.
Reconnect(t) ==
    /\ pc[t] = "using"
    /\ ~alive[conn[t]]
    /\ alive' = [alive EXCEPT ![conn[t]] = TRUE]
    /\ UNCHANGED <<poolVars, taskVars>>

\* "Cancellation can propagate before redis-py's try/finally
\* pool.release(conn) runs".  Nobody asks the connection again.
Lose(t) ==
    /\ "lose" \in Faults
    /\ pc[t] = "using"
    /\ End(t)
    /\ alive' = [alive EXCEPT ![conn[t]] = FALSE]
    /\ UNCHANGED <<poolVars, stuck, waited>>

-----------------------------------------------------------------------------
\* release.

\* MUTANT: a connection the reaper has evicted is taken back.
Release_Evicted(t) ==
    /\ pc[t] = "releasing"
    /\ lock = None
    /\ stamp' = [stamp EXCEPT ![conn[t]] = None]
    /\ inUse' = inUse \ {conn[t]}
    /\ IF alive[conn[t]]
         THEN /\ available' = Append(available, conn[t])
              /\ End(t)
              /\ UNCHANGED <<created, lock>>
         ELSE /\ created' = created - 1
              /\ lock' = t
              /\ pc' = [pc EXCEPT ![t] = "discarding"]
              /\ UNCHANGED <<available, conn>>
    /\ held' = [held EXCEPT ![conn[t]] = 0]
    /\ UNCHANGED <<alive, stuck, waited>>

\* MUTANT: the stamp stays on the connection.
Release_KeepStamp(t) ==
    /\ pc[t] = "releasing"
    /\ lock = None
    /\ inUse' = inUse \ {conn[t]}
    /\ \/ /\ conn[t] \notin inUse
          /\ alive' = [alive EXCEPT ![conn[t]] = FALSE]
          /\ End(t)
          /\ UNCHANGED <<available, created, lock>>
       \/ /\ conn[t] \in inUse /\ alive[conn[t]]
          /\ available' = Append(available, conn[t])
          /\ End(t)
          /\ UNCHANGED <<created, lock, alive>>
       \/ /\ conn[t] \in inUse /\ ~alive[conn[t]]
          /\ created' = created - 1
          /\ lock' = t
          /\ pc' = [pc EXCEPT ![t] = "discarding"]
          /\ UNCHANGED <<available, conn, alive>>
    /\ held' = [held EXCEPT ![conn[t]] = 0]
    /\ UNCHANGED <<stamp, stuck, waited>>

\* An evicted connection is left alone, and closed with its last reference; a
\* dead one is discarded with the lock held, another one is available again.
Release(t) ==
    /\ pc[t] = "releasing"
    /\ lock = None
    /\ stamp' = [stamp EXCEPT ![conn[t]] = None]
    /\ inUse' = inUse \ {conn[t]}
    /\ \/ /\ conn[t] \notin inUse
          /\ alive' = [alive EXCEPT ![conn[t]] = FALSE]
          /\ End(t)
          /\ UNCHANGED <<available, created, lock>>
       \/ /\ conn[t] \in inUse /\ alive[conn[t]]
          /\ available' = Append(available, conn[t])
          /\ End(t)
          /\ UNCHANGED <<created, lock, alive>>
       \/ /\ conn[t] \in inUse /\ ~alive[conn[t]]
          /\ created' = created - 1
          /\ lock' = t
          /\ pc' = [pc EXCEPT ![t] = "discarding"]
          /\ UNCHANGED <<available, conn, alive>>
    /\ held' = [held EXCEPT ![conn[t]] = 0]
    /\ UNCHANGED <<stuck, waited>>

Discarded(t) ==
    /\ pc[t] = "discarding"
    /\ lock' = None
    /\ End(t)
    /\ UNCHANGED <<available, inUse, created, stamp, held, alive, stuck, waited>>

\* A task that waits for the lock is cancelled; in release its connection
\* stays in use for ever.
CancelWaiting(t) ==
    /\ "cancel" \in Faults
    /\ pc[t] \in {"reaping", "getting", "releasing"}
    /\ lock # None
    /\ End(t)
    /\ waited' = [waited EXCEPT ![t] = 0]
    /\ UNCHANGED <<poolVars, alive, stuck>>

-----------------------------------------------------------------------------
\* The environment.

\* A connection is closed under its task; one that is closed while it is
\* available is connected again by the next.
Drop(c) ==
    /\ "drop" \in Faults
    /\ alive[c]
    /\ \E t \in Tasks : conn[t] = c /\ pc[t] \in {"using", "releasing"}
    /\ alive' = [alive EXCEPT ![c] = FALSE]
    /\ UNCHANGED <<poolVars, taskVars>>

Older(age, max) == IF age = max THEN age ELSE age + 1

\* The stamp of an evicted connection is never read again.
StampAges(c) == stamp[c] # None /\ c \in inUse \cup Range(available)

\* Time passes.  Unless some are slow, tasks give their connections back
\* before in_use_max_age, which is larger than the timeouts.  MaxWait bounds a
\* wait for the lock.
Tick ==
    /\ \/ "slow" \in Faults
       \/ \A t \in Tasks : conn[t] # None => held[conn[t]] < MaxAge
    /\ \A t \in Tasks : pc[t] = "reaping" => waited[t] < MaxWait
    /\ stamp' = [c \in Conns |-> IF StampAges(c) THEN Older(stamp[c], MaxStamp)
                                              ELSE stamp[c]]
    /\ held' = [c \in Conns |-> IF c \in inUse THEN Older(held[c], MaxHeld) ELSE held[c]]
    /\ waited' = [t \in Tasks |-> IF pc[t] = "reaping" THEN waited[t] + 1 ELSE 0]
    /\ UNCHANGED <<available, inUse, created, lock, alive, pc, conn, stuck>>

-----------------------------------------------------------------------------
TaskStep(t) ==
    \/ Begin(t) \/ Reap(t) \/ Disconnect(t) \/ Get(t) \/ Connected(t) \/ ConnectFails(t)
    \/ Replied(t) \/ Breaks(t) \/ Reconnect(t) \/ Lose(t)
    \/ Release(t) \/ Discarded(t) \/ CancelWaiting(t)

Next ==
    \/ \E t \in Tasks : TaskStep(t)
    \/ \E c \in Conns : Drop(c)
    \/ Tick

Spec == Init /\ [][Next]_vars

\* Time passes, requests keep coming, and a command ends, by its timeouts if
\* nothing else: a task never stays where it is while it may go on.  Nor does
\* it wait for a lock that others take over and over: asyncio.Lock serves
\* those who wait in their order.
Progress(t) ==
    \/ Begin(t) \/ Reap(t) \/ Disconnect(t) \/ Get(t)
    \/ Connected(t) \/ ConnectFails(t) \/ Replied(t) \/ Breaks(t)
    \/ Release(t) \/ Discarded(t)

Fairness == WF_vars(Tick) /\ \A t \in Tasks : SF_vars(Progress(t))

FairSpec == Spec /\ Fairness

-----------------------------------------------------------------------------
\* Properties.

PCs == {"idle", "reaping", "evicting", "getting", "connecting", "using",
        "releasing", "discarding"}
Holding == {"connecting", "using", "releasing", "discarding"}

\* Every variable has its type, a task has a connection exactly from get to
\* release, and the lock is held while a connection is discarded.
TypeOK ==
    /\ available \in Seq(Conns)
    /\ inUse \in SUBSET Conns
    /\ created \in Nat
    /\ stamp \in [Conns -> (0..MaxStamp) \cup {None}]
    /\ held \in [Conns -> 0..MaxHeld]
    /\ alive \in [Conns -> BOOLEAN]
    /\ lock \in Tasks \cup {None}
    /\ pc \in [Tasks -> PCs]
    /\ conn \in [Tasks -> Conns \cup {None}]
    /\ stuck \in [Tasks -> SUBSET Conns]
    /\ waited \in [Tasks -> 0..MaxWait]
    /\ \A t \in Tasks :
         /\ conn[t] # None <=> pc[t] \in Holding
         /\ lock = t <=> pc[t] = "discarding"

\* _created_connections is the number of connections in the pool: an eviction
\* and a late release of the same connection do not both count it down, so
\* the pool neither exceeds max_connections nor believes to be full for ever.
CountExact ==
    /\ created = Len(available) + Cardinality(inUse)
    /\ created <= MaxConns

\* A connection is with one task, or available once, or neither, even after
\* the reaper has evicted it from a task that goes on using it.
OneUser ==
    /\ IsInjective(available)
    /\ Range(available) \cap inUse = {}
    /\ \A t \in Tasks : conn[t] # None =>
         /\ conn[t] \notin Range(available)
         /\ \A u \in Tasks : conn[u] = conn[t] => u = t

\* Only for a connection with a task that runs a command on it is the stamp
\* that of the present use: a reaper may have waited since it read the time
\* that it stamps on one that is still connecting.
IsUsed(c) == \E t \in Tasks : conn[t] = c /\ pc[t] = "using"

\* The reaper evicts a connection under a command only when its task has had
\* it for more than in_use_max_age, and another one at most a wait for the
\* lock too early; the stamp of an earlier use never counts.
NoEarlyEviction ==
    [][\A c \in inUse \ inUse' :
          \/ held[c] > MaxAge
          \/ ~IsUsed(c) /\ held[c] + MaxWait > MaxAge
          \/ \E t \in Tasks : conn[t] = c /\ pc[t] = "releasing" /\ pc'[t] # "releasing"]_vars

\* A connection whose task is gone does not stay in use for ever, and the pool
\* can make another one in its place.
LostAreReaped ==
    \A c \in Conns :
        c \in inUse /\ (\A t \in Tasks : conn[t] # c) ~> c \notin inUse
=============================================================================
