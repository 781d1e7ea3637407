------------------------------- MODULE WsPool -------------------------------
(***************************************************************************)
(* The websocket connection pool of jussi (jussi/ws/pool.py) together with *)
(* its only client, the coroutine fetch_ws (jussi/handlers.py), which asks *)
(* an upstream over a pooled connection.                                   *)
(*                                                                         *)
(* asyncio runs one callback at a time, so the code between two awaits     *)
(* that really suspend is one step.  fetch_ws suspends in queue.get        *)
(* ("getting"), while a connection is established ("connecting"), in send  *)
(* ("sending"), in recv ("receiving") and while the shielded release runs  *)
(* ("releasing" until the inner task ran, "released" until fetch_ws is     *)
(* resumed).  Everything else is in the step before or after.              *)
(***************************************************************************)
EXTENDS Naturals, Sequences, FiniteSets, Functions

CONSTANTS
    Tasks,       \* the fetch_ws coroutines, each serving one request once
    MaxSize,     \* pool_max_size: the number of connection holders
    MinSize,     \* pool_min_size: holders connected at start, when above 1
    MaxConns,    \* bound on the connections ever opened
    UpstreamId,  \* UpstreamId[t]: the id t sends upstream; ids may collide
    Faults,      \* what the environment may do, a subset of AllFaults
    None         \* Python's None

AllFaults ==
    {"cancel",         \* the request times out, or its client goes away
     "connectFails",   \* the opening handshake fails
     "upstreamClose",  \* the upstream, or the network, closes a connection
     "wrongId",        \* an answer that the id assertion of fetch_ws refuses
     "garbage",        \* an answer that is not JSON
     "stop"}           \* the server stops and terminates the pool

ASSUME TasksAssumption == None \notin Tasks /\ None \notin Nat
ASSUME SizeAssumption ==
    /\ MaxSize \in Nat \ {0}
    /\ MinSize \in 0..MaxSize
    /\ MaxConns \in Nat
    /\ MaxConns >= MinSize
ASSUME FaultsAssumption == Faults \subseteq AllFaults

Holders == 1..MaxSize
Conns == 1..MaxConns

Kinds == {"answer", "wrongId", "garbage"}
Message == [req : Tasks, kind : Kinds]

Terminal == {"ok", "failed"}
PCs == {"idle", "getting", "connecting", "sending", "receiving",
        "releasing", "released", "releaseError"} \cup Terminal

VARIABLES
    queue,    \* Pool._queue, a LIFO queue: the last element is taken first
    con,      \* con[h]: the holder's _con, a connection or None
    inUse,    \* inUse[h]: the task whose acquire set _in_use, or None
    closed,   \* Pool._closed
    pc,       \* where each task is
    hold,     \* hold[t]: the local ch of _acquire_impl, later the proxy's _holder
    pcon,     \* pcon[t]: the proxy's _con
    got,      \* got[t]: the message recv returned to t
    cstate,   \* cstate[c]: "unused", "open", "closing" or "closed"
    opened,   \* the number of connections opened so far
    wire,     \* wire[c]: the tasks whose request went out on c, unanswered
    inbox     \* inbox[c]: the messages c received and recv did not yet return

poolVars == <<queue, con, inUse, closed>>
taskVars == <<pc, hold, pcon, got>>
netVars  == <<cstate, opened, wire, inbox>>
vars     == <<poolVars, taskVars, netVars>>

-----------------------------------------------------------------------------
\* Initial state: `await Pool(...)` of the startup listener has returned.

\* _async__init__ connects the holders that the queue hands out first, and
\* does so only for a minimum above 1.
Preconnected(h) == MinSize > 1 /\ h > MaxSize - MinSize

Init ==
    /\ queue = [i \in 1..MaxSize |-> i]
    /\ con = [h \in Holders |->
                 IF Preconnected(h) THEN MaxSize - h + 1 ELSE None]
    /\ inUse = [h \in Holders |-> None]
    /\ closed = FALSE
    /\ pc = [t \in Tasks |-> "idle"]
    /\ hold = [t \in Tasks |-> None]
    /\ pcon = [t \in Tasks |-> None]
    /\ got = [t \in Tasks |-> None]
    /\ opened = (IF MinSize > 1 THEN MinSize ELSE 0)
    /\ cstate = [c \in Conns |-> IF c <= opened THEN "open" ELSE "unused"]
    /\ wire = [c \in Conns |-> {}]
    /\ inbox = [c \in Conns |-> <<>>]

-----------------------------------------------------------------------------
\* The holder's operations.

IsOpen(h) == con[h] # None /\ cstate[con[h]] = "open"

\* MUTANT: the early return for a holder that is not checked out is missing.
ReleaseHolder_Always(h) ==
    /\ inUse' = [inUse EXCEPT ![h] = None]
    /\ queue' = Append(queue, h)

\* PoolConnectionHolder._release
ReleaseHolder(h) ==
    IF inUse[h] = None
      THEN UNCHANGED <<inUse, queue>>
      ELSE /\ inUse' = [inUse EXCEPT ![h] = None]
           /\ queue' = Append(queue, h)

\* WebSocketClientProtocol.fail_connection: the connection is torn down in
\* the background; the answers still to come are lost.
FailConnections(S) ==
    /\ cstate' = [c \in Conns |-> IF c \in S /\ cstate[c] = "open"
                                     THEN "closing" ELSE cstate[c]]
    /\ wire' = [c \in Conns |-> IF c \in S THEN {} ELSE wire[c]]

\* PoolConnectionHolder.terminate, which is also the proxy's terminate.
TerminateHolder(h) ==
    IF con[h] = None
      THEN UNCHANGED <<con, inUse, queue, cstate, wire>>
      ELSE /\ FailConnections({con[h]})
           /\ ReleaseHolder(h)
           /\ con' = [con EXCEPT ![h] = None]

\* The end of PoolConnectionHolder.acquire, and the frame that send writes
\* before it first suspends.
CheckOut(t, h, c) ==
    /\ inUse' = [inUse EXCEPT ![h] = t]
    /\ hold' = [hold EXCEPT ![t] = h]
    /\ pcon' = [pcon EXCEPT ![t] = c]
    /\ wire' = [wire EXCEPT ![c] = @ \cup {t}]
    /\ pc' = [pc EXCEPT ![t] = "sending"]

\* The coroutine ends and its locals, the proxy with them, are gone.
End(t, result) ==
    /\ pc' = [pc EXCEPT ![t] = result]
    /\ hold' = [hold EXCEPT ![t] = None]
    /\ pcon' = [pcon EXCEPT ![t] = None]
    /\ got' = [got EXCEPT ![t] = IF result = "ok" THEN @ ELSE None]

\* MUTANT: the except clause releases the connection instead of terminating it.
TerminateAndFail_Release(t) ==
    /\ ReleaseHolder(hold[t])
    /\ End(t, "failed")
    /\ UNCHANGED <<con, cstate, wire, closed, opened>>

\* The except clause of fetch_ws once `conn` is bound.
TerminateAndFail(t) ==
    /\ TerminateHolder(hold[t])
    /\ End(t, "failed")
    /\ UNCHANGED <<closed, opened>>

-----------------------------------------------------------------------------
\* fetch_ws, await by await.

\* Pool.acquire up to queue.get: a closed pool raises.
Start(t) ==
    /\ pc[t] = "idle"
    /\ pc' = [pc EXCEPT ![t] = IF closed THEN "failed" ELSE "getting"]
    /\ UNCHANGED <<poolVars, hold, pcon, got, netVars>>

\* queue.get returns a holder and its acquire begins.  A task that is
\* already running may overtake one the queue woke up, so any may be next.
Get(t) ==
    /\ pc[t] = "getting"
    /\ queue # <<>>
    /\ queue' = SubSeq(queue, 1, Len(queue) - 1)
    /\ LET h == queue[Len(queue)] IN
         \/ /\ IsOpen(h)
            /\ CheckOut(t, h, con[h])
            /\ UNCHANGED con
         \/ /\ ~IsOpen(h)
            /\ con' = [con EXCEPT ![h] = None]
            /\ hold' = [hold EXCEPT ![t] = h]
            /\ pc' = [pc EXCEPT ![t] = "connecting"]
            /\ UNCHANGED <<inUse, pcon, wire>>
    /\ UNCHANGED <<closed, got, cstate, opened, inbox>>

\* t runs in the very next iterations of the event loop.
Ready(t) ==
    \/ pc[t] \in {"releasing", "released", "releaseError"}
    \/ pc[t] \in {"sending", "receiving"} /\ inbox[pcon[t]] # <<>>

\* The opening handshake completes.  It takes several round trips, and the
\* event loop runs its ready callbacks in order: a task that was ready to
\* touch this holder when the handshake began has run by now.
Connected(t) ==
    /\ pc[t] = "connecting"
    /\ opened < MaxConns
    /\ \A u \in Tasks \ {t} : hold[u] = hold[t] => ~Ready(u)
    /\ opened' = opened + 1
    /\ cstate' = [cstate EXCEPT ![opened'] = "open"]
    /\ con' = [con EXCEPT ![hold[t]] = opened']
    /\ CheckOut(t, hold[t], opened')
    /\ UNCHANGED <<queue, closed, got, inbox>>

\* MUTANT: cancellation passes `except Exception`, as from Python 3.8 on.
AcquireFails_NoPutBack(t) ==
    /\ pc[t] = "connecting"
    /\ Faults \cap {"connectFails", "cancel"} # {}
    /\ End(t, "failed")
    /\ UNCHANGED <<poolVars, netVars>>

\* The handshake fails or is cancelled: _acquire_impl puts the holder back,
\* and fetch_ws finds no `conn` to terminate.
AcquireFails(t) ==
    /\ pc[t] = "connecting"
    /\ Faults \cap {"connectFails", "cancel"} # {}
    /\ queue' = Append(queue, hold[t])
    /\ End(t, "failed")
    /\ UNCHANGED <<con, inUse, closed, netVars>>

SendDone(t) ==
    /\ pc[t] = "sending"
    /\ cstate[pcon[t]] # "closed"
    /\ pc' = [pc EXCEPT ![t] = "receiving"]
    /\ UNCHANGED <<poolVars, hold, pcon, got, netVars>>

\* send or recv raises ConnectionClosed.  recv first returns what is left in
\* the inbox.
ClosedRaised(t) ==
    /\ pc[t] \in {"sending", "receiving"}
    /\ cstate[pcon[t]] = "closed"
    /\ pc[t] = "receiving" => inbox[pcon[t]] = <<>>
    /\ TerminateAndFail(t)
    /\ UNCHANGED inbox

\* MUTANT: Pool.release does not look at _closed.
Recv_NoClosedCheck(t) ==
    /\ pc[t] = "receiving"
    /\ inbox[pcon[t]] # <<>>
    /\ LET m == Head(inbox[pcon[t]]) IN
         IF m.kind = "garbage"
           THEN TerminateAndFail(t)
           ELSE /\ got' = [got EXCEPT ![t] = m]
                /\ pc' = [pc EXCEPT ![t] = "releasing"]
                /\ UNCHANGED <<poolVars, hold, pcon, cstate, opened, wire>>
    /\ inbox' = [inbox EXCEPT ![pcon[t]] = Tail(@)]

\* recv returns.  What cannot be parsed, and the release to a closed pool,
\* raise at once; otherwise the shielded release is scheduled.
Recv(t) ==
    /\ pc[t] = "receiving"
    /\ inbox[pcon[t]] # <<>>
    /\ LET m == Head(inbox[pcon[t]]) IN
         IF m.kind = "garbage" \/ closed
           THEN TerminateAndFail(t)
           ELSE /\ got' = [got EXCEPT ![t] = m]
                /\ pc' = [pc EXCEPT ![t] = "releasing"]
                /\ UNCHANGED <<poolVars, hold, pcon, cstate, opened, wire>>
    /\ inbox' = [inbox EXCEPT ![pcon[t]] = Tail(@)]

\* MUTANT: the test for a closed connection is inverted.
InnerRelease_Inverted(t) ==
    /\ pc[t] = "releasing"
    /\ LET h == hold[t] IN
         \/ /\ inUse[h] = None
            /\ pc' = [pc EXCEPT ![t] = "releaseError"]
            /\ UNCHANGED <<inUse, queue>>
         \/ /\ inUse[h] # None
            /\ pc' = [pc EXCEPT ![t] = "released"]
            /\ IF cstate[con[h]] # "closed"
                 THEN UNCHANGED <<inUse, queue>>
                 ELSE ReleaseHolder(h)
    /\ UNCHANGED <<con, closed, hold, pcon, got, netVars>>

\* PoolConnectionHolder.release, in the task that shield made: a holder that
\* is not in use raises, one whose connection has closed is left as it is.
InnerRelease(t) ==
    /\ pc[t] = "releasing"
    /\ LET h == hold[t] IN
         \/ /\ inUse[h] = None
            /\ pc' = [pc EXCEPT ![t] = "releaseError"]
            /\ UNCHANGED <<inUse, queue>>
         \/ /\ inUse[h] # None
            /\ pc' = [pc EXCEPT ![t] = "released"]
            /\ IF cstate[con[h]] = "closed"
                 THEN UNCHANGED <<inUse, queue>>
                 ELSE ReleaseHolder(h)
    /\ UNCHANGED <<con, closed, hold, pcon, got, netVars>>

\* The id assertion that follows the release.
IdMatches(t) ==
    got[t].kind = "answer" /\ UpstreamId[got[t].req] = UpstreamId[t]

Finish(t) ==
    /\ pc[t] = "released"
    /\ IdMatches(t)
    /\ End(t, "ok")
    /\ UNCHANGED <<poolVars, netVars>>

Reject(t) ==
    /\ \/ pc[t] = "releaseError"
       \/ pc[t] = "released" /\ ~IdMatches(t)
    /\ TerminateAndFail(t)
    /\ UNCHANGED inbox

\* CancelledError at an await; on Python 3.6 it is an Exception, which
\* fetch_ws catches.  In queue.get there is no `conn` yet.  A cancelled task
\* that waits for the release is resumed after the inner task has run.
CancelGetting(t) ==
    /\ "cancel" \in Faults
    /\ pc[t] = "getting"
    /\ End(t, "failed")
    /\ UNCHANGED <<poolVars, netVars>>

CancelUsing(t) ==
    /\ "cancel" \in Faults
    /\ pc[t] \in {"sending", "receiving", "released"}
    /\ TerminateAndFail(t)
    /\ UNCHANGED inbox

-----------------------------------------------------------------------------
\* The upstream, the network and the server.

\* An upstream answers the requests of one connection in any order.
Answer(c) ==
    /\ cstate[c] = "open"
    /\ \E t \in wire[c], k \in {"answer"} \cup (Faults \cap Kinds) :
         /\ wire' = [wire EXCEPT ![c] = @ \ {t}]
         /\ inbox' = [inbox EXCEPT ![c] = Append(@, [req |-> t, kind |-> k])]
    /\ UNCHANGED <<poolVars, taskVars, cstate, opened>>

UpstreamClose(c) ==
    /\ "upstreamClose" \in Faults
    /\ cstate[c] = "open"
    /\ FailConnections({c})
    /\ UNCHANGED <<poolVars, taskVars, opened, inbox>>

\* The TCP connection is gone; at the latest when close_timeout expires.
Teardown(c) ==
    /\ cstate[c] = "closing"
    /\ cstate' = [cstate EXCEPT ![c] = "closed"]
    /\ UNCHANGED <<poolVars, taskVars, opened, wire, inbox>>

\* The members of S in the order of Pool._holders.
InOrder(S) ==
    {s \in Bijection(1..Cardinality(S), S) :
        \A i, j \in 1..Cardinality(S) : i < j => s[i] < s[j]}

\* Pool.terminate, called when the server has stopped.
PoolTerminate ==
    /\ "stop" \in Faults
    /\ ~closed
    /\ LET live == {h \in Holders : con[h] # None}
           used == {h \in live : inUse[h] # None}
       IN  /\ FailConnections({con[h] : h \in live})
           /\ con' = [h \in Holders |-> None]
           /\ inUse' = [h \in Holders |-> IF h \in used THEN None ELSE inUse[h]]
           /\ \E s \in InOrder(used) : queue' = queue \o s
    /\ closed' = TRUE
    /\ UNCHANGED <<taskVars, opened, inbox>>

-----------------------------------------------------------------------------
TaskStep(t) ==
    \/ Start(t) \/ Get(t) \/ Connected(t) \/ AcquireFails(t) \/ SendDone(t)
    \/ ClosedRaised(t) \/ Recv(t) \/ InnerRelease(t) \/ Finish(t) \/ Reject(t)
    \/ CancelGetting(t) \/ CancelUsing(t)

NetStep(c) == Answer(c) \/ UpstreamClose(c) \/ Teardown(c)

Next ==
    \/ \E t \in Tasks : TaskStep(t)
    \/ \E c \in Conns : NetStep(c)
    \/ PoolTerminate

Spec == Init /\ [][Next]_vars

\* The event loop runs every ready callback and a torn-down connection is
\* reported within close_timeout.  That an upstream completes the opening
\* handshake and answers what it received over a connection that stays open is
\* an assumption.  Nothing is assumed about cancellation or failures.
Fairness ==
    /\ \A t \in Tasks :
         /\ WF_vars(Start(t)) /\ WF_vars(Get(t)) /\ WF_vars(Connected(t))
         /\ WF_vars(SendDone(t)) /\ WF_vars(ClosedRaised(t))
         /\ WF_vars(Recv(t)) /\ WF_vars(InnerRelease(t))
         /\ WF_vars(Finish(t)) /\ WF_vars(Reject(t))
    /\ \A c \in Conns : WF_vars(Answer(c)) /\ WF_vars(Teardown(c))

FairSpec == Spec /\ Fairness

-----------------------------------------------------------------------------
\* Properties.

\* What a coroutine has bound at each of its awaits.
Using == {"sending", "receiving", "releasing", "released", "releaseError"}
LocalsBound ==
    \A t \in Tasks :
        /\ pc[t] \in Using \cup {"connecting"} => hold[t] \in Holders
        /\ pc[t] \in Using => pcon[t] \in Conns
        /\ pc[t] \in {"releasing", "released", "ok"} => got[t] \in Message

Typed ==
    /\ queue \in Seq(Holders)
    /\ con \in [Holders -> Conns \cup {None}]
    /\ inUse \in [Holders -> Tasks \cup {None}]
    /\ closed \in BOOLEAN
    /\ pc \in [Tasks -> PCs]
    /\ hold \in [Tasks -> Holders \cup {None}]
    /\ pcon \in [Tasks -> Conns \cup {None}]
    /\ got \in [Tasks -> Message \cup {None}]
    /\ cstate \in [Conns -> {"unused", "open", "closing", "closed"}]
    /\ opened \in 0..MaxConns
    /\ wire \in [Conns -> SUBSET Tasks]
    /\ inbox \in [Conns -> Seq(Message)]
    /\ LocalsBound

\* Every variable has its type, a coroutine past an await has bound what the
\* await returned, and the queue never grows beyond the holders of the pool.
TypeOK == Typed /\ Len(queue) <= MaxSize

Queued(h) == h \in Range(queue)
Connecting(t, h) == pc[t] = "connecting" /\ hold[t] = h

\* Every holder is in exactly one place: once in the queue, or with the one
\* task that connects it, or in use with a connection.  So no holder is handed
\* out twice (release and terminate put it back at most once, whoever calls
\* them) and none disappears while it is free.
HolderAccounted ==
    /\ IsInjective(queue)
    /\ \A h \in Holders :
         /\ Queued(h) => inUse[h] = None /\ \A t \in Tasks : ~Connecting(t, h)
         /\ inUse[h] # None => con[h] # None /\ \A t \in Tasks : ~Connecting(t, h)
         /\ \A t, u \in Tasks : Connecting(t, h) /\ Connecting(u, h) => t = u
         /\ \A t \in Tasks : Connecting(t, h) => con[h] = None
         /\ Queued(h) \/ inUse[h] # None \/ \E t \in Tasks : Connecting(t, h)

\* Two coroutines never use one connection at the same time, although a stale
\* proxy may terminate or release the holder another coroutine has acquired.
ConnExclusive ==
    \A t, u \in Tasks :
        /\ t # u
        /\ {pc[t], pc[u]} \subseteq {"sending", "receiving", "releasing"}
        => pcon[t] # pcon[u]

\* A connection the queue hands out carries neither a request that is still
\* unanswered nor an answer nobody read: a request given up by a timeout takes
\* its connection with it.
IdleConnClean ==
    \A h \in Holders : Queued(h) /\ IsOpen(h) =>
        wire[con[h]] = {} /\ inbox[con[h]] = <<>>

\* fetch_ws returns the answer to its own request, even when the ids that
\* different clients chose collide and the id assertion cannot tell.
OwnAnswer == \A t \in Tasks : pc[t] = "ok" => got[t].req = t

\* Once the server has stopped and the coroutines have ended, no connection
\* is left open, those included that were opened after the pool was closed.
ClosedPoolDrains ==
    closed /\ (\A t \in Tasks : pc[t] \in Terminal) =>
        \A c \in Conns : cstate[c] # "open"

\* pool.py:126 "When closing, pool connections perform the necessary cleanup":
\* a coroutine that has ended leaves no holder checked out.
NoLeakedHolder ==
    \A h \in Holders : inUse[h] # None => pc[inUse[h]] \notin Terminal

\* pool.py:138 "Free this connection holder and invalidate the connection
\* proxy": a holder in use is given back by a step of the coroutine that
\* acquired it (or by Pool.terminate), never through a proxy of its past.
ReleasedByOwner ==
    [][\A h \in Holders :
          inUse[h] # None /\ inUse'[h] # inUse[h] =>
              closed' # closed \/ pc'[inUse[h]] # pc[inUse[h]]]_vars

\* A coroutine that waits for a connection is eventually served or ends.
NoEndlessWait ==
    \A t \in Tasks : pc[t] = "getting" ~> pc[t] \in Terminal

\* When the requests are over, every holder is back in the queue for good.
HoldersReturn == <>[](Len(queue) = MaxSize)

\* The pool as its clients see it: a set of free holders and their owners.
Owner(h) ==
    IF inUse[h] # None THEN inUse[h]
    ELSE IF \E t \in Tasks : Connecting(t, h)
           THEN CHOOSE t \in Tasks : Connecting(t, h)
    ELSE None
Abstract == INSTANCE HolderPool
              WITH free <- {h \in Holders : Queued(h)},
                   owner <- [h \in Holders |-> Owner(h)]
ImplementsHolderPool == Abstract!Spec
=============================================================================
