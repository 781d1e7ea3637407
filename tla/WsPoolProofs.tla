---------------------------- MODULE WsPoolProofs ----------------------------
(***************************************************************************)
(* Theorems about WsPool for every number of coroutines, holders and       *)
(* connections and every set of faults.                                    *)
(***************************************************************************)
EXTENDS WsPool, InjectiveSeqs

-----------------------------------------------------------------------------
\* The inductive invariant.  HolderAccounted is inductive once the coroutines
\* are known to hold what their program counter says they hold.
IInv == Typed /\ HolderAccounted

\* PoolConnectionHolder._release: an effect on one holder, whatever the case.
LEMMA ReleaseHolderFacts ==
    ASSUME IInv, NEW h \in Holders, ReleaseHolder(h)
    PROVE  /\ inUse' = [inUse EXCEPT ![h] = None]
           /\ queue' \in Seq(Holders)
           /\ IsInjective(queue')
           /\ Range(queue') = Range(queue) \cup
                                (IF inUse[h] = None THEN {} ELSE {h})
<1>1. CASE inUse[h] = None
  BY <1>1 DEF IInv, Typed, HolderAccounted, ReleaseHolder
<1>2. CASE inUse[h] # None
  <2>1. h \notin Range(queue)
    BY <1>2 DEF IInv, HolderAccounted, Queued
  <2>2. /\ inUse' = [inUse EXCEPT ![h] = None]
        /\ queue' = Append(queue, h)
    BY <1>2 DEF ReleaseHolder
  <2>3. queue \in Seq(Holders) /\ IsInjective(queue)
    BY DEF IInv, Typed, HolderAccounted
  <2>4. QED
    BY <1>2, <2>1, <2>2, <2>3, PutFacts
<1>3. QED
  BY <1>1, <1>2

\* PoolConnectionHolder.terminate through a proxy, fresh or stale.
LEMMA TerminateHolderFacts ==
    ASSUME IInv, NEW h \in Holders, TerminateHolder(h)
    PROVE  /\ con' = [con EXCEPT ![h] = None]
           /\ cstate' \in [Conns -> {"unused", "open", "closing", "closed"}]
           /\ wire' \in [Conns -> SUBSET Tasks]
           /\ inUse' = [inUse EXCEPT ![h] = None]
           /\ queue' \in Seq(Holders)
           /\ IsInjective(queue')
           /\ Range(queue') = Range(queue) \cup
                                (IF inUse[h] = None THEN {} ELSE {h})
<1>1. CASE con[h] = None
  <2>1. inUse[h] = None
    BY <1>1 DEF IInv, HolderAccounted
  <2>2. UNCHANGED <<con, inUse, queue, cstate, wire>>
    BY <1>1 DEF TerminateHolder
  <2>3. con' = [con EXCEPT ![h] = None] /\ inUse' = [inUse EXCEPT ![h] = None]
    BY <1>1, <2>1, <2>2 DEF IInv, Typed
  <2>4. QED
    BY <2>1, <2>2, <2>3 DEF IInv, Typed, HolderAccounted
<1>2. CASE con[h] # None
  <2>1. /\ FailConnections({con[h]})
        /\ ReleaseHolder(h)
        /\ con' = [con EXCEPT ![h] = None]
    BY <1>2 DEF TerminateHolder
  <2>2. /\ cstate' \in [Conns -> {"unused", "open", "closing", "closed"}]
        /\ wire' \in [Conns -> SUBSET Tasks]
    BY <2>1 DEF FailConnections, IInv, Typed
  <2>3. QED
    BY <2>1, <2>2, ReleaseHolderFacts
<1>3. QED
  BY <1>1, <1>2

\* A coroutine that ends through the except clause keeps the invariant.
LEMMA TerminateAndFailKeepsIInv ==
    ASSUME IInv, NEW t \in Tasks, pc[t] \in Using, TerminateAndFail(t),
           inbox' \in [Conns -> Seq(Message)]
    PROVE  IInv'
<1> DEFINE h == hold[t]
<1>1. h \in Holders
  BY DEF IInv, Typed, LocalsBound
<1>2. /\ con' = [con EXCEPT ![h] = None]
      /\ cstate' \in [Conns -> {"unused", "open", "closing", "closed"}]
      /\ wire' \in [Conns -> SUBSET Tasks]
      /\ inUse' = [inUse EXCEPT ![h] = None]
      /\ queue' \in Seq(Holders)
      /\ IsInjective(queue')
      /\ Range(queue') = Range(queue) \cup
                           (IF inUse[h] = None THEN {} ELSE {h})
  <2>1. TerminateHolder(h)
    BY DEF TerminateAndFail
  <2>2. QED
    BY <1>1, <2>1, TerminateHolderFacts
<1>3. /\ pc' = [pc EXCEPT ![t] = "failed"]
      /\ hold' = [hold EXCEPT ![t] = None]
      /\ pcon' = [pcon EXCEPT ![t] = None]
      /\ got' = [got EXCEPT ![t] = None]
      /\ UNCHANGED <<closed, opened>>
  BY DEF TerminateAndFail, End
<1>4. Typed'
  BY <1>1, <1>2, <1>3 DEF IInv, Typed, LocalsBound, PCs, Terminal, Using
<1>5. \A u \in Tasks, g \in Holders : Connecting(u, g)' <=> Connecting(u, g)
  BY <1>3 DEF Connecting, IInv, Typed, Using
<1>6. HolderAccounted'
  BY <1>1, <1>2, <1>5 DEF IInv, Typed, HolderAccounted, Queued
<1>7. QED
  BY <1>4, <1>6 DEF IInv

\* A step of a coroutine that leaves the holders alone keeps the invariant.
LEMMA HoldersUntouched ==
    ASSUME IInv, Typed', UNCHANGED <<queue, con, inUse>>,
           \A u \in Tasks, g \in Holders : Connecting(u, g)' <=> Connecting(u, g)
    PROVE  IInv'
BY DEF IInv, HolderAccounted, Queued

LEMMA InitIInv == Init => IInv
<1> SUFFICES ASSUME Init PROVE IInv
  OBVIOUS
<1>1. /\ queue \in Seq(Holders)
      /\ IsInjective(queue)
      /\ Range(queue) = Holders
  BY SizeAssumption DEF Init, Holders, IsInjective, Range
<1>2. opened \in 0..MaxConns
  BY SizeAssumption DEF Init
<1>3. con \in [Holders -> Conns \cup {None}]
  <2>1. ASSUME NEW h \in Holders, Preconnected(h)
        PROVE  MaxSize - h + 1 \in Conns
    BY <2>1, SizeAssumption DEF Preconnected, Holders, Conns
  <2>2. QED
    BY <2>1 DEF Init
<1>4. /\ inUse \in [Holders -> Tasks \cup {None}]
      /\ closed \in BOOLEAN
      /\ pc \in [Tasks -> PCs]
      /\ hold \in [Tasks -> Holders \cup {None}]
      /\ pcon \in [Tasks -> Conns \cup {None}]
      /\ got \in [Tasks -> Message \cup {None}]
      /\ wire \in [Conns -> SUBSET Tasks]
      /\ inbox \in [Conns -> Seq(Message)]
      /\ LocalsBound
  BY EmptySeq DEF Init, PCs, LocalsBound, Using
<1>5. cstate \in [Conns -> {"unused", "open", "closing", "closed"}]
  BY DEF Init
<1>6. HolderAccounted
  BY <1>1 DEF Init, HolderAccounted, Queued, Connecting
<1>7. QED
  BY <1>1, <1>2, <1>3, <1>4, <1>5, <1>6 DEF IInv, Typed

LEMMA GetKeepsIInv ==
    ASSUME IInv, NEW t \in Tasks, Get(t)
    PROVE  IInv'
<1> DEFINE h == queue[Len(queue)]
<1>1. /\ queue' \in Seq(Holders)
      /\ IsInjective(queue')
      /\ h \in Holders
      /\ h \in Range(queue)
      /\ Range(queue') = Range(queue) \ {h}
  BY TakeFacts DEF Get, IInv, Typed, HolderAccounted
<1>2. inUse[h] = None /\ \A u \in Tasks : ~Connecting(u, h)
  BY <1>1 DEF IInv, HolderAccounted, Queued
<1>3. pc[t] = "getting" /\ UNCHANGED <<closed, got, cstate, opened, inbox>>
  BY DEF Get
<1> HIDE DEF h
<1>4. CASE IsOpen(h) /\ CheckOut(t, h, con[h]) /\ UNCHANGED con
  <2>1. con[h] \in Conns
    BY <1>1, <1>4 DEF IsOpen, IInv, Typed
  <2>2. Typed'
    BY <1>1, <1>3, <1>4, <2>1
       DEF CheckOut, IInv, Typed, LocalsBound, PCs, Using
  <2>3. \A u \in Tasks, g \in Holders : Connecting(u, g)' <=> Connecting(u, g)
    BY <1>3, <1>4 DEF CheckOut, Connecting, IInv, Typed
  <2>4. inUse' = [inUse EXCEPT ![h] = t] /\ con' = con /\ con[h] # None
    BY <1>4 DEF CheckOut, IsOpen
  <2>5. t # None
    BY TasksAssumption
  <2>6. HolderAccounted'
    BY <1>1, <1>2, <2>3, <2>4, <2>5 DEF IInv, Typed, HolderAccounted, Queued
  <2>7. QED
    BY <2>2, <2>6 DEF IInv
<1>5. CASE /\ con' = [con EXCEPT ![h] = None]
           /\ hold' = [hold EXCEPT ![t] = h]
           /\ pc' = [pc EXCEPT ![t] = "connecting"]
           /\ UNCHANGED <<inUse, pcon, wire>>
  <2>1. Typed'
    BY <1>1, <1>3, <1>5 DEF IInv, Typed, LocalsBound, PCs, Using
  <2>2. \A u \in Tasks, g \in Holders :
           Connecting(u, g)' <=> (Connecting(u, g) \/ (u = t /\ g = h))
    BY <1>1, <1>3, <1>5 DEF Connecting, IInv, Typed
  <2>3. HolderAccounted'
    BY <1>1, <1>2, <1>5, <2>2 DEF IInv, Typed, HolderAccounted, Queued
  <2>4. QED
    BY <2>1, <2>3 DEF IInv
<1>6. QED
  BY <1>4, <1>5 DEF Get, h

LEMMA ConnectedKeepsIInv ==
    ASSUME IInv, NEW t \in Tasks, Connected(t)
    PROVE  IInv'
<1> DEFINE h == hold[t]
           c == opened + 1
<1>1. h \in Holders /\ c \in Conns /\ c \in 1..MaxConns
  BY SizeAssumption DEF Connected, IInv, Typed, LocalsBound, Using, Conns
<1>2. /\ pc[t] = "connecting"
      /\ opened' = c
      /\ cstate' = [cstate EXCEPT ![c] = "open"]
      /\ con' = [con EXCEPT ![h] = c]
      /\ inUse' = [inUse EXCEPT ![h] = t]
      /\ hold' = [hold EXCEPT ![t] = h]
      /\ pcon' = [pcon EXCEPT ![t] = c]
      /\ wire' = [wire EXCEPT ![c] = @ \cup {t}]
      /\ pc' = [pc EXCEPT ![t] = "sending"]
      /\ UNCHANGED <<queue, closed, got, inbox>>
  BY DEF Connected, CheckOut
<1>3. Typed'
  <2>1. opened' \in 0..MaxConns
    BY <1>1, <1>2, SizeAssumption
  <2>2. /\ cstate' \in [Conns -> {"unused", "open", "closing", "closed"}]
        /\ con' \in [Holders -> Conns \cup {None}]
        /\ inUse' \in [Holders -> Tasks \cup {None}]
        /\ wire' \in [Conns -> SUBSET Tasks]
    BY <1>1, <1>2 DEF IInv, Typed
  <2>3. /\ pc' \in [Tasks -> PCs]
        /\ hold' \in [Tasks -> Holders \cup {None}]
        /\ pcon' \in [Tasks -> Conns \cup {None}]
        /\ LocalsBound'
    BY <1>1, <1>2 DEF IInv, Typed, LocalsBound, PCs, Using
  <2>4. QED
    BY <1>2, <2>1, <2>2, <2>3 DEF IInv, Typed
<1>4. \A u \in Tasks, g \in Holders :
         Connecting(u, g)' <=> (Connecting(u, g) /\ u # t)
  BY <1>2 DEF Connecting, IInv, Typed
<1>5. Connecting(t, h)
  BY <1>2 DEF Connecting
<1>6. \A g \in Holders : Connecting(t, g) => g = h
  BY DEF Connecting
<1>7. t # None /\ c # None
  BY <1>1, TasksAssumption
<1> HIDE DEF h, c
<1>8. HolderAccounted'
  BY <1>1, <1>2, <1>4, <1>5, <1>6, <1>7 DEF IInv, Typed, HolderAccounted, Queued
<1>9. QED
  BY <1>3, <1>8 DEF IInv

LEMMA AcquireFailsKeepsIInv ==
    ASSUME IInv, NEW t \in Tasks, AcquireFails(t)
    PROVE  IInv'
<1> DEFINE h == hold[t]
<1>1. h \in Holders
  BY DEF AcquireFails, IInv, Typed, LocalsBound
<1>2. /\ pc[t] = "connecting"
      /\ queue' = Append(queue, h)
      /\ pc' = [pc EXCEPT ![t] = "failed"]
      /\ hold' = [hold EXCEPT ![t] = None]
      /\ pcon' = [pcon EXCEPT ![t] = None]
      /\ got' = [got EXCEPT ![t] = None]
      /\ UNCHANGED <<con, inUse, closed, cstate, opened, wire, inbox>>
  BY DEF AcquireFails, End, netVars
<1>3. Connecting(t, h) /\ \A g \in Holders : Connecting(t, g) => g = h
  BY <1>2 DEF Connecting
<1> HIDE DEF h
<1>4. h \notin Range(queue) /\ inUse[h] = None
  BY <1>1, <1>3 DEF IInv, HolderAccounted, Queued
<1>5. /\ queue' \in Seq(Holders)
      /\ IsInjective(queue')
      /\ Range(queue') = Range(queue) \cup {h}
  BY <1>1, <1>2, <1>4, PutFacts DEF IInv, Typed, HolderAccounted
<1>6. Typed'
  BY <1>2, <1>5 DEF IInv, Typed, LocalsBound, PCs, Terminal, Using
<1>7. \A u \in Tasks, g \in Holders :
         Connecting(u, g)' <=> (Connecting(u, g) /\ u # t)
  BY <1>2 DEF Connecting, IInv, Typed
<1>8. HolderAccounted'
  BY <1>1, <1>2, <1>3, <1>4, <1>5, <1>7 DEF IInv, Typed, HolderAccounted, Queued
<1>9. QED
  BY <1>6, <1>8 DEF IInv

LEMMA InnerReleaseKeepsIInv ==
    ASSUME IInv, NEW t \in Tasks, InnerRelease(t)
    PROVE  IInv'
<1> DEFINE h == hold[t]
<1>1. h \in Holders
  BY DEF InnerRelease, IInv, Typed, LocalsBound, Using
<1>2. PICK p \in {"releaseError", "released"} :
         /\ pc[t] = "releasing"
         /\ pc' = [pc EXCEPT ![t] = p]
         /\ UNCHANGED <<inUse, queue>> \/ ReleaseHolder(h)
         /\ UNCHANGED <<con, closed, hold, pcon, got, cstate, opened, wire, inbox>>
  BY DEF InnerRelease, netVars
<1>3. \A u \in Tasks, g \in Holders : Connecting(u, g)' <=> Connecting(u, g)
  BY <1>2 DEF Connecting, IInv, Typed
<1> HIDE DEF h
<1>4. CASE UNCHANGED <<inUse, queue>>
  <2>1. Typed'
    BY <1>1, <1>2, <1>4 DEF IInv, Typed, LocalsBound, PCs, Using
  <2>2. QED
    BY <1>2, <1>3, <1>4, <2>1, HoldersUntouched
<1>5. CASE ReleaseHolder(h)
  <2>1. /\ inUse' = [inUse EXCEPT ![h] = None]
        /\ queue' \in Seq(Holders)
        /\ IsInjective(queue')
        /\ Range(queue') = Range(queue) \cup
                             (IF inUse[h] = None THEN {} ELSE {h})
    BY <1>1, <1>5, ReleaseHolderFacts
  <2>2. Typed'
    BY <1>1, <1>2, <2>1 DEF IInv, Typed, LocalsBound, PCs, Using
  <2>3. HolderAccounted'
    BY <1>1, <1>2, <1>3, <2>1 DEF IInv, Typed, HolderAccounted, Queued
  <2>4. QED
    BY <2>2, <2>3 DEF IInv
<1>6. QED
  BY <1>2, <1>4, <1>5

LEMMA PoolTerminateKeepsIInv ==
    ASSUME IInv, PoolTerminate
    PROVE  IInv'
<1> DEFINE live == {h \in Holders : con[h] # None}
           used == {h \in live : inUse[h] # None}
<1>1. /\ FailConnections({con[h] : h \in live})
      /\ con' = [h \in Holders |-> None]
      /\ inUse' = [h \in Holders |-> IF h \in used THEN None ELSE inUse[h]]
      /\ \E s \in InOrder(used) : queue' = queue \o s
      /\ closed' = TRUE
      /\ UNCHANGED <<pc, hold, pcon, got, opened, inbox>>
  BY DEF PoolTerminate, taskVars
<1>2. used = {h \in Holders : inUse[h] # None}
  BY DEF IInv, HolderAccounted
<1>3. inUse' = [h \in Holders |-> None]
  BY <1>1, <1>2
<1>4. PICK s \in Bijection(1..Cardinality(used), used) : queue' = queue \o s
  BY <1>1 DEF InOrder
<1>5. Cardinality(used) \in Nat
  <2>1. IsFiniteSet(Holders)
    BY FS_Interval, SizeAssumption DEF Holders
  <2>2. QED
    BY <2>1, FS_Subset, FS_CardinalityType
<1>6. used \cap Range(queue) = {}
  BY <1>2 DEF IInv, HolderAccounted, Queued
<1>7. /\ queue' \in Seq(Holders)
      /\ IsInjective(queue')
      /\ Range(queue') = Range(queue) \cup used
  <2>1. used \in SUBSET Holders
    OBVIOUS
  <2>2. queue \in Seq(Holders) /\ IsInjective(queue)
    BY DEF IInv, Typed, HolderAccounted
  <2> HIDE DEF used
  <2>3. QED
    BY <1>4, <1>5, <1>6, <2>1, <2>2, PutAllFacts
<1>8. Typed'
  <2>1. /\ cstate' \in [Conns -> {"unused", "open", "closing", "closed"}]
        /\ wire' \in [Conns -> SUBSET Tasks]
    BY <1>1 DEF FailConnections, IInv, Typed
  <2>2. LocalsBound'
    BY <1>1 DEF IInv, Typed, LocalsBound
  <2>3. QED
    BY <1>1, <1>3, <1>7, <2>1, <2>2 DEF IInv, Typed
<1>9. \A u \in Tasks, g \in Holders : Connecting(u, g)' <=> Connecting(u, g)
  BY <1>1 DEF Connecting
<1>10. HolderAccounted'
  BY <1>1, <1>2, <1>3, <1>7, <1>9 DEF IInv, HolderAccounted, Queued
<1>11. QED
  BY <1>8, <1>10 DEF IInv

LEMMA NextKeepsIInv == IInv /\ [Next]_vars => IInv'
<1> SUFFICES ASSUME IInv, [Next]_vars PROVE IInv'
  OBVIOUS
<1>1. ASSUME NEW t \in Tasks, Start(t) PROVE IInv'
  <2>1. Typed'
    BY <1>1 DEF Start, IInv, Typed, LocalsBound, PCs, Terminal, Using,
                poolVars, netVars
  <2>2. QED
    BY <1>1, <2>1, HoldersUntouched
       DEF Start, Connecting, IInv, Typed, poolVars
<1>2. ASSUME NEW t \in Tasks, Get(t) PROVE IInv'
  BY <1>2, GetKeepsIInv
<1>3. ASSUME NEW t \in Tasks, Connected(t) PROVE IInv'
  BY <1>3, ConnectedKeepsIInv
<1>4. ASSUME NEW t \in Tasks, AcquireFails(t) PROVE IInv'
  BY <1>4, AcquireFailsKeepsIInv
<1>5. ASSUME NEW t \in Tasks, SendDone(t) PROVE IInv'
  <2>1. Typed'
    BY <1>5 DEF SendDone, IInv, Typed, LocalsBound, PCs, Using, poolVars, netVars
  <2>2. QED
    BY <1>5, <2>1, HoldersUntouched
       DEF SendDone, Connecting, IInv, Typed, poolVars
<1>6. ASSUME NEW t \in Tasks, ClosedRaised(t) PROVE IInv'
  <2>1. inbox' \in [Conns -> Seq(Message)]
    BY <1>6 DEF ClosedRaised, IInv, Typed
  <2>2. pc[t] \in Using /\ TerminateAndFail(t)
    BY <1>6 DEF ClosedRaised, Using
  <2>3. QED
    BY <2>1, <2>2, TerminateAndFailKeepsIInv
<1>7. ASSUME NEW t \in Tasks, Recv(t) PROVE IInv'
  <2> DEFINE c == pcon[t]
             m == Head(inbox[c])
  <2>1. pc[t] = "receiving" /\ c \in Conns
    BY <1>7 DEF Recv, IInv, Typed, LocalsBound, Using
  <2>2. inbox[c] \in Seq(Message) /\ inbox[c] # <<>>
    BY <1>7, <2>1 DEF Recv, IInv, Typed
  <2>3. m \in Message /\ Tail(inbox[c]) \in Seq(Message)
    BY <2>2, HeadTailProperties
  <2>4. inbox' = [inbox EXCEPT ![c] = Tail(@)]
    BY <1>7 DEF Recv
  <2>5. inbox' \in [Conns -> Seq(Message)]
    BY <2>1, <2>3, <2>4 DEF IInv, Typed
  <2>6. CASE TerminateAndFail(t)
    BY <2>1, <2>5, <2>6, TerminateAndFailKeepsIInv DEF Using
  <2>7. CASE /\ got' = [got EXCEPT ![t] = m]
             /\ pc' = [pc EXCEPT ![t] = "releasing"]
             /\ UNCHANGED <<poolVars, hold, pcon, cstate, opened, wire>>
    <3>1. Typed'
      BY <2>1, <2>3, <2>5, <2>7
         DEF IInv, Typed, LocalsBound, PCs, Using, poolVars
    <3>2. QED
      BY <2>1, <2>7, <3>1, HoldersUntouched
         DEF Connecting, IInv, Typed, poolVars
  <2>8. QED
    BY <1>7, <2>6, <2>7 DEF Recv
<1>8. ASSUME NEW t \in Tasks, InnerRelease(t) PROVE IInv'
  BY <1>8, InnerReleaseKeepsIInv
<1>9. ASSUME NEW t \in Tasks, Finish(t) PROVE IInv'
  <2>1. Typed'
    BY <1>9 DEF Finish, End, IInv, Typed, LocalsBound, PCs, Terminal, Using,
                poolVars, netVars
  <2>2. QED
    BY <1>9, <2>1, HoldersUntouched
       DEF Finish, End, Connecting, IInv, Typed, poolVars
<1>10. ASSUME NEW t \in Tasks, Reject(t) PROVE IInv'
  <2>1. inbox' \in [Conns -> Seq(Message)]
    BY <1>10 DEF Reject, IInv, Typed
  <2>2. pc[t] \in Using /\ TerminateAndFail(t)
    BY <1>10 DEF Reject, Using
  <2>3. QED
    BY <2>1, <2>2, TerminateAndFailKeepsIInv
<1>11. ASSUME NEW t \in Tasks, CancelGetting(t) PROVE IInv'
  <2>1. Typed'
    BY <1>11 DEF CancelGetting, End, IInv, Typed, LocalsBound, PCs, Terminal,
                 Using, poolVars, netVars
  <2>2. QED
    BY <1>11, <2>1, HoldersUntouched
       DEF CancelGetting, End, Connecting, IInv, Typed, poolVars
<1>12. ASSUME NEW t \in Tasks, CancelUsing(t) PROVE IInv'
  <2>1. inbox' \in [Conns -> Seq(Message)]
    BY <1>12 DEF CancelUsing, IInv, Typed
  <2>2. pc[t] \in Using /\ TerminateAndFail(t)
    BY <1>12 DEF CancelUsing, Using
  <2>3. QED
    BY <2>1, <2>2, TerminateAndFailKeepsIInv
<1>13. ASSUME NEW c \in Conns, Answer(c) PROVE IInv'
  <2>1. PICK u \in wire[c], k \in {"answer"} \cup (Faults \cap Kinds) :
           /\ wire' = [wire EXCEPT ![c] = @ \ {u}]
           /\ inbox' = [inbox EXCEPT ![c] = Append(@, [req |-> u, kind |-> k])]
           /\ UNCHANGED <<poolVars, taskVars, cstate, opened>>
    BY <1>13 DEF Answer
  <2>2. [req |-> u, kind |-> k] \in Message
    BY DEF IInv, Typed, Message, Kinds
  <2>3. Append(inbox[c], [req |-> u, kind |-> k]) \in Seq(Message)
    BY <2>2, AppendProperties DEF IInv, Typed
  <2>4. Typed'
    BY <2>1, <2>3 DEF IInv, Typed, LocalsBound, poolVars, taskVars
  <2>5. QED
    BY <2>1, <2>4, HoldersUntouched DEF Connecting, poolVars, taskVars
<1>14. ASSUME NEW c \in Conns, UpstreamClose(c) PROVE IInv'
  <2>1. Typed'
    BY <1>14 DEF UpstreamClose, FailConnections, IInv, Typed, LocalsBound,
                 poolVars, taskVars
  <2>2. QED
    BY <1>14, <2>1, HoldersUntouched
       DEF UpstreamClose, Connecting, poolVars, taskVars
<1>15. ASSUME NEW c \in Conns, Teardown(c) PROVE IInv'
  <2>1. Typed'
    BY <1>15 DEF Teardown, IInv, Typed, LocalsBound, poolVars, taskVars
  <2>2. QED
    BY <1>15, <2>1, HoldersUntouched DEF Teardown, Connecting, poolVars, taskVars
<1>16. CASE PoolTerminate
  BY <1>16, PoolTerminateKeepsIInv
<1>17. CASE UNCHANGED vars
  <2>1. Typed'
    BY <1>17 DEF vars, poolVars, taskVars, netVars, IInv, Typed, LocalsBound
  <2>2. QED
    BY <1>17, <2>1, HoldersUntouched DEF Connecting, vars, poolVars, taskVars
<1>18. QED
  BY <1>1, <1>2, <1>3, <1>4, <1>5, <1>6, <1>7, <1>8, <1>9, <1>10, <1>11,
     <1>12, <1>13, <1>14, <1>15, <1>16, <1>17 DEF Next, TaskStep, NetStep

\* The queue holds each holder once, so it cannot outgrow them.
LEMMA QueueBounded == IInv => Len(queue) <= MaxSize
<1> SUFFICES ASSUME IInv PROVE Len(queue) <= MaxSize
  OBVIOUS
<1>1. /\ Len(queue) \in Nat
      /\ queue \in [1..Len(queue) -> Holders]
      /\ IsInjective(queue)
  BY LenProperties DEF IInv, Typed, HolderAccounted
<1>2. queue \in Injection(1..Len(queue), Holders)
  BY <1>1 DEF Injection
<1>3. IsFiniteSet(Holders) /\ Cardinality(Holders) = MaxSize
  <2>1. 1 \in Int /\ MaxSize \in Int /\ MaxSize >= 1
    BY SizeAssumption
  <2>2. /\ IsFiniteSet(1..MaxSize)
        /\ Cardinality(1..MaxSize) = IF 1 > MaxSize THEN 0 ELSE MaxSize - 1 + 1
    BY <2>1, FS_Interval
  <2>3. QED
    BY <2>1, <2>2 DEF Holders
<1>4. Cardinality(1..Len(queue)) = Len(queue)
  <2>1. Cardinality(1..Len(queue)) =
           IF 1 > Len(queue) THEN 0 ELSE Len(queue) - 1 + 1
    BY <1>1, FS_Interval
  <2>2. QED
    BY <1>1, <2>1
<1>5. QED
  BY <1>2, <1>3, <1>4, FS_Injection

THEOREM AlwaysIInv == Spec => []IInv
<1>1. QED
  BY InitIInv, NextKeepsIInv, PTL DEF Spec

\* Every variable keeps its type, and the queue stays within the pool's size
\* (Pool._queue, _acquire_impl and _release, pool.py).
THEOREM TypeCorrect == Spec => []TypeOK
<1>1. IInv => TypeOK
  BY QueueBounded DEF IInv, TypeOK
<1>2. QED
  BY <1>1, AlwaysIInv, PTL

\* No interleaving of acquire, release, terminate, failures and cancellations
\* puts a holder back twice or loses a free one (pool.py).
THEOREM HoldersAccounted == Spec => []HolderAccounted
<1>1. IInv => HolderAccounted
  BY DEF IInv
<1>2. QED
  BY <1>1, AlwaysIInv, PTL

-----------------------------------------------------------------------------
\* The pool implements HolderPool.

\* Under the invariant the owner of a holder is determined by where it is.
OwnerIs(h) ==
    /\ Queued(h) => Owner(h) = None
    /\ inUse[h] # None => Owner(h) = inUse[h]
    /\ \A t \in Tasks : Connecting(t, h) => Owner(h) = t
    /\ Queued(h) \/ inUse[h] # None \/ \E t \in Tasks : Connecting(t, h)

LEMMA OwnersDetermined == IInv => \A h \in Holders : OwnerIs(h)
<1> SUFFICES ASSUME IInv, NEW h \in Holders PROVE OwnerIs(h)
  OBVIOUS
<1>1. \A t \in Tasks : Connecting(t, h) =>
         inUse[h] = None /\ t = CHOOSE u \in Tasks : Connecting(u, h)
  BY DEF IInv, HolderAccounted
<1>2. QED
  BY <1>1 DEF OwnerIs, Owner, IInv, HolderAccounted

LEMMA OwnersBeforeAndAfter ==
    ASSUME IInv, IInv'
    PROVE  (\A h \in Holders : OwnerIs(h)) /\ (\A h \in Holders : OwnerIs(h))'
BY OwnersDetermined, PTL

\* A step that puts the holders of S back and leaves the others alone.
LEMMA ReturnStep ==
    ASSUME IInv, IInv', NEW S \in SUBSET Holders,
           S \cap Range(queue) = {},
           Range(queue') = Range(queue) \cup S,
           \A h \in Holders \ S :
              /\ inUse'[h] = inUse[h]
              /\ \A u \in Tasks : Connecting(u, h)' <=> Connecting(u, h)
    PROVE  Abstract!Next
<1> (\A h \in Holders : OwnerIs(h)) /\ (\A h \in Holders : OwnerIs(h))'
  BY OwnersBeforeAndAfter
<1>1. \A h \in S : Queued(h)' /\ Owner(h)' = None
  BY DEF Queued, OwnerIs
<1>2. \A h \in Holders \ S : (Queued(h)' <=> Queued(h)) /\ Owner(h)' = Owner(h)
  <2> TAKE h \in Holders \ S
  <2>1. Queued(h)' <=> Queued(h)
    BY DEF Queued
  <2>2. CASE Queued(h)
    BY <2>1, <2>2 DEF OwnerIs
  <2>3. CASE inUse[h] # None
    BY <2>1, <2>3 DEF OwnerIs
  <2>4. CASE \E u \in Tasks : Connecting(u, h)
    BY <2>1, <2>4 DEF OwnerIs
  <2>5. QED
    BY <2>2, <2>3, <2>4 DEF OwnerIs
<1>3. Abstract!Return(S)
  BY <1>1, <1>2 DEF Abstract!Return, Queued
<1>4. QED
  BY <1>3 DEF Abstract!Next

\* Steps that give nobody a holder and take none away.
LEMMA StutterStep ==
    ASSUME IInv, IInv', UNCHANGED <<queue, inUse>>,
           \A u \in Tasks, g \in Holders : Connecting(u, g)' <=> Connecting(u, g)
    PROVE  Abstract!Next
<1>1. \A h \in Holders \ {} :
         /\ inUse'[h] = inUse[h]
         /\ \A u \in Tasks : Connecting(u, h)' <=> Connecting(u, h)
  OBVIOUS
<1>2. {} \in SUBSET Holders /\ Range(queue') = Range(queue) \cup {}
  OBVIOUS
<1>3. QED
  BY <1>1, <1>2, ReturnStep

\* terminate or release through the proxy of t, by its owner or a stale one.
LEMMA GiveBackStep ==
    ASSUME IInv, IInv', NEW h \in Holders,
           inUse' = [inUse EXCEPT ![h] = None],
           Range(queue') = Range(queue) \cup
                             (IF inUse[h] = None THEN {} ELSE {h}),
           \A u \in Tasks, g \in Holders : Connecting(u, g)' <=> Connecting(u, g)
    PROVE  Abstract!Next
<1>1. CASE inUse[h] = None
  <2>1. \A g \in Holders \ {} :
           /\ inUse'[g] = inUse[g]
           /\ \A u \in Tasks : Connecting(u, g)' <=> Connecting(u, g)
    BY <1>1 DEF IInv, Typed
  <2>2. {} \in SUBSET Holders /\ Range(queue') = Range(queue) \cup {}
    BY <1>1
  <2>3. QED
    BY <2>1, <2>2, ReturnStep
<1>2. CASE inUse[h] # None
  <2>1. \A g \in Holders \ {h} :
           /\ inUse'[g] = inUse[g]
           /\ \A u \in Tasks : Connecting(u, g)' <=> Connecting(u, g)
    BY DEF IInv, Typed
  <2>2. {h} \in SUBSET Holders /\ Range(queue') = Range(queue) \cup {h}
    BY <1>2
  <2>3. {h} \cap Range(queue) = {}
    BY <1>2 DEF IInv, HolderAccounted, Queued
  <2>4. QED
    BY <2>1, <2>2, <2>3, ReturnStep
<1>3. QED
  BY <1>1, <1>2

LEMMA TerminateAndFailStep ==
    ASSUME IInv, IInv', NEW t \in Tasks, pc[t] \in Using, TerminateAndFail(t)
    PROVE  Abstract!Next
<1>1. hold[t] \in Holders /\ TerminateHolder(hold[t])
  BY DEF IInv, Typed, LocalsBound, TerminateAndFail
<1>2. \A u \in Tasks, g \in Holders : Connecting(u, g)' <=> Connecting(u, g)
  BY DEF TerminateAndFail, End, Connecting, IInv, Typed, Using
<1>3. QED
  BY <1>1, <1>2, TerminateHolderFacts, GiveBackStep

LEMMA InitImplements == Init => Abstract!Init
<1> SUFFICES ASSUME Init PROVE Abstract!Init
  OBVIOUS
<1>1. \A h \in Holders : Queued(h) /\ Owner(h) = None
  BY InitIInv, OwnersDetermined, SizeAssumption
     DEF Init, Queued, Range, Holders, OwnerIs
<1>2. QED
  BY <1>1 DEF Abstract!Init

\* queue.get gives a holder to the coroutine, before or after a connection.
LEMMA GetStep ==
    ASSUME IInv, IInv', NEW t \in Tasks, Get(t)
    PROVE  Abstract!Next
<1> (\A h \in Holders : OwnerIs(h)) /\ (\A h \in Holders : OwnerIs(h))'
  BY OwnersBeforeAndAfter
<1>1. PICK h \in Holders :
         /\ h = queue[Len(queue)]
         /\ Queued(h)
         /\ Range(queue') = Range(queue) \ {h}
  BY TakeFacts DEF Get, IInv, Typed, HolderAccounted, Queued
<1>2. /\ pc[t] = "getting"
      /\ \/ inUse' = [inUse EXCEPT ![h] = t] /\ pc' = [pc EXCEPT ![t] = "sending"]
         \/ inUse' = inUse /\ pc' = [pc EXCEPT ![t] = "connecting"]
      /\ hold' = [hold EXCEPT ![t] = h]
  BY <1>1 DEF Get, CheckOut
<1>3. Owner(h)' = t
  <2>1. CASE inUse' = [inUse EXCEPT ![h] = t]
    BY <1>1, <2>1, TasksAssumption DEF OwnerIs, IInv, Typed
  <2>2. CASE pc' = [pc EXCEPT ![t] = "connecting"]
    <3>1. Connecting(t, h)'
      BY <1>2, <2>2 DEF Connecting, IInv, Typed
    <3>2. QED
      BY <1>1, <3>1 DEF OwnerIs
  <2>3. QED
    BY <1>2, <2>1, <2>2
<1>4. \A g \in Holders \ {h} :
         /\ inUse'[g] = inUse[g]
         /\ \A u \in Tasks : Connecting(u, g)' <=> Connecting(u, g)
  BY <1>2 DEF Connecting, IInv, Typed
<1>5. \A g \in Holders \ {h} : (Queued(g)' <=> Queued(g)) /\ Owner(g)' = Owner(g)
  BY <1>1, <1>4 DEF OwnerIs, Queued
<1>6. ~Queued(h)'
  BY <1>1 DEF Queued
<1>7. Abstract!Acquire(t, h)
  BY <1>1, <1>3, <1>5, <1>6 DEF Abstract!Acquire
<1>8. QED
  BY <1>1, <1>7 DEF Abstract!Next

\* The handshake completes: the holder stays with the coroutine.
LEMMA ConnectedStep ==
    ASSUME IInv, IInv', NEW t \in Tasks, Connected(t)
    PROVE  UNCHANGED Abstract!vars
<1> (\A h \in Holders : OwnerIs(h)) /\ (\A h \in Holders : OwnerIs(h))'
  BY OwnersBeforeAndAfter
<1>1. PICK h \in Holders :
         /\ hold[t] = h
         /\ pc[t] = "connecting"
         /\ inUse' = [inUse EXCEPT ![h] = t]
         /\ pc' = [pc EXCEPT ![t] = "sending"]
         /\ hold' = [hold EXCEPT ![t] = h]
         /\ queue' = queue
  BY DEF Connected, CheckOut, IInv, Typed, LocalsBound
<1>2. Owner(h) = t
  BY <1>1 DEF Connecting, OwnerIs
<1>3. Owner(h)' = t
  BY <1>1, TasksAssumption DEF OwnerIs, IInv, Typed
<1>4. \A g \in Holders \ {h} :
         /\ inUse'[g] = inUse[g]
         /\ \A u \in Tasks : Connecting(u, g)' <=> Connecting(u, g)
  BY <1>1 DEF Connecting, IInv, Typed
<1>5. \A g \in Holders : (Queued(g)' <=> Queued(g)) /\ Owner(g)' = Owner(g)
  BY <1>1, <1>2, <1>3, <1>4 DEF OwnerIs, Queued
<1>6. QED
  BY <1>5 DEF Abstract!vars

\* The acquire fails: the coroutine gives the holder back.
LEMMA AcquireFailsStep ==
    ASSUME IInv, IInv', NEW t \in Tasks, AcquireFails(t)
    PROVE  Abstract!Next
<1> DEFINE h == hold[t]
<1>1. h \in Holders /\ Connecting(t, h)
  BY DEF AcquireFails, Connecting, IInv, Typed, LocalsBound
<1>2. {h} \in SUBSET Holders /\ {h} \cap Range(queue) = {}
  BY <1>1 DEF IInv, HolderAccounted, Queued
<1>3. Range(queue') = Range(queue) \cup {h}
  BY <1>1, <1>2, PutFacts DEF AcquireFails, IInv, Typed, HolderAccounted
<1>4. \A g \in Holders \ {h} :
         /\ inUse'[g] = inUse[g]
         /\ \A u \in Tasks : Connecting(u, g)' <=> Connecting(u, g)
  BY DEF AcquireFails, End, Connecting, IInv, Typed
<1>5. QED
  BY <1>2, <1>3, <1>4, ReturnStep

LEMMA PoolTerminateStep ==
    ASSUME IInv, IInv', PoolTerminate
    PROVE  Abstract!Next
<1> DEFINE used == {h \in {g \in Holders : con[g] # None} : inUse[h] # None}
<1>1. used = {h \in Holders : inUse[h] # None}
  BY DEF IInv, HolderAccounted
<1>2. /\ \A g \in Holders \ used : inUse'[g] = inUse[g]
      /\ \A g \in used : inUse'[g] = None
      /\ UNCHANGED <<pc, hold>>
  BY DEF PoolTerminate, taskVars
<1>3. PICK s \in Bijection(1..Cardinality(used), used) : queue' = queue \o s
  BY DEF PoolTerminate, InOrder
<1>4. Cardinality(used) \in Nat
  <2>1. IsFiniteSet(Holders)
    BY FS_Interval, SizeAssumption DEF Holders
  <2>2. QED
    BY <2>1, FS_Subset, FS_CardinalityType
<1>5. used \in SUBSET Holders /\ used \cap Range(queue) = {}
  BY <1>1 DEF IInv, HolderAccounted, Queued
<1>6. queue \in Seq(Holders) /\ IsInjective(queue)
  BY DEF IInv, Typed, HolderAccounted
<1> HIDE DEF used
<1>7. Range(queue') = Range(queue) \cup used
  BY <1>3, <1>4, <1>5, <1>6, PutAllFacts
<1>8. \A g \in Holders \ used :
         /\ inUse'[g] = inUse[g]
         /\ \A u \in Tasks : Connecting(u, g)' <=> Connecting(u, g)
  BY <1>2 DEF Connecting
<1>9. QED
  BY <1>5, <1>7, <1>8, ReturnStep

\* The pool never hands a holder to a coroutine while another one owns it,
\* never puts back what is already free, and drops none: acquire, release and
\* terminate (pool.py) implement HolderPool.
THEOREM PoolImplementsHolderPool == Spec => ImplementsHolderPool
<1>1. ASSUME IInv, IInv', [Next]_vars PROVE [Abstract!Next]_(Abstract!vars)
  <2>1. ASSUME NEW t \in Tasks, Start(t) PROVE Abstract!Next
    BY <1>1, <2>1, StutterStep DEF Start, Connecting, IInv, Typed, poolVars
  <2>2. ASSUME NEW t \in Tasks, Get(t) PROVE Abstract!Next
    BY <1>1, <2>2, GetStep
  <2>3. ASSUME NEW t \in Tasks, Connected(t) PROVE UNCHANGED Abstract!vars
    BY <1>1, <2>3, ConnectedStep
  <2>4. ASSUME NEW t \in Tasks, AcquireFails(t) PROVE Abstract!Next
    BY <1>1, <2>4, AcquireFailsStep
  <2>5. ASSUME NEW t \in Tasks, SendDone(t) PROVE Abstract!Next
    BY <1>1, <2>5, StutterStep DEF SendDone, Connecting, IInv, Typed, poolVars
  <2>6. ASSUME NEW t \in Tasks, ClosedRaised(t) PROVE Abstract!Next
    BY <1>1, <2>6, TerminateAndFailStep DEF ClosedRaised, Using
  <2>7. ASSUME NEW t \in Tasks, Recv(t) PROVE Abstract!Next
    <3>1. CASE TerminateAndFail(t)
      BY <1>1, <2>7, <3>1, TerminateAndFailStep DEF Recv, Using
    <3>2. CASE /\ pc' = [pc EXCEPT ![t] = "releasing"]
               /\ UNCHANGED <<poolVars, hold, pcon, cstate, opened, wire>>
      BY <1>1, <2>7, <3>2, StutterStep
         DEF Recv, Connecting, IInv, Typed, poolVars
    <3>3. QED
      BY <2>7, <3>1, <3>2 DEF Recv
  <2>8. ASSUME NEW t \in Tasks, InnerRelease(t) PROVE Abstract!Next
    <3>1. hold[t] \in Holders
      BY <1>1, <2>8 DEF InnerRelease, IInv, Typed, LocalsBound, Using
    <3>2. \A u \in Tasks, g \in Holders : Connecting(u, g)' <=> Connecting(u, g)
      BY <1>1, <2>8 DEF InnerRelease, Connecting, IInv, Typed
    <3>3. CASE UNCHANGED <<inUse, queue>>
      BY <1>1, <3>2, <3>3, StutterStep
    <3>4. CASE ReleaseHolder(hold[t])
      BY <1>1, <3>1, <3>2, <3>4, ReleaseHolderFacts, GiveBackStep
    <3>5. QED
      BY <2>8, <3>3, <3>4 DEF InnerRelease
  <2>9. ASSUME NEW t \in Tasks, Finish(t) PROVE Abstract!Next
    BY <1>1, <2>9, StutterStep
       DEF Finish, End, Connecting, IInv, Typed, poolVars
  <2>10. ASSUME NEW t \in Tasks, Reject(t) PROVE Abstract!Next
    BY <1>1, <2>10, TerminateAndFailStep DEF Reject, Using
  <2>11. ASSUME NEW t \in Tasks, CancelGetting(t) PROVE Abstract!Next
    BY <1>1, <2>11, StutterStep
       DEF CancelGetting, End, Connecting, IInv, Typed, poolVars
  <2>12. ASSUME NEW t \in Tasks, CancelUsing(t) PROVE Abstract!Next
    BY <1>1, <2>12, TerminateAndFailStep DEF CancelUsing, Using
  <2>13. ASSUME NEW c \in Conns, NetStep(c) PROVE Abstract!Next
    BY <1>1, <2>13, StutterStep
       DEF NetStep, Answer, UpstreamClose, Teardown, Connecting, poolVars, taskVars
  <2>14. CASE PoolTerminate
    BY <1>1, <2>14, PoolTerminateStep
  <2>15. CASE UNCHANGED vars
    BY <1>1, <2>15, StutterStep DEF vars, Connecting, poolVars, taskVars
  <2>16. QED
    BY <1>1, <2>1, <2>2, <2>3, <2>4, <2>5, <2>6, <2>7, <2>8, <2>9, <2>10,
       <2>11, <2>12, <2>13, <2>14, <2>15 DEF Next, TaskStep
<1>2. QED
  BY <1>1, InitImplements, AlwaysIInv, PTL
     DEF Spec, ImplementsHolderPool, Abstract!Spec
=============================================================================
