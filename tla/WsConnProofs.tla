---------------------------- MODULE WsConnProofs ----------------------------
(***************************************************************************)
(* Theorems about the connections of WsPool, for every number of           *)
(* coroutines, holders and connections and every set of faults: a          *)
(* connection has one user, whose answers it carries, is clean when it is  *)
(* free, and does not survive a shutdown.                                  *)
(*                                                                         *)
(* A coroutine that works with a connection either owns its holder, or the *)
(* holder was taken from it through a stale proxy or by a shutdown.  Then  *)
(* its connection is lost, and all that the coroutine may still do to the  *)
(* holder it does before the holder is connected again.                    *)
(***************************************************************************)
EXTENDS WsPoolProofs

\* The coroutines that read, write or are about to release.
Working == {"sending", "receiving", "releasing"}

Owns(t) == inUse[hold[t]] = t /\ con[hold[t]] = pcon[t]

Lost(t) ==
    /\ cstate[pcon[t]] \in {"closing", "closed"}
    /\ \A h \in Holders : con[h] # pcon[t]
    /\ Ready(t) => con[hold[t]] = None

OwnsOrLost == \A t \in Tasks : pc[t] \in Working => Owns(t) \/ Lost(t)

\* Connections are made one after the other and belong to one holder.
ConnsMade ==
    /\ \A c \in Conns : c > opened => wire[c] = {} /\ inbox[c] = <<>>
    /\ \A c \in Conns : c > opened <=> cstate[c] = "unused"
    /\ \A h \in Holders : con[h] # None => con[h] <= opened
    /\ \A t \in Tasks : pcon[t] # None => pcon[t] <= opened
    /\ \A h, g \in Holders : con[h] # None /\ con[h] = con[g] => h = g
    /\ \A c \in Conns : cstate[c] = "open" => \E h \in Holders : con[h] = c

\* What c may carry while t waits for the answer to its request.
Carries(c, t) ==
    \/ wire[c] \subseteq {t} /\ inbox[c] = <<>>
    \/ /\ wire[c] = {}
       /\ \E m \in Message : m.req = t /\ inbox[c] = <<m>>

TrafficOf(t) ==
    /\ pc[t] \in {"sending", "receiving"} => Carries(pcon[t], t)
    /\ pc[t] = "releasing" => wire[pcon[t]] = {} /\ inbox[pcon[t]] = <<>>
    /\ pc[t] \in {"releasing", "released", "ok"} => got[t].req = t

TrafficOwn == \A t \in Tasks : TrafficOf(t)

\* After the shutdown only coroutines that will see it have connections.
ClosedOwned ==
    closed =>
        /\ \A t \in Tasks : pc[t] = "releasing" => ~Owns(t)
        /\ \A c \in Conns : cstate[c] = "open" =>
             \E t \in Tasks : /\ pc[t] \in {"sending", "receiving"}
                              /\ Owns(t) /\ pcon[t] = c

ConnInv ==
    OwnsOrLost /\ ConnsMade /\ ConnExclusive /\ TrafficOwn /\ IdleConnClean /\ ClosedOwned

Inv == IInv /\ ConnInv

-----------------------------------------------------------------------------
\* Facts about one state.

LEMMA Bound ==
    ASSUME IInv
    PROVE  /\ None \notin Conns /\ None \notin Tasks
           /\ Conns \subseteq Nat /\ opened \in Nat
           /\ \A t \in Tasks : pc[t] \in Working =>
                hold[t] \in Holders /\ pcon[t] \in Conns
BY TasksAssumption DEF IInv, Typed, LocalsBound, Using, Working, Conns

\* The user of a connection that is in some holder is the one in inUse.
LEMMA UserFacts ==
    ASSUME Inv, NEW t \in Tasks, pc[t] \in Working, NEW h \in Holders,
           con[h] = pcon[t]
    PROVE  hold[t] = h /\ inUse[h] = t
<1>1. Owns(t) /\ hold[t] \in Holders /\ pcon[t] # None
  BY Bound DEF Inv, ConnInv, OwnsOrLost, Lost
<1>2. QED
  BY <1>1 DEF Inv, ConnInv, ConnsMade, Owns

\* A step that leaves alone what the coroutine u waits for.
LEMMA TrafficKept ==
    ASSUME Inv, NEW u \in Tasks,
           pc'[u] \in Working =>
               /\ pc'[u] = pc[u] \/ (pc[u] = "sending" /\ pc'[u] = "receiving")
               /\ pcon'[u] = pcon[u] /\ inbox'[pcon[u]] = inbox[pcon[u]]
               /\ wire'[pcon[u]] \in {wire[pcon[u]], {}},
           pc'[u] \in {"releasing", "released", "ok"} =>
               got'[u] = got[u] /\ pc[u] \in {"releasing", "released", "ok"}
    PROVE  TrafficOf(u)'
<1>1. TrafficOf(u)
  BY DEF Inv, ConnInv, TrafficOwn
<1>2. CASE pc'[u] \in {"sending", "receiving"}
  <2>1. Carries(pcon[u], u) /\ pcon'[u] = pcon[u]
    BY <1>1, <1>2 DEF TrafficOf, Working
  <2>2. Carries(pcon[u], u)'
    BY <1>2, <2>1 DEF Carries, Working
  <2>3. QED
    BY <1>2, <2>2 DEF TrafficOf
<1>3. CASE pc'[u] = "releasing"
  BY <1>1, <1>3 DEF TrafficOf, Working
<1>4. CASE pc'[u] \notin Working
  BY <1>1, <1>4 DEF TrafficOf, Working
<1>5. QED
  BY <1>2, <1>3, <1>4 DEF Working

\* A step of a coroutine that touches neither holders nor connections; what it
\* puts into the queue has no connection.
LEMMA Quiet ==
    ASSUME Inv, IInv', NEW t \in Tasks,
           UNCHANGED <<con, inUse, closed, cstate, opened, wire, inbox>>,
           \A u \in Tasks : u # t =>
               /\ pc'[u] = pc[u] /\ hold'[u] = hold[u]
               /\ pcon'[u] = pcon[u] /\ got'[u] = got[u],
           \A h \in Holders : Queued(h)' => Queued(h) \/ con[h] = None,
           \/ /\ pc[t] = "sending" /\ pc'[t] = "receiving"
              /\ hold'[t] = hold[t] /\ pcon'[t] = pcon[t]
           \/ /\ pc[t] \notin {"sending", "receiving"}
              /\ pc'[t] \notin Working \cup {"released"}
              /\ pc'[t] = "ok" => pc[t] = "released" /\ got'[t] = got[t]
              /\ pcon'[t] \in {None, pcon[t]}
    PROVE  ConnInv'
<1>1. Inv /\ Typed
  BY DEF Inv, IInv
<1>2. \A u \in Tasks : pc'[u] \in Working =>
         /\ pc[u] \in Working /\ hold'[u] = hold[u] /\ pcon'[u] = pcon[u]
         /\ Ready(u)' => Ready(u)
         /\ pc[u] = pc'[u] \/ (pc[u] = "sending" /\ pc'[u] = "receiving")
  BY DEF Working, Ready
<1>3. OwnsOrLost'
  BY <1>1, <1>2 DEF Inv, ConnInv, OwnsOrLost, Owns, Lost
<1>4. ConnsMade'
  <2>1. \A u \in Tasks : pcon'[u] # None => pcon'[u] = pcon[u]
    OBVIOUS
  <2>2. QED
    BY <1>1, <2>1 DEF Inv, ConnInv, ConnsMade
<1>5. ConnExclusive'
  BY <1>1, <1>2 DEF Inv, ConnInv, ConnExclusive, Working
<1>6. TrafficOwn'
  BY <1>1, <1>2, TrafficKept DEF TrafficOwn, Working
<1>7. IdleConnClean'
  BY <1>1 DEF Inv, ConnInv, IdleConnClean, IsOpen
<1>8. ClosedOwned'
  <2>1. \A u \in Tasks : pc[u] \in {"sending", "receiving"} =>
           /\ pc'[u] \in {"sending", "receiving"}
           /\ hold'[u] = hold[u] /\ pcon'[u] = pcon[u]
    OBVIOUS
  <2>2. QED
    BY <1>1, <1>2, <2>1 DEF Inv, ConnInv, ClosedOwned, Owns, Working
<1>9. QED
  BY <1>3, <1>4, <1>5, <1>6, <1>7, <1>8 DEF ConnInv

-----------------------------------------------------------------------------
\* The steps of a coroutine.

LEMMA TerminateAndFailConns ==
    ASSUME Inv, IInv', NEW t \in Tasks, pc[t] \in Using, TerminateAndFail(t),
           \A c \in Conns : \/ inbox'[c] = inbox[c]
                            \/ /\ pc[t] = "receiving" /\ c = pcon[t]
                               /\ inbox'[c] = <<>>
    PROVE  ConnInv'
<1>1. PICK h \in Holders : h = hold[t]
  BY DEF Inv, IInv, Typed, LocalsBound
<1>2. IInv /\ Typed
  BY DEF Inv, IInv
<1>3. /\ con' = [con EXCEPT ![h] = None]
      /\ inUse' = [inUse EXCEPT ![h] = None]
      /\ Range(queue') \subseteq Range(queue) \cup {h}
  <2>1. TerminateHolder(h)
    BY <1>1 DEF TerminateAndFail
  <2>2. QED
    BY <1>2, <2>1, TerminateHolderFacts
<1>4. \A c \in Conns :
        /\ cstate'[c] = IF con[h] = c /\ cstate[c] = "open" THEN "closing" ELSE cstate[c]
        /\ wire'[c] = IF con[h] = c THEN {} ELSE wire[c]
  <2>1. TerminateHolder(h)
    BY <1>1 DEF TerminateAndFail
  <2>2. CASE con[h] = None
    BY <1>2, <2>1, <2>2, Bound DEF TerminateHolder
  <2>3. CASE con[h] # None
    BY <2>1, <2>3 DEF TerminateHolder, FailConnections
  <2>4. QED
    BY <2>2, <2>3
<1>5. /\ UNCHANGED <<closed, opened>>
      /\ pc'[t] = "failed" /\ pcon'[t] \in {None, pcon[t]}
      /\ \A u \in Tasks : u # t =>
           /\ pc'[u] = pc[u] /\ hold'[u] = hold[u]
           /\ pcon'[u] = pcon[u] /\ got'[u] = got[u]
  BY <1>2 DEF TerminateAndFail, End, Typed
<1>6. \A u \in Tasks : pc'[u] \in Working =>
         /\ u # t /\ pc[u] = pc'[u] /\ hold'[u] = hold[u] /\ pcon'[u] = pcon[u]
         /\ hold[u] \in Holders /\ pcon[u] \in Conns
         /\ inbox'[pcon[u]] = inbox[pcon[u]]
  <2>1. \A u \in Tasks : u # t /\ pc[u] \in Working /\ pc[t] = "receiving" =>
            pcon[u] # pcon[t]
    BY DEF Inv, ConnInv, ConnExclusive, Working
  <2>2. QED
    BY <1>2, <1>5, <2>1, Bound DEF Working
<1>7. OwnsOrLost'
  <2> SUFFICES ASSUME NEW u \in Tasks, pc'[u] \in Working
               PROVE  Owns(u)' \/ Lost(u)'
    BY DEF OwnsOrLost
  <2>1. Owns(u) \/ Lost(u)
    BY <1>6 DEF Inv, ConnInv, OwnsOrLost
  <2>2. Ready(u)' => Ready(u)
    BY <1>6 DEF Ready
  <2>3. CASE Lost(u)
    BY <1>2, <1>3, <1>4, <1>6, <2>2, <2>3, Bound DEF Lost, Typed
  <2>4. CASE Owns(u) /\ hold[u] # h
    BY <1>2, <1>3, <1>6, <2>4 DEF Owns, Typed
  <2>5. CASE Owns(u) /\ hold[u] = h
    <3>1. con[h] = pcon[u] /\ con[h] # None
      BY <1>2, <1>6, <2>5, Bound DEF Owns
    <3>2. cstate[pcon[u]] # "unused" /\ cstate[pcon[u]] \in {"unused", "open", "closing", "closed"}
      <4>1. pcon[u] <= opened /\ pcon[u] \in Nat /\ opened \in Nat
        BY <1>2, <1>6, <3>1, Bound DEF Inv, ConnInv, ConnsMade
      <4>2. ~(pcon[u] > opened)
        BY <4>1
      <4>3. QED
        BY <1>2, <1>6, <4>2 DEF Inv, ConnInv, ConnsMade, Typed
    <3>3. cstate'[pcon[u]] \in {"closing", "closed"}
      BY <1>4, <1>6, <3>1, <3>2
    <3>4. \A g \in Holders : con'[g] # pcon[u]
      BY <1>2, <1>3, <1>6, <3>1, Bound DEF Inv, ConnInv, ConnsMade, Typed
    <3>5. con'[hold[u]] = None
      BY <1>2, <1>3, <2>5 DEF Typed
    <3>6. QED
      BY <1>6, <3>3, <3>4, <3>5 DEF Lost
  <2>6. QED
    BY <2>1, <2>3, <2>4, <2>5
<1>8. ConnsMade'
  <2>1. \A c \in Conns : c > opened' => wire'[c] = {} /\ inbox'[c] = <<>>
    BY <1>4, <1>5 DEF Inv, ConnInv, ConnsMade
  <2>2. \A c \in Conns : c > opened' <=> cstate'[c] = "unused"
    BY <1>4, <1>5 DEF Inv, ConnInv, ConnsMade
  <2>3. \A g \in Holders : con'[g] # None => g # h /\ con'[g] = con[g]
    BY <1>2, <1>3 DEF Typed
  <2>4. \A u \in Tasks : pcon'[u] # None => pcon'[u] = pcon[u]
    BY <1>5
  <2>5. \A c \in Conns : cstate'[c] = "open" => \E g \in Holders : con'[g] = c
    <3>1. \A c \in Conns : cstate'[c] = "open" => cstate[c] = "open" /\ con[h] # c
      BY <1>4
    <3>2. QED
      BY <1>2, <1>3, <3>1 DEF Inv, ConnInv, ConnsMade, Typed
  <2>6. QED
    BY <1>5, <2>1, <2>2, <2>3, <2>4, <2>5 DEF Inv, ConnInv, ConnsMade
<1>9. ConnExclusive'
  BY <1>6 DEF Inv, ConnInv, ConnExclusive, Working
<1>10. TrafficOwn'
  <2> SUFFICES ASSUME NEW u \in Tasks  PROVE TrafficOf(u)'
    BY DEF TrafficOwn
  <2>1. pc'[u] \in Working =>
          /\ pc'[u] = pc[u] /\ pcon'[u] = pcon[u]
          /\ inbox'[pcon[u]] = inbox[pcon[u]]
          /\ wire'[pcon[u]] \in {wire[pcon[u]], {}}
    BY <1>4, <1>6
  <2>2. pc'[u] \in {"releasing", "released", "ok"} => got'[u] = got[u] /\ pc[u] = pc'[u]
    BY <1>5
  <2>3. QED
    BY <2>1, <2>2, TrafficKept
<1>11. IdleConnClean'
  <2> SUFFICES ASSUME NEW g \in Holders, Queued(g)', IsOpen(g)'
               PROVE  wire'[con'[g]] = {} /\ inbox'[con'[g]] = <<>>
    BY DEF IdleConnClean
  <2>1. g # h /\ con'[g] = con[g] /\ con[g] # None /\ con[g] \in Conns
    BY <1>2, <1>3 DEF IsOpen, Typed
  <2>2. Queued(g) /\ cstate[con[g]] = "open"
    BY <1>3, <1>4, <2>1 DEF Queued, IsOpen
  <2>3. wire[con[g]] = {} /\ inbox[con[g]] = <<>>
    BY <2>1, <2>2 DEF Inv, ConnInv, IdleConnClean, IsOpen
  <2>4. QED
    BY <1>4, <2>1, <2>3
<1>12. ClosedOwned'
  <2> SUFFICES ASSUME closed
               PROVE  /\ \A u \in Tasks : pc'[u] = "releasing" => ~Owns(u)'
                      /\ \A c \in Conns : cstate'[c] = "open" =>
                           \E u \in Tasks : /\ pc'[u] \in {"sending", "receiving"}
                                            /\ Owns(u)' /\ pcon'[u] = c
    BY <1>5 DEF ClosedOwned
  <2>1. ASSUME NEW u \in Tasks, pc'[u] = "releasing"  PROVE ~Owns(u)'
    <3>1. ~Owns(u)
      BY <1>6, <2>1 DEF Inv, ConnInv, ClosedOwned, Working
    <3>2. QED
      BY <1>2, <1>3, <1>6, <2>1, <3>1, Bound DEF Owns, Working, Typed
  <2>2. ASSUME NEW c \in Conns, cstate'[c] = "open"
        PROVE  \E u \in Tasks : /\ pc'[u] \in {"sending", "receiving"}
                                /\ Owns(u)' /\ pcon'[u] = c
    <3>1. cstate[c] = "open" /\ con[h] # c
      BY <1>4, <2>2
    <3>2. PICK u \in Tasks : /\ pc[u] \in {"sending", "receiving"}
                             /\ Owns(u) /\ pcon[u] = c
      BY <3>1 DEF Inv, ConnInv, ClosedOwned
    <3>3. hold[u] \in Holders /\ hold[u] # h
      BY <1>2, <3>1, <3>2, Bound DEF Owns, Working
    <3>4. u # t
      BY <1>1, <3>3
    <3>5. QED
      BY <1>2, <1>3, <1>5, <3>2, <3>3, <3>4 DEF Owns, Typed
  <2>3. QED
    BY <2>1, <2>2
<1>13. QED
  BY <1>7, <1>8, <1>9, <1>10, <1>11, <1>12 DEF ConnInv

LEMMA GetConns ==
    ASSUME Inv, IInv', NEW t \in Tasks, Get(t)
    PROVE  ConnInv'
<1>1. IInv /\ Typed /\ pc[t] = "getting"
  BY DEF Inv, IInv, Get
<1>2. PICK h : h = queue[Len(queue)]
  OBVIOUS
<1>3. h \in Holders /\ Queued(h) /\ Range(queue') = Range(queue) \ {h}
  BY <1>2, TakeFacts DEF Get, Inv, IInv, Typed, HolderAccounted, Queued
<1>4. inUse[h] = None
  BY <1>1, <1>3 DEF IInv, HolderAccounted
<1>5. UNCHANGED <<closed, got, cstate, opened, inbox>>
  BY DEF Get
<1>6. \A u \in Tasks : Owns(u) /\ hold[u] \in Holders => hold[u] # h
  BY <1>4, Bound DEF Owns, Inv
<1>7. CASE IsOpen(h) /\ CheckOut(t, h, con[h]) /\ UNCHANGED con
  <2>1. PICK c \in Conns : c = con[h] /\ cstate[c] = "open"
    BY <1>1, <1>3, <1>7 DEF IsOpen, Typed
  <2>2. /\ inUse' = [inUse EXCEPT ![h] = t] /\ UNCHANGED con
        /\ wire' = [wire EXCEPT ![c] = @ \cup {t}]
        /\ pc'[t] = "sending" /\ hold'[t] = h /\ pcon'[t] = c
        /\ \A u \in Tasks : u # t =>
             pc'[u] = pc[u] /\ hold'[u] = hold[u] /\ pcon'[u] = pcon[u]
    BY <1>1, <1>7, <2>1 DEF CheckOut, Typed
  <2>3. wire[c] = {} /\ inbox[c] = <<>>
    BY <1>3, <1>7, <2>1 DEF Inv, ConnInv, IdleConnClean
  <2>4. \A u \in Tasks : pc[u] \in Working => pcon[u] # c
    BY <1>1, <1>3, <1>4, <2>1, UserFacts, Bound
  <2>5. OwnsOrLost'
    <3>1. Owns(t)'
      BY <1>1, <1>3, <2>1, <2>2 DEF Owns, Typed
    <3>2. ASSUME NEW u \in Tasks, u # t, pc[u] \in Working
          PROVE  Owns(u)' \/ Lost(u)'
      <4>1. hold[u] \in Holders /\ (Owns(u) \/ Lost(u))
        BY <1>1, <3>2, Bound DEF Inv, ConnInv, OwnsOrLost
      <4>2. Owns(u) => Owns(u)'
        BY <1>1, <1>3, <1>6, <2>2, <3>2, <4>1 DEF Owns, Typed
      <4>3. Lost(u) => Lost(u)'
        BY <1>5, <2>2, <3>2 DEF Lost, Ready
      <4>4. QED
        BY <4>1, <4>2, <4>3
    <3>3. QED
      BY <2>2, <3>1, <3>2 DEF OwnsOrLost
  <2>6. ConnsMade'
    <3>1. c <= opened /\ ~(c > opened)
      <4>1. c \in Nat /\ opened \in Nat /\ c <= opened
        BY <1>1, <1>3, <2>1, Bound DEF Inv, ConnInv, ConnsMade
      <4>2. QED
        BY <4>1
    <3>2. \A d \in Conns : d # c => wire'[d] = wire[d]
      BY <1>1, <2>2 DEF Typed
    <3>3. \A u \in Tasks : pcon'[u] = pcon[u] \/ pcon'[u] = c
      BY <2>2
    <3>4. QED
      BY <1>5, <2>2, <3>1, <3>2, <3>3 DEF Inv, ConnInv, ConnsMade
  <2>7. ConnExclusive'
    BY <2>2, <2>4 DEF Inv, ConnInv, ConnExclusive, Working
  <2>8. TrafficOwn'
    <3>1. TrafficOf(t)'
      <4>1. wire'[c] = {t} /\ inbox'[c] = <<>>
        BY <1>1, <1>5, <2>2, <2>3 DEF Typed
      <4>2. QED
        BY <2>2, <4>1 DEF TrafficOf, Carries
    <3>2. ASSUME NEW u \in Tasks, u # t  PROVE TrafficOf(u)'
      <4>1. pc[u] \in Working => pcon[u] \in Conns /\ wire'[pcon[u]] = wire[pcon[u]]
        BY <1>1, <2>2, <2>4, Bound DEF Typed
      <4>2. QED
        BY <1>5, <2>2, <3>2, <4>1, TrafficKept
    <3>3. QED
      BY <3>1, <3>2 DEF TrafficOwn
  <2>9. IdleConnClean'
    <3>1. \A g \in Holders : Queued(g)' => Queued(g) /\ g # h
      BY <1>3 DEF Queued
    <3>2. \A g \in Holders : g # h /\ con[g] # None => con[g] # c
      BY <1>3, <2>1 DEF Inv, ConnInv, ConnsMade
    <3>3. \A d \in Conns : d # c => wire'[d] = wire[d]
      BY <1>1, <2>2 DEF Typed
    <3>4. \A g \in Holders : con[g] # None => con[g] \in Conns
      BY <1>1 DEF Typed
    <3>5. QED
      BY <1>5, <2>2, <3>1, <3>2, <3>3, <3>4 DEF Inv, ConnInv, IdleConnClean, IsOpen
  <2>10. ClosedOwned'
    <3>1. ~closed
      <4>1. \A u \in Tasks : pc[u] \in {"sending", "receiving"} => pcon[u] # c
        BY <2>4 DEF Working
      <4>2. QED
        BY <2>1, <4>1 DEF Inv, ConnInv, ClosedOwned
    <3>2. QED
      BY <1>5, <3>1 DEF ClosedOwned
  <2>11. QED
    BY <2>5, <2>6, <2>7, <2>8, <2>9, <2>10 DEF ConnInv
<1>8. CASE /\ ~IsOpen(h)
           /\ con' = [con EXCEPT ![h] = None]
           /\ hold' = [hold EXCEPT ![t] = h]
           /\ pc' = [pc EXCEPT ![t] = "connecting"]
           /\ UNCHANGED <<inUse, pcon, wire>>
  <2>1. \A u \in Tasks : pc'[u] \in Working \cup {"released", "ok"} =>
          /\ u # t /\ pc'[u] = pc[u] /\ hold'[u] = hold[u]
    BY <1>1, <1>8 DEF Typed, Working
  <2>2. \A g \in Holders : con'[g] # None => g # h /\ con'[g] = con[g]
    BY <1>1, <1>8 DEF Typed
  <2>3. OwnsOrLost'
    <3> SUFFICES ASSUME NEW u \in Tasks, pc'[u] \in Working
                 PROVE  Owns(u)' \/ Lost(u)'
      BY DEF OwnsOrLost
    <3>1. u # t /\ pc[u] \in Working /\ hold'[u] = hold[u]
      BY <2>1
    <3>2. hold[u] \in Holders /\ pcon[u] \in Conns /\ (Owns(u) \/ Lost(u))
      BY <1>1, <3>1, Bound DEF Inv, ConnInv, OwnsOrLost
    <3>3. Owns(u) => Owns(u)'
      BY <1>1, <1>3, <1>6, <1>8, <3>1, <3>2 DEF Owns, Typed
    <3>4. Lost(u) => Lost(u)'
      <4>1. Ready(u)' => Ready(u)
        BY <1>5, <1>8, <2>1 DEF Ready, Working
      <4>2. QED
        BY <1>1, <1>5, <1>8, <2>2, <3>1, <3>2, <4>1, Bound DEF Lost
    <3>5. QED
      BY <3>2, <3>3, <3>4
  <2>4. ConnsMade'
    <3>1. \A c \in Conns : cstate[c] = "open" => con[h] # c
      BY <1>1, <1>8, Bound DEF IsOpen
    <3>2. \A c \in Conns : cstate[c] = "open" => \E g \in Holders : con'[g] = c
      BY <1>1, <1>8, <3>1 DEF Inv, ConnInv, ConnsMade, Typed
    <3>3. QED
      BY <1>5, <1>8, <2>2, <3>2 DEF Inv, ConnInv, ConnsMade
  <2>5. ConnExclusive' /\ TrafficOwn'
    <3>1. ConnExclusive'
      BY <1>8, <2>1 DEF Inv, ConnInv, ConnExclusive, Working
    <3>2. \A u \in Tasks : TrafficOf(u)'
      BY <1>5, <1>8, <2>1, TrafficKept
    <3>3. QED
      BY <3>1, <3>2 DEF TrafficOwn
  <2>6. IdleConnClean'
    BY <1>3, <1>5, <1>8, <2>2 DEF Inv, ConnInv, IdleConnClean, IsOpen, Queued
  <2>7. ClosedOwned'
    <3> SUFFICES ASSUME closed
                 PROVE  /\ \A u \in Tasks : pc'[u] = "releasing" => ~Owns(u)'
                        /\ \A c \in Conns : cstate[c] = "open" =>
                             \E u \in Tasks : /\ pc'[u] \in {"sending", "receiving"}
                                              /\ Owns(u)' /\ pcon[u] = c
      BY <1>5, <1>8 DEF ClosedOwned
    <3>1. ASSUME NEW u \in Tasks, pc'[u] = "releasing"  PROVE ~Owns(u)'
      <4>1. ~Owns(u) /\ pcon[u] # None /\ hold[u] \in Holders /\ hold'[u] = hold[u]
        BY <1>1, <2>1, <3>1, Bound DEF Inv, ConnInv, ClosedOwned, Working
      <4>2. QED
        BY <1>8, <2>2, <4>1 DEF Owns
    <3>2. ASSUME NEW c \in Conns, cstate[c] = "open"
          PROVE  \E u \in Tasks : /\ pc'[u] \in {"sending", "receiving"}
                                  /\ Owns(u)' /\ pcon[u] = c
      <4>1. PICK u \in Tasks : /\ pc[u] \in {"sending", "receiving"}
                               /\ Owns(u) /\ pcon[u] = c
        BY <3>2 DEF Inv, ConnInv, ClosedOwned
      <4>2. u # t /\ hold[u] \in Holders /\ hold[u] # h
        BY <1>1, <1>6, <4>1, Bound DEF Working
      <4>3. QED
        BY <1>1, <1>8, <4>1, <4>2 DEF Owns, Typed
    <3>3. QED
      BY <3>1, <3>2
  <2>8. QED
    BY <2>3, <2>4, <2>5, <2>6, <2>7 DEF ConnInv
<1>9. QED
  BY <1>2, <1>7, <1>8 DEF Get

LEMMA ConnectedConns ==
    ASSUME Inv, IInv', NEW t \in Tasks, Connected(t)
    PROVE  ConnInv'
<1>1. IInv /\ Typed /\ pc[t] = "connecting" /\ hold[t] \in Holders
  BY DEF Inv, IInv, Typed, LocalsBound, Connected
<1>2. PICK h \in Holders : h = hold[t]
  BY <1>1
<1>3. PICK c : c = opened + 1
  OBVIOUS
<1>4. c \in Conns /\ c \in Nat /\ opened \in Nat /\ opened < c
  BY <1>1, <1>3, SizeAssumption, Bound DEF Connected, Conns
<1>5. /\ opened' = c /\ cstate' = [cstate EXCEPT ![c] = "open"]
      /\ con' = [con EXCEPT ![h] = c]
      /\ inUse' = [inUse EXCEPT ![h] = t]
      /\ wire' = [wire EXCEPT ![c] = @ \cup {t}]
      /\ pc'[t] = "sending" /\ hold'[t] = h /\ pcon'[t] = c
      /\ \A u \in Tasks : u # t =>
           pc'[u] = pc[u] /\ hold'[u] = hold[u] /\ pcon'[u] = pcon[u]
      /\ UNCHANGED <<queue, closed, got, inbox>>
  BY <1>1, <1>2, <1>3 DEF Connected, CheckOut, Typed
<1>6. con[h] = None /\ inUse[h] = None /\ ~Queued(h)
  BY <1>1, <1>2 DEF IInv, HolderAccounted, Connecting
<1>7. \A u \in Tasks \ {t} : hold[u] = h => ~Ready(u)
  BY <1>2 DEF Connected
<1>8. wire[c] = {} /\ inbox[c] = <<>>
  BY <1>4 DEF Inv, ConnInv, ConnsMade
<1>9. /\ \A u \in Tasks : pcon[u] # c
      /\ \A g \in Holders : con[g] # c
  <2>1. \A n \in Nat : n <= opened => n # c
    BY <1>4
  <2>2. \A u \in Tasks : pcon[u] = None \/ pcon[u] \in Nat
    BY <1>1, Bound DEF Typed
  <2>3. \A g \in Holders : con[g] = None \/ con[g] \in Nat
    BY <1>1, Bound DEF Typed
  <2>4. None # c
    BY <1>1, <1>4, Bound
  <2>5. QED
    BY <2>1, <2>2, <2>3, <2>4 DEF Inv, ConnInv, ConnsMade
<1>10. OwnsOrLost'
  <2>1. Owns(t)'
    BY <1>1, <1>5 DEF Owns, Typed
  <2>2. ASSUME NEW u \in Tasks, u # t, pc[u] \in Working
        PROVE  Owns(u)' \/ Lost(u)'
    <3>1. hold[u] \in Holders /\ pcon[u] \in Conns /\ (Owns(u) \/ Lost(u))
      BY <1>1, <2>2, Bound DEF Inv, ConnInv, OwnsOrLost
    <3>2. ASSUME Owns(u)  PROVE Owns(u)'
      <4>1. hold[u] # h
        BY <1>1, <1>6, <3>2, Bound DEF Owns
      <4>2. QED
        BY <1>1, <1>5, <2>2, <3>1, <3>2, <4>1 DEF Owns, Typed
    <3>3. ASSUME Lost(u)  PROVE Lost(u)'
      <4>1. cstate'[pcon'[u]] \in {"closing", "closed"}
        BY <1>1, <1>5, <1>9, <2>2, <3>1, <3>3 DEF Lost, Typed
      <4>2. \A g \in Holders : con'[g] # pcon'[u]
        BY <1>1, <1>5, <1>9, <2>2, <3>3 DEF Lost, Typed
      <4>3. Ready(u)' => con'[hold'[u]] = None
        <5>1. Ready(u)' => Ready(u)
          BY <1>5, <2>2 DEF Ready
        <5>2. Ready(u) => hold[u] # h
          BY <1>7, <2>2
        <5>3. QED
          BY <1>1, <1>5, <2>2, <3>1, <3>3, <5>1, <5>2 DEF Lost, Typed
      <4>4. QED
        BY <4>1, <4>2, <4>3 DEF Lost
    <3>4. QED
      BY <3>1, <3>2, <3>3
  <2>3. QED
    BY <1>5, <2>1, <2>2 DEF OwnsOrLost
<1>11. ConnsMade'
  <2>1. \A d \in Conns : d > c => d > opened /\ d # c
    BY <1>1, <1>4, Bound
  <2>2. \A d \in Conns : d > opened /\ d # c => d > c
    BY <1>1, <1>3, <1>4, Bound
  <2>3. \A d \in Conns : d # c => wire'[d] = wire[d] /\ cstate'[d] = cstate[d]
    BY <1>1, <1>5 DEF Typed
  <2>4. cstate'[c] = "open" /\ ~(c > c) /\ c <= c
    BY <1>1, <1>4, <1>5 DEF Typed
  <2>5. \A d \in Conns : d > opened' => wire'[d] = {} /\ inbox'[d] = <<>>
    BY <1>5, <2>1, <2>3 DEF Inv, ConnInv, ConnsMade
  <2>6. \A d \in Conns : d > opened' <=> cstate'[d] = "unused"
    BY <1>5, <2>1, <2>2, <2>3, <2>4 DEF Inv, ConnInv, ConnsMade
  <2>7. \A n \in Nat : n <= opened => n <= c
    BY <1>4
  <2>8. \A g \in Holders : con'[g] = IF g = h THEN c ELSE con[g]
    BY <1>1, <1>5 DEF Typed
  <2>9. \A g \in Holders : con'[g] # None => con'[g] <= opened'
    <3>1. \A g \in Holders : con[g] # None => con[g] \in Nat
      BY <1>1, Bound DEF Typed
    <3>2. QED
      BY <1>5, <2>4, <2>7, <2>8, <3>1 DEF Inv, ConnInv, ConnsMade
  <2>10. \A u \in Tasks : pcon'[u] # None => pcon'[u] <= opened'
    <3>1. \A u \in Tasks : pcon[u] # None => pcon[u] \in Nat
      BY <1>1, Bound DEF Typed
    <3>2. QED
      BY <1>5, <2>4, <2>7, <3>1 DEF Inv, ConnInv, ConnsMade
  <2>11. \A g, f \in Holders : con'[g] # None /\ con'[g] = con'[f] => g = f
    BY <1>9, <2>8 DEF Inv, ConnInv, ConnsMade
  <2>12. \A d \in Conns : cstate'[d] = "open" => \E g \in Holders : con'[g] = d
    <3>1. \A d \in Conns : cstate[d] = "open" => \E g \in Holders : g # h /\ con[g] = d
      BY <1>1, <1>6, Bound DEF Inv, ConnInv, ConnsMade
    <3>2. QED
      BY <2>3, <2>8, <3>1
  <2>13. QED
    BY <2>5, <2>6, <2>9, <2>10, <2>11, <2>12 DEF ConnsMade
<1>12. ConnExclusive'
  BY <1>5, <1>9 DEF Inv, ConnInv, ConnExclusive
<1>13. TrafficOwn'
  <2>1. TrafficOf(t)'
    <3>1. wire'[c] = {t} /\ inbox'[c] = <<>>
      BY <1>1, <1>4, <1>5, <1>8 DEF Typed
    <3>2. QED
      BY <1>5, <3>1 DEF TrafficOf, Carries
  <2>2. ASSUME NEW u \in Tasks, u # t  PROVE TrafficOf(u)'
    <3>1. pc[u] \in Working => pcon[u] \in Conns /\ wire'[pcon[u]] = wire[pcon[u]]
      BY <1>1, <1>5, <1>9, Bound DEF Typed
    <3>2. QED
      BY <1>5, <2>2, <3>1, TrafficKept
  <2>3. QED
    BY <2>1, <2>2 DEF TrafficOwn
<1>14. IdleConnClean'
  <2>1. \A g \in Holders : Queued(g)' => Queued(g) /\ con'[g] = con[g]
    BY <1>1, <1>5, <1>6 DEF Queued, Typed
  <2>2. \A d \in Conns : d # c => wire'[d] = wire[d] /\ cstate'[d] = cstate[d]
    BY <1>1, <1>5 DEF Typed
  <2>3. \A g \in Holders : con[g] # None => con[g] \in Conns
    BY <1>1 DEF Typed
  <2>4. QED
    BY <1>5, <1>9, <2>1, <2>2, <2>3 DEF Inv, ConnInv, IdleConnClean, IsOpen
<1>15. ClosedOwned'
  <2> SUFFICES ASSUME closed
               PROVE  /\ \A u \in Tasks : pc'[u] = "releasing" => ~Owns(u)'
                      /\ \A d \in Conns : cstate'[d] = "open" =>
                           \E u \in Tasks : /\ pc'[u] \in {"sending", "receiving"}
                                            /\ Owns(u)' /\ pcon'[u] = d
    BY <1>5 DEF ClosedOwned
  <2>1. ASSUME NEW u \in Tasks, pc'[u] = "releasing"  PROVE ~Owns(u)'
    <3>1. u # t /\ pc[u] = "releasing" /\ hold[u] \in Holders /\ ~Owns(u)
      BY <1>1, <1>5, <2>1, Bound DEF Inv, ConnInv, ClosedOwned, Working
    <3>2. QED
      BY <1>1, <1>5, <3>1 DEF Owns, Typed
  <2>2. ASSUME NEW d \in Conns, cstate'[d] = "open"
        PROVE  \E u \in Tasks : /\ pc'[u] \in {"sending", "receiving"}
                                /\ Owns(u)' /\ pcon'[u] = d
    <3>1. CASE d = c
      BY <1>1, <1>5, <3>1 DEF Owns, Typed
    <3>2. CASE d # c
      <4>1. cstate[d] = "open"
        BY <1>1, <1>5, <2>2, <3>2 DEF Typed
      <4>2. PICK u \in Tasks : /\ pc[u] \in {"sending", "receiving"}
                               /\ Owns(u) /\ pcon[u] = d
        BY <4>1 DEF Inv, ConnInv, ClosedOwned
      <4>3. u # t /\ hold[u] \in Holders /\ hold[u] # h
        BY <1>1, <1>6, <4>2, Bound DEF Working, Owns
      <4>4. QED
        BY <1>1, <1>5, <4>2, <4>3 DEF Owns, Typed
    <3>3. QED
      BY <3>1, <3>2
  <2>3. QED
    BY <2>1, <2>2
<1>16. QED
  BY <1>10, <1>11, <1>12, <1>13, <1>14, <1>15 DEF ConnInv

LEMMA InnerReleaseConns ==
    ASSUME Inv, IInv', NEW t \in Tasks, InnerRelease(t)
    PROVE  ConnInv'
<1>1. IInv /\ Typed /\ pc[t] = "releasing"
  BY DEF Inv, IInv, InnerRelease
<1>2. PICK h \in Holders : h = hold[t]
  BY <1>1 DEF Typed, LocalsBound, Using
<1>3. /\ UNCHANGED <<con, closed, hold, pcon, got, cstate, opened, wire, inbox>>
      /\ pc'[t] \in {"released", "releaseError"}
      /\ \A u \in Tasks : u # t => pc'[u] = pc[u]
  BY <1>1 DEF InnerRelease, netVars, Typed
<1>4. \/ UNCHANGED <<inUse, queue>>
      \/ /\ Owns(t) /\ con[h] \in Conns
         /\ inUse' = [inUse EXCEPT ![h] = None]
         /\ Range(queue') \subseteq Range(queue) \cup {h}
  <2>1. CASE Owns(t)
    <3>1. UNCHANGED <<inUse, queue>> \/ ReleaseHolder(h)
      BY <1>2 DEF InnerRelease
    <3>2. con[h] \in Conns
      BY <1>1, <1>2, <2>1, Bound DEF Owns, Working
    <3>3. QED
      BY <1>1, <2>1, <3>1, <3>2, ReleaseHolderFacts
  <2>2. CASE Lost(t)
    <3>1. con[h] = None
      BY <1>1, <1>2, <2>2 DEF Lost, Ready
    <3>2. inUse[h] = None
      BY <1>1, <3>1 DEF IInv, HolderAccounted
    <3>3. QED
      BY <1>2, <3>2 DEF InnerRelease
  <2>3. QED
    BY <1>1, <2>1, <2>2 DEF Inv, ConnInv, OwnsOrLost, Working
<1>5. \A u \in Tasks : pc'[u] \in Working => u # t /\ pc[u] \in Working /\ pc[u] = pc'[u]
  BY <1>3 DEF Working
<1>6. \A u \in Tasks : pc'[u] \in Working /\ Owns(u) => Owns(u)'
  <2> SUFFICES ASSUME NEW u \in Tasks, pc'[u] \in Working, Owns(u)
               PROVE  Owns(u)'
    OBVIOUS
  <2>1. u # t /\ hold[u] \in Holders
    BY <1>1, <1>5, Bound
  <2>2. inUse' = inUse \/ (inUse' = [inUse EXCEPT ![h] = None] /\ inUse[h] = t)
    BY <1>2, <1>4 DEF Owns
  <2>3. inUse'[hold[u]] = inUse[hold[u]]
    BY <1>1, <2>1, <2>2 DEF Owns, Typed
  <2>4. QED
    BY <1>3, <2>3 DEF Owns
<1>7. OwnsOrLost'
  <2>1. \A u \in Tasks : pc'[u] \in Working /\ Lost(u) => Lost(u)'
    BY <1>3, <1>5 DEF Lost, Ready
  <2>2. QED
    BY <1>5, <1>6, <2>1 DEF Inv, ConnInv, OwnsOrLost
<1>8. ConnsMade'
  BY <1>3 DEF Inv, ConnInv, ConnsMade
<1>9. ConnExclusive'
  BY <1>3, <1>5 DEF Inv, ConnInv, ConnExclusive, Working
<1>10. TrafficOwn'
  <2>1. \A u \in Tasks : TrafficOf(u)'
    BY <1>1, <1>3, <1>5, TrafficKept
  <2>2. QED
    BY <2>1 DEF TrafficOwn
<1>11. IdleConnClean'
  <2> SUFFICES ASSUME NEW g \in Holders, Queued(g)', IsOpen(g)
               PROVE  wire[con[g]] = {} /\ inbox[con[g]] = <<>>
    BY <1>3 DEF IdleConnClean, IsOpen
  <2>1. CASE Queued(g)
    BY <2>1 DEF Inv, ConnInv, IdleConnClean
  <2>2. CASE ~Queued(g)
    <3>1. g = h /\ Owns(t)
      BY <1>4, <2>2 DEF Queued
    <3>2. con[g] = pcon[t]
      BY <1>2, <3>1 DEF Owns
    <3>3. QED
      BY <1>1, <3>2 DEF Inv, ConnInv, TrafficOwn, TrafficOf
  <2>3. QED
    BY <2>1, <2>2
<1>12. ClosedOwned'
  <2> SUFFICES ASSUME closed  PROVE ClosedOwned'
    BY <1>3 DEF ClosedOwned
  <2>1. \A u \in Tasks : pc[u] \in {"sending", "receiving"} =>
           pc'[u] = pc[u] /\ pc'[u] \in Working
    BY <1>1, <1>3 DEF Working
  <2>2. ~Owns(t)
    BY <1>1 DEF Inv, ConnInv, ClosedOwned
  <2>3. \A u \in Tasks : Owns(u)' <=> Owns(u)
    BY <1>3, <1>4, <2>2 DEF Owns
  <2>4. QED
    BY <1>3, <1>5, <2>1, <2>3 DEF Inv, ConnInv, ClosedOwned, Working
<1>13. QED
  BY <1>7, <1>8, <1>9, <1>10, <1>11, <1>12 DEF ConnInv

\* The message that recv returns was sent to the coroutine that gets it.
LEMMA RecvConns ==
    ASSUME Inv, IInv', NEW t \in Tasks, Recv(t)
    PROVE  ConnInv'
<1>1. IInv /\ Typed /\ pc[t] = "receiving" /\ inbox[pcon[t]] # <<>>
  BY DEF Inv, IInv, Recv
<1>2. PICK c \in Conns : c = pcon[t]
  BY <1>1 DEF Typed, LocalsBound, Using
<1>3. wire[c] = {} /\ \E m \in Message : m.req = t /\ inbox[c] = <<m>>
  BY <1>1, <1>2 DEF Inv, ConnInv, TrafficOwn, TrafficOf, Carries
<1>4. PICK m \in Message : m.req = t /\ inbox[c] = <<m>>
  BY <1>3
<1>5. Head(<<m>>) = m /\ Tail(<<m>>) = <<>>
  OBVIOUS
<1>6. inbox' = [inbox EXCEPT ![c] = <<>>]
  BY <1>2, <1>4, <1>5 DEF Recv
<1>7. \A d \in Conns : inbox'[d] = IF d = c THEN <<>> ELSE inbox[d]
  BY <1>1, <1>6 DEF Typed
<1>8. CASE TerminateAndFail(t)
  BY <1>1, <1>2, <1>7, <1>8, TerminateAndFailConns DEF Using
<1>9. CASE /\ ~closed /\ got' = [got EXCEPT ![t] = m]
           /\ pc' = [pc EXCEPT ![t] = "releasing"]
           /\ UNCHANGED <<poolVars, hold, pcon, cstate, opened, wire>>
  <2>1. UNCHANGED <<queue, con, inUse, closed>>
    BY <1>9 DEF poolVars
  <2>2. /\ pc'[t] = "releasing" /\ got'[t] = m
        /\ \A u \in Tasks : u # t => pc'[u] = pc[u] /\ got'[u] = got[u]
    BY <1>1, <1>9 DEF Typed
  <2>3. \A u \in Tasks : pc'[u] \in Working => pc[u] \in Working
    BY <1>1, <2>2 DEF Working
  <2>4. OwnsOrLost'
    <3> SUFFICES ASSUME NEW u \in Tasks, pc'[u] \in Working
                 PROVE  Owns(u)' \/ Lost(u)'
      BY DEF OwnsOrLost
    <3>1. Ready(u)' => Ready(u)
      <4>1. CASE u = t
        BY <1>1, <4>1 DEF Ready
      <4>2. CASE u # t
        <5>1. pcon[u] \in Conns
          BY <1>1, <2>3, Bound
        <5>2. QED
          BY <1>7, <1>9, <2>2, <4>2, <5>1 DEF Ready
      <4>3. QED
        BY <4>1, <4>2
    <3>2. Owns(u) \/ Lost(u)
      BY <2>3 DEF Inv, ConnInv, OwnsOrLost
    <3>3. QED
      BY <1>9, <2>1, <3>1, <3>2 DEF Owns, Lost
  <2>5. ConnsMade'
    BY <1>7, <1>9, <2>1 DEF Inv, ConnInv, ConnsMade
  <2>6. ConnExclusive'
    BY <1>1, <1>9, <2>2 DEF Inv, ConnInv, ConnExclusive
  <2>7. TrafficOwn'
    <3>1. TrafficOf(t)'
      BY <1>2, <1>3, <1>4, <1>7, <1>9, <2>2 DEF TrafficOf
    <3>2. ASSUME NEW u \in Tasks, u # t  PROVE TrafficOf(u)'
      <4>1. pc[u] \in Working => pcon[u] # c /\ pcon[u] \in Conns
        BY <1>1, <1>2, <3>2, Bound DEF Inv, ConnInv, ConnExclusive, Working
      <4>2. QED
        BY <1>7, <1>9, <2>2, <3>2, <4>1, TrafficKept
    <3>3. QED
      BY <3>1, <3>2 DEF TrafficOwn
  <2>8. IdleConnClean'
    <3>1. \A g \in Holders : con[g] # None => con[g] \in Conns
      BY <1>1 DEF Typed
    <3>2. QED
      BY <1>7, <1>9, <2>1, <3>1 DEF Inv, ConnInv, IdleConnClean, IsOpen, Queued
  <2>9. ClosedOwned'
    BY <1>9, <2>1 DEF ClosedOwned
  <2>10. QED
    BY <2>4, <2>5, <2>6, <2>7, <2>8, <2>9 DEF ConnInv
<1>10. QED
  BY <1>2, <1>4, <1>5, <1>8, <1>9 DEF Recv

-----------------------------------------------------------------------------
\* The shutdown and the network.

LEMMA PoolTerminateConns ==
    ASSUME Inv, IInv', PoolTerminate
    PROVE  ConnInv'
<1>1. IInv /\ Typed
  BY DEF Inv, IInv
<1>2. /\ UNCHANGED <<pc, hold, pcon, got, opened, inbox>>
      /\ \A h \in Holders : con'[h] = None
  BY DEF PoolTerminate, taskVars
<1>3. \A c \in Conns :
        /\ cstate'[c] = IF cstate[c] = "open" THEN "closing" ELSE cstate[c]
        /\ wire'[c] \in {wire[c], {}}
  <2>1. PICK S : /\ S = {con[h] : h \in {g \in Holders : con[g] # None}}
                 /\ FailConnections(S)
    BY DEF PoolTerminate
  <2>2. \A c \in Conns : cstate[c] = "open" => c \in S
    BY <1>1, <2>1, Bound DEF Inv, ConnInv, ConnsMade
  <2>3. QED
    BY <2>1, <2>2 DEF FailConnections
<1>4. \A u \in Tasks : pc[u] \in Working =>
        hold[u] \in Holders /\ pcon[u] \in Conns /\ pcon[u] # None
  BY <1>1, Bound
<1>5. OwnsOrLost'
  <2> SUFFICES ASSUME NEW u \in Tasks, pc[u] \in Working  PROVE Lost(u)'
    BY <1>2 DEF OwnsOrLost
  <2>1. cstate[pcon[u]] \in {"open", "closing", "closed"}
    <3>1. CASE Lost(u)
      BY <3>1 DEF Lost
    <3>2. CASE Owns(u)
      <4>1. pcon[u] <= opened /\ pcon[u] \in Nat /\ opened \in Nat
        BY <1>1, <1>4, Bound DEF Inv, ConnInv, ConnsMade
      <4>2. ~(pcon[u] > opened)
        BY <4>1
      <4>3. QED
        BY <1>1, <1>4, <4>2 DEF Inv, ConnInv, ConnsMade, Typed
    <3>3. QED
      BY <3>1, <3>2 DEF Inv, ConnInv, OwnsOrLost
  <2>2. cstate'[pcon[u]] \in {"closing", "closed"}
    BY <1>3, <1>4, <2>1
  <2>3. QED
    BY <1>2, <1>4, <2>2 DEF Lost
<1>6. ConnsMade'
  BY <1>2, <1>3 DEF Inv, ConnInv, ConnsMade
<1>7. ConnExclusive'
  BY <1>2 DEF Inv, ConnInv, ConnExclusive
<1>8. TrafficOwn'
  <2>1. \A u \in Tasks : TrafficOf(u)'
    BY <1>2, <1>3, <1>4, TrafficKept DEF Working
  <2>2. QED
    BY <2>1 DEF TrafficOwn
<1>9. IdleConnClean'
  BY <1>2 DEF IdleConnClean, IsOpen
<1>10. ClosedOwned'
  <2>1. \A u \in Tasks : pc'[u] = "releasing" => ~Owns(u)'
    BY <1>2, <1>4 DEF Owns, Working
  <2>2. \A c \in Conns : cstate'[c] # "open"
    BY <1>3
  <2>3. QED
    BY <2>1, <2>2 DEF ClosedOwned
<1>11. QED
  BY <1>5, <1>6, <1>7, <1>8, <1>9, <1>10 DEF ConnInv

\* An answer reaches the inbox of the connection its request went out on.
LEMMA AnswerConns ==
    ASSUME Inv, IInv', NEW c0 \in Conns, Answer(c0)
    PROVE  ConnInv'
<1>1. IInv /\ Typed /\ cstate[c0] = "open"
  BY DEF Inv, IInv, Answer
<1>2. PICK t0 \in wire[c0], k \in {"answer"} \cup (Faults \cap Kinds) :
         /\ wire' = [wire EXCEPT ![c0] = @ \ {t0}]
         /\ inbox' = [inbox EXCEPT ![c0] = Append(@, [req |-> t0, kind |-> k])]
  BY DEF Answer
<1>3. UNCHANGED <<queue, con, inUse, closed, pc, hold, pcon, got, cstate, opened>>
  BY DEF Answer, poolVars, taskVars
<1>4. \A c \in Conns \ {c0} : wire'[c] = wire[c] /\ inbox'[c] = inbox[c]
  BY <1>1, <1>2 DEF Typed
<1>5. \A u \in Tasks : pc[u] \in Working => pcon[u] \in Conns
  BY <1>1, Bound
<1>6. OwnsOrLost'
  <2> SUFFICES ASSUME NEW u \in Tasks, pc[u] \in Working
               PROVE  Owns(u)' \/ Lost(u)'
    BY <1>3 DEF OwnsOrLost
  <2>1. CASE Owns(u)
    BY <1>3, <2>1 DEF Owns
  <2>2. CASE Lost(u)
    <3>1. pcon[u] # c0
      BY <1>1, <2>2 DEF Lost
    <3>2. Ready(u)' => Ready(u)
      BY <1>3, <1>4, <1>5, <3>1 DEF Ready
    <3>3. QED
      BY <1>3, <2>2, <3>2 DEF Lost
  <2>3. QED
    BY <2>1, <2>2 DEF Inv, ConnInv, OwnsOrLost
<1>7. ConnsMade'
  <2>1. ~(c0 > opened)
    BY <1>2 DEF Inv, ConnInv, ConnsMade
  <2>2. QED
    BY <1>3, <1>4, <2>1 DEF Inv, ConnInv, ConnsMade
<1>8. ConnExclusive'
  BY <1>3 DEF Inv, ConnInv, ConnExclusive
<1>9. TrafficOwn'
  <2> SUFFICES ASSUME NEW u \in Tasks  PROVE TrafficOf(u)'
    BY DEF TrafficOwn
  <2>1. TrafficOf(u)
    BY DEF Inv, ConnInv, TrafficOwn
  <2>2. CASE pc[u] \in Working /\ pcon[u] = c0
    <3>1. pc[u] \in {"sending", "receiving"} /\ Carries(c0, u)
      BY <1>2, <2>1, <2>2 DEF TrafficOf, Working
    <3>2. t0 = u /\ wire[c0] \subseteq {u} /\ inbox[c0] = <<>>
      BY <1>2, <3>1 DEF Carries
    <3>3. PICK m : m = [req |-> u, kind |-> k]
      OBVIOUS
    <3>4. m \in Message /\ m.req = u
      BY <3>3 DEF Message, Kinds
    <3>5. Append(<<>>, m) = <<m>>
      OBVIOUS
    <3>6. wire'[c0] = {} /\ inbox'[c0] = <<m>>
      BY <1>1, <1>2, <3>2, <3>3, <3>5 DEF Typed
    <3>7. Carries(c0, u)'
      BY <3>4, <3>6 DEF Carries
    <3>8. QED
      BY <1>3, <2>2, <3>1, <3>7 DEF TrafficOf
  <2>3. CASE ~(pc[u] \in Working /\ pcon[u] = c0)
    BY <1>3, <1>4, <1>5, <2>3, TrafficKept
  <2>4. QED
    BY <2>2, <2>3
<1>10. IdleConnClean'
  <2> SUFFICES ASSUME NEW g \in Holders, Queued(g), IsOpen(g)
               PROVE  wire'[con[g]] = {} /\ inbox'[con[g]] = <<>>
    BY <1>3 DEF IdleConnClean, IsOpen, Queued
  <2>1. wire[con[g]] = {} /\ inbox[con[g]] = <<>> /\ con[g] \in Conns
    BY <1>1 DEF Inv, ConnInv, IdleConnClean, IsOpen, Typed
  <2>2. con[g] # c0
    BY <1>2, <2>1
  <2>3. QED
    BY <1>4, <2>1, <2>2
<1>11. ClosedOwned'
  BY <1>3 DEF Inv, ConnInv, ClosedOwned, Owns
<1>12. QED
  BY <1>6, <1>7, <1>8, <1>9, <1>10, <1>11 DEF ConnInv

\* A connection fails or is torn down; its holder notices when it is used.
LEMMA DropConns ==
    ASSUME Inv, IInv',
           UNCHANGED <<queue, con, inUse, closed, pc, hold, pcon, got, opened, inbox>>,
           \A c \in Conns :
              /\ \/ cstate'[c] = cstate[c]
                 \/ /\ cstate[c] \in {"open", "closing"}
                    /\ cstate'[c] \in {"closing", "closed"}
              /\ wire'[c] \in {wire[c], {}}
    PROVE  ConnInv'
<1>1. Typed
  BY DEF Inv, IInv
<1>2. \A u \in Tasks : pc[u] \in Working => pcon[u] \in Conns
  BY Bound DEF Inv
<1>3. OwnsOrLost'
  <2> SUFFICES ASSUME NEW u \in Tasks, pc[u] \in Working
               PROVE  Owns(u)' \/ Lost(u)'
    BY DEF OwnsOrLost
  <2>1. CASE Owns(u)
    BY <2>1 DEF Owns
  <2>2. CASE Lost(u)
    <3>1. cstate'[pcon[u]] \in {"closing", "closed"}
      BY <1>2, <2>2 DEF Lost
    <3>2. QED
      BY <2>2, <3>1 DEF Lost, Ready
  <2>3. QED
    BY <2>1, <2>2 DEF Inv, ConnInv, OwnsOrLost
<1>4. ConnsMade'
  BY DEF Inv, ConnInv, ConnsMade
<1>5. ConnExclusive'
  BY DEF Inv, ConnInv, ConnExclusive
<1>6. TrafficOwn'
  <2>1. \A u \in Tasks : TrafficOf(u)'
    BY <1>2, TrafficKept DEF Working
  <2>2. QED
    BY <2>1 DEF TrafficOwn
<1>7. IdleConnClean'
  <2> SUFFICES ASSUME NEW g \in Holders, Queued(g), IsOpen(g)'
               PROVE  wire'[con[g]] = {} /\ inbox[con[g]] = <<>>
    BY DEF IdleConnClean, IsOpen, Queued
  <2>1. con[g] \in Conns /\ cstate[con[g]] = "open"
    BY <1>1 DEF IsOpen, Typed
  <2>2. QED
    BY <2>1 DEF Inv, ConnInv, IdleConnClean, IsOpen
<1>8. ClosedOwned'
  <2>1. \A c \in Conns : cstate'[c] = "open" => cstate[c] = "open"
    OBVIOUS
  <2>2. QED
    BY <2>1 DEF Inv, ConnInv, ClosedOwned, Owns
<1>9. QED
  BY <1>3, <1>4, <1>5, <1>6, <1>7, <1>8 DEF ConnInv

-----------------------------------------------------------------------------
\* The invariant holds initially and is kept by every step.

LEMMA InitInv == Init => Inv
<1> SUFFICES ASSUME Init  PROVE Inv
  OBVIOUS
<1>1. IInv /\ Typed
  BY InitIInv DEF IInv
<1>2. /\ \A t \in Tasks : pc[t] = "idle" /\ pcon[t] = None
      /\ \A c \in Conns : wire[c] = {} /\ inbox[c] = <<>>
      /\ closed = FALSE
  BY DEF Init
<1>3. opened \in Nat /\ opened <= MaxSize
      /\ opened = (IF MinSize > 1 THEN MinSize ELSE 0)
  BY SizeAssumption DEF Init
<1>4. \A h \in Holders :
         con[h] = IF Preconnected(h) THEN MaxSize - h + 1 ELSE None
  BY DEF Init
<1>5. None \notin Nat
  BY TasksAssumption
<1>6. ConnsMade
  <2>1. \A c \in Conns : c > opened <=> cstate[c] = "unused"
    <3>1. \A c \in Conns : c \in Nat /\ (c > opened <=> ~(c <= opened))
      BY <1>3 DEF Conns
    <3>2. QED
      BY <3>1 DEF Init
  <2>2. ASSUME NEW h \in Holders, con[h] # None  PROVE con[h] <= opened
    <3>1. h \in Nat /\ h > MaxSize - MinSize /\ MinSize > 1
      BY <1>4, <2>2, SizeAssumption DEF Preconnected, Holders
    <3>2. QED
      BY <1>3, <1>4, <3>1, SizeAssumption DEF Preconnected
  <2>3. ASSUME NEW h \in Holders, NEW g \in Holders, con[h] # None, con[h] = con[g]
        PROVE  h = g
    <3>1. h \in Nat /\ g \in Nat /\ MaxSize \in Nat
      BY SizeAssumption DEF Holders
    <3>2. con[h] = MaxSize - h + 1 /\ con[g] = MaxSize - g + 1
      BY <1>4, <2>3
    <3>3. MaxSize - h + 1 = MaxSize - g + 1
      BY <2>3, <3>2
    <3>4. QED
      BY <3>1, <3>3
  <2>4. ASSUME NEW c \in Conns, cstate[c] = "open"
        PROVE  \E h \in Holders : con[h] = c
    <3>1. c \in Nat /\ 1 <= c /\ c <= opened
      BY <2>4 DEF Init, Conns
    <3>2. opened = MinSize /\ MinSize > 1
      BY <1>3, <3>1
    <3>3. PICK h : h = MaxSize - c + 1
      OBVIOUS
    <3>4. h \in Holders /\ h > MaxSize - MinSize /\ MaxSize - h + 1 = c
      BY <1>3, <3>1, <3>2, <3>3, SizeAssumption DEF Holders
    <3>5. QED
      BY <1>4, <3>2, <3>4 DEF Preconnected
  <2>5. QED
    BY <1>2, <2>1, <2>2, <2>3, <2>4 DEF ConnsMade
<1>7. OwnsOrLost /\ ConnExclusive /\ TrafficOwn
  BY <1>2 DEF OwnsOrLost, ConnExclusive, TrafficOwn, TrafficOf, Working
<1>8. IdleConnClean /\ ClosedOwned
  BY <1>1, <1>2 DEF IdleConnClean, ClosedOwned, IsOpen, Typed
<1>9. QED
  BY <1>1, <1>6, <1>7, <1>8 DEF Inv, ConnInv

LEMMA NextKeepsInv == Inv /\ [Next]_vars => Inv'
<1> SUFFICES ASSUME Inv, [Next]_vars  PROVE ConnInv'
  BY NextKeepsIInv DEF Inv
<1>0. IInv /\ Typed /\ IInv'
  BY NextKeepsIInv DEF Inv, IInv
<1>1. ASSUME NEW t \in Tasks, Start(t)  PROVE ConnInv'
  BY <1>0, <1>1, Quiet DEF Start, poolVars, netVars, Working, Queued, Typed
<1>2. ASSUME NEW t \in Tasks, Get(t)  PROVE ConnInv'
  BY <1>0, <1>2, GetConns
<1>3. ASSUME NEW t \in Tasks, Connected(t)  PROVE ConnInv'
  BY <1>0, <1>3, ConnectedConns
<1>4. ASSUME NEW t \in Tasks, AcquireFails(t)  PROVE ConnInv'
  <2>1. PICK h \in Holders : h = hold[t] /\ Connecting(t, h)
    BY <1>0, <1>4 DEF AcquireFails, Connecting, Typed, LocalsBound
  <2>2. con[h] = None /\ h \notin Range(queue)
    BY <1>0, <2>1 DEF IInv, HolderAccounted, Queued
  <2>3. Range(queue') = Range(queue) \cup {h}
    BY <1>0, <1>4, <2>1, <2>2, PutFacts DEF AcquireFails, IInv, Typed, HolderAccounted
  <2>4. \A g \in Holders : Queued(g)' => Queued(g) \/ con[g] = None
    BY <2>2, <2>3 DEF Queued
  <2>5. QED
    BY <1>0, <1>4, <2>4, Quiet DEF AcquireFails, End, netVars, Working, Typed
<1>5. ASSUME NEW t \in Tasks, SendDone(t)  PROVE ConnInv'
  BY <1>0, <1>5, Quiet DEF SendDone, poolVars, netVars, Queued, Typed
<1>6. ASSUME NEW t \in Tasks, ClosedRaised(t)  PROVE ConnInv'
  <2>1. pc[t] \in Using /\ TerminateAndFail(t) /\ inbox' = inbox
    BY <1>6 DEF ClosedRaised, Using
  <2>2. QED
    BY <1>0, <2>1, TerminateAndFailConns
<1>7. ASSUME NEW t \in Tasks, Recv(t)  PROVE ConnInv'
  BY <1>0, <1>7, RecvConns
<1>8. ASSUME NEW t \in Tasks, InnerRelease(t)  PROVE ConnInv'
  BY <1>0, <1>8, InnerReleaseConns
<1>9. ASSUME NEW t \in Tasks, Finish(t)  PROVE ConnInv'
  BY <1>0, <1>9, Quiet
     DEF Finish, End, poolVars, netVars, Working, Queued, Typed
<1>10. ASSUME NEW t \in Tasks, Reject(t)  PROVE ConnInv'
  <2>1. pc[t] \in Using /\ TerminateAndFail(t) /\ inbox' = inbox
    BY <1>10 DEF Reject, Using
  <2>2. QED
    BY <1>0, <2>1, TerminateAndFailConns
<1>11. ASSUME NEW t \in Tasks, CancelGetting(t)  PROVE ConnInv'
  BY <1>0, <1>11, Quiet
     DEF CancelGetting, End, poolVars, netVars, Working, Queued, Typed
<1>12. ASSUME NEW t \in Tasks, CancelUsing(t)  PROVE ConnInv'
  <2>1. pc[t] \in Using /\ TerminateAndFail(t) /\ inbox' = inbox
    BY <1>12 DEF CancelUsing, Using
  <2>2. QED
    BY <1>0, <2>1, TerminateAndFailConns
<1>13. ASSUME NEW c \in Conns, Answer(c)  PROVE ConnInv'
  BY <1>0, <1>13, AnswerConns
<1>14. ASSUME NEW c \in Conns, UpstreamClose(c)  PROVE ConnInv'
  <2>1. UNCHANGED <<queue, con, inUse, closed, pc, hold, pcon, got, opened, inbox>>
    BY <1>14 DEF UpstreamClose, poolVars, taskVars
  <2>2. \A d \in Conns :
          /\ \/ cstate'[d] = cstate[d]
             \/ /\ cstate[d] \in {"open", "closing"}
                /\ cstate'[d] \in {"closing", "closed"}
          /\ wire'[d] \in {wire[d], {}}
    BY <1>14 DEF UpstreamClose, FailConnections
  <2>3. QED
    BY <1>0, <2>1, <2>2, DropConns
<1>15. ASSUME NEW c \in Conns, Teardown(c)  PROVE ConnInv'
  <2>1. UNCHANGED <<queue, con, inUse, closed, pc, hold, pcon, got, opened, inbox>>
    BY <1>15 DEF Teardown, poolVars, taskVars
  <2>2. \A d \in Conns :
          /\ \/ cstate'[d] = cstate[d]
             \/ /\ cstate[d] \in {"open", "closing"}
                /\ cstate'[d] \in {"closing", "closed"}
          /\ wire'[d] \in {wire[d], {}}
    BY <1>0, <1>15 DEF Teardown, Typed
  <2>3. QED
    BY <1>0, <2>1, <2>2, DropConns
<1>16. CASE PoolTerminate
  BY <1>0, <1>16, PoolTerminateConns
<1>17. CASE UNCHANGED vars
  <2>1. UNCHANGED <<queue, con, inUse, closed, pc, hold, pcon, got, opened, inbox>>
        /\ UNCHANGED <<cstate, wire>>
    BY <1>17 DEF vars, poolVars, taskVars, netVars
  <2>2. QED
    BY <1>0, <2>1, DropConns
<1>18. QED
  BY <1>1, <1>2, <1>3, <1>4, <1>5, <1>6, <1>7, <1>8, <1>9, <1>10, <1>11,
     <1>12, <1>13, <1>14, <1>15, <1>16, <1>17 DEF Next, TaskStep, NetStep

\* Every coroutine owns its holder or has lost its connection for good, and
\* every connection carries only what its one user waits for (fetch_ws in
\* handlers.py over the pool of ws/pool.py).
THEOREM AlwaysInv == Spec => []Inv
<1>1. QED
  BY InitInv, NextKeepsInv, PTL DEF Spec

\* Two coroutines never use one connection at the same time, although terminate
\* and release also work through a proxy whose time is over (pool.py).
THEOREM ConnectionsExclusive == Spec => []ConnExclusive
<1>1. Inv => ConnExclusive
  BY DEF Inv, ConnInv
<1>2. QED
  BY <1>1, AlwaysInv, PTL

\* A free connection that is still open carries no request and no answer of
\* its last user (the except clause of fetch_ws terminates it, handlers.py).
THEOREM IdleConnectionsClean == Spec => []IdleConnClean
<1>1. Inv => IdleConnClean
  BY DEF Inv, ConnInv
<1>2. QED
  BY <1>1, AlwaysInv, PTL

\* fetch_ws returns the answer to its own request, whatever ids the clients
\* chose: the id assertion is not what keeps the answers apart (handlers.py).
THEOREM AnswersOwn == Spec => []OwnAnswer
<1>1. Inv => OwnAnswer
  BY DEF Inv, ConnInv, TrafficOwn, TrafficOf, OwnAnswer
<1>2. QED
  BY <1>1, AlwaysInv, PTL

\* After Pool.terminate the last coroutine to end leaves no connection open,
\* not even one whose handshake finished later (pool.py).
THEOREM ClosedDrains == Spec => []ClosedPoolDrains
<1>1. Inv => ClosedPoolDrains
  BY DEF Inv, ConnInv, ClosedOwned, ClosedPoolDrains, Terminal
<1>2. QED
  BY <1>1, AlwaysInv, PTL

-----------------------------------------------------------------------------
\* Who has a holder in use: the coroutine that works with it, or one whose
\* release found the connection closed and left the holder as it was.
UserOf(h) ==
    LET t == inUse[h] IN
    t # None =>
        \/ pc[t] \in Working /\ hold[t] = h
        \/ pc[t] = "released" /\ hold[t] = h /\ cstate[con[h]] = "closed"
        \/ pc[t] = "ok" /\ cstate[con[h]] = "closed"

UsersKnown == \A h \in Holders : UserOf(h)

\* A closed connection is never opened again.
LEMMA ClosedForGood ==
    ASSUME Inv, [Next]_vars
    PROVE  \A c \in Conns : cstate[c] = "closed" => cstate'[c] = "closed"
<1>1. Typed /\ IInv
  BY DEF Inv, IInv
<1>2. ASSUME NEW S, FailConnections(S)
      PROVE  \A c \in Conns : cstate[c] = "closed" => cstate'[c] = "closed"
  BY <1>2 DEF FailConnections
<1>3. ASSUME NEW t \in Tasks, TerminateAndFail(t)
      PROVE  \A c \in Conns : cstate[c] = "closed" => cstate'[c] = "closed"
  BY <1>2, <1>3 DEF TerminateAndFail, TerminateHolder
<1>4. ASSUME NEW t \in Tasks, Connected(t)
      PROVE  \A c \in Conns : cstate[c] = "closed" => cstate'[c] = "closed"
  <2>1. opened' \in Nat /\ opened' > opened /\ cstate' = [cstate EXCEPT ![opened'] = "open"]
    BY <1>1, <1>4, Bound DEF Connected
  <2>2. \A c \in Conns : c > opened => cstate[c] # "closed"
    BY DEF Inv, ConnInv, ConnsMade
  <2>3. QED
    BY <1>1, <2>1, <2>2 DEF Typed
<1>5. ASSUME NEW t \in Tasks, TaskStep(t)
      PROVE  \A c \in Conns : cstate[c] = "closed" => cstate'[c] = "closed"
  <2>1. \/ UNCHANGED cstate
        \/ TerminateAndFail(t)
        \/ Connected(t)
    BY <1>5 DEF TaskStep, Start, Get, AcquireFails, SendDone, ClosedRaised, Recv,
       InnerRelease, Finish, Reject, CancelGetting, CancelUsing, netVars
  <2>2. QED
    BY <1>3, <1>4, <2>1
<1>6. ASSUME NEW c \in Conns, NetStep(c)
      PROVE  \A d \in Conns : cstate[d] = "closed" => cstate'[d] = "closed"
  BY <1>1, <1>2, <1>6 DEF NetStep, Answer, UpstreamClose, Teardown, Typed
<1>7. PoolTerminate => \A c \in Conns : cstate[c] = "closed" => cstate'[c] = "closed"
  BY <1>2 DEF PoolTerminate
<1>8. UNCHANGED vars => UNCHANGED cstate
  BY DEF vars, netVars
<1>9. QED
  BY <1>5, <1>6, <1>7, <1>8 DEF Next

\* What pc says of the holders that t has in use.
LEMMA UsersHold ==
    ASSUME Inv, UsersKnown, NEW t \in Tasks, NEW h \in Holders, inUse[h] = t
    PROVE  /\ pc[t] \in Working \cup {"released", "ok"}
           /\ pc[t] \in Using => hold[t] = h
           /\ con[h] \in Conns
           /\ pc[t] \in {"released", "ok"} => cstate[con[h]] = "closed"
<1>1. t # None
  BY TasksAssumption
<1>2. UserOf(h) /\ Typed /\ HolderAccounted
  BY DEF UsersKnown, Inv, IInv
<1>3. con[h] \in Conns
  BY <1>1, <1>2 DEF HolderAccounted, Typed
<1>4. QED
  BY <1>1, <1>2, <1>3 DEF UserOf, Working, Using

\* A step of t leaves the holders of the others alone, or frees them.
LEMMA UsersStep ==
    ASSUME Inv, UsersKnown, [Next]_vars, NEW t \in Tasks,
           \A u \in Tasks : u # t => pc'[u] = pc[u] /\ hold'[u] = hold[u],
           \A h \in Holders : \/ inUse'[h] = None
                              \/ UserOf(h)'
                              \/ /\ inUse'[h] = inUse[h] /\ inUse[h] # t
                                 /\ con'[h] = con[h]
    PROVE  UsersKnown'
<1> SUFFICES ASSUME NEW h \in Holders, inUse'[h] # None,
                    inUse'[h] = inUse[h], inUse[h] # t, con'[h] = con[h]
             PROVE  UserOf(h)'
  BY DEF UsersKnown, UserOf
<1>1. PICK u \in Tasks : u = inUse[h] /\ u # t
  BY DEF Inv, IInv, Typed
<1>2. con[h] \in Conns /\ UserOf(h)
  BY <1>1, UsersHold DEF UsersKnown
<1>3. cstate[con[h]] = "closed" => cstate'[con[h]] = "closed"
  BY <1>2, ClosedForGood
<1>4. QED
  BY <1>1, <1>2, <1>3 DEF UserOf

\* The except clause frees the one holder that t may have in use.
LEMMA UsersTerminate ==
    ASSUME Inv, UsersKnown, [Next]_vars, NEW t \in Tasks, pc[t] \in Using,
           TerminateAndFail(t)
    PROVE  UsersKnown'
<1>1. PICK h \in Holders : h = hold[t]
  BY DEF Inv, IInv, Typed, LocalsBound
<1>2. TerminateHolder(h) /\ IInv /\ Typed
  BY <1>1 DEF TerminateAndFail, Inv, IInv
<1>3. con' = [con EXCEPT ![h] = None] /\ inUse' = [inUse EXCEPT ![h] = None]
  BY <1>2, TerminateHolderFacts
<1>4. \A u \in Tasks : u # t => pc'[u] = pc[u] /\ hold'[u] = hold[u]
  BY <1>2 DEF TerminateAndFail, End, Typed
<1>5. ASSUME NEW g \in Holders
      PROVE  \/ inUse'[g] = None
             \/ /\ inUse'[g] = inUse[g] /\ inUse[g] # t
                /\ con'[g] = con[g]
  <2>1. CASE g = h
    BY <1>2, <1>3, <2>1 DEF Typed
  <2>2. CASE g # h
    <3>1. inUse[g] # t
      BY <1>1, <2>2, UsersHold
    <3>2. QED
      BY <1>2, <1>3, <2>2, <3>1 DEF Typed
  <2>3. QED
    BY <2>1, <2>2
<1>6. QED
  BY <1>4, <1>5, UsersStep

\* A holder that t takes was nobody's.
LEMMA UsersTake ==
    ASSUME Inv, UsersKnown, [Next]_vars, NEW t \in Tasks, Get(t) \/ Connected(t)
    PROVE  UsersKnown'
<1>1. IInv /\ Typed /\ pc[t] \in {"getting", "connecting"}
  BY DEF Inv, IInv, Get, Connected
<1>2. \A g \in Holders : inUse[g] # t
  BY <1>1, UsersHold DEF Working
<1>3. PICK h : h = IF pc[t] = "getting" THEN queue[Len(queue)] ELSE hold[t]
  OBVIOUS
<1>4. h \in Holders /\ inUse[h] = None
  <2>1. CASE Get(t)
    <3>1. h \in Holders /\ Queued(h)
      BY <1>1, <1>3, <2>1, TakeFacts DEF Get, IInv, Typed, HolderAccounted, Queued
    <3>2. QED
      BY <1>1, <3>1 DEF IInv, HolderAccounted
  <2>2. CASE Connected(t)
    <3>1. h \in Holders /\ Connecting(t, h)
      BY <1>1, <1>3, <2>2 DEF Connected, Connecting, Typed, LocalsBound
    <3>2. QED
      BY <1>1, <3>1 DEF IInv, HolderAccounted
  <2>3. QED
    BY <2>1, <2>2
<1>5. /\ \E n \in Conns \cup {None} : con' \in {con, [con EXCEPT ![h] = n]}
      /\ \/ UNCHANGED inUse
         \/ /\ inUse' = [inUse EXCEPT ![h] = t]
            /\ pc'[t] = "sending" /\ hold'[t] = h
      /\ \A u \in Tasks : u # t => pc'[u] = pc[u] /\ hold'[u] = hold[u]
  <2>1. CASE Get(t)
    BY <1>1, <1>3, <2>1 DEF Get, CheckOut, Typed
  <2>2. CASE Connected(t)
    <3>1. opened' \in Conns
      <4>1. opened' = opened + 1 /\ opened \in Nat /\ opened < MaxConns
        BY <1>1, <2>2, Bound DEF Connected
      <4>2. QED
        BY <4>1, SizeAssumption DEF Conns
    <3>2. QED
      BY <1>1, <1>3, <2>2, <3>1 DEF Connected, CheckOut, Typed
  <2>3. QED
    BY <2>1, <2>2
<1>6. ASSUME NEW g \in Holders
      PROVE  \/ inUse'[g] = None
             \/ UserOf(g)'
             \/ /\ inUse'[g] = inUse[g] /\ inUse[g] # t
                /\ con'[g] = con[g]
  <2>1. CASE g # h
    BY <1>1, <1>2, <1>5, <2>1 DEF Typed
  <2>2. CASE g = h /\ UNCHANGED inUse
    BY <1>4, <2>2
  <2>3. CASE g = h /\ inUse' = [inUse EXCEPT ![h] = t] /\ pc'[t] = "sending" /\ hold'[t] = h
    <3>1. inUse'[g] = t
      BY <1>1, <2>3 DEF Typed
    <3>2. QED
      BY <2>3, <3>1 DEF UserOf, Working
  <2>4. QED
    BY <1>5, <2>1, <2>2, <2>3
<1>7. QED
  BY <1>5, <1>6, UsersStep

\* A release that finds the connection closed is the one that leaks.
LEMMA UsersRelease ==
    ASSUME Inv, UsersKnown, [Next]_vars, NEW t \in Tasks, InnerRelease(t)
    PROVE  UsersKnown'
<1>1. IInv /\ Typed /\ pc[t] = "releasing" /\ pc[t] \in Using
  BY DEF Inv, IInv, InnerRelease, Using
<1>2. PICK h \in Holders : h = hold[t]
  BY <1>1 DEF Typed, LocalsBound
<1>3. /\ UNCHANGED <<con, hold, cstate>>
      /\ \A u \in Tasks : u # t => pc'[u] = pc[u] /\ hold'[u] = hold[u]
  BY <1>1 DEF InnerRelease, Typed, netVars
<1>4. \A g \in Holders : inUse[g] = t => g = h
  BY <1>1, <1>2, UsersHold
<1>5. \/ inUse[h] = None /\ UNCHANGED inUse
      \/ inUse[h] # None /\ cstate[con[h]] = "closed" /\ UNCHANGED inUse
         /\ pc'[t] = "released"
      \/ inUse' = [inUse EXCEPT ![h] = None]
  BY <1>1, <1>2 DEF InnerRelease, ReleaseHolder, Typed
<1>6. ASSUME NEW g \in Holders
      PROVE  \/ inUse'[g] = None
             \/ UserOf(g)'
             \/ /\ inUse'[g] = inUse[g] /\ inUse[g] # t
                /\ con'[g] = con[g]
  <2>1. CASE inUse[g] # t
    BY <1>1, <1>3, <1>5, <2>1 DEF Typed
  <2>2. CASE inUse[g] = t
    <3>1. g = h /\ t # None
      BY <1>4, <2>2, TasksAssumption
    <3>2. CASE inUse' = [inUse EXCEPT ![h] = None]
      BY <1>1, <3>1, <3>2 DEF Typed
    <3>3. CASE cstate[con[h]] = "closed" /\ UNCHANGED inUse /\ pc'[t] = "released"
      BY <1>2, <1>3, <2>2, <3>1, <3>3 DEF UserOf
    <3>4. QED
      BY <1>5, <2>2, <3>1, <3>2, <3>3
  <2>3. QED
    BY <2>1, <2>2
<1>7. QED
  BY <1>3, <1>6, UsersStep

\* Steps that change neither holders nor connections.
LEMMA UsersQuiet ==
    ASSUME Inv, UsersKnown, [Next]_vars, NEW t \in Tasks,
           UNCHANGED <<inUse, con>>,
           \A u \in Tasks : u # t => pc'[u] = pc[u] /\ hold'[u] = hold[u],
           \/ pc[t] \notin Using \cup {"ok"}
           \/ pc[t] \in Working /\ pc'[t] \in Working /\ hold'[t] = hold[t]
           \/ pc[t] = "released" /\ pc'[t] = "ok"
    PROVE  UsersKnown'
<1>1. ASSUME NEW g \in Holders, inUse[g] = t  PROVE UserOf(g)'
  <2>1. /\ pc[t] \in Working \cup {"released", "ok"} /\ con[g] \in Conns
        /\ pc[t] \in Using => hold[t] = g
        /\ pc[t] \in {"released", "ok"} => cstate[con[g]] = "closed"
    BY <1>1, UsersHold
  <2>2. cstate[con[g]] = "closed" => cstate'[con[g]] = "closed"
    BY <2>1, ClosedForGood
  <2>3. QED
    BY <1>1, <2>1, <2>2 DEF UserOf, Working, Using
<1>2. QED
  BY <1>1, UsersStep

LEMMA UsersNext == Inv /\ UsersKnown /\ [Next]_vars => UsersKnown'
<1> SUFFICES ASSUME Inv, UsersKnown, [Next]_vars  PROVE UsersKnown'
  OBVIOUS
<1>1. Typed /\ HolderAccounted
  BY DEF Inv, IInv
<1>2. ASSUME NEW t \in Tasks, TaskStep(t)  PROVE UsersKnown'
  <2>1. CASE Get(t) \/ Connected(t)
    BY <2>1, UsersTake
  <2>2. CASE InnerRelease(t)
    BY <2>2, UsersRelease
  <2>3. CASE pc[t] \in Using /\ TerminateAndFail(t)
    BY <2>3, UsersTerminate
  <2>4. CASE Start(t) \/ AcquireFails(t) \/ CancelGetting(t)
    BY <1>1, <2>4, UsersQuiet
       DEF Start, AcquireFails, CancelGetting, End, poolVars, Using, Typed
  <2>5. CASE SendDone(t) \/ Finish(t)
    BY <1>1, <2>5, UsersQuiet
       DEF SendDone, Finish, End, poolVars, Working, Typed
  <2>6. CASE Recv(t)
    <3>1. pc[t] = "receiving" /\ pc[t] \in Using
      BY <2>6 DEF Recv, Using
    <3>2. \/ TerminateAndFail(t)
          \/ /\ pc' = [pc EXCEPT ![t] = "releasing"]
             /\ UNCHANGED <<inUse, con, hold>>
      BY <2>6 DEF Recv, poolVars
    <3>3. QED
      BY <1>1, <2>3, <3>1, <3>2, UsersQuiet DEF Working, Typed
  <2>7. CASE ClosedRaised(t) \/ Reject(t) \/ CancelUsing(t)
    BY <2>3, <2>7 DEF ClosedRaised, Reject, CancelUsing, Using
  <2>8. QED
    BY <1>2, <2>1, <2>2, <2>4, <2>5, <2>6, <2>7 DEF TaskStep
<1>3. ASSUME UNCHANGED <<inUse, con, pc, hold>>  PROVE UsersKnown'
  <2> SUFFICES ASSUME NEW h \in Holders, inUse[h] # None  PROVE UserOf(h)'
    BY <1>3 DEF UsersKnown, UserOf
  <2>1. con[h] \in Conns /\ UserOf(h)
    BY <1>1 DEF HolderAccounted, Typed, UsersKnown
  <2>2. cstate[con[h]] = "closed" => cstate'[con[h]] = "closed"
    BY <2>1, ClosedForGood
  <2>3. QED
    BY <1>3, <2>1, <2>2 DEF UserOf
<1>4. ASSUME NEW c \in Conns, NetStep(c)  PROVE UsersKnown'
  BY <1>3, <1>4 DEF NetStep, Answer, UpstreamClose, Teardown, poolVars, taskVars
<1>5. CASE PoolTerminate
  <2>1. \A h \in Holders : inUse'[h] = None
    BY <1>1, <1>5 DEF PoolTerminate, HolderAccounted
  <2>2. QED
    BY <2>1 DEF UsersKnown, UserOf
<1>6. CASE UNCHANGED vars
  BY <1>3, <1>6 DEF vars, poolVars, taskVars
<1>7. QED
  BY <1>2, <1>4, <1>5, <1>6 DEF Next

\* What holds of the holder that a coroutine leaves in use when it ends: the
\* coroutine returned an answer, and between the answer and the release the
\* connection was closed.  Nothing else leaks a holder: no timeout, failed
\* handshake, refused answer, stale proxy or shutdown.
\* (PoolConnectionHolder.release, the except clause of fetch_ws)
THEOREM LeaksOnlyClosed ==
    Spec => [](\A h \in Holders :
                  inUse[h] # None /\ pc[inUse[h]] \in Terminal =>
                      pc[inUse[h]] = "ok" /\ cstate[con[h]] = "closed")
<1>1. Init => UsersKnown
  BY DEF Init, UsersKnown, UserOf
<1>2. UsersKnown => \A h \in Holders :
                       inUse[h] # None /\ pc[inUse[h]] \in Terminal =>
                           pc[inUse[h]] = "ok" /\ cstate[con[h]] = "closed"
  BY DEF UsersKnown, UserOf, Working, Terminal
<1>3. QED
  BY <1>1, <1>2, UsersNext, AlwaysInv, PTL DEF Spec

\* The connections that holders have are open.
HeldOpen == \A h \in Holders : con[h] # None => cstate[con[h]] = "open"

\* A step that lets connections fail takes them out of their holders.
LEMMA HeldOpenStep ==
    ASSUME Inv, HeldOpen,
           \A h \in Holders : con'[h] # None =>
               /\ con'[h] = con[h]
               /\ \/ cstate'[con[h]] = cstate[con[h]]
                  \/ cstate'[con[h]] = "open"
    PROVE  HeldOpen'
BY DEF HeldOpen

LEMMA HeldOpenNext ==
    ASSUME Inv, HeldOpen, [Next]_vars, "upstreamClose" \notin Faults
    PROVE  HeldOpen'
<1>1. IInv /\ Typed /\ \A h \in Holders : con[h] \in Conns \cup {None}
  BY DEF Inv, IInv, Typed
<1>2. ASSUME UNCHANGED <<con, cstate>>  PROVE HeldOpen'
  BY <1>2 DEF HeldOpen
<1>3. ASSUME NEW t \in Tasks, pc[t] \in Using, TerminateAndFail(t)
      PROVE  HeldOpen'
  <2>1. PICK h \in Holders : h = hold[t]
    BY <1>1, <1>3 DEF Typed, LocalsBound
  <2>2. TerminateHolder(h)
    BY <1>3, <2>1 DEF TerminateAndFail
  <2>3. con' = [con EXCEPT ![h] = None]
    BY <1>1, <2>2, TerminateHolderFacts
  <2>4. ASSUME NEW g \in Holders, con'[g] # None
        PROVE  con'[g] = con[g] /\ cstate'[con[g]] = cstate[con[g]]
    <3>1. g # h /\ con'[g] = con[g] /\ con[g] \in Conns
      BY <1>1, <2>3, <2>4 DEF Typed
    <3>2. con[g] # con[h]
      BY <2>4, <3>1 DEF Inv, ConnInv, ConnsMade
    <3>3. QED
      BY <2>2, <3>1, <3>2 DEF TerminateHolder, FailConnections
  <2>5. QED
    BY <2>4, HeldOpenStep
<1>4. ASSUME NEW t \in Tasks, Get(t)  PROVE HeldOpen'
  <2>1. /\ UNCHANGED cstate
        /\ \E h \in Holders : con' \in {con, [con EXCEPT ![h] = None]}
    <3>1. queue[Len(queue)] \in Holders
      BY <1>1, <1>4, TakeFacts DEF Get, IInv, Typed, HolderAccounted
    <3>2. QED
      BY <1>4, <3>1 DEF Get
  <2>2. QED
    BY <1>1, <2>1, HeldOpenStep DEF Typed
<1>5. ASSUME NEW t \in Tasks, Connected(t)  PROVE HeldOpen'
  <2>1. PICK h \in Holders : h = hold[t]
    BY <1>1, <1>5 DEF Connected, Typed, LocalsBound
  <2>2. PICK c : c = opened + 1
    OBVIOUS
  <2>3. c \in Conns
    BY <1>1, <1>5, <2>2, SizeAssumption, Bound DEF Connected, Conns
  <2>4. cstate' = [cstate EXCEPT ![c] = "open"] /\ con' = [con EXCEPT ![h] = c]
    BY <1>5, <2>1, <2>2 DEF Connected
  <2>5. QED
    BY <1>1, <2>3, <2>4 DEF HeldOpen, Typed
<1>6. ASSUME NEW t \in Tasks, TaskStep(t)  PROVE HeldOpen'
  <2>1. \/ UNCHANGED <<con, cstate>>
        \/ pc[t] \in Using /\ TerminateAndFail(t)
        \/ Get(t)
        \/ Connected(t)
    BY <1>6 DEF TaskStep, Start, AcquireFails, SendDone, ClosedRaised, Recv, InnerRelease,
       Finish, Reject, CancelGetting, CancelUsing, poolVars, netVars, Using
  <2>2. QED
    BY <1>2, <1>3, <1>4, <1>5, <2>1
<1>7. ASSUME NEW c \in Conns, NetStep(c)  PROVE HeldOpen'
  <2>1. CASE Answer(c)
    BY <1>2, <2>1 DEF Answer, poolVars
  <2>2. CASE Teardown(c)
    <3>1. \A h \in Holders : con[h] # c
      BY <1>1, <2>2, Bound DEF Teardown, HeldOpen
    <3>2. con' = con /\ cstate' = [cstate EXCEPT ![c] = "closed"]
      BY <2>2 DEF Teardown, poolVars
    <3>3. QED
      BY <1>1, <3>1, <3>2 DEF HeldOpen, Typed
  <2>3. QED
    BY <1>7, <2>1, <2>2 DEF NetStep, UpstreamClose
<1>8. CASE PoolTerminate
  BY <1>8 DEF PoolTerminate, HeldOpen
<1>9. CASE UNCHANGED vars
  BY <1>2, <1>9 DEF vars, poolVars, netVars
<1>10. QED
  BY <1>6, <1>7, <1>8, <1>9 DEF Next

\* Without connections that upstreams close, a coroutine that has ended leaves
\* no holder checked out, whatever else fails: what pool.py:126 promises is
\* broken by that one fault only, which the run ws_leak shows.
THEOREM NoLeakWithoutClose ==
    ASSUME "upstreamClose" \notin Faults
    PROVE  Spec => []NoLeakedHolder
<1>1. Init => UsersKnown /\ HeldOpen
  <2> SUFFICES ASSUME Init  PROVE UsersKnown /\ HeldOpen
    OBVIOUS
  <2>1. UsersKnown
    BY DEF Init, UsersKnown, UserOf
  <2>2. Inv /\ Typed
    BY InitInv DEF Inv, IInv
  <2>3. \A c \in Conns : c <= opened => cstate[c] = "open"
    BY DEF Init
  <2>4. HeldOpen
    <3> SUFFICES ASSUME NEW h \in Holders, con[h] # None  PROVE cstate[con[h]] = "open"
      BY DEF HeldOpen
    <3>1. con[h] \in Conns /\ con[h] <= opened
      BY <2>2 DEF Inv, ConnInv, ConnsMade, Typed
    <3>2. QED
      BY <2>3, <3>1
  <2>5. QED
    BY <2>1, <2>4
<1>2. Inv /\ HeldOpen /\ [Next]_vars => HeldOpen'
  BY HeldOpenNext
<1>3. Inv /\ UsersKnown /\ HeldOpen => NoLeakedHolder
  <2> SUFFICES ASSUME Inv, UsersKnown, HeldOpen, NEW h \in Holders, inUse[h] # None,
                      pc[inUse[h]] \in Terminal
               PROVE  FALSE
    BY DEF NoLeakedHolder
  <2>1. cstate[con[h]] = "closed"
    BY DEF UsersKnown, UserOf, Working, Terminal
  <2>2. con[h] # None
    BY DEF Inv, IInv, HolderAccounted
  <2>3. QED
    BY <2>1, <2>2 DEF HeldOpen
<1>4. QED
  BY <1>1, <1>2, <1>3, UsersNext, AlwaysInv, PTL DEF Spec

-----------------------------------------------------------------------------
\* What disturbs the owner of a holder.  A proxy is stale once its coroutine
\* has released the holder, or a shutdown has taken it away; it does harm when
\* the coroutine then meets the except clause.

\* Nothing was taken from a coroutine, and nothing will make it terminate a
\* connection after its release.
Undisturbed ==
    /\ ~closed
    /\ \A t \in Tasks :
          /\ pc[t] \in Working => Owns(t)
          /\ pc[t] # "releaseError"
          /\ pc[t] \in {"releasing", "released"} => got[t].kind = "answer"
    /\ \A c \in Conns : \A i \in DOMAIN inbox[c] : inbox[c][i].kind # "wrongId"

\* A holder in use changes hands only in a step of the one who has it in use.
OwnersAct ==
    \A h \in Holders :
        inUse[h] # None /\ inUse'[h] # inUse[h] => pc'[inUse[h]] # pc[inUse[h]]

\* What is left to do for a step of the coroutine t.
LEMMA UndisturbedStep ==
    ASSUME Inv, Undisturbed, NEW t \in Tasks, ~closed',
           \A u \in Tasks : u # t =>
               /\ pc'[u] = pc[u] /\ hold'[u] = hold[u]
               /\ pcon'[u] = pcon[u] /\ got'[u] = got[u],
           NEW g,
           \A h \in Holders : h # g => inUse'[h] = inUse[h] /\ con'[h] = con[h],
           g \in Holders => inUse[g] \in {t, None},
           pc'[t] \in Working => Owns(t)',
           pc'[t] # "releaseError",
           pc'[t] \in {"releasing", "released"} => got'[t].kind = "answer",
           \A c \in Conns : \A i \in DOMAIN inbox'[c] : inbox'[c][i].kind # "wrongId"
    PROVE  Undisturbed'
<1>1. ASSUME NEW u \in Tasks, u # t, pc'[u] \in Working  PROVE Owns(u)'
  <2>1. Owns(u) /\ hold[u] \in Holders /\ u # None
    BY <1>1, Bound DEF Undisturbed, Inv
  <2>2. hold[u] # g
    BY <1>1, <2>1 DEF Owns
  <2>3. QED
    BY <1>1, <2>1, <2>2 DEF Owns
<1>2. QED
  BY <1>1 DEF Undisturbed

\* A step of t that leaves the holders alone.
LEMMA UndisturbedSame ==
    ASSUME Inv, Undisturbed, NEW t \in Tasks, UNCHANGED <<con, inUse, closed>>,
           \A u \in Tasks : u # t =>
               /\ pc'[u] = pc[u] /\ hold'[u] = hold[u]
               /\ pcon'[u] = pcon[u] /\ got'[u] = got[u],
           pc'[t] \in Working =>
               pc[t] \in Working /\ hold'[t] = hold[t] /\ pcon'[t] = pcon[t],
           pc'[t] # "releaseError",
           pc'[t] \in {"releasing", "released"} => got'[t].kind = "answer",
           \A c \in Conns : \A i \in DOMAIN inbox'[c] : inbox'[c][i].kind # "wrongId"
    PROVE  Undisturbed' /\ OwnersAct
<1>1. \A u \in Tasks : pc'[u] \in Working =>
          /\ pc[u] \in Working /\ Owns(u)
          /\ hold'[u] = hold[u] /\ pcon'[u] = pcon[u]
  BY DEF Undisturbed
<1>2. \A u \in Tasks : pc'[u] \in Working => Owns(u)'
  BY <1>1 DEF Owns
<1>3. Undisturbed'
  BY <1>2 DEF Undisturbed
<1>4. QED
  BY <1>3 DEF OwnersAct

LEMMA UndisturbedTake ==
    ASSUME Inv, Undisturbed, NEW t \in Tasks, Get(t) \/ Connected(t)
    PROVE  Undisturbed' /\ OwnersAct
<1>1. IInv /\ Typed /\ pc[t] \in {"getting", "connecting"}
  BY DEF Inv, IInv, Get, Connected
<1>2. PICK h : h = IF pc[t] = "getting" THEN queue[Len(queue)] ELSE hold[t]
  OBVIOUS
<1>3. h \in Holders /\ inUse[h] = None
  <2>1. CASE Get(t)
    <3>1. h \in Holders /\ Queued(h)
      BY <1>1, <1>2, <2>1, TakeFacts DEF Get, IInv, Typed, HolderAccounted, Queued
    <3>2. QED
      BY <1>1, <3>1 DEF IInv, HolderAccounted
  <2>2. CASE Connected(t)
    <3>1. h \in Holders /\ Connecting(t, h)
      BY <1>1, <1>2, <2>2 DEF Connected, Connecting, Typed, LocalsBound
    <3>2. QED
      BY <1>1, <3>1 DEF IInv, HolderAccounted
  <2>3. QED
    BY <2>1, <2>2
<1>4. /\ con' \in {con, [con EXCEPT ![h] = None], [con EXCEPT ![h] = opened']}
      /\ \/ UNCHANGED inUse /\ pc'[t] = "connecting"
         \/ /\ inUse' = [inUse EXCEPT ![h] = t]
            /\ pc'[t] = "sending" /\ hold'[t] = h /\ pcon'[t] = con'[h]
  <2>1. CASE Get(t)
    BY <1>1, <1>2, <2>1 DEF Get, CheckOut, Typed
  <2>2. CASE Connected(t)
    BY <1>1, <1>2, <1>3, <2>2 DEF Connected, CheckOut, Typed
  <2>3. QED
    BY <2>1, <2>2
<1>5. /\ UNCHANGED <<closed, inbox>>
      /\ \A u \in Tasks : u # t =>
             /\ pc'[u] = pc[u] /\ hold'[u] = hold[u]
             /\ pcon'[u] = pcon[u] /\ got'[u] = got[u]
  BY <1>1 DEF Get, Connected, CheckOut, Typed
<1>6. \A g \in Holders : g # h => inUse'[g] = inUse[g] /\ con'[g] = con[g]
  BY <1>1, <1>4 DEF Typed
<1>7. pc'[t] \in Working => Owns(t)'
  BY <1>1, <1>3, <1>4 DEF Owns, Working, Typed
<1>8. pc'[t] \in {"sending", "connecting"}
  BY <1>4
<1>9. Undisturbed'
  BY <1>3, <1>5, <1>6, <1>7, <1>8, UndisturbedStep DEF Undisturbed
<1>10. QED
  BY <1>3, <1>6, <1>9 DEF OwnersAct

\* The except clause, met by a coroutine that owns its holder.
LEMMA UndisturbedTerminate ==
    ASSUME Inv, Undisturbed, NEW t \in Tasks, pc[t] \in Working, TerminateAndFail(t),
           \A c \in Conns : \A i \in DOMAIN inbox'[c] : inbox'[c][i].kind # "wrongId"
    PROVE  Undisturbed' /\ OwnersAct
<1>1. IInv /\ Typed
  BY DEF Inv, IInv
<1>2. PICK h \in Holders : h = hold[t] /\ inUse[h] = t
  BY <1>1, Bound DEF Undisturbed, Owns
<1>3. TerminateHolder(h)
  BY <1>2 DEF TerminateAndFail
<1>4. con' = [con EXCEPT ![h] = None] /\ inUse' = [inUse EXCEPT ![h] = None]
  BY <1>1, <1>3, TerminateHolderFacts
<1>5. /\ UNCHANGED closed /\ pc'[t] = "failed"
      /\ \A u \in Tasks : u # t =>
             /\ pc'[u] = pc[u] /\ hold'[u] = hold[u]
             /\ pcon'[u] = pcon[u] /\ got'[u] = got[u]
  BY <1>1 DEF TerminateAndFail, End, Typed
<1>6. \A g \in Holders : g # h => inUse'[g] = inUse[g] /\ con'[g] = con[g]
  BY <1>1, <1>4 DEF Typed
<1>7. Undisturbed'
  BY <1>2, <1>5, <1>6, UndisturbedStep DEF Undisturbed, Working
<1>8. QED
  BY <1>2, <1>5, <1>6, <1>7 DEF OwnersAct, Working

LEMMA UndisturbedRecv ==
    ASSUME Inv, Undisturbed, NEW t \in Tasks, Recv(t)
    PROVE  Undisturbed' /\ OwnersAct
<1>1. IInv /\ Typed /\ pc[t] = "receiving" /\ pc[t] \in Working /\ pcon[t] \in Conns
      /\ inbox[pcon[t]] # <<>> /\ inbox[pcon[t]] \in Seq(Message)
  BY Bound DEF Inv, IInv, Recv, Working, Typed
<1>2. PICK c \in Conns : c = pcon[t]
  BY <1>1
<1>3. PICK m : m = Head(inbox[c])
  OBVIOUS
<1>4. m \in Message /\ m.kind # "wrongId"
  <2>1. m = inbox[c][1] /\ 1 \in DOMAIN inbox[c] /\ m \in Message
    BY <1>1, <1>2, <1>3
  <2>2. QED
    BY <2>1 DEF Undisturbed
<1>5. \A d \in Conns : \A i \in DOMAIN inbox'[d] : inbox'[d][i].kind # "wrongId"
  <2>1. PICK s : s = Tail(inbox[c])
    OBVIOUS
  <2>2. \A i \in DOMAIN s : i + 1 \in DOMAIN inbox[c] /\ s[i] = inbox[c][i + 1]
    BY <1>1, <1>2, <2>1
  <2>3. inbox' = [inbox EXCEPT ![c] = s]
    BY <1>2, <2>1 DEF Recv
  <2>4. QED
    BY <1>1, <2>2, <2>3 DEF Undisturbed, Typed
<1>6. CASE m.kind = "garbage"
  <2>1. TerminateAndFail(t)
    BY <1>2, <1>3, <1>6 DEF Recv
  <2>2. QED
    BY <1>1, <1>5, <2>1, UndisturbedTerminate
<1>7. CASE m.kind # "garbage"
  <2>1. m.kind = "answer"
    BY <1>4, <1>7 DEF Message, Kinds
  <2>2. /\ got' = [got EXCEPT ![t] = m] /\ pc' = [pc EXCEPT ![t] = "releasing"]
        /\ UNCHANGED <<queue, con, inUse, closed, hold, pcon>>
    BY <1>2, <1>3, <1>7 DEF Recv, Undisturbed, poolVars
  <2>3. /\ got'[t] = m /\ pc'[t] = "releasing"
        /\ \A u \in Tasks : u # t => pc'[u] = pc[u] /\ got'[u] = got[u]
    BY <1>1, <2>2 DEF Typed
  <2>4. QED
    BY <1>1, <1>5, <2>1, <2>2, <2>3, UndisturbedSame
<1>8. QED
  BY <1>6, <1>7

LEMMA UndisturbedRelease ==
    ASSUME Inv, Undisturbed, NEW t \in Tasks, InnerRelease(t)
    PROVE  Undisturbed' /\ OwnersAct
<1>1. IInv /\ Typed /\ pc[t] = "releasing" /\ t # None
  BY TasksAssumption DEF Inv, IInv, InnerRelease
<1>2. PICK h \in Holders : h = hold[t] /\ inUse[h] = t
  BY <1>1, Bound DEF Undisturbed, Owns, Working
<1>3. /\ UNCHANGED <<con, closed, hold, pcon, got, inbox>>
      /\ pc'[t] = "released"
      /\ \A u \in Tasks : u # t => pc'[u] = pc[u]
      /\ inUse' \in {inUse, [inUse EXCEPT ![h] = None]}
  BY <1>1, <1>2 DEF InnerRelease, ReleaseHolder, netVars, Typed
<1>4. \A g \in Holders : g # h => inUse'[g] = inUse[g]
  BY <1>1, <1>3 DEF Typed
<1>5. Undisturbed'
  BY <1>1, <1>2, <1>3, <1>4, UndisturbedStep DEF Undisturbed, Working
<1>6. QED
  BY <1>1, <1>2, <1>3, <1>4, <1>5 DEF OwnersAct

LEMMA UndisturbedNext ==
    ASSUME Faults \cap {"cancel", "wrongId", "stop"} = {}, Inv, Undisturbed, [Next]_vars
    PROVE  Undisturbed' /\ OwnersAct
<1>1. IInv /\ Typed /\ \A t \in Tasks : t # None
  BY TasksAssumption DEF Inv, IInv
<1>2. ASSUME NEW t \in Tasks, UNCHANGED <<con, inUse, closed, inbox>>,
             \A u \in Tasks : u # t =>
                 /\ pc'[u] = pc[u] /\ hold'[u] = hold[u]
                 /\ pcon'[u] = pcon[u] /\ got'[u] = got[u],
             \/ pc'[t] \notin Working \cup {"released", "releaseError"}
             \/ /\ pc[t] = "sending" /\ pc'[t] = "receiving"
                /\ hold'[t] = hold[t] /\ pcon'[t] = pcon[t]
      PROVE  Undisturbed' /\ OwnersAct
  BY <1>2, UndisturbedSame DEF Undisturbed, Working
<1>3. ASSUME NEW t \in Tasks, TaskStep(t)  PROVE Undisturbed' /\ OwnersAct
  <2>1. CASE Get(t) \/ Connected(t)
    BY <2>1, UndisturbedTake
  <2>2. CASE Recv(t)
    BY <2>2, UndisturbedRecv
  <2>3. CASE InnerRelease(t)
    BY <2>3, UndisturbedRelease
  <2>4. CASE ClosedRaised(t)
    <3>1. TerminateAndFail(t) /\ UNCHANGED inbox /\ pc[t] \in Working
      BY <2>4 DEF ClosedRaised, Working
    <3>2. QED
      BY <3>1, UndisturbedTerminate DEF Undisturbed
  <2>5. CASE Start(t) \/ AcquireFails(t) \/ SendDone(t) \/ Finish(t)
    BY <1>1, <1>2, <2>5
       DEF Start, AcquireFails, SendDone, Finish, End, poolVars, netVars, Working, Typed
  <2>6. ~Reject(t)
    <3>1. pc[t] = "released" => IdMatches(t)
      BY DEF Undisturbed, Inv, ConnInv, TrafficOwn, TrafficOf, IdMatches
    <3>2. QED
      BY <3>1 DEF Reject, Undisturbed
  <2>7. ~CancelGetting(t) /\ ~CancelUsing(t)
    BY DEF CancelGetting, CancelUsing
  <2>8. QED
    BY <1>3, <2>1, <2>2, <2>3, <2>4, <2>5, <2>6, <2>7 DEF TaskStep
<1>4. ASSUME UNCHANGED <<con, inUse, closed, pc, hold, pcon, got>>,
             \A c \in Conns : \A i \in DOMAIN inbox'[c] : inbox'[c][i].kind # "wrongId"
      PROVE  Undisturbed' /\ OwnersAct
  BY <1>4 DEF Undisturbed, Owns, OwnersAct
<1>5. ASSUME NEW c \in Conns, NetStep(c)  PROVE Undisturbed' /\ OwnersAct
  <2>1. UNCHANGED <<con, inUse, closed, pc, hold, pcon, got>>
    BY <1>5 DEF NetStep, Answer, UpstreamClose, Teardown, poolVars, taskVars
  <2>2. CASE UNCHANGED inbox
    BY <1>4, <2>1, <2>2 DEF Undisturbed
  <2>3. CASE Answer(c)
    <3>1. PICK t \in wire[c], k \in {"answer"} \cup (Faults \cap Kinds) :
             inbox' = [inbox EXCEPT ![c] = Append(@, [req |-> t, kind |-> k])]
      BY <2>3 DEF Answer
    <3>2. PICK m : m = [req |-> t, kind |-> k]
      OBVIOUS
    <3>3. m.kind # "wrongId"
      BY <3>2
    <3>4. PICK s : s = Append(inbox[c], m)
      OBVIOUS
    <3>5. inbox[c] \in Seq(Message)
      BY <1>1 DEF Typed
    <3>6. \A i \in DOMAIN s : s[i] = m \/ (i \in DOMAIN inbox[c] /\ s[i] = inbox[c][i])
      BY <3>4, <3>5
    <3>7. inbox' = [inbox EXCEPT ![c] = s]
      BY <3>1, <3>2, <3>4
    <3>8. \A i \in DOMAIN s : s[i].kind # "wrongId"
      BY <3>3, <3>6 DEF Undisturbed
    <3>9. \A d \in Conns : inbox'[d] = IF d = c THEN s ELSE inbox[d]
      BY <1>1, <3>7 DEF Typed
    <3>10. \A d \in Conns : \A i \in DOMAIN inbox'[d] : inbox'[d][i].kind # "wrongId"
      BY <3>8, <3>9 DEF Undisturbed
    <3>11. QED
      BY <1>4, <2>1, <3>10
  <2>4. QED
    BY <1>5, <2>2, <2>3 DEF NetStep, UpstreamClose, Teardown
<1>6. ~PoolTerminate
  BY DEF PoolTerminate
<1>7. CASE UNCHANGED vars
  BY <1>4, <1>7 DEF vars, poolVars, taskVars, netVars, Undisturbed
<1>8. QED
  BY <1>3, <1>5, <1>6, <1>7 DEF Next

\* While no request times out or is given up, no upstream answers with another
\* id and the server does not stop, a holder in use is given back by a step of
\* the coroutine that acquired it: handshakes that fail, connections that are
\* closed and answers that are not JSON make no proxy stale.  Each of the three
\* faults alone breaks what pool.py:138 says (the run ws_stale has the second).
THEOREM ReleasedByOwnerUndisturbed ==
    ASSUME Faults \cap {"cancel", "wrongId", "stop"} = {}
    PROVE  Spec => ReleasedByOwner
<1>1. Init => Undisturbed
  BY DEF Init, Undisturbed, Working
<1>2. Inv /\ Undisturbed /\ [Next]_vars => Undisturbed' /\ OwnersAct
  BY UndisturbedNext
<1>3. OwnersAct => \A h \in Holders :
          inUse[h] # None /\ inUse'[h] # inUse[h] =>
              closed' # closed \/ pc'[inUse[h]] # pc[inUse[h]]
  BY DEF OwnersAct
<1>4. QED
  BY <1>1, <1>2, <1>3, AlwaysInv, PTL DEF Spec, ReleasedByOwner
=============================================================================
