------------------------------- MODULE TtlMap -------------------------------
(***************************************************************************)
(* What a cache of jussi promises its callers: a lookup returns the value  *)
(* that was put last under the key, and only until the deadline of that    *)
(* put, which is at most MaxTTL away; anything may be forgotten earlier.   *)
(***************************************************************************)
EXTENDS Integers

CONSTANTS
    Keys, Values,
    MaxTTL,    \* the longest time an entry may be served
    None

VARIABLES
    map,       \* map[k]: the remembered [val, exp], or None
    now,       \* the clock
    answer     \* what a lookup just returned, a function on its keys

vars == <<map, now, answer>>

NoAnswer == [k \in {} |-> None]

Init ==
    /\ map = [k \in Keys |-> None]
    /\ now = 0
    /\ answer = NoAnswer

Live(k) == map[k] # None /\ map[k].exp > now

\* Put k, and forget some others.
Put(k, v, deadline, F) ==
    /\ deadline <= now + MaxTTL
    /\ map' = [j \in Keys |-> IF j = k THEN [val |-> v, exp |-> deadline]
                              ELSE IF j \in F THEN None ELSE map[j]]
    /\ answer' = NoAnswer
    /\ UNCHANGED now

Forget(F) ==
    /\ map' = [j \in Keys |-> IF j \in F THEN None ELSE map[j]]
    /\ answer' = NoAnswer
    /\ UNCHANGED now

Lookup(S) ==
    /\ answer' = [k \in S |-> IF Live(k) THEN map[k].val ELSE None]
    /\ \E F \in SUBSET {k \in S : ~Live(k)} :
          map' = [j \in Keys |-> IF j \in F THEN None ELSE map[j]]
    /\ UNCHANGED now

Tick == now' = now + 1 /\ answer' = NoAnswer /\ UNCHANGED map

Next ==
    \/ \E k \in Keys, v \in Values, F \in SUBSET Keys :
          /\ map'[k] # None
          /\ Put(k, v, map'[k].exp, F)
    \/ \E F \in SUBSET Keys : Forget(F)
    \/ \E S \in SUBSET Keys : Lookup(S)
    \/ Tick

Spec == Init /\ [][Next]_vars
=============================================================================
