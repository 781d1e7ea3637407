------------------------------ MODULE MCWsPool ------------------------------
(* Instances of WsPool for TLC. *)
EXTENDS WsPool, TLC

\* The worst case for the id assertion: all clients number from the same id.
SameIds == [t \in Tasks |-> 1]

TaskSymmetry == Permutations(Tasks)
=============================================================================
