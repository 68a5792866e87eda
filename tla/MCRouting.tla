------------------------------ MODULE MCRouting -----------------------------
(* Instances of Routing for the model checker.                             *)
EXTENDS Routing, TLC

CONSTANTS r1, r2, r3, c1

MCRingOrder ==
    [n \in 2..MaxSize |-> [c \in Conversations |-> IF n = 2 THEN <<2, 1>> ELSE <<2, 3, 1>>]]

Symmetry == Permutations(Requests)
=============================================================================
