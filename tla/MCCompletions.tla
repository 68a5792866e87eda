--------------------------- MODULE MCCompletions ----------------------------
(* Instances of Completions for the model checker.                         *)
EXTENDS Completions, TLC

CONSTANTS r1, r2, r3, b1, m1

MCModelOf == [b \in Buckets |-> m1]
MCRate == [p \in Prices |-> 1]
MCUsages == {[prompt |-> 1, completion |-> 2]}
=============================================================================
