------------------------------ MODULE MCPortal ------------------------------
(* Instances of Portal for the model checker.                              *)
EXTENDS Portal, TLC

CONSTANTS c1, c2, e1, t1
=============================================================================
