----------------------------- MODULE MCLifecycle -----------------------------
(* Instances of Lifecycle for the model checker: one replica serves with   *)
(* metrics, the other one without requests competes for the migration.     *)
EXTENDS Lifecycle

CONSTANTS r1, r2

OneHandler == {<<r1, 1>>}
=============================================================================
