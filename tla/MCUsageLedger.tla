--------------------------- MODULE MCUsageLedger ----------------------------
(* Instances of UsageLedger for the model checker.                         *)
EXTENDS UsageLedger, TLC

CONSTANTS r1, r2, r3, r4, g1, g2, b1, b2, m1, p1

MCModelOf == [b \in Buckets |-> m1]
\* Half a unit of cost: it rounds up to one.
MCInputRate == [p \in Prices |-> 1]
MCOutputRate == [p \in Prices |-> 0]
MCUsages == {[prompt |-> 1, completion |-> 2]}

Symmetry == Permutations(Requests) \cup Permutations(Replicas) \cup Permutations(Buckets)

(***************************************************************************)
(* A backlog: four requests, two to a bucket, were begun a week ago and    *)
(* are still pending.  Two replicas that claim a row of each bucket may    *)
(* then lock the two daily rows in opposite orders.                        *)
(***************************************************************************)
BacklogInit ==
    /\ events = [r \in Requests |->
         [Row("pending") EXCEPT !.bucket = IF r \in {r1, r2} THEN b1 ELSE b2]]
    /\ daily = [b \in Buckets |-> NoTotals]
    /\ latest = [m \in Models |-> Null]
    /\ aged = Requests
    /\ pc = [m \in Replicas |-> "idle"]
    /\ claimed = [m \in Replicas |-> {}]
    /\ want = [m \in Replicas |-> Null]
    /\ staged = [m \in Replicas |-> Nothing]
    /\ queued = {}
    /\ waits = {}
    /\ failures = 0

BacklogSpec == BacklogInit /\ [][Next]_vars /\ Fairness

\* Sums of unit pairs are sums.
ASSUME SumsAgree ==
    \A n \in [{r1, r2} -> 0..MaxFigure] : Sum({r1, r2}, n) = n[r1] + n[r2]
=============================================================================
