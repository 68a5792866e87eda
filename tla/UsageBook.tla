----------------------------- MODULE UsageBook ------------------------------
(***************************************************************************)
(* What the account database promises about metering.  Every request that  *)
(* was begun is open until it is settled exactly once, at the price that   *)
(* was current when it began; and the totals of a bucket are exactly those *)
(* of its settled requests.  Nothing else changes what an account is       *)
(* shown: rolling rows up, deleting them, failing half-way and starting    *)
(* again are all invisible here.                                           *)
(***************************************************************************)
EXTENDS UsageFigures

VARIABLES
    open,    \* [Requests -> the bucket and price of an open request, or not]
    totals,  \* [Buckets -> Totals]: what the portal's usage page adds up to
    latest   \* [Models -> Prices \cup {Null}]: the newest price of a model

vars == <<open, totals, latest>>

Entry == [status : {"new", "open", "settled"},
          bucket : Buckets \cup {Null}, price : Prices \cup {Null}]

TypeOK ==
    /\ open \in [Requests -> Entry]
    /\ totals \in [Buckets -> Totals]
    /\ latest \in [Models -> Prices \cup {Null}]

Entering(status) == [status |-> status, bucket |-> Null, price |-> Null]

Init ==
    /\ open = [r \in Requests |-> Entering("new")]
    /\ totals = [b \in Buckets |-> NoTotals]
    /\ latest = [m \in Models |-> Null]

SetPrice(m, p) ==
    /\ latest' = [latest EXCEPT ![m] = p]
    /\ UNCHANGED <<open, totals>>

Begin(r, b) ==
    /\ open[r].status = "new"
    /\ open' = [open EXCEPT ![r] =
                  [status |-> "open", bucket |-> b, price |-> latest[ModelOf[b]]]]
    /\ UNCHANGED <<totals, latest>>

Settle(r, outcome, usage) ==
    /\ open[r].status = "open"
    /\ open' = [open EXCEPT ![r] = Entering("settled")]
    /\ LET b == open[r].bucket
           cost == IF usage = Null THEN Null
                   ELSE EstimatedCost(open[r].price, usage)
       IN  totals' = [totals EXCEPT ![b] =
                        Plus(@, Contribution(outcome, usage, cost))]
    /\ UNCHANGED latest

(***************************************************************************)
(* Requests whose outcome was never learned lapse, any number at a time.   *)
(***************************************************************************)
Lapse(S) ==
    /\ \A r \in S : open[r].status = "open"
    /\ open' = [r \in Requests |->
                  IF r \in S THEN Entering("settled") ELSE open[r]]
    /\ totals' = [b \in Buckets |-> [f \in Figures |->
                    IF f \in {"request_count", "incomplete_count"}
                    THEN totals[b][f] + Cardinality({r \in S : open[r].bucket = b})
                    ELSE totals[b][f]]]
    /\ UNCHANGED latest

Next ==
    \/ \E m \in Models, p \in Prices : SetPrice(m, p)
    \/ \E r \in Requests, b \in Buckets : Begin(r, b)
    \/ \E r \in Requests, u \in Usages : Settle(r, "complete", u)
    \/ \E r \in Requests, o \in {"incomplete", "failed"} : Settle(r, o, Null)
    \/ \E S \in SUBSET Requests : Lapse(S)

Spec == Init /\ [][Next]_vars
=============================================================================
