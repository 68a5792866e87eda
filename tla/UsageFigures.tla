---------------------------- MODULE UsageFigures ----------------------------
(***************************************************************************)
(* The figures that the account database keeps about requests: the columns *)
(* of usage_daily, what one settled request contributes to each, and the   *)
(* estimated cost of a request.  Both the detailed ledger (UsageLedger)    *)
(* and the book it implements (UsageBook) are written in these terms.      *)
(***************************************************************************)
EXTENDS Integers, FiniteSets

CONSTANTS
    Requests,    \* request ids: rand.Text() never yields the same one twice
    Buckets,     \* keys of usage_daily: (day, account, API key, model)
    Models,      \* model names
    ModelOf,     \* the model of a bucket
    Prices,      \* ids of rows of model_prices
    InputRate,   \* micro-units per million prompt tokens, by price
    OutputRate,  \* micro-units per million completion tokens, by price
    Million,     \* the divisor of the rates: 10^6 in the code
    Usages,      \* the token counts a response may report
    MaxFigure,   \* the largest value of a BIGINT column
    Null         \* SQL NULL, and the absence of a value

Outcomes == {"complete", "incomplete", "failed"}

\* The columns of usage_daily that a rollup adds to.
Figures == {"request_count", "complete_count", "incomplete_count",
            "failed_count", "prompt_tokens", "completion_tokens",
            "estimated_cost_micro", "priced_count"}

Totals == [Figures -> Nat]

Usage == [prompt : 0..MaxFigure, completion : 0..MaxFigure]

ASSUME FiguresAssumption ==
    /\ IsFiniteSet(Requests)
    /\ ModelOf \in [Buckets -> Models]
    /\ InputRate \in [Prices -> Nat]
    /\ OutputRate \in [Prices -> Nat]
    /\ Million \in Nat \ {0}
    /\ MaxFigure \in Nat \ {0}
    /\ Usages \subseteq Usage
    /\ Null \notin Nat \cup Usage \cup Prices \cup Buckets
    /\ Null \notin Totals

NoTotals == [f \in Figures |-> 0]

(***************************************************************************)
(* round(x / Million)::bigint: half a unit rounds away from zero, and no   *)
(* operand is negative.  A request without a price has no cost.            *)
(***************************************************************************)
EstimatedCost(price, usage) ==
    IF price = Null THEN Null
    ELSE (2 * (usage.prompt * InputRate[price]
                 + usage.completion * OutputRate[price]) + Million)
           \div (2 * Million)

(***************************************************************************)
(* What a settled request adds to each column of its bucket: a counter     *)
(* goes up by one, a NULL amount counts as 0 (COALESCE).                   *)
(***************************************************************************)
Contribution(state, usage, cost) ==
    [f \in Figures |->
        CASE f = "request_count"        -> 1
          [] f = "complete_count"       -> IF state = "complete" THEN 1 ELSE 0
          [] f = "incomplete_count"     -> IF state = "incomplete" THEN 1 ELSE 0
          [] f = "failed_count"         -> IF state = "failed" THEN 1 ELSE 0
          [] f = "prompt_tokens"        -> IF usage = Null THEN 0 ELSE usage.prompt
          [] f = "completion_tokens"    -> IF usage = Null THEN 0 ELSE usage.completion
          [] f = "estimated_cost_micro" -> IF cost = Null THEN 0 ELSE cost
          [] f = "priced_count"         -> IF cost = Null THEN 0 ELSE 1]

(***************************************************************************)
(* The sum of n[r] over the requests r of S, as the number of units to be  *)
(* counted.  Amounts are at most MaxFigure.  Written without recursion so  *)
(* that the facts about cardinalities of finite sets apply to it.          *)
(***************************************************************************)
Units(S, n) == {u \in S \X (1..MaxFigure) : u[2] <= n[u[1]]}

Sum(S, n) == Cardinality(Units(S, n))

Plus(t, u) == [f \in Figures |-> t[f] + u[f]]
=============================================================================
