---------------------------- MODULE UsageLedger -----------------------------
(***************************************************************************)
(* The metering tables of the account database and the statements that     *)
(* gateway replicas run against them.  Requests insert a pending row and   *)
(* update it when they finish; every replica's maintenance expires old     *)
(* pending rows, rolls terminal rows up into daily totals and deletes old  *)
(* rows.  A rollup is one SQL statement, but not one step: it locks the    *)
(* event rows it claims (FOR UPDATE SKIP LOCKED), then locks and updates   *)
(* the daily rows one by one, and its writes appear when it commits.       *)
(***************************************************************************)
EXTENDS UsageFigures

CONSTANTS
    Replicas,    \* gateway replicas that run Store.Maintain
    BatchSize,   \* rollupBatchSize and deleteBatchSize
    MaxFailures  \* bound on statements that fail or whose answer is lost

ASSUME LedgerAssumption ==
    /\ IsFiniteSet(Replicas)
    /\ BatchSize \in Nat \ {0}
    /\ MaxFailures \in Nat

VARIABLES
    events,   \* [Requests -> Row]: usage_events
    daily,    \* [Buckets -> Totals]: usage_daily, as committed
    latest,   \* [Models -> price id]: the newest row of model_prices
    aged,     \* requests started more than seven days ago
    pc,       \* [Replicas -> the statement of Maintain to run next]
    claimed,  \* [Replicas -> SUBSET Requests]: rows locked by an open rollup
    want,     \* [Replicas -> bucket]: the daily row to be locked next
    staged,   \* [Replicas -> [Buckets -> Totals or Null]]: rows it has locked
    queued,   \* replicas that the database has put to sleep on a daily row
    waits,    \* its wait-for graph: <<m, n>> when m sleeps behind n
    failures  \* statements that failed so far

vars == <<events, daily, latest, aged, pc, claimed, want, staged, queued, waits, failures>>
tables == <<events, daily, latest, aged>>
rollup == <<claimed, want, staged, queued, waits>>

Rows == [state  : {"absent", "pending", "deleted"} \cup Outcomes,
         bucket : Buckets \cup {Null},
         price  : Prices \cup {Null},
         usage  : Usages \cup {Null},
         cost   : 0..MaxFigure \cup {Null},
         rolled : BOOLEAN]

Row(state) == [state |-> state, bucket |-> Null, price |-> Null,
               usage |-> Null, cost |-> Null, rolled |-> FALSE]

TypeOK ==
    /\ events \in [Requests -> Rows]
    /\ daily \in [Buckets -> Totals]
    /\ latest \in [Models -> Prices \cup {Null}]
    /\ aged \subseteq Requests
    /\ pc \in [Replicas -> {"idle", "expire", "rollup", "adding", "delete"}]
    /\ claimed \in [Replicas -> SUBSET Requests]
    /\ want \in [Replicas -> Buckets \cup {Null}]
    /\ staged \in [Replicas -> [Buckets -> Totals \cup {Null}]]
    /\ queued \subseteq Replicas
    /\ waits \subseteq Replicas \X Replicas
    /\ failures \in 0..MaxFailures

Nothing == [b \in Buckets |-> Null]

Init ==
    /\ events = [r \in Requests |-> Row("absent")]
    /\ daily = [b \in Buckets |-> NoTotals]
    /\ latest = [m \in Models |-> Null]
    /\ aged = {}
    /\ pc = [m \in Replicas |-> "idle"]
    /\ claimed = [m \in Replicas |-> {}]
    /\ want = [m \in Replicas |-> Null]
    /\ staged = [m \in Replicas |-> Nothing]
    /\ queued = {}
    /\ waits = {}
    /\ failures = 0
-----------------------------------------------------------------------------
(* Requests, prices and time.                                              *)

SetPrice(m, p) ==
    /\ latest' = [latest EXCEPT ![m] = p]
    /\ UNCHANGED <<events, daily, aged, pc, rollup, failures>>

BeginUsage(r, b) ==
    /\ events[r].state = "absent"
    /\ events' = [events EXCEPT ![r] =
         [Row("pending") EXCEPT !.bucket = b, !.price = latest[ModelOf[b]]]]
    /\ UNCHANGED <<daily, latest, aged, pc, rollup, failures>>

\* Mutation of FinishUsage: without AND e.state='pending' in its WHERE.
FinishAgain(r, outcome, usage) ==
    LET cost == IF outcome = "complete"
                THEN EstimatedCost(events[r].price, usage) ELSE Null
    IN  /\ events[r].state \in {"pending"} \cup Outcomes
        /\ outcome = "complete" <=> usage # Null
        /\ cost \in 0..MaxFigure \cup {Null}
        /\ events' = [events EXCEPT ![r].state = outcome,
                                    ![r].usage = usage, ![r].cost = cost]
        /\ UNCHANGED <<daily, latest, aged, pc, rollup, failures>>

(***************************************************************************)
(* Store.FinishUsage.  Only a complete request has token counts.  The      *)
(* statement updates nothing when the row is no longer pending, and fails  *)
(* when the cost does not fit its column.                                  *)
(***************************************************************************)
FinishUsage(r, outcome, usage) ==
    LET cost == IF outcome = "complete"
                THEN EstimatedCost(events[r].price, usage) ELSE Null
    IN  /\ events[r].state = "pending"
        /\ outcome = "complete" <=> usage # Null
        /\ cost \in 0..MaxFigure \cup {Null}
        /\ events' = [events EXCEPT ![r].state = outcome,
                                    ![r].usage = usage, ![r].cost = cost]
        /\ UNCHANGED <<daily, latest, aged, pc, rollup, failures>>

SevenDaysPass(r) ==
    /\ events[r].state \in {"pending"} \cup Outcomes
    /\ r \notin aged
    /\ aged' = aged \cup {r}
    /\ UNCHANGED <<events, daily, latest, pc, rollup, failures>>
-----------------------------------------------------------------------------
(* Store.Maintain on replica m.                                            *)

Goto(m, label) == pc' = [pc EXCEPT ![m] = label]

\* What a statement of replica m leaves behind when it ends: no lock.
Release(m) ==
    /\ claimed' = [claimed EXCEPT ![m] = {}]
    /\ want' = [want EXCEPT ![m] = Null]
    /\ staged' = [staged EXCEPT ![m] = Nothing]
    /\ queued' = queued \ {m}
    /\ waits' = {w \in waits : w[1] # m /\ w[2] # m}

\* The LIMIT clause: as many rows of S as fit one batch.
Batches(S) ==
    {B \in SUBSET S : /\ Cardinality(B) <= BatchSize
                      /\ B # S => Cardinality(B) = BatchSize}

\* Terminal rows that are not in the daily totals yet.
Unrolled == {r \in Requests : events[r].state \in Outcomes /\ ~events[r].rolled}

Locked(n, b) == staged[n][b] # Null

In(S, b) == {r \in S : events[r].bucket = b}

\* The grouped sums of the statement, for one group.
TotalOf(S) ==
    [f \in Figures |->
        Sum(S, [r \in Requests |->
                 Contribution(events[r].state, events[r].usage, events[r].cost)[f]])]

StartMaintain(m) ==
    /\ pc[m] = "idle"
    /\ Goto(m, "expire")
    /\ UNCHANGED <<tables, rollup, failures>>

\* Mutations of ExpirePendingUsage: a state the schema does not have, and
\* the statement left out of Maintain.
ExpireAsTimeout(m) ==
    /\ pc[m] = "expire"
    /\ events' = [r \in Requests |->
         IF r \in aged /\ events[r].state = "pending"
         THEN [events[r] EXCEPT !.state = "expired"] ELSE events[r]]
    /\ Goto(m, "rollup")
    /\ UNCHANGED <<daily, latest, aged, rollup, failures>>

ExpireNothing(m) ==
    /\ pc[m] = "expire"
    /\ Goto(m, "rollup")
    /\ UNCHANGED <<tables, rollup, failures>>

ExpirePendingUsage(m) ==
    /\ pc[m] = "expire"
    /\ events' = [r \in Requests |->
         IF r \in aged /\ events[r].state = "pending"
         THEN [events[r] EXCEPT !.state = "incomplete"] ELSE events[r]]
    /\ Goto(m, "rollup")
    /\ UNCHANGED <<daily, latest, aged, rollup, failures>>

\* Mutation of Claimable: without FOR UPDATE SKIP LOCKED.
ClaimableUnlocked == Unrolled

\* Rows another open rollup has locked are skipped, not waited for.
Claimable == Unrolled \ UNION {claimed[m] : m \in Replicas}

ClaimBatch(m, B) ==
    /\ pc[m] = "rollup"
    /\ B \in Batches(Claimable) /\ B # {}
    /\ claimed' = [claimed EXCEPT ![m] = B]
    /\ \E b \in Buckets :
         In(B, b) # {} /\ want' = [want EXCEPT ![m] = b]
    /\ Goto(m, "adding")
    /\ UNCHANGED <<tables, staged, queued, waits, failures>>

NothingToClaim(m) ==
    /\ pc[m] = "rollup"
    /\ Claimable = {}
    /\ Goto(m, "delete")
    /\ UNCHANGED <<tables, rollup, failures>>

(***************************************************************************)
(* ON CONFLICT DO UPDATE of one daily row.  A row that is locked, or that  *)
(* others sleep on already, puts the statement to sleep behind them; the   *)
(* sleepers get the row in the order in which they came.                   *)
(***************************************************************************)
Ahead(m, b) == {n \in Replicas \ {m} : Locked(n, b) \/ (n \in queued /\ want[n] = b)}

Sleep(m) ==
    /\ pc[m] = "adding" /\ want[m] # Null /\ m \notin queued
    /\ Ahead(m, want[m]) # {}
    /\ queued' = queued \cup {m}
    /\ waits' = waits \cup ({m} \X Ahead(m, want[m]))
    /\ UNCHANGED <<tables, pc, claimed, want, staged, failures>>

\* With the row locked, the statement adds to what is committed by now.
AddTotals(m) ==
    LET b == want[m]
        sum == Plus(daily[b], TotalOf(In(claimed[m], b)))
        rest == {c \in Buckets : In(claimed[m], c) # {} /\ c # b /\ ~Locked(m, c)}
    IN  /\ pc[m] = "adding" /\ b # Null
        /\ \A n \in Replicas : ~Locked(n, b)
        /\ \A n \in Ahead(m, b) : m \in queued /\ <<n, m>> \in waits
        /\ \A f \in Figures : sum[f] <= MaxFigure
        /\ staged' = [staged EXCEPT ![m][b] = sum]
        /\ \E next \in IF rest = {} THEN {Null} ELSE rest :
              want' = [want EXCEPT ![m] = next]
        /\ queued' = queued \ {m}
        /\ waits' = {w \in waits : w[1] # m}
        /\ UNCHANGED <<tables, pc, claimed, failures>>

Commit(m) ==
    /\ pc[m] = "adding" /\ want[m] = Null
    /\ events' = [r \in Requests |->
         IF r \in claimed[m] THEN [events[r] EXCEPT !.rolled = TRUE] ELSE events[r]]
    /\ daily' = [b \in Buckets |->
         IF Locked(m, b) THEN staged[m][b] ELSE daily[b]]
    /\ Release(m)
    /\ UNCHANGED <<latest, aged>>

\* The statement updated at least one group, so Maintain runs it again.
RollupBatchDone(m) == Commit(m) /\ Goto(m, "rollup") /\ UNCHANGED failures

\* The rows that retention lets go.
Deletable == {r \in aged : events[r].state \in Outcomes /\ events[r].rolled}

DeleteBatch(m, B) ==
    /\ pc[m] = "delete"
    /\ B \in Batches(Deletable) /\ B # {}
    /\ events' = [r \in Requests |-> IF r \in B THEN Row("deleted") ELSE events[r]]
    /\ aged' = aged \ B
    /\ UNCHANGED <<daily, latest, pc, rollup, failures>>

NothingToDelete(m) ==
    /\ pc[m] = "delete"
    /\ Deletable = {}
    /\ Goto(m, "idle")
    /\ UNCHANGED <<tables, rollup, failures>>
-----------------------------------------------------------------------------
(* What goes wrong.  Maintain returns the error and is not called again    *)
(* before the next hour; an open statement is rolled back.                 *)

Abort(m) ==
    /\ Release(m)
    /\ Goto(m, "idle")
    /\ UNCHANGED tables

\* An error of any statement, or the end of the replica.
StatementFails(m) ==
    /\ pc[m] # "idle"
    /\ failures < MaxFailures
    /\ failures' = failures + 1
    /\ Abort(m)

\* The rollup commits and its answer is lost: Maintain sees an error.
CommitUnseen(m) ==
    /\ failures < MaxFailures
    /\ failures' = failures + 1
    /\ Commit(m)
    /\ Goto(m, "idle")

(***************************************************************************)
(* Replicas that all sleep behind each other.  The database (external)     *)
(* ends one statement of such a cycle.                                     *)
(***************************************************************************)
InCycle(m) ==
    \E C \in SUBSET Replicas :
        /\ m \in C
        /\ \A x \in C : \E y \in C : <<x, y>> \in waits
        /\ \A y \in C : \E x \in C : <<x, y>> \in waits

DeadlockVictim(m) ==
    /\ InCycle(m)
    /\ Abort(m)
    /\ UNCHANGED failures

\* A sum that its column cannot hold fails the whole statement, every hour.
SumOverflows(m) ==
    LET b == want[m]
        sum == Plus(daily[b], TotalOf(In(claimed[m], b)))
    IN  /\ pc[m] = "adding" /\ b # Null
        /\ \A n \in Replicas : ~Locked(n, b)
        /\ \E f \in Figures : sum[f] > MaxFigure
        /\ Abort(m)
        /\ UNCHANGED failures
-----------------------------------------------------------------------------
Statement(m) ==
    \/ ExpirePendingUsage(m)
    \/ \E B \in SUBSET Requests : ClaimBatch(m, B)
    \/ NothingToClaim(m)
    \/ Sleep(m)
    \/ AddTotals(m)
    \/ RollupBatchDone(m)
    \/ \E B \in SUBSET Requests : DeleteBatch(m, B)
    \/ NothingToDelete(m)
    \/ DeadlockVictim(m) \/ SumOverflows(m)

Next ==
    \/ \E m \in Models, p \in Prices : SetPrice(m, p)
    \/ \E r \in Requests, b \in Buckets : BeginUsage(r, b)
    \/ \E r \in Requests, o \in Outcomes, u \in Usages \cup {Null} : FinishUsage(r, o, u)
    \/ \E r \in Requests : SevenDaysPass(r)
    \/ \E m \in Replicas : \/ StartMaintain(m)
                           \/ Statement(m)
                           \/ StatementFails(m)
                           \/ CommitUnseen(m)

(***************************************************************************)
(* Time passes; the hourly timer fires; and the database finishes a        *)
(* statement that it can finish.  No request is forced to finish: the      *)
(* gateway that served it may have crashed.                                *)
(***************************************************************************)
Fairness ==
    /\ \A r \in Requests : WF_vars(SevenDaysPass(r))
    /\ \A m \in Replicas : /\ WF_vars(StartMaintain(m))
                           /\ WF_vars(Statement(m))

Spec == Init /\ [][Next]_vars

FairSpec == Spec /\ Fairness
-----------------------------------------------------------------------------
(* What the portal's usage page shows: one statement adds the daily rows   *)
(* and the terminal rows that are in no daily row yet.                     *)

PortalUsage ==
    [b \in Buckets |-> Plus(daily[b], TotalOf(In(Unrolled, b)))]

Entry(r) ==
    LET row == events[r]
    IN  CASE row.state = "absent"  -> [status |-> "new", bucket |-> Null, price |-> Null]
          [] row.state = "pending" -> [status |-> "open", bucket |-> row.bucket,
                                       price |-> row.price]
          [] OTHER                 -> [status |-> "settled", bucket |-> Null,
                                       price |-> Null]

Book == INSTANCE UsageBook
            WITH open <- [r \in Requests |-> Entry(r)], totals <- PortalUsage

(***************************************************************************)
(* The tables implement the book: each request is counted exactly once in  *)
(* the usage an account is shown, with the outcome it was settled with, at *)
(* the price it began with, whatever replicas roll up, delete, fail or     *)
(* repeat meanwhile.  This is the claim of the comment on Store.Maintain.  *)
(***************************************************************************)
ImplementsBook == Book!Spec

(***************************************************************************)
(* Rows locked by an open rollup are terminal, not rolled up, and locked   *)
(* by that rollup only; a daily row is locked by one rollup at a time, and *)
(* what it staged is the committed row plus its own group.                 *)
(***************************************************************************)
RollupLocks ==
    \A m \in Replicas :
        /\ claimed[m] \subseteq Unrolled
        /\ \A n \in Replicas \ {m} :
              /\ claimed[m] \cap claimed[n] = {}
              /\ \A b \in Buckets : ~(Locked(m, b) /\ Locked(n, b))
        /\ \A b \in Buckets : Locked(m, b) =>
              staged[m][b] = Plus(daily[b], TotalOf(In(claimed[m], b)))

(***************************************************************************)
(* Every request that was recorded is settled, counted and purged in the   *)
(* end, also when the gateway that served it crashed and when replicas     *)
(* deadlock on daily rows.                                                 *)
(***************************************************************************)
EveryRowPurged ==
    \A r \in Requests : events[r].state = "pending" ~> events[r].state = "deleted"
=============================================================================
