------------------------- MODULE UsageLedgerProofs --------------------------
(***************************************************************************)
(* Proofs about UsageLedger for every number of requests, replicas,        *)
(* buckets, prices and every batch size.                                   *)
(***************************************************************************)
EXTENDS UsageLedger, UsageFiguresProofs

-----------------------------------------------------------------------------
(* Type correctness.                                                       *)

\* Totals are natural numbers in every column.
LEMMA TotalOfType ==
    ASSUME NEW S \in SUBSET Requests, NEW d \in Totals
    PROVE  TotalOf(S) \in Totals /\ Plus(d, TotalOf(S)) \in Totals
<1>1. IsFiniteSet(S)
  BY FiguresAssumption, FS_Subset
<1>2. \A n : Sum(S, n) \in Nat
  BY <1>1, SumType
<1>3. TotalOf(S) \in Totals
  BY <1>2 DEF TotalOf, Totals
<1> QED
  BY <1>3 DEF Plus, Totals

\* The updates of an event row keep its type.
LEMMA RowUpdate ==
    ASSUME NEW row \in Rows
    PROVE  /\ [row EXCEPT !.rolled = TRUE] \in Rows
           /\ [row EXCEPT !.state = "incomplete"] \in Rows
           /\ \A o \in Outcomes, u \in Usages \cup {Null}, c \in 0..MaxFigure \cup {Null} :
                [row EXCEPT !.state = o, !.usage = u, !.cost = c] \in Rows
BY DEF Rows, Outcomes

(***************************************************************************)
(* The tables, the locks and the program counters of the ledger keep their *)
(* types: the named rows, columns and statements of the code.              *)
(***************************************************************************)
LEMMA TypeStep == TypeOK /\ [Next]_vars => TypeOK'
<1> SUFFICES ASSUME TypeOK, [Next]_vars PROVE TypeOK'
  OBVIOUS
<1> USE DEF TypeOK
<1>1. ASSUME NEW m \in Models, NEW p \in Prices, SetPrice(m, p) PROVE TypeOK'
  BY <1>1 DEF SetPrice, rollup
<1>2. ASSUME NEW r \in Requests, NEW b \in Buckets, BeginUsage(r, b) PROVE TypeOK'
  <2>1. latest[ModelOf[b]] \in Prices \cup {Null}
    BY FiguresAssumption
  <2>2. [Row("pending") EXCEPT !.bucket = b, !.price = latest[ModelOf[b]]] \in Rows
    BY <2>1 DEF Rows, Row
  <2> QED
    BY <1>2, <2>2 DEF BeginUsage, rollup
<1>3. ASSUME NEW r \in Requests, NEW o \in Outcomes, NEW u \in Usages \cup {Null},
             FinishUsage(r, o, u)
      PROVE  TypeOK'
  <2> DEFINE cost == IF o = "complete" THEN EstimatedCost(events[r].price, u) ELSE Null
  <2>1. cost \in 0..MaxFigure \cup {Null}
    BY <1>3 DEF FinishUsage
  <2>2. events' = [events EXCEPT ![r] =
           [events[r] EXCEPT !.state = o, !.usage = u, !.cost = cost]]
    BY <1>3 DEF FinishUsage
  <2> HIDE DEF cost
  <2>3. [events[r] EXCEPT !.state = o, !.usage = u, !.cost = cost] \in Rows
    BY <2>1, RowUpdate
  <2>4. UNCHANGED <<daily, latest, aged, pc, rollup, failures>>
    BY <1>3 DEF FinishUsage
  <2> QED
    BY <2>2, <2>3, <2>4 DEF rollup
<1>4. ASSUME NEW r \in Requests, SevenDaysPass(r) PROVE TypeOK'
  BY <1>4 DEF SevenDaysPass, rollup
<1>5. ASSUME NEW m \in Replicas, StartMaintain(m) PROVE TypeOK'
  BY <1>5 DEF StartMaintain, Goto, tables, rollup
<1>6. ASSUME NEW m \in Replicas, ExpirePendingUsage(m) PROVE TypeOK'
  <2>1. \A r \in Requests : [events[r] EXCEPT !.state = "incomplete"] \in Rows
    BY RowUpdate DEF Outcomes
  <2> QED
    BY <1>6, <2>1 DEF ExpirePendingUsage, Goto, rollup
<1>7. ASSUME NEW m \in Replicas, NEW B \in SUBSET Requests, ClaimBatch(m, B) PROVE TypeOK'
  BY <1>7 DEF ClaimBatch, Goto, tables
<1>8. ASSUME NEW m \in Replicas, NothingToClaim(m) PROVE TypeOK'
  BY <1>8 DEF NothingToClaim, Goto, tables, rollup
<1>9. ASSUME NEW m \in Replicas, Sleep(m) PROVE TypeOK'
  <2>1. {m} \X Ahead(m, want[m]) \subseteq Replicas \X Replicas
    BY DEF Ahead
  <2> QED
    BY <1>9, <2>1 DEF Sleep, tables
<1>10. ASSUME NEW m \in Replicas, AddTotals(m) PROVE TypeOK'
  <2>1. want[m] \in Buckets
    BY <1>10 DEF AddTotals
  <2>2. Plus(daily[want[m]], TotalOf(In(claimed[m], want[m]))) \in Totals
    BY <2>1, TotalOfType DEF In
  <2>3. staged' \in [Replicas -> [Buckets -> Totals \cup {Null}]]
    BY <1>10, <2>1, <2>2 DEF AddTotals
  <2>4. want' \in [Replicas -> Buckets \cup {Null}]
    BY <1>10 DEF AddTotals
  <2> QED
    BY <1>10, <2>3, <2>4 DEF AddTotals, tables
<1>11. ASSUME NEW m \in Replicas, Commit(m)
       PROVE  /\ events' \in [Requests -> Rows] /\ daily' \in [Buckets -> Totals]
              /\ latest' = latest /\ aged' = aged
              /\ claimed' \in [Replicas -> SUBSET Requests]
              /\ want' \in [Replicas -> Buckets \cup {Null}]
              /\ staged' \in [Replicas -> [Buckets -> Totals \cup {Null}]]
              /\ queued' \subseteq Replicas /\ waits' \subseteq Replicas \X Replicas
  <2>1. \A r \in Requests : [events[r] EXCEPT !.rolled = TRUE] \in Rows
    BY RowUpdate
  <2>2. events' \in [Requests -> Rows]
    BY <1>11, <2>1 DEF Commit
  <2> QED
    BY <1>11, <2>2 DEF Commit, Release, Locked, Nothing
<1>12. ASSUME NEW m \in Replicas, RollupBatchDone(m) PROVE TypeOK'
  BY <1>11, <1>12 DEF RollupBatchDone, Goto
<1>13. ASSUME NEW m \in Replicas, NEW B \in SUBSET Requests, DeleteBatch(m, B) PROVE TypeOK'
  <2>1. Row("deleted") \in Rows
    BY DEF Row, Rows
  <2> QED
    BY <1>13, <2>1 DEF DeleteBatch, rollup
<1>14. ASSUME NEW m \in Replicas, NothingToDelete(m) PROVE TypeOK'
  BY <1>14 DEF NothingToDelete, Goto, tables, rollup
<1>15. ASSUME NEW m \in Replicas, DeadlockVictim(m) \/ SumOverflows(m) PROVE TypeOK'
  <2>1. Abort(m) /\ UNCHANGED failures
    BY <1>15 DEF DeadlockVictim, SumOverflows
  <2> QED
    BY <2>1 DEF Abort, Release, Nothing, Goto, tables
<1>16. ASSUME NEW m \in Replicas, StatementFails(m) PROVE TypeOK'
  BY <1>16, LedgerAssumption DEF StatementFails, Abort, Release, Nothing, Goto, tables
<1>17. ASSUME NEW m \in Replicas, CommitUnseen(m) PROVE TypeOK'
  BY <1>11, <1>17, LedgerAssumption DEF CommitUnseen, Goto
<1>18. CASE UNCHANGED vars
  BY <1>18 DEF vars
<1> QED
  BY <1>1, <1>2, <1>3, <1>4, <1>5, <1>6, <1>7, <1>8, <1>9, <1>10, <1>12, <1>13,
     <1>14, <1>15, <1>16, <1>17, <1>18 DEF Next, Statement
-----------------------------------------------------------------------------
(* The inductive invariant.                                                *)

(***************************************************************************)
(* RollupLocks alone is not inductive: that a commit leaves no group out,  *)
(* and that a statement starts without locks, needs to be known of the     *)
(* program counters; that a settled request was priced and counted in a    *)
(* bucket needs to be known of the rows.                                   *)
(***************************************************************************)
RowsFilled ==
    \A r \in Requests :
        /\ events[r].state \in {"pending"} \cup Outcomes => events[r].bucket \in Buckets
        /\ events[r].state = "pending" =>
              events[r].usage = Null /\ events[r].cost = Null /\ ~events[r].rolled

Phases ==
    \A m \in Replicas :
        /\ pc[m] # "adding" =>
              claimed[m] = {} /\ want[m] = Null /\ \A b \in Buckets : ~Locked(m, b)
        /\ want[m] = Null =>
              \A b \in Buckets : In(claimed[m], b) # {} => Locked(m, b)

LedgerInv == TypeOK /\ RowsFilled /\ Phases /\ RollupLocks

\* The columns of a table of event rows, and the totals of a group of them.
Column(e, f) ==
    [r \in Requests |-> Contribution(e[r].state, e[r].usage, e[r].cost)[f]]

GroupTotal(e, S) == [f \in Figures |-> Sum(S, Column(e, f))]

SameFigures(e1, e2, r) ==
    e1[r].state = e2[r].state /\ e1[r].usage = e2[r].usage /\ e1[r].cost = e2[r].cost

\* Grouped sums only look at the figures of the rows in the group.
LEMMA GroupSame ==
    ASSUME NEW e1, NEW e2, NEW S \in SUBSET Requests, \A r \in S : SameFigures(e1, e2, r)
    PROVE  GroupTotal(e1, S) = GroupTotal(e2, S)
<1>1. ASSUME NEW f \in Figures PROVE Sum(S, Column(e1, f)) = Sum(S, Column(e2, f))
  <2>1. \A r \in S : Column(e1, f)[r] = Column(e2, f)[r]
    BY DEF Column, SameFigures
  <2> HIDE DEF Column
  <2> QED
    BY <2>1, SumSame
<1> QED
  BY <1>1 DEF GroupTotal

\* The totals of the ledger are the totals of a group of its event rows.
LEMMA TotalOfIsGroup ==
    /\ \A S : TotalOf(S) = GroupTotal(events, S)
    /\ \A S : TotalOf(S)' = GroupTotal(events', S')
BY DEF TotalOf, GroupTotal, Column

(***************************************************************************)
(* A step that leaves the daily rows, the locks and the terminal rows not  *)
(* yet rolled up alone keeps the locks consistent.                         *)
(***************************************************************************)
LEMMA LocksFrame ==
    ASSUME TypeOK, RollupLocks, UNCHANGED <<daily, claimed, staged>>,
           \A r \in Unrolled : events'[r] = events[r]
    PROVE  RollupLocks'
<1>1. Unrolled \subseteq Unrolled'
  BY DEF Unrolled
<1>2. ASSUME NEW m \in Replicas, NEW b \in Buckets
      PROVE  /\ In(claimed[m], b)' = In(claimed[m], b)
             /\ TotalOf(In(claimed[m], b))' = TotalOf(In(claimed[m], b))
  <2>1. claimed[m] \subseteq Unrolled /\ claimed[m] \subseteq Requests
    BY DEF RollupLocks, TypeOK
  <2>2. In(claimed[m], b)' = In(claimed[m], b)
    BY <2>1 DEF In
  <2>3. \A r \in In(claimed[m], b) : SameFigures(events', events, r)
    BY <2>1 DEF In, SameFigures
  <2>4. In(claimed[m], b) \in SUBSET Requests
    BY <2>1 DEF In
  <2>5. GroupTotal(events', In(claimed[m], b)) = GroupTotal(events, In(claimed[m], b))
    BY <2>3, <2>4, GroupSame
  <2>6. TotalOf(In(claimed[m], b))' = GroupTotal(events', In(claimed[m], b)')
    BY DEF TotalOf, GroupTotal, Column
  <2>7. TotalOf(In(claimed[m], b)) = GroupTotal(events, In(claimed[m], b))
    BY DEF TotalOf, GroupTotal, Column
  <2> HIDE DEF In, TotalOf, GroupTotal
  <2> QED
    BY <2>2, <2>5, <2>6, <2>7
<1> QED
  BY <1>1, <1>2 DEF RollupLocks, Locked

\* The rows that are filled in stay so.
LEMMA RowsStep == TypeOK /\ RowsFilled /\ RollupLocks /\ Next => RowsFilled'
<1> SUFFICES ASSUME TypeOK, RowsFilled, RollupLocks, Next PROVE RowsFilled'
  OBVIOUS
<1> USE DEF RowsFilled, TypeOK
<1>1. CASE UNCHANGED events
  BY <1>1
<1>2. ASSUME NEW r \in Requests, NEW b \in Buckets, BeginUsage(r, b) PROVE RowsFilled'
  BY <1>2 DEF BeginUsage, Row
<1>3. ASSUME NEW r \in Requests, NEW o \in Outcomes, NEW u \in Usages \cup {Null},
             FinishUsage(r, o, u)
      PROVE  RowsFilled'
  <2>1. events'[r].state = o /\ events'[r].bucket = events[r].bucket
    BY <1>3 DEF FinishUsage, Rows
  <2>2. \A q \in Requests \ {r} : events'[q] = events[q]
    BY <1>3 DEF FinishUsage
  <2>3. events[r].state = "pending"
    BY <1>3 DEF FinishUsage
  <2> QED
    BY <2>1, <2>2, <2>3 DEF Outcomes
<1>4. ASSUME NEW m \in Replicas, ExpirePendingUsage(m) PROVE RowsFilled'
  <2> SUFFICES ASSUME NEW r \in Requests
               PROVE  /\ events'[r].state \in {"pending"} \cup Outcomes => events'[r].bucket \in Buckets
                      /\ events'[r].state = "pending" =>
                            /\ events'[r].usage = Null /\ events'[r].cost = Null
                            /\ ~events'[r].rolled
    OBVIOUS
  <2>1. CASE r \in aged /\ events[r].state = "pending"
    <3>1. events'[r] = [events[r] EXCEPT !.state = "incomplete"]
      BY <1>4, <2>1 DEF ExpirePendingUsage
    <3>2. events'[r].state = "incomplete" /\ events'[r].bucket = events[r].bucket
      BY <3>1 DEF Rows
    <3> QED
      BY <2>1, <3>2
  <2>2. CASE ~(r \in aged /\ events[r].state = "pending")
    BY <1>4, <2>2 DEF ExpirePendingUsage
  <2> QED
    BY <2>1, <2>2
<1>5. ASSUME NEW m \in Replicas, Commit(m) PROVE RowsFilled'
  <2> SUFFICES ASSUME NEW r \in Requests
               PROVE  /\ events'[r].state \in {"pending"} \cup Outcomes => events'[r].bucket \in Buckets
                      /\ events'[r].state = "pending" =>
                            /\ events'[r].usage = Null /\ events'[r].cost = Null
                            /\ ~events'[r].rolled
    OBVIOUS
  <2>1. CASE r \in claimed[m]
    <3>1. events'[r] = [events[r] EXCEPT !.rolled = TRUE]
      BY <1>5, <2>1 DEF Commit
    <3>2. events'[r].state = events[r].state /\ events'[r].bucket = events[r].bucket
      BY <3>1 DEF Rows
    <3>3. events[r].state \in Outcomes
      BY <2>1 DEF RollupLocks, Unrolled
    <3> QED
      BY <3>2, <3>3 DEF Outcomes
  <2>2. CASE r \notin claimed[m]
    BY <1>5, <2>2 DEF Commit
  <2> QED
    BY <2>1, <2>2
<1>6. ASSUME NEW m \in Replicas, NEW B \in SUBSET Requests, DeleteBatch(m, B) PROVE RowsFilled'
  BY <1>6 DEF DeleteBatch, Row, Outcomes
<1> QED
  BY <1>1, <1>2, <1>3, <1>4, <1>5, <1>6
  DEF Next, Statement, SetPrice, SevenDaysPass, StartMaintain, ClaimBatch, NothingToClaim,
      Sleep, AddTotals, RollupBatchDone, NothingToDelete, DeadlockVictim,
      SumOverflows, Abort, StatementFails, CommitUnseen, tables, vars

\* Program counters and locks stay in step.
LEMMA PhasesStep == LedgerInv /\ TypeOK' /\ Next => Phases'
<1> SUFFICES ASSUME LedgerInv, TypeOK', Next PROVE Phases'
  OBVIOUS
<1> USE DEF Phases, LedgerInv, TypeOK
\* Steps that keep the locks and the buckets of the rows locked.
<1>1. ASSUME UNCHANGED <<claimed, want, staged>>,
             \A r \in Unrolled : events'[r] = events[r],
             \A m \in Replicas : pc'[m] # "adding" => pc[m] # "adding"
      PROVE  Phases'
  <2>1. \A m \in Replicas : claimed[m] \subseteq Unrolled
    BY DEF RollupLocks
  <2>2. \A m \in Replicas, b \in Buckets : In(claimed[m], b)' = In(claimed[m], b)
    BY <1>1, <2>1 DEF In
  <2>3. \A m \in Replicas, b \in Buckets : Locked(m, b)' = Locked(m, b)
    BY <1>1 DEF Locked
  <2> QED
    BY <1>1, <2>2, <2>3
\* Statements that end: replica m has no lock left, the others keep theirs.
<1>2. ASSUME NEW m \in Replicas, Release(m),
             \A r \in Unrolled : events'[r].bucket = events[r].bucket,
             \A n \in Replicas \ {m} : pc'[n] = pc[n]
      PROVE  Phases'
  <2>1. \A n \in Replicas : claimed[n] \subseteq Unrolled
    BY DEF RollupLocks
  <2>2. claimed'[m] = {} /\ want'[m] = Null /\ \A b \in Buckets : ~Locked(m, b)'
    BY <1>2 DEF Release, Locked, Nothing
  <2>3. ASSUME NEW n \in Replicas \ {m}
        PROVE  claimed'[n] = claimed[n] /\ want'[n] = want[n] /\ staged'[n] = staged[n]
    BY <1>2 DEF Release
  <2>4. \A n \in Replicas \ {m}, b \in Buckets :
           In(claimed[n], b)' = In(claimed[n], b) /\ Locked(n, b)' = Locked(n, b)
    BY <1>2, <2>1, <2>3 DEF In, Locked
  <2>5. \A b \in Buckets : In(claimed[m], b)' = {}
    BY <2>2 DEF In
  <2> SUFFICES ASSUME NEW x \in Replicas
               PROVE  /\ pc'[x] # "adding" =>
                           /\ claimed'[x] = {} /\ want'[x] = Null
                           /\ \A b \in Buckets : ~Locked(x, b)'
                      /\ want'[x] = Null =>
                           \A b \in Buckets : In(claimed[x], b)' # {} => Locked(x, b)'
    OBVIOUS
  <2>6. CASE x = m
    BY <2>2, <2>5, <2>6
  <2>7. CASE x # m
    BY <1>2, <2>3, <2>4, <2>7
  <2> QED
    BY <2>6, <2>7
<1>3. ASSUME NEW m \in Models, NEW p \in Prices, SetPrice(m, p) PROVE Phases'
  BY <1>1, <1>3 DEF SetPrice, rollup
<1>4. ASSUME NEW r \in Requests, NEW b \in Buckets, BeginUsage(r, b) PROVE Phases'
  BY <1>1, <1>4 DEF BeginUsage, rollup, Unrolled, Outcomes
<1>5. ASSUME NEW r \in Requests, NEW o \in Outcomes, NEW u \in Usages \cup {Null},
             FinishUsage(r, o, u)
      PROVE  Phases'
  BY <1>1, <1>5 DEF FinishUsage, rollup, Unrolled, Outcomes
<1>6. ASSUME NEW r \in Requests, SevenDaysPass(r) PROVE Phases'
  BY <1>1, <1>6 DEF SevenDaysPass, rollup
<1>7. ASSUME NEW m \in Replicas, StartMaintain(m) PROVE Phases'
  BY <1>1, <1>7 DEF StartMaintain, Goto, tables, rollup
<1>8. ASSUME NEW m \in Replicas, ExpirePendingUsage(m) PROVE Phases'
  BY <1>1, <1>8 DEF ExpirePendingUsage, Goto, rollup, Unrolled, Outcomes
<1>9. ASSUME NEW m \in Replicas, NEW B \in SUBSET Requests, ClaimBatch(m, B) PROVE Phases'
  <2>1. pc'[m] = "adding" /\ want'[m] # Null
    BY <1>9, FiguresAssumption DEF ClaimBatch, Goto
  <2>2. \A n \in Replicas \ {m} : /\ claimed'[n] = claimed[n] /\ want'[n] = want[n]
                                   /\ pc'[n] = pc[n]
    BY <1>9 DEF ClaimBatch, Goto
  <2>3. events' = events /\ staged' = staged
    BY <1>9 DEF ClaimBatch, tables
  <2>4. \A n \in Replicas \ {m}, b \in Buckets :
           In(claimed[n], b)' = In(claimed[n], b) /\ Locked(n, b)' = Locked(n, b)
    BY <2>2, <2>3 DEF In, Locked
  <2> QED
    BY <2>1, <2>2, <2>4
<1>10. ASSUME NEW m \in Replicas, NothingToClaim(m) PROVE Phases'
  BY <1>1, <1>10 DEF NothingToClaim, Goto, tables, rollup
<1>11. ASSUME NEW m \in Replicas, Sleep(m) PROVE Phases'
  BY <1>1, <1>11 DEF Sleep, tables
<1>12. ASSUME NEW m \in Replicas, AddTotals(m) PROVE Phases'
  <2>1. want[m] \in Buckets /\ pc[m] = "adding" /\ pc' = pc /\ claimed' = claimed /\ events' = events
    BY <1>12 DEF AddTotals, tables
  <2>2. Plus(daily[want[m]], TotalOf(In(claimed[m], want[m]))) \in Totals
    BY <2>1, TotalOfType DEF In
  <2>3. /\ \A n \in Replicas \ {m} : staged'[n] = staged[n] /\ want'[n] = want[n]
        /\ \A b \in Buckets \ {want[m]} : staged'[m][b] = staged[m][b]
        /\ staged'[m][want[m]] # Null
    BY <1>12, <2>1, <2>2, FiguresAssumption DEF AddTotals
  <2>4. want'[m] = Null =>
          \A c \in Buckets : In(claimed[m], c) # {} /\ c # want[m] => Locked(m, c)
    BY <1>12, <2>1, FiguresAssumption DEF AddTotals
  <2>5. \A n \in Replicas, b \in Buckets : In(claimed[n], b)' = In(claimed[n], b)
    BY <2>1 DEF In
  <2> SUFFICES ASSUME NEW x \in Replicas
               PROVE  /\ pc'[x] # "adding" =>
                           /\ claimed'[x] = {} /\ want'[x] = Null
                           /\ \A b \in Buckets : ~Locked(x, b)'
                      /\ want'[x] = Null =>
                           \A b \in Buckets : In(claimed[x], b)' # {} => Locked(x, b)'
    OBVIOUS
  <2>6. CASE x = m
    BY <2>1, <2>3, <2>4, <2>5, <2>6 DEF Locked
  <2>7. CASE x # m
    BY <2>1, <2>3, <2>5, <2>7 DEF Locked
  <2> QED
    BY <2>6, <2>7
<1>13. ASSUME NEW m \in Replicas, Commit(m), \A n \in Replicas \ {m} : pc'[n] = pc[n]
       PROVE  Phases'
  <2>1. \A r \in Requests : events'[r].bucket = events[r].bucket
    BY <1>13 DEF Commit, Rows
  <2> QED
    BY <1>2, <1>13, <2>1 DEF Commit, Unrolled
<1>14. ASSUME NEW m \in Replicas, RollupBatchDone(m) PROVE Phases'
  BY <1>13, <1>14 DEF RollupBatchDone, Goto
<1>15. ASSUME NEW m \in Replicas, NEW B \in SUBSET Requests, DeleteBatch(m, B) PROVE Phases'
  BY <1>1, <1>15 DEF DeleteBatch, rollup, Unrolled, Batches, Deletable
<1>16. ASSUME NEW m \in Replicas, NothingToDelete(m) PROVE Phases'
  BY <1>1, <1>16 DEF NothingToDelete, Goto, tables, rollup
<1>17. ASSUME NEW m \in Replicas, Abort(m) PROVE Phases'
  BY <1>2, <1>17 DEF Abort, Goto, tables
<1>18. ASSUME NEW m \in Replicas, DeadlockVictim(m) \/ SumOverflows(m) \/ StatementFails(m)
       PROVE  Phases'
  BY <1>17, <1>18 DEF DeadlockVictim, SumOverflows, StatementFails
<1>19. ASSUME NEW m \in Replicas, CommitUnseen(m) PROVE Phases'
  BY <1>13, <1>19 DEF CommitUnseen, Goto
<1> QED
  BY <1>3, <1>4, <1>5, <1>6, <1>7, <1>8, <1>9, <1>10, <1>11, <1>12, <1>14, <1>15, <1>16,
     <1>18, <1>19 DEF Next, Statement

\* Rows stay locked by one rollup, which has staged what it will commit.
LEMMA LocksStep == LedgerInv /\ TypeOK' /\ Next => RollupLocks'
<1> SUFFICES ASSUME LedgerInv, TypeOK', Next PROVE RollupLocks'
  OBVIOUS
<1> USE DEF LedgerInv
\* A statement of m ends.  The daily rows m held may have been rewritten.
<1>1. ASSUME NEW m \in Replicas, Release(m),
             \A r \in Requests : SameFigures(events', events, r)
                                /\ events'[r].bucket = events[r].bucket,
             \A r \in Unrolled \ claimed[m] : events'[r] = events[r],
             \A b \in Buckets : daily'[b] # daily[b] => Locked(m, b)
      PROVE  RollupLocks'
  <2>1. claimed'[m] = {} /\ \A b \in Buckets : ~Locked(m, b)'
    BY <1>1 DEF Release, Locked, Nothing, TypeOK
  <2>2. \A n \in Replicas \ {m} : claimed'[n] = claimed[n] /\ staged'[n] = staged[n]
    BY <1>1 DEF Release, TypeOK
  <2>3. \A n \in Replicas \ {m}, b \in Buckets : Locked(n, b)' = Locked(n, b)
    BY <2>2 DEF Locked
  <2>4. \A n \in Replicas \ {m} : claimed'[n] \subseteq Unrolled'
    <3> SUFFICES ASSUME NEW n \in Replicas \ {m}, NEW r \in claimed[n] PROVE r \in Unrolled'
      BY <2>2
    <3>1. r \in Unrolled \ claimed[m]
      BY DEF RollupLocks
    <3> QED
      BY <1>1, <3>1 DEF Unrolled
  <2>5. ASSUME NEW n \in Replicas \ {m}, NEW b \in Buckets, Locked(n, b)
        PROVE  staged'[n][b] = Plus(daily[b], TotalOf(In(claimed[n], b)))'
    <3>1. staged[n][b] = Plus(daily[b], TotalOf(In(claimed[n], b))) /\ daily'[b] = daily[b]
      BY <1>1, <2>5 DEF RollupLocks
    <3>2. In(claimed[n], b) \in SUBSET Requests
      BY DEF In, TypeOK
    <3>3. In(claimed[n], b)' = In(claimed[n], b)
      BY <1>1, <2>2, <3>2 DEF In, TypeOK
    <3>4. GroupTotal(events', In(claimed[n], b)) = GroupTotal(events, In(claimed[n], b))
      BY <1>1, <3>2, GroupSame
    <3>5. TotalOf(In(claimed[n], b))' = GroupTotal(events', In(claimed[n], b)')
      BY DEF TotalOf, GroupTotal, Column
    <3>6. TotalOf(In(claimed[n], b)) = GroupTotal(events, In(claimed[n], b))
      BY DEF TotalOf, GroupTotal, Column
    <3>7. TotalOf(In(claimed[n], b))' = TotalOf(In(claimed[n], b))
      BY <3>3, <3>4, <3>5, <3>6, Zenon
    <3> QED
      BY <2>2, <3>1, <3>7 DEF Plus
  <2> QED
    BY <2>1, <2>2, <2>3, <2>4, <2>5 DEF RollupLocks
<1>2. ASSUME NEW m \in Models, NEW p \in Prices, SetPrice(m, p) PROVE RollupLocks'
  BY <1>2, LocksFrame DEF SetPrice, rollup
<1>3. ASSUME NEW r \in Requests, NEW b \in Buckets, BeginUsage(r, b) PROVE RollupLocks'
  BY <1>3, LocksFrame DEF BeginUsage, rollup, Unrolled, Outcomes, TypeOK
<1>4. ASSUME NEW r \in Requests, NEW o \in Outcomes, NEW u \in Usages \cup {Null},
             FinishUsage(r, o, u)
      PROVE  RollupLocks'
  BY <1>4, LocksFrame DEF FinishUsage, rollup, Unrolled, Outcomes, TypeOK
<1>5. ASSUME NEW r \in Requests, SevenDaysPass(r) PROVE RollupLocks'
  BY <1>5, LocksFrame DEF SevenDaysPass, rollup
<1>6. ASSUME NEW m \in Replicas, StartMaintain(m) PROVE RollupLocks'
  BY <1>6, LocksFrame DEF StartMaintain, tables, rollup
<1>7. ASSUME NEW m \in Replicas, ExpirePendingUsage(m) PROVE RollupLocks'
  BY <1>7, LocksFrame DEF ExpirePendingUsage, rollup, Unrolled, Outcomes
<1>8. ASSUME NEW m \in Replicas, NEW B \in SUBSET Requests, ClaimBatch(m, B) PROVE RollupLocks'
  <2>1. B \subseteq Claimable /\ events' = events /\ daily' = daily /\ staged' = staged
    BY <1>8 DEF ClaimBatch, Batches, tables
  <2>2. claimed' = [claimed EXCEPT ![m] = B]
    BY <1>8 DEF ClaimBatch
  <2>3. \A b \in Buckets : ~Locked(m, b)
    BY <1>8 DEF Phases, ClaimBatch
  <2>4. \A n \in Replicas, b \in Buckets : Locked(n, b)' = Locked(n, b)
    BY <2>1 DEF Locked
  <2>5. Unrolled' = Unrolled
    BY <2>1 DEF Unrolled
  <2>6. \A n \in Replicas \ {m} : claimed'[n] = claimed[n]
    BY <2>2 DEF TypeOK
  <2>7. claimed'[m] = B
    BY <2>2 DEF TypeOK
  <2>8. \A n \in Replicas \ {m}, b \in Buckets :
          Plus(daily[b], TotalOf(In(claimed[n], b)))' = Plus(daily[b], TotalOf(In(claimed[n], b)))
    BY <2>1, <2>6 DEF Plus, TotalOf, In
  <2>9. \A n \in Replicas : B \cap claimed[n] = {} /\ B \subseteq Unrolled
    BY <2>1 DEF Claimable
  <2> QED
    BY <2>1, <2>3, <2>4, <2>5, <2>6, <2>7, <2>8, <2>9 DEF RollupLocks
<1>9. ASSUME NEW m \in Replicas, NothingToClaim(m) PROVE RollupLocks'
  BY <1>9, LocksFrame DEF NothingToClaim, tables, rollup
<1>10. ASSUME NEW m \in Replicas, Sleep(m) PROVE RollupLocks'
  BY <1>10, LocksFrame DEF Sleep, tables
<1>11. ASSUME NEW m \in Replicas, AddTotals(m) PROVE RollupLocks'
  <2>1. want[m] \in Buckets /\ claimed' = claimed /\ events' = events /\ daily' = daily
    BY <1>11 DEF AddTotals, tables, TypeOK
  <2>2. \A n \in Replicas : ~Locked(n, want[m])
    BY <1>11 DEF AddTotals
  <2>3. /\ staged'[m][want[m]] = Plus(daily[want[m]], TotalOf(In(claimed[m], want[m])))
        /\ \A b \in Buckets \ {want[m]} : staged'[m][b] = staged[m][b]
        /\ \A n \in Replicas \ {m} : staged'[n] = staged[n]
    BY <1>11, <2>1 DEF AddTotals, TypeOK
  <2>4. \A n \in Replicas, b \in Buckets :
          Plus(daily[b], TotalOf(In(claimed[n], b)))' = Plus(daily[b], TotalOf(In(claimed[n], b)))
    BY <2>1 DEF Plus, TotalOf, In
  <2>5. Unrolled' = Unrolled
    BY <2>1 DEF Unrolled
  <2>6. \A n \in Replicas, b \in Buckets :
          Locked(n, b)' => Locked(n, b) \/ (n = m /\ b = want[m])
    BY <2>3 DEF Locked
  <2> QED
    BY <2>1, <2>2, <2>3, <2>4, <2>5, <2>6 DEF RollupLocks
<1>12. ASSUME NEW m \in Replicas, Commit(m) PROVE RollupLocks'
  <2>1. Release(m)
    BY <1>12 DEF Commit
  <2>2. \A r \in Requests : SameFigures(events', events, r) /\ events'[r].bucket = events[r].bucket
    BY <1>12 DEF Commit, SameFigures, TypeOK, Rows
  <2>3. \A r \in Unrolled \ claimed[m] : events'[r] = events[r]
    BY <1>12 DEF Commit, Unrolled
  <2>4. \A b \in Buckets : daily'[b] # daily[b] => Locked(m, b)
    BY <1>12 DEF Commit
  <2> QED
    BY <1>1, <2>1, <2>2, <2>3, <2>4
<1>13. ASSUME NEW m \in Replicas, NEW B \in SUBSET Requests, DeleteBatch(m, B) PROVE RollupLocks'
  BY <1>13, LocksFrame DEF DeleteBatch, rollup, Unrolled, Batches, Deletable
<1>14. ASSUME NEW m \in Replicas, NothingToDelete(m) PROVE RollupLocks'
  BY <1>14, LocksFrame DEF NothingToDelete, tables, rollup
<1>15. ASSUME NEW m \in Replicas, Abort(m) PROVE RollupLocks'
  BY <1>1, <1>15 DEF Abort, tables, SameFigures
<1> QED
  BY <1>2, <1>3, <1>4, <1>5, <1>6, <1>7, <1>8, <1>9, <1>10, <1>11, <1>12, <1>13, <1>14, <1>15
  DEF Next, Statement, RollupBatchDone, CommitUnseen, DeadlockVictim, SumOverflows,
      StatementFails

(***************************************************************************)
(* The ledger keeps its types: only the rows, outcomes, statements and     *)
(* bounded figures of the code ever occur.                                 *)
(***************************************************************************)
THEOREM TypeCorrect == Spec => []TypeOK
<1>1. Init => TypeOK
  BY LedgerAssumption DEF Init, TypeOK, Row, Rows, NoTotals, Totals, Nothing
<1> QED
  BY <1>1, TypeStep, PTL DEF Spec

\* Every statement of every replica keeps the invariant.
LEMMA InvStep == LedgerInv /\ [Next]_vars => LedgerInv'
<1> SUFFICES ASSUME LedgerInv, [Next]_vars PROVE LedgerInv'
  OBVIOUS
<1>1. TypeOK'
  BY TypeStep DEF LedgerInv
<1>2. CASE Next
  BY <1>1, <1>2, RowsStep, PhasesStep, LocksStep DEF LedgerInv
<1>3. CASE UNCHANGED vars
  <2>1. RowsFilled' /\ RollupLocks'
    BY <1>3, LocksFrame DEF vars, RowsFilled, LedgerInv
  <2>2. \A m \in Replicas, b \in Buckets :
           In(claimed[m], b)' = In(claimed[m], b) /\ Locked(m, b)' = Locked(m, b)
    BY <1>3 DEF vars, In, Locked
  <2>3. Phases'
    BY <1>3, <2>2 DEF vars, Phases, LedgerInv
  <2> QED
    BY <1>1, <2>1, <2>3 DEF LedgerInv
<1> QED
  BY <1>2, <1>3

\* Empty tables satisfy the invariant.
LEMMA InvInit == Init => LedgerInv
<1> SUFFICES ASSUME Init PROVE LedgerInv
  OBVIOUS
<1>1. TypeOK
  BY LedgerAssumption DEF Init, TypeOK, Row, Rows, NoTotals, Totals, Nothing
<1>2. \A r \in Requests : events[r].state = "absent"
  BY DEF Init, Row
<1>3. RowsFilled
  BY <1>2 DEF RowsFilled, Outcomes
<1>4. \A m \in Replicas : /\ claimed[m] = {} /\ want[m] = Null
                          /\ \A b \in Buckets : ~Locked(m, b) /\ In(claimed[m], b) = {}
  BY DEF Init, Locked, Nothing, In
<1>5. Phases
  BY <1>4 DEF Phases
<1>6. RollupLocks
  BY <1>4 DEF RollupLocks
<1> QED
  BY <1>1, <1>3, <1>5, <1>6 DEF LedgerInv

\* The invariant holds in every state of the ledger.
LEMMA LedgerInvariant == Spec => []LedgerInv
  BY InvInit, InvStep, PTL DEF Spec

(***************************************************************************)
(* FOR UPDATE SKIP LOCKED and the lock that an upsert takes keep rollups   *)
(* of different replicas apart: no event row is claimed twice, and no      *)
(* daily row is overwritten with a sum that misses another rollup.         *)
(***************************************************************************)
THEOREM LocksHeld == Spec => []RollupLocks
<1>1. LedgerInv => RollupLocks
  BY DEF LedgerInv
<1> QED
  BY <1>1, LedgerInvariant, PTL
-----------------------------------------------------------------------------
(* The tables implement the book.                                          *)

UnrolledIn(e, b) ==
    {r \in Requests : e[r].state \in Outcomes /\ ~e[r].rolled /\ e[r].bucket = b}

\* What the portal shows of a bucket, before and after a step.
LEMMA PortalShows ==
    ASSUME NEW b \in Buckets
    PROVE  /\ PortalUsage[b] = Plus(daily[b], GroupTotal(events, UnrolledIn(events, b)))
           /\ PortalUsage'[b] = Plus(daily'[b], GroupTotal(events', UnrolledIn(events', b)))
<1>1. In(Unrolled, b) = UnrolledIn(events, b) /\ In(Unrolled, b)' = UnrolledIn(events', b)
  BY DEF In, Unrolled, UnrolledIn
<1>2. /\ TotalOf(In(Unrolled, b)) = GroupTotal(events, In(Unrolled, b))
      /\ TotalOf(In(Unrolled, b))' = GroupTotal(events', In(Unrolled, b)')
  BY DEF TotalOf, GroupTotal, Column
<1>3. /\ TotalOf(In(Unrolled, b)) = GroupTotal(events, UnrolledIn(events, b))
      /\ TotalOf(In(Unrolled, b))' = GroupTotal(events', UnrolledIn(events', b))
  BY <1>1, <1>2, Zenon
<1>4. /\ PortalUsage[b] = Plus(daily[b], TotalOf(In(Unrolled, b)))
      /\ PortalUsage'[b] = Plus(daily'[b], TotalOf(In(Unrolled, b))')
  BY DEF PortalUsage, Plus
<1> QED
  BY <1>3, <1>4, Zenon

\* Groups have totals, and disjoint groups add up column by column.
LEMMA GroupType ==
    ASSUME NEW e, NEW S \in SUBSET Requests
    PROVE  IsFiniteSet(S) /\ GroupTotal(e, S) \in Totals
<1>1. IsFiniteSet(S)
  BY FiguresAssumption, FS_Subset
<1> QED
  BY <1>1, SumType DEF GroupTotal, Totals

\* The total of two disjoint groups is the sum of their totals.
LEMMA GroupUnion ==
    ASSUME NEW e, NEW S \in SUBSET Requests, NEW T \in SUBSET Requests, S \cap T = {}
    PROVE  GroupTotal(e, S \cup T) = Plus(GroupTotal(e, S), GroupTotal(e, T))
<1>1. IsFiniteSet(S) /\ IsFiniteSet(T)
  BY GroupType
<1>2. \A f \in Figures : Sum(S \cup T, Column(e, f)) = Sum(S, Column(e, f)) + Sum(T, Column(e, f))
  BY <1>1, SumUnion
<1> QED
  BY <1>2 DEF GroupTotal, Plus

\* Adding totals is associative and commutative.
LEMMA PlusFacts ==
    ASSUME NEW x \in Totals, NEW y \in Totals, NEW z \in Totals
    PROVE  /\ Plus(x, y) \in Totals
           /\ Plus(Plus(x, y), z) = Plus(x, Plus(y, z))
           /\ Plus(x, y) = Plus(y, x)
BY DEF Plus, Totals

\* Rows that are not awaiting a rollup do not show.
LEMMA PortalFrame ==
    ASSUME daily' = daily,
           \A r \in Requests : \/ events'[r] = events[r]
                               \/ r \notin Unrolled /\ r \notin Unrolled'
    PROVE  PortalUsage' = PortalUsage
<1>1. ASSUME NEW b \in Buckets PROVE PortalUsage'[b] = PortalUsage[b]
  <2>1. UnrolledIn(events', b) = UnrolledIn(events, b)
    BY DEF UnrolledIn, Unrolled
  <2>2. \A r \in UnrolledIn(events, b) : SameFigures(events', events, r)
    BY DEF UnrolledIn, Unrolled, SameFigures
  <2>3. UnrolledIn(events, b) \in SUBSET Requests
    BY DEF UnrolledIn
  <2>4. GroupTotal(events', UnrolledIn(events, b)) = GroupTotal(events, UnrolledIn(events, b))
    BY <2>2, <2>3, GroupSame
  <2>5. GroupTotal(events', UnrolledIn(events', b)) = GroupTotal(events, UnrolledIn(events, b))
    BY <2>1, <2>4, Zenon
  <2> QED
    BY <2>5, PortalShows, Zenon
<1>2. /\ PortalUsage = [b \in Buckets |-> PortalUsage[b]]
      /\ PortalUsage' = [b \in Buckets |-> PortalUsage'[b]]
  BY DEF PortalUsage
<1> QED
  BY <1>1, <1>2

(***************************************************************************)
(* A committed rollup moves totals from the event rows to the daily rows   *)
(* and shows nowhere.                                                      *)
(***************************************************************************)
LEMMA CommitInvisible ==
    ASSUME LedgerInv, NEW m \in Replicas, Commit(m)
    PROVE  PortalUsage' = PortalUsage
<1> USE DEF LedgerInv
<1>1. ASSUME NEW b \in Buckets PROVE PortalUsage'[b] = PortalUsage[b]
  <2> DEFINE C == In(claimed[m], b)
             U == UnrolledIn(events, b)
             V == UnrolledIn(events', b)
  <2>1. C \subseteq U /\ U \subseteq Requests
    BY DEF RollupLocks, Unrolled, UnrolledIn, In
  <2>2. \A r \in Requests :
          /\ SameFigures(events', events, r)
          /\ events'[r].bucket = events[r].bucket
          /\ events'[r].rolled = (events[r].rolled \/ r \in claimed[m])
    <3>1. events \in [Requests -> Rows]
      BY DEF TypeOK
    <3>2. ASSUME NEW row \in Rows
          PROVE  /\ row.rolled \in BOOLEAN
                 /\ LET new == [row EXCEPT !.rolled = TRUE]
                    IN  /\ new.state = row.state /\ new.usage = row.usage
                        /\ new.cost = row.cost /\ new.bucket = row.bucket
                        /\ new.rolled = TRUE
      BY DEF Rows
    <3>3. ASSUME NEW r \in Requests
          PROVE  events'[r] = IF r \in claimed[m] THEN [events[r] EXCEPT !.rolled = TRUE]
                              ELSE events[r]
      BY DEF Commit
    <3>4. ASSUME NEW r \in Requests
          PROVE  /\ SameFigures(events', events, r)
                 /\ events'[r].bucket = events[r].bucket
                 /\ events'[r].rolled = (events[r].rolled \/ r \in claimed[m])
      <4>1. CASE r \in claimed[m]
        <5>1. /\ events[r] \in Rows
              /\ events'[r] = [events[r] EXCEPT !.rolled = TRUE]
          BY <3>1, <3>3, <4>1
        <5> DEFINE new == [events[r] EXCEPT !.rolled = TRUE]
        <5>2. /\ new.state = events[r].state /\ new.usage = events[r].usage
              /\ new.cost = events[r].cost /\ new.bucket = events[r].bucket /\ new.rolled = TRUE
          BY <3>2, <5>1
        <5> HIDE DEF new
        <5> QED
          BY <4>1, <5>1, <5>2 DEF SameFigures, new
      <4>2. CASE r \notin claimed[m]
        BY <3>1, <3>2, <3>3, <4>2 DEF SameFigures
      <4> QED
        BY <4>1, <4>2
    <3> QED
      BY <3>4
  <2>3. V = U \ C
    BY <2>2 DEF UnrolledIn, In, SameFigures
  <2>4. daily'[b] = Plus(daily[b], GroupTotal(events, C))
    <3>1. CASE Locked(m, b)
      <4>1. daily'[b] = Plus(daily[b], TotalOf(C))
        BY <3>1 DEF Commit, RollupLocks
      <4> QED
        BY <4>1 DEF TotalOf, GroupTotal, Column
    <3>2. CASE ~Locked(m, b)
      <4>1. C = {} /\ daily'[b] = daily[b]
        BY <3>2 DEF Commit, Phases
      <4>2. \A f \in Figures : Sum({}, Column(events, f)) = 0
        <5>1. \A n : Units({}, n) = {}
          BY DEF Units
        <5> QED
          BY <5>1, FS_EmptySet DEF Sum
      <4>3. daily[b] \in Totals
        BY DEF TypeOK
      <4> QED
        BY <4>1, <4>2, <4>3 DEF GroupTotal, Plus, Totals
    <3> QED
      BY <3>1, <3>2
  <2> HIDE DEF C, U, V
  <2>5. C \in SUBSET Requests /\ V \in SUBSET Requests /\ C \cap V = {} /\ U = C \cup V
    BY <2>1, <2>3
  <2>6. GroupTotal(events, U) = Plus(GroupTotal(events, C), GroupTotal(events, V))
    <3>1. GroupTotal(events, C \cup V) = Plus(GroupTotal(events, C), GroupTotal(events, V))
      BY <2>5, GroupUnion
    <3> QED
      BY <2>5, <3>1, Zenon
  <2>7. GroupTotal(events', V) = GroupTotal(events, V)
    BY <2>2, <2>5, GroupSame
  <2>8. daily[b] \in Totals /\ GroupTotal(events, C) \in Totals /\ GroupTotal(events, V) \in Totals
    BY <2>5, GroupType DEF TypeOK
  <2>9. Plus(Plus(daily[b], GroupTotal(events, C)), GroupTotal(events, V))
         = Plus(daily[b], Plus(GroupTotal(events, C), GroupTotal(events, V)))
    BY <2>8, PlusFacts
  <2>10. /\ PortalUsage[b] = Plus(daily[b], GroupTotal(events, U))
         /\ PortalUsage'[b] = Plus(daily'[b], GroupTotal(events', V))
    BY PortalShows DEF U, V
  <2> QED
    BY <2>4, <2>6, <2>7, <2>9, <2>10, Zenon
<1>2. /\ PortalUsage = [b \in Buckets |-> PortalUsage[b]]
      /\ PortalUsage' = [b \in Buckets |-> PortalUsage'[b]]
  BY DEF PortalUsage
<1> QED
  BY <1>1, <1>2

\* A finished request is settled in the book.
LEMMA FinishSettles ==
    ASSUME LedgerInv, TypeOK', NEW r \in Requests, NEW o \in Outcomes,
           NEW u \in Usages \cup {Null}, FinishUsage(r, o, u)
    PROVE  Book!Settle(r, o, u)
<1> USE DEF LedgerInv
<1> DEFINE c == IF o = "complete" THEN EstimatedCost(events[r].price, u) ELSE Null
           k == events[r].bucket
<1>1. /\ events[r].state = "pending" /\ k \in Buckets /\ ~events[r].rolled
      /\ (o = "complete") <=> u # Null
  BY DEF FinishUsage, RowsFilled
<1>2. /\ events'[r].state = o /\ events'[r].usage = u /\ events'[r].cost = c
      /\ events'[r].bucket = k /\ ~events'[r].rolled
      /\ \A q \in Requests \ {r} : events'[q] = events[q]
  BY <1>1 DEF FinishUsage, TypeOK, Rows
<1>3. daily' = daily /\ latest' = latest /\ c \in 0..MaxFigure \cup {Null}
  BY DEF FinishUsage
<1>4. c = IF u = Null THEN Null ELSE EstimatedCost(events[r].price, u)
  BY <1>1
<1> HIDE DEF c, k
<1>5. [q \in Requests |-> Entry(q)]' = [[q \in Requests |-> Entry(q)] EXCEPT ![r] =
         [status |-> "settled", bucket |-> Null, price |-> Null]]
  <2>1. \A q \in Requests \ {r} : Entry(q)' = Entry(q)
    BY <1>2 DEF Entry
  <2>2. Entry(r)' = [status |-> "settled", bucket |-> Null, price |-> Null]
    BY <1>2 DEF Entry, Outcomes
  <2> QED
    BY <2>1, <2>2
<1>6. Entry(r) = [status |-> "open", bucket |-> k, price |-> events[r].price]
  BY <1>1 DEF Entry, k
<1>7. ASSUME NEW b \in Buckets \ {k} PROVE PortalUsage'[b] = PortalUsage[b]
  <2>1. UnrolledIn(events', b) = UnrolledIn(events, b)
    BY <1>1, <1>2, <1>7 DEF UnrolledIn, k
  <2>2. \A q \in UnrolledIn(events, b) : q \in Requests \ {r}
    BY <1>1, <1>7 DEF UnrolledIn, k
  <2>3. \A q \in UnrolledIn(events, b) : SameFigures(events', events, q)
    BY <1>2, <2>2 DEF SameFigures
  <2>4. GroupTotal(events', UnrolledIn(events, b)) = GroupTotal(events, UnrolledIn(events, b))
    BY <2>2, <2>3, GroupSame
  <2>5. GroupTotal(events', UnrolledIn(events', b)) = GroupTotal(events, UnrolledIn(events, b))
    BY <2>1, <2>4, Zenon
  <2> QED
    BY <1>3, <2>5, PortalShows, Zenon
<1>8. PortalUsage'[k] = Plus(PortalUsage[k], Contribution(o, u, c))
  <2> DEFINE U == UnrolledIn(events, k)
  <2>1. UnrolledIn(events', k) = U \cup {r} /\ r \notin U /\ U \in SUBSET Requests
    BY <1>1, <1>2 DEF UnrolledIn, Outcomes
  <2>2. \A q \in U : SameFigures(events', events, q)
    BY <1>2, <2>1 DEF SameFigures
  <2> HIDE DEF U
  <2>3. GroupTotal(events', U \cup {r}) = Plus(GroupTotal(events', U), GroupTotal(events', {r}))
    <3>1. {r} \in SUBSET Requests /\ U \cap {r} = {}
      BY <2>1
    <3> QED
      BY <2>1, <3>1, GroupUnion
  <2>4. GroupTotal(events', U) = GroupTotal(events, U)
    BY <2>1, <2>2, GroupSame
  <2>5. GroupTotal(events', {r}) = Contribution(o, u, c)
    <3>1. ASSUME NEW f \in Figures
          PROVE  Sum({r}, Column(events', f)) = Contribution(o, u, c)[f]
      <4>1. Column(events', f)[r] = Contribution(o, u, c)[f]
        BY <1>2 DEF Column
      <4>2. Contribution(o, u, c)[f] \in 0..MaxFigure
        BY <1>3, ContributionType
      <4> QED
        BY <4>1, <4>2, SumOne
    <3>2. Contribution(o, u, c) = [f \in Figures |-> Contribution(o, u, c)[f]]
      BY <1>3, ContributionTotals DEF Totals
    <3> QED
      BY <3>1, <3>2 DEF GroupTotal
  <2>6. /\ daily[k] \in Totals /\ GroupTotal(events, U) \in Totals
        /\ Contribution(o, u, c) \in Totals
    <3>1. GroupTotal(events', {r}) \in Totals
      BY GroupType
    <3> QED
      BY <1>1, <2>1, <2>5, <3>1, GroupType DEF TypeOK
  <2>7. Plus(daily[k], Plus(GroupTotal(events, U), Contribution(o, u, c)))
         = Plus(Plus(daily[k], GroupTotal(events, U)), Contribution(o, u, c))
    BY <2>6, PlusFacts
  <2>8. GroupTotal(events', UnrolledIn(events', k)) = Plus(GroupTotal(events, U), Contribution(o, u, c))
    BY <2>1, <2>3, <2>4, <2>5, Zenon
  <2>9. /\ PortalUsage[k] = Plus(daily[k], GroupTotal(events, U))
        /\ PortalUsage'[k] = Plus(daily'[k], GroupTotal(events', UnrolledIn(events', k)))
    BY <1>1, PortalShows DEF U
  <2> QED
    BY <1>3, <2>7, <2>8, <2>9, Zenon
<1>9. PortalUsage' = [PortalUsage EXCEPT ![k] = Plus(@, Contribution(o, u, c))]
  <2>1. /\ PortalUsage = [b \in Buckets |-> PortalUsage[b]]
        /\ PortalUsage' = [b \in Buckets |-> PortalUsage'[b]]
    BY DEF PortalUsage
  <2> QED
    BY <1>1, <1>7, <1>8, <2>1
<1>10. /\ Book!Contribution(o, u, c) = Contribution(o, u, c)
       /\ Book!EstimatedCost(events[r].price, u) = EstimatedCost(events[r].price, u)
       /\ \A x, y : Book!Plus(x, y) = Plus(x, y)
  BY DEF Book!Contribution, Contribution, Book!Figures, Figures, Book!EstimatedCost,
         EstimatedCost, Book!Plus, Plus
<1>11. [q \in Requests |-> Entry(q)][r] = Entry(r)
  OBVIOUS
<1>12. /\ [q \in Requests |-> Entry(q)][r].status = "open"
       /\ [q \in Requests |-> Entry(q)][r].bucket = k
       /\ [q \in Requests |-> Entry(q)][r].price = events[r].price
  BY <1>6, <1>11
<1>13. PortalUsage' = [PortalUsage EXCEPT ![k] = Book!Plus(@, Book!Contribution(o, u, c))]
  BY <1>9, <1>10
<1>14. c = IF u = Null THEN Null ELSE Book!EstimatedCost(events[r].price, u)
  BY <1>4, <1>10
<1>15. PortalUsage' = [PortalUsage EXCEPT ![[q \in Requests |-> Entry(q)][r].bucket] =
          Book!Plus(@, Book!Contribution(o, u,
              IF u = Null THEN Null
              ELSE Book!EstimatedCost([q \in Requests |-> Entry(q)][r].price, u)))]
  BY <1>12, <1>13, <1>14
<1> HIDE DEF Entry, PortalUsage
<1> QED
  BY <1>3, <1>5, <1>12, <1>15 DEF Book!Settle, Book!Entering

\* The book counts sets as the ledger does.
LEMMA BookCardinality == \A S : Book!Cardinality(S) = Cardinality(S)
  BY DEF Book!Cardinality, Cardinality, Book!IsFiniteSet, IsFiniteSet

\* Expired rows lapse in the book.
LEMMA ExpireLapses ==
    ASSUME LedgerInv, TypeOK', NEW m \in Replicas, ExpirePendingUsage(m)
    PROVE  Book!Lapse({r \in aged : events[r].state = "pending"})
<1> USE DEF LedgerInv
<1> DEFINE L == {r \in aged : events[r].state = "pending"}
           o == [r \in Requests |-> Entry(r)]
<1>1. L \in SUBSET Requests /\ daily' = daily /\ latest' = latest
  BY DEF ExpirePendingUsage, TypeOK
<1>2. \A r \in L : /\ events[r].bucket \in Buckets
                   /\ events'[r].bucket = events[r].bucket /\ ~events'[r].rolled
                   /\ events'[r].state = "incomplete"
                   /\ events'[r].usage = Null /\ events'[r].cost = Null
  BY DEF ExpirePendingUsage, TypeOK, Rows, RowsFilled
<1>3. \A r \in Requests \ L : events'[r] = events[r]
  BY DEF ExpirePendingUsage
<1>4. \A r \in L : o[r].status = "open" /\ o[r].bucket = events[r].bucket
  BY <1>1 DEF Entry
<1>5. o' = [r \in Requests |->
              IF r \in L THEN [status |-> "settled", bucket |-> Null, price |-> Null] ELSE o[r]]
  <2>1. \A r \in L : Entry(r)' = [status |-> "settled", bucket |-> Null, price |-> Null]
    BY <1>2 DEF Entry, Outcomes
  <2>2. \A r \in Requests \ L : Entry(r)' = Entry(r)
    BY <1>3 DEF Entry
  <2> QED
    BY <1>1, <2>1, <2>2
<1> HIDE DEF L
<1>6. ASSUME NEW b \in Buckets, NEW f \in Figures
      PROVE  PortalUsage'[b][f] =
               IF f \in {"request_count", "incomplete_count"}
               THEN PortalUsage[b][f] + Cardinality({r \in L : o[r].bucket = b})
               ELSE PortalUsage[b][f]
  <2> DEFINE U == UnrolledIn(events, b)
             K == {r \in L : o[r].bucket = b}
             k == Contribution("incomplete", Null, Null)[f]
  <2>1. U \in SUBSET Requests /\ K \in SUBSET Requests /\ U \cap K = {}
    BY <1>1 DEF UnrolledIn, Outcomes, L
  <2>2. UnrolledIn(events', b) = U \cup K
    BY <1>1, <1>2, <1>3, <1>4 DEF UnrolledIn, Outcomes
  <2>3. k = IF f \in {"request_count", "incomplete_count"} THEN 1 ELSE 0
    BY DEF Contribution, Figures
  <2>4. \A r \in K : Column(events', f)[r] = k
    BY <1>1, <1>2 DEF Column
  <2>5. \A r \in U : SameFigures(events', events, r)
    BY <1>3 DEF SameFigures, UnrolledIn, L, Outcomes
  <2> HIDE DEF U, K, k
  <2>6. IsFiniteSet(K) /\ Cardinality(K) \in Nat /\ k \in 0..MaxFigure
    BY <2>1, <2>3, GroupType, FS_CardinalityType, FiguresAssumption
  <2>7. GroupTotal(events', K)[f] = Cardinality(K) * k
    <3>1. Sum(K, Column(events', f)) = Cardinality(K) * k
      BY <2>4, <2>6, SumConstant
    <3> QED
      BY <3>1 DEF GroupTotal
  <2>8. GroupTotal(events', U) = GroupTotal(events, U)
    BY <2>1, <2>5, GroupSame
  <2>9. GroupTotal(events', U \cup K) = Plus(GroupTotal(events', U), GroupTotal(events', K))
    BY <2>1, GroupUnion
  <2>10. GroupTotal(events', UnrolledIn(events', b)) = Plus(GroupTotal(events, U), GroupTotal(events', K))
    BY <2>2, <2>8, <2>9, Zenon
  <2>11. /\ PortalUsage[b] = Plus(daily[b], GroupTotal(events, U))
         /\ PortalUsage'[b] = Plus(daily'[b], GroupTotal(events', UnrolledIn(events', b)))
    BY PortalShows DEF U
  <2>12. daily[b][f] \in Nat /\ GroupTotal(events, U)[f] \in Nat
    BY <2>1, GroupType DEF TypeOK, Totals
  <2>13. PortalUsage[b][f] = daily[b][f] + GroupTotal(events, U)[f]
    BY <2>11 DEF Plus
  <2>14. PortalUsage'[b][f] = daily[b][f] + (GroupTotal(events, U)[f] + Cardinality(K) * k)
    <3>1. Plus(GroupTotal(events, U), GroupTotal(events', K))[f]
            = GroupTotal(events, U)[f] + Cardinality(K) * k
      BY <2>7 DEF Plus
    <3>2. PortalUsage'[b] = Plus(daily[b], Plus(GroupTotal(events, U), GroupTotal(events', K)))
      BY <1>1, <2>10, <2>11, Zenon
    <3> QED
      BY <3>1, <3>2 DEF Plus
  <2>15. PortalUsage'[b][f] = PortalUsage[b][f] + Cardinality(K) * k
    BY <2>6, <2>12, <2>13, <2>14
  <2>16. Cardinality(K) * k = IF f \in {"request_count", "incomplete_count"}
                             THEN Cardinality(K) ELSE 0
    BY <2>3, <2>6
  <2>17. PortalUsage[b][f] \in Nat
    BY <2>12, <2>13
  <2> QED
    BY <2>15, <2>16, <2>17 DEF K
<1>7. PortalUsage' = [b \in Buckets |-> [f \in Figures |->
                        IF f \in {"request_count", "incomplete_count"}
                        THEN PortalUsage[b][f] + Cardinality({r \in L : o[r].bucket = b})
                        ELSE PortalUsage[b][f]]]
  <2>1. PortalUsage' = [b \in Buckets |-> [f \in Figures |-> PortalUsage'[b][f]]]
    BY DEF PortalUsage, Plus
  <2> QED
    BY <1>6, <2>1
<1>8. Book!Figures = Figures
  BY DEF Book!Figures, Figures
<1>9. o' = [r \in Requests |-> IF r \in L THEN Book!Entering("settled") ELSE o[r]]
  BY <1>5 DEF Book!Entering
<1>10. PortalUsage' = [b \in Buckets |-> [f \in Book!Figures |->
                        IF f \in {"request_count", "incomplete_count"}
                        THEN PortalUsage[b][f] + Cardinality({r \in L : o[r].bucket = b})
                        ELSE PortalUsage[b][f]]]
  BY <1>7, <1>8, Zenon
<1>11. \A r \in L : o[r].status = "open"
  BY <1>4
<1>12. Book!Lapse(L)
  <2>1. PortalUsage' = [b \in Buckets |-> [f \in Book!Figures |->
                        IF f \in {"request_count", "incomplete_count"}
                        THEN PortalUsage[b][f] + Book!Cardinality({r \in L : o[r].bucket = b})
                        ELSE PortalUsage[b][f]]]
    BY <1>10, BookCardinality, Zenon
  <2> QED
    BY <1>1, <1>9, <1>11, <2>1, Zenon DEF Book!Lapse
<1> QED
  BY <1>12 DEF L

\* A request enters the book when its row is inserted.
LEMMA BeginEnters ==
    ASSUME LedgerInv, NEW r \in Requests, NEW b \in Buckets, BeginUsage(r, b)
    PROVE  Book!Begin(r, b)
<1> USE DEF LedgerInv
<1>1. /\ events[r].state = "absent" /\ daily' = daily /\ latest' = latest
      /\ events'[r].state = "pending" /\ events'[r].bucket = b
      /\ events'[r].price = latest[ModelOf[b]]
      /\ \A q \in Requests \ {r} : events'[q] = events[q]
  BY DEF BeginUsage, TypeOK, Row
<1>2. PortalUsage' = PortalUsage
  BY <1>1, PortalFrame DEF Unrolled, Outcomes
<1>3. Entry(r) = [status |-> "new", bucket |-> Null, price |-> Null]
  BY <1>1 DEF Entry
<1>4. Entry(r)' = [status |-> "open", bucket |-> b, price |-> latest[ModelOf[b]]]
  BY <1>1 DEF Entry
<1>5. \A q \in Requests \ {r} : Entry(q)' = Entry(q)
  BY <1>1 DEF Entry
<1>6. [q \in Requests |-> Entry(q)]' = [[q \in Requests |-> Entry(q)] EXCEPT ![r] =
         [status |-> "open", bucket |-> b, price |-> latest[ModelOf[b]]]]
  BY <1>4, <1>5
<1>7. [q \in Requests |-> Entry(q)][r].status = "new"
  BY <1>3
<1> HIDE DEF Entry, PortalUsage
<1> QED
  BY <1>1, <1>2, <1>6, <1>7 DEF Book!Begin

\* A step that changes neither prices nor rows that show is invisible.
LEMMA Invisible ==
    ASSUME latest' = latest, PortalUsage' = PortalUsage,
           \A r \in Requests : Entry(r)' = Entry(r)
    PROVE  UNCHANGED Book!vars
<1>1. [r \in Requests |-> Entry(r)]' = [r \in Requests |-> Entry(r)]
  OBVIOUS
<1> QED
  BY <1>1 DEF Book!vars

\* Every statement of the ledger is a step of the book or invisible in it.
LEMMA BookStep == LedgerInv /\ TypeOK' /\ [Next]_vars => [Book!Next]_(Book!vars)
<1> SUFFICES ASSUME LedgerInv, TypeOK', [Next]_vars
             PROVE  Book!Next \/ UNCHANGED Book!vars
  OBVIOUS
<1>1. ASSUME UNCHANGED <<events, daily, latest>> PROVE UNCHANGED Book!vars
  BY <1>1, PortalFrame, Invisible DEF Entry
<1>2. ASSUME NEW m \in Models, NEW p \in Prices, SetPrice(m, p) PROVE Book!Next
  <2>1. PortalUsage' = PortalUsage
    BY <1>2, PortalFrame DEF SetPrice
  <2>2. [r \in Requests |-> Entry(r)]' = [r \in Requests |-> Entry(r)]
    BY <1>2 DEF SetPrice, Entry
  <2>3. latest' = [latest EXCEPT ![m] = p]
    BY <1>2 DEF SetPrice
  <2>4. Book!SetPrice(m, p)
    BY <2>1, <2>2, <2>3, Zenon DEF Book!SetPrice
  <2> QED
    BY <2>4 DEF Book!Next
<1>3. ASSUME NEW r \in Requests, NEW b \in Buckets, BeginUsage(r, b) PROVE Book!Next
  BY <1>3, BeginEnters DEF Book!Next
<1>4. ASSUME NEW r \in Requests, NEW o \in Outcomes, NEW u \in Usages \cup {Null},
             FinishUsage(r, o, u)
      PROVE  Book!Next
  <2>1. Book!Settle(r, o, u)
    BY <1>4, FinishSettles
  <2>2. o = "complete" <=> u # Null
    BY <1>4 DEF FinishUsage
  <2>3. CASE o = "complete"
    BY <2>1, <2>2, <2>3 DEF Book!Next
  <2>4. CASE o # "complete"
    <3>1. o \in {"incomplete", "failed"} /\ u = Null
      BY <2>2, <2>4 DEF Outcomes
    <3>2. Book!Settle(r, o, Null)
      BY <2>1, <3>1
    <3> QED
      BY <3>1, <3>2 DEF Book!Next
  <2> QED
    BY <2>3, <2>4
<1>5. ASSUME NEW m \in Replicas, ExpirePendingUsage(m) PROVE Book!Next
  <2>1. {r \in aged : events[r].state = "pending"} \in SUBSET Requests
    BY DEF LedgerInv, TypeOK
  <2> QED
    BY <1>5, <2>1, ExpireLapses DEF Book!Next
<1>6. ASSUME NEW m \in Replicas, Commit(m) PROVE UNCHANGED Book!vars
  <2>1. PortalUsage' = PortalUsage /\ latest' = latest
    BY <1>6, CommitInvisible DEF Commit
  <2>2. \A r \in Requests : /\ events'[r].state = events[r].state
                            /\ events'[r].bucket = events[r].bucket
                            /\ events'[r].price = events[r].price
    BY <1>6 DEF Commit, LedgerInv, TypeOK, Rows
  <2>3. \A r \in Requests : Entry(r)' = Entry(r)
    BY <2>2 DEF Entry
  <2> QED
    BY <2>1, <2>3, Invisible
<1>7. ASSUME NEW m \in Replicas, NEW B \in SUBSET Requests, DeleteBatch(m, B)
      PROVE  UNCHANGED Book!vars
  <2>1. /\ daily' = daily /\ latest' = latest
        /\ \A r \in B : /\ events[r].rolled /\ events[r].state \in Outcomes
                        /\ events'[r].state = "deleted"
        /\ \A r \in Requests \ B : events'[r] = events[r]
    BY <1>7 DEF DeleteBatch, Batches, Deletable, Row
  <2>2. PortalUsage' = PortalUsage
    BY <2>1, PortalFrame DEF Unrolled, Outcomes
  <2>3. \A r \in B : Entry(r)' = Entry(r)
    BY <2>1 DEF Entry, Outcomes
  <2>4. \A r \in Requests \ B : Entry(r)' = Entry(r)
    BY <2>1 DEF Entry
  <2> QED
    BY <2>1, <2>2, <2>3, <2>4, Invisible
<1>8. ASSUME NEW r \in Requests, SevenDaysPass(r) PROVE UNCHANGED Book!vars
  BY <1>1, <1>8 DEF SevenDaysPass
<1>9. ASSUME NEW m \in Replicas,
             \/ StartMaintain(m) \/ NothingToClaim(m) \/ Sleep(m) \/ AddTotals(m)
             \/ NothingToDelete(m) \/ DeadlockVictim(m) \/ SumOverflows(m)
             \/ StatementFails(m)
             \/ \E B \in SUBSET Requests : ClaimBatch(m, B)
      PROVE  UNCHANGED Book!vars
  BY <1>1, <1>9 DEF StartMaintain, NothingToClaim, Sleep, AddTotals, NothingToDelete,
     DeadlockVictim, SumOverflows, StatementFails, Abort, ClaimBatch, tables
<1>10. CASE UNCHANGED vars
  BY <1>1, <1>10 DEF vars
<1> QED
  BY <1>2, <1>3, <1>4, <1>5, <1>6, <1>7, <1>8, <1>9, <1>10
  DEF Next, Statement, RollupBatchDone, CommitUnseen

\* Empty tables are an empty book.
LEMMA BookInit == Init => Book!Init
<1> SUFFICES ASSUME Init PROVE Book!Init
  OBVIOUS
<1>1. \A r \in Requests : Entry(r) = [status |-> "new", bucket |-> Null, price |-> Null]
  BY DEF Init, Row, Entry
<1>2. \A b \in Buckets : In(Unrolled, b) = {}
  BY DEF Init, Row, In, Unrolled, Outcomes
<1>3. \A n : Sum({}, n) = 0
  <2>1. \A n : Units({}, n) = {}
    BY DEF Units
  <2> QED
    BY <2>1, FS_EmptySet DEF Sum
<1>4. \A b \in Buckets : TotalOf(In(Unrolled, b)) = NoTotals
  BY <1>2, <1>3 DEF TotalOf, NoTotals
<1>5. PortalUsage = [b \in Buckets |-> NoTotals]
  BY <1>4 DEF PortalUsage, Plus, Init, NoTotals
<1>6. Book!NoTotals = NoTotals
  BY DEF Book!NoTotals, NoTotals, Book!Figures, Figures
<1>7. [r \in Requests |-> Entry(r)] = [r \in Requests |-> Book!Entering("new")]
  BY <1>1 DEF Book!Entering
<1>8. latest = [m \in Models |-> Null]
  BY DEF Init
<1> QED
  BY <1>5, <1>6, <1>7, <1>8, Zenon DEF Book!Init

(***************************************************************************)
(* The claim on Store.Maintain and on BeginUsage/FinishUsage, for any      *)
(* number of replicas, requests and batches: what the portal shows is the  *)
(* book of settled requests.  Rollups, retention, crashes of a replica,    *)
(* lost answers and deadlocks never count a request twice or lose it.      *)
(***************************************************************************)
THEOREM LedgerImplementsBook == Spec => ImplementsBook
<1>1. Spec => []TypeOK
  BY TypeCorrect
<1>2. Spec => Book!Init
  BY BookInit DEF Spec
<1>3. Spec => [][Book!Next]_(Book!vars)
  BY <1>1, BookStep, LedgerInvariant, PTL DEF Spec
<1> QED
  BY <1>2, <1>3 DEF ImplementsBook, Book!Spec
=============================================================================
