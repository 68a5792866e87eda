------------------------- MODULE UsageFiguresProofs -------------------------
(***************************************************************************)
(* Facts about sums and contributions, for every set of requests, buckets  *)
(* and prices.                                                             *)
(***************************************************************************)
EXTENDS UsageFigures, FiniteSetTheorems, TLAPS

-----------------------------------------------------------------------------
(* Sums of figures.                                                        *)

\* The units of a finite set of requests can be counted.
LEMMA SumType ==
    ASSUME NEW S, IsFiniteSet(S), NEW n
    PROVE  IsFiniteSet(Units(S, n)) /\ Sum(S, n) \in Nat
<1>1. IsFiniteSet(1..MaxFigure)
  BY FS_Interval, FiguresAssumption
<1>2. IsFiniteSet(S \X (1..MaxFigure))
  BY <1>1, FS_Product
<1>3. IsFiniteSet(Units(S, n))
  BY <1>2, FS_Subset DEF Units
<1> QED
  BY <1>3, FS_CardinalityType DEF Sum

\* Disjoint sets of requests add up.
LEMMA SumUnion ==
    ASSUME NEW S, IsFiniteSet(S), NEW T, IsFiniteSet(T), S \cap T = {}, NEW n
    PROVE  Sum(S \cup T, n) = Sum(S, n) + Sum(T, n)
<1>1. Units(S \cup T, n) = Units(S, n) \cup Units(T, n)
  BY DEF Units
<1>2. Units(S, n) \cap Units(T, n) = {}
  BY DEF Units
<1>3. IsFiniteSet(Units(S, n)) /\ IsFiniteSet(Units(T, n))
  BY SumType
<1>4. Cardinality(Units(S, n) \cap Units(T, n)) = 0
  BY <1>2, FS_EmptySet
<1>5. Cardinality(Units(S, n) \cup Units(T, n))
        = Cardinality(Units(S, n)) + Cardinality(Units(T, n)) - 0
  BY <1>3, <1>4, FS_Union
<1>6. Cardinality(Units(S, n)) \in Nat /\ Cardinality(Units(T, n)) \in Nat
  BY SumType DEF Sum
<1>7. Cardinality(Units(S \cup T, n)) = Cardinality(Units(S, n) \cup Units(T, n))
  BY <1>1, Zenon
<1> QED
  BY <1>5, <1>6, <1>7 DEF Sum

\* A sum depends on the amounts of its own requests only.
LEMMA SumSame ==
    ASSUME NEW S, NEW n, NEW k, \A r \in S : n[r] = k[r]
    PROVE  Sum(S, n) = Sum(S, k)
<1>1. Units(S, n) = Units(S, k)
  BY DEF Units
<1> QED
  BY <1>1 DEF Sum

\* A set in which every request has the same amount.
LEMMA SumConstant ==
    ASSUME NEW S, IsFiniteSet(S), NEW n, NEW k \in 0..MaxFigure,
           \A r \in S : n[r] = k
    PROVE  Sum(S, n) = Cardinality(S) * k
<1>1. Units(S, n) = S \X (1..k)
  BY FiguresAssumption DEF Units
<1>2. IsFiniteSet(1..k) /\ Cardinality(1..k) = k
  BY FS_Interval, FiguresAssumption
<1> QED
  BY <1>1, <1>2, FS_Product DEF Sum

\* One request contributes its own amount.
LEMMA SumOne ==
    ASSUME NEW r, NEW n, n[r] \in 0..MaxFigure
    PROVE  Sum({r}, n) = n[r]
<1>1. IsFiniteSet({r}) /\ Cardinality({r}) = 1
  BY FS_Singleton
<1>2. Sum({r}, n) = 1 * n[r]
  BY <1>1, SumConstant
<1> QED
  BY <1>2, FiguresAssumption

\* A sum in which one amount goes up by d.
LEMMA SumBump ==
    ASSUME NEW S, IsFiniteSet(S), NEW n, NEW k, NEW s \in S, NEW d \in Nat,
           \A r \in S \ {s} : k[r] = n[r],
           n[s] \in Nat, k[s] = n[s] + d, k[s] <= MaxFigure
    PROVE  Sum(S, k) = Sum(S, n) + d
<1>1. IsFiniteSet(S \ {s}) /\ IsFiniteSet({s})
  BY FS_Subset, FS_Singleton
<1>2. S = (S \ {s}) \cup {s} /\ (S \ {s}) \cap {s} = {}
  OBVIOUS
<1>3. \A x : Sum(S, x) = Sum(S \ {s}, x) + Sum({s}, x)
  BY <1>1, <1>2, SumUnion
<1>4. Sum(S \ {s}, k) = Sum(S \ {s}, n)
  BY SumSame
<1>5. Sum({s}, n) = n[s] /\ Sum({s}, k) = k[s]
  BY SumOne, FiguresAssumption
<1>6. Sum(S \ {s}, n) \in Nat
  BY <1>1, SumType
<1> QED
  BY <1>3, <1>4, <1>5, <1>6

\* No amount exceeds the sum.
LEMMA SumBound ==
    ASSUME NEW S, IsFiniteSet(S), NEW n, NEW s \in S, n[s] \in 0..MaxFigure
    PROVE  n[s] <= Sum(S, n)
<1>1. IsFiniteSet(S \ {s}) /\ IsFiniteSet({s})
  BY FS_Subset, FS_Singleton
<1>2. S = (S \ {s}) \cup {s} /\ (S \ {s}) \cap {s} = {}
  OBVIOUS
<1>3. Sum(S, n) = Sum(S \ {s}, n) + Sum({s}, n)
  BY <1>1, <1>2, SumUnion
<1>4. Sum({s}, n) = n[s] /\ Sum(S \ {s}, n) \in Nat
  BY <1>1, SumOne, SumType
<1> QED
  BY <1>3, <1>4

\* Nothing adds up to nothing, and one more request adds its amount.
LEMMA SumStep ==
    ASSUME NEW n
    PROVE  /\ Sum({}, n) = 0
           /\ \A T, r : IsFiniteSet(T) /\ r \notin T /\ n[r] \in 0..MaxFigure =>
                 Sum(T \cup {r}, n) = Sum(T, n) + n[r]
<1>1. Sum({}, n) = 0
  <2>1. Units({}, n) = {}
    BY DEF Units
  <2> QED
    BY <2>1, FS_EmptySet DEF Sum
<1>2. ASSUME NEW T, NEW r, IsFiniteSet(T), r \notin T, n[r] \in 0..MaxFigure
      PROVE  Sum(T \cup {r}, n) = Sum(T, n) + n[r]
  <2>1. IsFiniteSet({r}) /\ T \cap {r} = {}
    BY <1>2, FS_Singleton
  <2>2. Sum(T \cup {r}, n) = Sum(T, n) + Sum({r}, n)
    BY <1>2, <2>1, SumUnion
  <2>3. Sum({r}, n) = n[r]
    BY <1>2, SumOne
  <2> QED
    BY <2>2, <2>3
<1> QED
  BY <1>1, <1>2

\* A sum is what adding the amounts one after another computes, in any order: any
\* function of sets of requests that does so is Sum.  The least set on which the
\* two would differ has a request that can be taken away.
THEOREM SumComputed ==
    ASSUME NEW S, IsFiniteSet(S), NEW n, \A r \in S : n[r] \in 0..MaxFigure,
           NEW added, added[{}] = 0,
           \A T \in SUBSET S : \A r \in S \ T : added[T \cup {r}] = added[T] + n[r]
    PROVE  \A T \in SUBSET S : added[T] = Sum(T, n)
<1> DEFINE Wrong == {T \in SUBSET S : added[T] # Sum(T, n)}
<1> SUFFICES ASSUME Wrong # {} PROVE FALSE
  OBVIOUS
<1>1. PICK T \in Wrong : \A U \in Wrong : ~(<<U, T>> \in StrictSubsetOrdering(S))
  <2>1. IsWellFoundedOn(StrictSubsetOrdering(S), SUBSET S)
    BY FS_StrictSubsetOrderingWellFounded, FS_FiniteSubsetsOfFinite, Zenon
  <2>2. Wrong \subseteq SUBSET S
    OBVIOUS
  <2> HIDE DEF Wrong
  <2> QED
    BY <2>1, <2>2, WFMin, Zenon
<1>2. T # {}
  BY SumStep
<1>3. PICK r \in T : TRUE
  BY <1>2
<1>4. /\ T \ {r} \in SUBSET S /\ r \in S \ (T \ {r}) /\ T = (T \ {r}) \cup {r}
      /\ IsFiniteSet(T \ {r}) /\ n[r] \in 0..MaxFigure
  BY FS_Subset
<1>5. <<T \ {r}, T>> \in StrictSubsetOrdering(S)
  BY <1>4 DEF StrictSubsetOrdering
<1>6. added[T \ {r}] = Sum(T \ {r}, n)
  BY <1>1, <1>4, <1>5
<1>7. added[T] = added[T \ {r}] + n[r]
  BY <1>4
<1>8. Sum(T, n) = Sum(T \ {r}, n) + n[r]
  <2>1. PICK U : U = T \ {r}
    OBVIOUS
  <2>2. IsFiniteSet(U) /\ r \notin U /\ n[r] \in 0..MaxFigure /\ T = U \cup {r}
    BY <1>4, <2>1
  <2>3. Sum(U \cup {r}, n) = Sum(U, n) + n[r]
    BY <2>2, SumStep
  <2> QED
    BY <2>1, <2>2, <2>3, Zenon
<1> QED
  BY <1>6, <1>7, <1>8

-----------------------------------------------------------------------------
(* Contributions of requests.                                              *)

\* Every column of a contribution fits.
LEMMA ContributionType ==
    ASSUME NEW state, NEW usage \in Usages \cup {Null},
           NEW cost \in 0..MaxFigure \cup {Null}, NEW f \in Figures
    PROVE  Contribution(state, usage, cost)[f] \in 0..MaxFigure
<1>1. CASE usage = Null
  BY <1>1, FiguresAssumption DEF Contribution, Figures
<1>2. CASE usage # Null
  <2>1. usage.prompt \in 0..MaxFigure /\ usage.completion \in 0..MaxFigure
    BY <1>2, FiguresAssumption DEF Usage
  <2> QED
    BY <1>2, <2>1, FiguresAssumption DEF Contribution, Figures
<1> QED
  BY <1>1, <1>2

\* A contribution has all the columns of a total.
LEMMA ContributionTotals ==
    ASSUME NEW state, NEW usage \in Usages \cup {Null},
           NEW cost \in 0..MaxFigure \cup {Null}
    PROVE  Contribution(state, usage, cost) \in Totals
<1>1. CASE usage = Null
  BY <1>1, FiguresAssumption DEF Contribution, Figures, Totals
<1>2. CASE usage # Null
  <2>1. usage.prompt \in Nat /\ usage.completion \in Nat
    BY <1>2, FiguresAssumption DEF Usage
  <2> QED
    BY <1>2, <2>1, FiguresAssumption DEF Contribution, Figures, Totals
<1> QED
  BY <1>1, <1>2
=============================================================================
