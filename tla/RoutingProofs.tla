---------------------------- MODULE RoutingProofs ----------------------------
(***************************************************************************)
(* Proofs about Routing for every number of backends and requests, every   *)
(* ring order and every interleaving of probes and choices.                *)
(***************************************************************************)
EXTENDS Routing, FiniteSetTheorems, TLAPS

-----------------------------------------------------------------------------
(* The inductive invariant.                                                *)

\* Rounds of the counter are complete for every backend; in the round under
\* way, the first next % size backends have had their turn.
TurnsAt ==
    \E rounds \in Nat : \A b \in Backends :
        turns[b] = IF b <= next % size THEN rounds + 1 ELSE rounds

\* Backends that were passed over went down; those that stayed healthy since
\* the request began are still healthy while it chooses.
ChoiceAt(r) ==
    /\ pc[r] # "new" =>
          /\ primary[r] \in Backends
          /\ ByRing(r) => primary[r] = RingOrder[size][key[r]][1]
    /\ pc[r] \in {"new", "primary"} => tries[r] = 0
    /\ pc[r] \in {"primary", "failover"} => \A a \in steady[r] : healthy[a]
    /\ pc[r] = "failover" =>
          /\ primary[r] \notin steady[r]
          /\ tries[r] <= Len(Candidates(r))
          /\ \A i \in 1..tries[r] : Candidates(r)[i] \notin steady[r]
    /\ pc[r] = "refused" => steady[r] = {}
    /\ pc[r] = "chosen" =>
          \A j \in Backends : Preference(r)[j] = chosen[r] =>
             \A i \in 1..(j - 1) : Preference(r)[i] \notin steady[r]

RoutingInv ==
    /\ TypeOK
    /\ TurnsAt
    /\ \A r \in Requests : ChoiceAt(r)

-----------------------------------------------------------------------------
(* Arithmetic of the round.                                                *)

\* A remainder is determined by its range.
LEMMA Remainder ==
    ASSUME NEW s \in Nat \ {0}, NEW n \in Int, NEW q \in Int, NEW m \in 0..(s - 1),
           n = q * s + m
    PROVE  n % s = m
<1>1. PICK d \in Int : n = d * s + (n % s)
  <2>1. n = (n \div s) * s + (n % s) /\ n \div s \in Int
    OBVIOUS
  <2> QED
    BY <2>1
<1>2. n % s \in 0..(s - 1)
  OBVIOUS
<1>3. (q - d) * s = (n % s) - m
  BY <1>1, <1>2
<1>4. ASSUME NEW k \in Int, k >= 1 PROVE k * s >= s
  BY <1>4
<1>5. ASSUME NEW k \in Int, k <= -1 PROVE k * s <= -s
  BY <1>5
<1>6. q - d \in Int /\ ~(q - d >= 1) /\ ~(q - d <= -1)
  BY <1>2, <1>3, <1>4, <1>5
<1>7. q - d = 0
  BY <1>6
<1> QED
  BY <1>1, <1>2, <1>7

\* An index that has gone round at most once.
LEMMA OnceRound ==
    ASSUME NEW s \in Nat \ {0}, NEW n \in 0..(2 * s - 1)
    PROVE  n % s = IF n < s THEN n ELSE n - s
<1>1. CASE n < s
  <2>1. n = 0 * s + n /\ n \in 0..(s - 1)
    BY <1>1
  <2> QED
    BY <1>1, <2>1, Remainder
<1>2. CASE ~(n < s)
  <2>1. n = 1 * s + (n - s) /\ n - s \in 0..(s - 1)
    BY <1>2
  <2> QED
    BY <1>2, <2>1, Remainder
<1> QED
  BY <1>1, <1>2

\* One turn further on.
LEMMA NextRemainder ==
    ASSUME NEW s \in Nat \ {0}, NEW n \in Nat
    PROVE  /\ n % s \in 0..(s - 1)
           /\ (n + 1) % s = IF n % s = s - 1 THEN 0 ELSE (n % s) + 1
<1>1. n = (n \div s) * s + (n % s) /\ n \div s \in Int /\ n % s \in 0..(s - 1)
  OBVIOUS
<1>2. PICK d \in Int, m \in 0..(s - 1) : n = d * s + m /\ m = n % s
  BY <1>1
<1>3. CASE m = s - 1
  <2>1. n + 1 = (d + 1) * s + 0 /\ 0 \in 0..(s - 1)
    BY <1>2, <1>3
  <2>2. PICK q \in Int, k \in Int, j \in 0..(s - 1) : q = d + 1 /\ k = n + 1 /\ j = 0
    BY <2>1
  <2>3. k = q * s + j
    BY <2>1, <2>2
  <2>4. k % s = j
    BY <2>3, Remainder
  <2> QED
    BY <1>2, <1>3, <2>2, <2>4
<1>4. CASE m # s - 1
  <2>1. n + 1 = d * s + (m + 1) /\ m + 1 \in 0..(s - 1)
    BY <1>2, <1>4
  <2>2. PICK q \in Int, k \in Int, j \in 0..(s - 1) : q = d /\ k = n + 1 /\ j = m + 1
    BY <2>1
  <2>3. k = q * s + j
    BY <2>1, <2>2
  <2>4. k % s = j
    BY <2>3, Remainder
  <2> QED
    BY <1>2, <1>4, <2>2, <2>4
<1> QED
  BY <1>2, <1>3, <1>4

-----------------------------------------------------------------------------
(* Turns.                                                                  *)

\* Each round-robin request completes a round or takes it one further.
LEMMA TurnsStep == TypeOK /\ TurnsAt /\ [Next]_vars => TurnsAt'
<1> SUFFICES ASSUME TypeOK, TurnsAt, [Next]_vars PROVE TurnsAt'
  OBVIOUS
<1>0. size \in Nat \ {0} /\ next \in Nat /\ turns \in [Backends -> Nat]
  BY RoutingAssumption DEF TypeOK
<1>1. CASE UNCHANGED <<size, next, turns>>
  BY <1>1 DEF TurnsAt, Backends
<1>2. ASSUME NEW r \in Requests, SelectByTurn(r) PROVE TurnsAt'
  <2>1. PICK rounds \in Nat : \A b \in Backends :
            turns[b] = IF b <= next % size THEN rounds + 1 ELSE rounds
    BY DEF TurnsAt
  <2>2. /\ size' = size /\ next' = next + 1
        /\ \A b \in Backends :
              turns'[b] = IF b = (next % size) + 1 THEN turns[b] + 1 ELSE turns[b]
    BY <1>2 DEF SelectByTurn, Select, TakeTurn
  <2>3. PICK m \in 0..(size - 1) :
            m = next % size /\ next' % size' = IF m = size - 1 THEN 0 ELSE m + 1
    BY <1>0, <2>2, NextRemainder
  <2>4. CASE m = size - 1
    <3>1. \A b \in Backends : turns'[b] = IF b <= next' % size' THEN rounds + 2 ELSE rounds + 1
      BY <1>0, <2>1, <2>2, <2>3, <2>4 DEF Backends
    <3> QED
      BY <2>2, <3>1 DEF TurnsAt, Backends
  <2>5. CASE m # size - 1
    <3>1. \A b \in Backends : turns'[b] = IF b <= next' % size' THEN rounds + 1 ELSE rounds
      BY <1>0, <2>1, <2>2, <2>3, <2>5 DEF Backends
    <3> QED
      BY <2>2, <3>1 DEF TurnsAt, Backends
  <2> QED
    BY <2>4, <2>5
<1>3. ASSUME NEW b, NEW result, ProbeStores(b, result) PROVE UNCHANGED <<size, next, turns>>
  BY <1>3 DEF ProbeStores
<1>4. ASSUME NEW r, NEW c, SelectSingle(r, c) \/ SelectByAffinity(r, c)
      PROVE  UNCHANGED <<size, next, turns>>
  BY <1>4 DEF SelectSingle, SelectByAffinity, Select
<1>5. ASSUME NEW r, PrimaryHealthy(r) \/ PrimaryUnhealthy(r) \/ TryNext(r) \/ NoHealthyBackend(r)
      PROVE  UNCHANGED <<size, next, turns>>
  BY <1>5 DEF PrimaryHealthy, PrimaryUnhealthy, TryNext, NoHealthyBackend
<1> QED
  BY <1>1, <1>2, <1>3, <1>4, <1>5 DEF Next, vars

-----------------------------------------------------------------------------
(* The order of preference.                                                *)

\* The order of the ring names every backend once.
LEMMA RingOrderAll ==
    ASSUME NEW n \in 2..MaxSize, NEW c \in Conversations
    PROVE  /\ RingOrder[n][c] \in [1..n -> 1..n]
           /\ \A i, j \in 1..n : RingOrder[n][c][i] = RingOrder[n][c][j] => i = j
           /\ \A b \in 1..n : \E i \in 1..n : RingOrder[n][c][i] = b
<1>1. /\ RingOrder[n][c] \in [1..n -> 1..n]
      /\ \A i, j \in 1..n : RingOrder[n][c][i] = RingOrder[n][c][j] => i = j
  BY RoutingAssumption
<1>2. IsFiniteSet(1..n)
  BY RoutingAssumption, FS_Interval
<1>3. RingOrder[n][c] \in Injection(1..n, 1..n)
  BY <1>1 DEF Injection, IsInjective
<1>4. RingOrder[n][c] \in Surjection(1..n, 1..n)
  BY <1>2, <1>3, FS_Injection
<1> QED
  BY <1>1, <1>4 DEF Surjection

\* So does the order from a backend on, around the list.
LEMMA RoundAll ==
    ASSUME NEW n \in Nat \ {0}, NEW p \in 1..n
    PROVE  /\ \A i \in 0..(n - 1) :
                 ((p - 1 + i) % n) + 1 = IF p + i <= n THEN p + i ELSE p + i - n
           /\ \A b \in 1..n : \E i \in 0..(n - 1) : ((p - 1 + i) % n) + 1 = b
<1>1. ASSUME NEW i \in 0..(n - 1)
      PROVE  ((p - 1 + i) % n) + 1 = IF p + i <= n THEN p + i ELSE p + i - n
  <2>1. PICK x \in 0..(2 * n - 1) : x = p - 1 + i
    OBVIOUS
  <2>2. x % n = IF x < n THEN x ELSE x - n
    BY OnceRound
  <2> QED
    BY <2>1, <2>2
<1>2. ASSUME NEW b \in 1..n PROVE \E i \in 0..(n - 1) : ((p - 1 + i) % n) + 1 = b
  <2>1. CASE b >= p
    <3>1. b - p \in 0..(n - 1) /\ p + (b - p) = b /\ b <= n
      BY <2>1
    <3> QED
      BY <1>1, <3>1
  <2>2. CASE ~(b >= p)
    <3>1. b - p + n \in 0..(n - 1) /\ p + (b - p + n) = b + n /\ ~(b + n <= n)
      BY <2>2
    <3>2. ((p - 1 + (b - p + n)) % n) + 1 = b + n - n
      BY <1>1, <3>1
    <3> QED
      BY <3>1, <3>2
  <2> QED
    BY <2>1, <2>2
<1> QED
  BY <1>1, <1>2

\* A request prefers its primary and then the candidates, every backend once.
LEMMA PreferenceAll ==
    ASSUME TypeOK, NEW r \in Requests, ChoiceAt(r), pc[r] # "new"
    PROVE  /\ \A i, j \in Backends : Preference(r)[i] = Preference(r)[j] => i = j
           /\ \A b \in Backends : \E i \in Backends : Preference(r)[i] = b
           /\ Preference(r)[1] = primary[r] /\ primary[r] \in Backends
           /\ Len(Candidates(r)) = IF ByRing(r) THEN size ELSE size - 1
           /\ \A i \in 1..Len(Candidates(r)) :
                 /\ Candidates(r)[i] \in Backends
                 /\ Candidates(r)[i] = Preference(r)[IF ByRing(r) THEN i ELSE i + 1]
<1>0. size \in Nat \ {0} /\ size \in 1..MaxSize /\ primary[r] \in Backends
  BY RoutingAssumption DEF TypeOK, ChoiceAt
<1>1. CASE ByRing(r)
  <2>1. PICK n \in 2..MaxSize, c \in Conversations : n = size /\ c = key[r]
    BY <1>0, <1>1, RoutingAssumption DEF ByRing, TypeOK
  <2>2. Preference(r) = RingOrder[n][c] /\ Candidates(r) = RingOrder[n][c]
    BY <1>1, <2>1 DEF Preference, Candidates
  <2>3. Len(RingOrder[n][c]) = n
    BY <2>1, RingOrderAll, <1>0
  <2>4. primary[r] = RingOrder[n][c][1]
    BY <1>1, <2>1 DEF ChoiceAt
  <2> DEFINE order == RingOrder[n][c]
  <2>5. /\ \A i, j \in 1..n : order[i] = order[j] => i = j
        /\ \A b \in 1..n : \E i \in 1..n : order[i] = b
        /\ \A i \in 1..n : order[i] \in 1..n
    <3>1. order \in [1..n -> 1..n]
      BY RingOrderAll
    <3>2. \A i, j \in 1..n : order[i] = order[j] => i = j
      BY RingOrderAll
    <3>3. \A b \in 1..n : \E i \in 1..n : order[i] = b
      BY RingOrderAll
    <3> QED
      BY <3>1, <3>2, <3>3
  <2> HIDE DEF order
  <2>6. /\ Preference(r) = order /\ Candidates(r) = order /\ Len(order) = n
        /\ primary[r] = order[1] /\ Backends = 1..n
    BY <2>1, <2>2, <2>3, <2>4 DEF order, Backends
  <2>7. n \in Nat \ {0} /\ 1 \in 1..n
    BY <1>0, <2>1
  <2>8. ByRing(r) /\ n = size
    BY <1>1, <2>1
  <2> QED
    BY <2>5, <2>6, <2>7, <2>8
<1>2. CASE ~ByRing(r)
  <2>1. PICK p \in 1..size : p = primary[r]
    BY <1>0 DEF Backends
  <2>2. /\ Preference(r) = [i \in Backends |-> ((p + i - 2) % size) + 1]
        /\ Candidates(r) = [i \in 1..(size - 1) |-> ((p - 1 + i) % size) + 1]
    BY <1>2, <2>1 DEF Preference, Candidates
  <2>3. Len(Candidates(r)) = size - 1
    <3>1. size - 1 \in Nat
      BY <1>0
    <3> QED
      BY <2>2, <3>1
  <2>4. ASSUME NEW i \in Backends
        PROVE  /\ Preference(r)[i] = ((p - 1 + (i - 1)) % size) + 1
               /\ Preference(r)[i] = IF p + i - 1 <= size THEN p + i - 1 ELSE p + i - 1 - size
    <3>1. PICK k \in 0..(size - 1) : k = i - 1 /\ p + i - 2 = p - 1 + k
      BY <1>0, <2>1 DEF Backends
    <3>2. ((p - 1 + k) % size) + 1 = IF p + k <= size THEN p + k ELSE p + k - size
      BY <1>0, RoundAll
    <3> QED
      BY <2>2, <3>1, <3>2
  <2>5. \A i, j \in Backends : Preference(r)[i] = Preference(r)[j] => i = j
    <3>1. ASSUME NEW i \in Backends, NEW j \in Backends, Preference(r)[i] = Preference(r)[j]
          PROVE  i = j
      <4>1. Preference(r)[i] = IF p + i - 1 <= size THEN p + i - 1 ELSE p + i - 1 - size
        BY <2>4
      <4>2. Preference(r)[j] = IF p + j - 1 <= size THEN p + j - 1 ELSE p + j - 1 - size
        BY <2>4
      <4>3. i \in 1..size /\ j \in 1..size
        BY DEF Backends
      <4>4. ASSUME NEW a \in 1..size, NEW b \in 1..size,
                   (IF p + a - 1 <= size THEN p + a - 1 ELSE p + a - 1 - size)
                     = (IF p + b - 1 <= size THEN p + b - 1 ELSE p + b - 1 - size)
            PROVE  a = b
        BY <1>0, <4>4
      <4> QED
        BY <3>1, <4>1, <4>2, <4>3, <4>4
    <3> QED
      BY <3>1
  <2>6. ASSUME NEW b \in Backends PROVE \E i \in Backends : Preference(r)[i] = b
    <3>1. PICK k \in 0..(size - 1) : ((p - 1 + k) % size) + 1 = b
      BY <1>0, RoundAll DEF Backends
    <3>2. k + 1 \in Backends /\ (k + 1) - 1 = k
      BY <1>0, <3>1 DEF Backends
    <3> QED
      BY <2>4, <3>1, <3>2
  <2>7. ASSUME NEW i \in 1..(size - 1)
        PROVE  Candidates(r)[i] \in Backends /\ Candidates(r)[i] = Preference(r)[i + 1]
    <3>1. i + 1 \in Backends /\ (i + 1) - 1 = i
      BY <1>0 DEF Backends
    <3>2. Candidates(r)[i] = Preference(r)[i + 1]
      BY <2>2, <2>4, <3>1
    <3> QED
      BY <1>0, <2>1, <2>4, <3>1, <3>2 DEF Backends
  <2>8. Preference(r)[1] = p
    BY <1>0, <2>1, <2>4 DEF Backends
  <2> QED
    BY <1>0, <1>2, <2>1, <2>3, <2>5, <2>6, <2>7, <2>8
<1> QED
  BY <1>1, <1>2

-----------------------------------------------------------------------------
(* Choices.                                                                *)

\* While a request falls back, it has passed over the backends it prefers to
\* the next candidate.
LEMMA PassedOver ==
    ASSUME TypeOK, NEW r \in Requests, ChoiceAt(r), pc[r] = "failover"
    PROVE  \A j \in Backends :
              j <= (IF ByRing(r) THEN tries[r] ELSE tries[r] + 1) => Preference(r)[j] \notin steady[r]
<1> DEFINE n == Len(Candidates(r))
<1>0. size \in Nat \ {0} /\ tries[r] \in Nat /\ Backends = 1..size
  BY RoutingAssumption DEF TypeOK, Backends
<1>1. /\ Preference(r)[1] = primary[r] /\ n = IF ByRing(r) THEN size ELSE size - 1
      /\ \A i \in 1..n : Candidates(r)[i] = Preference(r)[IF ByRing(r) THEN i ELSE i + 1]
  BY PreferenceAll
<1>2. /\ primary[r] \notin steady[r] /\ tries[r] <= n
      /\ \A i \in 1..tries[r] : Candidates(r)[i] \notin steady[r]
  BY DEF ChoiceAt
<1> HIDE DEF n
<1>3. CASE ByRing(r)
  BY <1>0, <1>1, <1>2, <1>3
<1>4. CASE ~ByRing(r)
  <2>1. ASSUME NEW j \in 1..size, j <= tries[r] + 1 PROVE Preference(r)[j] \notin steady[r]
    <3>1. CASE j = 1
      BY <1>1, <1>2, <3>1
    <3>2. CASE j # 1
      <4>1. j - 1 \in 1..tries[r] /\ j - 1 \in 1..n /\ (j - 1) + 1 = j
        BY <1>0, <1>1, <1>2, <1>4, <2>1, <3>2
      <4> QED
        BY <1>1, <1>2, <1>4, <4>1
    <3> QED
      BY <3>1, <3>2
  <2> QED
    BY <1>0, <1>4, <2>1
<1> QED
  BY <1>3, <1>4

\* A choice is changed by its own request and by the probes only.
LEMMA OthersChoice ==
    ASSUME TypeOK, NEW q \in Requests, ChoiceAt(q), size' = size,
           pc'[q] = pc[q], key'[q] = key[q], primary'[q] = primary[q],
           tries'[q] = tries[q], chosen'[q] = chosen[q], steady'[q] \subseteq steady[q],
           pc[q] \in {"primary", "failover"} => \A a \in steady'[q] : healthy'[a]
    PROVE  ChoiceAt(q)'
<1>1. /\ Backends' = Backends /\ ByRing(q)' = ByRing(q)
      /\ Candidates(q)' = Candidates(q) /\ Preference(q)' = Preference(q)
  BY DEF Backends, ByRing, Candidates, Preference
<1>2. pc'[q] # "new" =>
         /\ primary'[q] \in Backends'
         /\ ByRing(q)' => primary'[q] = RingOrder[size'][key'[q]][1]
  BY <1>1 DEF ChoiceAt
<1> QED
  BY <1>1, <1>2 DEF ChoiceAt

\* A probe's result, and each step of a request, leaves every choice with
\* reasons that were true at some moment of it.
LEMMA ChoiceStep ==
    TypeOK /\ (\A r \in Requests : ChoiceAt(r)) /\ [Next]_vars => \A r \in Requests : ChoiceAt(r)'
<1> SUFFICES ASSUME TypeOK, \A r \in Requests : ChoiceAt(r), [Next]_vars
             PROVE  \A r \in Requests : ChoiceAt(r)'
  OBVIOUS
<1> DEFINE Goal == \A r \in Requests : ChoiceAt(r)'
<1>0. /\ size \in Nat \ {0} /\ size \in 1..MaxSize /\ Backends = 1..size
      /\ healthy \in [Backends -> BOOLEAN]
      /\ pc \in [Requests -> {"new", "primary", "failover", "chosen", "refused"}]
      /\ key \in [Requests -> Conversations \cup {None}]
      /\ primary \in [Requests -> Backends \cup {None}]
      /\ tries \in [Requests -> 0..size]
      /\ chosen \in [Requests -> Backends \cup {None}]
      /\ steady \in [Requests -> SUBSET Backends]
  BY RoutingAssumption DEF TypeOK, Backends
<1>1. ASSUME NEW b \in Backends, NEW result \in BOOLEAN, ProbeStores(b, result) PROVE Goal
  <2> SUFFICES ASSUME NEW q \in Requests PROVE ChoiceAt(q)'
    OBVIOUS
  <2>1. /\ UNCHANGED <<size, pc, key, primary, tries, chosen>>
        /\ healthy' = [healthy EXCEPT ![b] = result]
    BY <1>1 DEF ProbeStores
  <2>2. /\ steady'[q] \subseteq steady[q]
        /\ ~result /\ pc[q] \in {"primary", "failover"} => b \notin steady'[q]
    BY <1>0, <1>1 DEF ProbeStores
  <2>3. ASSUME pc[q] \in {"primary", "failover"}, NEW a \in steady'[q] PROVE healthy'[a]
    <3>1. healthy[a] /\ a \in Backends
      BY <1>0, <2>2, <2>3 DEF ChoiceAt
    <3> QED
      BY <1>0, <2>1, <2>2, <2>3, <3>1
  <2> QED
    BY <2>1, <2>2, <2>3, OthersChoice
<1>2. ASSUME NEW r \in Requests, NEW q \in Requests, q # r,
             UNCHANGED <<size, healthy>>,
             pc'[q] = pc[q], key'[q] = key[q], primary'[q] = primary[q],
             tries'[q] = tries[q], chosen'[q] = chosen[q], steady'[q] = steady[q]
      PROVE  ChoiceAt(q)'
  <2>1. pc[q] \in {"primary", "failover"} => \A a \in steady'[q] : healthy'[a]
    BY <1>2 DEF ChoiceAt
  <2> QED
    BY <1>2, <2>1, OthersChoice
<1>3. ASSUME NEW r \in Requests, NEW c \in Conversations \cup {None}, NEW b \in Backends,
             Select(r, c, b),
             c # None /\ size > 1 => b = RingOrder[size][c][1]
      PROVE  Goal
  <2>1. /\ pc[r] = "new" /\ pc' = [pc EXCEPT ![r] = "primary"]
        /\ key' = [key EXCEPT ![r] = c] /\ primary' = [primary EXCEPT ![r] = b]
        /\ steady' = [steady EXCEPT ![r] = {a \in Backends : healthy[a]}]
        /\ UNCHANGED <<size, healthy, tries, chosen>>
    BY <1>3 DEF Select, Goto
  <2>2. ChoiceAt(r)'
    <3>1. /\ pc'[r] = "primary" /\ primary'[r] = b /\ key'[r] = c /\ tries'[r] = tries[r]
          /\ steady'[r] = {a \in Backends : healthy[a]}
      BY <1>0, <2>1
    <3>2. tries[r] = 0 /\ Backends' = Backends
      BY <2>1 DEF ChoiceAt, Backends
    <3>3. ByRing(r)' => c # None /\ size > 1
      BY <2>1, <3>1 DEF ByRing
    <3> QED
      BY <1>3, <2>1, <3>1, <3>2, <3>3 DEF ChoiceAt
  <2>3. ASSUME NEW q \in Requests, q # r PROVE ChoiceAt(q)'
    BY <1>0, <1>2, <2>1, <2>3
  <2> QED
    BY <2>2, <2>3
<1>4. ASSUME NEW r \in Requests, UNCHANGED <<size, healthy, key, primary, steady>>,
             \A q \in Requests \ {r} :
                pc'[q] = pc[q] /\ tries'[q] = tries[q] /\ chosen'[q] = chosen[q],
             ChoiceAt(r)'
      PROVE  Goal
  <2>1. ASSUME NEW q \in Requests, q # r PROVE ChoiceAt(q)'
    BY <1>2, <1>4, <2>1
  <2> QED
    BY <1>4, <2>1
<1>5. ASSUME NEW r \in Requests, UNCHANGED <<size, key, primary>>
      PROVE  /\ Backends' = Backends /\ ByRing(r)' = ByRing(r)
             /\ Candidates(r)' = Candidates(r) /\ Preference(r)' = Preference(r)
  BY <1>5 DEF Backends, ByRing, Candidates, Preference
<1>6. ASSUME NEW r \in Requests, pc[r] # "new", UNCHANGED <<size, healthy, key, primary, steady>>,
             pc'[r] = "chosen", NEW k \in Backends, chosen'[r] = Preference(r)[k],
             \A i \in 1..(k - 1) : Preference(r)[i] \notin steady[r]
      PROVE  ChoiceAt(r)'
  <2>1. /\ primary'[r] \in Backends'
        /\ ByRing(r)' => primary'[r] = RingOrder[size'][key'[r]][1]
    BY <1>5, <1>6 DEF ChoiceAt
  <2>2. ASSUME NEW j \in Backends, Preference(r)[j] = chosen'[r]
        PROVE  \A i \in 1..(j - 1) : Preference(r)[i] \notin steady[r]
    <3>1. ChoiceAt(r) /\ j \in Backends /\ k \in Backends
      BY <1>0, <1>6
    <3>2. Preference(r)[j] = Preference(r)[k]
      BY <1>6, <2>2
    <3>3. \A i, l \in Backends : Preference(r)[i] = Preference(r)[l] => i = l
      BY <1>6, <3>1, PreferenceAll
    <3>4. j = k
      BY <3>1, <3>2, <3>3
    <3> QED
      BY <1>6, <3>4
  <2> QED
    BY <1>5, <1>6, <2>1, <2>2 DEF ChoiceAt
<1>7. ASSUME NEW r \in Requests, PrimaryHealthy(r) PROVE Goal
  <2>1. /\ pc[r] = "primary" /\ UNCHANGED <<size, healthy, key, primary, tries, steady>>
        /\ pc' = [pc EXCEPT ![r] = "chosen"] /\ chosen' = [chosen EXCEPT ![r] = primary[r]]
    BY <1>7 DEF PrimaryHealthy, Choose, Goto
  <2>2. pc'[r] = "chosen" /\ chosen'[r] = primary[r] /\ Preference(r)[1] = primary[r]
    <3>1. pc'[r] = "chosen" /\ chosen'[r] = primary[r]
      BY <1>0, <2>1
    <3>2. ChoiceAt(r) /\ pc[r] # "new"
      BY <1>0, <2>1
    <3> QED
      BY <1>0, <3>1, <3>2, PreferenceAll
  <2>3. 1 \in Backends /\ \A i \in 1..(1 - 1) : Preference(r)[i] \notin steady[r]
    BY <1>0
  <2>4. ChoiceAt(r)'
    BY <1>6, <2>1, <2>2, <2>3
  <2> QED
    BY <1>0, <1>4, <2>1, <2>4
<1>8. ASSUME NEW r \in Requests, PrimaryUnhealthy(r) PROVE Goal
  <2>1. /\ pc[r] = "primary" /\ UNCHANGED <<size, healthy, key, primary, tries, chosen, steady>>
        /\ pc' = [pc EXCEPT ![r] = "failover"] /\ ~healthy[primary[r]]
    BY <1>8 DEF PrimaryUnhealthy, Goto
  <2>2. pc'[r] = "failover" /\ tries[r] = 0 /\ primary[r] \notin steady[r]
    BY <1>0, <2>1 DEF ChoiceAt
  <2>3. 0 <= Len(Candidates(r))
    BY <1>0, <2>1, PreferenceAll
  <2>4. ChoiceAt(r)'
    <3>1. /\ primary'[r] \in Backends'
          /\ ByRing(r)' => primary'[r] = RingOrder[size'][key'[r]][1]
          /\ \A a \in steady[r] : healthy[a]
      BY <1>5, <2>1 DEF ChoiceAt
    <3> QED
      BY <1>5, <2>1, <2>2, <2>3, <3>1 DEF ChoiceAt
  <2> QED
    BY <1>0, <1>4, <2>1, <2>4
<1>9. ASSUME NEW r \in Requests, TryNext(r) PROVE Goal
  <2>1. PICK i \in Nat : i = tries[r] + 1
    BY <1>0
  <2>2. /\ pc[r] = "failover" /\ i <= Len(Candidates(r)) /\ tries' = [tries EXCEPT ![r] = i]
        /\ UNCHANGED <<size, healthy, key, primary, steady>>
        /\ IF healthy[Candidates(r)[i]]
           THEN /\ pc' = [pc EXCEPT ![r] = "chosen"]
                /\ chosen' = [chosen EXCEPT ![r] = Candidates(r)[i]]
           ELSE UNCHANGED <<pc, chosen>>
    BY <1>9, <2>1 DEF TryNext, Choose, Goto
  <2>3. tries'[r] = i /\ i \in 1..Len(Candidates(r)) /\ Len(Candidates(r)) \in Nat /\ tries[r] \in Nat
    BY <1>0, <2>1, <2>2, PreferenceAll
  <2>4. PICK k \in Backends : k = IF ByRing(r) THEN i ELSE i + 1
    <3>1. Len(Candidates(r)) = IF ByRing(r) THEN size ELSE size - 1
      BY <2>2, PreferenceAll
    <3>2. (IF ByRing(r) THEN i ELSE i + 1) \in 1..size
      BY <1>0, <2>3, <3>1
    <3> QED
      BY <1>0, <3>2
  <2>5. Candidates(r)[i] = Preference(r)[k] /\ Candidates(r)[i] \in Backends
    BY <2>2, <2>3, <2>4, PreferenceAll
  <2>6. \A j \in 1..(k - 1) : Preference(r)[j] \notin steady[r]
    BY <1>0, <2>1, <2>2, <2>4, PassedOver
  <2>7. CASE healthy[Candidates(r)[i]]
    <3>1. pc'[r] = "chosen" /\ chosen'[r] = Preference(r)[k]
      BY <1>0, <2>2, <2>5, <2>7
    <3>2. ChoiceAt(r)'
      BY <1>6, <2>2, <2>6, <3>1
    <3> QED
      BY <1>0, <1>4, <2>2, <2>7, <3>2
  <2>8. CASE ~healthy[Candidates(r)[i]]
    <3>1. Candidates(r)[i] \notin steady[r]
      BY <2>2, <2>8 DEF ChoiceAt
    <3>2. \A j \in 1..i : Candidates(r)[j] \notin steady[r]
      <4>1. \A j \in 1..tries[r] : Candidates(r)[j] \notin steady[r]
        BY <2>2 DEF ChoiceAt
      <4>2. \A j \in 1..i : j = i \/ j \in 1..tries[r]
        BY <2>1, <2>3
      <4> QED
        BY <3>1, <4>1, <4>2
    <3>3. ChoiceAt(r)'
      <4>1. /\ primary'[r] \in Backends'
            /\ ByRing(r)' => primary'[r] = RingOrder[size'][key'[r]][1]
            /\ \A a \in steady[r] : healthy[a]
            /\ primary[r] \notin steady[r]
        BY <1>5, <2>2 DEF ChoiceAt
      <4> QED
        BY <1>5, <2>2, <2>3, <2>8, <3>2, <4>1 DEF ChoiceAt
    <3> QED
      BY <1>0, <1>4, <2>2, <2>8, <3>3
  <2> QED
    BY <2>7, <2>8
<1>10. ASSUME NEW r \in Requests, NoHealthyBackend(r) PROVE Goal
  <2>1. /\ pc[r] = "failover" /\ tries[r] = Len(Candidates(r))
        /\ UNCHANGED <<size, healthy, key, primary, tries, chosen, steady>>
        /\ pc' = [pc EXCEPT ![r] = "refused"]
    BY <1>10 DEF NoHealthyBackend, Goto
  <2>2. ASSUME NEW a \in steady[r] PROVE FALSE
    <3>1. a \in Backends
      BY <1>0
    <3>2. PICK j \in Backends : Preference(r)[j] = a
      BY <2>1, <3>1, PreferenceAll
    <3>3. j <= IF ByRing(r) THEN tries[r] ELSE tries[r] + 1
      <4>1. Len(Candidates(r)) = IF ByRing(r) THEN size ELSE size - 1
        BY <2>1, PreferenceAll
      <4>2. j \in 1..size
        BY <1>0
      <4> QED
        BY <1>0, <2>1, <4>1, <4>2
    <3> QED
      BY <2>1, <3>2, <3>3, PassedOver
  <2>3. pc'[r] = "refused" /\ steady[r] = {}
    BY <1>0, <2>1, <2>2
  <2>4. ChoiceAt(r)'
    <3>1. /\ primary'[r] \in Backends'
          /\ ByRing(r)' => primary'[r] = RingOrder[size'][key'[r]][1]
      BY <1>5, <2>1 DEF ChoiceAt
    <3> QED
      BY <2>1, <2>3, <3>1 DEF ChoiceAt
  <2> QED
    BY <1>0, <1>4, <2>1, <2>4
<1>11. ASSUME NEW r \in Requests,
              \/ \E c \in Conversations \cup {None} : SelectSingle(r, c) \/ SelectByAffinity(r, c)
              \/ SelectByTurn(r)
       PROVE  Goal
  <2>1. ASSUME NEW c \in Conversations \cup {None}, SelectSingle(r, c) PROVE Goal
    <3>1. 1 \in Backends /\ ~(size > 1)
      BY <1>0, <2>1 DEF SelectSingle
    <3> QED
      BY <1>3, <2>1, <3>1 DEF SelectSingle
  <2>2. ASSUME NEW c \in Conversations \cup {None}, SelectByAffinity(r, c) PROVE Goal
    <3>1. c \in Conversations /\ size \in 2..MaxSize
      BY <1>0, <2>2, RoutingAssumption DEF SelectByAffinity
    <3>2. RingOrder[size][c][1] \in Backends
      BY <1>0, <3>1, RingOrderAll
    <3> QED
      BY <1>3, <2>2, <3>2 DEF SelectByAffinity
  <2>3. ASSUME SelectByTurn(r) PROVE Goal
    <3>1. TakeTurn(next) \in Backends
      <4>1. next \in Nat
        BY DEF TypeOK
      <4> QED
        BY <1>0, <4>1 DEF TakeTurn
    <3> QED
      BY <1>3, <2>3, <3>1 DEF SelectByTurn
  <2> QED
    BY <1>11, <2>1, <2>2, <2>3
<1>12. CASE UNCHANGED vars
  <2>1. ASSUME NEW q \in Requests PROVE ChoiceAt(q)'
    <3>1. pc[q] \in {"primary", "failover"} => \A a \in steady'[q] : healthy'[a]
      BY <1>12 DEF ChoiceAt, vars
    <3> QED
      BY <1>12, <3>1, OthersChoice DEF vars
  <2> QED
    BY <2>1
<1> QED
  BY <1>1, <1>7, <1>8, <1>9, <1>10, <1>11, <1>12 DEF Next

-----------------------------------------------------------------------------
(* Types.                                                                  *)

\* Indexes stay within the list, and a request is sent to one of its members.
LEMMA TypeStep ==
    ASSUME TypeOK, \A r \in Requests : ChoiceAt(r), [Next]_vars
    PROVE  TypeOK'
<1>0. /\ size \in Nat \ {0} /\ size \in 1..MaxSize /\ Backends = 1..size
      /\ healthy \in [Backends -> BOOLEAN] /\ next \in Nat
      /\ pc \in [Requests -> {"new", "primary", "failover", "chosen", "refused"}]
      /\ key \in [Requests -> Conversations \cup {None}]
      /\ primary \in [Requests -> Backends \cup {None}]
      /\ tries \in [Requests -> 0..size]
      /\ chosen \in [Requests -> Backends \cup {None}]
      /\ turns \in [Backends -> Nat]
      /\ steady \in [Requests -> SUBSET Backends]
  BY RoutingAssumption DEF TypeOK, Backends
<1>1. size' = size /\ Backends' = Backends
  <2>1. ASSUME NEW b, NEW result, ProbeStores(b, result) PROVE size' = size
    BY <2>1 DEF ProbeStores
  <2>2. ASSUME NEW r, NEW c, SelectSingle(r, c) \/ SelectByAffinity(r, c) PROVE size' = size
    BY <2>2 DEF SelectSingle, SelectByAffinity, Select
  <2>3. ASSUME NEW r, SelectByTurn(r) PROVE size' = size
    BY <2>3 DEF SelectByTurn, Select
  <2>4. ASSUME NEW r, PrimaryHealthy(r) \/ PrimaryUnhealthy(r) \/ TryNext(r) \/ NoHealthyBackend(r)
        PROVE  size' = size
    BY <2>4 DEF PrimaryHealthy, PrimaryUnhealthy, TryNext, NoHealthyBackend
  <2>5. size' = size
    BY <2>1, <2>2, <2>3, <2>4 DEF Next, vars
  <2> QED
    BY <2>5 DEF Backends
<1>2. ASSUME NEW b \in Backends, NEW result \in BOOLEAN, ProbeStores(b, result) PROVE TypeOK'
  <2>1. /\ UNCHANGED <<next, pc, key, primary, tries, chosen, turns>>
        /\ healthy' = [healthy EXCEPT ![b] = result]
    BY <1>2 DEF ProbeStores
  <2>2. steady' \in [Requests -> SUBSET Backends]
    BY <1>0, <1>2 DEF ProbeStores
  <2> QED
    BY <1>0, <1>1, <2>1, <2>2 DEF TypeOK
<1>3. ASSUME NEW r \in Requests, NEW c \in Conversations \cup {None}, NEW b \in Backends,
             Select(r, c, b), next' \in Nat, turns' \in [Backends -> Nat]
      PROVE  TypeOK'
  <2>1. /\ UNCHANGED <<healthy, tries, chosen>>
        /\ pc' = [pc EXCEPT ![r] = "primary"]
        /\ key' = [key EXCEPT ![r] = c] /\ primary' = [primary EXCEPT ![r] = b]
        /\ steady' = [steady EXCEPT ![r] = {a \in Backends : healthy[a]}]
    BY <1>3 DEF Select, Goto
  <2> QED
    BY <1>0, <1>1, <1>3, <2>1 DEF TypeOK
<1>4. ASSUME NEW r \in Requests,
             \/ \E c \in Conversations \cup {None} : SelectSingle(r, c) \/ SelectByAffinity(r, c)
             \/ SelectByTurn(r)
      PROVE  TypeOK'
  <2>1. ASSUME NEW c \in Conversations \cup {None}, SelectSingle(r, c) PROVE TypeOK'
    <3>1. Select(r, c, 1) /\ 1 \in Backends /\ UNCHANGED <<next, turns>>
      BY <1>0, <2>1 DEF SelectSingle
    <3> QED
      BY <1>0, <1>3, <3>1
  <2>2. ASSUME NEW c \in Conversations \cup {None}, SelectByAffinity(r, c) PROVE TypeOK'
    <3>1. c \in Conversations /\ size \in 2..MaxSize
      BY <1>0, <2>2, RoutingAssumption DEF SelectByAffinity
    <3>2. Select(r, c, RingOrder[size][c][1]) /\ UNCHANGED <<next, turns>>
      BY <2>2 DEF SelectByAffinity
    <3>3. RingOrder[size][c][1] \in Backends
      <4>1. RingOrder[size][c] \in [1..size -> 1..size]
        BY <3>1, RingOrderAll
      <4>2. 1 \in 1..size
        BY <1>0
      <4> QED
        BY <1>0, <4>1, <4>2
    <3> QED
      BY <1>0, <1>3, <3>2, <3>3
  <2>3. ASSUME SelectByTurn(r) PROVE TypeOK'
    <3>1. PICK b \in Backends : b = TakeTurn(next)
      <4>1. (next % size) + 1 \in 1..size
        BY <1>0
      <4> QED
        BY <1>0, <4>1 DEF TakeTurn
    <3>2. /\ Select(r, None, b) /\ next' = next + 1
          /\ turns' = [a \in Backends |-> IF a = b THEN turns[a] + 1 ELSE turns[a]]
      BY <2>3, <3>1 DEF SelectByTurn
    <3>3. next' \in Nat /\ turns' \in [Backends -> Nat]
      BY <1>0, <3>2
    <3> QED
      BY <1>3, <3>2, <3>3
  <2> QED
    BY <1>4, <2>1, <2>2, <2>3
<1>5. ASSUME NEW r \in Requests, PrimaryHealthy(r) PROVE TypeOK'
  <2>1. /\ UNCHANGED <<healthy, next, key, primary, tries, turns, steady>> /\ pc[r] = "primary"
        /\ pc' = [pc EXCEPT ![r] = "chosen"] /\ chosen' = [chosen EXCEPT ![r] = primary[r]]
    BY <1>5 DEF PrimaryHealthy, Choose, Goto
  <2>2. primary[r] \in Backends
    BY <2>1 DEF ChoiceAt
  <2> QED
    BY <1>0, <1>1, <2>1, <2>2 DEF TypeOK
<1>6. ASSUME NEW r \in Requests, PrimaryUnhealthy(r) \/ NoHealthyBackend(r) PROVE TypeOK'
  <2>1. /\ UNCHANGED <<healthy, next, key, primary, tries, chosen, turns, steady>>
        /\ \E label \in {"failover", "refused"} : pc' = [pc EXCEPT ![r] = label]
    BY <1>6 DEF PrimaryUnhealthy, NoHealthyBackend, Goto
  <2> QED
    BY <1>0, <1>1, <2>1 DEF TypeOK
<1>7. ASSUME NEW r \in Requests, TryNext(r) PROVE TypeOK'
  <2>1. PICK i \in Nat : i = tries[r] + 1
    BY <1>0
  <2>2. /\ pc[r] = "failover" /\ i <= Len(Candidates(r)) /\ tries' = [tries EXCEPT ![r] = i]
        /\ UNCHANGED <<healthy, next, key, primary, turns, steady>>
        /\ \/ /\ pc' = [pc EXCEPT ![r] = "chosen"]
              /\ chosen' = [chosen EXCEPT ![r] = Candidates(r)[i]]
           \/ UNCHANGED <<pc, chosen>>
    BY <1>7, <2>1 DEF TryNext, Choose, Goto
  <2>3. Len(Candidates(r)) = IF ByRing(r) THEN size ELSE size - 1
    BY <2>2, PreferenceAll
  <2>4. i \in 0..size /\ i \in 1..Len(Candidates(r))
    BY <1>0, <2>1, <2>2, <2>3
  <2>5. Candidates(r)[i] \in Backends
    BY <2>2, <2>4, PreferenceAll
  <2> QED
    BY <1>0, <1>1, <2>2, <2>4, <2>5 DEF TypeOK
<1>8. CASE UNCHANGED vars
  BY <1>0, <1>1, <1>8 DEF TypeOK, vars
<1> QED
  BY <1>2, <1>4, <1>5, <1>6, <1>7, <1>8 DEF Next

-----------------------------------------------------------------------------
(* The theorems.                                                           *)

\* The counter starts at nought, and no request has begun.
LEMMA InitInv == Init => RoutingInv
<1> SUFFICES ASSUME Init PROVE RoutingInv
  OBVIOUS
<1>0. size \in 1..MaxSize /\ size \in Nat \ {0} /\ None \notin Nat
  BY RoutingAssumption DEF Init
<1>1. TypeOK
  BY <1>0 DEF Init, TypeOK, Backends
<1>2. TurnsAt
  <2>1. next % size = 0
    <3>1. 0 % size = 0
      BY <1>0, OnceRound
    <3> QED
      BY <3>1 DEF Init
  <2>2. \A b \in Backends : turns[b] = IF b <= next % size THEN 0 + 1 ELSE 0
    BY <1>0, <2>1 DEF Init, Backends
  <2> QED
    BY <2>2 DEF TurnsAt
<1>3. \A r \in Requests : ChoiceAt(r)
  BY DEF Init, ChoiceAt
<1> QED
  BY <1>1, <1>2, <1>3 DEF RoutingInv

\* The invariant holds of every execution.
THEOREM Inductive == Spec => []RoutingInv
<1>1. RoutingInv /\ [Next]_vars => RoutingInv'
  BY TurnsStep, ChoiceStep, TypeStep DEF RoutingInv
<1> QED
  BY InitInv, <1>1, PTL DEF Spec

\* Numbers of backends, the counter and the places of choices are as the code
\* has them: no index leaves the list.
THEOREM TypeCorrect == Spec => []TypeOK
<1>1. RoutingInv => TypeOK
  BY DEF RoutingInv
<1> QED
  BY <1>1, Inductive, PTL

\* With any number of backends, no backend gets a turn more than one ahead of
\* another.
THEOREM TurnsCorrect == Spec => []EvenTurns
<1>1. RoutingInv => EvenTurns
  <2> SUFFICES ASSUME RoutingInv, NEW a \in Backends, NEW b \in Backends
               PROVE  turns[a] <= turns[b] + 1
    BY DEF EvenTurns
  <2>1. PICK rounds \in Nat : \A q \in Backends :
            turns[q] = IF q <= next % size THEN rounds + 1 ELSE rounds
    BY DEF RoutingInv, TurnsAt
  <2> QED
    BY <2>1
<1> QED
  BY <1>1, Inductive, PTL

\* Whatever the probes store in the middle of a choice, a request is refused
\* or sent past a backend only if that backend was down at some moment of it.
THEOREM ChoicesCorrect == Spec => []SteadyPreferred
<1>1. RoutingInv => SteadyPreferred
  BY DEF RoutingInv, ChoiceAt, SteadyPreferred
<1> QED
  BY <1>1, Inductive, PTL
=============================================================================
