---------------------------- MODULE PortalProofs -----------------------------
(***************************************************************************)
(* Proofs about Portal for every number of emails, calls, tokens, keys and *)
(* attempts.                                                               *)
(***************************************************************************)
EXTENDS Portal, FiniteSetTheorems, TLAPS

-----------------------------------------------------------------------------
(* The inductive invariant.                                                *)

\* An email is registered with everything that belongs to it, or not at all.
Registered ==
    /\ users = owners
    /\ \A e \in Emails : keys[e] # <<>> <=> e \in owners

\* An insert that is not committed belongs to the call that made it.
SigningAt(e) ==
    signing[e] # Null => At(signing[e], "filling") /\ call[signing[e]].email = e

\* Who makes the call has been found out, once it has come to the statements.
EmailAt(c) ==
    /\ call[c].at \notin {"new", "checking"} => call[c].email \in Emails
    /\ At(c, "filling") =>
          signing[call[c].email] = c /\ call[c].email \notin users
    /\ At(c, "taken") => call[c].email \in owners

\* What a call came with, or was given, opens nothing more later on: a token
\* or a key that is no longer good does not become good again.
CredAt(c) ==
    LET k == call[c]
    IN  /\ At(c, "checking") => k.op \in Ops /\ k.key = Null
        /\ At(c, "checking") /\ k.op # "api" =>
              k.cred \in Tokens /\ (Live(k.cred) => k.valid)
        /\ At(c, "checking") /\ k.op = "api" =>
              /\ k.cred \in Key /\ k.cred[2] \in DOMAIN keys[k.cred[1]]
              /\ Active(k.cred) => k.valid
        /\ k.at \in {"clearing", "closing", "left"} => k.cred \in Tokens
        /\ At(c, "left") => sessions[k.cred] = Null
        /\ At(c, "choosing") => k.op = "chat" /\ k.valid
        /\ At(c, "recording") => k.op # "account" /\ k.key # Null /\ k.valid
        /\ At(c, "served") => k.valid /\ (k.key = Null <=> k.op = "account")

\* The logins admitted of late, oldest first: those of the window that
\* attempts counts, and before them at most Limit that are no younger than it.
GuessesAt(e) ==
    LET g == guesses[e]
    IN  /\ \A i, j \in 1..Len(g) : i < j => g[i] >= g[j]
        /\ attempts[e] = 0 => Len(g) <= Limit
        /\ attempts[e] # 0 =>
              \E k \in 0..Len(g) :
                  /\ k <= Limit /\ Len(g) - k <= Limit /\ Len(g) - k <= attempts[e]
                  /\ \A i \in 1..k : g[i] >= age[e]

PortalInv ==
    /\ TypeOK
    /\ Registered
    /\ \A e \in Emails : SigningAt(e)
    /\ \A c \in Calls : EmailAt(c)
    /\ \A c \in Calls : CredAt(c)
    /\ \A e \in Emails : GuessesAt(e)

-----------------------------------------------------------------------------
(* The login limit.                                                        *)

\* In ages that fall, those that leave the window are the first ones.
LEMMA Departing ==
    ASSUME NEW n \in Nat, NEW T \in SUBSET (1..n), \A i \in T : \A j \in 1..i : j \in T
    PROVE  \E d \in 0..n : \A i \in 1..n : i <= d <=> i \in T
<1>1. IsFiniteSet(1..n) /\ Cardinality(1..n) = n
  BY FS_Interval
<1>2. IsFiniteSet(T) /\ Cardinality(T) \in Nat /\ Cardinality(T) <= n
  <2>1. IsFiniteSet(T) /\ Cardinality(T) <= Cardinality(1..n)
    BY <1>1, FS_Subset
  <2> QED
    BY <1>1, <2>1, FS_CardinalityType
<1>3. ASSUME NEW i \in T PROVE i <= Cardinality(T)
  <2>1. i \in Nat /\ (1..i) \in SUBSET T
    OBVIOUS
  <2>2. Cardinality(1..i) = i
    BY <2>1, FS_Interval
  <2> QED
    BY <1>2, <2>1, <2>2, FS_Subset
<1>4. ASSUME NEW i \in 1..n, i <= Cardinality(T), i \notin T PROVE FALSE
  <2>1. T \in SUBSET (1..(i - 1))
    BY <1>4
  <2>2. IsFiniteSet(1..(i - 1)) /\ Cardinality(1..(i - 1)) = i - 1
    BY FS_Interval
  <2>3. Cardinality(T) <= i - 1
    BY <2>1, <2>2, FS_Subset
  <2> QED
    BY <1>2, <1>4, <2>3
<1>5. PICK d \in 0..n : d = Cardinality(T)
  BY <1>2
<1>6. ASSUME NEW i \in 1..n PROVE i <= d <=> i \in T
  BY <1>3, <1>4, <1>5
<1> QED
  BY <1>6

\* A tick drops the oldest ages and makes the others one older.
LEMMA OlderAges ==
    ASSUME Window \in Nat, NEW g \in Seq(0..Window),
           \A i, j \in 1..Len(g) : i < j => g[i] >= g[j]
    PROVE  /\ Older(g) \in Seq(0..Window)
           /\ \E d \in 0..Len(g) :
                 /\ \A i \in 1..Len(g) : i <= d <=> g[i] >= Window
                 /\ Len(Older(g)) = Len(g) - d
                 /\ \A i \in 1..(Len(g) - d) : Older(g)[i] = g[i + d] + 1
<1> DEFINE Old(k) == \A i \in 1..Len(g) : i <= k <=> g[i] >= Window
           d == CHOOSE k \in 0..Len(g) : Old(k)
           n == Len(g)
<1>0. n \in Nat /\ \A i \in 1..n : g[i] \in 0..Window
  OBVIOUS
<1>1. \E k \in 0..n : Old(k)
  <2> DEFINE T == {i \in 1..n : g[i] >= Window}
  <2>1. T \in SUBSET (1..n)
    OBVIOUS
  <2>2. ASSUME NEW i \in T, NEW j \in 1..i PROVE j \in T
    <3>1. i \in 1..n /\ j \in 1..n /\ g[i] >= Window /\ (j = i \/ j < i)
      BY <1>0
    <3>2. g[j] >= g[i]
      BY <1>0, <3>1
    <3> QED
      BY <1>0, <3>1, <3>2
  <2>3. \E k \in 0..n : \A i \in 1..n : i <= k <=> i \in T
    <3> HIDE DEF T
    <3> QED
      BY <1>0, <2>1, <2>2, Departing
  <2> QED
    BY <2>3
<1>2. d \in 0..n /\ Old(d)
  <2> HIDE DEF Old
  <2> QED
    BY <1>1
<1>3. Older(g) = [i \in 1..(n - d) |-> g[i + d] + 1]
  BY DEF Older
<1> HIDE DEF d
<1>4. n - d \in Nat
  BY <1>0, <1>2
<1>5. \A i \in 1..(n - d) : g[i + d] + 1 \in 0..Window
  <2>1. ASSUME NEW i \in 1..(n - d) PROVE g[i + d] + 1 \in 0..Window
    <3>1. i + d \in 1..n /\ ~(i + d <= d)
      BY <1>0, <1>2
    <3>2. ~(g[i + d] >= Window) /\ g[i + d] \in 0..Window
      BY <1>0, <1>2, <3>1
    <3> QED
      BY <3>2
  <2> QED
    BY <2>1
<1>6. Older(g) \in Seq(0..Window) /\ Len(Older(g)) = n - d
  <2> DEFINE m == n - d
             h == [i \in 1..m |-> g[i + d] + 1]
  <2>1. m \in Nat /\ h \in [1..m -> 0..Window]
    BY <1>4, <1>5
  <2> HIDE DEF h, m
  <2>2. h \in Seq(0..Window) /\ Len(h) = m
    <3>1. DOMAIN h = 1..m /\ h \in Seq(0..Window)
      BY <2>1
    <3> QED
      BY <2>1, <3>1
  <2> QED
    BY <1>3, <2>2 DEF h, m
<1> QED
  BY <1>2, <1>3, <1>6

\* A statement, a tick or Maintain changes what is admitted as the limit
\* allows.
LEMMA GuessesStep ==
    TypeOK /\ (\A c \in Calls : EmailAt(c)) /\ (\A e \in Emails : GuessesAt(e)) /\ [Next]_vars
      => \A e \in Emails : GuessesAt(e)'
<1> SUFFICES ASSUME TypeOK, \A c \in Calls : EmailAt(c), \A e \in Emails : GuessesAt(e),
                    [Next]_vars
             PROVE  \A e \in Emails : GuessesAt(e)'
  OBVIOUS
<1>0. /\ Limit \in Nat \ {0} /\ Window \in Nat
      /\ attempts \in [Emails -> 0..Limit + 1] /\ age \in [Emails -> 0..Window + 1]
      /\ guesses \in [Emails -> Seq(0..Window)]
  BY PortalAssumption DEF TypeOK
<1> USE DEF limits, vars
<1>1. ASSUME NEW e \in Emails, attempts'[e] = attempts[e], age'[e] = age[e],
             guesses'[e] = guesses[e]
      PROVE  GuessesAt(e)'
  BY <1>1 DEF GuessesAt
<1>2. ASSUME NEW e \in Emails, Stale(e) PROVE Len(guesses[e]) <= Limit
  <2>1. CASE attempts[e] # 0
    <3> DEFINE g == guesses[e]
    <3>1. PICK k \in 0..Len(g) :
              k <= Limit /\ Len(g) - k <= Limit /\ \A i \in 1..k : g[i] >= age[e]
      BY <2>1 DEF GuessesAt
    <3>2. k = 0
      <4>1. Len(g) \in Nat /\ \A i \in 1..Len(g) : g[i] \in 0..Window
        BY <1>0
      <4>2. age[e] > Window
        BY <1>2 DEF Stale
      <4>3. k # 0 => 1 \in 1..k /\ 1 \in 1..Len(g)
        BY <3>1, <4>1
      <4>4. age[e] \in Nat
        BY <1>0
      <4> HIDE DEF g
      <4>5. k # 0 => g[1] >= age[e] /\ g[1] \in 0..Window
        BY <3>1, <4>1, <4>3
      <4> QED
        BY <1>0, <4>2, <4>4, <4>5
    <3>3. Len(g) \in Nat
      BY <1>0
    <3> QED
      BY <1>0, <3>1, <3>2, <3>3
  <2>2. CASE attempts[e] = 0
    BY <2>2 DEF GuessesAt
  <2> QED
    BY <2>1, <2>2
<1>3. ASSUME NEW c \in Calls, NEW seen \in BOOLEAN, CountAttempt(c, seen)
      PROVE  \A e \in Emails : GuessesAt(e)'
  <2>0. PICK e \in Emails : e = call[c].email
    BY <1>3 DEF CountAttempt, EmailAt, At
  <2> DEFINE g == guesses[e]
             fresh == attempts[e] = 0 \/ Stale(e)
             count == IF fresh THEN 1 ELSE AtMost(attempts[e] + 1, Limit + 1)
  <2>1. /\ attempts' = [attempts EXCEPT ![e] = count]
        /\ age' = [age EXCEPT ![e] = IF fresh THEN 0 ELSE age[e]]
        /\ guesses' = [guesses EXCEPT ![e] = IF count <= Limit THEN Append(guesses[e], 0)
                                             ELSE guesses[e]]
    BY <1>0, <1>3, <2>0 DEF CountAttempt
  <2>2. count \in 1..Limit + 1 /\ (~fresh => count = attempts[e] + 1 \/ count = Limit + 1)
    BY <1>0, <2>0 DEF AtMost
  <2>3. /\ fresh => count = 1 /\ Len(g) <= Limit
        /\ ~fresh => attempts[e] # 0 /\ attempts[e] \in 0..Limit + 1
    BY <1>0, <1>2, <2>0 DEF GuessesAt
  <2> HIDE DEF fresh, count
  <2>4. ASSUME NEW q \in Emails, q # e PROVE GuessesAt(q)'
    BY <1>0, <1>1, <2>0, <2>1, <2>4
  <2>5. /\ attempts'[e] = count /\ age'[e] = IF fresh THEN 0 ELSE age[e]
        /\ guesses'[e] = IF count <= Limit THEN Append(g, 0) ELSE g
        /\ g \in Seq(0..Window)
    BY <1>0, <2>0, <2>1
  <2> DEFINE h == guesses'[e]
  <2>6. /\ Len(g) \in Nat /\ \A i \in 1..Len(g) : g[i] \in 0..Window /\ h[i] = g[i]
        /\ \A i, j \in 1..Len(g) : i < j => g[i] >= g[j]
        /\ IF count <= Limit THEN Len(h) = Len(g) + 1 /\ h[Len(g) + 1] = 0 ELSE Len(h) = Len(g)
    <3>0. 0 \in 0..Window
      BY <1>0
    <3>1. ASSUME NEW s \in Seq(0..Window)
          PROVE  /\ Len(s) \in Nat /\ \A i \in 1..Len(s) : s[i] \in 0..Window
                 /\ Len(Append(s, 0)) = Len(s) + 1 /\ Append(s, 0)[Len(s) + 1] = 0
                 /\ \A i \in 1..Len(s) : Append(s, 0)[i] = s[i]
      <4>1. Len(s) \in Nat /\ \A i \in 1..Len(s) : s[i] \in 0..Window
        BY <1>0
      <4>2. Len(Append(s, 0)) = Len(s) + 1
        BY <3>0
      <4>3. Append(s, 0)[Len(s) + 1] = 0
        BY <3>0, <4>1
      <4>4. \A i \in 1..Len(s) : Append(s, 0)[i] = s[i]
        BY <3>0, <4>1
      <4> QED
        BY <4>1, <4>2, <4>3, <4>4
    <3>2. \A i, j \in 1..Len(g) : i < j => g[i] >= g[j]
      BY <2>0 DEF GuessesAt
    <3> QED
      BY <2>5, <3>1, <3>2
  <2> HIDE DEF g, h
  <2>7. \A i, j \in 1..Len(h) : i < j => h[i] >= h[j]
    <3>1. CASE count <= Limit
      <4>1. ASSUME NEW i \in 1..Len(h), NEW j \in 1..Len(h), i < j PROVE h[i] >= h[j]
        <5>1. i \in 1..Len(g) /\ (j \in 1..Len(g) \/ j = Len(g) + 1)
          BY <2>6, <3>1, <4>1
        <5> QED
          BY <1>0, <2>6, <3>1, <4>1, <5>1
      <4> QED
        BY <4>1
    <3>2. CASE ~(count <= Limit)
      <4>1. Len(h) = Len(g)
        BY <2>6, <3>2
      <4> QED
        BY <2>6, <4>1
    <3> QED
      BY <3>1, <3>2
  <2>8. \E k \in 0..Len(h) :
            /\ k <= Limit /\ Len(h) - k <= Limit /\ Len(h) - k <= count
            /\ \A i \in 1..k : h[i] >= age'[e]
    <3>1. CASE fresh
      <4>1. count = 1 /\ 1 <= Limit /\ Len(h) = Len(g) + 1 /\ Len(g) <= Limit
        BY <1>0, <2>3, <2>6, <3>1 DEF g
      <4>2. Len(g) \in 0..Len(h) /\ Len(h) - Len(g) = 1
        BY <2>6, <4>1
      <4>3. \A i \in 1..Len(g) : h[i] >= age'[e]
        <5>1. age'[e] = 0 /\ Window \in Nat
          BY <1>0, <2>5, <3>1
        <5>2. \A i \in 1..Len(g) : h[i] \in 0..Window
          BY <2>6
        <5> QED
          BY <5>1, <5>2
      <4> QED
        BY <4>1, <4>2, <4>3
    <3>2. CASE ~fresh
      <4>1. PICK k \in 0..Len(g) :
                /\ k <= Limit /\ Len(g) - k <= Limit /\ Len(g) - k <= attempts[e]
                /\ \A i \in 1..k : g[i] >= age[e]
        BY <2>0, <2>3, <3>2 DEF GuessesAt, g
      <4>2. age'[e] = age[e] /\ attempts[e] \in 0..Limit + 1
        BY <2>3, <2>5, <3>2
      <4>3. \A i \in 1..k : h[i] >= age'[e]
        BY <2>6, <4>1, <4>2
      <4>4. k \in 0..Len(h) /\ Len(h) - k <= Limit /\ Len(h) - k <= count
        <5>1. CASE count <= Limit
          <6>1. count = attempts[e] + 1 /\ Len(h) = Len(g) + 1
            BY <1>0, <2>2, <2>6, <3>2, <5>1
          <6> QED
            BY <1>0, <2>2, <2>6, <4>1, <4>2, <5>1, <6>1
        <5>2. CASE ~(count <= Limit)
          <6>1. count = Limit + 1 /\ Len(h) = Len(g)
            BY <1>0, <2>2, <2>6, <5>2
          <6> QED
            BY <1>0, <2>6, <4>1, <6>1
        <5> QED
          BY <5>1, <5>2
      <4> QED
        BY <4>1, <4>3, <4>4
    <3> QED
      BY <3>1, <3>2
  <2>9. GuessesAt(e)'
    <3>1. attempts'[e] = count /\ count # 0
      BY <2>2, <2>5
    <3> USE DEF h
    <3> QED
      BY <2>7, <2>8, <3>1 DEF GuessesAt
  <2> QED
    BY <2>4, <2>9
<1>4. ASSUME NEW c \in Calls, NEW done \in BOOLEAN, ClearAttempts(c, done)
      PROVE  \A e \in Emails : GuessesAt(e)'
  <2>0. PICK e \in Emails : e = call[c].email
    BY <1>4 DEF ClearAttempts, EmailAt, At
  <2>1. \/ UNCHANGED <<attempts, age, guesses>>
        \/ /\ attempts' = [attempts EXCEPT ![e] = 0] /\ age' = [age EXCEPT ![e] = 0]
           /\ guesses' = [guesses EXCEPT ![e] = <<>>]
    BY <1>4, <2>0 DEF ClearAttempts
  <2>2. CASE UNCHANGED <<attempts, age, guesses>>
    BY <1>1, <2>2
  <2>3. CASE /\ attempts' = [attempts EXCEPT ![e] = 0] /\ age' = [age EXCEPT ![e] = 0]
             /\ guesses' = [guesses EXCEPT ![e] = <<>>]
    <3>1. ASSUME NEW q \in Emails, q # e PROVE GuessesAt(q)'
      BY <1>0, <1>1, <2>0, <2>3, <3>1
    <3>2. attempts'[e] = 0 /\ guesses'[e] = <<>> /\ Len(<<>>) = 0
      BY <1>0, <2>0, <2>3
    <3>3. GuessesAt(e)'
      BY <1>0, <3>2 DEF GuessesAt
    <3> QED
      BY <3>1, <3>3
  <2> QED
    BY <2>1, <2>2, <2>3
<1>5. ASSUME DeleteAttempts PROVE \A e \in Emails : GuessesAt(e)'
  <2>1. ASSUME NEW e \in Emails PROVE GuessesAt(e)'
    <3>1. CASE e \in Outdated
      <4>1. attempts'[e] = 0 /\ guesses'[e] = guesses[e] /\ Len(guesses[e]) <= Limit
        BY <1>2, <1>5, <3>1 DEF DeleteAttempts, Outdated
      <4> QED
        BY <4>1 DEF GuessesAt
    <3>2. CASE e \notin Outdated
      BY <1>1, <1>5, <3>2 DEF DeleteAttempts
    <3> QED
      BY <3>1, <3>2
  <2> QED
    BY <2>1
<1>6. ASSUME Tick PROVE \A e \in Emails : GuessesAt(e)'
  <2> SUFFICES ASSUME NEW e \in Emails PROVE GuessesAt(e)'
    OBVIOUS
  <2> DEFINE g == guesses[e]
             h == guesses'[e]
             n == Len(g)
  <2>1. /\ h = Older(g) /\ attempts'[e] = attempts[e]
        /\ age'[e] = IF attempts[e] = 0 THEN 0 ELSE AtMost(age[e] + 1, Window + 1)
        /\ g \in Seq(0..Window) /\ \A i, j \in 1..n : i < j => g[i] >= g[j]
    BY <1>0, <1>6 DEF Tick, GuessesAt
  <2>2. PICK d \in 0..n : /\ \A i \in 1..n : i <= d <=> g[i] >= Window
                          /\ Len(h) = n - d /\ \A i \in 1..(n - d) : h[i] = g[i + d] + 1
    <3> HIDE DEF g, h
    <3> QED
      BY <1>0, <2>1, OlderAges
  <2>3. n \in Nat /\ \A i \in 1..n : g[i] \in 0..Window
    <3>1. ASSUME NEW s \in Seq(0..Window)
          PROVE  Len(s) \in Nat /\ \A i \in 1..Len(s) : s[i] \in 0..Window
      BY <1>0
    <3> QED
      BY <2>1, <3>1
  <2>4. \A i, j \in 1..Len(h) : i < j => h[i] >= h[j]
    <3>1. ASSUME NEW i \in 1..Len(h), NEW j \in 1..Len(h), i < j PROVE h[i] >= h[j]
      <4>1. i + d \in 1..n /\ j + d \in 1..n /\ i + d < j + d
        BY <2>2, <2>3, <3>1
      <4>2. g[i + d] >= g[j + d] /\ g[i + d] \in 0..Window /\ g[j + d] \in 0..Window
        BY <2>1, <2>3, <4>1
      <4>3. h[i] = g[i + d] + 1 /\ h[j] = g[j + d] + 1
        BY <2>2, <3>1
      <4>4. ASSUME NEW x \in 0..Window, NEW y \in 0..Window, x >= y PROVE x + 1 >= y + 1
        BY <1>0, <4>4
      <4> HIDE DEF g, h
      <4> QED
        BY <4>2, <4>3, <4>4
    <3> QED
      BY <3>1
  <2>5. attempts[e] = 0 => Len(h) <= Limit
    <3>1. attempts[e] = 0 => n <= Limit
      BY DEF GuessesAt
    <3> HIDE DEF h, n
    <3> QED
      BY <1>0, <2>2, <2>3, <3>1
  <2>6. ASSUME attempts[e] # 0
        PROVE  \E k \in 0..Len(h) :
                  /\ k <= Limit /\ Len(h) - k <= Limit /\ Len(h) - k <= attempts[e]
                  /\ \A i \in 1..k : h[i] >= age'[e]
    <3>1. PICK k \in 0..n : /\ k <= Limit /\ n - k <= Limit /\ n - k <= attempts[e]
                            /\ \A i \in 1..k : g[i] >= age[e]
      BY <2>6 DEF GuessesAt
    <3>2. attempts[e] \in 0..Limit + 1 /\ age[e] \in 0..Window + 1
      BY <1>0
    <3> HIDE DEF g, h, n
    <3>3. CASE d <= k
      <4>1. /\ k - d \in 0..Len(h) /\ k - d <= Limit /\ Len(h) - (k - d) = n - k
        BY <1>0, <2>2, <2>3, <3>1, <3>3
      <4>2. ASSUME NEW i \in 1..(k - d) PROVE h[i] >= age'[e]
        <5>1. i + d \in 1..k /\ i + d \in 1..n /\ i \in 1..(n - d)
          BY <2>2, <2>3, <3>1, <3>3
        <5>2. g[i + d] >= age[e] /\ h[i] = g[i + d] + 1 /\ g[i + d] \in 0..Window
          BY <2>2, <2>3, <3>1, <5>1
        <5>3. age'[e] <= age[e] + 1 /\ age'[e] \in Int
          BY <1>0, <2>1, <2>6, <3>2 DEF AtMost
        <5> QED
          BY <3>2, <5>2, <5>3
      <4> QED
        BY <3>1, <4>1, <4>2
    <3>4. CASE ~(d <= k)
      <4>1. 0 \in 0..Len(h) /\ Len(h) - 0 <= n - k
        BY <2>2, <2>3, <3>1, <3>4
      <4>2. Len(h) - 0 <= Limit /\ Len(h) - 0 <= attempts[e]
        BY <1>0, <2>2, <2>3, <3>1, <3>2, <4>1
      <4>3. 0 <= Limit /\ \A i \in 1..0 : h[i] >= age'[e]
        BY <1>0
      <4> QED
        BY <4>1, <4>2, <4>3
    <3> QED
      BY <2>2, <2>3, <3>1, <3>3, <3>4
  <2> QED
    BY <2>1, <2>4, <2>5, <2>6 DEF GuessesAt
<1>7. CASE UNCHANGED <<attempts, age, guesses>>
  BY <1>1, <1>7
<1>8. ASSUME NEW c \in Calls, Handle(c)
      PROVE  \/ UNCHANGED <<attempts, age, guesses>>
             \/ \E seen \in BOOLEAN : CountAttempt(c, seen)
             \/ \E done \in BOOLEAN : ClearAttempts(c, done)
  <2>1. CASE CreateUser(c) \/ WrongPassword(c) \/ CheckSession(c) \/ ChatKeyID(c)
             \/ Authenticate(c) \/ BeginUsage(c) \/ Fail(c)
    BY <2>1 DEF CreateUser, WrongPassword, CheckSession, ChatKeyID, Authenticate,
       BeginUsage, Fail
  <2>2. CASE \E t \in Tokens, seen \in BOOLEAN : CommitSignup(c, t, seen) \/ OpenSession(c, t, seen)
    BY <2>2 DEF CommitSignup, OpenSession
  <2>3. CASE \E seen \in BOOLEAN : Logout(c, seen)
    BY <2>3 DEF Logout
  <2> QED
    BY <1>8, <2>1, <2>2, <2>3 DEF Handle
<1>9. ASSUME NEW c \in Calls,
             \/ Forget(c)
             \/ \E e \in Emails : StartSignup(c, e) \/ StartLogin(c, e)
             \/ \E op \in {"account", "logout", "chat"}, t \in Tokens : StartWithCookie(c, op, t)
             \/ \E k \in Key : StartWithKey(c, k)
      PROVE  UNCHANGED <<attempts, age, guesses>>
  BY <1>9 DEF Forget, StartSignup, StartLogin, StartWithCookie, StartWithKey
<1>10. CASE \/ \E e \in Emails : IssueKey(e)
            \/ \E k \in Key : RevokeKey(k)
            \/ \E t \in Tokens : Expire(t) \/ DropCookie(t)
            \/ DeleteSessions \/ UNCHANGED vars
  BY <1>7, <1>10 DEF IssueKey, RevokeKey, Expire, DropCookie, DeleteSessions
<1> QED
  BY <1>3, <1>4, <1>5, <1>6, <1>7, <1>8, <1>9, <1>10 DEF Next

-----------------------------------------------------------------------------
(* What a step does to the record of its call.                             *)

\* The record of a call that is over, or has not begun.
LEMMA IdleCall ==
    /\ Idle \in Call /\ Idle.op = Null /\ Idle.at = "new" /\ Idle.email = Null
    /\ Idle.cred = Null /\ Idle.key = Null /\ Idle.valid = FALSE
  BY DEF Idle, Call

\* A response is written.
LEMMA DoneFields ==
    ASSUME TypeOK, NEW c \in Calls, Done(c)
    PROVE  /\ call' \in [Calls -> Call] /\ call'[c] = Idle
           /\ \A b \in Calls \ {c} : call'[b] = call[b]
<1>1. call \in [Calls -> Call]
  BY DEF TypeOK
<1> QED
  BY <1>1, IdleCall DEF Done

\* A call goes on to its next stage.
LEMMA GotoFields ==
    ASSUME TypeOK, NEW c \in Calls, NEW stage \in Running \cup Answers, Goto(c, stage)
    PROVE  /\ call' \in [Calls -> Call]
           /\ call'[c].at = stage /\ call'[c].op = call[c].op
           /\ call'[c].email = call[c].email /\ call'[c].cred = call[c].cred
           /\ call'[c].key = call[c].key /\ call'[c].valid = call[c].valid
           /\ \A b \in Calls \ {c} : call'[b] = call[b]
<1>1. call \in [Calls -> Call] /\ stage \in {"new"} \cup Running \cup Answers
  BY DEF TypeOK
<1> QED
  BY <1>1 DEF Goto, Call

\* A request that arrives.
LEMMA SignupFields ==
    ASSUME TypeOK, NEW c \in Calls, NEW e \in Emails, StartSignup(c, e) \/ StartLogin(c, e)
    PROVE  /\ call' \in [Calls -> Call] /\ At(c, "new")
           /\ call'[c].at \in {"creating", "counting"} /\ call'[c].email = e
           /\ call'[c].key = Null
           /\ \A b \in Calls \ {c} : call'[b] = call[b]
<1>1. call \in [Calls -> Call] /\ "creating" \in Running /\ "counting" \in Running
  BY DEF TypeOK, Running
<1>2. PICK stage \in {"creating", "counting"} :
         At(c, "new") /\ call' = [call EXCEPT ![c] = [Idle EXCEPT !.at = stage, !.email = e]]
  BY DEF StartSignup, StartLogin, Arrive
<1>3. [Idle EXCEPT !.at = stage, !.email = e] \in Call
  BY <1>1, <1>2, IdleCall DEF Call
<1>4. /\ [Idle EXCEPT !.at = stage, !.email = e].at = stage
      /\ [Idle EXCEPT !.at = stage, !.email = e].email = e
      /\ [Idle EXCEPT !.at = stage, !.email = e].key = Null
  BY IdleCall DEF Idle
<1> QED
  BY <1>1, <1>2, <1>3, <1>4

\* A call that comes with a cookie carries it, and knows whether it was live.
LEMMA CookieFields ==
    ASSUME TypeOK, NEW c \in Calls, NEW op \in {"account", "logout", "chat"}, NEW t \in Tokens,
           StartWithCookie(c, op, t)
    PROVE  /\ call' \in [Calls -> Call] /\ At(c, "new")
           /\ call'[c].op = op /\ call'[c].at = "checking" /\ call'[c].cred = t
           /\ call'[c].key = Null /\ (Live(t) => call'[c].valid)
           /\ \A b \in Calls \ {c} : call'[b] = call[b]
<1> DEFINE new == [Idle EXCEPT !.op = op, !.at = "checking", !.cred = t, !.valid = Live(t)]
<1>1. call \in [Calls -> Call] /\ "checking" \in Running /\ op \in Ops
  BY DEF TypeOK, Running, Ops
<1>2. Live(t) \in BOOLEAN
  BY DEF Live
<1>3. At(c, "new") /\ call' = [call EXCEPT ![c] = new]
  BY DEF StartWithCookie, Arrive
<1>4. new \in Call /\ new.op = op /\ new.at = "checking" /\ new.cred = t /\ new.key = Null
      /\ new.valid = Live(t)
  BY <1>1, <1>2, IdleCall DEF Call, Idle
<1> HIDE DEF new
<1> QED
  BY <1>1, <1>3, <1>4

\* A call that comes with an API key carries it, and knows whether it was active.
LEMMA KeyFields ==
    ASSUME TypeOK, NEW c \in Calls, NEW k \in Key, StartWithKey(c, k)
    PROVE  /\ call' \in [Calls -> Call] /\ At(c, "new")
           /\ call'[c].op = "api" /\ call'[c].at = "checking" /\ call'[c].cred = k
           /\ call'[c].key = Null /\ (Active(k) => call'[c].valid)
           /\ \A b \in Calls \ {c} : call'[b] = call[b]
<1> DEFINE new == [Idle EXCEPT !.op = "api", !.at = "checking", !.cred = k, !.valid = Active(k)]
<1>1. call \in [Calls -> Call] /\ "checking" \in Running /\ "api" \in Ops
  BY DEF TypeOK, Running, Ops
<1>2. Active(k) \in BOOLEAN
  <2>1. keys[k[1]] \in Seq(BOOLEAN) /\ k[2] \in DOMAIN keys[k[1]]
    BY DEF TypeOK, StartWithKey, Key
  <2> QED
    BY <2>1 DEF Active
<1>3. At(c, "new") /\ call' = [call EXCEPT ![c] = new]
  BY DEF StartWithKey, Arrive
<1>4. new \in Call /\ new.op = "api" /\ new.at = "checking" /\ new.cred = k /\ new.key = Null
      /\ new.valid = Active(k)
  BY <1>1, <1>2, IdleCall DEF Call, Idle
<1> HIDE DEF new
<1> QED
  BY <1>1, <1>3, <1>4

\* A login whose session has been inserted.
LEMMA OpenFields ==
    ASSUME TypeOK, NEW c \in Calls, NEW t \in Tokens, NEW seen \in BOOLEAN, OpenSession(c, t, seen)
    PROVE  /\ call' \in [Calls -> Call]
           /\ \/ call'[c] = Idle
              \/ /\ call'[c].at = "clearing" /\ call'[c].cred = t
                 /\ call'[c].email = call[c].email /\ call'[c].key = call[c].key
           /\ \A b \in Calls \ {c} : call'[b] = call[b]
<1>1. call \in [Calls -> Call] /\ "clearing" \in Running
  BY DEF TypeOK, Running
<1>2. CASE seen
  <2>1. call' = [call EXCEPT ![c] = [call[c] EXCEPT !.at = "clearing", !.cred = t]]
    BY <1>1, <1>2 DEF OpenSession
  <2>2. [call[c] EXCEPT !.at = "clearing", !.cred = t] \in Call
    BY <1>1 DEF Call
  <2> QED
    BY <1>1, <2>1, <2>2 DEF Call
<1>3. CASE ~seen
  BY <1>1, <1>3, IdleCall DEF OpenSession
<1> QED
  BY <1>2, <1>3

\* The key of a chat is chosen.
LEMMA ChosenFields ==
    ASSUME TypeOK, NEW c \in Calls, NEW k \in Key,
           call' = [call EXCEPT ![c].at = "recording", ![c].key = k]
    PROVE  /\ call' \in [Calls -> Call]
           /\ call'[c].at = "recording" /\ call'[c].key = k
           /\ call'[c].op = call[c].op /\ call'[c].email = call[c].email
           /\ call'[c].cred = call[c].cred /\ call'[c].valid = call[c].valid
           /\ \A b \in Calls \ {c} : call'[b] = call[b]
<1>1. call \in [Calls -> Call] /\ "recording" \in Running
  BY DEF TypeOK, Running
<1> QED
  BY <1>1 DEF Call

\* A call with a key goes on as the owner of that key.
LEMMA AuthenticatedFields ==
    ASSUME TypeOK, NEW c \in Calls, NEW k \in Key,
           call' = [call EXCEPT ![c].at = "recording", ![c].email = k[1], ![c].key = k]
    PROVE  /\ call' \in [Calls -> Call]
           /\ call'[c].at = "recording" /\ call'[c].key = k /\ call'[c].email = k[1]
           /\ call'[c].op = call[c].op /\ call'[c].valid = call[c].valid
           /\ \A b \in Calls \ {c} : call'[b] = call[b]
<1>1. call \in [Calls -> Call] /\ "recording" \in Running /\ k[1] \in Emails
  BY DEF TypeOK, Running, Key
<1>2. call' = [call EXCEPT ![c] = [call[c] EXCEPT !.at = "recording", !.email = k[1], !.key = k]]
  BY <1>1
<1>3. ASSUME NEW p \in Call
      PROVE  /\ [p EXCEPT !.at = "recording", !.email = k[1], !.key = k] \in Call
             /\ [p EXCEPT !.at = "recording", !.email = k[1], !.key = k].at = "recording"
             /\ [p EXCEPT !.at = "recording", !.email = k[1], !.key = k].email = k[1]
             /\ [p EXCEPT !.at = "recording", !.email = k[1], !.key = k].key = k
             /\ [p EXCEPT !.at = "recording", !.email = k[1], !.key = k].op = p.op
             /\ [p EXCEPT !.at = "recording", !.email = k[1], !.key = k].valid = p.valid
  <2>1. "recording" \in {"new"} \cup Running \cup Answers
    BY <1>1
  <2> QED
    BY <1>1, <2>1 DEF Call
<1>4. /\ call'[c] = [call[c] EXCEPT !.at = "recording", !.email = k[1], !.key = k]
      /\ \A b \in Calls \ {c} : call'[b] = call[b]
      /\ call[c] \in Call
  BY <1>1, <1>2
<1>5. PICK p \in Call : p = [call[c] EXCEPT !.at = "recording", !.email = k[1], !.key = k]
  BY <1>3, <1>4
<1>6. call' = [call EXCEPT ![c] = p]
  BY <1>2, <1>5
<1>7. call' \in [Calls -> Call]
  BY <1>1, <1>6
<1>8. call'[c] = p /\ \A b \in Calls \ {c} : call'[b] = call[b]
  BY <1>4, <1>5
<1>9. p.at = "recording" /\ p.email = k[1] /\ p.key = k /\ p.op = call[c].op /\ p.valid = call[c].valid
  BY <1>3, <1>4, <1>5
<1> QED
  BY <1>7, <1>8, <1>9

\* A session is looked up, and the call goes on as its owner's, or not at all.
LEMMA CheckEffect ==
    ASSUME TypeOK, NEW c \in Calls, CredAt(c), CheckSession(c)
    PROVE  /\ call' \in [Calls -> Call] /\ At(c, "checking")
           /\ \A b \in Calls \ {c} : call'[b] = call[b]
           /\ \/ call'[c] = Idle
              \/ /\ call[c].cred \in Tokens /\ Live(call[c].cred)
                 /\ call'[c].at = CASE call[c].op = "account" -> "served"
                                    [] call[c].op = "logout"  -> "closing"
                                    [] call[c].op = "chat"    -> "choosing"
                 /\ call[c].op \in {"account", "logout", "chat"}
                 /\ call'[c].email \in Emails /\ call'[c].op = call[c].op
                 /\ call'[c].cred = call[c].cred /\ call'[c].key = call[c].key
                 /\ call'[c].valid = call[c].valid
<1> DEFINE next == CASE call[c].op = "account" -> "served"
                     [] call[c].op = "logout"  -> "closing"
                     [] call[c].op = "chat"    -> "choosing"
<1>1. At(c, "checking") /\ call[c].op \in {"account", "logout", "chat"} /\ call[c].cred \in Tokens
  BY DEF CheckSession, CredAt, Ops
<1>2. next \in Running \cup Answers
  BY <1>1 DEF Running, Answers
<1>3. CASE Live(call[c].cred)
  <2>1. call' = [call EXCEPT ![c].at = next, ![c].email = sessions[call[c].cred]]
    BY <1>3 DEF CheckSession
  <2>2. PICK e \in Emails : e = sessions[call[c].cred]
    BY <1>1, <1>3 DEF Live, TypeOK
  <2>5. PICK stage \in Running \cup Answers : stage = next
    BY <1>2
  <2> HIDE DEF next
  <2>4. call' = [call EXCEPT ![c].at = stage, ![c].email = e]
    BY <2>1, <2>2, <2>5
  <2>3. /\ call' \in [Calls -> Call] /\ call'[c].at = next
        /\ call'[c].email = e /\ call'[c].op = call[c].op
        /\ call'[c].cred = call[c].cred /\ call'[c].key = call[c].key
        /\ call'[c].valid = call[c].valid
        /\ \A b \in Calls \ {c} : call'[b] = call[b]
    <3>0. call \in [Calls -> Call] /\ stage \in {"new"} \cup Running \cup Answers
      BY DEF TypeOK
    <3>1. /\ call' \in [Calls -> Call] /\ call'[c].at = stage
          /\ call'[c].email = e /\ call'[c].op = call[c].op
          /\ call'[c].cred = call[c].cred /\ call'[c].key = call[c].key
          /\ call'[c].valid = call[c].valid
          /\ \A b \in Calls \ {c} : call'[b] = call[b]
      BY <2>4, <3>0 DEF Call
    <3> QED
      BY <2>5, <3>1
  <2> QED
    BY <1>1, <1>3, <2>2, <2>3 DEF next
<1>4. CASE ~Live(call[c].cred)
  BY <1>1, <1>4, DoneFields DEF CheckSession
<1> QED
  BY <1>3, <1>4

\* A chat goes on with an active key of its account, or is refused.
LEMMA ChatEffect ==
    ASSUME TypeOK, NEW c \in Calls, EmailAt(c), ChatKeyID(c)
    PROVE  /\ call' \in [Calls -> Call] /\ At(c, "choosing")
           /\ \A b \in Calls \ {c} : call'[b] = call[b]
           /\ \/ call'[c] = Idle
              \/ /\ call'[c].at = "recording" /\ call'[c].key \in Key /\ Active(call'[c].key)
                 /\ call'[c].op = call[c].op /\ call'[c].email = call[c].email
                 /\ call'[c].cred = call[c].cred /\ call'[c].valid = call[c].valid
<1> DEFINE K == ChatKeys(call[c].email)
<1>1. At(c, "choosing") /\ call[c].email \in Emails
  BY DEF ChatKeyID, EmailAt, At
<1>2. CASE K = {}
  BY <1>1, <1>2, DoneFields DEF ChatKeyID
<1>3. CASE K # {}
  <2>1. PICK k \in K : call' = [call EXCEPT ![c].at = "recording", ![c].key = k]
    BY <1>3 DEF ChatKeyID
  <2>2. k \in Key /\ Active(k)
    <3>1. k \in {call[c].email} \X DOMAIN keys[call[c].email] /\ Active(k)
      BY DEF ChatKeys
    <3>2. /\ keys[call[c].email] \in Seq(BOOLEAN) /\ Len(keys[call[c].email]) <= MaxKeys
      BY <1>1 DEF TypeOK
    <3>3. DOMAIN keys[call[c].email] \subseteq 1..MaxKeys
      BY <3>2, PortalAssumption
    <3> QED
      BY <1>1, <3>1, <3>3 DEF Key
  <2> QED
    BY <1>1, <2>1, <2>2, ChosenFields
<1> QED
  BY <1>2, <1>3

\* A key opens a completion for its account, if it is active.
LEMMA KeyEffect ==
    ASSUME TypeOK, NEW c \in Calls, CredAt(c), Authenticate(c)
    PROVE  /\ call' \in [Calls -> Call] /\ At(c, "checking") /\ call[c].op = "api"
           /\ \A b \in Calls \ {c} : call'[b] = call[b]
           /\ \/ call'[c] = Idle
              \/ /\ call'[c].at = "recording" /\ Active(call[c].cred)
                 /\ call'[c].key = call[c].cred /\ call'[c].key \in Key
                 /\ call'[c].email \in Emails
                 /\ call'[c].op = call[c].op /\ call'[c].valid = call[c].valid
<1>1. At(c, "checking") /\ call[c].op = "api" /\ call[c].cred \in Key
  BY DEF Authenticate, CredAt
<1>2. CASE Active(call[c].cred)
  <2>1. call' = [call EXCEPT ![c].at = "recording", ![c].email = call[c].cred[1],
                             ![c].key = call[c].cred]
    BY <1>2 DEF Authenticate
  <2>2. call[c].cred[1] \in Emails
    BY <1>1 DEF Key
  <2> DEFINE k == call[c].cred
  <2>3. k \in Key /\ call' = [call EXCEPT ![c].at = "recording", ![c].email = k[1], ![c].key = k]
    BY <1>1, <2>1
  <2> HIDE DEF k
  <2>4. /\ call' \in [Calls -> Call]
        /\ call'[c].at = "recording" /\ call'[c].key = k /\ call'[c].email = k[1]
        /\ call'[c].op = call[c].op /\ call'[c].valid = call[c].valid
        /\ \A b \in Calls \ {c} : call'[b] = call[b]
    BY <2>3, AuthenticatedFields
  <2> QED
    BY <1>1, <1>2, <2>2, <2>3, <2>4 DEF k
<1>3. CASE ~Active(call[c].cred)
  BY <1>1, <1>3, DoneFields DEF Authenticate
<1> QED
  BY <1>2, <1>3

\* A statement is answered, or not.
LEMMA AnsweredEffect ==
    ASSUME TypeOK, NEW c \in Calls, NEW stage \in Running \cup Answers, NEW seen,
           Answered(c, stage, seen)
    PROVE  /\ call' \in [Calls -> Call]
           /\ \A b \in Calls \ {c} : call'[b] = call[b]
           /\ \/ call'[c] = Idle
              \/ /\ call'[c].at = stage /\ call'[c].email = call[c].email
                 /\ call'[c].cred = call[c].cred /\ call'[c].key = call[c].key
<1>1. CASE seen
  BY <1>1, GotoFields DEF Answered
<1>2. CASE ~seen
  BY <1>2, DoneFields DEF Answered
<1> QED
  BY <1>1, <1>2

-----------------------------------------------------------------------------
(* Signup.                                                                 *)

\* The tables of accounts change together, and an insert that is not committed
\* keeps its email from other signups.
LEMMA EmailStep ==
    ASSUME TypeOK, Registered, \A e \in Emails : SigningAt(e), \A c \in Calls : EmailAt(c),
           \A c \in Calls : CredAt(c), [Next]_vars
    PROVE  (\A e \in Emails : SigningAt(e)') /\ (\A c \in Calls : EmailAt(c)')
<1>0. /\ call \in [Calls -> Call] /\ signing \in [Emails -> Calls \cup {Null}]
      /\ users = owners /\ Null \notin Calls
      /\ Idle.at = "new"
  BY PortalAssumption, IdleCall DEF TypeOK, Registered
<1> USE DEF accounts, vars
<1>1. ASSUME NEW c \in Calls, UNCHANGED <<users, owners, signing>>,
             \A b \in Calls \ {c} : call'[b] = call[b],
             call[c].at # "filling", call'[c].at # "filling",
             call'[c].at \notin {"new", "checking"} => call'[c].email \in Emails,
             call'[c].at = "taken" => call'[c].email \in owners
      PROVE  (\A e \in Emails : SigningAt(e)') /\ (\A b \in Calls : EmailAt(b)')
  <2>1. ASSUME NEW e \in Emails PROVE SigningAt(e)'
    <3>1. SigningAt(e) /\ signing'[e] = signing[e]
      BY <1>1
    <3>2. signing[e] # Null => signing[e] \in Calls /\ signing[e] # c
      BY <1>0, <1>1, <3>1 DEF SigningAt, At
    <3>3. signing[e] # Null => call'[signing[e]] = call[signing[e]]
      BY <1>1, <3>2
    <3> QED
      BY <3>1, <3>3 DEF SigningAt, At
  <2>2. ASSUME NEW b \in Calls, b # c PROVE EmailAt(b)'
    <3>1. call'[b] = call[b] /\ EmailAt(b)
      BY <1>1, <2>2
    <3> QED
      BY <1>1, <3>1 DEF EmailAt, At
  <2>3. EmailAt(c)'
    BY <1>1 DEF EmailAt, At
  <2> QED
    BY <2>1, <2>2, <2>3
<1>2. ASSUME NEW c \in Calls, \E e \in Emails : StartSignup(c, e) \/ StartLogin(c, e)
      PROVE  (\A e \in Emails : SigningAt(e)') /\ (\A b \in Calls : EmailAt(b)')
  <2>1. PICK e \in Emails : StartSignup(c, e) \/ StartLogin(c, e)
    BY <1>2
  <2>2. UNCHANGED <<users, owners, signing>>
    BY <2>1 DEF StartSignup, StartLogin
  <2> QED
    BY <1>1, <2>1, <2>2, SignupFields DEF At
<1>3. ASSUME NEW c \in Calls,
             \/ \E op \in {"account", "logout", "chat"}, t \in Tokens : StartWithCookie(c, op, t)
             \/ \E k \in Key : StartWithKey(c, k)
      PROVE  (\A e \in Emails : SigningAt(e)') /\ (\A b \in Calls : EmailAt(b)')
  <2>1. UNCHANGED <<users, owners, signing>>
    BY <1>3 DEF StartWithCookie, StartWithKey
  <2>2. /\ call[c].at = "new" /\ call'[c].at = "checking"
        /\ \A b \in Calls \ {c} : call'[b] = call[b]
    BY <1>3, CookieFields, KeyFields DEF At
  <2> QED
    BY <1>1, <2>1, <2>2
<1>4. ASSUME NEW c \in Calls, UNCHANGED <<users, owners, signing>>, Done(c),
             call[c].at # "filling"
      PROVE  (\A e \in Emails : SigningAt(e)') /\ (\A b \in Calls : EmailAt(b)')
  BY <1>0, <1>1, <1>4, DoneFields
<1>5. ASSUME NEW c \in Calls, WrongPassword(c) \/ Forget(c) \/ \E done \in BOOLEAN : ClearAttempts(c, done)
      PROVE  (\A e \in Emails : SigningAt(e)') /\ (\A b \in Calls : EmailAt(b)')
  <2>1. UNCHANGED <<users, owners, signing>> /\ Done(c) /\ call[c].at # "filling"
    BY <1>5 DEF WrongPassword, Forget, ClearAttempts, At, Answers
  <2> QED
    BY <1>4, <2>1
<1>6. ASSUME NEW c \in Calls, NEW seen \in BOOLEAN, CountAttempt(c, seen) \/ Logout(c, seen)
      PROVE  (\A e \in Emails : SigningAt(e)') /\ (\A b \in Calls : EmailAt(b)')
  <2>1. PICK stage \in {"verifying", "left"} : \E s : Answered(c, stage, s)
    BY <1>6 DEF CountAttempt, Logout
  <2>2. UNCHANGED <<users, owners, signing>> /\ call[c].at \in {"counting", "closing"}
    BY <1>6 DEF CountAttempt, Logout, At
  <2>3. call[c].email \in Emails
    BY <2>2 DEF EmailAt, At
  <2>4. stage \in Running \cup Answers
    BY DEF Running, Answers
  <2> QED
    BY <1>0, <1>1, <2>1, <2>2, <2>3, <2>4, AnsweredEffect
<1>7. ASSUME NEW c \in Calls, NEW t \in Tokens, NEW seen \in BOOLEAN, OpenSession(c, t, seen)
      PROVE  (\A e \in Emails : SigningAt(e)') /\ (\A b \in Calls : EmailAt(b)')
  <2>1. UNCHANGED <<users, owners, signing>> /\ call[c].at = "verifying"
    BY <1>7 DEF OpenSession, At
  <2>2. call[c].email \in Emails
    BY <2>1 DEF EmailAt
  <2> QED
    BY <1>0, <1>1, <1>7, <2>1, <2>2, OpenFields
<1>8. ASSUME NEW c \in Calls, CheckSession(c)
      PROVE  (\A e \in Emails : SigningAt(e)') /\ (\A b \in Calls : EmailAt(b)')
  <2>1. UNCHANGED <<users, owners, signing>>
    BY <1>8 DEF CheckSession
  <2>2. /\ call[c].at = "checking" /\ \A b \in Calls \ {c} : call'[b] = call[b]
        /\ call'[c].at \in {"new", "served", "closing", "choosing"}
        /\ call'[c].at # "new" => call'[c].email \in Emails
    BY <1>0, <1>8, CheckEffect DEF At
  <2> QED
    BY <1>1, <2>1, <2>2
<1>9. ASSUME NEW c \in Calls, ChatKeyID(c) \/ Authenticate(c)
      PROVE  (\A e \in Emails : SigningAt(e)') /\ (\A b \in Calls : EmailAt(b)')
  <2>1. UNCHANGED <<users, owners, signing>>
    BY <1>9 DEF ChatKeyID, Authenticate
  <2>2. call[c].at = "choosing" => call[c].email \in Emails
    BY DEF EmailAt
  <2>3. /\ call[c].at \in {"checking", "choosing"} /\ \A b \in Calls \ {c} : call'[b] = call[b]
        /\ call'[c].at \in {"new", "recording"}
        /\ call'[c].at # "new" => call'[c].email \in Emails
    BY <1>0, <1>9, <2>2, ChatEffect, KeyEffect DEF At
  <2> QED
    BY <1>1, <2>1, <2>3
<1>10. ASSUME NEW c \in Calls, CreateUser(c)
       PROVE  (\A e \in Emails : SigningAt(e)') /\ (\A b \in Calls : EmailAt(b)')
  <2>0. PICK e \in Emails : e = call[c].email
    BY <1>10 DEF CreateUser, EmailAt, At
  <2>1. At(c, "creating") /\ signing[e] = Null /\ UNCHANGED <<users, owners>>
    BY <1>10, <2>0 DEF CreateUser
  <2>2. CASE e \in users
    <3>1. Goto(c, "taken") /\ UNCHANGED signing
      BY <1>10, <2>0, <2>2 DEF CreateUser
    <3>2. "taken" \in Running \cup Answers
      BY DEF Answers
    <3>3. /\ call'[c].at = "taken" /\ call'[c].email = e
          /\ \A b \in Calls \ {c} : call'[b] = call[b]
      BY <2>0, <3>1, <3>2, GotoFields
    <3> QED
      BY <1>0, <1>1, <2>1, <2>2, <3>1, <3>3 DEF At
  <2>3. CASE e \notin users
    <3>1. Goto(c, "filling") /\ signing' = [signing EXCEPT ![e] = c]
      BY <1>10, <2>0, <2>3 DEF CreateUser
    <3>2. "filling" \in Running \cup Answers
      BY DEF Running
    <3>3. /\ call'[c].at = "filling" /\ call'[c].email = e
          /\ \A b \in Calls \ {c} : call'[b] = call[b]
      BY <2>0, <3>1, <3>2, GotoFields
    <3>4. SigningAt(e)'
      BY <1>0, <3>1, <3>3 DEF SigningAt, At
    <3>5. ASSUME NEW f \in Emails, f # e PROVE SigningAt(f)'
      <4>1. signing'[f] = signing[f] /\ SigningAt(f)
        BY <1>0, <3>1, <3>5
      <4>2. signing[f] # Null => signing[f] \in Calls \ {c}
        BY <1>0, <2>1, <4>1 DEF SigningAt, At
      <4> QED
        BY <3>3, <4>1, <4>2 DEF SigningAt, At
    <3>6. EmailAt(c)'
      BY <1>0, <2>1, <2>3, <3>1, <3>3 DEF EmailAt, At
    <3>7. ASSUME NEW b \in Calls, b # c PROVE EmailAt(b)'
      <4>1. call'[b] = call[b] /\ EmailAt(b)
        BY <3>3, <3>7
      <4>2. At(b, "filling") => call[b].email # e
        BY <1>0, <2>1, <4>1 DEF EmailAt, At
      <4>3. At(b, "filling") => call[b].email \in Emails
        BY <4>1 DEF EmailAt, At
      <4>4. At(b, "filling") => signing'[call[b].email] = b
        BY <1>0, <3>1, <4>1, <4>2, <4>3 DEF EmailAt
      <4> QED
        BY <2>1, <4>1, <4>4 DEF EmailAt, At
    <3> QED
      BY <3>4, <3>5, <3>6, <3>7
  <2> QED
    BY <2>2, <2>3
<1>11. ASSUME NEW c \in Calls, NEW t \in Tokens, NEW seen \in BOOLEAN, CommitSignup(c, t, seen)
       PROVE  (\A e \in Emails : SigningAt(e)') /\ (\A b \in Calls : EmailAt(b)')
  <2>0. PICK e \in Emails : e = call[c].email
    BY <1>11 DEF CommitSignup, EmailAt, At
  <2>1. /\ At(c, "filling") /\ users' = users \cup {e} /\ owners' = owners \cup {e}
        /\ signing' = [signing EXCEPT ![e] = Null] /\ Done(c)
    BY <1>11, <2>0 DEF CommitSignup
  <2>2. /\ call'[c].at = "new" /\ \A b \in Calls \ {c} : call'[b] = call[b]
    BY <1>0, <2>1, DoneFields
  <2>3. signing[e] = c
    BY <2>0, <2>1 DEF EmailAt
  <2>4. SigningAt(e)'
    BY <1>0, <2>1 DEF SigningAt
  <2>5. ASSUME NEW f \in Emails, f # e PROVE SigningAt(f)'
    <3>1. signing'[f] = signing[f] /\ SigningAt(f)
      BY <1>0, <2>1, <2>5
    <3>2. signing[f] # Null => signing[f] \in Calls \ {c}
      BY <1>0, <2>0, <2>5, <3>1 DEF SigningAt
    <3> QED
      BY <2>2, <3>1, <3>2 DEF SigningAt, At
  <2>6. EmailAt(c)'
    BY <2>2 DEF EmailAt, At
  <2>7. ASSUME NEW b \in Calls, b # c PROVE EmailAt(b)'
    <3>1. call'[b] = call[b] /\ EmailAt(b)
      BY <2>2, <2>7
    <3>2. At(b, "filling") => call[b].email # e
      BY <2>3, <2>7, <3>1 DEF EmailAt
    <3>3. At(b, "filling") => call[b].email \in Emails
      BY <3>1 DEF EmailAt, At
    <3>4. At(b, "filling") => signing'[call[b].email] = b /\ call[b].email \notin users'
      BY <1>0, <2>1, <3>1, <3>2, <3>3 DEF EmailAt
    <3> QED
      BY <2>1, <3>1, <3>4 DEF EmailAt, At
  <2> QED
    BY <2>4, <2>5, <2>6, <2>7
<1>12. ASSUME NEW c \in Calls, Fail(c)
       PROVE  (\A e \in Emails : SigningAt(e)') /\ (\A b \in Calls : EmailAt(b)')
  <2>1. /\ UNCHANGED <<users, owners>> /\ Done(c)
        /\ \A e \in Emails : signing'[e] = IF signing[e] = c THEN Null ELSE signing[e]
    BY <1>12 DEF Fail
  <2>2. /\ call'[c].at = "new" /\ \A b \in Calls \ {c} : call'[b] = call[b]
    BY <1>0, <2>1, DoneFields
  <2>3. ASSUME NEW e \in Emails PROVE SigningAt(e)'
    <3>1. SigningAt(e) /\ (signing'[e] # Null => signing'[e] = signing[e] /\ signing[e] \in Calls \ {c})
      BY <1>0, <2>1
    <3> QED
      BY <2>2, <3>1 DEF SigningAt, At
  <2>4. EmailAt(c)'
    BY <2>2 DEF EmailAt, At
  <2>5. ASSUME NEW b \in Calls, b # c PROVE EmailAt(b)'
    <3>1. call'[b] = call[b] /\ EmailAt(b)
      BY <2>2, <2>5
    <3>2. At(b, "filling") => call[b].email \in Emails /\ signing[call[b].email] = b
      BY <3>1 DEF EmailAt, At
    <3>3. At(b, "filling") => signing'[call[b].email] = b
      BY <2>1, <2>5, <3>2
    <3> QED
      BY <2>1, <3>1, <3>3 DEF EmailAt, At
  <2> QED
    BY <2>3, <2>4, <2>5
<1>13. ASSUME UNCHANGED <<users, owners, signing, call>>
       PROVE  (\A e \in Emails : SigningAt(e)') /\ (\A b \in Calls : EmailAt(b)')
  BY <1>13 DEF SigningAt, EmailAt, At
<1>14. CASE \/ \E e \in Emails : IssueKey(e)
            \/ \E k \in Key : RevokeKey(k)
            \/ \E t \in Tokens : Expire(t) \/ DropCookie(t)
            \/ DeleteSessions \/ DeleteAttempts \/ Tick \/ UNCHANGED vars
  BY <1>13, <1>14 DEF IssueKey, RevokeKey, Expire, DropCookie, DeleteSessions, DeleteAttempts, Tick
<1>15. ASSUME NEW c \in Calls, BeginUsage(c)
       PROVE  (\A e \in Emails : SigningAt(e)') /\ (\A b \in Calls : EmailAt(b)')
  <2>1. /\ UNCHANGED <<users, owners, signing>> /\ call[c].at = "recording"
        /\ Goto(c, "served") /\ "served" \in Running \cup Answers
    BY <1>15 DEF BeginUsage, At, Answers
  <2>2. call[c].email \in Emails
    BY <2>1 DEF EmailAt
  <2>3. /\ call'[c].at = "served" /\ call'[c].email = call[c].email
        /\ \A b \in Calls \ {c} : call'[b] = call[b]
    BY <2>1, GotoFields
  <2> QED
    BY <1>1, <2>1, <2>2, <2>3
<1>16. ASSUME NEW c \in Calls, Handle(c)
       PROVE  (\A e \in Emails : SigningAt(e)') /\ (\A b \in Calls : EmailAt(b)')
  BY <1>5, <1>6, <1>7, <1>8, <1>9, <1>10, <1>11, <1>12, <1>15, <1>16 DEF Handle
<1> QED
  BY <1>2, <1>3, <1>5, <1>14, <1>16 DEF Next

\* An account has its keys from the commit of its signup on.
LEMMA RegisteredStep ==
    ASSUME TypeOK, Registered, \A c \in Calls : EmailAt(c), [Next]_vars
    PROVE  Registered'
<1>0. users = owners /\ keys \in [Emails -> Seq(BOOLEAN)]
  BY DEF TypeOK, Registered
<1> USE DEF accounts, vars
<1>1. ASSUME NEW c \in Calls, NEW t \in Tokens, NEW seen \in BOOLEAN, CommitSignup(c, t, seen)
      PROVE  Registered'
  <2>0. PICK e \in Emails : e = call[c].email
    BY <1>1 DEF CommitSignup, EmailAt, At
  <2>1. /\ users' = users \cup {e} /\ owners' = owners \cup {e}
        /\ keys' = [keys EXCEPT ![e] = <<TRUE>>]
    BY <1>1, <2>0 DEF CommitSignup
  <2>2. <<TRUE>> # <<>>
    OBVIOUS
  <2> QED
    BY <1>0, <2>1, <2>2 DEF Registered
<1>2. ASSUME NEW e \in Emails, IssueKey(e) PROVE Registered'
  <2>1. UNCHANGED <<users, owners>> /\ keys' = [keys EXCEPT ![e] = Append(keys[e], TRUE)]
        /\ e \in owners
    BY <1>0, <1>2 DEF IssueKey
  <2>2. Append(keys[e], TRUE) # <<>>
    <3>1. ASSUME NEW s \in Seq(BOOLEAN) PROVE Append(s, TRUE) # <<>>
      <4>1. Len(Append(s, TRUE)) = Len(s) + 1 /\ Len(s) \in Nat /\ Len(<<>>) = 0
        OBVIOUS
      <4>2. Len(Append(s, TRUE)) # Len(<<>>)
        BY <4>1
      <4> QED
        BY <4>2, Zenon
    <3> QED
      BY <1>0, <3>1
  <2> QED
    BY <1>0, <2>1, <2>2 DEF Registered
<1>3. ASSUME NEW k \in Key, RevokeKey(k) PROVE Registered'
  <2>1. /\ UNCHANGED <<users, owners>> /\ k[1] \in Emails /\ k[2] \in DOMAIN keys[k[1]]
        /\ keys' = [keys EXCEPT ![k[1]] = [keys[k[1]] EXCEPT ![k[2]] = FALSE]]
    BY <1>0, <1>3 DEF RevokeKey, Key
  <2>2. keys[k[1]] # <<>> /\ [keys[k[1]] EXCEPT ![k[2]] = FALSE] # <<>>
    BY <1>0, <2>1
  <2> QED
    BY <1>0, <2>1, <2>2 DEF Registered
<1>4. ASSUME UNCHANGED <<users, owners, keys>> PROVE Registered'
  BY <1>4 DEF Registered
<1>5. ASSUME NEW c \in Calls, Handle(c) PROVE Registered'
  <2>1. CASE CreateUser(c) \/ WrongPassword(c) \/ CheckSession(c) \/ ChatKeyID(c)
             \/ Authenticate(c) \/ BeginUsage(c) \/ Fail(c)
    BY <1>4, <2>1 DEF CreateUser, WrongPassword, CheckSession, ChatKeyID, Authenticate,
       BeginUsage, Fail
  <2>2. CASE \E t \in Tokens, seen \in BOOLEAN : CommitSignup(c, t, seen) \/ OpenSession(c, t, seen)
    BY <1>1, <1>4, <2>2 DEF OpenSession
  <2>3. CASE \/ \E seen \in BOOLEAN : CountAttempt(c, seen) \/ Logout(c, seen)
             \/ \E done \in BOOLEAN : ClearAttempts(c, done)
    BY <1>4, <2>3 DEF CountAttempt, Logout, ClearAttempts
  <2> QED
    BY <1>5, <2>1, <2>2, <2>3 DEF Handle
<1>6. CASE \/ \E t \in Tokens : Expire(t) \/ DropCookie(t)
           \/ DeleteSessions \/ DeleteAttempts \/ Tick \/ UNCHANGED vars
  BY <1>4, <1>6 DEF Expire, DropCookie, DeleteSessions, DeleteAttempts, Tick
<1>7. ASSUME NEW c \in Calls,
             \/ Forget(c)
             \/ \E e \in Emails : StartSignup(c, e) \/ StartLogin(c, e)
             \/ \E op \in {"account", "logout", "chat"}, t \in Tokens : StartWithCookie(c, op, t)
             \/ \E k \in Key : StartWithKey(c, k)
      PROVE  Registered'
  BY <1>4, <1>7 DEF Forget, StartSignup, StartLogin, StartWithCookie, StartWithKey
<1> QED
  BY <1>2, <1>3, <1>5, <1>6, <1>7 DEF Next

-----------------------------------------------------------------------------
(* Sessions and keys.                                                      *)

\* A key stays in its table, and one that was revoked stays revoked.
LEMMA KeysStep ==
    ASSUME TypeOK, Registered, \A c \in Calls : EmailAt(c), [Next]_vars,
           NEW k \in Key, k[2] \in DOMAIN keys[k[1]]
    PROVE  k[2] \in DOMAIN keys'[k[1]] /\ (Active(k)' => Active(k))
<1>0. keys \in [Emails -> Seq(BOOLEAN)] /\ k[1] \in Emails /\ users = owners
  BY DEF TypeOK, Key, Registered
<1> USE DEF accounts, vars
<1>1. CASE UNCHANGED keys
  BY <1>1 DEF Active
<1>2. ASSUME NEW c \in Calls, NEW t \in Tokens, NEW seen \in BOOLEAN, CommitSignup(c, t, seen)
      PROVE  k[2] \in DOMAIN keys'[k[1]] /\ (Active(k)' => Active(k))
  <2>0. PICK e \in Emails : e = call[c].email
    BY <1>2 DEF CommitSignup, EmailAt, At
  <2>1. keys' = [keys EXCEPT ![e] = <<TRUE>>] /\ e \notin owners
    BY <1>0, <1>2, <2>0 DEF CommitSignup, EmailAt
  <2>2. k[1] # e
    <3>1. keys[e] = <<>>
      BY <2>1 DEF Registered
    <3>2. DOMAIN keys[e] = {}
      BY <3>1
    <3> QED
      BY <3>2
  <2> QED
    BY <1>0, <2>1, <2>2 DEF Active
<1>3. ASSUME NEW e \in Emails, IssueKey(e)
      PROVE  k[2] \in DOMAIN keys'[k[1]] /\ (Active(k)' => Active(k))
  <2>1. keys' = [keys EXCEPT ![e] = Append(keys[e], TRUE)]
    BY <1>0, <1>3 DEF IssueKey
  <2>2. CASE k[1] # e
    BY <1>0, <2>1, <2>2 DEF Active
  <2>3. CASE k[1] = e
    <3>1. ASSUME NEW s \in Seq(BOOLEAN), NEW i \in DOMAIN s
          PROVE  i \in DOMAIN Append(s, TRUE) /\ Append(s, TRUE)[i] = s[i]
      <4>1. DOMAIN s = 1..Len(s) /\ Len(s) \in Nat
        OBVIOUS
      <4>2. Append(s, TRUE) \in Seq(BOOLEAN) /\ Len(Append(s, TRUE)) = Len(s) + 1
        OBVIOUS
      <4>3. DOMAIN Append(s, TRUE) = 1..(Len(s) + 1)
        BY <4>2
      <4>4. Append(s, TRUE)[i] = s[i]
        BY <4>1
      <4> QED
        BY <4>1, <4>3, <4>4
    <3>2. keys'[e] = Append(keys[e], TRUE) /\ keys[e] \in Seq(BOOLEAN)
      BY <1>0, <2>1
    <3>3. k[2] \in DOMAIN keys'[e] /\ keys'[e][k[2]] = keys[e][k[2]]
      BY <2>3, <3>1, <3>2
    <3> QED
      BY <2>3, <3>3 DEF Active
  <2> QED
    BY <2>2, <2>3
<1>4. ASSUME NEW j \in Key, RevokeKey(j)
      PROVE  k[2] \in DOMAIN keys'[k[1]] /\ (Active(k)' => Active(k))
  <2>1. /\ keys' = [keys EXCEPT ![j[1]] = [keys[j[1]] EXCEPT ![j[2]] = FALSE]]
        /\ j[1] \in Emails
    BY <1>0, <1>4 DEF RevokeKey, Key
  <2>2. CASE k[1] # j[1]
    BY <1>0, <2>1, <2>2 DEF Active
  <2>3. CASE k[1] = j[1]
    <3>1. keys'[k[1]] = [keys[k[1]] EXCEPT ![j[2]] = FALSE]
      BY <1>0, <2>1, <2>3
    <3> QED
      BY <3>1 DEF Active
  <2> QED
    BY <2>2, <2>3
<1>5. ASSUME NEW c \in Calls, Handle(c)
      PROVE  \/ UNCHANGED keys
             \/ \E t \in Tokens, seen \in BOOLEAN : CommitSignup(c, t, seen)
  <2>1. CASE CreateUser(c) \/ WrongPassword(c) \/ CheckSession(c) \/ ChatKeyID(c)
             \/ Authenticate(c) \/ BeginUsage(c) \/ Fail(c)
    BY <2>1 DEF CreateUser, WrongPassword, CheckSession, ChatKeyID, Authenticate,
       BeginUsage, Fail
  <2>2. CASE \E t \in Tokens, seen \in BOOLEAN : CommitSignup(c, t, seen) \/ OpenSession(c, t, seen)
    BY <2>2 DEF OpenSession
  <2>3. CASE \/ \E seen \in BOOLEAN : CountAttempt(c, seen) \/ Logout(c, seen)
             \/ \E done \in BOOLEAN : ClearAttempts(c, done)
    BY <2>3 DEF CountAttempt, Logout, ClearAttempts
  <2> QED
    BY <1>5, <2>1, <2>2, <2>3 DEF Handle
<1>6. CASE \/ \E t \in Tokens : Expire(t) \/ DropCookie(t)
           \/ DeleteSessions \/ DeleteAttempts \/ Tick \/ UNCHANGED vars
  BY <1>1, <1>6 DEF Expire, DropCookie, DeleteSessions, DeleteAttempts, Tick
<1>7. ASSUME NEW c \in Calls,
             \/ Forget(c)
             \/ \E e \in Emails : StartSignup(c, e) \/ StartLogin(c, e)
             \/ \E op \in {"account", "logout", "chat"}, t \in Tokens : StartWithCookie(c, op, t)
             \/ \E j \in Key : StartWithKey(c, j)
      PROVE  UNCHANGED keys
  BY <1>7 DEF Forget, StartSignup, StartLogin, StartWithCookie, StartWithKey
<1> QED
  BY <1>1, <1>2, <1>3, <1>4, <1>5, <1>6, <1>7 DEF Next

\* A session that a call or a cookie refers to is not opened again.
LEMMA TokensStep ==
    ASSUME TypeOK, [Next]_vars, NEW t \in Tokens, t \in cookies \/ \E b \in Calls : call[b].cred = t
    PROVE  (sessions[t] = Null => sessions'[t] = Null) /\ (Live(t)' => Live(t))
<1>0. sessions \in [Tokens -> Emails \cup {Null}]
  BY DEF TypeOK
<1> USE DEF accounts, vars
<1>1. CASE UNCHANGED <<sessions, expired>>
  BY <1>1 DEF Live
<1>2. ASSUME NEW c \in Calls, NEW u \in Tokens, NEW seen \in BOOLEAN,
             CommitSignup(c, u, seen) \/ OpenSession(c, u, seen)
      PROVE  (sessions[t] = Null => sessions'[t] = Null) /\ (Live(t)' => Live(t))
  <2>1. u # t
    BY <1>2 DEF CommitSignup, OpenSession, Fresh
  <2>2. \E e : sessions' = [sessions EXCEPT ![u] = e]
    BY <1>2 DEF CommitSignup, OpenSession
  <2>3. expired' = expired
    BY <1>2 DEF CommitSignup, OpenSession
  <2> QED
    BY <1>0, <2>1, <2>2, <2>3 DEF Live
<1>3. ASSUME NEW c \in Calls, NEW seen \in BOOLEAN, Logout(c, seen)
      PROVE  (sessions[t] = Null => sessions'[t] = Null) /\ (Live(t)' => Live(t))
  <2>1. /\ sessions' = [sessions EXCEPT ![call[c].cred] = Null]
        /\ expired' = expired \ {call[c].cred}
    BY <1>3 DEF Logout
  <2>2. sessions'[t] = IF t = call[c].cred THEN Null ELSE sessions[t]
    BY <1>0, <2>1
  <2> QED
    BY <2>1, <2>2 DEF Live
<1>4. ASSUME NEW u \in Tokens, Expire(u)
      PROVE  (sessions[t] = Null => sessions'[t] = Null) /\ (Live(t)' => Live(t))
  BY <1>4 DEF Expire, Live
<1>5. CASE DeleteSessions
  BY <1>0, <1>5 DEF DeleteSessions, Live
<1>6. ASSUME NEW c \in Calls, Handle(c)
      PROVE  \/ UNCHANGED <<sessions, expired>>
             \/ \E u \in Tokens, seen \in BOOLEAN : CommitSignup(c, u, seen) \/ OpenSession(c, u, seen)
             \/ \E seen \in BOOLEAN : Logout(c, seen)
  <2>1. CASE CreateUser(c) \/ WrongPassword(c) \/ CheckSession(c) \/ ChatKeyID(c)
             \/ Authenticate(c) \/ BeginUsage(c) \/ Fail(c)
    BY <2>1 DEF CreateUser, WrongPassword, CheckSession, ChatKeyID, Authenticate,
       BeginUsage, Fail
  <2>2. CASE \/ \E seen \in BOOLEAN : CountAttempt(c, seen)
             \/ \E done \in BOOLEAN : ClearAttempts(c, done)
    BY <2>2 DEF CountAttempt, ClearAttempts
  <2> QED
    BY <1>6, <2>1, <2>2 DEF Handle
<1>7. CASE \/ \E e \in Emails : IssueKey(e)
           \/ \E k \in Key : RevokeKey(k)
           \/ \E u \in Tokens : DropCookie(u)
           \/ DeleteAttempts \/ Tick \/ UNCHANGED vars
  BY <1>1, <1>7 DEF IssueKey, RevokeKey, DropCookie, DeleteAttempts, Tick
<1>8. ASSUME NEW c \in Calls,
             \/ Forget(c)
             \/ \E e \in Emails : StartSignup(c, e) \/ StartLogin(c, e)
             \/ \E op \in {"account", "logout", "chat"}, u \in Tokens : StartWithCookie(c, op, u)
             \/ \E j \in Key : StartWithKey(c, j)
      PROVE  UNCHANGED <<sessions, expired>>
  BY <1>8 DEF Forget, StartSignup, StartLogin, StartWithCookie, StartWithKey
<1> QED
  BY <1>1, <1>2, <1>3, <1>4, <1>5, <1>6, <1>7, <1>8 DEF Next

\* So what holds of a call's credentials keeps to hold while others act.
LEMMA OthersCred ==
    ASSUME TypeOK, Registered, \A c \in Calls : EmailAt(c), [Next]_vars,
           NEW b \in Calls, CredAt(b), call'[b] = call[b]
    PROVE  CredAt(b)'
<1> DEFINE k == call[b].cred
<1>1. k \in Tokens => (sessions[k] = Null => sessions'[k] = Null) /\ (Live(k)' => Live(k))
  BY TokensStep
<1>2. k \in Key /\ k[2] \in DOMAIN keys[k[1]] =>
        k[2] \in DOMAIN keys'[k[1]] /\ (Active(k)' => Active(k))
  BY KeysStep
<1>3. At(b, "left") => k \in Tokens
  BY DEF CredAt, At
<1> QED
  BY <1>1, <1>2, <1>3 DEF CredAt, At, Live, Active

\* Each handler leaves its call with credentials that were good on arrival.
LEMMA CredStep ==
    ASSUME TypeOK, Registered, \A c \in Calls : EmailAt(c), \A c \in Calls : CredAt(c),
           [Next]_vars
    PROVE  call' \in [Calls -> Call] /\ \A b \in Calls : CredAt(b)'
<1> DEFINE Goal == call' \in [Calls -> Call] /\ \A b \in Calls : CredAt(b)'
<1>0. /\ call \in [Calls -> Call] /\ Idle.at = "new"
      /\ \A k \in Key : k # Null
  BY PortalAssumption, IdleCall DEF TypeOK, Key
<1> USE DEF accounts, vars
<1>1. ASSUME NEW c \in Calls, call' \in [Calls -> Call],
             \A b \in Calls \ {c} : call'[b] = call[b], CredAt(c)'
      PROVE  Goal
  <2>1. ASSUME NEW b \in Calls, b # c PROVE CredAt(b)'
    BY <1>1, <2>1, OthersCred
  <2> QED
    BY <1>1, <2>1
<1>2. ASSUME NEW c \in Calls,
             call'[c].at \in {"new", "creating", "filling", "counting", "verifying", "taken"}
      PROVE  CredAt(c)'
  BY <1>2 DEF CredAt, At
<1>3. ASSUME NEW c \in Calls, Done(c) PROVE Goal
  BY <1>0, <1>1, <1>2, <1>3, DoneFields
<1>4. ASSUME NEW c \in Calls, NEW e \in Emails, StartSignup(c, e) \/ StartLogin(c, e)
      PROVE  Goal
  BY <1>1, <1>2, <1>4, SignupFields
<1>5. ASSUME NEW c \in Calls, NEW op \in {"account", "logout", "chat"}, NEW t \in Tokens,
             StartWithCookie(c, op, t)
      PROVE  Goal
  <2>1. UNCHANGED <<sessions, expired>>
    BY <1>5 DEF StartWithCookie
  <2>2. op \in Ops /\ op # "api"
    BY DEF Ops
  <2>3. CredAt(c)'
    BY <1>5, <2>1, <2>2, CookieFields DEF CredAt, At, Live
  <2> QED
    BY <1>1, <1>5, <2>3, CookieFields
<1>6. ASSUME NEW c \in Calls, NEW k \in Key, StartWithKey(c, k) PROVE Goal
  <2>1. UNCHANGED keys /\ k[2] \in DOMAIN keys[k[1]] /\ "api" \in Ops
    BY <1>6 DEF StartWithKey, Ops
  <2>2. CredAt(c)'
    BY <1>6, <2>1, KeyFields DEF CredAt, At, Active
  <2> QED
    BY <1>1, <1>6, <2>2, KeyFields
<1>7. ASSUME NEW c \in Calls, WrongPassword(c) \/ Forget(c) \/ Fail(c)
                              \/ \E done \in BOOLEAN : ClearAttempts(c, done)
      PROVE  Goal
  <2>1. Done(c)
    BY <1>7 DEF WrongPassword, Forget, Fail, ClearAttempts
  <2> QED
    BY <1>3, <2>1
<1>8. ASSUME NEW c \in Calls, CreateUser(c) PROVE Goal
  <2>1. PICK stage \in {"taken", "filling"} : Goto(c, stage)
    BY <1>8 DEF CreateUser
  <2>2. stage \in Running \cup Answers
    BY DEF Running, Answers
  <2> QED
    BY <1>1, <1>2, <2>1, <2>2, GotoFields
<1>9. ASSUME NEW c \in Calls, NEW t \in Tokens, NEW seen \in BOOLEAN, CommitSignup(c, t, seen)
      PROVE  Goal
  BY <1>3, <1>9 DEF CommitSignup
<1>10. ASSUME NEW c \in Calls, NEW seen \in BOOLEAN, CountAttempt(c, seen) PROVE Goal
  <2>1. \E s : Answered(c, "verifying", s)
    BY <1>10 DEF CountAttempt
  <2>2. "verifying" \in Running \cup Answers
    BY DEF Running
  <2> QED
    BY <1>0, <1>1, <1>2, <2>1, <2>2, AnsweredEffect
<1>11. ASSUME NEW c \in Calls, NEW seen \in BOOLEAN, Logout(c, seen) PROVE Goal
  <2>1. /\ Answered(c, "left", seen) /\ call[c].cred \in Tokens
        /\ sessions' = [sessions EXCEPT ![call[c].cred] = Null]
    BY <1>11 DEF Logout, CredAt, At
  <2>2. "left" \in Running \cup Answers
    BY DEF Answers
  <2>3. sessions'[call[c].cred] = Null
    BY <2>1 DEF TypeOK
  <2>4. call'[c] = Idle \/ (call'[c].at = "left" /\ call'[c].cred = call[c].cred)
    BY <2>1, <2>2, AnsweredEffect
  <2>5. CredAt(c)'
    BY <1>0, <1>2, <2>1, <2>3, <2>4 DEF CredAt, At
  <2> QED
    BY <1>1, <2>1, <2>2, <2>5, AnsweredEffect
<1>12. ASSUME NEW c \in Calls, NEW t \in Tokens, NEW seen \in BOOLEAN, OpenSession(c, t, seen)
       PROVE  Goal
  <2>1. CredAt(c)'
    BY <1>0, <1>2, <1>12, OpenFields DEF CredAt, At
  <2> QED
    BY <1>1, <1>12, <2>1, OpenFields
<1>13. ASSUME NEW c \in Calls, CheckSession(c) PROVE Goal
  <2>1. CASE call'[c] = Idle
    BY <1>0, <1>1, <1>2, <1>13, <2>1, CheckEffect
  <2>2. CASE call'[c] # Idle
    <3>1. /\ call[c].at = "checking" /\ call[c].op \in {"account", "logout", "chat"}
          /\ call[c].cred \in Tokens /\ Live(call[c].cred)
          /\ call'[c].op = call[c].op /\ call'[c].cred = call[c].cred
          /\ call'[c].key = call[c].key /\ call'[c].valid = call[c].valid
          /\ call'[c].at = CASE call[c].op = "account" -> "served"
                              [] call[c].op = "logout"  -> "closing"
                              [] call[c].op = "chat"    -> "choosing"
      BY <1>13, <2>2, CheckEffect DEF At
    <3>2. call[c].valid /\ call[c].key = Null
      BY <3>1 DEF CredAt, At
    <3>3. CredAt(c)'
      <4>1. CASE call[c].op = "account"
        BY <3>1, <3>2, <4>1 DEF CredAt, At
      <4>2. CASE call[c].op = "logout"
        BY <3>1, <3>2, <4>2 DEF CredAt, At
      <4>3. CASE call[c].op = "chat"
        BY <3>1, <3>2, <4>3 DEF CredAt, At
      <4> QED
        BY <3>1, <4>1, <4>2, <4>3
    <3> QED
      BY <1>1, <1>13, <3>3, CheckEffect
  <2> QED
    BY <2>1, <2>2
<1>14. ASSUME NEW c \in Calls, ChatKeyID(c) PROVE Goal
  <2>1. CASE call'[c] = Idle
    BY <1>0, <1>1, <1>2, <1>14, <2>1, ChatEffect
  <2>2. CASE call'[c] # Idle
    <3>1. /\ call[c].at = "choosing" /\ call'[c].at = "recording" /\ call'[c].key \in Key
          /\ call'[c].op = call[c].op /\ call'[c].valid = call[c].valid
      BY <1>14, <2>2, ChatEffect DEF At
    <3>2. call[c].valid /\ call[c].op = "chat"
      BY <3>1 DEF CredAt, At
    <3>3. CredAt(c)'
      BY <1>0, <3>1, <3>2 DEF CredAt, At
    <3> QED
      BY <1>1, <1>14, <3>3, ChatEffect
  <2> QED
    BY <2>1, <2>2
<1>15. ASSUME NEW c \in Calls, Authenticate(c) PROVE Goal
  <2>1. CASE call'[c] = Idle
    BY <1>0, <1>1, <1>2, <1>15, <2>1, KeyEffect
  <2>2. CASE call'[c] # Idle
    <3>1. /\ call[c].at = "checking" /\ call[c].op = "api" /\ Active(call[c].cred)
          /\ call'[c].at = "recording" /\ call'[c].key \in Key
          /\ call'[c].op = call[c].op /\ call'[c].valid = call[c].valid
      BY <1>15, <2>2, KeyEffect DEF At
    <3>2. call[c].valid
      BY <3>1 DEF CredAt, At
    <3>3. CredAt(c)'
      BY <1>0, <3>1, <3>2 DEF CredAt, At
    <3> QED
      BY <1>1, <1>15, <3>3, KeyEffect
  <2> QED
    BY <2>1, <2>2
<1>16. ASSUME NEW c \in Calls, BeginUsage(c) PROVE Goal
  <2>1. At(c, "recording") /\ Goto(c, "served") /\ "served" \in Running \cup Answers
    BY <1>16 DEF BeginUsage, Answers
  <2>2. /\ call'[c].at = "served" /\ call'[c].op = call[c].op
        /\ call'[c].key = call[c].key /\ call'[c].valid = call[c].valid
    BY <2>1, GotoFields
  <2>3. CredAt(c)'
    BY <2>1, <2>2 DEF CredAt, At
  <2> QED
    BY <1>1, <2>1, <2>3, GotoFields
<1>17. ASSUME NEW c \in Calls, Handle(c) PROVE Goal
  BY <1>7, <1>8, <1>9, <1>10, <1>11, <1>12, <1>13, <1>14, <1>15, <1>16, <1>17 DEF Handle
<1>18. ASSUME UNCHANGED call PROVE Goal
  <2>1. \A b \in Calls : call'[b] = call[b]
    BY <1>18
  <2> QED
    BY <1>0, <1>18, <2>1, OthersCred
<1>19. CASE \/ \E e \in Emails : IssueKey(e)
            \/ \E k \in Key : RevokeKey(k)
            \/ \E t \in Tokens : Expire(t) \/ DropCookie(t)
            \/ DeleteSessions \/ DeleteAttempts \/ Tick \/ UNCHANGED vars
  <2>1. UNCHANGED call
    BY <1>19 DEF IssueKey, RevokeKey, Expire, DropCookie, DeleteSessions, DeleteAttempts, Tick
  <2> QED
    BY <1>18, <2>1
<1> QED
  BY <1>4, <1>5, <1>6, <1>7, <1>17, <1>19 DEF Next

-----------------------------------------------------------------------------
(* Revocation.                                                             *)

\* What call c goes on by after a step, it went on by before, or read just now.
Kept(c) ==
    /\ \A t \in Tokens : c \in BySession(t)' => c \in BySession(t) \/ Live(t)
    /\ \A k \in Key : c \in UnderKey(k)' => c \in UnderKey(k) \/ Active(k)

\* No step makes a call go on by a session or a key that has ended.
LEMMA UsesStep ==
    ASSUME TypeOK, \A c \in Calls : CredAt(c), \A c \in Calls : EmailAt(c), [Next]_vars,
           NEW b \in Calls
    PROVE  Kept(b)
<1> DEFINE Reading == {"closing", "choosing", "recording", "served"}
<1>0. \A k \in Key : k # Null
  BY PortalAssumption DEF Key
<1> USE DEF vars
<1>1. ASSUME call'[b] = call[b] PROVE Kept(b)
  BY <1>1 DEF Kept, BySession, UnderKey
<1>2. ASSUME NEW c \in Calls, \A d \in Calls \ {c} : call'[d] = call[d],
             call'[c].at \notin Reading,
             call'[c].key = Null \/ call'[c].key = call[c].key
      PROVE  Kept(b)
  <2>1. CASE b = c
    BY <1>0, <1>2, <2>1 DEF Kept, BySession, UnderKey
  <2> QED
    BY <1>1, <1>2, <2>1
<1>3. ASSUME NEW c \in Calls, Done(c) PROVE Kept(b)
  BY <1>2, <1>3, DoneFields, IdleCall
<1>4. ASSUME NEW c \in Calls, \E e \in Emails : StartSignup(c, e) \/ StartLogin(c, e)
      PROVE  Kept(b)
  BY <1>2, <1>4, SignupFields
<1>5. ASSUME NEW c \in Calls,
             \/ \E op \in {"account", "logout", "chat"}, t \in Tokens : StartWithCookie(c, op, t)
             \/ \E k \in Key : StartWithKey(c, k)
      PROVE  Kept(b)
  BY <1>2, <1>5, CookieFields, KeyFields
<1>6. ASSUME NEW c \in Calls, WrongPassword(c) \/ Forget(c) \/ Fail(c)
                              \/ \E done \in BOOLEAN : ClearAttempts(c, done)
                              \/ \E t \in Tokens, seen \in BOOLEAN : CommitSignup(c, t, seen)
      PROVE  Kept(b)
  <2>1. Done(c)
    BY <1>6 DEF WrongPassword, Forget, Fail, ClearAttempts, CommitSignup
  <2> QED
    BY <1>3, <2>1
<1>7. ASSUME NEW c \in Calls, CreateUser(c) PROVE Kept(b)
  <2>1. PICK stage \in {"taken", "filling"} : Goto(c, stage)
    BY <1>7 DEF CreateUser
  <2>2. stage \in Running \cup Answers
    BY DEF Running, Answers
  <2> QED
    BY <1>2, <2>1, <2>2, GotoFields
<1>8. ASSUME NEW c \in Calls, \E seen \in BOOLEAN : CountAttempt(c, seen) \/ Logout(c, seen)
      PROVE  Kept(b)
  <2>1. PICK stage \in {"verifying", "left"} : \E s : Answered(c, stage, s)
    BY <1>8 DEF CountAttempt, Logout
  <2>2. stage \in Running \cup Answers
    BY DEF Running, Answers
  <2> QED
    BY <1>2, <2>1, <2>2, AnsweredEffect, IdleCall
<1>9. ASSUME NEW c \in Calls, \E t \in Tokens, seen \in BOOLEAN : OpenSession(c, t, seen)
      PROVE  Kept(b)
  BY <1>2, <1>9, OpenFields, IdleCall
<1>10. ASSUME NEW c \in Calls, CheckSession(c) PROVE Kept(b)
  <2>1. CASE call'[c] = Idle
    BY <1>2, <1>10, <2>1, CheckEffect, IdleCall
  <2>2. CASE call'[c] # Idle
    <3>1. /\ Live(call[c].cred) /\ call'[c].cred = call[c].cred
          /\ call'[c].key = call[c].key
          /\ \A d \in Calls \ {c} : call'[d] = call[d]
      BY <1>10, <2>2, CheckEffect
    <3>2. Kept(c)
      BY <3>1 DEF Kept, BySession, UnderKey
    <3> QED
      BY <1>1, <3>1, <3>2
  <2> QED
    BY <2>1, <2>2
<1>11. ASSUME NEW c \in Calls, ChatKeyID(c) PROVE Kept(b)
  <2>1. CASE call'[c] = Idle
    BY <1>2, <1>11, <2>1, ChatEffect, IdleCall
  <2>2. CASE call'[c] # Idle
    <3>1. /\ call[c].at = "choosing" /\ call'[c].op = call[c].op
          /\ call'[c].cred = call[c].cred /\ Active(call'[c].key)
          /\ \A d \in Calls \ {c} : call'[d] = call[d]
      BY <1>11, <2>2, ChatEffect DEF At
    <3>2. Kept(c)
      BY <3>1 DEF Kept, BySession, UnderKey
    <3> QED
      BY <1>1, <3>1, <3>2
  <2> QED
    BY <2>1, <2>2
<1>12. ASSUME NEW c \in Calls, Authenticate(c) PROVE Kept(b)
  <2>1. CASE call'[c] = Idle
    BY <1>2, <1>12, <2>1, KeyEffect, IdleCall
  <2>2. CASE call'[c] # Idle
    <3>1. /\ call'[c].op = "api" /\ Active(call'[c].key)
          /\ \A d \in Calls \ {c} : call'[d] = call[d]
      BY <1>12, <2>2, KeyEffect
    <3>2. Kept(c)
      BY <3>1 DEF Kept, BySession, UnderKey
    <3> QED
      BY <1>1, <3>1, <3>2
  <2> QED
    BY <2>1, <2>2
<1>13. ASSUME NEW c \in Calls, BeginUsage(c) PROVE Kept(b)
  <2>1. call[c].at = "recording" /\ Goto(c, "served") /\ "served" \in Running \cup Answers
    BY <1>13 DEF BeginUsage, At, Answers
  <2>2. /\ call'[c].op = call[c].op /\ call'[c].cred = call[c].cred
        /\ call'[c].key = call[c].key
        /\ \A d \in Calls \ {c} : call'[d] = call[d]
    BY <2>1, GotoFields
  <2>3. Kept(c)
    BY <2>1, <2>2 DEF Kept, BySession, UnderKey
  <2> QED
    BY <1>1, <2>2, <2>3
<1>14. CASE \/ \E e \in Emails : IssueKey(e)
            \/ \E k \in Key : RevokeKey(k)
            \/ \E t \in Tokens : Expire(t) \/ DropCookie(t)
            \/ DeleteSessions \/ DeleteAttempts \/ Tick \/ UNCHANGED vars
  <2>1. UNCHANGED call
    BY <1>14 DEF IssueKey, RevokeKey, Expire, DropCookie, DeleteSessions, DeleteAttempts, Tick
  <2> QED
    BY <1>1, <2>1
<1>15. ASSUME NEW c \in Calls, Handle(c) PROVE Kept(b)
  <2>1. CASE \/ \E t \in Tokens, seen \in BOOLEAN : CommitSignup(c, t, seen) \/ OpenSession(c, t, seen)
             \/ \E done \in BOOLEAN : ClearAttempts(c, done)
    BY <1>6, <1>9, <2>1
  <2> QED
    BY <1>6, <1>7, <1>8, <1>10, <1>11, <1>12, <1>13, <1>15, <2>1 DEF Handle
<1> HIDE DEF vars
<1> QED
  BY <1>4, <1>5, <1>6, <1>14, <1>15 DEF Next, vars

-----------------------------------------------------------------------------
(* Types.                                                                  *)

\* Accounts: signups, keys issued and keys revoked.
LEMMA AccountsType ==
    ASSUME TypeOK, \A c \in Calls : EmailAt(c), [Next]_vars
    PROVE  /\ users' \subseteq Emails /\ owners' \subseteq Emails
           /\ signing' \in [Emails -> Calls \cup {Null}]
           /\ keys' \in [Emails -> Seq(BOOLEAN)]
           /\ \A e \in Emails : Len(keys'[e]) <= MaxKeys
<1> DEFINE Goal == /\ users' \subseteq Emails /\ owners' \subseteq Emails
                   /\ signing' \in [Emails -> Calls \cup {Null}]
                   /\ keys' \in [Emails -> Seq(BOOLEAN)]
                   /\ \A e \in Emails : Len(keys'[e]) <= MaxKeys
<1>0. /\ users \subseteq Emails /\ owners \subseteq Emails
      /\ signing \in [Emails -> Calls \cup {Null}]
      /\ keys \in [Emails -> Seq(BOOLEAN)]
      /\ \A e \in Emails : Len(keys[e]) <= MaxKeys
      /\ MaxKeys \in Nat \ {0}
  BY PortalAssumption DEF TypeOK
<1> USE DEF accounts, vars
<1>1. ASSUME UNCHANGED <<users, owners, signing, keys>> PROVE Goal
  BY <1>0, <1>1
<1>2. ASSUME NEW e \in Emails, NEW s \in Seq(BOOLEAN), Len(s) <= MaxKeys,
             keys' = [keys EXCEPT ![e] = s]
      PROVE  /\ keys' \in [Emails -> Seq(BOOLEAN)]
             /\ \A f \in Emails : Len(keys'[f]) <= MaxKeys
  BY <1>0, <1>2
<1>3. ASSUME NEW c \in Calls, CreateUser(c) PROVE Goal
  <2>1. /\ UNCHANGED <<users, owners, keys>>
        /\ UNCHANGED signing \/ signing' = [signing EXCEPT ![call[c].email] = c]
    BY <1>3 DEF CreateUser
  <2> QED
    BY <1>0, <2>1
<1>4. ASSUME NEW c \in Calls, NEW t \in Tokens, NEW seen \in BOOLEAN, CommitSignup(c, t, seen)
      PROVE  Goal
  <2>0. PICK e \in Emails : e = call[c].email
    BY <1>4 DEF CommitSignup, EmailAt, At
  <2>1. /\ users' = users \cup {e} /\ owners' = owners \cup {e}
        /\ signing' = [signing EXCEPT ![e] = Null]
        /\ keys' = [keys EXCEPT ![e] = <<TRUE>>]
    BY <1>4, <2>0 DEF CommitSignup
  <2>2. <<TRUE>> \in Seq(BOOLEAN) /\ Len(<<TRUE>>) <= MaxKeys
    BY <1>0
  <2> QED
    BY <1>0, <1>2, <2>1, <2>2
<1>5. ASSUME NEW c \in Calls, Fail(c) PROVE Goal
  BY <1>0, <1>5 DEF Fail
<1>6. ASSUME NEW e \in Emails, IssueKey(e) PROVE Goal
  <2>1. /\ UNCHANGED <<users, owners, signing>> /\ Len(keys[e]) < MaxKeys
        /\ keys' = [keys EXCEPT ![e] = Append(keys[e], TRUE)]
    BY <1>0, <1>6 DEF IssueKey
  <2>2. Append(keys[e], TRUE) \in Seq(BOOLEAN) /\ Len(Append(keys[e], TRUE)) <= MaxKeys
    <3>1. ASSUME NEW s \in Seq(BOOLEAN), Len(s) < MaxKeys
          PROVE  Append(s, TRUE) \in Seq(BOOLEAN) /\ Len(Append(s, TRUE)) <= MaxKeys
      BY <1>0, <3>1
    <3> QED
      BY <1>0, <2>1, <3>1
  <2> QED
    BY <1>0, <1>2, <2>1, <2>2
<1>7. ASSUME NEW k \in Key, RevokeKey(k) PROVE Goal
  <2>1. /\ UNCHANGED <<users, owners, signing>> /\ k[1] \in Emails
        /\ keys' = [keys EXCEPT ![k[1]] = [keys[k[1]] EXCEPT ![k[2]] = FALSE]]
    BY <1>0, <1>7 DEF RevokeKey, Key
  <2>2. ASSUME NEW s \in Seq(BOOLEAN), NEW i
        PROVE  [s EXCEPT ![i] = FALSE] \in Seq(BOOLEAN) /\ Len([s EXCEPT ![i] = FALSE]) = Len(s)
    <3> DEFINE r == [s EXCEPT ![i] = FALSE]
    <3>1. Len(s) \in Nat /\ s \in [1..Len(s) -> BOOLEAN]
      OBVIOUS
    <3>2. r \in [1..Len(s) -> BOOLEAN]
      BY <3>1
    <3> HIDE DEF r
    <3>3. r \in Seq(BOOLEAN) /\ Len(r) = Len(s)
      BY <3>1, <3>2
    <3> QED
      BY <3>3 DEF r
  <2>3. /\ [keys[k[1]] EXCEPT ![k[2]] = FALSE] \in Seq(BOOLEAN)
        /\ Len([keys[k[1]] EXCEPT ![k[2]] = FALSE]) <= MaxKeys
    BY <1>0, <2>1, <2>2
  <2> QED
    BY <1>0, <1>2, <2>1, <2>3
<1>8. ASSUME NEW c \in Calls, Handle(c) PROVE Goal
  <2>1. CASE WrongPassword(c) \/ CheckSession(c) \/ ChatKeyID(c) \/ Authenticate(c)
             \/ BeginUsage(c)
    BY <1>1, <2>1 DEF WrongPassword, CheckSession, ChatKeyID, Authenticate, BeginUsage
  <2>2. CASE \E t \in Tokens, seen \in BOOLEAN : CommitSignup(c, t, seen) \/ OpenSession(c, t, seen)
    BY <1>1, <1>4, <2>2 DEF OpenSession
  <2>3. CASE \/ \E seen \in BOOLEAN : CountAttempt(c, seen) \/ Logout(c, seen)
             \/ \E done \in BOOLEAN : ClearAttempts(c, done)
    BY <1>1, <2>3 DEF CountAttempt, Logout, ClearAttempts
  <2> QED
    BY <1>3, <1>5, <1>8, <2>1, <2>2, <2>3 DEF Handle
<1>9. CASE \/ \E t \in Tokens : Expire(t) \/ DropCookie(t)
           \/ DeleteSessions \/ DeleteAttempts \/ Tick \/ UNCHANGED vars
  BY <1>1, <1>9 DEF Expire, DropCookie, DeleteSessions, DeleteAttempts, Tick
<1>10. ASSUME NEW c \in Calls,
              \/ Forget(c)
              \/ \E e \in Emails : StartSignup(c, e) \/ StartLogin(c, e)
              \/ \E op \in {"account", "logout", "chat"}, t \in Tokens : StartWithCookie(c, op, t)
              \/ \E k \in Key : StartWithKey(c, k)
       PROVE  Goal
  BY <1>1, <1>10 DEF Forget, StartSignup, StartLogin, StartWithCookie, StartWithKey
<1> QED
  BY <1>6, <1>7, <1>8, <1>9, <1>10 DEF Next

\* Sessions: opened, ended, expired, deleted; and the cookies of the clients.
LEMMA SessionsType ==
    ASSUME TypeOK, \A c \in Calls : EmailAt(c), \A c \in Calls : CredAt(c), [Next]_vars
    PROVE  /\ sessions' \in [Tokens -> Emails \cup {Null}]
           /\ expired' \subseteq Tokens /\ cookies' \subseteq Tokens
<1> DEFINE Goal == /\ sessions' \in [Tokens -> Emails \cup {Null}]
                   /\ expired' \subseteq Tokens /\ cookies' \subseteq Tokens
<1>0. /\ sessions \in [Tokens -> Emails \cup {Null}]
      /\ expired \subseteq Tokens /\ cookies \subseteq Tokens
  BY DEF TypeOK
<1> USE DEF accounts, vars
<1>1. ASSUME UNCHANGED <<sessions, expired, cookies>> PROVE Goal
  BY <1>0, <1>1
<1>2. ASSUME NEW c \in Calls, NEW t \in Tokens, NEW seen \in BOOLEAN,
             CommitSignup(c, t, seen) \/ OpenSession(c, t, seen)
      PROVE  Goal
  <2>1. call[c].email \in Emails
    BY <1>2 DEF CommitSignup, OpenSession, EmailAt, At
  <2>2. /\ sessions' = [sessions EXCEPT ![t] = call[c].email] /\ expired' = expired
        /\ cookies' = cookies \/ cookies' = cookies \cup {t}
    BY <1>2 DEF CommitSignup, OpenSession
  <2> QED
    BY <1>0, <2>1, <2>2
<1>3. ASSUME NEW c \in Calls, NEW seen \in BOOLEAN, Logout(c, seen) PROVE Goal
  <2>1. /\ sessions' = [sessions EXCEPT ![call[c].cred] = Null]
        /\ expired' = expired \ {call[c].cred} /\ cookies' = cookies
    BY <1>3 DEF Logout
  <2> QED
    BY <1>0, <2>1
<1>4. ASSUME NEW c \in Calls, NEW done \in BOOLEAN, ClearAttempts(c, done) PROVE Goal
  <2>1. call[c].cred \in Tokens
    BY <1>4 DEF ClearAttempts, CredAt, At
  <2>2. UNCHANGED <<sessions, expired>> /\ cookies' = cookies \cup {call[c].cred}
    BY <1>4 DEF ClearAttempts
  <2> QED
    BY <1>0, <2>1, <2>2
<1>5. CASE DeleteSessions \/ \E t \in Tokens : Expire(t) \/ DropCookie(t)
  BY <1>0, <1>5 DEF DeleteSessions, Expire, DropCookie
<1>6. ASSUME NEW c \in Calls, Handle(c) PROVE Goal
  <2>1. CASE CreateUser(c) \/ WrongPassword(c) \/ CheckSession(c) \/ ChatKeyID(c)
             \/ Authenticate(c) \/ BeginUsage(c) \/ Fail(c)
    BY <1>1, <2>1 DEF CreateUser, WrongPassword, CheckSession, ChatKeyID, Authenticate,
       BeginUsage, Fail
  <2>2. CASE \E seen \in BOOLEAN : CountAttempt(c, seen)
    BY <1>1, <2>2 DEF CountAttempt
  <2> QED
    BY <1>2, <1>3, <1>4, <1>6, <2>1, <2>2 DEF Handle
<1>7. CASE \/ \E e \in Emails : IssueKey(e)
           \/ \E k \in Key : RevokeKey(k)
           \/ DeleteAttempts \/ Tick \/ UNCHANGED vars
  BY <1>1, <1>7 DEF IssueKey, RevokeKey, DeleteAttempts, Tick
<1>8. ASSUME NEW c \in Calls,
             \/ Forget(c)
             \/ \E e \in Emails : StartSignup(c, e) \/ StartLogin(c, e)
             \/ \E op \in {"account", "logout", "chat"}, t \in Tokens : StartWithCookie(c, op, t)
             \/ \E k \in Key : StartWithKey(c, k)
      PROVE  Goal
  BY <1>1, <1>8 DEF Forget, StartSignup, StartLogin, StartWithCookie, StartWithKey
<1> QED
  BY <1>5, <1>6, <1>7, <1>8 DEF Next

\* The login limit: counts, windows and ages stay within their bounds.
LEMMA LimitsType ==
    ASSUME TypeOK, \A c \in Calls : EmailAt(c), \A e \in Emails : GuessesAt(e), [Next]_vars
    PROVE  /\ attempts' \in [Emails -> 0..Limit + 1]
           /\ age' \in [Emails -> 0..Window + 1]
           /\ guesses' \in [Emails -> Seq(0..Window)]
<1> DEFINE Goal == /\ attempts' \in [Emails -> 0..Limit + 1]
                   /\ age' \in [Emails -> 0..Window + 1]
                   /\ guesses' \in [Emails -> Seq(0..Window)]
<1>0. /\ attempts \in [Emails -> 0..Limit + 1]
      /\ age \in [Emails -> 0..Window + 1]
      /\ guesses \in [Emails -> Seq(0..Window)]
      /\ Limit \in Nat \ {0} /\ Window \in Nat
      /\ 0 \in 0..Window /\ 0 \in 0..Window + 1 /\ 0 \in 0..Limit + 1
  BY PortalAssumption DEF TypeOK
<1> USE DEF limits, vars
<1>1. ASSUME UNCHANGED <<attempts, age, guesses>> PROVE Goal
  BY <1>0, <1>1
<1>2. ASSUME NEW c \in Calls, NEW seen \in BOOLEAN, CountAttempt(c, seen) PROVE Goal
  <2>0. PICK e \in Emails : e = call[c].email
    BY <1>2 DEF CountAttempt, EmailAt, At
  <2> DEFINE fresh == attempts[e] = 0 \/ Stale(e)
             count == IF fresh THEN 1 ELSE AtMost(attempts[e] + 1, Limit + 1)
             was == guesses[e]
             now == IF count <= Limit THEN Append(was, 0) ELSE was
             aged == IF fresh THEN 0 ELSE age[e]
  <2>1. /\ attempts' = [attempts EXCEPT ![e] = count]
        /\ age' = [age EXCEPT ![e] = aged]
        /\ guesses' = [guesses EXCEPT ![e] = now]
    BY <1>0, <1>2, <2>0 DEF CountAttempt
  <2>2. count \in 0..Limit + 1
    BY <1>0, <2>0 DEF AtMost
  <2>3. aged \in 0..Window + 1 /\ was \in Seq(0..Window)
    BY <1>0, <2>0
  <2>4. now \in Seq(0..Window)
    <3>1. ASSUME NEW s \in Seq(0..Window) PROVE Append(s, 0) \in Seq(0..Window)
      BY <1>0
    <3>2. Append(was, 0) \in Seq(0..Window)
      BY <2>3, <3>1
    <3> HIDE DEF was, count
    <3> QED
      BY <2>3, <3>2
  <2> HIDE DEF count, now, aged
  <2> QED
    BY <1>0, <2>0, <2>1, <2>2, <2>3, <2>4
<1>3. ASSUME NEW c \in Calls, NEW done \in BOOLEAN, ClearAttempts(c, done) PROVE Goal
  <2>1. \/ UNCHANGED <<attempts, age, guesses>>
        \/ /\ attempts' = [attempts EXCEPT ![call[c].email] = 0]
           /\ age' = [age EXCEPT ![call[c].email] = 0]
           /\ guesses' = [guesses EXCEPT ![call[c].email] = <<>>]
    BY <1>3 DEF ClearAttempts
  <2>2. <<>> \in Seq(0..Window)
    OBVIOUS
  <2>3. ASSUME NEW e, attempts' = [attempts EXCEPT ![e] = 0]
        PROVE  attempts' \in [Emails -> 0..Limit + 1]
    BY <1>0, <2>3
  <2>4. ASSUME NEW e, age' = [age EXCEPT ![e] = 0] PROVE age' \in [Emails -> 0..Window + 1]
    BY <1>0, <2>4
  <2>5. ASSUME NEW e, guesses' = [guesses EXCEPT ![e] = <<>>]
        PROVE  guesses' \in [Emails -> Seq(0..Window)]
    BY <1>0, <2>2, <2>5
  <2> QED
    BY <1>1, <2>1, <2>3, <2>4, <2>5
<1>4. CASE DeleteAttempts
  <2>1. /\ attempts' = [e \in Emails |-> IF e \in Outdated THEN 0 ELSE attempts[e]]
        /\ age' = [e \in Emails |-> IF e \in Outdated THEN 0 ELSE age[e]]
        /\ guesses' = guesses
    BY <1>4 DEF DeleteAttempts
  <2> QED
    BY <1>0, <2>1
<1>5. CASE Tick
  <2>1. attempts' = attempts /\ guesses' = [e \in Emails |-> Older(guesses[e])]
    BY <1>5 DEF Tick
  <2>2. ASSUME NEW e \in Emails PROVE Older(guesses[e]) \in Seq(0..Window)
    <3>1. \A i, j \in 1..Len(guesses[e]) : i < j => guesses[e][i] >= guesses[e][j]
      BY DEF GuessesAt
    <3>2. guesses[e] \in Seq(0..Window)
      BY <1>0
    <3> QED
      BY <1>0, <3>1, <3>2, OlderAges
  <2>3. age' \in [Emails -> 0..Window + 1]
    <3>1. ASSUME NEW n \in 0..Window + 1 PROVE AtMost(n + 1, Window + 1) \in 0..Window + 1
      BY <1>0 DEF AtMost
    <3>2. age' = [e \in Emails |-> IF attempts[e] = 0 THEN 0 ELSE AtMost(age[e] + 1, Window + 1)]
      BY <1>5 DEF Tick
    <3> QED
      BY <1>0, <3>1, <3>2
  <2> QED
    BY <1>0, <2>1, <2>2, <2>3
<1>6. ASSUME NEW c \in Calls, Handle(c) PROVE Goal
  <2>1. CASE CreateUser(c) \/ WrongPassword(c) \/ CheckSession(c) \/ ChatKeyID(c)
             \/ Authenticate(c) \/ BeginUsage(c) \/ Fail(c)
    BY <1>1, <2>1 DEF CreateUser, WrongPassword, CheckSession, ChatKeyID, Authenticate,
       BeginUsage, Fail
  <2>2. CASE \E t \in Tokens, seen \in BOOLEAN : CommitSignup(c, t, seen) \/ OpenSession(c, t, seen)
    BY <1>1, <2>2 DEF CommitSignup, OpenSession
  <2>3. CASE \E seen \in BOOLEAN : Logout(c, seen)
    BY <1>1, <2>3 DEF Logout
  <2> QED
    BY <1>2, <1>3, <1>6, <2>1, <2>2, <2>3 DEF Handle
<1>7. CASE \/ \E e \in Emails : IssueKey(e)
           \/ \E k \in Key : RevokeKey(k)
           \/ \E t \in Tokens : Expire(t) \/ DropCookie(t)
           \/ DeleteSessions \/ UNCHANGED vars
  BY <1>1, <1>7 DEF IssueKey, RevokeKey, Expire, DropCookie, DeleteSessions
<1>8. ASSUME NEW c \in Calls,
             \/ Forget(c)
             \/ \E e \in Emails : StartSignup(c, e) \/ StartLogin(c, e)
             \/ \E op \in {"account", "logout", "chat"}, t \in Tokens : StartWithCookie(c, op, t)
             \/ \E k \in Key : StartWithKey(c, k)
      PROVE  Goal
  BY <1>1, <1>8 DEF Forget, StartSignup, StartLogin, StartWithCookie, StartWithKey
<1> QED
  BY <1>4, <1>5, <1>6, <1>7, <1>8 DEF Next

-----------------------------------------------------------------------------
(* The theorems.                                                           *)

\* At first the emails of visitors are free, and no call is under way.
LEMMA InitInv == Init => PortalInv
<1> SUFFICES ASSUME Init PROVE PortalInv
  OBVIOUS
<1>1. TypeOK
  <2>1. /\ \A b : <<b>> \in Seq(BOOLEAN) <=> b \in BOOLEAN
        /\ <<>> \in Seq(BOOLEAN) /\ <<>> \in Seq(0..Window)
        /\ Len(<<TRUE>>) = 1 /\ Len(<<>>) = 0
    OBVIOUS
  <2>2. Limit \in Nat \ {0} /\ Window \in Nat /\ MaxKeys \in Nat \ {0}
    BY PortalAssumption
  <2>3. keys \in [Emails -> Seq(BOOLEAN)] /\ \A e \in Emails : Len(keys[e]) <= MaxKeys
    <3>1. <<TRUE>> \in Seq(BOOLEAN) /\ Len(<<TRUE>>) <= MaxKeys /\ Len(<<>>) <= MaxKeys
      BY <2>1, <2>2
    <3>2. keys = [e \in Emails |-> IF e \in owners THEN <<TRUE>> ELSE <<>>]
      BY DEF Init
    <3>3. ASSUME NEW e \in Emails PROVE keys[e] = <<TRUE>> \/ keys[e] = <<>>
      BY <3>2, Zenon
    <3>4. \A e \in Emails : keys[e] \in Seq(BOOLEAN) /\ Len(keys[e]) <= MaxKeys
      BY <2>1, <3>1, <3>3
    <3> QED
      BY <3>2, <3>4
  <2>4. call \in [Calls -> Call] /\ \A c \in Calls : call[c].at # "served"
    BY IdleCall DEF Init
  <2> QED
    BY <2>1, <2>2, <2>3, <2>4 DEF Init, TypeOK
<1>2. Registered
  <2>1. <<TRUE>> # <<>>
    OBVIOUS
  <2> QED
    BY <2>1 DEF Init, Registered
<1>3. \A e \in Emails : SigningAt(e)
  BY DEF Init, SigningAt
<1>4. \A c \in Calls : EmailAt(c) /\ CredAt(c)
  BY IdleCall DEF Init, EmailAt, CredAt, At
<1>5. \A e \in Emails : GuessesAt(e)
  <2>1. Limit \in Nat /\ Len(<<>>) = 0
    BY PortalAssumption
  <2> QED
    BY <2>1 DEF Init, GuessesAt
<1> QED
  BY <1>1, <1>2, <1>3, <1>4, <1>5 DEF PortalInv

\* A step of any call, of Maintain, of a key's owner or of the clock keeps it.
LEMMA NextInv == PortalInv /\ [Next]_vars => PortalInv'
<1> SUFFICES ASSUME PortalInv, [Next]_vars PROVE PortalInv'
  OBVIOUS
<1> USE DEF PortalInv
<1>1. (\A e \in Emails : SigningAt(e)') /\ (\A c \in Calls : EmailAt(c)')
  BY EmailStep
<1>2. Registered'
  BY RegisteredStep
<1>3. call' \in [Calls -> Call] /\ \A c \in Calls : CredAt(c)'
  BY CredStep
<1>4. \A e \in Emails : GuessesAt(e)'
  BY GuessesStep
<1>5. TypeOK'
  <2>1. ASSUME NEW c \in Calls, (call[c].at = "served")'
        PROVE  /\ call'[c].email \in Emails
               /\ call'[c].key = Null <=> call'[c].op = "account"
    BY <1>1, <1>3, <2>1 DEF EmailAt, CredAt, At
  <2> QED
    BY <1>3, <2>1, AccountsType, SessionsType, LimitsType DEF TypeOK
<1> QED
  BY <1>1, <1>2, <1>3, <1>4, <1>5

\* The invariant holds of every execution.
THEOREM Inductive == Spec => []PortalInv
<1> QED
  BY InitInv, NextInv, PTL DEF Spec

\* Rows, cookies, counts and the records of calls have the form the code gives
\* them; a call that is served has an account, and a key unless it shows the
\* account.
THEOREM TypeCorrect == Spec => []TypeOK
<1>1. PortalInv => TypeOK
  BY DEF PortalInv
<1> QED
  BY <1>1, Inductive, PTL

\* The login limit, of any size and with any window, admits at most twice its
\* attempts to the password within the length of a window.
THEOREM GuessesCorrect == Spec => []GuessingLimited
<1>1. PortalInv => GuessingLimited
  <2> SUFFICES ASSUME PortalInv, NEW e \in Emails PROVE Len(guesses[e]) <= 2 * Limit
    BY DEF GuessingLimited
  <2>0. Limit \in Nat /\ Len(guesses[e]) \in Nat /\ GuessesAt(e)
    <3>1. ASSUME NEW s \in Seq(0..Window) PROVE Len(s) \in Nat
      OBVIOUS
    <3>2. guesses[e] \in Seq(0..Window)
      BY DEF PortalInv, TypeOK
    <3> QED
      BY <3>1, <3>2, PortalAssumption DEF PortalInv
  <2>1. ASSUME NEW n \in Nat, NEW k \in 0..n, NEW m \in Nat, k <= m, n - k <= m
        PROVE  n <= 2 * m
    BY <2>1
  <2>2. ASSUME NEW n \in Nat, NEW m \in Nat, n <= m PROVE n <= 2 * m
    BY <2>2
  <2>3. CASE attempts[e] = 0
    BY <2>0, <2>2, <2>3 DEF GuessesAt
  <2>4. CASE attempts[e] # 0
    <3>1. PICK k \in 0..Len(guesses[e]) : k <= Limit /\ Len(guesses[e]) - k <= Limit
      BY <2>0, <2>4 DEF GuessesAt
    <3> QED
      BY <2>0, <2>1, <3>1
  <2> QED
    BY <2>3, <2>4
<1> QED
  BY <1>1, Inductive, PTL

\* An email is taken only together with its password, account and first key.
THEOREM SignupCorrect == Spec => []RegisteredWhole
<1>1. PortalInv => RegisteredWhole
  BY DEF PortalInv, TypeOK, Registered, RegisteredWhole
<1> QED
  BY <1>1, Inductive, PTL

\* Nothing is served for a session or key that was no good on arrival.
THEOREM AuthorisationCorrect == Spec => []ServedWasAuthorised
<1>1. PortalInv => ServedWasAuthorised
  BY DEF PortalInv, CredAt, ServedWasAuthorised, At
<1> QED
  BY <1>1, Inductive, PTL

\* A session or key that has ended stays ended, and no call comes to use it that
\* had not read it in time.
THEOREM RevocationCorrect == Spec => RevokedStaysOut
<1> DEFINE Stays(t) == /\ BySession(t)' \subseteq BySession(t)
                       /\ t \in cookies => ~Live(t)'
           Ends(k) == /\ UnderKey(k)' \subseteq UnderKey(k)
                      /\ Revoked(k)'
           Step == /\ \A t \in Tokens : ~Live(t) => Stays(t)
                   /\ \A k \in Key : Revoked(k) => Ends(k)
<1>1. PortalInv /\ [Next]_vars => [Step]_vars
  <2> SUFFICES ASSUME PortalInv, [Next]_vars PROVE Step
    OBVIOUS
  <2>0. \A c \in Calls : Kept(c)
    BY UsesStep DEF PortalInv
  <2>1. ASSUME NEW t \in Tokens, ~Live(t) PROVE Stays(t)
    <3>1. BySession(t)' \subseteq BySession(t)
      <4>1. BySession(t)' \subseteq Calls
        BY DEF BySession
      <4> QED
        BY <2>0, <2>1, <4>1 DEF Kept
    <3>2. t \in cookies => ~Live(t)'
      BY <2>1, TokensStep DEF PortalInv
    <3> QED
      BY <3>1, <3>2
  <2>2. ASSUME NEW k \in Key, Revoked(k) PROVE Ends(k)
    <3>1. k[2] \in DOMAIN keys[k[1]] /\ ~Active(k)
      BY <2>2 DEF Revoked
    <3>2. UnderKey(k)' \subseteq UnderKey(k)
      <4>1. UnderKey(k)' \subseteq Calls
        BY DEF UnderKey
      <4> QED
        BY <2>0, <3>1, <4>1 DEF Kept
    <3>3. Revoked(k)'
      <4>1. k[2] \in DOMAIN keys'[k[1]] /\ (Active(k)' => Active(k))
        BY <3>1, KeysStep DEF PortalInv
      <4> QED
        BY <3>1, <4>1 DEF Revoked
    <3> QED
      BY <3>2, <3>3
  <2> QED
    BY <2>1, <2>2
<1> QED
  BY <1>1, Inductive, PTL DEF Spec, RevokedStaysOut

\* A logout that was answered has ended its session, and an email that was
\* refused belongs to somebody.
THEOREM AnswersCorrect == Spec => []AnswersHold
<1>1. PortalInv => AnswersHold
  BY DEF PortalInv, CredAt, EmailAt, AnswersHold, At
<1> QED
  BY <1>1, Inductive, PTL
=============================================================================
