------------------------- MODULE UsageCaptureProofs --------------------------
(***************************************************************************)
(* Proofs about UsageCapture for every ring, every limit, every body and   *)
(* every way to cut it into reads.                                         *)
(***************************************************************************)
EXTENDS UsageCapture, SequenceTheorems, WellFoundedInduction, TLAPS

-----------------------------------------------------------------------------
(* The inductive invariant.                                                *)

\* Where the ring has the k-th last symbol.
Place(k) == ((tailNext - k) % TailSize) + 1

\* The ring is filled from its start; when it is full it holds the last symbols,
\* the newest before tailNext.
RingHolds ==
    /\ Len(body) = TailSize
    /\ tailSize = IF read < TailSize THEN read ELSE TailSize
    /\ tailTruncated <=> read > TailSize
    /\ tailSize < TailSize => tailNext = tailSize
    /\ \A k \in 1..tailSize : body[Place(k)] = text[read - k + 1]
    /\ ~overflow

\* An ordinary body is kept from its start, or has become too long.
BodyHolds ==
    /\ overflow <=> read > MaxJSON
    /\ body = IF overflow THEN <<>> ELSE SubSeq(text, 1, read)
    /\ ~tailTruncated

CaptureInv ==
    /\ TypeOK
    /\ eof => read = Len(text)
    /\ stream => RingHolds
    /\ ~stream => BodyHolds

-----------------------------------------------------------------------------
(* Arithmetic of the ring.                                                 *)

\* A remainder is determined by its range.
LEMMA Remainder ==
    ASSUME NEW s \in Nat \ {0}, NEW n \in Int, NEW q \in Int, NEW m \in 0..(s - 1),
           n = q * s + m
    PROVE  n % s = m
<1>1. PICK d \in Int : n = d * s + (n % s)
  <2>1. n = (n \div s) * s + (n % s) /\ n \div s \in Int
    OBVIOUS
  <2> QED
    BY <2>1
<1>2. n % s \in 0..(s - 1)
  OBVIOUS
<1>3. (q - d) * s = (n % s) - m
  BY <1>1, <1>2
<1>4. ASSUME NEW k \in Int, k >= 1 PROVE k * s >= s
  BY <1>4
<1>5. ASSUME NEW k \in Int, k <= -1 PROVE k * s <= -s
  BY <1>5
<1>6. q - d \in Int /\ ~(q - d >= 1) /\ ~(q - d <= -1)
  BY <1>2, <1>3, <1>4, <1>5
<1>7. q - d = 0
  BY <1>6
<1> QED
  BY <1>1, <1>2, <1>7

\* An index that has passed either end of the ring at most once.
LEMMA RingIndex ==
    ASSUME NEW s \in Nat \ {0}, NEW n \in (-s)..(2 * s - 1)
    PROVE  n % s = IF n < 0 THEN n + s ELSE IF n < s THEN n ELSE n - s
<1>1. CASE n < 0
  <2>1. n = (-1) * s + (n + s) /\ n + s \in 0..(s - 1) /\ -1 \in Int /\ n \in Int
    BY <1>1
  <2> QED
    BY <1>1, <2>1, Remainder
<1>2. CASE n >= 0 /\ n < s
  <2>1. n = 0 * s + n /\ n \in 0..(s - 1)
    BY <1>2
  <2> QED
    BY <1>2, <2>1, Remainder
<1>3. CASE n >= s
  <2>1. n = 1 * s + (n - s) /\ n - s \in 0..(s - 1)
    BY <1>3
  <2> QED
    BY <1>3, <2>1, Remainder
<1> QED
  BY <1>1, <1>2, <1>3

-----------------------------------------------------------------------------
(* One read.                                                               *)

\* The symbols of a read.
LEMMA ChunkOf ==
    ASSUME TypeOK, NEW n \in Nat, read + n <= Len(text)
    PROVE  /\ Chunk(n) \in Seq(Symbols) /\ Len(Chunk(n)) = n
           /\ \A i \in 1..n : Chunk(n)[i] = text[read + i]
<1>1. text \in Seq(Symbols) /\ Len(text) \in Nat /\ read \in Nat
  BY DEF TypeOK
<1>2. \A i \in (read + 1)..(read + n) : text[i] \in Symbols
  BY <1>1
<1>3. /\ SubSeq(text, read + 1, read + n) \in Seq(Symbols)
      /\ Len(SubSeq(text, read + 1, read + n))
           = IF read + 1 <= read + n THEN (read + n) - (read + 1) + 1 ELSE 0
      /\ \A i \in 1..((read + n) - (read + 1) + 1) :
            SubSeq(text, read + 1, read + n)[i] = text[(read + 1) + i - 1]
  BY <1>1, <1>2, SubSeqProperties
<1>4. (read + n) - (read + 1) + 1 = n
  BY <1>1
<1>5. \A i \in 1..n : (read + 1) + i - 1 = read + i
  BY <1>1
<1> QED
  BY <1>1, <1>3, <1>4, <1>5 DEF Chunk

\* A chunk at least as long as the ring leaves its own end in it.
LEMMA KeepEndStep ==
    ASSUME TypeOK, RingHolds, NEW p \in Seq(Symbols), Len(p) >= TailSize, KeepEnd(p),
           UNCHANGED <<text, overflow>>, read' = read + Len(p),
           \A i \in 1..Len(p) : p[i] = text[read + i]
    PROVE  /\ RingHolds' /\ body' \in Seq(Symbols \cup {None})
           /\ tailNext' \in 0..(TailSize - 1) /\ tailSize' \in 0..TailSize
           /\ tailTruncated' \in BOOLEAN
<1> DEFINE n == Len(p)
<1>0. /\ TailSize \in Nat \ {0} /\ read \in Nat /\ n \in Nat /\ n >= TailSize
      /\ tailSize \in 0..TailSize
  BY CaptureAssumption DEF TypeOK
<1>1. /\ tailTruncated' = (tailSize > 0 \/ n > TailSize)
      /\ body' = SubSeq(p, n - TailSize + 1, n) /\ tailNext' = 0 /\ tailSize' = TailSize
  BY DEF KeepEnd
<1>2. \A i \in (n - TailSize + 1)..n : p[i] \in Symbols
  BY <1>0
<1>3. /\ body' \in Seq(Symbols) /\ Len(body') = TailSize
      /\ \A i \in 1..TailSize : body'[i] = p[n - TailSize + i]
  <2> DEFINE m == n - TailSize + 1
             s == SubSeq(p, m, n)
  <2>1. m \in Int /\ n \in Int /\ m <= n /\ n - m + 1 = TailSize
    BY <1>0
  <2>2. /\ s \in Seq(Symbols) /\ Len(s) = IF m <= n THEN n - m + 1 ELSE 0
        /\ \A i \in 1..(n - m + 1) : s[i] = p[m + i - 1]
    <3> HIDE DEF m, n
    <3> QED
      BY <1>2, <2>1, SubSeqProperties DEF m
  <2>3. \A i \in 1..TailSize : m + i - 1 = n - TailSize + i
    BY <1>0
  <2> HIDE DEF s
  <2> QED
    BY <1>1, <2>1, <2>2, <2>3 DEF s
<1>4. body' \in Seq(Symbols \cup {None})
  BY <1>3, SeqMonotonic
<1>5. ASSUME NEW k \in 1..TailSize PROVE body'[Place(k)'] = text[read' - k + 1]
  <2>1. 0 - k \in (-TailSize)..(2 * TailSize - 1) /\ 0 - k < 0
    BY <1>0
  <2>2. (0 - k) % TailSize = 0 - k + TailSize
    BY <1>0, <2>1, RingIndex
  <2>3. Place(k)' = TailSize - k + 1
    BY <1>0, <1>1, <2>2 DEF Place
  <2>4. TailSize - k + 1 \in 1..TailSize /\ n - TailSize + (TailSize - k + 1) = n - k + 1
    BY <1>0
  <2>5. body'[Place(k)'] = p[n - k + 1] /\ n - k + 1 \in 1..n
    BY <1>0, <1>3, <2>3, <2>4
  <2>6. read + (n - k + 1) = read' - k + 1
    BY <1>0
  <2> QED
    BY <2>5, <2>6
<1>6. read' >= TailSize /\ (tailTruncated' <=> read' > TailSize)
  <2>1. tailSize > 0 <=> read > 0
    BY <1>0 DEF RingHolds
  <2>2. (tailSize > 0 \/ n > TailSize) <=> read + n > TailSize
    BY <1>0, <2>1
  <2>3. read' >= TailSize
    BY <1>0
  <2>4. tailTruncated' <=> read + n > TailSize
    BY <1>1, <2>2, Zenon
  <2> QED
    BY <2>3, <2>4
<1>7. RingHolds'
  <2>1. Len(body)' = TailSize /\ ~overflow'
    BY <1>3 DEF RingHolds
  <2>2. tailSize' = IF read' < TailSize THEN read' ELSE TailSize
    BY <1>0, <1>1, <1>6
  <2>3. \A k \in 1..tailSize' : body'[Place(k)'] = text'[read' - k + 1]
    BY <1>1, <1>5
  <2>4. tailSize' < TailSize => tailNext' = tailSize'
    BY <1>0, <1>1
  <2> QED
    BY <1>6, <2>1, <2>2, <2>3, <2>4 DEF RingHolds
<1> QED
  BY <1>0, <1>1, <1>4, <1>7

\* How far behind the start of a write the k-th last place after it is.
LEMMA BehindWrite ==
    ASSUME NEW s \in Nat \ {0}, NEW t \in 0..(s - 1), NEW n \in 0..(s - 1), NEW k \in 1..s,
           NEW next \in Int, next = IF t + n < s THEN t + n ELSE t + n - s,
           NEW at \in Int, at = IF next < k THEN next - k + s + 1 ELSE next - k + 1
    PROVE  (IF at - 1 < t THEN at - 1 - t + s ELSE at - 1 - t)
              = IF k <= n THEN n - k ELSE s + n - k
<1>1. CASE t + n < s
  <2>1. next = t + n
    BY <1>1
  <2>2. CASE t + n < k
    BY <2>1, <2>2
  <2>3. CASE ~(t + n < k)
    BY <2>1, <2>3
  <2> QED
    BY <2>2, <2>3
<1>2. CASE ~(t + n < s)
  <2>1. next = t + n - s
    BY <1>2
  <2>2. CASE t + n - s < k
    BY <2>1, <2>2
  <2>3. CASE ~(t + n - s < k)
    BY <2>1, <2>3
  <2> QED
    BY <2>2, <2>3
<1> QED
  BY <1>1, <1>2

\* A shorter chunk is written over the oldest symbols, around the end of the ring.
LEMMA WriteOnStep ==
    ASSUME TypeOK, RingHolds, NEW p \in Seq(Symbols), Len(p) < TailSize, WriteOn(p),
           UNCHANGED <<text, overflow>>, read' = read + Len(p),
           \A i \in 1..Len(p) : p[i] = text[read + i]
    PROVE  /\ RingHolds' /\ body' \in Seq(Symbols \cup {None})
           /\ tailNext' \in 0..(TailSize - 1) /\ tailSize' \in 0..TailSize
           /\ tailTruncated' \in BOOLEAN
<1> DEFINE n == Len(p)
<1>0. /\ TailSize \in Nat \ {0} /\ read \in Nat /\ n \in Nat /\ n < TailSize
      /\ tailSize \in 0..TailSize /\ tailNext \in 0..(TailSize - 1)
      /\ body \in Seq(Symbols \cup {None}) /\ Len(body) = TailSize
      /\ tailSize = IF read < TailSize THEN read ELSE TailSize
      /\ read' = read + n
      /\ \A i \in 1..n : p[i] = text[read + i] /\ p[i] \in Symbols
  BY CaptureAssumption DEF TypeOK, RingHolds
<1>1. /\ body' = Written(p, tailNext)
      /\ tailSize' = IF tailSize + n > TailSize THEN TailSize ELSE tailSize + n
  BY DEF WriteOn
<1>2. tailNext' = IF tailNext + n < TailSize THEN tailNext + n ELSE tailNext + n - TailSize
  <2>1. PICK x \in (-TailSize)..(2 * TailSize - 1) : x = tailNext + n /\ ~(x < 0)
    BY <1>0
  <2>2. x % TailSize = IF x < TailSize THEN x ELSE x - TailSize
    BY <1>0, <2>1, RingIndex
  <2>3. tailNext' = x % TailSize
    BY <2>1 DEF WriteOn
  <2>4. tailNext' = IF x < TailSize THEN x ELSE x - TailSize
    BY <2>2, <2>3, Zenon
  <2> QED
    BY <1>0, <2>1, <2>4
<1>3. tailNext' \in 0..(TailSize - 1) /\ tailSize' \in 0..TailSize
  BY <1>0, <1>1, <1>2
<1>4. PICK next \in 0..(TailSize - 1), size \in 0..TailSize : next = tailNext' /\ size = tailSize'
  BY <1>3
<1>5. /\ next = IF tailNext + n < TailSize THEN tailNext + n ELSE tailNext + n - TailSize
      /\ size = IF tailSize + n > TailSize THEN TailSize ELSE tailSize + n
  BY <1>1, <1>2, <1>4
<1>6. ASSUME NEW i \in 1..TailSize
      PROVE  body'[i] = LET j == IF i - 1 < tailNext THEN i - 1 - tailNext + TailSize
                                 ELSE i - 1 - tailNext
                        IN  IF j < n THEN p[j + 1] ELSE body[i]
  <2>1. PICK x \in (-TailSize)..(2 * TailSize - 1) : x = i - 1 - tailNext /\ x < TailSize
    BY <1>0
  <2>2. x % TailSize = IF x < 0 THEN x + TailSize ELSE x
    BY <1>0, <2>1, RingIndex
  <2>3. (i - 1 - tailNext) % TailSize
          = IF i - 1 < tailNext THEN i - 1 - tailNext + TailSize ELSE i - 1 - tailNext
    BY <1>0, <2>1, <2>2
  <2>4. body'[i] = LET j == (i - 1 - tailNext) % TailSize
                   IN  IF j < n THEN p[j + 1] ELSE body[i]
    BY <1>1 DEF Written
  <2> QED
    BY <2>3, <2>4
<1>7. body' \in Seq(Symbols \cup {None}) /\ Len(body') = TailSize
  <2>1. ASSUME NEW i \in 1..TailSize PROVE body'[i] \in Symbols \cup {None}
    <3>1. PICK j \in Nat : body'[i] = IF j < n THEN p[j + 1] ELSE body[i]
      <4>1. (IF i - 1 < tailNext THEN i - 1 - tailNext + TailSize ELSE i - 1 - tailNext) \in Nat
        BY <1>0
      <4> QED
        BY <1>6, <4>1
    <3>2. j < n => j + 1 \in 1..n
      BY <1>0
    <3>3. (j < n => p[j + 1] \in Symbols) /\ body[i] \in Symbols \cup {None}
      BY <1>0, <3>2
    <3> QED
      BY <3>1, <3>3
  <2>2. body' = [i \in 1..TailSize |-> body'[i]]
    BY <1>1 DEF Written
  <2>3. body' \in [1..TailSize -> Symbols \cup {None}]
    BY <2>1, <2>2
  <2> QED
    BY <1>0, <2>3
<1>8. ASSUME NEW k \in 1..size PROVE body'[Place(k)'] = text[read' - k + 1]
  <2>1. PICK at \in 1..TailSize :
            at = IF next < k THEN next - k + TailSize + 1 ELSE next - k + 1
    <3>1. (IF next < k THEN next - k + TailSize + 1 ELSE next - k + 1) \in 1..TailSize
      BY CaptureAssumption
    <3> QED
      BY <3>1
  <2>2. Place(k)' = at
    <3>1. PICK x \in (-TailSize)..(2 * TailSize - 1) : x = next - k /\ x < TailSize
      <4>1. next - k \in (-TailSize)..(2 * TailSize - 1) /\ next - k < TailSize
        BY CaptureAssumption
      <4> QED
        BY <4>1
    <3>2. x % TailSize = IF x < 0 THEN x + TailSize ELSE x
      BY <1>0, <3>1, RingIndex
    <3>3. Place(k)' = (x % TailSize) + 1
      BY <1>4, <3>1 DEF Place
    <3>4. Place(k)' = (IF x < 0 THEN x + TailSize ELSE x) + 1
      BY <3>2, <3>3, Zenon
    <3>5. (IF x < 0 THEN x + TailSize ELSE x) + 1 = at
      BY <2>1, <3>1, CaptureAssumption
    <3> QED
      BY <3>4, <3>5, Zenon
  <2>3. (IF at - 1 < tailNext THEN at - 1 - tailNext + TailSize ELSE at - 1 - tailNext)
          = IF k <= n THEN n - k ELSE TailSize + n - k
    <3>1. n \in 0..(TailSize - 1) /\ k \in 1..TailSize /\ next \in Int /\ at \in Int
      BY <1>0
    <3> HIDE DEF n
    <3> QED
      BY <1>0, <1>5, <2>1, <3>1, BehindWrite
  <2>4. CASE k <= n
    <3>1. body'[at] = p[n - k + 1]
      <4>1. (IF at - 1 < tailNext THEN at - 1 - tailNext + TailSize ELSE at - 1 - tailNext) = n - k
        BY <2>4, <2>3
      <4>2. n - k < n
        BY <1>0, <1>4
      <4> QED
        BY <1>6, <4>1, <4>2
    <3>2. n - k + 1 \in 1..n /\ read + (n - k + 1) = read' - k + 1
      BY <1>0, <1>4, <2>4
    <3> QED
      BY <2>2, <3>1, <3>2
  <2>5. CASE ~(k <= n)
    <3>1. PICK m \in 1..tailSize : m = k - n
      <4>1. k - n \in 1..tailSize
        BY <1>0, <1>5, <2>5
      <4> QED
        BY <4>1
    <3>2. body'[at] = body[at]
      <4>1. (IF at - 1 < tailNext THEN at - 1 - tailNext + TailSize ELSE at - 1 - tailNext)
              = TailSize + n - k
        BY <2>5, <2>3
      <4>2. ~(TailSize + n - k < n)
        BY <1>0, <1>4
      <4> QED
        BY <1>6, <4>1, <4>2
    <3>3. Place(m) = at
      <4>1. PICK x \in (-TailSize)..(2 * TailSize - 1) : x = tailNext - m /\ x < TailSize
        BY <1>0
      <4>2. x % TailSize = IF x < 0 THEN x + TailSize ELSE x
        BY <1>0, <4>1, RingIndex
      <4>3. Place(m) = (x % TailSize) + 1
        BY <4>1 DEF Place
      <4>4. (IF x < 0 THEN x + TailSize ELSE x) + 1 = at
        BY <1>0, <1>4, <1>5, <2>1, <2>5, <3>1, <4>1
      <4> QED
        BY <4>2, <4>3, <4>4
    <3>4. body[at] = text[read - m + 1]
      BY <3>1, <3>3 DEF RingHolds
    <3>5. read - m + 1 = read' - k + 1
      BY <1>0, <1>4, <3>1
    <3> QED
      BY <2>2, <3>2, <3>4, <3>5
  <2> QED
    BY <2>4, <2>5
<1>9. tailTruncated' <=> read' > TailSize
  <2>1. tailTruncated <=> read > TailSize
    BY DEF RingHolds
  <2>2. (read > TailSize \/ tailSize + n > TailSize) <=> read + n > TailSize
    BY <1>0
  <2>3. tailTruncated' = (tailTruncated \/ tailSize + n > TailSize)
    BY DEF WriteOn
  <2>4. tailTruncated' <=> read + n > TailSize
    BY <2>1, <2>2, <2>3, Zenon
  <2> QED
    BY <1>0, <2>4
<1>10. tailSize' = IF read' < TailSize THEN read' ELSE TailSize
  BY <1>0, <1>1
<1>11. tailSize' < TailSize => tailNext' = tailSize'
  <2>1. tailSize < TailSize => tailNext = tailSize
    BY DEF RingHolds
  <2> QED
    BY <1>0, <1>4, <1>5, <2>1
<1>12. RingHolds'
  <2>1. \A k \in 1..tailSize' : body'[Place(k)'] = text'[read' - k + 1]
    BY <1>8, <1>4
  <2>2. ~overflow'
    BY DEF RingHolds
  <2> QED
    BY <1>7, <1>9, <1>10, <1>11, <2>1, <2>2 DEF RingHolds
<1>13. tailTruncated' \in BOOLEAN
  BY DEF WriteOn
<1> QED
  BY <1>3, <1>7, <1>12, <1>13

\* A read of an ordinary body is added to it, up to the limit.
LEMMA ReadBodyStep ==
    ASSUME TypeOK, BodyHolds, NEW p \in Seq(Symbols), ReadBody(p),
           UNCHANGED text, read' = read + Len(p), read' <= Len(text),
           \A i \in 1..Len(p) : p[i] = text[read + i]
    PROVE  /\ BodyHolds' /\ body' \in Seq(Symbols \cup {None}) /\ Len(body') <= MaxJSON
           /\ overflow' \in BOOLEAN /\ UNCHANGED <<tailNext, tailSize, tailTruncated>>
<1>0. /\ MaxJSON \in Nat \ {0} /\ read \in Nat /\ Len(p) \in Nat
      /\ text \in Seq(Symbols) /\ Len(text) \in Nat /\ read <= Len(text)
  BY CaptureAssumption DEF TypeOK
<1>1. /\ overflow' = (overflow \/ Len(body) + Len(p) > MaxJSON)
      /\ body' = IF overflow' THEN <<>> ELSE body \o p
      /\ UNCHANGED <<tailNext, tailSize, tailTruncated>>
  BY DEF ReadBody, ring
<1>2. /\ overflow <=> read > MaxJSON
      /\ body = IF overflow THEN <<>> ELSE SubSeq(text, 1, read)
      /\ ~tailTruncated
  BY DEF BodyHolds
<1>3. /\ SubSeq(text, 1, read) \in Seq(Symbols) /\ Len(SubSeq(text, 1, read)) = read
      /\ \A i \in 1..read : SubSeq(text, 1, read)[i] = text[i]
  <2>1. \A i \in 1..read : text[i] \in Symbols
    BY <1>0
  <2>2. /\ SubSeq(text, 1, read) \in Seq(Symbols)
        /\ Len(SubSeq(text, 1, read)) = IF 1 <= read THEN read - 1 + 1 ELSE 0
        /\ \A i \in 1..(read - 1 + 1) : SubSeq(text, 1, read)[i] = text[1 + i - 1]
    BY <1>0, <2>1, SubSeqProperties
  <2>3. read - 1 + 1 = read /\ \A i \in 1..read : 1 + i - 1 = i
    BY <1>0
  <2> QED
    BY <1>0, <2>2, <2>3
<1>4. overflow' <=> read' > MaxJSON
  <2>1. CASE overflow
    <3>1. overflow' /\ read > MaxJSON
      BY <1>1, <1>2, <2>1, Zenon
    <3> QED
      BY <1>0, <3>1
  <2>2. CASE ~overflow
    <3>1. Len(body) = read
      BY <1>2, <1>3, <2>2
    <3>2. overflow' <=> Len(body) + Len(p) > MaxJSON
      BY <1>1, <2>2, Zenon
    <3> QED
      BY <1>0, <3>1, <3>2
  <2> QED
    BY <2>1, <2>2
<1>5. CASE overflow'
  <2>1. body' = <<>> /\ <<>> \in Seq(Symbols \cup {None}) /\ Len(<<>>) = 0
    BY <1>1, <1>5
  <2> QED
    BY <1>0, <1>1, <1>2, <1>4, <1>5, <2>1 DEF BodyHolds
<1>6. CASE ~overflow'
  <2>1. ~overflow /\ body' = SubSeq(text, 1, read) \o p
    BY <1>1, <1>2, <1>6
  <2>2. /\ body' \in Seq(Symbols) /\ Len(body') = read'
        /\ \A i \in 1..read' : body'[i] = IF i <= read THEN text[i] ELSE p[i - read]
    <3> DEFINE s == SubSeq(text, 1, read)
    <3>1. s \in Seq(Symbols) /\ Len(s) = read /\ \A i \in 1..read : s[i] = text[i]
      BY <1>3
    <3> HIDE DEF s
    <3>2. /\ s \o p \in Seq(Symbols) /\ Len(s \o p) = Len(s) + Len(p)
          /\ \A i \in 1..(Len(s) + Len(p)) : (s \o p)[i] = IF i <= Len(s) THEN s[i] ELSE p[i - Len(s)]
      BY <3>1, ConcatProperties
    <3>3. body' = s \o p
      BY <2>1 DEF s
    <3> QED
      BY <1>0, <3>1, <3>2, <3>3
  <2>3. ASSUME NEW i \in 1..read' PROVE body'[i] = text[i]
    <3>1. CASE i <= read
      BY <2>2, <3>1
    <3>2. CASE ~(i <= read)
      <4>1. i - read \in 1..Len(p) /\ read + (i - read) = i
        BY <1>0, <3>2
      <4> QED
        BY <2>2, <3>2, <4>1
    <3> QED
      BY <3>1, <3>2
  <2>4. body' = SubSeq(text, 1, read')
    <3>1. \A i \in 1..read' : text[i] \in Symbols
      BY <1>0
    <3>2. read' \in Nat
      BY <1>0
    <3>3. /\ SubSeq(text, 1, read') \in Seq(Symbols)
          /\ Len(SubSeq(text, 1, read')) = IF 1 <= read' THEN read' - 1 + 1 ELSE 0
          /\ \A i \in 1..(read' - 1 + 1) : SubSeq(text, 1, read')[i] = text[1 + i - 1]
      BY <3>1, <3>2, SubSeqProperties
    <3>4. /\ Len(SubSeq(text, 1, read')) = Len(body')
          /\ \A i \in 1..Len(body') : body'[i] = SubSeq(text, 1, read')[i]
      <4>1. read' - 1 + 1 = read' /\ \A i \in 1..read' : 1 + i - 1 = i
        BY <3>2
      <4> QED
        BY <2>2, <2>3, <3>2, <3>3, <4>1
    <3> QED
      BY <2>2, <3>3, <3>4, SeqEqual
  <2>5. body' \in Seq(Symbols \cup {None})
    BY <2>2, SeqMonotonic
  <2>6. Len(body') <= MaxJSON
    BY <1>0, <1>4, <1>6, <2>2
  <2>7. BodyHolds'
    BY <1>1, <1>2, <1>4, <1>6, <2>4 DEF BodyHolds
  <2> QED
    BY <1>1, <1>6, <2>5, <2>6, <2>7
<1> QED
  BY <1>5, <1>6

-----------------------------------------------------------------------------
(* The theorems.                                                           *)

\* Nothing has been read.
LEMMA InitInv == Init => CaptureInv
<1> SUFFICES ASSUME Init PROVE CaptureInv
  OBVIOUS
<1>0. /\ TailSize \in Nat \ {0} /\ MaxJSON \in Nat \ {0}
      /\ text \in Seq(Symbols) /\ Len(text) \in Nat
  <2>1. text \in Seq(Symbols)
    BY CaptureAssumption DEF Init
  <2> QED
    BY <2>1, CaptureAssumption
<1>1. stream => body \in Seq(Symbols \cup {None}) /\ Len(body) = TailSize
  BY <1>0 DEF Init
<1>2. ~stream => body = <<>>
  BY DEF Init
<1>3. <<>> \in Seq(Symbols \cup {None}) /\ Len(<<>>) = 0
  OBVIOUS
<1>4. SubSeq(text, 1, 0) = <<>>
  BY SubSeqEmpty
<1>5. TypeOK
  <2>1. /\ body \in Seq(Symbols \cup {None})
        /\ Len(body) <= IF stream THEN TailSize ELSE MaxJSON
    BY <1>0, <1>1, <1>2, <1>3 DEF Init
  <2>2. /\ read \in 0..Len(text) /\ eof \in BOOLEAN /\ stream \in BOOLEAN
        /\ tailTruncated \in BOOLEAN /\ overflow \in BOOLEAN
    <3>1. eof \in BOOLEAN /\ stream \in BOOLEAN
      BY Zenon DEF Init
    <3>2. tailTruncated \in BOOLEAN /\ overflow \in BOOLEAN
      BY Zenon DEF Init
    <3>3. read = 0
      BY DEF Init
    <3>4. read \in 0..Len(text)
      BY <1>0, <3>3
    <3> QED
      BY <3>1, <3>2, <3>4
  <2>3. tailNext \in 0..(TailSize - 1) /\ tailSize \in 0..TailSize
    BY <1>0 DEF Init
  <2> QED
    BY <1>0, <2>1, <2>2, <2>3 DEF TypeOK
<1>6. stream => RingHolds
  BY <1>0, <1>1 DEF Init, RingHolds
<1>7. ~stream => BodyHolds
  BY <1>0, <1>2, <1>4 DEF Init, BodyHolds
<1> QED
  BY <1>5, <1>6, <1>7 DEF Init, CaptureInv

\* Every read keeps the copy what it should be.
LEMMA NextInv == CaptureInv /\ [Next]_vars => CaptureInv'
<1> SUFFICES ASSUME CaptureInv, [Next]_vars PROVE CaptureInv'
  OBVIOUS
<1>0. /\ TypeOK /\ (stream => RingHolds) /\ (~stream => BodyHolds)
      /\ text \in Seq(Symbols) /\ Len(text) \in Nat /\ read \in 0..Len(text)
      /\ stream \in BOOLEAN
      /\ TailSize \in Nat \ {0} /\ MaxJSON \in Nat \ {0}
  BY CaptureAssumption DEF CaptureInv, TypeOK
<1>1. CASE UNCHANGED vars
  BY <1>1 DEF CaptureInv, TypeOK, RingHolds, BodyHolds, Place, vars, ring
<1>2. ASSUME NEW n \in 0..MaxChunk, NEW end \in BOOLEAN, Read(n, end) PROVE CaptureInv'
  <2>1. /\ UNCHANGED <<text, stream>> /\ read' = read + n /\ eof' = end
        /\ read + n <= Len(text) /\ (end => read + n = Len(text)) /\ n \in Nat
    BY <1>2, CaptureAssumption DEF Read
  <2>2. read' \in 0..Len(text') /\ eof' \in BOOLEAN /\ stream' \in BOOLEAN
        /\ text' \in Seq(Symbols) /\ (eof' => read' = Len(text'))
    BY <1>0, <2>1
  <2>3. CASE n = 0
    <3>1. UNCHANGED <<body, tailNext, tailSize, tailTruncated, overflow>> /\ read' = read
      BY <1>0, <1>2, <2>1, <2>3 DEF Read, ring
    <3>2. TypeOK'
      BY <1>0, <2>1, <2>2, <3>1 DEF TypeOK
    <3>3. stream' => RingHolds'
      BY <1>0, <2>1, <3>1 DEF RingHolds, Place
    <3>4. ~stream' => BodyHolds'
      BY <1>0, <2>1, <3>1 DEF BodyHolds
    <3> QED
      BY <2>2, <3>2, <3>3, <3>4 DEF CaptureInv
  <2>4. CASE n # 0
    <3>1. PICK p \in Seq(Symbols) : p = Chunk(n) /\ Len(p) = n /\ \A i \in 1..n : p[i] = text[read + i]
      BY <1>0, <2>1, ChunkOf
    <3>2. Observe(p)
      BY <1>2, <2>1, <2>4, <3>1 DEF Read
    <3>3. CASE stream
      <4>1. ReadTail(p)
        BY <3>2, <3>3 DEF Observe
      <4>2. /\ UNCHANGED <<text, overflow>>
            /\ IF Len(p) >= TailSize THEN KeepEnd(p) ELSE WriteOn(p)
        BY <2>1, <4>1 DEF ReadTail
      <4>3. /\ RingHolds' /\ body' \in Seq(Symbols \cup {None})
            /\ tailNext' \in 0..(TailSize - 1) /\ tailSize' \in 0..TailSize
            /\ tailTruncated' \in BOOLEAN
        <5>1. read' = read + Len(p) /\ \A i \in 1..Len(p) : p[i] = text[read + i]
          BY <2>1, <3>1
        <5>2. CASE Len(p) >= TailSize
          BY <1>0, <3>3, <4>2, <5>1, <5>2, KeepEndStep
        <5>3. CASE ~(Len(p) >= TailSize)
          <6>1. Len(p) < TailSize
            BY <1>0, <2>1, <3>1, <5>3
          <6> QED
            BY <1>0, <3>3, <4>2, <5>1, <5>3, <6>1, WriteOnStep
        <5> QED
          BY <5>2, <5>3
      <4>4. Len(body') <= TailSize
        BY <1>0, <4>3 DEF RingHolds
      <4>5. overflow' \in BOOLEAN
        BY <4>2 DEF CaptureInv, TypeOK
      <4>6. TypeOK'
        BY <2>1, <2>2, <3>3, <4>3, <4>4, <4>5 DEF TypeOK
      <4> QED
        BY <2>1, <2>2, <3>3, <4>3, <4>6 DEF CaptureInv
    <3>4. CASE ~stream
      <4>1. ReadBody(p)
        BY <3>2, <3>4 DEF Observe
      <4>2. /\ BodyHolds' /\ body' \in Seq(Symbols \cup {None}) /\ Len(body') <= MaxJSON
            /\ overflow' \in BOOLEAN /\ UNCHANGED <<tailNext, tailSize, tailTruncated>>
        <5>1. /\ read' = read + Len(p) /\ read' <= Len(text)
              /\ \A i \in 1..Len(p) : p[i] = text[read + i]
          BY <2>1, <3>1
        <5> QED
          BY <1>0, <2>1, <3>4, <4>1, <5>1, ReadBodyStep
      <4>3. TypeOK'
        BY <1>0, <2>1, <2>2, <3>4, <4>2 DEF TypeOK
      <4> QED
        BY <2>1, <2>2, <3>4, <4>2, <4>3 DEF CaptureInv
    <3> QED
      BY <3>3, <3>4
  <2> QED
    BY <2>3, <2>4
<1> QED
  BY <1>1, <1>2 DEF Next

\* The invariant holds of every execution.
THEOREM Inductive == Spec => []CaptureInv
<1> QED
  BY InitInv, NextInv, PTL DEF Spec

\* Indexes of the ring stay within it, and no more is kept than the limits say.
THEOREM TypeCorrect == Spec => []TypeOK
<1>1. CaptureInv => TypeOK
  BY DEF CaptureInv
<1> QED
  BY <1>1, Inductive, PTL

\* What is read back from the ring.
LEMMA RingReadsBack ==
    ASSUME CaptureInv, stream
    PROVE  KeptTail = SubSeq(text, (IF read > TailSize THEN read - TailSize ELSE 0) + 1, read)
<1> DEFINE T == Symbols \cup {None}
<1>0. /\ TailSize \in Nat \ {0} /\ text \in Seq(Symbols) /\ Len(text) \in Nat
      /\ read \in 0..Len(text) /\ body \in Seq(T) /\ Len(body) = TailSize
      /\ tailNext \in 0..(TailSize - 1) /\ tailSize \in 0..TailSize
      /\ tailSize = IF read < TailSize THEN read ELSE TailSize
      /\ tailSize < TailSize => tailNext = tailSize
  BY CaptureAssumption DEF CaptureInv, TypeOK, RingHolds
<1>1. PICK from \in Nat : from = (IF read > TailSize THEN read - TailSize ELSE 0) /\ read = from + tailSize
  <2>1. /\ (IF read > TailSize THEN read - TailSize ELSE 0) \in Nat
        /\ read = (IF read > TailSize THEN read - TailSize ELSE 0) + tailSize
    BY <1>0
  <2> QED
    BY <2>1
<1>2. /\ SubSeq(text, from + 1, read) \in Seq(Symbols)
      /\ Len(SubSeq(text, from + 1, read)) = tailSize
      /\ \A i \in 1..tailSize : SubSeq(text, from + 1, read)[i] = text[from + i]
  <2>1. \A i \in (from + 1)..read : text[i] \in Symbols
    BY <1>0, <1>1
  <2>2. /\ SubSeq(text, from + 1, read) \in Seq(Symbols)
        /\ Len(SubSeq(text, from + 1, read)) = IF from + 1 <= read THEN read - (from + 1) + 1 ELSE 0
        /\ \A i \in 1..(read - (from + 1) + 1) :
              SubSeq(text, from + 1, read)[i] = text[(from + 1) + i - 1]
    BY <1>0, <1>1, <2>1, SubSeqProperties
  <2>3. read - (from + 1) + 1 = tailSize /\ \A i \in 1..tailSize : (from + 1) + i - 1 = from + i
    BY <1>0, <1>1
  <2> QED
    BY <1>0, <1>1, <2>2, <2>3
<1>3. ASSUME NEW i \in 1..tailSize, NEW at \in 1..TailSize,
             at = IF tailSize < TailSize THEN i
                  ELSE IF tailNext + i <= TailSize THEN tailNext + i ELSE tailNext + i - TailSize
      PROVE  body[at] = text[from + i]
  <2>1. PICK k \in 1..tailSize : k = tailSize - i + 1
    <3>1. tailSize - i + 1 \in 1..tailSize
      BY <1>0
    <3> QED
      BY <3>1
  <2>2. Place(k) = at
    <3>1. PICK x \in (-TailSize)..(2 * TailSize - 1) : x = tailNext - k /\ x < TailSize
      <4>1. tailNext - k \in (-TailSize)..(2 * TailSize - 1) /\ tailNext - k < TailSize
        BY <1>0
      <4> QED
        BY <4>1
    <3>2. x % TailSize = IF x < 0 THEN x + TailSize ELSE x
      BY <1>0, <3>1, RingIndex
    <3>3. Place(k) = (IF x < 0 THEN x + TailSize ELSE x) + 1
      BY <3>1, <3>2 DEF Place
    <3>4. (IF x < 0 THEN x + TailSize ELSE x) + 1 = at
      BY <1>0, <1>3, <2>1, <3>1
    <3> QED
      BY <3>3, <3>4, Zenon
  <2>3. body[Place(k)] = text[read - k + 1]
    BY DEF CaptureInv, RingHolds
  <2>4. read - k + 1 = from + i
    BY <1>0, <1>1, <2>1
  <2> QED
    BY <2>2, <2>3, <2>4
<1>4. SubSeq(text, from + 1, read) \in Seq(T)
  BY <1>2, SeqMonotonic
<1>5. /\ KeptTail \in Seq(T) /\ Len(KeptTail) = tailSize
      /\ \A i \in 1..tailSize : KeptTail[i] = text[from + i]
  <2>0. \A i \in 1..TailSize : body[i] \in T
    BY <1>0
  <2>1. CASE tailSize < TailSize
    <3>1. KeptTail = SubSeq(body, 1, tailSize)
      BY <2>1 DEF KeptTail
    <3>2. /\ SubSeq(body, 1, tailSize) \in Seq(T)
          /\ Len(SubSeq(body, 1, tailSize)) = IF 1 <= tailSize THEN tailSize - 1 + 1 ELSE 0
          /\ \A i \in 1..(tailSize - 1 + 1) : SubSeq(body, 1, tailSize)[i] = body[1 + i - 1]
      <4>1. \A i \in 1..tailSize : body[i] \in T
        BY <1>0, <2>0
      <4> HIDE DEF T
      <4> QED
        BY <1>0, <4>1, SubSeqProperties
    <3>3. tailSize - 1 + 1 = tailSize /\ \A i \in 1..tailSize : 1 + i - 1 = i /\ i \in 1..TailSize
      BY <1>0
    <3>4. \A i \in 1..tailSize : body[i] = text[from + i]
      BY <1>3, <2>1, <3>3
    <3> HIDE DEF T
    <3> QED
      BY <1>0, <3>1, <3>2, <3>3, <3>4
  <2>2. CASE ~(tailSize < TailSize)
    <3> DEFINE a == SubSeq(body, tailNext + 1, TailSize)
               b == SubSeq(body, 1, tailNext)
    <3>1. KeptTail = a \o b
      BY <2>2 DEF KeptTail
    <3>2. /\ a \in Seq(T) /\ Len(a) = TailSize - tailNext
          /\ \A i \in 1..(TailSize - tailNext) : a[i] = body[tailNext + i]
      <4>1. \A i \in (tailNext + 1)..TailSize : body[i] \in T
        BY <1>0, <2>0
      <4>2. /\ a \in Seq(T)
            /\ Len(a) = IF tailNext + 1 <= TailSize THEN TailSize - (tailNext + 1) + 1 ELSE 0
            /\ \A i \in 1..(TailSize - (tailNext + 1) + 1) : a[i] = body[(tailNext + 1) + i - 1]
        <5> HIDE DEF T
        <5> QED
          BY <1>0, <4>1, SubSeqProperties
      <4>3. /\ TailSize - (tailNext + 1) + 1 = TailSize - tailNext
            /\ \A i \in 1..(TailSize - tailNext) : (tailNext + 1) + i - 1 = tailNext + i
        BY <1>0
      <4> HIDE DEF T, a
      <4> QED
        BY <1>0, <4>2, <4>3
    <3>3. b \in Seq(T) /\ Len(b) = tailNext /\ \A i \in 1..tailNext : b[i] = body[i]
      <4>1. \A i \in 1..tailNext : body[i] \in T
        BY <1>0, <2>0
      <4>2. /\ b \in Seq(T) /\ Len(b) = IF 1 <= tailNext THEN tailNext - 1 + 1 ELSE 0
            /\ \A i \in 1..(tailNext - 1 + 1) : b[i] = body[1 + i - 1]
        <5> HIDE DEF T
        <5> QED
          BY <1>0, <4>1, SubSeqProperties
      <4>3. tailNext - 1 + 1 = tailNext /\ \A i \in 1..tailNext : 1 + i - 1 = i
        BY <1>0
      <4> HIDE DEF T, b
      <4> QED
        BY <1>0, <4>2, <4>3
    <3> HIDE DEF a, b
    <3>4. /\ a \o b \in Seq(T) /\ Len(a \o b) = Len(a) + Len(b)
          /\ \A i \in 1..(Len(a) + Len(b)) : (a \o b)[i] = IF i <= Len(a) THEN a[i] ELSE b[i - Len(a)]
      <4> HIDE DEF T
      <4> QED
        BY <3>2, <3>3, ConcatProperties
    <3>5. Len(a) + Len(b) = tailSize /\ tailSize = TailSize
      BY <1>0, <2>2, <3>2, <3>3
    <3>6. ASSUME NEW i \in 1..tailSize PROVE (a \o b)[i] = text[from + i]
      <4>1. CASE tailNext + i <= TailSize
        <5>1. i \in 1..(TailSize - tailNext) /\ tailNext + i \in 1..TailSize
          BY <1>0, <3>5, <4>1
        <5>2. (a \o b)[i] = body[tailNext + i]
          BY <1>0, <3>2, <3>4, <3>5, <5>1
        <5> QED
          BY <1>3, <2>2, <4>1, <5>1, <5>2
      <4>2. CASE ~(tailNext + i <= TailSize)
        <5>1. /\ ~(i <= TailSize - tailNext) /\ i - (TailSize - tailNext) = tailNext + i - TailSize
              /\ tailNext + i - TailSize \in 1..tailNext
              /\ tailNext + i - TailSize \in 1..TailSize
          BY <1>0, <3>5, <4>2
        <5>2. (a \o b)[i] = body[tailNext + i - TailSize]
          BY <3>2, <3>3, <3>4, <3>5, <5>1
        <5> QED
          BY <1>3, <2>2, <4>2, <5>1, <5>2
      <4> QED
        BY <4>1, <4>2
    <3> QED
      BY <3>1, <3>4, <3>5, <3>6
  <2> QED
    BY <2>1, <2>2
<1>6. KeptTail = SubSeq(text, from + 1, read)
  <2>1. \A i \in 1..Len(KeptTail) : KeptTail[i] = SubSeq(text, from + 1, read)[i]
    BY <1>2, <1>5
  <2> HIDE DEF T
  <2> QED
    BY <1>2, <1>4, <1>5, <2>1, SeqEqual
<1> QED
  BY <1>1, <1>6

\* For a ring of any size: it reads back as the last symbols of the stream in
\* their order, and whether there were more is known.
THEOREM TailCorrect == Spec => []TailKept
<1>1. CaptureInv => TailKept
  BY RingReadsBack DEF CaptureInv, RingHolds, TailKept
<1> QED
  BY <1>1, Inductive, PTL

-----------------------------------------------------------------------------
(* Induction, over a set of numbers: what the scan of the lines computes.  *)

\* A set of numbers has a least one.
LEMMA LeastNumber ==
    ASSUME NEW T, T \subseteq Nat, T # {}
    PROVE  \E m \in T : \A k \in T : m <= k
<1> DEFINE R == OpToRel(<, Nat)
<1>1. IsWellFoundedOn(R, Nat)
  BY NatLessThanWellFounded, Zenon
<1>2. PICK m \in T : \A k \in T : ~(<<k, m>> \in R)
  <2> HIDE DEF R
  <2> QED
    BY <1>1, WFMin, Zenon
<1>3. \A k \in T : ~(k < m)
  BY <1>2 DEF OpToRel
<1> QED
  BY <1>3

\* Induction up to n, of a property that is given as the set of its numbers.
LEMMA Climb ==
    ASSUME NEW n \in Nat, NEW T, 0 \in T, \A k \in 0..(n - 1) : k \in T => k + 1 \in T
    PROVE  \A k \in 0..n : k \in T
<1> DEFINE Missed == (0..n) \ T
<1> SUFFICES ASSUME Missed # {} PROVE FALSE
  OBVIOUS
<1>1. Missed \subseteq Nat
  OBVIOUS
<1>2. PICK m \in Missed : \A k \in Missed : m <= k
  BY <1>1, LeastNumber
<1>3. m # 0 /\ m \in 0..n /\ m \notin T
  OBVIOUS
<1>4. m - 1 \in 0..(n - 1) /\ m - 1 \in 0..n /\ (m - 1) + 1 = m /\ ~(m <= m - 1)
  BY <1>3
<1>5. m - 1 \in T
  BY <1>2, <1>4
<1> QED
  BY <1>3, <1>4, <1>5

\* Before the first symbol.
Begin == [usage |-> None, done |-> FALSE, from |-> 1]

\* f is the scan of the first m symbols.
Scans(f, s, cut, m) ==
    f = [k \in 0..m |-> IF k = 0 THEN Begin ELSE Scan(s, cut, k, f[k - 1])]

\* The scan exists: it can be extended by one symbol after another.
LEMMA ScanExists ==
    ASSUME NEW s, Len(s) \in Nat, NEW cut
    PROVE  \E f : Scans(f, s, cut, Len(s))
<1> DEFINE T == {m \in 0..Len(s) : \E f : Scans(f, s, cut, m)}
<1>1. 0 \in T
  <2>1. Scans([k \in 0..0 |-> Begin], s, cut, 0)
    BY DEF Scans
  <2>2. 0 \in 0..Len(s)
    OBVIOUS
  <2> QED
    BY <2>1, <2>2
<1>2. ASSUME NEW m \in 0..(Len(s) - 1), m \in T PROVE m + 1 \in T
  <2>1. PICK f : Scans(f, s, cut, m)
    BY <1>2
  <2> DEFINE g == [k \in 0..(m + 1) |-> IF k = m + 1 THEN Scan(s, cut, m + 1, f[m]) ELSE f[k]]
  <2>2. ASSUME NEW k \in 0..(m + 1)
        PROVE  g[k] = IF k = 0 THEN Begin ELSE Scan(s, cut, k, g[k - 1])
    <3>1. CASE k = 0
      BY <2>1, <3>1 DEF Scans
    <3>2. CASE k \in 1..m
      <4>1. k - 1 \in 0..(m + 1) /\ k - 1 # m + 1 /\ k # m + 1 /\ k # 0 /\ k \in 0..m
        BY <3>2
      <4>2. g[k - 1] = f[k - 1] /\ g[k] = f[k]
        BY <4>1
      <4>3. f[k] = Scan(s, cut, k, f[k - 1])
        BY <2>1, <4>1 DEF Scans
      <4> HIDE DEF g
      <4> QED
        BY <4>1, <4>2, <4>3
    <3>3. CASE k = m + 1
      <4>1. k - 1 = m /\ m \in 0..(m + 1) /\ m # m + 1 /\ k # 0
        BY <3>3
      <4>2. g[k - 1] = f[m] /\ g[k] = Scan(s, cut, m + 1, f[m])
        BY <3>3, <4>1
      <4> HIDE DEF g
      <4> QED
        BY <3>3, <4>1, <4>2
    <3> QED
      BY <3>1, <3>2, <3>3
  <2>3. Scans(g, s, cut, m + 1)
    <3>1. g = [k \in 0..(m + 1) |-> g[k]]
      OBVIOUS
    <3> HIDE DEF g
    <3> QED
      BY <2>2, <3>1 DEF Scans
  <2>4. m + 1 \in 0..Len(s)
    OBVIOUS
  <2> HIDE DEF g
  <2> QED
    BY <2>3, <2>4
<1>3. Len(s) \in T
  <2> HIDE DEF T
  <2>1. \A k \in 0..Len(s) : k \in T
    BY <1>1, <1>2, Climb, Zenon
  <2> QED
    BY <2>1
<1> QED
  BY <1>3

\* What the scan knows, symbol by symbol.
LEMMA ScanSteps ==
    ASSUME NEW s, Len(s) \in Nat, NEW cut
    PROVE  /\ Scanned(s, cut)[0] = Begin
           /\ \A k \in 1..Len(s) :
                 Scanned(s, cut)[k] = Scan(s, cut, k, Scanned(s, cut)[k - 1])
<1>1. \E f : Scans(f, s, cut, Len(s))
  BY ScanExists, Zenon
<1>2. Scanned(s, cut) = CHOOSE f : Scans(f, s, cut, Len(s))
  BY DEF Scanned, Scans, Begin
<1>3. Scans(Scanned(s, cut), s, cut, Len(s))
  BY <1>1, <1>2, Zenon
<1> QED
  BY <1>3 DEF Scans

-----------------------------------------------------------------------------
(* The scan of the ring and the scan of the whole stream.                  *)

\* What a scan may know.
Known == [usage : Usages \cup {None}, done : BOOLEAN, from : Nat]

\* Two scans know the same usage.
Agree(a, b) == a.usage = b.usage /\ a.done = b.done

\* The fields of what a scan knows, after an update.
LEMMA KnownUpdate ==
    ASSUME NEW U, NEW a \in [usage : U, done : BOOLEAN, from : Nat], NEW done \in BOOLEAN
    PROVE  /\ [a EXCEPT !.done = done] \in [usage : U, done : BOOLEAN, from : Nat]
           /\ [a EXCEPT !.done = done].usage = a.usage
           /\ [a EXCEPT !.done = done].done = done
           /\ [a EXCEPT !.done = done].from = a.from
OBVIOUS

\* What one line does: usage that was seen is only replaced by other usage, a scan
\* that has seen none learns it from the line alone.
LEMMA LineEffect ==
    ASSUME NEW a \in Known, NEW line
    PROVE  /\ Line(a, line) \in Known /\ Line(a, line).from = a.from
           /\ a.usage # None => Line(a, line).usage # None
           /\ \A b \in Known : Agree(a, b) => Agree(Line(a, line), Line(b, line))
           /\ a.usage = None /\ Line(a, line).usage # None =>
                 \A b \in Known : Agree(Line(a, line), Line(b, line))
<1> DEFINE Reads == Usages \cup {None}
           K == [usage : Reads, done : BOOLEAN, from : Nat]
<1>0. Known = K /\ None \in Reads
  BY DEF Known
<1>1. CASE line = <<>> \/ line[1] # "d"
  <2>1. \A b : Line(b, line) = b
    BY <1>1 DEF Line
  <2> QED
    BY <2>1 DEF Agree
<1>2. CASE ~(line = <<>> \/ line[1] # "d") /\ line = <<"d", "X">>
  <2>1. \A u \in Usages : line # <<"d", u>>
    BY <1>2, CaptureAssumption
  <2>2. \A b : Line(b, line) = [b EXCEPT !.done = b.usage # None]
    BY <1>2, <2>1 DEF Line
  <2> HIDE DEF Reads
  <2>3. ASSUME NEW b \in K
        PROVE  /\ Line(b, line) \in K /\ Line(b, line).from = b.from
               /\ Line(b, line).usage = b.usage /\ Line(b, line).done = (b.usage # None)
    <3>1. PICK d \in BOOLEAN : d = (b.usage # None)
      OBVIOUS
    <3>2. /\ [b EXCEPT !.done = d] \in K /\ [b EXCEPT !.done = d].usage = b.usage
          /\ [b EXCEPT !.done = d].done = d /\ [b EXCEPT !.done = d].from = b.from
      BY KnownUpdate, Zenon
    <3> QED
      BY <2>2, <3>1, <3>2, Zenon
  <2> HIDE DEF K
  <2> QED
    BY <1>0, <2>3, Zenon DEF Agree
<1>3. CASE ~(line = <<>> \/ line[1] # "d") /\ \E u \in Usages : line = <<"d", u>>
  <2>1. PICK u \in Usages : line = <<"d", u>>
    BY <1>3
  <2>2. line # <<"d", "X">> /\ u # None /\ u \in Reads
    BY <2>1, CaptureAssumption
  <2>3. \A b : Line(b, line) = [b EXCEPT !.usage = u, !.done = FALSE]
    BY <1>3, <2>1, <2>2 DEF Line
  <2> HIDE DEF Reads
  <2>4. ASSUME NEW b \in K
        PROVE  /\ Line(b, line) \in K /\ Line(b, line).from = b.from
               /\ Line(b, line).usage = u /\ Line(b, line).done = FALSE
    <3>1. PICK x : x = [b EXCEPT !.usage = u]
      OBVIOUS
    <3>2. x \in K /\ x.usage = u /\ x.from = b.from
      BY <2>2, <3>1
    <3>3. [b EXCEPT !.usage = u, !.done = FALSE] = [x EXCEPT !.done = FALSE]
      BY <3>1
    <3>4. PICK d \in BOOLEAN : d = FALSE
      OBVIOUS
    <3>5. /\ [x EXCEPT !.done = d] \in K /\ [x EXCEPT !.done = d].usage = x.usage
          /\ [x EXCEPT !.done = d].done = d /\ [x EXCEPT !.done = d].from = x.from
      BY <3>2, KnownUpdate, Zenon
    <3>6. Line(b, line) = [x EXCEPT !.done = d]
      BY <2>3, <3>3, <3>4, Zenon
    <3> QED
      BY <3>2, <3>4, <3>5, <3>6, Zenon
  <2> HIDE DEF K
  <2> QED
    BY <1>0, <2>2, <2>4, Zenon DEF Agree
<1>4. CASE /\ ~(line = <<>> \/ line[1] # "d") /\ line # <<"d", "X">>
           /\ \A u \in Usages : line # <<"d", u>>
  <2>1. \A b : Line(b, line) = [b EXCEPT !.done = FALSE]
    BY <1>4 DEF Line
  <2> HIDE DEF Reads
  <2>2. ASSUME NEW b \in K
        PROVE  /\ Line(b, line) \in K /\ Line(b, line).from = b.from
               /\ Line(b, line).usage = b.usage /\ Line(b, line).done = FALSE
    <3>1. PICK d \in BOOLEAN : d = FALSE
      OBVIOUS
    <3>2. /\ [b EXCEPT !.done = d] \in K /\ [b EXCEPT !.done = d].usage = b.usage
          /\ [b EXCEPT !.done = d].done = d /\ [b EXCEPT !.done = d].from = b.from
      BY KnownUpdate, Zenon
    <3> QED
      BY <2>1, <3>1, <3>2, Zenon
  <2> HIDE DEF K
  <2> QED
    BY <1>0, <2>2, Zenon DEF Agree
<1> QED
  BY <1>1, <1>2, <1>3, <1>4, Zenon

\* What one symbol does: the end of a line is where the next one begins.
LEMMA ScanEffect ==
    ASSUME NEW s, NEW cut \in BOOLEAN, NEW k \in Nat \ {0}, NEW a \in Known
    PROVE  /\ Scan(s, cut, k, a) \in Known
           /\ Scan(s, cut, k, a).from = IF s[k] = "n" THEN k + 1 ELSE a.from
           /\ a.usage # None /\ ~(cut /\ a.from = 1) => Scan(s, cut, k, a).usage # None
           /\ s[k] # "n" => Scan(s, cut, k, a) = a
<1> DEFINE next == [a EXCEPT !.from = k + 1]
<1>1. next \in Known /\ next.from = k + 1 /\ next.usage = a.usage
  BY DEF Known
<1>2. CASE s[k] # "n"
  BY <1>2 DEF Scan
<1>3. CASE s[k] = "n" /\ cut /\ a.from = 1
  <2>1. Scan(s, cut, k, a) = next
    BY <1>3 DEF Scan
  <2> QED
    BY <1>1, <1>3, <2>1
<1>4. CASE s[k] = "n" /\ ~(cut /\ a.from = 1)
  <2>1. Scan(s, cut, k, a) = Line(next, SubSeq(s, a.from, k - 1))
    BY <1>4, Zenon DEF Scan
  <2> HIDE DEF next
  <2> QED
    BY <1>1, <1>4, <2>1, LineEffect, Zenon
<1> QED
  BY <1>2, <1>3, <1>4

\* A scan knows what Known says, and the current line begins within it.
LEMMA ScanType ==
    ASSUME NEW s, Len(s) \in Nat, NEW cut \in BOOLEAN, NEW k \in 0..Len(s)
    PROVE  Scanned(s, cut)[k] \in Known /\ Scanned(s, cut)[k].from \in 1..(k + 1)
<1> DEFINE T == {m \in 0..Len(s) : /\ Scanned(s, cut)[m] \in Known
                                  /\ Scanned(s, cut)[m].from \in 1..(m + 1)}
<1>1. 0 \in T
  <2>1. Scanned(s, cut)[0] = Begin
    BY ScanSteps
  <2>2. Begin \in Known /\ Begin.from \in 1..(0 + 1) /\ 0 \in 0..Len(s)
    BY DEF Begin, Known
  <2> QED
    BY <2>1, <2>2
<1>2. ASSUME NEW m \in 0..(Len(s) - 1), m \in T PROVE m + 1 \in T
  <2> DEFINE a == Scanned(s, cut)[m]
  <2>1. a \in Known /\ a.from \in 1..(m + 1)
    BY <1>2
  <2>2. m + 1 \in Nat \ {0} /\ m + 1 \in 1..Len(s) /\ (m + 1) - 1 = m
    OBVIOUS
  <2>3. Scanned(s, cut)[m + 1] = Scan(s, cut, m + 1, a)
    BY <2>2, ScanSteps
  <2> HIDE DEF a
  <2>4. /\ Scan(s, cut, m + 1, a) \in Known
        /\ Scan(s, cut, m + 1, a).from = IF s[m + 1] = "n" THEN (m + 1) + 1 ELSE a.from
    BY <2>1, <2>2, ScanEffect
  <2> QED
    BY <2>1, <2>3, <2>4
<1>3. \A m \in 0..Len(s) : m \in T
  <2> HIDE DEF T
  <2> QED
    BY <1>1, <1>2, Climb, Zenon
<1> QED
  BY <1>3

\* A stream t, and what is left of it after o symbols.
\* Both have the same lines.
LEMMA TailLines ==
    ASSUME NEW t \in Seq(Symbols), NEW o \in 1..Len(t)
    PROVE  LET s == SubSeq(t, o + 1, Len(t))
           IN  /\ s \in Seq(Symbols) /\ Len(s) = Len(t) - o
               /\ \A i \in 1..Len(s) : s[i] = t[o + i]
               /\ \A i \in 1..Len(s), j \in 0..Len(s) : SubSeq(s, i, j) = SubSeq(t, o + i, o + j)
<1> DEFINE s == SubSeq(t, o + 1, Len(t))
<1>0. Len(t) \in Nat /\ o \in Nat /\ o >= 1 /\ o <= Len(t)
  OBVIOUS
<1>1. /\ s \in Seq(Symbols) /\ Len(s) = Len(t) - o
      /\ \A i \in 1..Len(s) : s[i] = t[o + i]
  <2>1. \A i \in (o + 1)..Len(t) : t[i] \in Symbols
    OBVIOUS
  <2>2. /\ s \in Seq(Symbols) /\ Len(s) = IF o + 1 <= Len(t) THEN Len(t) - (o + 1) + 1 ELSE 0
        /\ \A i \in 1..(Len(t) - (o + 1) + 1) : s[i] = t[(o + 1) + i - 1]
    BY <1>0, <2>1, SubSeqProperties
  <2>3. /\ Len(t) - (o + 1) + 1 = Len(t) - o
        /\ ~(o + 1 <= Len(t)) => Len(t) - o = 0
    BY <1>0
  <2>4. ASSUME NEW i \in 1..(Len(t) - o) PROVE (o + 1) + i - 1 = o + i
    BY <1>0
  <2> HIDE DEF s
  <2>5. s \in Seq(Symbols) /\ Len(s) = Len(t) - o
    BY <1>0, <2>2, <2>3
  <2>6. ASSUME NEW i \in 1..(Len(t) - o) PROVE s[i] = t[o + i]
    <3>1. s[i] = t[(o + 1) + i - 1]
      BY <2>2, <2>3
    <3> QED
      BY <2>4, <3>1
  <2> QED
    BY <2>5, <2>6
<1>2. ASSUME NEW i \in 1..Len(s), NEW j \in 0..Len(s)
      PROVE  SubSeq(s, i, j) = SubSeq(t, o + i, o + j)
  <2> HIDE DEF s
  <2>1. \A k \in i..j : s[k] \in Symbols
    BY <1>1
  <2>2. \A k \in (o + i)..(o + j) : t[k] \in Symbols
    BY <1>0, <1>1
  <2>3. /\ SubSeq(s, i, j) \in Seq(Symbols) /\ Len(SubSeq(s, i, j)) = IF i <= j THEN j - i + 1 ELSE 0
        /\ \A k \in 1..(j - i + 1) : SubSeq(s, i, j)[k] = s[i + k - 1]
    BY <1>1, <2>1, SubSeqProperties
  <2>4. /\ SubSeq(t, o + i, o + j) \in Seq(Symbols)
        /\ Len(SubSeq(t, o + i, o + j)) = IF o + i <= o + j THEN (o + j) - (o + i) + 1 ELSE 0
        /\ \A k \in 1..((o + j) - (o + i) + 1) : SubSeq(t, o + i, o + j)[k] = t[(o + i) + k - 1]
    BY <1>0, <2>2, SubSeqProperties
  <2>5. /\ (o + j) - (o + i) + 1 = j - i + 1 /\ (o + i <= o + j <=> i <= j)
        /\ \A k \in 1..(j - i + 1) :
              i + k - 1 \in 1..Len(s) /\ (o + i) + k - 1 = o + (i + k - 1)
    BY <1>0, <1>1
  <2>6. /\ Len(SubSeq(s, i, j)) = Len(SubSeq(t, o + i, o + j))
        /\ \A k \in 1..Len(SubSeq(s, i, j)) : SubSeq(s, i, j)[k] = SubSeq(t, o + i, o + j)[k]
    <3>1. Len(SubSeq(s, i, j)) = Len(SubSeq(t, o + i, o + j))
      BY <2>3, <2>4, <2>5
    <3>2. ASSUME NEW k \in 1..Len(SubSeq(s, i, j))
          PROVE  SubSeq(s, i, j)[k] = SubSeq(t, o + i, o + j)[k]
      <4>1. k \in 1..(j - i + 1)
        BY <2>3
      <4>2. SubSeq(s, i, j)[k] = s[i + k - 1] /\ SubSeq(t, o + i, o + j)[k] = t[(o + i) + k - 1]
        BY <2>3, <2>4, <2>5, <4>1
      <4> QED
        BY <1>1, <2>5, <4>1, <4>2
    <3> QED
      BY <3>1, <3>2
  <2> QED
    BY <2>3, <2>4, <2>6, SeqEqual
<1> QED
  BY <1>1, <1>2

\* The scan of the tail, and that of the stream o symbols later.
Follows(g, f, o) ==
    /\ g.from > 1 => f.from = o + g.from
    /\ g.from = 1 => g.usage = None
    /\ g.usage = None \/ Agree(g, f)

\* The scan that drops the first line of the tail knows nothing that the scan of
\* the stream does not know at the same symbol.
LEMMA TailFollows ==
    ASSUME NEW t \in Seq(Symbols), NEW o \in 1..Len(t), NEW s, s = SubSeq(t, o + 1, Len(t)),
           NEW k \in 0..Len(s)
    PROVE  Follows(Scanned(s, TRUE)[k], Scanned(t, FALSE)[o + k], o)
<1> DEFINE T == {m \in 0..Len(s) : Follows(Scanned(s, TRUE)[m], Scanned(t, FALSE)[o + m], o)}
<1>0. /\ Len(t) \in Nat /\ Len(s) \in Nat /\ Len(t) = o + Len(s)
      /\ \A i \in 1..Len(s) : s[i] = t[o + i]
      /\ \A i \in 1..Len(s), j \in 0..Len(s) : SubSeq(s, i, j) = SubSeq(t, o + i, o + j)
  <2>1. /\ s \in Seq(Symbols) /\ Len(s) = Len(t) - o
        /\ \A i \in 1..Len(s) : s[i] = t[o + i]
        /\ \A i \in 1..Len(s), j \in 0..Len(s) : SubSeq(s, i, j) = SubSeq(t, o + i, o + j)
    BY TailLines
  <2> QED
    BY <2>1
<1>00. Len(t) \in Nat /\ Len(s) \in Nat
  BY <1>0
<1>1. 0 \in T
  <2>1. Scanned(s, TRUE)[0] = Begin
    BY <1>00, ScanSteps
  <2>2. \A f : Follows(Begin, f, o)
    BY DEF Begin, Follows
  <2>3. 0 \in 0..Len(s)
    BY <1>0
  <2> QED
    BY <2>1, <2>2, <2>3
<1>2. ASSUME NEW m \in 0..(Len(s) - 1), m \in T PROVE m + 1 \in T
  <2>1. PICK n \in Nat, p \in Nat, q \in Nat : n = m + 1 /\ p = o + m /\ q = o + n
    <3>1. m + 1 \in Nat /\ o + m \in Nat /\ o + (m + 1) \in Nat
      BY <1>0
    <3> QED
      BY <3>1
  <2>2. /\ n \in 1..Len(s) /\ n # 0 /\ n - 1 = m /\ m \in 0..Len(s) /\ n \in 0..Len(s)
        /\ q \in 1..Len(t) /\ q # 0 /\ q - 1 = p /\ p \in 0..Len(t)
    BY <1>0, <2>1
  <2>3. PICK g, f : g = Scanned(s, TRUE)[m] /\ f = Scanned(t, FALSE)[p]
    OBVIOUS
  <2>4. g \in Known /\ g.from \in 1..(m + 1) /\ f \in Known /\ Follows(g, f, o)
    BY <1>0, <1>2, <2>1, <2>2, <2>3, ScanType
  <2>5. g.from \in 1..Len(s) /\ (g.from = 1 \/ g.from > 1)
    BY <2>1, <2>2, <2>4
  <2>6. PICK h, e : /\ h = Scanned(s, TRUE)[n] /\ h = Scan(s, TRUE, n, g)
                    /\ e = Scanned(t, FALSE)[q] /\ e = Scan(t, FALSE, q, f)
    <3>1. Scanned(s, TRUE)[n] = Scan(s, TRUE, n, g)
      <4>1. \A i \in 1..Len(s) : Scanned(s, TRUE)[i] = Scan(s, TRUE, i, Scanned(s, TRUE)[i - 1])
        BY <1>00, ScanSteps
      <4> QED
        BY <2>2, <2>3, <4>1
    <3>2. Scanned(t, FALSE)[q] = Scan(t, FALSE, q, f)
      <4>1. \A i \in 1..Len(t) :
               Scanned(t, FALSE)[i] = Scan(t, FALSE, i, Scanned(t, FALSE)[i - 1])
        BY <1>00, ScanSteps
      <4> QED
        BY <2>2, <2>3, <4>1
    <3> QED
      BY <3>1, <3>2
  <2>7. s[n] = t[q]
    BY <1>0, <2>1, <2>2
  <2>8. PICK u \in Nat, v \in Nat : u = n + 1 /\ v = q + 1 /\ v = o + u /\ u > 1
    <3>1. n + 1 \in Nat /\ q + 1 \in Nat /\ q + 1 = o + (n + 1) /\ n + 1 > 1
      BY <2>1, <2>2
    <3> QED
      BY <3>1
  <2>9. ASSUME Follows(h, e, o) PROVE m + 1 \in T
    <3>1. n \in T
      BY <2>1, <2>2, <2>6, <2>9
    <3> QED
      BY <2>1, <3>1
  <2>10. CASE s[n] # "n"
    <3>1. h = g /\ e = f
      BY <2>6, <2>7, <2>10 DEF Scan
    <3> QED
      BY <2>4, <2>9, <3>1
  <2>11. CASE s[n] = "n" /\ g.from = 1
    <3>1. h = [g EXCEPT !.from = u] /\ g.usage = None
      BY <2>4, <2>6, <2>8, <2>11 DEF Scan, Follows
    <3>2. h.from = u /\ h.usage = None
      BY <2>4, <3>1 DEF Known
    <3>3. e.from = v
      <4>1. q \in Nat \ {0} /\ t[q] = "n"
        BY <2>2, <2>7, <2>11
      <4>2. Scan(t, FALSE, q, f).from = q + 1
        BY <2>4, <4>1, ScanEffect
      <4> QED
        BY <2>6, <2>8, <4>2
    <3>4. Follows(h, e, o)
      BY <2>8, <3>2, <3>3 DEF Follows
    <3> QED
      BY <2>9, <3>4
  <2>12. CASE s[n] = "n" /\ g.from > 1
    <3>1. PICK x, y, line : /\ x = [g EXCEPT !.from = u] /\ y = [f EXCEPT !.from = v]
                            /\ line = SubSeq(s, g.from, m)
      OBVIOUS
    <3>2. /\ x \in Known /\ x.from = u /\ x.usage = g.usage /\ x.done = g.done
          /\ y \in Known /\ y.from = v /\ y.usage = f.usage /\ y.done = f.done
      BY <2>4, <3>1 DEF Known
    <3>3. line = SubSeq(t, f.from, p)
      <4>1. f.from = o + g.from
        BY <2>4, <2>12 DEF Follows
      <4> QED
        BY <1>0, <2>1, <2>2, <2>5, <3>1, <4>1
    <3>4. h = Line(x, line)
      <4>1. g.from # 1
        BY <2>5, <2>12
      <4> QED
        BY <2>2, <2>6, <2>8, <2>12, <3>1, <4>1 DEF Scan
    <3>5. e = Line(y, line)
      BY <2>2, <2>6, <2>7, <2>8, <2>12, <3>1, <3>3 DEF Scan
    <3>6. h.from = u /\ e.from = v
      BY <3>2, <3>4, <3>5, LineEffect
    <3>7. h.usage = None \/ Agree(h, e)
      <4>1. x.usage = None \/ Agree(x, y)
        BY <2>4, <3>2 DEF Follows, Agree
      <4> QED
        BY <3>2, <3>4, <3>5, <4>1, LineEffect, Zenon
    <3>8. Follows(h, e, o)
      BY <2>8, <3>6, <3>7 DEF Follows
    <3> QED
      BY <2>9, <3>8
  <2> QED
    BY <2>1, <2>5, <2>10, <2>11, <2>12
<1>3. \A m \in 0..Len(s) : m \in T
  <2> HIDE DEF T
  <2> QED
    BY <1>0, <1>1, <1>2, Climb, Zenon
<1> QED
  BY <1>3

\* Two symbols of a sequence are the pair of them.
LEMMA Pair ==
    ASSUME NEW q \in Seq(Symbols), NEW a \in Nat, NEW b \in Nat, b - 1 = a,
           {a, b} \subseteq 1..Len(q)
    PROVE  SubSeq(q, a, b) = <<q[a], q[b]>>
<1>1. Len(q) \in Nat /\ a \in Int /\ b \in Int /\ \A i \in a..b : q[i] \in Symbols
  OBVIOUS
<1>2. /\ SubSeq(q, a, b) \in Seq(Symbols)
      /\ Len(SubSeq(q, a, b)) = IF a <= b THEN b - a + 1 ELSE 0
      /\ \A i \in 1..(b - a + 1) : SubSeq(q, a, b)[i] = q[a + i - 1]
  BY <1>1, SubSeqProperties
<1>3. /\ b - a + 1 = 2 /\ a <= b /\ 1 \in 1..(b - a + 1) /\ 2 \in 1..(b - a + 1)
      /\ a + 1 - 1 = a /\ a + 2 - 1 = b
  OBVIOUS
<1>4. SubSeq(q, a, b)[1] = q[a] /\ SubSeq(q, a, b)[2] = q[b]
  <2>1. SubSeq(q, a, b)[1] = q[a + 1 - 1] /\ SubSeq(q, a, b)[2] = q[a + 2 - 1]
    BY <1>2, <1>3, Zenon
  <2> QED
    BY <1>3, <2>1
<1>5. Len(SubSeq(q, a, b)) = 2
  BY <1>2, <1>3
<1>6. \A p \in Seq(Symbols) : Len(p) = 2 => p = <<p[1], p[2]>>
  OBVIOUS
<1> QED
  BY <1>2, <1>4, <1>5, <1>6, Zenon

\* Usage in a whole line of the tail, behind the end of another line, is known to
\* the scan of the tail from there on.
LEMMA TailKnows ==
    ASSUME NEW t \in Seq(Symbols), NEW o \in 1..Len(t), NEW s, s = SubSeq(t, o + 1, Len(t)),
           NEW j \in 1..Len(s), j + 3 <= Len(s),
           s[j] = "n", s[j + 1] = "d", s[j + 2] \in Usages, s[j + 3] = "n"
    PROVE  Scanned(s, TRUE)[Len(s)].usage # None
<1> DEFINE S(k) == Scanned(s, TRUE)[k]
<1>0. /\ s \in Seq(Symbols) /\ Len(s) \in Nat /\ j \in Nat
      /\ \A k \in 0..Len(s) : S(k) \in Known /\ S(k).from \in 1..(k + 1)
  <2>1. s \in Seq(Symbols)
    BY TailLines
  <2>2. Len(s) \in Nat /\ j \in Nat
    BY <2>1
  <2>3. \A k \in 0..Len(s) : S(k) \in Known /\ S(k).from \in 1..(k + 1)
    BY <2>2, ScanType
  <2> QED
    BY <2>1, <2>2, <2>3
<1>1. ASSUME NEW k \in 1..Len(s)
      PROVE  /\ S(k) = Scan(s, TRUE, k, S(k - 1)) /\ k - 1 \in 0..Len(s)
             /\ S(k).from = IF s[k] = "n" THEN k + 1 ELSE S(k - 1).from
             /\ s[k] # "n" => S(k) = S(k - 1)
             /\ S(k - 1).usage # None /\ S(k - 1).from # 1 => S(k).usage # None
  <2>1. S(k) = Scan(s, TRUE, k, S(k - 1))
    BY <1>0, ScanSteps
  <2>2. k - 1 \in 0..Len(s) /\ k \in Nat \ {0}
    BY <1>0
  <2>3. S(k - 1) \in Known
    BY <1>0, <2>2
  <2> HIDE DEF S
  <2> QED
    <3>1. TRUE \in BOOLEAN
      OBVIOUS
    <3>2. /\ Scan(s, TRUE, k, S(k - 1)).from = IF s[k] = "n" THEN k + 1 ELSE S(k - 1).from
          /\ S(k - 1).usage # None /\ ~(TRUE /\ S(k - 1).from = 1) =>
                Scan(s, TRUE, k, S(k - 1)).usage # None
          /\ s[k] # "n" => Scan(s, TRUE, k, S(k - 1)) = S(k - 1)
      BY <2>2, <2>3, <3>1, ScanEffect, Zenon
    <3> QED
      BY <2>1, <2>2, <3>2, Zenon
<1>2. PICK a \in Nat, b \in Nat, c \in Nat :
         /\ a = j + 1 /\ b = j + 2 /\ c = j + 3
         /\ a - 1 = j /\ b - 1 = a /\ c - 1 = b
         /\ {a, b, c} \subseteq 1..Len(s) /\ j # 0 /\ a # 1
  <2>1. /\ j + 1 \in Nat /\ j + 2 \in Nat /\ j + 3 \in Nat
        /\ (j + 1) - 1 = j /\ (j + 2) - 1 = j + 1 /\ (j + 3) - 1 = j + 2
        /\ {j + 1, j + 2, j + 3} \subseteq 1..Len(s) /\ j # 0 /\ j + 1 # 1
    BY <1>0
  <2> QED
    BY <2>1
<1>3. /\ s[a] = "d" /\ s[b] \in Usages /\ s[c] = "n" /\ s[a] # "n" /\ s[b] # "n"
      /\ s[b] # None
  BY <1>2, CaptureAssumption
<1> HIDE DEF S
<1>4. S(b).from = a /\ S(b) \in Known
  <2>1. S(j).from = a
    BY <1>1, <1>2
  <2>2. S(a) = S(j)
    BY <1>1, <1>2, <1>3
  <2>3. S(b) = S(a)
    BY <1>1, <1>2, <1>3
  <2>4. b \in 0..Len(s)
    BY <1>2
  <2> QED
    BY <1>0, <2>1, <2>2, <2>3, <2>4
<1>5. S(c).usage = s[b]
  <2>1. PICK x : x = [S(b) EXCEPT !.from = c + 1]
    OBVIOUS
  <2>2. x \in Known
    <3>1. c + 1 \in Nat
      OBVIOUS
    <3> QED
      BY <1>4, <2>1, <3>1 DEF Known
  <2>3. SubSeq(s, a, b) = <<"d", s[b]>>
    <3>1. {a, b} \subseteq 1..Len(s)
      BY <1>2
    <3>2. s \in Seq(Symbols) /\ b - 1 = a
      BY <1>0, <1>2
    <3>3. SubSeq(s, a, b) = <<s[a], s[b]>>
      BY <3>1, <3>2, Pair, Zenon
    <3> QED
      BY <1>3, <3>3, Zenon
  <2>4. S(c) = Line(x, <<"d", s[b]>>)
    <3>1. S(c) = Scan(s, TRUE, c, S(b))
      BY <1>1, <1>2
    <3> QED
      BY <1>2, <1>3, <1>4, <2>1, <2>3, <3>1 DEF Scan
  <2>5. Line(x, <<"d", s[b]>>) = [x EXCEPT !.usage = s[b], !.done = FALSE]
    <3>1. <<"d", s[b]>> # <<"d", "X">> /\ <<"d", s[b]>> # <<>>
      BY <1>3, CaptureAssumption
    <3> QED
      BY <1>3, <3>1 DEF Line
  <2> QED
    BY <2>2, <2>4, <2>5 DEF Known
<1> DEFINE T == {m \in 0..(Len(s) - c) : S(c + m).usage # None /\ S(c + m).from # 1}
<1>6. 0 \in T
  <2>0. c \in 1..Len(s)
    BY <1>2
  <2>1. S(c).from = c + 1 /\ c + 1 # 1 /\ c + 0 = c /\ 0 \in 0..(Len(s) - c)
    <3>1. S(c).from = c + 1
      BY <1>1, <1>3, <2>0
    <3>2. c + 1 # 1 /\ c + 0 = c /\ 0 \in 0..(Len(s) - c)
      BY <1>0, <2>0
    <3> QED
      BY <3>1, <3>2
  <2> QED
    BY <1>3, <1>5, <2>1
<1>7. ASSUME NEW m \in 0..((Len(s) - c) - 1), m \in T PROVE m + 1 \in T
  <2>1. PICK k \in 1..Len(s) : k = c + (m + 1) /\ k - 1 = c + m
    <3>1. c + (m + 1) \in 1..Len(s) /\ (c + (m + 1)) - 1 = c + m
      BY <1>0, <1>2
    <3> QED
      BY <3>1
  <2>2. S(k - 1).usage # None /\ S(k - 1).from # 1
    BY <1>7, <2>1
  <2>3. S(k).usage # None /\ S(k).from # 1
    <3>1. k + 1 # 1
      OBVIOUS
    <3> QED
      BY <1>1, <2>2, <3>1
  <2>4. m + 1 \in 0..(Len(s) - c)
    BY <1>0, <1>2
  <2> QED
    BY <2>1, <2>3, <2>4
<1>8. \A m \in 0..(Len(s) - c) : m \in T
  <2>1. Len(s) - c \in Nat
    BY <1>0, <1>2
  <2> HIDE DEF T
  <2> QED
    BY <1>6, <1>7, <2>1, Climb, Zenon
<1>9. Len(s) - c \in 0..(Len(s) - c) /\ c + (Len(s) - c) = Len(s)
  <2>1. c \in 1..Len(s)
    BY <1>2
  <2> HIDE DEF T
  <2> QED
    BY <1>0, <2>1
<1>10. S(Len(s)).usage # None
  BY <1>8, <1>9
<1> QED
  BY <1>10 DEF S

\* While the ring has dropped nothing, nothing is lost or invented: a response that
\* fits is billed for what it reports, an ordinary body always.
LEMMA WholeKept == CaptureInv /\ ~tailTruncated => BilledIsReported /\ KeptIsBilled
<1>1. ASSUME CaptureInv, ~tailTruncated PROVE BilledIsReported /\ KeptIsBilled
  <2>1. text \in Seq(Symbols) /\ Len(text) \in Nat /\ SubSeq(text, 1, Len(text)) = text
    <3>1. text \in Seq(Symbols)
      BY <1>1 DEF CaptureInv, TypeOK
    <3> QED
      BY <3>1, SubSeqFull
  <2>2. CASE ~eof
    BY <2>2 DEF Captured, BilledIsReported, KeptIsBilled
  <2>3. CASE eof /\ stream
    <3>1. /\ read = Len(text) /\ ~overflow /\ TailKept
          /\ ~(read > TailSize)
      BY <1>1, <2>3, RingReadsBack DEF CaptureInv, RingHolds, TailKept
    <3>2. KeptTail = text
      BY <2>1, <2>3, <3>1 DEF TailKept
    <3>3. tailTruncated = FALSE
      BY <1>1 DEF CaptureInv, TypeOK
    <3>4. Captured = Reported
      BY <2>3, <3>1, <3>2, <3>3, Zenon DEF Captured, Reported
    <3> QED
      BY <3>4 DEF BilledIsReported, KeptIsBilled
  <2>4. CASE eof /\ ~stream
    <3>1. /\ read = Len(text) /\ (overflow <=> read > MaxJSON)
          /\ body = IF overflow THEN <<>> ELSE SubSeq(text, 1, read)
      BY <1>1, <2>4 DEF CaptureInv, BodyHolds
    <3>2. overflow => Captured = None /\ Len(text) > MaxJSON
      BY <3>1 DEF Captured
    <3>3. ~overflow => body = text
      BY <2>1, <3>1
    <3>4. ~overflow => Captured = Reported
      BY <2>4, <3>3, Zenon DEF Captured, Reported
    <3> QED
      BY <2>4, <3>2, <3>4 DEF BilledIsReported, KeptIsBilled
  <2> QED
    BY <2>2, <2>3, <2>4
<1> QED
  BY <1>1

\* A stream whose front is gone is billed for what it reports as well, and always
\* when a whole line of usage is left of it.
LEMMA CutKept == CaptureInv /\ tailTruncated => BilledIsReported /\ KeptIsBilled
<1> SUFFICES ASSUME CaptureInv, tailTruncated PROVE BilledIsReported /\ KeptIsBilled
  OBVIOUS
<1>1. CASE ~eof
  BY <1>1 DEF Captured, BilledIsReported, KeptIsBilled
<1>2. CASE eof
  <2>1. /\ stream /\ ~overflow /\ text \in Seq(Symbols) /\ Len(text) \in Nat
        /\ read = Len(text) /\ read > TailSize /\ TailSize \in Nat \ {0}
        /\ tailTruncated = TRUE
    BY <1>2, CaptureAssumption DEF CaptureInv, TypeOK, RingHolds, BodyHolds
  <2>2. PICK o \in 1..Len(text) : o = Len(text) - TailSize
    <3>1. Len(text) - TailSize \in 1..Len(text)
      BY <2>1
    <3> QED
      BY <3>1
  <2>3. PICK s : s = KeptTail /\ s = SubSeq(text, o + 1, Len(text))
    BY <2>1, <2>2, RingReadsBack
  <2>4. /\ Len(s) \in Nat /\ Len(text) = o + Len(s)
        /\ \A i \in 1..Len(s) : s[i] = text[o + i]
    <3>1. /\ s \in Seq(Symbols) /\ Len(s) = Len(text) - o
          /\ \A i \in 1..Len(s) : s[i] = text[o + i]
      BY <2>1, <2>3, TailLines
    <3> QED
      BY <2>1, <2>2, <3>1
  <2>5. PICK g, f : /\ g = Scanned(s, TRUE)[Len(s)] /\ f = Scanned(text, FALSE)[Len(text)]
                    /\ Follows(g, f, o)
    <3>1. Len(s) \in 0..Len(s)
      BY <2>4
    <3>2. Follows(Scanned(s, TRUE)[Len(s)], Scanned(text, FALSE)[o + Len(s)], o)
      BY <2>1, <2>3, <3>1, TailFollows
    <3> QED
      BY <2>4, <3>2
  <2>6. Terminated(s) <=> Len(s) > 1 /\ Terminated(text)
    <3>1. ASSUME Len(s) > 1
          PROVE  s[Len(s)] = text[Len(text)] /\ s[Len(s) - 1] = text[Len(text) - 1]
      <4>1. /\ Len(s) \in 1..Len(s) /\ Len(s) - 1 \in 1..Len(s)
            /\ o + (Len(s) - 1) = Len(text) - 1
        BY <2>4, <3>1
      <4> QED
        BY <2>4, <4>1
    <3>2. Len(s) > 1 => Len(text) > 1
      BY <2>4
    <3> QED
      BY <3>1, <3>2 DEF Terminated
  <2>7. /\ Captured = IF Terminated(s) /\ g.done THEN g.usage ELSE None
        /\ Reported = IF Terminated(text) /\ f.done THEN f.usage ELSE None
    BY <1>2, <2>1, <2>3, <2>5 DEF Captured, Reported, StreamUsage
  <2>8. BilledIsReported
    BY <2>5, <2>6, <2>7 DEF BilledIsReported, Follows, Agree
  <2>9. ASSUME NEW i \in 1..Len(text), UsageAt(i), ~(i - 1 <= Len(text) - TailSize)
        PROVE  g.usage # None /\ Len(s) > 1
    <3>1. PICK j \in 1..Len(s) :
             /\ j + 3 <= Len(s) /\ o + j = i - 1 /\ o + (j + 1) = i
             /\ o + (j + 2) = i + 1 /\ o + (j + 3) = i + 2
             /\ {j + 1, j + 2, j + 3} \subseteq 1..Len(s) /\ i # 1 /\ Len(s) > 1
      <4>1. i + 2 <= Len(text)
        BY <2>9 DEF UsageAt
      <4>2. /\ i - 1 - o \in 1..Len(s) /\ (i - 1 - o) + 3 <= Len(s)
            /\ o + (i - 1 - o) = i - 1 /\ o + ((i - 1 - o) + 1) = i
            /\ o + ((i - 1 - o) + 2) = i + 1 /\ o + ((i - 1 - o) + 3) = i + 2
            /\ {(i - 1 - o) + 1, (i - 1 - o) + 2, (i - 1 - o) + 3} \subseteq 1..Len(s)
            /\ i # 1 /\ Len(s) > 1
        BY <2>1, <2>2, <2>4, <2>9, <4>1
      <4> QED
        BY <4>2
    <3>2. /\ text[i] = "d" /\ text[i + 1] \in Usages /\ text[i + 2] = "n"
          /\ text[i - 1] = "n"
      BY <2>9, <3>1 DEF UsageAt
    <3>3. s[j] = "n" /\ s[j + 1] = "d" /\ s[j + 2] \in Usages /\ s[j + 3] = "n"
      BY <2>4, <3>1, <3>2
    <3> QED
      BY <2>1, <2>3, <2>5, <3>1, <3>3, TailKnows
  <2>10. KeptIsBilled
    <3> SUFFICES ASSUME Reported # None,
                        NEW i \in 1..Len(text), UsageAt(i), ~(i - 1 <= Len(text) - TailSize)
                 PROVE  Captured = Reported
      BY <2>1 DEF KeptIsBilled
    <3>1. g.usage # None /\ Len(s) > 1
      BY <2>9
    <3> QED
      BY <2>5, <2>6, <2>7, <3>1 DEF Follows, Agree
  <2> QED
    BY <2>8, <2>10
<1> QED
  BY <1>1, <1>2

\* However a response is cut into reads and however often the ring wraps, no request
\* is billed for other tokens than the whole response reports.
THEOREM BillingCorrect == Spec => []BilledIsReported
<1>1. CaptureInv => BilledIsReported
  BY WholeKept, CutKept
<1> QED
  BY <1>1, Inductive, PTL

\* Reported usage is lost only when the limits lose it: a body over MaxJSON, or a
\* stream with no whole line of usage in the ring.
THEOREM MeteringComplete == Spec => []KeptIsBilled
<1>1. CaptureInv => KeptIsBilled
  BY WholeKept, CutKept
<1> QED
  BY <1>1, Inductive, PTL
=============================================================================
