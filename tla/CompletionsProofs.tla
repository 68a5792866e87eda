------------------------- MODULE CompletionsProofs --------------------------
(***************************************************************************)
(* Proofs about Completions for every number of requests, slots, buckets   *)
(* and process ends.                                                       *)
(***************************************************************************)
EXTENDS Completions, UsageFiguresProofs

-----------------------------------------------------------------------------
(* The inductive invariant.                                                *)

\* The gateway knows that the row of the request is there.
Recorded == {"routing", "waiting", "streaming", "finishing", "settling"}

\* The insert has been applied iff the book has the entry; what is past
\* BeginUsage, and what was sent, has one.
Entered ==
    \A r \in Requests :
        /\ insert[r] = "applied" <=> open[r].status # "new"
        /\ pc[r] \in {"new", "reading"} => insert[r] = "none"
        /\ pc[r] \in Recorded => insert[r] = "applied"
        /\ r \in sent => insert[r] = "applied"
        /\ open[r].status = "open" => open[r].bucket \in Buckets

\* What the response left behind, by the place of its handler.
RespondedAt(r) ==
    /\ pc[r] \in {"new", "reading", "recording", "routing", "waiting"} =>
          cause[r] = Null /\ capture[r].status = 0
    /\ pc[r] = "streaming" => cause[r] = Null /\ capture[r].status # 0
    /\ pc[r] \in {"new", "reading", "recording", "routing", "waiting", "streaming"} =>
          capture[r].usage = Null /\ ~capture[r].eof
          /\ r \notin delivered \cup writeFailed
    /\ pc[r] \in {"finishing", "settling", "leaving", "done"} =>
          r \in canceled \/ written[r] # 0
    /\ IF capture[r].status = 0 THEN written[r] \in {0, 502}
                                ELSE written[r] = capture[r].status
    /\ capture[r].usage # Null => capture[r].eof /\ capture[r].status = 200
    /\ capture[r].eof => r \in delivered \cup writeFailed
    /\ r \in delivered => r \notin writeFailed /\ cause[r] = Null

Responded == \A r \in Requests : RespondedAt(r)

\* What the accounting decided, and that it did so once.
AccountedAt(r) ==
    /\ pc[r] \in {"new", "reading", "recording", "routing", "waiting",
                  "streaming", "finishing"} => outcome[r] = Null
    /\ pc[r] = "settling" => outcome[r] # Null
    /\ outcome[r] = Null => update[r] = "none" /\ r \notin metered
    /\ outcome[r] = Null /\ pc[r] \in {"leaving", "done"} =>
          capture[r].usage = Null /\ written[r] = 502
    /\ outcome[r] = "complete" =>
          r \in delivered /\ capture[r].status = 200 /\ capture[r].usage # Null
    /\ r \notin canceled \cup writeFailed /\ pc[r] \in {"settling", "leaving", "done"} =>
          /\ cause[r] = Null /\ capture[r].usage # Null => outcome[r] = "complete"
          /\ capture[r].status \in {302, 502} => outcome[r] = "failed"
    /\ outcome[r] = "failed" => capture[r].status \in {302, 502}
    /\ r \in metered => update[r] = "applied"
    /\ update[r] = "applied" => open[r].status = "settled"
    /\ pc[r] = "done" => observed[r] = Label(r)

Accounted == \A r \in Requests : AccountedAt(r)

\* Requests whose update was applied, by outcome, and those whose row expired.
Settled(o) == {r \in Requests : update[r] = "applied" /\ outcome[r] = o}

Expired == {r \in Requests : open[r].status = "settled" /\ update[r] # "applied"}

CountFigure(o) == CASE o = "complete"   -> "complete_count"
                    [] o = "incomplete" -> "incomplete_count"
                    [] o = "failed"     -> "failed_count"

Counted(o) == IF o = "incomplete" THEN Settled(o) \cup Expired ELSE Settled(o)

\* The book counts every settled request once, under its outcome.
BalancedFor(o) ==
    /\ CountOf(CountFigure(o)) = Cardinality(Counted(o))
    /\ \A b \in Buckets : totals[b][CountFigure(o)] <= MaxFigure

Balanced == \A o \in Outcomes : BalancedFor(o)

CompletionsInv == TypeOK /\ SlotsHeld /\ Entered /\ Responded /\ Accounted /\ Balanced

-----------------------------------------------------------------------------
(* Type correctness.  A handler that gives its slot back has one, which is *)
(* why the type invariant needs SlotsHeld.                                 *)

\* A handler between its slot and its end finds at least one slot taken.
LEMMA SlotTaken ==
    ASSUME TypeOK, SlotsHeld, NEW r \in Requests, pc[r] \in Serving
    PROVE  slots \in 1..MaxInflight
<1> DEFINE S == {q \in Requests : pc[q] \in Serving}
<1>1. IsFiniteSet(S)
  BY FiguresAssumption, FS_Subset
<1>2. Cardinality(S) # 0
  BY <1>1, FS_EmptySet
<1> QED
  BY <1>2, CompletionsAssumption DEF TypeOK, SlotsHeld

\* What a capture reports is an outcome of the table, whatever the call did.
LEMMA ResultType ==
    ASSUME NEW c, NEW i
    PROVE  Result(c, i) \in Outcomes
BY DEF Result, Outcomes

\* What settling a request adds to the columns of its bucket.
LEMMA ContributionCounts ==
    ASSUME NEW o, NEW u \in Usages \cup {Null}, NEW c \in Nat \cup {Null}
    PROVE  Book!Contribution(o, u, c) \in Book!Totals
<1>1. CASE u = Null
  BY <1>1, FiguresAssumption DEF Book!Contribution, Book!Figures, Book!Totals
<1>2. CASE u # Null
  <2>1. u.prompt \in Nat /\ u.completion \in Nat
    BY <1>2, FiguresAssumption DEF Usage
  <2> QED
    BY <1>2, <2>1, FiguresAssumption DEF Book!Contribution, Book!Figures, Book!Totals
<1> QED
  BY <1>1, <1>2

\* The same with the cost that the book computes.
LEMMA BookContribution ==
    ASSUME NEW o \in Outcomes, NEW u \in Usages \cup {Null}, NEW p \in Prices \cup {Null}
    PROVE  LET c == IF u = Null THEN Null ELSE Book!EstimatedCost(p, u)
           IN  Book!Contribution(o, u, c) \in Book!Totals
<1> DEFINE c == IF u = Null THEN Null ELSE Book!EstimatedCost(p, u)
<1>1. u # Null => u.prompt \in Nat /\ u.completion \in Nat
  BY FiguresAssumption DEF Usage
<1>2. c \in Nat \cup {Null}
  <2>1. CASE u = Null \/ p = Null
    BY <2>1 DEF Book!EstimatedCost
  <2>2. CASE u # Null /\ p # Null
    <3> DEFINE x == u.prompt * InputRate[p]  y == u.completion * OutputRate[p]
    <3>1. InputRate[p] \in Nat /\ OutputRate[p] \in Nat
      BY <2>2, FiguresAssumption
    <3>2. x \in Nat /\ y \in Nat
      BY <1>1, <2>2, <3>1
    <3>3. c = (2 * (x + y) + Million) \div (2 * Million)
      BY <2>2 DEF Book!EstimatedCost
    <3>4. 2 * (x + y) + Million \in Nat /\ 2 * Million \in Nat \ {0}
      BY <3>2, FiguresAssumption
    <3>5. \A n \in Nat, d \in Nat \ {0} : n \div d \in Nat
      OBVIOUS
    <3> QED
      BY <3>3, <3>4, <3>5
  <2> QED
    BY <2>1, <2>2
<1> HIDE DEF c
<1> QED
  BY <1>2, ContributionCounts DEF c

\* UsageBook brings its own copy of the standard module.
LEMMA BookCardinality == \A S : Book!Cardinality(S) = Cardinality(S)
  BY DEF Book!Cardinality, Cardinality, Book!IsFiniteSet, IsFiniteSet

\* Entries and totals of the book, after requests were entered or settled.
LEMMA BookType ==
    ASSUME Book!TypeOK, NEW r \in Requests
    PROVE  /\ \A b \in Buckets : Book!Begin(r, b) => Book!TypeOK'
           /\ \A o \in Outcomes, u \in Usages \cup {Null} :
                 Book!Settle(r, o, u) => Book!TypeOK'
           /\ Book!Lapse({r}) => Book!TypeOK'
<1> USE DEF Book!TypeOK
<1>1. ASSUME NEW b \in Buckets, Book!Begin(r, b) PROVE Book!TypeOK'
  BY <1>1, FiguresAssumption DEF Book!Begin, Book!Entry
<1>2. Book!Entering("settled") \in Book!Entry
  BY DEF Book!Entering, Book!Entry
<1>3. ASSUME NEW o \in Outcomes, NEW u \in Usages \cup {Null}, Book!Settle(r, o, u)
      PROVE  Book!TypeOK'
  <2> DEFINE c == IF u = Null THEN Null ELSE Book!EstimatedCost(open[r].price, u)
             k == Book!Contribution(o, u, c)
  <2>1. open[r] \in Book!Entry /\ open[r].price \in Prices \cup {Null}
    BY DEF Book!Entry
  <2>2. k \in Book!Totals
    BY <2>1, BookContribution
  <2> HIDE DEF k
  <2>3. \A t \in Book!Totals : Book!Plus(t, k) \in Book!Totals
    BY <2>2 DEF Book!Plus, Book!Totals
  <2>4. totals' = [totals EXCEPT ![open[r].bucket] = Book!Plus(@, k)]
    BY <1>3, Zenon DEF Book!Settle, k, c
  <2>5. totals' \in [Buckets -> Book!Totals]
    BY <2>3, <2>4
  <2>6. open' = [open EXCEPT ![r] = Book!Entering("settled")] /\ latest' = latest
    BY <1>3 DEF Book!Settle
  <2> QED
    BY <1>2, <2>5, <2>6
<1>4. ASSUME Book!Lapse({r}) PROVE Book!TypeOK'
  <2> DEFINE S(b) == {q \in {r} : open[q].bucket = b}
  <2>1. ASSUME NEW b \in Buckets PROVE Book!Cardinality(S(b)) \in Nat
    <3>1. IsFiniteSet(S(b))
      <4>1. IsFiniteSet({r})
        BY FS_Singleton
      <4> QED
        BY <4>1, FS_Subset
    <3> QED
      BY <3>1, FS_CardinalityType, BookCardinality
  <2>2. totals' = [b \in Buckets |-> [f \in Book!Figures |->
                     IF f \in {"request_count", "incomplete_count"}
                     THEN totals[b][f] + Book!Cardinality(S(b)) ELSE totals[b][f]]]
    BY <1>4 DEF Book!Lapse
  <2> HIDE DEF S
  <2>3. totals' \in [Buckets -> Book!Totals]
    BY <2>1, <2>2 DEF Book!Totals
  <2>4. open' = [q \in Requests |-> IF q \in {r} THEN Book!Entering("settled") ELSE open[q]]
        /\ latest' = latest
    BY <1>4 DEF Book!Lapse
  <2> QED
    BY <1>2, <2>3, <2>4
<1> QED
  BY <1>1, <1>3, <1>4

\* What the proxy does to a capture.
LEMMA CaptureType ==
    ASSUME NEW c \in Capture
    PROVE  /\ \A status \in {0} \cup Statuses : WithStatus(c, status) \in Capture
           /\ \A u \in Usages \cup {Null} : BodyEnded(c, u) \in Capture
<1>1. ASSUME NEW status \in {0} \cup Statuses PROVE WithStatus(c, status) \in Capture
  BY DEF WithStatus, Capture
<1>2. ASSUME NEW u \in Usages \cup {Null} PROVE BodyEnded(c, u) \in Capture
  <2> DEFINE Codes == {0} \cup Statuses
  <2> DEFINE Read     == Usages \cup {Null}
  <2>1. Capture = [status : Codes, eof : BOOLEAN, usage : Read] /\ u \in Read
    BY DEF Capture
  <2> HIDE DEF Codes, Read
  <2>2. [c EXCEPT !.eof = TRUE, !.usage = u] \in Capture
    BY <2>1
  <2> QED
    BY <2>2 DEF BodyEnded
<1> QED
  BY <1>1, <1>2

\* Every step of a handler, of the database and of the gateway keeps the types.
LEMMA TypeStep == TypeOK /\ SlotsHeld /\ Responded /\ Accounted /\ [Next]_vars => TypeOK'
<1> SUFFICES ASSUME TypeOK, SlotsHeld, Responded, Accounted, [Next]_vars PROVE TypeOK'
  OBVIOUS
<1> USE DEF TypeOK, Goto, WriteHeader, Because, AnswerError, Serving,
            calls, response, reports, handler, book
<1>0. /\ UNCHANGED book => Book!TypeOK'
      /\ 502 \in {0} \cup Statuses
      /\ "upstream_unavailable" \in Causes /\ "stream_aborted" \in Causes
  BY DEF Book!TypeOK, Statuses, Causes
<1>1. ASSUME NEW r \in Requests, Unauthorized(r) \/ TooManyRequests(r) \/ NoHealthyBackend(r)
      PROVE  TypeOK'
  BY <1>0, <1>1 DEF Unauthorized, TooManyRequests, NoHealthyBackend
<1>2. ASSUME NEW r \in Requests, Admit(r) PROVE TypeOK'
  BY <1>0, <1>2, CompletionsAssumption DEF Admit
<1>3. ASSUME NEW r \in Requests, BadRequest(r) \/ BeginFails(r) PROVE TypeOK'
  BY <1>0, <1>3, SlotTaken, CompletionsAssumption DEF BadRequest, BeginFails, Leave
<1>4. ASSUME NEW r \in Requests, SendInsert(r) \/ BeginSucceeds(r) \/ Dispatch(r)
      PROVE  TypeOK'
  BY <1>0, <1>4 DEF SendInsert, BeginSucceeds, Dispatch
<1>5. ASSUME NEW r \in Requests, NEW status \in Statuses, ResponseHeader(r, status)
      PROVE  TypeOK'
  BY <1>0, CaptureType, <1>5 DEF ResponseHeader
<1>6. ASSUME NEW r \in Requests, RoundTripFails(r) \/ StreamAborts(r) PROVE TypeOK'
  <2>1. CASE RoundTripFails(r)
    BY <1>0, CaptureType, <2>1 DEF RoundTripFails
  <2>2. CASE StreamAborts(r)
    BY <1>0, <2>2 DEF StreamAborts
  <2> QED
    BY <1>6, <2>1, <2>2
<1>7. ASSUME NEW r \in Requests, NEW u \in Usages \cup {Null},
             \/ ResponseEnds(r, u)
             \/ \E eof \in BOOLEAN : WriteFails(r, eof, u)
      PROVE  TypeOK'
  BY <1>0, CaptureType, <1>7 DEF ResponseEnds, WriteFails
<1>8. ASSUME NEW r \in Requests, SendUpdate(r) PROVE TypeOK'
  BY <1>0, <1>8, ResultType DEF SendUpdate
<1>9. ASSUME NEW r \in Requests, FinishSucceeds(r) \/ FinishFails(r) PROVE TypeOK'
  BY <1>0, <1>9, SlotTaken, CompletionsAssumption DEF FinishSucceeds, FinishFails, Leave
<1>10. ASSUME NEW r \in Requests, Observe(r) PROVE TypeOK'
  <2>1. Label(r) \in Labels
    BY <1>10 DEF Observe, Label, Labels, Causes
  <2> QED
    BY <1>0, <1>10, <2>1, CompletionsAssumption DEF Observe
<1>11. ASSUME NEW r \in Requests, ClientLeaves(r) PROVE TypeOK'
  BY <1>0, <1>11 DEF ClientLeaves
<1>12. ASSUME NEW r \in Requests, NEW b \in Buckets, ApplyInsert(r, b) PROVE TypeOK'
  BY <1>12, BookType DEF ApplyInsert
<1>13. ASSUME NEW r \in Requests, ApplyUpdate(r) PROVE TypeOK'
  <2>1. outcome[r] \in Outcomes
    BY <1>13 DEF ApplyUpdate, Accounted, AccountedAt
  <2>2. capture[r].usage \in Usages \cup {Null}
    BY DEF Capture
  <2> QED
    BY <1>13, <2>1, <2>2, BookType DEF ApplyUpdate
<1>14. ASSUME NEW r \in Requests, RefuseUpdate(r) PROVE TypeOK'
  BY <1>0, <1>14 DEF RefuseUpdate
<1>15. ASSUME NEW r \in Requests, Expire(r) PROVE TypeOK'
  BY <1>15, BookType DEF Expire
<1>16. CASE Crash
  BY <1>0, <1>16, CompletionsAssumption DEF Crash
<1>17. CASE UNCHANGED vars
  BY <1>0, <1>17 DEF vars
<1> HIDE DEF TypeOK, Goto, WriteHeader, Because, AnswerError, Serving, calls, response,
             reports, handler, book
<1> QED
  BY <1>1, <1>2, <1>3, <1>4, <1>5, <1>6, <1>7, <1>8, <1>9, <1>10, <1>11, <1>12,
     <1>13, <1>14, <1>15, <1>16, <1>17 DEF Next, Handle, Database

-----------------------------------------------------------------------------
(* The slots.                                                              *)

\* A slot is taken and given back together with the stage that needs it.
LEMMA SlotsStep == TypeOK /\ SlotsHeld /\ [Next]_vars => SlotsHeld'
<1> SUFFICES ASSUME TypeOK, SlotsHeld, [Next]_vars PROVE SlotsHeld'
  OBVIOUS
<1> DEFINE H == {q \in Requests : pc[q] \in Serving}
<1>1. IsFiniteSet(H) /\ Cardinality(H) \in Nat /\ slots = Cardinality(H)
  BY FiguresAssumption, FS_Subset, FS_CardinalityType DEF SlotsHeld
<1>2. ASSUME NEW r \in Requests, pc[r] \in Serving, Leave(r) PROVE SlotsHeld'
  <2>1. H' = H \ {r} /\ slots' = slots - 1
    BY <1>2 DEF Leave, Goto, Serving, TypeOK
  <2>2. Cardinality(H \ {r}) = Cardinality(H) - 1
    BY <1>1, <1>2, FS_RemoveElement
  <2> QED
    BY <1>1, <2>1, <2>2 DEF SlotsHeld
<1>3. ASSUME NEW r \in Requests, Admit(r) PROVE SlotsHeld'
  <2>1. H' = H \cup {r} /\ r \notin H /\ slots' = slots + 1
    BY <1>3 DEF Admit, Goto, Serving, TypeOK
  <2>2. Cardinality(H \cup {r}) = Cardinality(H) + 1
    BY <1>1, <2>1, FS_AddElement
  <2> QED
    BY <1>1, <2>1, <2>2 DEF SlotsHeld
<1>4. ASSUME H' = H, slots' = slots PROVE SlotsHeld'
  BY <1>1, <1>4 DEF SlotsHeld
<1>5. ASSUME NEW r \in Requests, NEW label,
             Goto(r, label), slots' = slots, pc[r] \in Serving <=> label \in Serving
      PROVE  SlotsHeld'
  <2>1. H' = H
    BY <1>5 DEF Goto, TypeOK
  <2> QED
    BY <1>4, <1>5, <2>1
<1>6. ASSUME NEW r \in Requests, BadRequest(r) \/ BeginFails(r) \/ FinishSucceeds(r) \/ FinishFails(r)
      PROVE  SlotsHeld'
  BY <1>2, <1>6 DEF BadRequest, BeginFails, FinishSucceeds, FinishFails, Serving
<1>7. ASSUME NEW r \in Requests,
             Unauthorized(r) \/ TooManyRequests(r) \/ Observe(r)
      PROVE  SlotsHeld'
  <2>1. /\ slots' = slots
        /\ \/ pc[r] = "new" /\ Goto(r, "leaving")
           \/ pc[r] = "leaving" /\ Goto(r, "done")
    BY <1>7 DEF Unauthorized, TooManyRequests, Observe
  <2> QED
    BY <1>5, <2>1 DEF Serving
<1>8. ASSUME NEW r \in Requests,
             \/ SendInsert(r) \/ BeginSucceeds(r) \/ NoHealthyBackend(r) \/ Dispatch(r)
             \/ \E status \in Statuses : ResponseHeader(r, status)
             \/ RoundTripFails(r) \/ StreamAborts(r) \/ SendUpdate(r)
             \/ \E u \in Usages \cup {Null} : ResponseEnds(r, u)
             \/ \E eof \in BOOLEAN, u \in Usages \cup {Null} : WriteFails(r, eof, u)
      PROVE  SlotsHeld'
  <2>1. /\ slots' = slots /\ pc[r] \in Serving
        /\ \E label \in Serving : Goto(r, label)
    BY <1>8 DEF SendInsert, BeginSucceeds, NoHealthyBackend, Dispatch, ResponseHeader,
       RoundTripFails, StreamAborts, SendUpdate, ResponseEnds, WriteFails, Serving
  <2> QED
    BY <1>5, <2>1
<1>9. ASSUME NEW r \in Requests, ClientLeaves(r) \/ Database(r) PROVE SlotsHeld'
  <2>1. pc' = pc /\ slots' = slots
    BY <1>9 DEF ClientLeaves, Database, ApplyInsert, ApplyUpdate, RefuseUpdate, Expire, handler
  <2> QED
    BY <1>4, <2>1
<1>10. CASE Crash
  <2>1. H' = {} /\ slots' = 0
    BY <1>10 DEF Crash, Serving
  <2> QED
    BY <2>1, FS_EmptySet DEF SlotsHeld
<1>11. CASE UNCHANGED vars
  BY <1>4, <1>11 DEF vars, handler
<1> QED
  BY <1>3, <1>6, <1>7, <1>8, <1>9, <1>10, <1>11 DEF Next, Handle

-----------------------------------------------------------------------------
(* Entries of the book.                                                    *)

\* The book knows of a request as soon as its row was written, and not before.
LEMMA EnteredStep == TypeOK /\ Entered /\ [Next]_vars => Entered'
<1> SUFFICES ASSUME TypeOK, Entered, [Next]_vars PROVE Entered'
  OBVIOUS
<1> USE DEF TypeOK, Entered, Recorded, Goto, Leave, calls, response, reports, handler, book,
            Book!TypeOK
<1>1. ASSUME NEW r \in Requests,
             \/ Unauthorized(r) \/ Admit(r) \/ TooManyRequests(r) \/ BadRequest(r) \/ BeginFails(r)
             \/ FinishSucceeds(r) \/ FinishFails(r) \/ Observe(r)
      PROVE  Entered'
  BY <1>1 DEF Unauthorized, Admit, TooManyRequests, BadRequest, BeginFails,
     FinishSucceeds, FinishFails, Observe
<1>2. ASSUME NEW r \in Requests, SendInsert(r) PROVE Entered'
  BY <1>2 DEF SendInsert
<1>3. ASSUME NEW r \in Requests, BeginSucceeds(r) PROVE Entered'
  BY <1>3 DEF BeginSucceeds
<1>4. ASSUME NEW r \in Requests, Dispatch(r) PROVE Entered'
  BY <1>4 DEF Dispatch
<1>5. ASSUME NEW r \in Requests,
             \/ NoHealthyBackend(r) \/ RoundTripFails(r) \/ StreamAborts(r) \/ SendUpdate(r)
             \/ \E status \in Statuses : ResponseHeader(r, status)
             \/ \E u \in Usages \cup {Null} : ResponseEnds(r, u)
             \/ \E eof \in BOOLEAN, u \in Usages \cup {Null} : WriteFails(r, eof, u)
      PROVE  Entered'
  BY <1>5 DEF NoHealthyBackend, RoundTripFails, StreamAborts, SendUpdate, ResponseHeader,
     ResponseEnds, WriteFails
<1>6. ASSUME NEW r \in Requests, NEW b \in Buckets, ApplyInsert(r, b) PROVE Entered'
  BY <1>6 DEF ApplyInsert, Book!Begin, Book!Entry
<1>7. ASSUME NEW r \in Requests, ApplyUpdate(r) PROVE Entered'
  BY <1>7 DEF ApplyUpdate, Book!Settle, Book!Entering, Book!Entry
<1>8. ASSUME NEW r \in Requests, RefuseUpdate(r) \/ ClientLeaves(r) PROVE Entered'
  BY <1>8 DEF RefuseUpdate, ClientLeaves
<1>9. ASSUME NEW r \in Requests, Expire(r) PROVE Entered'
  BY <1>9 DEF Expire, Book!Lapse, Book!Entering, Book!Entry
<1>10. CASE Crash
  BY <1>10 DEF Crash, Serving
<1>11. CASE UNCHANGED vars
  BY <1>11 DEF vars
<1> HIDE DEF TypeOK, Entered, Recorded, Goto, Leave, calls, response, reports, handler,
             book, Book!TypeOK
<1> QED
  BY <1>1, <1>2, <1>3, <1>4, <1>5, <1>6, <1>7, <1>8, <1>9, <1>10, <1>11
  DEF Next, Handle, Database

-----------------------------------------------------------------------------
(* Responses.                                                              *)

\* The fields of a capture after what the proxy does to it.
LEMMA CaptureFields ==
    ASSUME NEW c \in Capture
    PROVE  /\ \A status \in {0} \cup Statuses :
                 /\ WithStatus(c, status).status = status
                 /\ WithStatus(c, status).eof = c.eof
                 /\ WithStatus(c, status).usage = c.usage
           /\ \A u \in Usages \cup {Null} :
                 /\ BodyEnded(c, u).status = c.status
                 /\ BodyEnded(c, u).eof = (c.status = 200 \/ c.eof)
                 /\ BodyEnded(c, u).usage = IF c.status = 200 THEN u ELSE c.usage
<1> DEFINE Codes == {0} \cup Statuses
<1> DEFINE Read     == Usages \cup {Null}
<1>1. c \in [status : Codes, eof : BOOLEAN, usage : Read]
  BY DEF Capture
<1> HIDE DEF Codes, Read
<1>2. ASSUME NEW status PROVE /\ WithStatus(c, status).status = status
                              /\ WithStatus(c, status).eof = c.eof
                              /\ WithStatus(c, status).usage = c.usage
  BY <1>1 DEF WithStatus
<1>3. ASSUME NEW u, c.status = 200
      PROVE  /\ BodyEnded(c, u).status = c.status
             /\ BodyEnded(c, u).eof = TRUE
             /\ BodyEnded(c, u).usage = u
  BY <1>1, <1>3 DEF BodyEnded
<1>4. ASSUME NEW u, c.status # 200 PROVE BodyEnded(c, u) = c
  BY <1>4 DEF BodyEnded
<1>5. c.eof \in BOOLEAN
  BY <1>1
<1>6. ASSUME NEW u \in Usages \cup {Null}
      PROVE  /\ BodyEnded(c, u).status = c.status
             /\ BodyEnded(c, u).eof = (c.status = 200 \/ c.eof)
             /\ BodyEnded(c, u).usage = IF c.status = 200 THEN u ELSE c.usage
  <2>1. CASE c.status = 200
    BY <1>3, <2>1
  <2>2. CASE c.status # 200
    BY <1>4, <1>5, <2>2
  <2> QED
    BY <2>1, <2>2
<1> QED
  BY <1>2, <1>6

\* What the response of a request left behind stays in step with its handler.
LEMMA RespondedStep == TypeOK /\ Responded /\ [Next]_vars => Responded'
<1> SUFFICES ASSUME TypeOK, Responded, [Next]_vars PROVE Responded'
  OBVIOUS
<1> USE CompletionsAssumption
    DEF TypeOK, Responded, RespondedAt, Goto, Leave, WriteHeader, Because, AnswerError, Serving,
        calls, response, reports, handler, book
<1>0. 0 \notin Statuses /\ 502 \in {0} \cup Statuses
  BY DEF Statuses
<1>1. ASSUME NEW r \in Requests,
             \/ Unauthorized(r) \/ TooManyRequests(r) \/ BadRequest(r) \/ BeginFails(r)
             \/ NoHealthyBackend(r)
      PROVE  Responded'
  BY <1>1 DEF Unauthorized, TooManyRequests, BadRequest, BeginFails, NoHealthyBackend
<1>2. ASSUME NEW r \in Requests,
             \/ Admit(r) \/ SendInsert(r) \/ BeginSucceeds(r) \/ Dispatch(r)
             \/ SendUpdate(r) \/ FinishSucceeds(r) \/ FinishFails(r) \/ Observe(r)
      PROVE  Responded'
  BY <1>2 DEF Admit, SendInsert, BeginSucceeds, Dispatch, SendUpdate,
     FinishSucceeds, FinishFails, Observe
<1>3. ASSUME NEW r \in Requests, NEW status \in Statuses, ResponseHeader(r, status)
      PROVE  Responded'
  <2>1. status # 0
    BY <1>0
  <2>2. capture'[r].status = status /\ capture'[r].eof = capture[r].eof
        /\ capture'[r].usage = capture[r].usage
    <3>1. capture'[r] = WithStatus(capture[r], status)
      BY <1>3 DEF ResponseHeader
    <3>2. capture[r] \in Capture /\ status \in {0} \cup Statuses
      OBVIOUS
    <3> HIDE DEF TypeOK, Responded, RespondedAt, Goto, Leave, WriteHeader, Because,
                 AnswerError, Serving, calls, response, reports, handler, book
    <3> QED
      BY <3>1, <3>2, CaptureFields
  <2>3. \A q \in Requests \ {r} : capture'[q] = capture[q]
    BY <1>3 DEF ResponseHeader
  <2> QED
    BY <1>3, <2>1, <2>2, <2>3 DEF ResponseHeader
<1>4. ASSUME NEW r \in Requests, RoundTripFails(r) PROVE Responded'
  <2>1. CASE r \in canceled
    BY <1>4, <2>1 DEF RoundTripFails
  <2>2. CASE r \notin canceled
    <3>1. capture'[r].status = 502 /\ capture'[r].eof = capture[r].eof
          /\ capture'[r].usage = capture[r].usage
      BY <1>0, <1>4, <2>2, CaptureFields DEF RoundTripFails
    <3>2. \A q \in Requests \ {r} : capture'[q] = capture[q]
      BY <1>4, <2>2 DEF RoundTripFails
    <3> QED
      BY <1>4, <2>2, <3>1, <3>2 DEF RoundTripFails
  <2> QED
    BY <2>1, <2>2
<1>5. ASSUME NEW r \in Requests, StreamAborts(r) PROVE Responded'
  BY <1>5 DEF StreamAborts
<1>6. ASSUME NEW r \in Requests, NEW u \in Usages \cup {Null}, ResponseEnds(r, u)
      PROVE  Responded'
  <2>1. /\ capture'[r].status = capture[r].status
        /\ capture'[r].eof = (capture[r].status = 200)
        /\ capture'[r].usage = IF capture[r].status = 200 THEN u ELSE Null
    BY <1>6, CaptureFields DEF ResponseEnds
  <2>2. \A q \in Requests \ {r} : capture'[q] = capture[q]
    BY <1>6 DEF ResponseEnds
  <2>3. pc[r] = "streaming" /\ delivered' = delivered \cup {r} /\ pc' = [pc EXCEPT ![r] = "finishing"]
        /\ written' = written /\ cause' = cause /\ writeFailed' = writeFailed /\ canceled' = canceled
    BY <1>6 DEF ResponseEnds
  <2>4. ASSUME NEW q \in Requests, q # r
        PROVE  /\ pc'[q] = pc[q] /\ capture'[q] = capture[q] /\ written'[q] = written[q]
               /\ cause'[q] = cause[q]
               /\ q \in delivered' <=> q \in delivered
    BY <2>2, <2>3, <2>4
  <2>5. /\ pc'[r] = "finishing" /\ r \in delivered' /\ r \notin writeFailed'
        /\ written'[r] = written[r] /\ written[r] = capture[r].status /\ written[r] # 0
        /\ cause'[r] = cause[r] /\ cause[r] = Null
    BY <2>3
  <2>6. RespondedAt(r)'
    <3> HIDE DEF TypeOK, Responded, Goto, Leave, WriteHeader, Because, AnswerError, Serving,
                 calls, response, reports, handler, book
    <3> QED
      BY <2>1, <2>3, <2>5
  <2>7. ASSUME NEW q \in Requests, q # r PROVE RespondedAt(q)'
    BY <2>3, <2>4, <2>7
  <2> QED
    BY <2>6, <2>7
<1>7. ASSUME NEW r \in Requests, NEW eof \in BOOLEAN, NEW u \in Usages \cup {Null},
             WriteFails(r, eof, u)
      PROVE  Responded'
  BY <1>7, CaptureFields DEF WriteFails
<1>8. ASSUME NEW r \in Requests, ClientLeaves(r) \/ Database(r) PROVE Responded'
  BY <1>8 DEF ClientLeaves, Database, ApplyInsert, ApplyUpdate, RefuseUpdate, Expire
<1>9. CASE Crash
  BY <1>9 DEF Crash
<1>10. CASE UNCHANGED vars
  BY <1>10 DEF vars
<1> HIDE DEF TypeOK, Responded, RespondedAt, Goto, Leave, WriteHeader, Because, AnswerError,
             Serving, calls, response, reports, handler, book
<1> QED
  BY <1>1, <1>2, <1>3, <1>4, <1>5, <1>6, <1>7, <1>8, <1>9, <1>10
  DEF Next, Handle

-----------------------------------------------------------------------------
(* The accounting.                                                         *)

\* The outcome that is recorded, by what the response left behind.
LEMMA ResultCases ==
    ASSUME NEW c \in Capture, NEW i \in BOOLEAN
    PROVE  /\ Result(c, i) = "complete" <=> ~i /\ c.status = 200 /\ c.eof /\ c.usage # Null
           /\ Result(c, i) = "failed" <=> ~i /\ c.status \in {302, 502}
           /\ Result(c, i) # Null
<1>1. c.status \in {0, 200, 302, 502}
  BY DEF Capture, Statuses
<1> QED
  BY <1>1, CompletionsAssumption DEF Result, Outcomes

\* An outcome is decided once, and billed and reported as it was decided.
LEMMA AccountedStep == TypeOK /\ Responded /\ Accounted /\ [Next]_vars => Accounted'
<1> SUFFICES ASSUME TypeOK, Responded, Accounted, [Next]_vars PROVE Accounted'
  OBVIOUS
<1> USE CompletionsAssumption
    DEF TypeOK, Responded, RespondedAt, Accounted, AccountedAt, Label, Goto, Leave, WriteHeader, Because,
        AnswerError, Serving, calls, response, reports, handler, book, Book!TypeOK
<1>1. ASSUME NEW r \in Requests,
             \/ Unauthorized(r) \/ TooManyRequests(r) \/ BadRequest(r) \/ BeginFails(r)
             \/ NoHealthyBackend(r)
      PROVE  Accounted'
  BY <1>1 DEF Unauthorized, TooManyRequests, BadRequest, BeginFails, NoHealthyBackend
<1>2. ASSUME NEW r \in Requests,
             \/ Admit(r) \/ SendInsert(r) \/ BeginSucceeds(r) \/ Dispatch(r)
             \/ FinishSucceeds(r) \/ FinishFails(r)
      PROVE  Accounted'
  BY <1>2 DEF Admit, SendInsert, BeginSucceeds, Dispatch, FinishSucceeds, FinishFails
<1>3. ASSUME NEW r \in Requests, NEW status \in Statuses, ResponseHeader(r, status)
      PROVE  Accounted'
  BY <1>3, CaptureFields DEF ResponseHeader
<1>4. ASSUME NEW r \in Requests, RoundTripFails(r) PROVE Accounted'
  BY <1>4, CaptureFields DEF RoundTripFails
<1>5. ASSUME NEW r \in Requests, StreamAborts(r) PROVE Accounted'
  BY <1>5 DEF StreamAborts
<1>6. ASSUME NEW r \in Requests, NEW u \in Usages \cup {Null}, ResponseEnds(r, u)
      PROVE  Accounted'
  BY <1>6, CaptureFields DEF ResponseEnds
<1>7. ASSUME NEW r \in Requests, NEW eof \in BOOLEAN, NEW u \in Usages \cup {Null},
             WriteFails(r, eof, u)
      PROVE  Accounted'
  BY <1>7, CaptureFields DEF WriteFails
<1>8. ASSUME NEW r \in Requests, SendUpdate(r) PROVE Accounted'
  <2> DEFINE i == r \in canceled \cup writeFailed
  <2>0. i \in BOOLEAN
    OBVIOUS
  <2>1. /\ Result(capture[r], i) = "complete"
             <=> ~i /\ capture[r].status = 200 /\ capture[r].eof /\ capture[r].usage # Null
        /\ Result(capture[r], i) = "failed" <=> ~i /\ capture[r].status \in {302, 502}
        /\ Result(capture[r], i) # Null
    <3> HIDE DEF i
    <3> QED
      BY <2>0, ResultCases
  <2>2. outcome'[r] = Result(capture[r], i) /\ pc'[r] = "settling" /\ update'[r] = "sent"
    BY <1>8 DEF SendUpdate
  <2>3. AccountedAt(r)'
    BY <1>8, <2>1, <2>2 DEF SendUpdate
  <2>4. ASSUME NEW q \in Requests, q # r PROVE AccountedAt(q)'
    BY <1>8, <2>4 DEF SendUpdate
  <2> QED
    BY <2>3, <2>4
<1>9. ASSUME NEW r \in Requests, Observe(r) PROVE Accounted'
  BY <1>9 DEF Observe
<1>10. ASSUME NEW r \in Requests, ClientLeaves(r) PROVE Accounted'
  BY <1>10 DEF ClientLeaves
<1>11. ASSUME NEW r \in Requests, NEW b \in Buckets, ApplyInsert(r, b) PROVE Accounted'
  BY <1>11 DEF ApplyInsert, Book!Begin
<1>12. ASSUME NEW r \in Requests, ApplyUpdate(r) PROVE Accounted'
  BY <1>12 DEF ApplyUpdate, Book!Settle, Book!Entering
<1>13. ASSUME NEW r \in Requests, RefuseUpdate(r) PROVE Accounted'
  BY <1>13 DEF RefuseUpdate
<1>14. ASSUME NEW r \in Requests, Expire(r) PROVE Accounted'
  BY <1>14 DEF Expire, Book!Lapse, Book!Entering
<1>15. CASE Crash
  BY <1>15 DEF Crash
<1>16. CASE UNCHANGED vars
  BY <1>16 DEF vars
<1> HIDE DEF TypeOK, Responded, RespondedAt, Accounted, AccountedAt, Label, Goto,
             Leave, WriteHeader, Because, AnswerError, Serving, calls, response, reports,
             handler, book, Book!TypeOK
<1> QED
  BY <1>1, <1>2, <1>3, <1>4, <1>5, <1>6, <1>7, <1>8, <1>9, <1>10, <1>11, <1>12,
     <1>13, <1>14, <1>15, <1>16 DEF Next, Handle, Database

-----------------------------------------------------------------------------
(* The balance of the book.                                                *)

\* The three outcomes are counted in three columns.
LEMMA CountFigures ==
    /\ \A o \in Outcomes : CountFigure(o) \in Figures \ {"request_count"}
    /\ \A o, p \in Outcomes : CountFigure(o) = CountFigure(p) => o = p
BY DEF CountFigure, Outcomes, Figures

\* Requests that are counted are finitely many.
LEMMA CountedFinite ==
    ASSUME NEW o \in Outcomes
    PROVE  Counted(o) \subseteq Requests /\ IsFiniteSet(Counted(o))
<1>1. Counted(o) \subseteq Requests
  BY DEF Counted, Settled, Expired
<1> QED
  BY <1>1, FiguresAssumption, FS_Subset

\* Neither the column nor the counted requests of o change.
LEMMA BalanceKept ==
    ASSUME NEW o \in Outcomes, BalancedFor(o), Counted(o)' = Counted(o),
           \A b \in Buckets : totals'[b][CountFigure(o)] = totals[b][CountFigure(o)]
    PROVE  BalancedFor(o)'
<1> DEFINE f == CountFigure(o)
<1>1. CountOf(f)' = CountOf(f)
  <2> DEFINE n == [b \in Buckets |-> totals[b][f]]
             k == [b \in Buckets |-> totals'[b][f]]
  <2>1. \A b \in Buckets : n[b] = k[b]
    OBVIOUS
  <2> HIDE DEF n, k
  <2>2. Sum(Buckets, n) = Sum(Buckets, k)
    BY <2>1, SumSame
  <2> QED
    BY <2>2 DEF CountOf, n, k
<1> QED
  BY <1>1 DEF BalancedFor

\* One more request is counted under o, in one bucket.
LEMMA BalanceBumped ==
    ASSUME TypeOK, NEW o \in Outcomes, BalancedFor(o),
           NEW r \in Requests, r \notin Counted(o), Counted(o)' = Counted(o) \cup {r},
           NEW s \in Buckets,
           totals'[s][CountFigure(o)] = totals[s][CountFigure(o)] + 1,
           \A b \in Buckets \ {s} : totals'[b][CountFigure(o)] = totals[b][CountFigure(o)]
    PROVE  BalancedFor(o)'
<1> DEFINE f == CountFigure(o)
           n == [b \in Buckets |-> totals[b][f]]
           k == [b \in Buckets |-> totals'[b][f]]
<1>1. Cardinality(Counted(o) \cup {r}) = Cardinality(Counted(o)) + 1
      /\ Cardinality(Counted(o)) \in Nat
  BY CountedFinite, FS_AddElement, FS_CardinalityType
<1>2. Cardinality(Counted(o) \cup {r}) <= Cardinality(Requests)
  <2>1. Counted(o) \cup {r} \subseteq Requests
    BY CountedFinite
  <2> QED
    BY <2>1, FiguresAssumption, FS_Subset
<1>3. Cardinality(Requests) \in Nat /\ MaxFigure \in Nat /\ Cardinality(Requests) <= MaxFigure
  BY FiguresAssumption, CompletionsAssumption, FS_CardinalityType
<1>4. totals[s][f] \in 0..MaxFigure
  BY FiguresAssumption, CountFigures DEF TypeOK, Book!TypeOK, Book!Totals, Book!Figures,
     Figures, BalancedFor
<1>5. n[s] = totals[s][f] /\ k[s] = n[s] + 1 /\ \A b \in Buckets \ {s} : k[b] = n[b]
  OBVIOUS
<1>6. CountOf(f) = Sum(Buckets, n) /\ CountOf(f)' = Sum(Buckets, k)
  BY DEF CountOf
<1>7. Sum(Buckets, n) = Cardinality(Counted(o))
  BY <1>6 DEF BalancedFor
<1>8. \A b \in Buckets : totals[b][f] <= MaxFigure /\ totals'[b][f] = k[b] /\ totals[b][f] = n[b]
  BY DEF BalancedFor
<1> HIDE DEF n, k
<1>9. n[s] <= Sum(Buckets, n)
  BY <1>4, <1>5, SumBound, CompletionsAssumption
<1>10. k[s] <= MaxFigure
  BY <1>1, <1>2, <1>3, <1>4, <1>5, <1>7, <1>9
<1>11. Sum(Buckets, k) = Sum(Buckets, n) + 1
  <2>1. n[s] \in Nat
    BY <1>4, <1>5
  <2> QED
    BY <2>1, <1>5, <1>10, SumBump, CompletionsAssumption
<1>12. CountOf(f)' = Cardinality(Counted(o)')
  BY <1>1, <1>6, <1>7, <1>11
<1>13. \A b \in Buckets : totals'[b][f] <= MaxFigure
  BY <1>5, <1>8, <1>10
<1> QED
  BY <1>12, <1>13 DEF BalancedFor

\* Settling a request counts it in the column of its outcome.
LEMMA BookCounts ==
    ASSUME NEW o \in Outcomes, NEW p \in Outcomes, NEW u, NEW c
    PROVE  Book!Contribution(p, u, c)[CountFigure(o)] = IF p = o THEN 1 ELSE 0
BY DEF Book!Contribution, Book!Figures, CountFigure, Outcomes

\* Settling and lapsing count their request once, every other step none.
LEMMA BalancedStep == TypeOK /\ Entered /\ Accounted /\ Balanced /\ [Next]_vars => Balanced'
<1> SUFFICES ASSUME TypeOK, Entered, Accounted, Balanced, [Next]_vars PROVE Balanced'
  OBVIOUS
<1>1. ASSUME totals' = totals,
             \A q \in Requests :
                 /\ update'[q] = "applied" <=> update[q] = "applied"
                 /\ update[q] = "applied" => outcome'[q] = outcome[q]
                 /\ open'[q].status = "settled" <=> open[q].status = "settled"
      PROVE  Balanced'
  <2>1. ASSUME NEW o \in Outcomes PROVE Counted(o)' = Counted(o)
    BY <1>1 DEF Counted, Settled, Expired
  <2> QED
    BY <1>1, <2>1, BalanceKept DEF Balanced
<1>2. ASSUME NEW r \in Requests,
             \/ Unauthorized(r) \/ Admit(r) \/ TooManyRequests(r) \/ Handle(r)
             \/ ClientLeaves(r) \/ RefuseUpdate(r)
      PROVE  Balanced'
  <2>1. CASE SendUpdate(r)
    BY <1>1, <2>1 DEF SendUpdate, TypeOK, Accounted, AccountedAt, book
  <2>2. CASE RefuseUpdate(r)
    BY <1>1, <2>2 DEF RefuseUpdate, TypeOK, reports, book
  <2>3. CASE /\ \/ Unauthorized(r) \/ Admit(r) \/ TooManyRequests(r) \/ Handle(r)
                \/ ClientLeaves(r)
             /\ ~SendUpdate(r)
    <3>1. CASE SendInsert(r)
      BY <1>1, <3>1 DEF SendInsert, reports, book
    <3>2. CASE FinishSucceeds(r) \/ FinishFails(r) \/ Observe(r)
      BY <1>1, <3>2 DEF FinishSucceeds, FinishFails, Observe, reports, calls, book
    <3>3. CASE ~SendInsert(r) /\ ~(FinishSucceeds(r) \/ FinishFails(r) \/ Observe(r))
      <4>1. UNCHANGED <<book, calls, reports>>
        BY <2>3, <3>3 DEF Handle, Unauthorized, Admit, TooManyRequests, ClientLeaves,
           BadRequest, BeginSucceeds, BeginFails, NoHealthyBackend, Dispatch,
           ResponseHeader, RoundTripFails, ResponseEnds, StreamAborts, WriteFails
      <4> QED
        BY <1>1, <4>1 DEF book, calls, reports
    <3> QED
      BY <3>1, <3>2, <3>3
  <2> QED
    BY <1>2, <2>1, <2>2, <2>3
<1>3. ASSUME NEW r \in Requests, NEW b \in Buckets, ApplyInsert(r, b) PROVE Balanced'
  BY <1>1, <1>3 DEF ApplyInsert, Book!Begin, TypeOK, Book!TypeOK, reports
<1>4. ASSUME NEW r \in Requests, ApplyUpdate(r) PROVE Balanced'
  <2> DEFINE s == open[r].bucket
             p == outcome[r]
             u == IF outcome[r] = "complete" THEN capture[r].usage ELSE Null
             c == IF u = Null THEN Null ELSE Book!EstimatedCost(open[r].price, u)
  <2>1. p \in Outcomes /\ s \in Buckets
    BY <1>4 DEF ApplyUpdate, TypeOK, Accounted, AccountedAt, Entered
  <2>2. update[r] = "sent" /\ open[r].status = "open"
        /\ update' = [update EXCEPT ![r] = "applied"] /\ outcome' = outcome
        /\ open' = [open EXCEPT ![r] = Book!Entering("settled")]
        /\ totals' = [totals EXCEPT ![s] = Book!Plus(@, Book!Contribution(p, u, c))]
    BY <1>4, Zenon DEF ApplyUpdate, Book!Settle, reports
  <2> HIDE DEF u, c
  <2>3. ASSUME NEW o \in Outcomes
        PROVE  /\ totals'[s][CountFigure(o)] = totals[s][CountFigure(o)] + IF p = o THEN 1 ELSE 0
               /\ \A b \in Buckets \ {s} : totals'[b] = totals[b]
    <3>1. totals'[s] = Book!Plus(totals[s], Book!Contribution(p, u, c))
          /\ \A b \in Buckets \ {s} : totals'[b] = totals[b]
      BY <2>1, <2>2 DEF TypeOK, Book!TypeOK
    <3>2. CountFigure(o) \in Book!Figures
      BY CountFigures DEF Figures, Book!Figures
    <3> QED
      BY <2>1, <3>1, <3>2, BookCounts DEF Book!Plus
  <2>4. \A q \in Requests :
           /\ update'[q] = IF q = r THEN "applied" ELSE update[q]
           /\ open'[q].status = IF q = r THEN "settled" ELSE open[q].status
    BY <2>2 DEF TypeOK, Book!TypeOK, Book!Entering
  <2>5. ASSUME NEW o \in Outcomes PROVE BalancedFor(o)'
    <3>1. CASE o = p
      <4>1. Counted(o)' = Counted(o) \cup {r} /\ r \notin Counted(o)
        BY <2>2, <2>4, <3>1 DEF Counted, Settled, Expired
      <4> QED
        BY <2>1, <2>3, <3>1, <4>1, BalanceBumped DEF Balanced
    <3>2. CASE o # p
      <4>1. Counted(o)' = Counted(o)
        <5>1. Settled(o)' = Settled(o)
          BY <2>2, <2>4, <3>2 DEF Settled
        <5>2. Expired' = Expired
          BY <2>2, <2>4 DEF Expired
        <5> QED
          BY <5>1, <5>2 DEF Counted
      <4>2. totals[s][CountFigure(o)] \in Nat
        BY <2>1, CountFigures DEF TypeOK, Book!TypeOK, Book!Totals, Book!Figures, Figures
      <4>3. \A b \in Buckets : totals'[b][CountFigure(o)] = totals[b][CountFigure(o)]
        BY <2>3, <3>2, <4>2
      <4> QED
        BY <4>1, <4>3, BalanceKept DEF Balanced
    <3> QED
      BY <3>1, <3>2
  <2> QED
    BY <2>5 DEF Balanced
<1>5. ASSUME NEW r \in Requests, Expire(r) PROVE Balanced'
  <2> DEFINE s == open[r].bucket
             S(b) == {q \in {r} : open[q].bucket = b}
  <2>1. s \in Buckets /\ open[r].status = "open" /\ update[r] # "applied"
    BY <1>5 DEF Expire, Entered, Accounted, AccountedAt
  <2>2. update' = update /\ outcome' = outcome
    BY <1>5 DEF Expire, handler, calls, reports
  <2>3. open' = [q \in Requests |-> IF q \in {r} THEN Book!Entering("settled") ELSE open[q]]
        /\ totals' = [b \in Buckets |-> [f \in Book!Figures |->
                        IF f \in {"request_count", "incomplete_count"}
                        THEN totals[b][f] + Book!Cardinality(S(b)) ELSE totals[b][f]]]
    BY <1>5 DEF Expire, Book!Lapse
  <2>4. \A q \in Requests : open'[q].status = IF q = r THEN "settled" ELSE open[q].status
    BY <2>3 DEF Book!Entering
  <2>5. ASSUME NEW b \in Buckets PROVE Book!Cardinality(S(b)) = IF b = s THEN 1 ELSE 0
    <3>1. S(b) = IF b = s THEN {r} ELSE {}
      OBVIOUS
    <3>2. Cardinality(S(b)) = IF b = s THEN 1 ELSE 0
      BY <3>1, FS_Singleton, FS_EmptySet
    <3>3. IsFiniteSet(S(b))
      BY <3>1, FS_Singleton, FS_EmptySet
    <3> QED
      BY <3>2, <3>3, BookCardinality
  <2> HIDE DEF S
  <2>6. ASSUME NEW o \in Outcomes, NEW b \in Buckets
        PROVE  totals'[b][CountFigure(o)] = totals[b][CountFigure(o)]
                 + IF o = "incomplete" /\ b = s THEN 1 ELSE 0
    <3>1. CountFigure(o) \in Book!Figures \ {"request_count"}
          /\ (CountFigure(o) = "incomplete_count" <=> o = "incomplete")
      BY DEF CountFigure, Outcomes, Book!Figures
    <3>2. totals[b][CountFigure(o)] \in Nat
      BY <3>1 DEF TypeOK, Book!TypeOK, Book!Totals
    <3> QED
      BY <2>3, <2>5, <3>1, <3>2
  <2>7. ASSUME NEW o \in Outcomes, NEW b \in Buckets
        PROVE  totals[b][CountFigure(o)] \in Nat
    BY CountFigures DEF TypeOK, Book!TypeOK, Book!Totals, Book!Figures, Figures
  <2>8. ASSUME NEW o \in Outcomes PROVE BalancedFor(o)'
    <3>1. CASE o = "incomplete"
      <4>1. Counted(o)' = Counted(o) \cup {r} /\ r \notin Counted(o)
        BY <2>1, <2>2, <2>4, <3>1 DEF Counted, Settled, Expired
      <4> QED
        BY <2>1, <2>6, <2>7, <3>1, <4>1, BalanceBumped DEF Balanced
    <3>2. CASE o # "incomplete"
      <4>1. Counted(o)' = Counted(o)
        BY <2>2, <3>2 DEF Counted, Settled
      <4> QED
        BY <2>6, <2>7, <3>2, <4>1, BalanceKept DEF Balanced
    <3> QED
      BY <3>1, <3>2
  <2> QED
    BY <2>8 DEF Balanced
<1>6. CASE Crash \/ UNCHANGED vars
  BY <1>1, <1>6 DEF Crash, vars, book, handler, calls, reports
<1> QED
  BY <1>2, <1>3, <1>4, <1>5, <1>6 DEF Next, Database

-----------------------------------------------------------------------------
(* The theorems.                                                           *)

\* The invariant holds of the gateway's first state.
LEMMA InitInv == Init => CompletionsInv
<1> SUFFICES ASSUME Init PROVE CompletionsInv
  OBVIOUS
<1>1. \A b \in Buckets, f \in Book!Figures : totals[b][f] = 0
  BY DEF Init, Book!Init, Book!NoTotals
<1>2. TypeOK
  BY <1>1, CompletionsAssumption DEF Init, TypeOK, Book!Init, Book!TypeOK, Book!Entering,
     Book!Entry, Book!NoTotals, Book!Totals, Capture, Serving
<1>3. SlotsHeld
  <2>1. {q \in Requests : pc[q] \in Serving} = {}
    BY DEF Init, Serving
  <2> QED
    BY <2>1, FS_EmptySet DEF Init, SlotsHeld
<1>4. Entered
  BY DEF Init, Entered, Recorded, Book!Init, Book!Entering
<1>5. Responded
  BY CompletionsAssumption DEF Init, Responded, RespondedAt
<1>6. Accounted
  BY CompletionsAssumption DEF Init, Accounted, AccountedAt, Outcomes
<1>7. ASSUME NEW o \in Outcomes PROVE BalancedFor(o)
  <2> DEFINE n == [b \in Buckets |-> totals[b][CountFigure(o)]]
  <2>1. \A b \in Buckets : n[b] = 0 /\ totals[b][CountFigure(o)] = 0
    BY <1>1, CountFigures DEF Figures, Book!Figures
  <2>2. CountOf(CountFigure(o)) = Sum(Buckets, n)
    BY DEF CountOf
  <2> HIDE DEF n
  <2>3. Sum(Buckets, n) = Cardinality(Buckets) * 0
    <3>1. 0 \in 0..MaxFigure /\ IsFiniteSet(Buckets)
      BY CompletionsAssumption, FiguresAssumption
    <3>2. \A b \in Buckets : n[b] = 0
      BY <2>1
    <3> QED
      BY <3>1, <3>2, SumConstant
  <2>4. Cardinality(Buckets) \in Nat
    BY CompletionsAssumption, FS_CardinalityType
  <2>5. Counted(o) = {}
    BY DEF Counted, Settled, Expired, Init, Book!Init, Book!Entering
  <2> QED
    BY <2>1, <2>2, <2>3, <2>4, <2>5, FS_EmptySet, FiguresAssumption DEF BalancedFor
<1> QED
  BY <1>2, <1>3, <1>4, <1>5, <1>6, <1>7 DEF CompletionsInv, Balanced

\* The invariant is inductive: every part of it, by its own lemma.
THEOREM Inductive == Spec => []CompletionsInv
<1>1. CompletionsInv /\ [Next]_vars => CompletionsInv'
  BY TypeStep, SlotsStep, EnteredStep, RespondedStep, AccountedStep, BalancedStep
  DEF CompletionsInv
<1> QED
  BY InitInv, <1>1, PTL DEF Spec

\* The types of the gateway's state (serveCompletions).
THEOREM TypeCorrect == Spec => []TypeOK
<1>1. CompletionsInv => TypeOK
  BY DEF CompletionsInv
<1> QED
  BY Inductive, <1>1, PTL

\* The channel inflightLimit holds one element for every handler that is being
\* served, over every early return, failed write and end of the process.
THEOREM SlotsCorrect == Spec => []SlotsHeld
<1>1. CompletionsInv => SlotsHeld
  BY DEF CompletionsInv
<1> QED
  BY Inductive, <1>1, PTL

\* Whatever reached a backend is in the book (BeginUsage before ServeHTTP),
\* whichever answers of the database were lost.
THEOREM RecordingCorrect == Spec => []RecordedBeforeSent
<1>1. CompletionsInv => RecordedBeforeSent
  BY DEF CompletionsInv, Entered, TypeOK, RecordedBeforeSent
<1> QED
  BY Inductive, <1>1, PTL

\* Accounting and observation, which read the response one after the other,
\* report the same of a request whose client stayed.
THEOREM ReportsCorrect == Spec => []ReportsAgree
<1>1. ASSUME CompletionsInv PROVE ReportsAgree
  <2> SUFFICES ASSUME NEW r \in Requests, observed[r] \notin {Null, "canceled"}
               PROVE  /\ outcome[r] = "complete"
                            <=> observed[r] = "completed" /\ capture[r].usage # Null
                      /\ observed[r] = "completed" =>
                            (outcome[r] = "failed" <=> written[r] = 302)
    BY DEF ReportsAgree
  <2>1. pc[r] = "done" /\ AccountedAt(r) /\ RespondedAt(r)
    BY <1>1 DEF CompletionsInv, TypeOK, Accounted, Responded
  <2>2. observed[r] = Label(r) /\ r \notin canceled
    BY <2>1 DEF AccountedAt, Label
  <2>3. written[r] \in {0, 200, 302, 502} /\ capture[r].status \in {0, 200, 302, 502}
        /\ cause[r] \in {"upstream_unavailable", "stream_aborted", Null}
    BY <1>1 DEF CompletionsInv, TypeOK, Capture, Statuses, Causes
  <2>4. observed[r] = "completed" <=> cause[r] = Null /\ r \notin writeFailed /\ written[r] < 400
    BY <2>2, <2>3, CompletionsAssumption DEF Label, Labels, Causes
  <2> QED
    BY <2>1, <2>2, <2>3, <2>4 DEF AccountedAt, RespondedAt
<1> QED
  BY Inductive, <1>1, PTL

\* The accounts are billed for no more complete requests than there were
\* responses written to their end, whatever expired or got lost.
THEOREM BillingCorrect == Spec => []BilledWasDelivered
<1>1. ASSUME CompletionsInv PROVE BilledWasDelivered
  <2>1. "complete" \in Outcomes /\ CountFigure("complete") = "complete_count"
    BY DEF Outcomes, CountFigure
  <2>2. CountOf("complete_count") = Cardinality(Counted("complete"))
    BY <1>1, <2>1 DEF CompletionsInv, Balanced, BalancedFor
  <2>3. Counted("complete") \subseteq delivered
    BY <1>1 DEF CompletionsInv, Accounted, AccountedAt, Counted, Settled
  <2>4. IsFiniteSet(delivered)
    BY <1>1, FiguresAssumption, FS_Subset DEF CompletionsInv, TypeOK
  <2> QED
    BY <2>2, <2>3, <2>4, FS_Subset DEF BilledWasDelivered
<1> QED
  BY Inductive, <1>1, PTL

\* vire_metered_requests_total never runs ahead of the book, in any outcome.
THEOREM MeteringCorrect == Spec => []MeteredIsDurable
<1>1. ASSUME CompletionsInv PROVE MeteredIsDurable
  <2> SUFFICES ASSUME NEW o \in Outcomes
               PROVE  Cardinality({r \in metered : outcome[r] = o}) <= CountOf(CountFigure(o))
    BY DEF MeteredIsDurable, CountFigure
  <2>1. CountOf(CountFigure(o)) = Cardinality(Counted(o))
    BY <1>1 DEF CompletionsInv, Balanced, BalancedFor
  <2>2. {r \in metered : outcome[r] = o} \subseteq Counted(o)
    BY <1>1 DEF CompletionsInv, TypeOK, Accounted, AccountedAt, Counted, Settled
  <2> QED
    BY <2>1, <2>2, CountedFinite, FS_Subset
<1> QED
  BY Inductive, <1>1, PTL
=============================================================================
