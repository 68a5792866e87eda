---------------------------- MODULE Completions -----------------------------
(***************************************************************************)
(* The life of a metered completion request in one gateway process         *)
(* (Server.serveCompletions), with the database, the model backend, the    *)
(* client and the end of the process around it.  The database is the book  *)
(* that UsageLedger implements: an INSERT opens an entry, an UPDATE        *)
(* settles it, and either may take effect after the gateway gave up        *)
(* waiting for the answer.                                                 *)
(***************************************************************************)
EXTENDS UsageFigures

CONSTANTS
    MaxInflight,  \* capacity of inflightLimit
    MaxCrashes    \* bound on the ends of the gateway process

VARIABLES
    open, totals, latest,  \* the book
    pc,           \* [Requests -> where the handler is]
    slots,        \* len(inflightLimit)
    insert,       \* [Requests -> state of the INSERT of BeginUsage]
    update,       \* [Requests -> state of the UPDATE of FinishUsage]
    sent,         \* requests that reached a backend
    capture,      \* [Requests -> usageCapture]
    canceled,     \* requests whose context has ended
    writeFailed,  \* requests with a failed write to the client
    delivered,    \* requests whose whole response was written to the client
    written,      \* [Requests -> status written to the client, 0 before that]
    cause,        \* [Requests -> state.outcome, or the panic of the proxy]
    outcome,      \* [Requests -> the outcome the handler asked to record]
    metered,      \* requests counted in vire_metered_requests_total
    observed,     \* [Requests -> outcome label of the request's log and metrics]
    crashes

book == <<open, totals, latest>>
calls == <<insert, update>>
response == <<capture, written, writeFailed, delivered, cause>>
reports == <<outcome, metered, observed>>
handler == <<pc, slots, calls, sent, canceled, response, reports>>
vars == <<book, handler, crashes>>

Book == INSTANCE UsageBook

Serving == {"reading", "recording", "routing", "waiting", "streaming",
            "finishing", "settling"}

\* A 2xx, any other status below 400, an error.
Statuses == {200, 302, 502}

Causes == {"upstream_unavailable", "stream_aborted"}

Labels == {"completed", "http_error", "canceled", "write_error"} \cup Causes

\* A count of requests fits its column.
ASSUME CompletionsAssumption ==
    /\ MaxInflight \in Nat \ {0} /\ MaxCrashes \in Nat
    /\ IsFiniteSet(Buckets) /\ Cardinality(Requests) <= MaxFigure
    /\ Null \notin Labels \cup Outcomes

Capture == [status : {0} \cup Statuses, eof : BOOLEAN, usage : Usages \cup {Null}]

TypeOK ==
    /\ Book!TypeOK
    /\ pc \in [Requests -> Serving \cup {"new", "leaving", "done", "lost"}]
    /\ slots \in 0..MaxInflight
    /\ insert \in [Requests -> {"none", "sent", "applied"}]
    /\ update \in [Requests -> {"none", "sent", "applied", "refused"}]
    /\ capture \in [Requests -> Capture]
    /\ \A S \in {sent, canceled, writeFailed, delivered, metered} : S \subseteq Requests
    /\ written \in [Requests -> {0} \cup Statuses]
    /\ cause \in [Requests -> Causes \cup {Null}]
    /\ outcome \in [Requests -> Outcomes \cup {Null}]
    /\ observed \in [Requests -> Labels \cup {Null}]
    /\ \A r \in Requests : observed[r] = Null <=> pc[r] # "done"
    /\ crashes \in 0..MaxCrashes

Init ==
    /\ Book!Init
    /\ pc = [r \in Requests |-> "new"]
    /\ slots = 0
    /\ insert = [r \in Requests |-> "none"]
    /\ update = [r \in Requests |-> "none"]
    /\ capture = [r \in Requests |-> [status |-> 0, eof |-> FALSE, usage |-> Null]]
    /\ sent = {} /\ canceled = {} /\ writeFailed = {} /\ delivered = {} /\ metered = {}
    /\ written = [r \in Requests |-> 0]
    /\ cause = [r \in Requests |-> Null]
    /\ outcome = [r \in Requests |-> Null]
    /\ observed = [r \in Requests |-> Null]
    /\ crashes = 0

Goto(r, label) == pc' = [pc EXCEPT ![r] = label]

WriteHeader(r, status) == written' = [written EXCEPT ![r] = status]

Because(r, c) == cause' = [cause EXCEPT ![r] = c]

\* writeAPIError, whose write to the client may fail.
AnswerError(r) ==
    /\ WriteHeader(r, 502)
    /\ writeFailed' \in {writeFailed, writeFailed \cup {r}}

\* The deferred receive on inflightLimit.
Leave(r) == Goto(r, "leaving") /\ slots' = slots - 1
-----------------------------------------------------------------------------
(* Before the request is sent upstream.                                    *)

\* No valid key or session, or the account store is unavailable.
Unauthorized(r) ==
    /\ pc[r] = "new"
    /\ Goto(r, "leaving")
    /\ AnswerError(r)
    /\ UNCHANGED <<book, slots, calls, sent, canceled, capture, delivered,
                   cause, reports, crashes>>

\* Mutation of Admit: a channel with room for one more.
AdmitOver(r) ==
    /\ pc[r] = "new" /\ slots <= MaxInflight
    /\ slots' = slots + 1
    /\ Goto(r, "reading")
    /\ UNCHANGED <<book, calls, sent, canceled, response, reports, crashes>>

Admit(r) ==
    /\ pc[r] = "new" /\ slots < MaxInflight
    /\ slots' = slots + 1
    /\ Goto(r, "reading")
    /\ UNCHANGED <<book, calls, sent, canceled, response, reports, crashes>>

TooManyRequests(r) ==
    /\ pc[r] = "new" /\ slots = MaxInflight
    /\ Goto(r, "leaving")
    /\ AnswerError(r)
    /\ UNCHANGED <<book, slots, calls, sent, canceled, capture, delivered,
                   cause, reports, crashes>>

\* Mutation of BadRequest: an early return before the deferred receive.
BadRequestLeaks(r) ==
    /\ pc[r] = "reading"
    /\ Goto(r, "leaving")
    /\ AnswerError(r)
    /\ UNCHANGED <<book, slots, calls, sent, canceled, capture, delivered,
                   cause, reports, crashes>>

\* The body is unreadable, too large, no JSON object, or names no known model.
BadRequest(r) ==
    /\ pc[r] = "reading"
    /\ Leave(r)
    /\ AnswerError(r)
    /\ UNCHANGED <<book, calls, sent, canceled, capture, delivered,
                   cause, reports, crashes>>

SendInsert(r) ==
    /\ pc[r] = "reading"
    /\ insert' = [insert EXCEPT ![r] = "sent"]
    /\ Goto(r, "recording")
    /\ UNCHANGED <<book, slots, update, sent, canceled, response, reports,
                   crashes>>

\* Mutation of BeginSucceeds: the request goes on without the answer.
BeginIgnored(r) ==
    /\ pc[r] = "recording"
    /\ Goto(r, "routing")
    /\ UNCHANGED <<book, slots, calls, sent, canceled, response, reports,
                   crashes>>

BeginSucceeds(r) ==
    /\ pc[r] = "recording" /\ insert[r] = "applied"
    /\ Goto(r, "routing")
    /\ UNCHANGED <<book, slots, calls, sent, canceled, response, reports,
                   crashes>>

\* Mutation of BeginFails: the context of the request alone, no timeout.
BeginWaits(r) ==
    /\ pc[r] = "recording" /\ r \in canceled
    /\ Leave(r)
    /\ AnswerError(r)
    /\ UNCHANGED <<book, calls, sent, canceled, capture, delivered,
                   cause, reports, crashes>>

\* An error, the end of the request's context, or no answer in
\* accountQueryTimeout: the row may be there all the same.
BeginFails(r) ==
    /\ pc[r] = "recording"
    /\ Leave(r)
    /\ AnswerError(r)
    /\ UNCHANGED <<book, calls, sent, canceled, capture, delivered,
                   cause, reports, crashes>>
-----------------------------------------------------------------------------
(* The proxy.                                                              *)

NoHealthyBackend(r) ==
    /\ pc[r] = "routing"
    /\ Because(r, "upstream_unavailable")
    /\ AnswerError(r)
    /\ Goto(r, "finishing")
    /\ UNCHANGED <<book, slots, calls, sent, canceled, capture, delivered,
                   reports, crashes>>

Dispatch(r) ==
    /\ pc[r] = "routing"
    /\ sent' = sent \cup {r}
    /\ Goto(r, "waiting")
    /\ UNCHANGED <<book, slots, calls, canceled, response, reports, crashes>>

WithStatus(c, status) == [c EXCEPT !.status = status]

\* ModifyResponse, then the header as the backend sent it, whatever its status.
\* Only a 2xx body is captured.
ResponseHeader(r, status) ==
    /\ pc[r] = "waiting"
    /\ capture' = [capture EXCEPT ![r] = WithStatus(@, status)]
    /\ WriteHeader(r, status)
    /\ Goto(r, "streaming")
    /\ UNCHANGED <<book, slots, calls, sent, canceled, writeFailed,
                   delivered, cause, reports, crashes>>

\* ErrorHandler: a canceled request leaves no status.  The write of the error
\* to the client may fail.
RoundTripFails(r) ==
    /\ pc[r] = "waiting"
    /\ IF r \in canceled THEN UNCHANGED <<capture, written, writeFailed, cause>>
       ELSE /\ capture' = [capture EXCEPT ![r] = WithStatus(@, 502)]
            /\ Because(r, "upstream_unavailable")
            /\ AnswerError(r)
    /\ Goto(r, "finishing")
    /\ UNCHANGED <<book, slots, calls, sent, canceled, delivered, reports,
                   crashes>>

\* What a capture learns from the end of its body.
BodyEnded(c, usage) ==
    IF c.status = 200 THEN [c EXCEPT !.eof = TRUE, !.usage = usage] ELSE c

\* The end of the body, after all of it was written to the client.
ResponseEnds(r, usage) ==
    /\ pc[r] = "streaming"
    /\ capture' = [capture EXCEPT ![r] = BodyEnded(@, usage)]
    /\ delivered' = delivered \cup {r}
    /\ Goto(r, "finishing")
    /\ UNCHANGED <<book, slots, calls, sent, canceled, written, writeFailed,
                   cause, reports, crashes>>

\* The backend breaks the stream off, or the context ends it.
StreamAborts(r) ==
    /\ pc[r] = "streaming"
    /\ Because(r, "stream_aborted")
    /\ Goto(r, "finishing")
    /\ UNCHANGED <<book, slots, calls, sent, canceled, capture, written,
                   writeFailed, delivered, reports, crashes>>

\* A write to the client fails, after the end of the body was read or before.
WriteFails(r, eof, usage) ==
    /\ pc[r] = "streaming"
    /\ capture' = IF eof THEN [capture EXCEPT ![r] = BodyEnded(@, usage)] ELSE capture
    /\ writeFailed' = writeFailed \cup {r}
    /\ Because(r, "stream_aborted")
    /\ Goto(r, "finishing")
    /\ UNCHANGED <<book, slots, calls, sent, canceled, written, delivered,
                   reports, crashes>>

ClientLeaves(r) ==
    /\ pc[r] \in Serving \cup {"leaving"} /\ r \notin canceled
    /\ canceled' = canceled \cup {r}
    /\ UNCHANGED <<book, pc, slots, calls, sent, response, reports, crashes>>
-----------------------------------------------------------------------------
(* The deferred accounting.                                                *)

\* Mutation of Result: without the interrupted argument.
ResultOfBody(c, interrupted) ==
    IF c.status = 0 THEN "incomplete"
    ELSE IF c.status # 200 THEN "failed"
    ELSE IF c.eof /\ c.usage # Null THEN "complete"
    ELSE "incomplete"

\* usageCapture.result
Result(c, interrupted) ==
    IF interrupted \/ c.status = 0 THEN "incomplete"
    ELSE IF c.status # 200 THEN "failed"
    ELSE IF c.eof /\ c.usage # Null THEN "complete"
    ELSE "incomplete"

SendUpdate(r) ==
    /\ pc[r] = "finishing"
    /\ outcome' = [outcome EXCEPT ![r] =
                     Result(capture[r], r \in canceled \cup writeFailed)]
    /\ update' = [update EXCEPT ![r] = "sent"]
    /\ Goto(r, "settling")
    /\ UNCHANGED <<book, slots, insert, sent, canceled, response, metered,
                   observed, crashes>>

\* Mutation of FinishSucceeds: rows # 1 is no error.
FinishUnchecked(r) ==
    /\ pc[r] = "settling" /\ update[r] \in {"applied", "refused"}
    /\ metered' = metered \cup {r}
    /\ Leave(r)
    /\ UNCHANGED <<book, calls, sent, canceled, response, outcome, observed,
                   crashes>>

FinishSucceeds(r) ==
    /\ pc[r] = "settling" /\ update[r] = "applied"
    /\ metered' = metered \cup {r}
    /\ Leave(r)
    /\ UNCHANGED <<book, calls, sent, canceled, response, outcome, observed,
                   crashes>>

\* No row was updated, an error, or no answer in accountQueryTimeout: the
\* update may still be applied.  It is not tried again.
FinishFails(r) ==
    /\ pc[r] = "settling"
    /\ Leave(r)
    /\ UNCHANGED <<book, calls, sent, canceled, response, reports, crashes>>
-----------------------------------------------------------------------------
(* The deferred observation, which recovers the panic of an aborted stream *)
(* and passes it on to net/http.                                           *)

\* Mutation of Label: without the panic and the state of the writer.
LabelOfStatus(r) ==
    IF r \in canceled THEN "canceled"
    ELSE IF cause[r] = "upstream_unavailable" THEN cause[r]
    ELSE IF written[r] >= 400 THEN "http_error"
    ELSE "completed"

Label(r) ==
    IF r \in canceled THEN "canceled"
    ELSE IF cause[r] = "stream_aborted" THEN "stream_aborted"
    ELSE IF r \in writeFailed THEN "write_error"
    ELSE IF cause[r] # Null THEN cause[r]
    ELSE IF written[r] >= 400 THEN "http_error"
    ELSE "completed"

Observe(r) ==
    /\ pc[r] = "leaving"
    /\ observed' = [observed EXCEPT ![r] = Label(r)]
    /\ Goto(r, "done")
    /\ UNCHANGED <<book, slots, calls, sent, canceled, response, outcome,
                   metered, crashes>>
-----------------------------------------------------------------------------
(* The database and the end of the process.                                *)

ApplyInsert(r, b) ==
    /\ insert[r] = "sent"
    /\ Book!Begin(r, b)
    /\ insert' = [insert EXCEPT ![r] = "applied"]
    /\ UNCHANGED <<pc, slots, update, sent, canceled, response, reports,
                   crashes>>

ApplyUpdate(r) ==
    /\ update[r] = "sent" /\ open[r].status = "open"
    /\ Book!Settle(r, outcome[r],
                   IF outcome[r] = "complete" THEN capture[r].usage ELSE Null)
    /\ update' = [update EXCEPT ![r] = "applied"]
    /\ UNCHANGED <<pc, slots, insert, sent, canceled, response, reports,
                   crashes>>

\* The row has expired meanwhile: "pending usage request not found".
RefuseUpdate(r) ==
    /\ update[r] = "sent" /\ open[r].status # "open"
    /\ update' = [update EXCEPT ![r] = "refused"]
    /\ UNCHANGED <<book, pc, slots, insert, sent, canceled, response,
                   reports, crashes>>

Expire(r) ==
    /\ open[r].status = "open"
    /\ Book!Lapse({r})
    /\ UNCHANGED <<handler, crashes>>

\* The process ends, and another one takes over with an empty limit.
Crash ==
    /\ crashes < MaxCrashes
    /\ crashes' = crashes + 1
    /\ pc' = [r \in Requests |-> IF pc[r] \in Serving \cup {"leaving"}
                              THEN "lost" ELSE pc[r]]
    /\ slots' = 0
    /\ UNCHANGED <<book, calls, sent, canceled, response, reports>>
-----------------------------------------------------------------------------
Handle(r) ==
    \/ BadRequest(r) \/ SendInsert(r)
    \/ BeginSucceeds(r) \/ BeginFails(r)
    \/ NoHealthyBackend(r) \/ Dispatch(r)
    \/ \E status \in Statuses : ResponseHeader(r, status)
    \/ RoundTripFails(r)
    \/ \E u \in Usages \cup {Null} : ResponseEnds(r, u)
    \/ StreamAborts(r)
    \/ \E eof \in BOOLEAN, u \in Usages \cup {Null} : WriteFails(r, eof, u)
    \/ SendUpdate(r)
    \/ FinishSucceeds(r) \/ FinishFails(r)
    \/ Observe(r)

Database(r) ==
    \/ \E b \in Buckets : ApplyInsert(r, b)
    \/ ApplyUpdate(r) \/ RefuseUpdate(r)
    \/ Expire(r)

Next ==
    \/ \E r \in Requests : \/ Unauthorized(r) \/ Admit(r) \/ TooManyRequests(r)
                           \/ Handle(r)
                           \/ Database(r)
                           \/ ClientLeaves(r)
    \/ Crash

Spec == Init /\ [][Next]_vars

(***************************************************************************)
(* A handler whose wait is bounded goes on: ReadTimeout bounds the body,   *)
(* accountQueryTimeout both calls of the database, which promises nothing. *)
(* How long a backend takes is its own affair (there is no WriteTimeout),  *)
(* until the client leaves: the end of the request's context ends the      *)
(* round trip.                                                             *)
(***************************************************************************)
Upstream(r) == pc[r] \in {"waiting", "streaming"} /\ r \notin canceled

FairSpec == Spec /\ \A r \in Requests : WF_vars(~Upstream(r) /\ Handle(r))
-----------------------------------------------------------------------------
(***************************************************************************)
(* "A request must be recorded before it is sent upstream, so a process    *)
(* crash leaves a visible pending row" (gateway/accounts.go): whatever     *)
(* reached a backend has an entry in the book, open or settled, also when  *)
(* answers of the database are lost.                                       *)
(***************************************************************************)
RecordedBeforeSent == \A r \in sent : open[r].status # "new"

CountOf(figure) == Sum(Buckets, [b \in Buckets |-> totals[b][figure]])

(***************************************************************************)
(* An account is billed for complete requests only, and only for responses *)
(* that were written to the client to their end.                           *)
(***************************************************************************)
BilledWasDelivered ==
    CountOf("complete_count") <= Cardinality(delivered)

(***************************************************************************)
(* vire_metered_requests_total counts "durably recorded inference          *)
(* requests by usage outcome": never more of an outcome than the book has, *)
(* also when rows expire under a running request and answers get lost.     *)
(***************************************************************************)
MeteredIsDurable ==
    \A o \in Outcomes :
        Cardinality({r \in metered : outcome[r] = o})
          <= CountOf(CASE o = "complete"   -> "complete_count"
                       [] o = "incomplete" -> "incomplete_count"
                       [] o = "failed"     -> "failed_count")

(***************************************************************************)
(* The two reports of a request agree, though the deferred accounting and  *)
(* the deferred observation read the response one after the other and each *)
(* by its own rules, of the capture and of the writer.  Unless the client  *)
(* has left in between, a request is recorded as complete iff its log and  *)
(* metrics call it completed and its usage is known; and what they call    *)
(* completed is recorded as failed only for a status that is passed on     *)
(* although it is neither 2xx nor an error: the accounting asks for 2xx,   *)
(* the observation for less than 400.                                      *)
(***************************************************************************)
ReportsAgree ==
    \A r \in Requests :
        observed[r] \notin {Null, "canceled"} =>
            /\ outcome[r] = "complete"
                 <=> observed[r] = "completed" /\ capture[r].usage # Null
            /\ observed[r] = "completed" =>
                 (outcome[r] = "failed" <=> written[r] = 302)

(***************************************************************************)
(* The concurrency limit counts the handlers that are being served, over   *)
(* every early return, failed accounting write and crash.                  *)
(***************************************************************************)
SlotsHeld == slots = Cardinality({r \in Requests : pc[r] \in Serving})

(***************************************************************************)
(* Every request that took a slot gives it back, even when the database    *)
(* never answers, unless a backend keeps an attentive client waiting.      *)
(***************************************************************************)
SlotsReturned ==
    \A r \in Requests :
        pc[r] \in Serving ~> pc[r] \in {"done", "lost"} \/ Upstream(r)
=============================================================================
