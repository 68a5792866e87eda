# Vire, specified in TLA+

Vire is a Go gateway in front of model servers (vLLM).  It authenticates a
request by API key or portal session, records it in PostgreSQL, picks a backend
of the requested model, streams the response through, and settles the record
with the token counts it saw go by.  This directory holds TLA+ modules that
model the gateway's own logic, TLC configurations that check them on small
instances, and TLAPS proofs, for every value of the constants, of the safety
properties that the configurations check.

Paths below are relative to `src/`.

## 1. Inventory

| Component | State | Operations | Interacts with |
| --- | --- | --- | --- |
| Usage ledger: `internal/accountdb/queries.sql`, `maintenance.go`, `store.go`, `portal.go` (Usage) | `usage_events`, `usage_daily`, `model_prices` | SetPrice, BeginUsage, FinishUsage; hourly Maintain on every replica: expire, roll up, delete; the portal's usage query | called by request handlers of every replica; shares the database with them |
| Completion requests: `gateway/proxy.go` (serveCompletions), `observability.go` (wrap, observedWriter) | `inflightLimit`, per-request `usageCapture` and observation | admit, read the body, BeginUsage, dispatch, stream, FinishUsage in a defer, observe in another | ledger (statements with a 3 s timeout), routing snapshot, `httputil.ReverseProxy` callbacks, client context |
| Usage capture: `gateway/usage_capture.go` | ring of the last 64 KiB, or the whole body up to 1 MiB | Read/observe, tail, streamUsage, result | fed by the proxy's reads, asked by the deferred accounting |
| Model membership and health: `gateway/membership.go`, `server.go` (Run) | `Server.backends`, published `routingSnapshot`, `healthy` flags, gauges, `reloadMu` | ReloadRegistry, buildRouting, probeBackend(s), two watchers | the registry file; requests hold old snapshots and backends |
| Backend selection: `gateway/proxy.go` (modelRoute) | round-robin counter, hash ring | selectBackend, selectHealthyBackend | reads the `healthy` flags that probes write |
| Accounts, keys, sessions, login limit: `internal/accountdb/store.go`, `portal.go` | `users`, `api_keys`, `portal_sessions`, `login_attempts` | Signup, IssueKey, RevokeKey, Authenticate, Login, Session, ChatKeyID, Logout | request admission; Maintain deletes expired rows |
| Schema migration: `store.go` (Migrate) | `schema_migrations` | one transaction under an advisory lock | replicas that start together |
| Process lifecycle: `gateway/server.go` (Run), `cmd/gateway/main.go` | listeners, contexts | probe, listen, serve, drain, close | ends the watchers and, after 5 min, the requests |
| Portal chat view: `web/src/chat.tsx` | messages, history, `generation`, `controller` | send, stop, reset, account change | streams from the gateway |
| Fake backend, scripts, manifests | - | development tools | - |

What is hard here, and what has to hold (the full list, each hazard at its
line, is `hazards` in `PROJECT.json`):

* **Ledger.**  Replicas roll up concurrently; a rollup is one statement but many
  steps (row locks on events, then on daily rows, then the commit), it can
  deadlock, fail, or commit with its answer lost; requests are settled, expired
  and shown meanwhile.  Each request must be counted exactly once, always, in
  the usage that the portal shows.
* **Requests.**  Every call of the database may take effect without its answer
  arriving; the client may leave, the process may end, the row may expire under
  a running request.  Recorded before sent; billed only when delivered; the
  metrics never ahead of the database; no concurrency slot lost.
* **Membership.**  Requests outlive the snapshot they were routed by; a reload
  may fail half-way; probes and reloads compete for a mutex; a backend may leave
  and come back while its old streams drain.
* **Selection.**  Health flags are read one by one while they change.
* **Capture.**  A ring that wraps and cuts lines, fed in arbitrary chunks.
* **Accounts.**  Handlers of any replica share the tables, read a session or a
  key in one statement and act on it in a later one, and may not learn what a
  statement did.  Signups of one email race.  The login limit has to hold over
  windows and deletions, and has to end.
* **Lifecycle.**  Replicas migrate one database at the same time and may be
  killed in between; a listener may fail before, at or after a signal; requests
  drain, or are cut off, before the store that they settle with is closed.

## 2. Modules

| Module | Models | Correspondence |
| --- | --- | --- |
| `UsageFigures` | columns of `usage_daily`, cost of a request | `Contribution` and `TotalOf` are the grouped aggregates of RollupUsageBatch, `EstimatedCost` its rounding to a bigint in FinishUsage |
| `UsageBook` | the promise of the ledger (abstract) | `open`: begun and unsettled requests with bucket and price; `totals`: what the portal's usage page adds up to |
| `UsageLedger` | the tables and the statements of `Maintain` on each replica | one action per statement; a rollup is `ClaimBatch`, then per daily row `Sleep`/`AddTotals`, then `RollupBatchDone`; `StatementFails`, `CommitUnseen`, `DeadlockVictim` |
| `UsageFiguresProofs`, `*Proofs` | theorems about `UsageLedger`, `Completions`, `Membership`, `Routing`, `UsageCapture`, `Portal`, `Lifecycle` | one module for each, with its inductive invariant first; `UsageFiguresProofs` has the lemmas on sums that the first two share |
| `Completions` | `serveCompletions` with its surroundings, on top of `UsageBook` | one action per early return, callback and database call; the database applies a statement (`ApplyInsert`, `ApplyUpdate`, `RefuseUpdate`) at any time after it was sent |
| `Membership` | registry, snapshot, backend map, probes, watchers | `StartReload` is ReloadRegistry up to the end of buildRouting, then one probe per action, `Publish` or `RejectReload`; a backend is an object `<<origin, copy>>` |
| `Routing` | one choice of a backend, read by read | `Select*`, `PrimaryHealthy/Unhealthy`, `TryNext`, `NoHealthyBackend`; probes write flags in between |
| `UsageCapture` | the capture of one body | `Read` with any chunk; `WriteOn`, `KeepEnd` are the two branches of observe for streams; `Scanned` is the loop of streamUsage, `Line` its body |
| `Portal` | accounts, keys, sessions, login limit, on any number of replicas | a call is one HTTP request: `Start*` is its arrival, then one action per statement that others can come between, with `seen`: whether its answer arrives; `Delete*` are the first statements of Maintain |
| `Lifecycle` | `run` of each replica: Migrate, Server.Run, drain, deferred closes | `proc[r].at` is the place in `run`, one action per step that can fail or wait; `socket`, `errs`, `pool`, `maintain` are what the goroutines share |
| `MC*` | instances for TLC | |

Composition: `Completions` runs on `UsageBook`, and `UsageLedger` implements
`UsageBook` (by a theorem), so what `Completions` shows about the book holds
for the tables.  The database of `Completions` takes the actions of the book
themselves, so it keeps the book by construction and nothing is claimed about
that; the claims are about what handlers make of its answers.  `Routing` details
the step `Dispatch`/`NoHealthyBackend` of `Completions`, which lets either outcome
happen at any time, and `UsageCapture` details the usage that `ResponseEnds` puts
in `capture[r]`, which may be any usage or none.  `Portal` follows a completion to
the record of its usage ("recording", then "served"), which is where a key that was
read earlier is used; the limit, the slots and all that comes after the record are
`Completions`.  `Lifecycle` has the requests of `Completions` as handlers that use
the pool, and `Maintain` of `UsageLedger` as a user of the pool that a signal
stops.

The operators introduced with "Mutation of" are deliberate errors, each placed
before the definition that it could replace, to show that the properties
notice.  They are in no specification.

### Decisions about the ledger

* A bucket stands for a key of `usage_daily` (day, account, key, model).
* `waits` and `queued` model PostgreSQL's lock queue for a daily row: sleepers
  get the row in order.  `InCycle` is its deadlock detector.  Both are external.
* Rows claimed by a rollup are skipped by others (`SKIP LOCKED`), and a rollup's
  writes appear at its commit only.  FinishUsage and ExpirePendingUsage touch
  pending rows, which no rollup locks, so they need no lock steps of their own.
* `Maintain` also deletes expired sessions and stale login attempts first; those
  tables are in `Portal`.  An error there is `StatementFails` at
  "expire".
* An event whose cost does not fit BIGINT cannot be settled as complete (guard
  of `FinishUsage`); it waits for its expiry.  A daily sum that does not fit
  BIGINT fails the rollup (`SumOverflows`), at every attempt: the totals stay
  right, and the rows of that group stay unrolled.  Rows are then not purged;
  `EveryRowPurged` is about instances whose sums fit.
* Sums are cardinalities of sets of units (`Units`), so that no recursion is
  needed and the theorems on finite sets apply.  `SumComputed` proves that they
  are what adding one amount after another computes; `SumsAgree` in
  `MCUsageLedger` has TLC evaluate an instance.

### Decisions about requests

* Authentication is one outcome.  A status is one of three classes: 2xx (200), any
  other status below 400 (302), which the proxy passes on, and an error (502).
  `result` tells the first from the other two, the outcome label the last from the
  first two; a request in the middle is labelled "completed" and recorded as
  "failed", which `ReportsAgree` allows for that class alone.
* A `delivered` request is one whose body was read to the end and written
  without error.
* `written` is the status that `observedWriter` saw, of the backend's header or of
  `writeAPIError`.  `cause` is `state.outcome`, or the panic of an aborted stream
  ("stream_aborted", which http.ErrAbortHandler stands for).  `Label` is the switch
  of `observability.wrap` over the context, the panic, the writer, `state.outcome`
  and the status, after the accounting ("leaving").  "upstream_unavailable" stands
  for the label of a time-out as well, and the handlers do not panic otherwise.
* A crash frees the slots (they are memory) and leaves the book as it is;
  statements under way may still be applied.
* The unauthenticated development mode, which has no store and no limit, is not
  modelled.

### Decisions about membership

* An origin is read as a key of `Server.backends`, that is a model with an origin.
  Models share what a reload does as a whole: `reloadMu`, the comparison of
  fingerprints and the rejection of every model when one new backend fails.  All
  of it is over the set of all origins here.  The empty registry stands for every content that loadModels or sameCatalog
  rejects.
* A backend copy that nothing refers to may be reused as a new object (that is
  what garbage collection does), which keeps the state space finite.
* `health` distinguishes "assumed" (the initial `Store(true)`) from "up"; the
  router treats both as healthy.
* A probe's answer and the store of its result are one step; the answer of a
  stale probe is thus not distinguished from a prompt one.
* The fingerprint is the set of origins.

### Decisions about accounts

* Requests that the handlers turn away before the database (`browserPost`,
  `readPortalJSON`, `validSignup`, malformed tokens) are left out: a call starts
  with its first statement.  An answer that promises nothing (401, 403, 429, 503)
  ends the call at once.
* Between the read of a key and the record of the usage a handler reads the body
  and finds its model ("recording"); meanwhile the key may be revoked or the
  session ended.  `BeginUsage` does not look again.  A completion that is refused
  there (limit, body, model, store) is `Fail`.
* Tokens and keys are identities; digests are compared where the code compares
  them, so a credential that was never issued is one that never starts.  The
  password is right or wrong by choice.
* `Visitors` sign up and log in; the other emails have an account from the
  start.
* Sessions expire at any time.  The window of the login limit is counted in
  ticks; a row is stale when it is older than `Window`.  Attempts beyond
  `Limit + 1` behave alike and are not told apart (`AtMost`).
* Password, account, owner, key, session and commit of a signup are one step,
  since nothing of them is visible before the commit; the insert of the email is
  a step of its own, because others wait for it.  The read of the owner, the
  comparison and the insert of the session at a login are one step: passwords
  and owners never change.
* A statement that fails or is never run is `Fail`; one that takes effect
  without its answer is `seen = FALSE`.  The error of the last statement of
  Login, which clears the attempts, is ignored by the code (`done`).
* `IssueKey` and `RevokeKey` are called by nothing but tests so far; they are the
  store's promise to operators.

### Decisions about the lifecycle

* A version stands for its tables: the transaction makes them and their row of
  `schema_migrations` visible together.  `NewerGatewayMigrates` is a later
  release that starts during an upgrade; running replicas go on.
* A step that a cancelled context would fail may also succeed, as its answer may
  have crossed the signal.
* `SetPrices` and `ProbeBackends` stand for loops whose effects are in
  `UsageLedger` and `Membership`; the end of the watchers is `Stop` there.
* `http.Server` is external: Shutdown and Close make Serve return in its
  goroutine some time later; Shutdown waits for handlers, Close does not.
  `pgxpool.Pool.Close` refuses new users and waits for the present ones.
* The order of the deferred calls matters: `store.Close` runs before `stop`, so
  after the exit of a listener maintenance has not been told to end.
* The limit of 10 connections of the pool is not modelled: a handler waits for
  one within its 3 seconds.

## 3. Runs

| Run | Instance | Shows | States |
| --- | --- | --- | --- |
| `ledger_implements_book` | 2 requests, 2 replicas, 2 buckets, 1 price, batches of 2, 1 failure | `TypeOK`, `RollupLocks`, `ImplementsBook` | 54 k |
| `ledger_drains` | backlog of 4 requests in 2 buckets, 2 replicas | `EveryRowPurged`; two rollups need two buckets each to deadlock, hence four rows | 37 k |
| `completions` | 2 requests, 1 slot, 1 crash, with fairness | `TypeOK`, `RecordedBeforeSent`, `BilledWasDelivered`, `MeteredIsDurable`, `ReportsAgree`, `SlotsHeld`, `SlotsReturned` | 1.26 M |
| `membership_reload` | 3 origins, so that a reload can add two and one can fail; with fairness | `TypeOK`, `MapIsRouting`, `HealthShown`, `MembersKept`, `RegistryApplied`, `HealthFollows` | 120 k |
| `membership_traffic` | 2 origins, 2 copies, 1 request | `ProbedBeforeTraffic` | 1.25 M |
| `routing` | 1 to 3 backends, 3 requests, 1 conversation | `TypeOK`, `SteadyPreferred`, `EvenTurns` | 341 k |
| `usage_capture` | all streams of up to 5 lines of 6 kinds, ring of 7, reads of 1 to 8 | `TypeOK`, `TailKept`, `BilledIsReported`, `KeptIsBilled` | 433 k |
| `portal` | 2 concurrent calls, 1 visitor, 1 token, up to 2 keys, limit 2, window 1 | `TypeOK`, `GuessingLimited`, `RegisteredWhole`, `ServedWasAuthorised`, `RevokedStaysOut`, `AnswersHold`, `LockoutEnds`, `RevocationTakesEffect` | 322 k |
| `lifecycle` | 2 replicas that compete for the migration, one of them with metrics and a request; databases of version 0 to 3 | `TypeOK`, `StartsDontCollide`, `StartsWhole`, `StopsWhole`, `MetricsWhileDraining`, `SettledBeforeClose`, `Stops` | 140 k |
| `membership_spelling` | 3 origins, one spelled `HTTP://a` | violates `MembersKept` | |
| `membership_gauge` | 2 origins, 2 requests | violates `InflightCounts` | |
| `membership_scale_in` | 2 origins, 2 requests | violates `DrainedStaysDrained` | |

Why the bounds are enough: the conflicts are between two replicas, two requests
or two reloads, and each instance has two of the actors that meet and the
resource they meet on at its limit (one slot, two buckets, a ring shorter than
the stream, as many backends as a partial failure needs).  `MaxFailures`,
`MaxCrashes` and `MaxCopies` bound failures, process ends and backend objects of
one origin; `MaxKeys` bounds the keys of an account; `MaxCopies` is one more than the number of old copies that requests
can hold, so that no reload is prevented.  A limit of 2 for logins has all the cases of 5 (below, at, beyond the limit, at
either end of a window).  One email is enough for `Portal`, whose properties and
tables are about one account at a time: rows of different emails meet nowhere,
and the theorems hold for any number of them.  One token is enough: it can be
used by two calls at the same time, and be issued anew once nothing refers to it.

Deadlock checking is off in `completions` (every request ends), and in
`usage_capture` (the body ends); elsewhere it is on.

### What the violations say

1. `membership_spelling`: `ReloadRegistry` prunes by the URL as spelled in the
   registry, `buildRouting` enters backends under the parsed URL, whose scheme
   is in lower case.  A member spelled `HTTP://host` leaves the map although it
   stays, and is made anew at the following reload, against the comment on
   `buildRouting`.  `membership_reload` shows that with plain spellings (a
   trailing slash included) the comment is right.
2. `membership_gauge`: re-adding an origin while requests of its old backend
   stream sets its in-flight gauge to zero under them, and it ends below zero.
3. `membership_scale_in`: the documented scale-in waits for the new fingerprint
   and a zero gauge, but a request that loaded the old snapshot and is in
   BeginUsage is counted only when it is dispatched, and then goes to the
   removed backend.

Observed without a run of their own: `README.md:119` says that shutdown drains
for up to 5 seconds, `gateway/server.go:21` has 5 minutes; and a choice by ring
reads the owner's health twice, so a request can be labelled
`affinity_failover` although it went to its owner.

## 4. Fairness

* Ledger (`Fairness`): time passes; `maintainAccounts` fires its timer again and
  again on every replica; a statement that the database can finish is finished.
  Nothing forces a request to finish, since its gateway may be gone, and
  nothing forces a failure.  Deadlock victims are covered: the cycle is broken by
  the database, and the replica starts over an hour later.
* Requests (`FairSpec`): a handler goes on where its wait is bounded by
  ReadTimeout (30 s) or accountQueryTimeout (3 s).  There is no WriteTimeout, so
  nothing is assumed of a request that waits for or streams from its backend,
  until its client leaves.
* Membership (`FairSpec`): the holder of `reloadMu` goes on, because health
  probes time out after 2 s.  Both watchers get strong fairness for taking the
  mutex: their tickers repeat for ever, and `sync.Mutex` hands itself over to a
  starving waiter.
* Accounts (`FairSpec`): time passes (`Tick`), and a completion whose key was read
  is recorded or given up: the body is bounded by ReadTimeout (30 s), BeginUsage by
  accountQueryTimeout (3 s).  No call has to arrive, and no other one has to go on.
* Lifecycle (`FairSpec`): `main` goes on, since each of its waits has a timeout
  (15 s for the store, 10 s for a price, 2 s for a probe, 5 min for the drain) or
  waits for something that does: Serve returns after Shutdown or Close, a
  statement ends with its context (3 s, 5 min).  Handlers need not finish,
  listeners need not fail, and no signal has to come.

## 5. Proofs

TLC checks small instances; the theorems below hold for all values of the
constants that the named assumptions allow.  Each module has one inductive
invariant, whose parts say what a place in the code implies for the rest of the
state; the properties follow from it.  The invariants were checked by TLC on the
instances of section 3 before they were proved.

| Module | Theorems | For all | Inductive invariant |
| --- | --- | --- | --- |
| `UsageFiguresProofs` | `SumComputed` | finite sets of requests, amounts | none: facts about operators |
| `UsageLedgerProofs` | `TypeCorrect`, `LocksHeld` (`RollupLocks`), `LedgerImplementsBook` (`ImplementsBook`) | finite sets of requests and replicas, buckets, models, prices, usages, batch sizes, failures | `LedgerInv` |
| `CompletionsProofs` | `TypeCorrect`, `SlotsCorrect` (`SlotsHeld`), `RecordingCorrect` (`RecordedBeforeSent`), `BillingCorrect` (`BilledWasDelivered`), `MeteringCorrect` (`MeteredIsDurable`), `ReportsCorrect` (`ReportsAgree`) | finite sets of requests, slots, finite sets of buckets, crashes | `CompletionsInv` |
| `MembershipProofs` | `TypeCorrect`, `TrafficCorrect` (`ProbedBeforeTraffic`); with `PlainSpelling` also `MapCorrect` (`MapIsRouting`), `GaugeCorrect` (`HealthShown`), `MembersCorrect` (`MembersKept`) | URLs, origins, requests, copies of backends | `MembershipInv`, `PlainInv` |
| `RoutingProofs` | `TypeCorrect`, `TurnsCorrect` (`EvenTurns`), `ChoicesCorrect` (`SteadyPreferred`) | numbers of backends and requests, ring orders | `RoutingInv` |
| `UsageCaptureProofs` | `TypeCorrect`, `TailCorrect` (`TailKept`), `BillingCorrect` (`BilledIsReported`), `MeteringComplete` (`KeptIsBilled`) | ring sizes, limits, bodies, chunks | `CaptureInv` |
| `PortalProofs` | `TypeCorrect`, `GuessesCorrect` (`GuessingLimited`), `SignupCorrect` (`RegisteredWhole`), `AuthorisationCorrect` (`ServedWasAuthorised`), `RevocationCorrect` (`RevokedStaysOut`), `AnswersCorrect` (`AnswersHold`) | emails, calls, tokens, keys, limits, windows | `PortalInv` |
| `LifecycleProofs` | `TypeCorrect`, `StartsCorrect` (`StartsDontCollide`), `WholeStarts` (`StartsWhole`), `WholeStops` (`StopsWhole`), `MetricsCorrect` (`MetricsWhileDraining`), `SettlingCorrect` (`SettledBeforeClose`) | replicas, handlers, schema versions | `LifecycleInv` |

Assumptions on constants are those that the code or its host justifies.  Beside
sizes and limits that are positive, and an absent value (`Null`, `None`) that is
none of the present ones, they are: finitely many requests, and no more of them
than a count in the BIGINT columns can hold (`CompletionsAssumption`); bodies that
are sequences over one alphabet (`CaptureAssumption`); a ring that orders all
backends of a model for each conversation (`RoutingAssumption`).

### The ledger

`RollupLocks` alone is not inductive: that `Commit` moves exactly the claimed
rows out of `Unrolled` and exactly their sum into `daily` needs `Phases` (a
replica holds claims and locks only while it adds, and when it wants no further
daily row, all groups of its batch are staged) and `RowsFilled` (a settled or
pending row has a bucket; a pending row has neither usage nor cost).  With it,
the refinement follows from a few lemmas on sums: `TotalOf` of a disjoint union
is the sum of the totals, it depends only on the rows of its set, and the total
of a single row is its `Contribution`.  A commit is then a stutter of the book
(daily grows by what the unrolled rows lose), so is a delete (of rolled rows),
an expiry is `Lapse`, and FinishUsage is `Settle`.

### Requests

`Entered` ties the book to the insert that was applied, whether its answer came
or not; `Responded` says what the callbacks of the proxy have left behind at each
place of a handler; `Accounted` does the same for the deferred accounting and
observation.  `BilledWasDelivered` and `MeteredIsDurable` are about counts, so the
invariant needs `Balanced`: each count in the book is the number of requests
settled with that outcome, plus, for "incomplete", of those whose row expired.
Types depend on `SlotsHeld`: a slot that is given back must have been taken.
`ReportsAgree` follows from `Responded` and `Accounted`: they relate the status in
the capture to the one written to the client, for each way a response can end.

### Membership

`ProbedBeforeTraffic` holds however URLs are spelled.  Its strengthening, `Probed`,
follows a new backend from `buildRouting` through its first probe to the snapshot,
and `Locked` says what the holder of `reloadMu` has left to probe; a new copy is one
that no snapshot, no map and no request refers to.  The other three need
`PlainSpelling`: every URL of the registry is spelled as `url.Parse(...).String()`
prints it, but for slashes at its end.  Without it they are false, which
`membership_spelling` shows for `MembersKept`; `membership_reload` is an instance
with it.

### Selection

`TurnsAt` says that the turns are the counter, divided into rounds; `ChoiceAt`
that whatever a choice has passed over was seen down since it began.

### Capture

`RingHolds` is stated from the newest symbol backwards: the k-th last symbol that
was read is `k` places before `tailNext`, modulo the size of the ring.  A chunk
that wraps then needs only arithmetic of remainders, and `RingReadsBack` turns it
into the order in which `tail` reads it out.

While the ring has dropped nothing, what is kept is the body, and both billing
properties follow (`WholeKept`).  When the front of a stream is gone, the loop of
`streamUsage` runs over a suffix of the stream's lines, and the argument is an
induction on its symbols.  `Follows` compares the scan of the ring with the scan
of the stream at the same symbol: once past the first end of a line both agree on
where the line begins, and either the scan of the ring has seen no usage yet, or
both have seen the same.  It is kept by every symbol because a line either leaves
what was seen, or replaces it by something that depends on the line alone
(`LineEffect`).  Hence `BilledIsReported`; and a whole line of usage in the ring
ends the first case (`TailKnows`), hence `KeptIsBilled`.

`Scanned` is a recursive function.  That it exists, and the induction over it, rest
on `LeastNumber`: a set of numbers has a least one, so the set of the numbers at
which a fact fails is empty when it has no least member (`Climb`).  It is stated
about sets since a theorem about all predicates cannot be applied here.

### Accounts

`GuessesAt` splits the logins of an email that got to its password, by age, into
those of the window that `attempts` counts and at most `Limit` before it; hence
twice the limit in any window's length, and no better.  `CredAt` says of each stage
of a call what its credential still is: a session or key that is gone never comes
back under a running call.  `Registered` and `SigningAt` give the insert of an email
to one transaction, until all that belongs to the account is committed.

`RevokedStaysOut` is about steps.  Keys are only ever added or revoked (`KeysStep`),
and a token whose cookie or call is still about is not fresh, so no login opens its
session anew (`TokensStep`); a call comes to hold a session or a key only by reading
it while it is good (`UsesStep`).

### Lifecycle

`MigrationAt` says what the holder of the advisory lock has applied compared to
the database; `SocketAt` what each socket can be at each place of `run`; `HeardAt`
that `remaining` is the number of listeners that run plus the answers in the
channel, which is why `collect` neither returns early nor waits for ever; `WorkAt`
that handlers outlive the drain only when they were cut off.

### Model-checked only

* Liveness: `EveryRowPurged`, `SlotsReturned`, `RegistryApplied`, `HealthFollows`,
  `LockoutEnds`, `RevocationTakesEffect`, `Stops`.  TLAPS proves neither liveness under fairness nor ENABLED.

Proved under a hypothesis beside the assumptions: `MapIsRouting`, `HealthShown` and
`MembersKept`, with `PlainSpelling` (see Membership above).

## 6. Plan

All done.

1. `UsageFigures`, `UsageBook`, `UsageLedger`: metering, the core of the system.
2. `UsageLedgerProofs`: type, locks, refinement.
3. `Completions`, `Membership`: the gateway's concurrent parts.
4. `Routing`, `UsageCapture`: algorithms under interference.
5. `Portal`: sessions, revocation, the login limit shared by replicas, with
   `Maintain`'s deletions; columns of bounded width in `UsageLedger`.
6. `Lifecycle`: migration, start, drain, exit of a listener.
7. Theorems: every safety property of the passing runs.

## 7. Not modelled

* The portal's chat view (`web/src/chat.tsx`): its `generation` counter keeps the
  continuations of an older stream away from a newer conversation.  It runs in
  the browser, beside the gateway, and shares no state with it.
* The reports that only read (`DailyUsage`, `publicModelsHandler`, `portalModelsHandler`).

Nor are headers, cookies, JSON error texts, markup, logging, the
development backend and the deployment scripts modelled; they are sequential input
handling or tools.  The hash ring (`buraksezer/consistent`), PostgreSQL, and
`net/http` are external: what the code relies on is stated where it is used.
