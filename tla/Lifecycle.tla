------------------------------ MODULE Lifecycle ------------------------------
(***************************************************************************)
(* A gateway process from its start to its end, on each of the replicas    *)
(* that share a database: the migration of the schema, Run with its two    *)
(* listeners, the drain after a signal or the exit of a listener, and the  *)
(* close of the connection pool.  A process can be killed at any time and  *)
(* is started again.                                                       *)
(***************************************************************************)
EXTENDS Integers, Sequences, FiniteSets

CONSTANTS
    Replicas,
    Handlers,    \* <<replica, n>>: requests that its API can have under way
    WithMetrics, \* replicas with a metrics address
    Latest,      \* schema version of this gateway: 3 in the code
    Null

ASSUME LifecycleAssumption ==
    /\ \A h \in Handlers : h[1] \in Replicas
    /\ WithMetrics \subseteq Replicas
    /\ Latest \in Nat \ {0}
    /\ Null \notin Replicas

VARIABLES
    db,       \* version in schema_migrations, with the tables that belong to it
    lock,     \* holder of the advisory lock of Migrate
    proc,     \* [Replicas -> where the process is, and its variables]
    socket,   \* [Replicas -> state of the API's and the metrics' listener]
    errs,     \* [Replicas -> the channel of the same name]
    pool,     \* [Replicas -> state of the connection pool]
    maintain, \* [Replicas -> state of maintainAccounts]
    work      \* [Handlers -> state of a request's handler]

database == <<db, lock>>
serving == <<socket, errs>>
storing == <<pool, maintain>>
vars == <<database, proc, serving, storing, work>>

Migrating == {"locking", "reading", "migrating"}

Starting == {"new", "opening", "building", "pricing"} \cup Migrating

Binding == {"entering", "probing", "binding api", "binding metrics"}

Serving == {"starting api", "starting metrics", "selecting"}

Stopping == {"draining", "stopping metrics", "collecting"}

Closing == {"returned", "closing"}

Endpoints == {"api", "metrics"}

Process == [at : Starting \cup Binding \cup Serving \cup Stopping \cup Closing
                       \cup {"ended"},
            version   : 0..Latest,      \* of Migrate
            branch    : 1..Latest + 1,  \* next if of Migrate
            signalled : BOOLEAN,        \* ctx.Done()
            remaining : 0..2,
            cut       : BOOLEAN]        \* history: requests were cut off

TypeOK ==
    /\ db \in 0..Latest + 1      \* one more: migrated by a newer gateway
    /\ lock \in Replicas \cup {Null}
    /\ proc \in [Replicas -> Process]
    /\ socket \in [Replicas -> [Endpoints -> {"none", "bound", "open", "closing", "over"}]]
    /\ errs \in [Replicas -> Seq({"closed", "failed"})]
    /\ \A r \in Replicas : Len(errs[r]) <= 2
    /\ pool \in [Replicas -> {"none", "open", "closed"}]
    /\ maintain \in [Replicas -> {"off", "asleep", "statement"}]
    /\ work \in [Handlers -> {"none", "working", "statement", "refused"}]
    /\ lock # Null => proc[lock].at \in {"reading", "migrating"}

Born == [at |-> "new", version |-> 0, branch |-> 1, signalled |-> FALSE,
         remaining |-> 0, cut |-> FALSE]

Init ==
    /\ db \in 0..Latest
    /\ lock = Null
    /\ proc = [r \in Replicas |-> Born]
    /\ socket = [r \in Replicas |-> [l \in Endpoints |-> "none"]]
    /\ errs = [r \in Replicas |-> <<>>]
    /\ pool = [r \in Replicas |-> "none"]
    /\ maintain = [r \in Replicas |-> "off"]
    /\ work = [h \in Handlers |-> "none"]

At(r, place) == proc[r].at = place

Goto(r, place) == proc' = [proc EXCEPT ![r].at = place]

Unlocked(r) == IF lock = r THEN Null ELSE lock
-----------------------------------------------------------------------------
(* openAccountStore, within 15 seconds.                                    *)

Open(r) ==
    /\ At(r, "new")
    /\ Goto(r, "opening")
    /\ pool' = [pool EXCEPT ![r] = "open"]
    /\ UNCHANGED <<database, serving, maintain, work>>

Begin(r) ==
    /\ At(r, "opening")
    /\ Goto(r, "locking")
    /\ UNCHANGED <<database, serving, storing, work>>

\* Mutation of TakeLock: without the lock.
NoLock(r) ==
    /\ At(r, "locking")
    /\ Goto(r, "reading")
    /\ UNCHANGED <<database, serving, storing, work>>

\* pg_advisory_xact_lock: until the end of the transaction.
TakeLock(r) ==
    /\ At(r, "locking") /\ lock = Null
    /\ lock' = r
    /\ Goto(r, "reading")
    /\ UNCHANGED <<db, serving, storing, work>>

\* Mutation of ReadVersion: without if version > 3.
ReadAnyVersion(r) ==
    /\ At(r, "reading")
    /\ proc' = [proc EXCEPT ![r].at = "migrating", ![r].version = db]
    /\ UNCHANGED <<database, serving, storing, work>>

\* The schema of a newer gateway is an error: see StatementFails.
ReadVersion(r) ==
    /\ At(r, "reading") /\ db <= Latest
    /\ proc' = [proc EXCEPT ![r].at = "migrating", ![r].version = db]
    /\ UNCHANGED <<database, serving, storing, work>>

\* This if applies; its tables or its row of schema_migrations may exist.
Applies(r) == At(r, "migrating") /\ proc[r].version = proc[r].branch - 1

Collides(r) == Applies(r) /\ db >= proc[r].branch

\* Mutation of Migrate: without version = 2.
ForgetVersion(r) ==
    /\ At(r, "migrating") /\ proc[r].branch <= Latest
    /\ ~Collides(r)
    /\ proc' = [proc EXCEPT ![r].branch = @ + 1,
                            ![r].version = IF Applies(r) /\ proc[r].branch # 2
                                           THEN @ + 1 ELSE @]
    /\ UNCHANGED <<database, serving, storing, work>>

Migrate(r) ==
    /\ At(r, "migrating") /\ proc[r].branch <= Latest
    /\ ~Collides(r)
    /\ proc' = [proc EXCEPT ![r].branch = @ + 1,
                            ![r].version = IF Applies(r) THEN @ + 1 ELSE @]
    /\ UNCHANGED <<database, serving, storing, work>>

\* With the commit or not: the process may not learn of it.
Commit(r, seen) ==
    /\ At(r, "migrating") /\ proc[r].branch = Latest + 1
    /\ db' = proc[r].version
    /\ lock' = Unlocked(r)
    /\ IF seen
       THEN Goto(r, "building") /\ maintain' = [maintain EXCEPT ![r] = "asleep"]
       ELSE Goto(r, "returned") /\ UNCHANGED maintain
    /\ UNCHANGED <<serving, pool, work>>

\* Of another release, started during or after an upgrade.
NewerGatewayMigrates ==
    /\ lock = Null /\ db <= Latest
    /\ db' = Latest + 1
    /\ UNCHANGED <<lock, proc, serving, storing, work>>
-----------------------------------------------------------------------------
(* The rest of the start.                                                  *)

NewServer(r) ==
    /\ At(r, "building")
    /\ Goto(r, "pricing")
    /\ UNCHANGED <<database, serving, storing, work>>

\* One insert for each priced model; the ledger's module has its effect.
SetPrices(r) ==
    /\ At(r, "pricing")
    /\ Goto(r, "entering")
    /\ UNCHANGED <<database, serving, storing, work>>

\* A statement fails or times out, the schema is too new, the registry is bad:
\* what is open is rolled back, and run returns the error.
StatementFails(r) ==
    /\ proc[r].at \in Starting \ {"new"}
    /\ lock' = Unlocked(r)
    /\ Goto(r, "returned")
    /\ UNCHANGED <<db, serving, storing, work>>
-----------------------------------------------------------------------------
(* Server.Run.                                                             *)

EnterRun(r) ==
    /\ At(r, "entering")
    /\ Goto(r, IF proc[r].signalled THEN "returned" ELSE "probing")
    /\ UNCHANGED <<database, serving, storing, work>>

ProbeBackends(r) ==
    /\ At(r, "probing")
    /\ Goto(r, "binding api")
    /\ UNCHANGED <<database, serving, storing, work>>

ListenAPI(r) ==
    /\ At(r, "binding api")
    /\ socket' = [socket EXCEPT ![r]["api"] = "bound"]
    /\ Goto(r, IF r \in WithMetrics THEN "binding metrics" ELSE "starting api")
    /\ UNCHANGED <<database, errs, storing, work>>

ListenMetrics(r) ==
    /\ At(r, "binding metrics")
    /\ socket' = [socket EXCEPT ![r]["metrics"] = "bound"]
    /\ Goto(r, "starting api")
    /\ UNCHANGED <<database, errs, storing, work>>

\* The deferred api.Close() included.
ListenFails(r) ==
    /\ proc[r].at \in {"binding api", "binding metrics"}
    /\ socket' = [socket EXCEPT ![r]["api"] = "none"]
    /\ Goto(r, "returned")
    /\ UNCHANGED <<database, errs, storing, work>>

StartAPI(r) ==
    /\ At(r, "starting api")
    /\ socket' = [socket EXCEPT ![r]["api"] = "open"]
    /\ proc' = [proc EXCEPT ![r].remaining = 1,
                            ![r].at = IF r \in WithMetrics THEN "starting metrics"
                                      ELSE "selecting"]
    /\ UNCHANGED <<database, errs, storing, work>>

\* Mutation of StartMetrics: without remaining++.
StartUncounted(r) ==
    /\ At(r, "starting metrics")
    /\ socket' = [socket EXCEPT ![r]["metrics"] = "open"]
    /\ Goto(r, "selecting")
    /\ UNCHANGED <<database, errs, storing, work>>

StartMetrics(r) ==
    /\ At(r, "starting metrics")
    /\ socket' = [socket EXCEPT ![r]["metrics"] = "open"]
    /\ proc' = [proc EXCEPT ![r].at = "selecting", ![r].remaining = @ + 1]
    /\ UNCHANGED <<database, errs, storing, work>>

\* Serve returns in its goroutine: because of Shutdown or Close, or by itself.
ServeReturns(r, l) ==
    /\ socket[r][l] \in {"open", "closing"}
    /\ errs' = [errs EXCEPT ![r] = Append(@, IF socket[r][l] = "closing" THEN "closed"
                                             ELSE "failed")]
    /\ socket' = [socket EXCEPT ![r][l] = "over"]
    /\ UNCHANGED <<database, proc, storing, work>>

Handling(r) == {h \in Handlers : h[1] = r /\ work[h] # "none"}

\* No new connections at an endpoint; one that has exited stays so.
Closed(state) == IF state = "open" THEN "closing" ELSE state

CloseServers(r) == [l \in Endpoints |-> Closed(socket[r][l])]

\* Mutation of ListenerExited: without closeServers().
ListenerExitedAlone(r) ==
    /\ At(r, "selecting") /\ errs[r] # <<>>
    /\ errs' = [errs EXCEPT ![r] = Tail(@)]
    /\ proc' = [proc EXCEPT ![r].at = "collecting", ![r].remaining = @ - 1,
                            ![r].cut = Handling(r) # {}]
    /\ UNCHANGED <<database, socket, storing, work>>

\* Close, not Shutdown: connections of requests are closed as well.
ListenerExited(r) ==
    /\ At(r, "selecting") /\ errs[r] # <<>>
    /\ errs' = [errs EXCEPT ![r] = Tail(@)]
    /\ socket' = [socket EXCEPT ![r] = CloseServers(r)]
    /\ proc' = [proc EXCEPT ![r].at = "collecting", ![r].remaining = @ - 1,
                            ![r].cut = Handling(r) # {}]
    /\ UNCHANGED <<database, storing, work>>

\* Mutation of ShutdownAPI: both at once.
ShutdownBoth(r) ==
    /\ At(r, "selecting") /\ proc[r].signalled
    /\ socket' = [socket EXCEPT ![r] = CloseServers(r)]
    /\ Goto(r, "draining")
    /\ UNCHANGED <<database, errs, storing, work>>

ShutdownAPI(r) ==
    /\ At(r, "selecting") /\ proc[r].signalled
    /\ socket' = [socket EXCEPT ![r]["api"] = Closed(@)]
    /\ Goto(r, "draining")
    /\ UNCHANGED <<database, errs, storing, work>>

\* Mutation of Drained: Shutdown does not wait.
DrainedAtOnce(r) ==
    /\ At(r, "draining")
    /\ Goto(r, "stopping metrics")
    /\ UNCHANGED <<database, serving, storing, work>>

Drained(r) ==
    /\ At(r, "draining") /\ Handling(r) = {}
    /\ Goto(r, "stopping metrics")
    /\ UNCHANGED <<database, serving, storing, work>>

\* shutdownTimeout has passed: Close cuts the requests off; their handlers run on.
DrainTimesOut(r) ==
    /\ At(r, "draining") /\ Handling(r) # {}
    /\ proc' = [proc EXCEPT ![r].at = "stopping metrics", ![r].cut = TRUE]
    /\ UNCHANGED <<database, serving, storing, work>>

\* In time or not: closeServers() follows.
ShutdownMetrics(r) ==
    /\ At(r, "stopping metrics")
    /\ socket' = [socket EXCEPT ![r] = CloseServers(r)]
    /\ Goto(r, "collecting")
    /\ UNCHANGED <<database, errs, storing, work>>

Collect(r) ==
    /\ At(r, "collecting") /\ proc[r].remaining > 0 /\ errs[r] # <<>>
    /\ errs' = [errs EXCEPT ![r] = Tail(@)]
    /\ proc' = [proc EXCEPT ![r].remaining = @ - 1]
    /\ UNCHANGED <<database, socket, storing, work>>

RunReturns(r) ==
    /\ At(r, "collecting") /\ proc[r].remaining = 0
    /\ Goto(r, "returned")
    /\ UNCHANGED <<database, serving, storing, work>>
-----------------------------------------------------------------------------
(* The deferred calls of run, the last one first: store.Close, then stop.  *)

\* From now on the pool refuses; Close waits for what it has given out.
CloseStore(r) ==
    /\ At(r, "returned")
    /\ pool' = [pool EXCEPT ![r] = "closed"]
    /\ Goto(r, "closing")
    /\ UNCHANGED <<database, serving, maintain, work>>

Busy(r) == \/ maintain[r] = "statement"
           \/ \E h \in Handlers : h[1] = r /\ work[h] = "statement"

\* What the end of a process does to its goroutines and to the kernel's state.
Gone(r) ==
    /\ Goto(r, "ended")
    /\ socket' = [socket EXCEPT ![r] = [l \in Endpoints |-> "none"]]
    /\ errs' = [errs EXCEPT ![r] = <<>>]
    /\ pool' = [pool EXCEPT ![r] = "none"]
    /\ maintain' = [maintain EXCEPT ![r] = "off"]
    /\ work' = [h \in Handlers |-> IF h[1] = r THEN "none" ELSE work[h]]

Exit(r) ==
    /\ At(r, "closing") /\ ~Busy(r)
    /\ Gone(r)
    /\ UNCHANGED database

\* The database rolls back the transaction of a lost connection.
Kill(r) ==
    /\ proc[r].at \notin {"new", "ended"}
    /\ Gone(r)
    /\ lock' = Unlocked(r)
    /\ UNCHANGED db

Restart(r) ==
    /\ At(r, "ended")
    /\ proc' = [proc EXCEPT ![r] = Born]
    /\ UNCHANGED <<database, serving, storing, work>>

\* SIGTERM or an interrupt.
Signal(r) ==
    /\ proc[r].at \notin {"new", "ended"} /\ ~proc[r].signalled
    /\ proc' = [proc EXCEPT ![r].signalled = TRUE]
    /\ UNCHANGED <<database, serving, storing, work>>
-----------------------------------------------------------------------------
(* Who uses the pool beside the start.                                     *)

MaintainStatement(r) ==
    /\ maintain[r] = "asleep" /\ pool[r] = "open" /\ ~proc[r].signalled
    /\ maintain' = [maintain EXCEPT ![r] = "statement"]
    /\ UNCHANGED <<database, proc, serving, pool, work>>

\* Its answer, or the end of the context: a signal, or five minutes.
MaintainAnswered(r) ==
    /\ maintain[r] = "statement"
    /\ maintain' = [maintain EXCEPT ![r] = "asleep"]
    /\ UNCHANGED <<database, proc, serving, pool, work>>

Accept(h) ==
    /\ socket[h[1]]["api"] = "open" /\ work[h] = "none"
    /\ work' = [work EXCEPT ![h] = "working"]
    /\ UNCHANGED <<database, proc, serving, storing>>

Query(h) ==
    /\ work[h] = "working"
    /\ work' = [work EXCEPT ![h] = IF pool[h[1]] = "open" THEN "statement" ELSE "refused"]
    /\ UNCHANGED <<database, proc, serving, storing>>

\* Or the end of its context, three seconds at most.
Answered(h) ==
    /\ work[h] = "statement"
    /\ work' = [work EXCEPT ![h] = "working"]
    /\ UNCHANGED <<database, proc, serving, storing>>

Finish(h) ==
    /\ work[h] \in {"working", "refused"}
    /\ work' = [work EXCEPT ![h] = "none"]
    /\ UNCHANGED <<database, proc, serving, storing>>
-----------------------------------------------------------------------------
Migration(r) ==
    \/ Open(r) \/ Begin(r) \/ TakeLock(r) \/ ReadVersion(r) \/ Migrate(r)
    \/ \E seen \in BOOLEAN : Commit(r, seen)
    \/ StatementFails(r)

Run(r) ==
    \/ EnterRun(r) \/ ProbeBackends(r)
    \/ ListenAPI(r) \/ ListenMetrics(r) \/ ListenFails(r)
    \/ StartAPI(r) \/ StartMetrics(r)
    \/ ListenerExited(r) \/ ShutdownAPI(r)
    \/ Drained(r) \/ DrainTimesOut(r) \/ ShutdownMetrics(r)
    \/ Collect(r) \/ RunReturns(r)

Main(r) ==
    \/ Migration(r) \/ NewServer(r) \/ SetPrices(r)
    \/ Run(r)
    \/ CloseStore(r) \/ Exit(r)

Next ==
    \/ \E r \in Replicas :
          \/ Main(r) \/ Kill(r) \/ Restart(r) \/ Signal(r)
          \/ \E l \in Endpoints : ServeReturns(r, l)
          \/ MaintainStatement(r) \/ MaintainAnswered(r)
    \/ \E h \in Handlers : Accept(h) \/ Query(h) \/ Answered(h) \/ Finish(h)
    \/ NewerGatewayMigrates

Spec == Init /\ [][Next]_vars

(***************************************************************************)
(* main goes on, since each of its waits has a timeout; Serve returns once *)
(* it was told to; statements end with their contexts.  Listeners need not *)
(* fail, handlers need not finish, and nobody is forced to send a signal.  *)
(***************************************************************************)
FairSpec ==
    /\ Spec
    /\ \A r \in Replicas :
          /\ WF_vars(Main(r)) /\ WF_vars(MaintainAnswered(r))
          /\ \A l \in Endpoints : WF_vars(socket[r][l] = "closing" /\ ServeReturns(r, l))
    /\ \A h \in Handlers : WF_vars(Answered(h))
-----------------------------------------------------------------------------
(***************************************************************************)
(* The advisory lock of Migrate: no start fails on what the migration of   *)
(* another replica, killed or not, has created in the meantime.            *)
(***************************************************************************)
StartsDontCollide == \A r \in Replicas : ~Collides(r)

(***************************************************************************)
(* "A configuration error must not leave a partially running gateway       *)
(* behind": requests and maintenance find every table they use, and the    *)
(* API takes requests only when the metrics socket is bound as well.       *)
(***************************************************************************)
StartsWhole ==
    \A r \in Replicas :
        /\ maintain[r] # "off" => db >= Latest
        /\ socket[r]["api"] = "open" =>
              /\ db >= Latest
              /\ r \in WithMetrics => socket[r]["metrics"] # "none"

(***************************************************************************)
(* "An exited listener must not leave its sibling running": when Run has   *)
(* returned, however it went, both listeners are gone, and the goroutines  *)
(* that served them have been heard.                                       *)
(***************************************************************************)
StopsWhole ==
    \A r \in Replicas : proc[r].at \in Closing =>
        \A l \in Endpoints : socket[r][l] \in {"none", "over"} /\ errs[r] = <<>>

(***************************************************************************)
(* "Keep metrics available while active API requests drain": unless the    *)
(* metrics listener fails by itself.                                       *)
(***************************************************************************)
MetricsWhileDraining ==
    \A r \in WithMetrics : At(r, "draining") =>
        \/ socket[r]["metrics"] = "open"
        \/ \E i \in DOMAIN errs[r] : errs[r][i] = "failed"

(***************************************************************************)
(* The pool is closed after the drain: a request that is not cut off by    *)
(* the timeout or by the exit of a listener can still settle its usage.    *)
(***************************************************************************)
SettledBeforeClose ==
    \A h \in Handlers : work[h] = "refused" => proc[h[1]].cut

(***************************************************************************)
(* A signal, or the exit of a listener, ends the process, whatever it was  *)
(* doing, although store.Close waits for maintenance that nobody has told  *)
(* to stop when no signal came.                                            *)
(***************************************************************************)
Stops ==
    \A r \in Replicas :
        (proc[r].signalled \/ errs[r] # <<>>) ~> At(r, "ended")
=============================================================================
