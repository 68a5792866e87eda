-------------------------- MODULE LifecycleProofs ---------------------------
(***************************************************************************)
(* Proofs about Lifecycle for every number of replicas, handlers and       *)
(* schema versions.                                                        *)
(***************************************************************************)
EXTENDS Lifecycle, TLAPS

-----------------------------------------------------------------------------
(* The inductive invariant, by the place of a process.                     *)

\* Places before the first statement of the migration; with a migrated schema;
\* and with nothing bound.
Fresh == {"new", "opening", "locking", "reading"}

Migrated == {"building", "pricing"} \cup Binding \cup Serving \cup Stopping

Unbound == Starting \cup {"entering", "probing", "binding api", "ended"}

\* What a process that migrates has applied so far; its lock keeps everyone
\* else from changing the schema.
MigrationAt(r) ==
    /\ At(r, "reading") \/ At(r, "migrating") <=> lock = r
    /\ proc[r].at \in Fresh => proc[r].branch = 1
    /\ At(r, "migrating") =>
          /\ db <= Latest
          /\ proc[r].version >= db /\ proc[r].version >= proc[r].branch - 1
          /\ proc[r].version = db \/ proc[r].version = proc[r].branch - 1
    /\ proc[r].at \in Migrated => db >= Latest
    /\ maintain[r] # "off" => db >= Latest

\* The states of an endpoint's socket.  Without a metrics address there is one
\* endpoint.
Absent(r, l) == l = "metrics" /\ r \notin WithMetrics

SocketAt(r, l) ==
    LET s == socket[r][l]
    IN  /\ proc[r].at \in Unbound => s = "none"
        /\ At(r, "binding metrics") => s = IF l = "api" THEN "bound" ELSE "none"
        /\ At(r, "binding metrics") \/ At(r, "starting metrics") => r \in WithMetrics
        /\ At(r, "starting api") => s = IF Absent(r, l) THEN "none" ELSE "bound"
        /\ At(r, "starting metrics") =>
              IF l = "metrics" THEN s = "bound" ELSE s \in {"open", "over"}
        /\ proc[r].at \in {"selecting"} \cup Stopping =>
              IF Absent(r, l) THEN s = "none" ELSE s \in {"open", "closing", "over"}
        /\ At(r, "selecting") => s # "closing"
        /\ proc[r].at \in {"draining", "stopping metrics"} =>
              IF l = "metrics" THEN s # "closing" ELSE s # "open"
        /\ At(r, "collecting") => s # "open"
        /\ proc[r].at \in Closing => s \in {"none", "over"}

\* What is heard from a listener: remaining counts those that run and the
\* answers in the channel, and one that has failed is heard of.
Runs(r, l) == IF socket[r][l] \in {"open", "closing"} THEN 1 ELSE 0

Hearing == {"starting metrics", "selecting"} \cup Stopping

HeardAt(r) ==
    /\ proc[r].at \in Hearing =>
          proc[r].remaining = Runs(r, "api") + Runs(r, "metrics") + Len(errs[r])
    /\ At(r, "starting metrics") => proc[r].remaining = 1
    /\ proc[r].at \notin Hearing => errs[r] = <<>>
    /\ proc[r].at \in {"selecting", "draining"} /\ socket[r]["metrics"] = "over" =>
          \E i \in DOMAIN errs[r] : errs[r][i] = "failed"

PoolAt(r) == proc[r].at \notin {"new", "closing", "ended"} => pool[r] = "open"

\* Handlers that outlive the drain, or the exit of a listener, were cut off.
WorkAt(h) ==
    /\ work[h] # "none" =>
          proc[h[1]].at \in {"starting metrics", "selecting", "draining"} \/ proc[h[1]].cut
    /\ proc[h[1]].at \in Unbound \cup {"binding metrics", "starting api"} => work[h] = "none"
    /\ work[h] = "refused" => proc[h[1]].cut

LifecycleInv ==
    /\ TypeOK
    /\ \A r \in Replicas : MigrationAt(r)
    /\ \A r \in Replicas : \A l \in Endpoints : SocketAt(r, l)
    /\ \A r \in Replicas : HeardAt(r)
    /\ \A r \in Replicas : PoolAt(r)
    /\ \A h \in Handlers : WorkAt(h)

-----------------------------------------------------------------------------
(* What a step does to the record of its process.                          *)

\* A process that only goes to another place.
LEMMA GotoFields ==
    ASSUME TypeOK, NEW r \in Replicas, NEW place, Goto(r, place)
    PROVE  /\ proc'[r].at = place
           /\ proc'[r].version = proc[r].version /\ proc'[r].branch = proc[r].branch
           /\ proc'[r].signalled = proc[r].signalled
           /\ proc'[r].remaining = proc[r].remaining /\ proc'[r].cut = proc[r].cut
           /\ \A q \in Replicas \ {r} : proc'[q] = proc[q]
<1>1. proc \in [Replicas -> Process]
  BY DEF TypeOK
<1> QED
  BY <1>1 DEF Process, Goto

\* The steps that change more of it.
LEMMA ReadFields ==
    ASSUME TypeOK, NEW r \in Replicas, ReadVersion(r)
    PROVE  /\ proc'[r].at = "migrating" /\ proc'[r].version = db
           /\ proc'[r].branch = proc[r].branch
           /\ proc'[r].remaining = proc[r].remaining /\ proc'[r].cut = proc[r].cut
           /\ \A q \in Replicas \ {r} : proc'[q] = proc[q]
<1>1. proc \in [Replicas -> Process]
  BY DEF TypeOK
<1> QED
  BY <1>1 DEF Process, ReadVersion

\* A branch of Migrate that applies moves the version, and is left either way.
LEMMA MigrateFields ==
    ASSUME TypeOK, NEW r \in Replicas, Migrate(r)
    PROVE  /\ proc'[r].at = proc[r].at
           /\ proc'[r].version = IF Applies(r) THEN proc[r].version + 1 ELSE proc[r].version
           /\ proc'[r].branch = proc[r].branch + 1
           /\ proc'[r].remaining = proc[r].remaining /\ proc'[r].cut = proc[r].cut
           /\ \A q \in Replicas \ {r} : proc'[q] = proc[q]
<1>1. proc \in [Replicas -> Process]
  BY DEF TypeOK
<1> QED
  BY <1>1 DEF Process, Migrate

\* The API is served first, and its result is the one to wait for.
LEMMA StartFields ==
    ASSUME TypeOK, NEW r \in Replicas, StartAPI(r)
    PROVE  /\ proc'[r].at = IF r \in WithMetrics THEN "starting metrics" ELSE "selecting"
           /\ proc'[r].remaining = 1 /\ proc'[r].cut = proc[r].cut
           /\ proc'[r].version = proc[r].version /\ proc'[r].branch = proc[r].branch
           /\ \A q \in Replicas \ {r} : proc'[q] = proc[q]
<1>1. proc \in [Replicas -> Process]
  BY DEF TypeOK
<1> QED
  BY <1>1 DEF Process, StartAPI

\* The metrics listener is one more result to wait for.
LEMMA MetricsFields ==
    ASSUME TypeOK, NEW r \in Replicas, StartMetrics(r)
    PROVE  /\ proc'[r].at = "selecting" /\ proc'[r].remaining = proc[r].remaining + 1
           /\ proc'[r].cut = proc[r].cut
           /\ proc'[r].version = proc[r].version /\ proc'[r].branch = proc[r].branch
           /\ \A q \in Replicas \ {r} : proc'[q] = proc[q]
<1>1. proc \in [Replicas -> Process]
  BY DEF TypeOK
<1> QED
  BY <1>1 DEF Process, StartMetrics

\* A listener that exits has its result counted off and cuts the other one off.
LEMMA ExitedFields ==
    ASSUME TypeOK, NEW r \in Replicas, ListenerExited(r)
    PROVE  /\ proc'[r].at = "collecting" /\ proc'[r].remaining = proc[r].remaining - 1
           /\ proc'[r].cut = (Handling(r) # {})
           /\ proc'[r].version = proc[r].version /\ proc'[r].branch = proc[r].branch
           /\ \A q \in Replicas \ {r} : proc'[q] = proc[q]
<1>1. proc \in [Replicas -> Process]
  BY DEF TypeOK
<1> QED
  BY <1>1 DEF Process, ListenerExited

\* Collecting a result counts it off.
LEMMA CollectFields ==
    ASSUME TypeOK, NEW r \in Replicas, Collect(r)
    PROVE  /\ proc'[r].at = proc[r].at /\ proc'[r].remaining = proc[r].remaining - 1
           /\ proc'[r].cut = proc[r].cut
           /\ proc'[r].version = proc[r].version /\ proc'[r].branch = proc[r].branch
           /\ \A q \in Replicas \ {r} : proc'[q] = proc[q]
<1>1. proc \in [Replicas -> Process]
  BY DEF TypeOK
<1> QED
  BY <1>1 DEF Process, Collect

\* A drain that runs out of time cuts requests off.
LEMMA CutFields ==
    ASSUME TypeOK, NEW r \in Replicas, DrainTimesOut(r)
    PROVE  /\ proc'[r].at = "stopping metrics" /\ proc'[r].remaining = proc[r].remaining
           /\ proc'[r].cut
           /\ proc'[r].version = proc[r].version /\ proc'[r].branch = proc[r].branch
           /\ \A q \in Replicas \ {r} : proc'[q] = proc[q]
<1>1. proc \in [Replicas -> Process]
  BY DEF TypeOK
<1> QED
  BY <1>1 DEF Process, DrainTimesOut

\* A new process of a replica starts from nothing.
LEMMA RestartFields ==
    ASSUME TypeOK, NEW r \in Replicas, Restart(r)
    PROVE  /\ proc'[r].at = "new" /\ proc'[r].remaining = 0
           /\ ~proc'[r].cut /\ proc'[r].version = 0 /\ proc'[r].branch = 1
           /\ \A q \in Replicas \ {r} : proc'[q] = proc[q]
<1>1. proc \in [Replicas -> Process]
  BY DEF TypeOK
<1> QED
  BY <1>1 DEF Process, Restart, Born

\* A signal is noted and moves nothing.
LEMMA SignalFields ==
    ASSUME TypeOK, NEW r \in Replicas, Signal(r)
    PROVE  /\ proc'[r].at = proc[r].at /\ proc'[r].remaining = proc[r].remaining
           /\ proc'[r].cut = proc[r].cut
           /\ proc'[r].version = proc[r].version /\ proc'[r].branch = proc[r].branch
           /\ \A q \in Replicas \ {r} : proc'[q] = proc[q]
<1>1. proc \in [Replicas -> Process]
  BY DEF TypeOK
<1> QED
  BY <1>1 DEF Process, Signal

\* An endpoint's socket changes, and no other.
LEMMA SocketFields ==
    ASSUME TypeOK, NEW r \in Replicas, NEW e \in Endpoints, NEW state,
           socket' = [socket EXCEPT ![r][e] = state]
    PROVE  /\ socket'[r][e] = state
           /\ \A l \in Endpoints \ {e} : socket'[r][l] = socket[r][l]
           /\ \A q \in Replicas \ {r} : socket'[q] = socket[q]
<1> DEFINE State == {"none", "bound", "open", "closing", "over"}
<1>1. socket \in [Replicas -> [Endpoints -> State]]
  BY DEF TypeOK
<1> HIDE DEF State
<1> QED
  BY <1>1

-----------------------------------------------------------------------------
(* The migration.                                                          *)

\* The process whose migration runs holds the lock, so that nobody else
\* changes the schema; the schema never gets older.
LEMMA MigrationStep ==
    TypeOK /\ (\A r \in Replicas : MigrationAt(r)) /\ [Next]_vars
      => \A r \in Replicas : MigrationAt(r)'
<1> SUFFICES ASSUME TypeOK, \A r \in Replicas : MigrationAt(r), [Next]_vars
             PROVE  \A r \in Replicas : MigrationAt(r)'
  OBVIOUS
<1>0. /\ Null \notin Replicas /\ Latest \in Nat \ {0} /\ db \in Nat
      /\ lock \in Replicas \cup {Null}
      /\ \A q \in Replicas : /\ proc[q].version \in 0..Latest
                             /\ proc[q].branch \in 1..Latest + 1
      /\ maintain \in [Replicas -> {"off", "asleep", "statement"}]
  BY LifecycleAssumption DEF TypeOK, Process
<1> USE <1>0 DEF database, serving, storing
<1>1. ASSUME NEW r \in Replicas, UNCHANGED <<db, lock>>,
             \A q \in Replicas \ {r} : proc'[q] = proc[q],
             \A q \in Replicas : maintain'[q] # "off" => maintain[q] # "off",
             proc'[r].version = proc[r].version, proc'[r].branch = proc[r].branch,
             \/ proc'[r].at = proc[r].at
             \/ /\ proc[r].at \notin {"reading", "migrating"}
                /\ proc'[r].at \notin {"reading", "migrating"}
                /\ proc'[r].at \in Fresh => proc[r].at \in Fresh
                /\ proc'[r].at \in Migrated => proc[r].at \in Migrated
      PROVE  \A q \in Replicas : MigrationAt(q)'
  <2>1. ASSUME NEW q \in Replicas, q # r PROVE MigrationAt(q)'
    BY <1>1, <2>1 DEF MigrationAt, At
  <2>2. MigrationAt(r)'
    BY <1>1 DEF MigrationAt, At
  <2> QED
    BY <2>1, <2>2
<1>2. ASSUME NEW r \in Replicas, Open(r) \/ Begin(r)
      PROVE  \A q \in Replicas : MigrationAt(q)'
  <2>1. proc[r].at \in {"new", "opening"} /\ proc'[r].at \in {"opening", "locking"}
    BY <1>2, GotoFields DEF Open, Begin, At
  <2>2. /\ proc[r].at \notin {"reading", "migrating"} /\ proc'[r].at \notin {"reading", "migrating"}
        /\ proc[r].at \in Fresh /\ proc'[r].at \notin Migrated
    BY <2>1 DEF Fresh, Migrated, Binding, Serving, Stopping
  <2> QED
    BY <1>1, <1>2, <2>2, GotoFields DEF Open, Begin
<1>3. ASSUME NEW r \in Replicas, NEW q \in Replicas, q # r, lock \in {Null, r},
             lock' \in {Null, r}, db' \in Nat, db' >= db,
             proc'[q] = proc[q], maintain'[q] = maintain[q]
      PROVE  MigrationAt(q)'
  <2>1. proc[q].at \notin {"reading", "migrating"}
    BY <1>3 DEF MigrationAt, At
  <2> QED
    BY <1>3, <2>1 DEF MigrationAt, At
<1>4. ASSUME NEW r \in Replicas, TakeLock(r)
      PROVE  \A q \in Replicas : MigrationAt(q)'
  <2>1. proc[r].at = "locking" /\ proc'[r].at = "reading" /\ "locking" \in Fresh
        /\ "reading" \notin Migrated
    BY <1>4, GotoFields DEF TakeLock, At, Fresh, Migrated, Binding, Serving, Stopping
  <2>2. MigrationAt(r)'
    BY <1>4, <2>1, GotoFields DEF TakeLock, MigrationAt, At
  <2>3. ASSUME NEW q \in Replicas, q # r PROVE MigrationAt(q)'
    BY <1>3, <1>4, <2>3, GotoFields DEF TakeLock
  <2> QED
    BY <2>2, <2>3
<1>5. ASSUME NEW r \in Replicas, ReadVersion(r)
      PROVE  \A q \in Replicas : MigrationAt(q)'
  <2>1. proc[r].at = "reading" /\ proc'[r].at = "migrating" /\ "reading" \in Fresh
        /\ "migrating" \notin Migrated \cup Fresh
    BY <1>5, ReadFields DEF ReadVersion, At, Fresh, Migrated, Binding, Serving, Stopping
  <2>2. lock = r /\ UNCHANGED <<db, lock, maintain>> /\ db <= Latest
    BY <1>5, <2>1 DEF ReadVersion, MigrationAt, At
  <2>3. MigrationAt(r)'
    <3>1. proc'[r].version = db /\ proc'[r].branch = 1
      BY <1>5, <2>1, ReadFields DEF MigrationAt
    <3> QED
      BY <2>1, <2>2, <3>1 DEF MigrationAt, At
  <2>4. ASSUME NEW q \in Replicas, q # r PROVE MigrationAt(q)'
    BY <1>3, <1>5, <2>2, <2>4, ReadFields
  <2> QED
    BY <2>3, <2>4
<1>6. ASSUME NEW r \in Replicas, Migrate(r)
      PROVE  \A q \in Replicas : MigrationAt(q)'
  <2>1. proc[r].at = "migrating" /\ proc'[r].at = "migrating"
        /\ "migrating" \notin Migrated \cup Fresh
    BY <1>6, MigrateFields DEF Migrate, At, Fresh, Migrated, Binding, Serving, Stopping
  <2>2. lock = r /\ UNCHANGED <<db, lock, maintain>> /\ db <= Latest
    BY <1>6, <2>1 DEF Migrate, MigrationAt, At
  <2>3. MigrationAt(r)'
    <3>1. /\ proc'[r].branch = proc[r].branch + 1
          /\ proc'[r].version = IF proc[r].version = proc[r].branch - 1
                                THEN proc[r].version + 1 ELSE proc[r].version
      BY <1>6, <2>1, MigrateFields DEF Applies, At
    <3> QED
      BY <2>1, <2>2, <3>1 DEF MigrationAt, At
  <2>4. ASSUME NEW q \in Replicas, q # r PROVE MigrationAt(q)'
    BY <1>3, <1>6, <2>2, <2>4, MigrateFields
  <2> QED
    BY <2>3, <2>4
<1>7. ASSUME NEW r \in Replicas, NEW seen \in BOOLEAN, Commit(r, seen)
      PROVE  \A q \in Replicas : MigrationAt(q)'
  <2>1. At(r, "migrating") /\ lock = r /\ db' = Latest /\ db <= Latest /\ lock' = Null
    BY <1>7 DEF Commit, MigrationAt, At, Unlocked
  <2>2. /\ proc'[r].at \in {"building", "returned"}
        /\ proc'[r].branch = proc[r].branch /\ proc'[r].version = proc[r].version
        /\ \A q \in Replicas \ {r} : proc'[q] = proc[q] /\ maintain'[q] = maintain[q]
    BY <1>7, GotoFields DEF Commit
  <2>3. proc'[r].at \notin Fresh \cup {"reading", "migrating"}
    BY <2>2 DEF Fresh
  <2>4. MigrationAt(r)'
    BY <2>1, <2>2, <2>3 DEF MigrationAt, At
  <2> QED
    BY <1>3, <2>1, <2>2, <2>4
<1>8. ASSUME NEW r \in Replicas, UNCHANGED <<db, maintain>>, lock' = Unlocked(r),
             proc'[r].at \notin Fresh \cup Migrated \cup {"migrating"},
             \A q \in Replicas \ {r} : proc'[q] = proc[q]
      PROVE  \A q \in Replicas : MigrationAt(q)'
  <2>1. MigrationAt(r)'
    BY <1>8 DEF MigrationAt, At, Unlocked, Fresh
  <2>2. ASSUME NEW q \in Replicas, q # r PROVE MigrationAt(q)'
    BY <1>8, <2>2 DEF MigrationAt, At, Unlocked
  <2> QED
    BY <2>1, <2>2
<1>9. ASSUME NEW r \in Replicas, StatementFails(r)
      PROVE  \A q \in Replicas : MigrationAt(q)'
  <2>1. proc'[r].at = "returned"
    BY <1>9, GotoFields DEF StatementFails
  <2>2. proc'[r].at \notin Fresh \cup Migrated \cup {"migrating"}
    BY <2>1 DEF Fresh, Migrated, Binding, Serving, Stopping
  <2> QED
    BY <1>8, <1>9, <2>2, GotoFields DEF StatementFails
<1>10. ASSUME NEW r \in Replicas, UNCHANGED <<db, lock>>,
              \A q \in Replicas \ {r} : proc'[q] = proc[q],
              \A q \in Replicas : maintain'[q] # "off" => maintain[q] # "off",
              proc'[r].version = proc[r].version, proc'[r].branch = proc[r].branch,
              \/ proc[r].at \in Migrated /\ proc'[r].at \in Migrated \cup {"returned"}
              \/ proc[r].at \in Closing /\ proc'[r].at \in {"closing", "ended"}
       PROVE  \A q \in Replicas : MigrationAt(q)'
  <2>1. /\ proc[r].at \notin {"reading", "migrating"}
        /\ proc'[r].at \notin {"reading", "migrating"} \cup Fresh
        /\ proc'[r].at \in Migrated => proc[r].at \in Migrated
    BY <1>10 DEF Fresh, Migrated, Binding, Serving, Stopping, Closing
  <2> QED
    BY <1>1, <1>10, <2>1
<1>11. ASSUME NEW r \in Replicas,
              \/ NewServer(r) \/ SetPrices(r) \/ EnterRun(r) \/ ProbeBackends(r) \/ ListenAPI(r)
              \/ ListenMetrics(r) \/ ListenFails(r)
       PROVE  \A q \in Replicas : MigrationAt(q)'
  <2>1. /\ proc[r].at \in {"building", "pricing"} \cup Binding
        /\ \E place \in {"pricing", "starting api", "returned"} \cup Binding : Goto(r, place)
        /\ UNCHANGED <<db, lock, maintain>>
    BY <1>11 DEF NewServer, SetPrices, EnterRun, ProbeBackends, ListenAPI, ListenMetrics,
       ListenFails, At, Binding
  <2>2. /\ proc[r].at \in Migrated
        /\ \E place \in Migrated \cup {"returned"} : Goto(r, place)
    BY <2>1 DEF Migrated, Serving
  <2>3. /\ proc'[r].at \in Migrated \cup {"returned"}
        /\ proc'[r].version = proc[r].version /\ proc'[r].branch = proc[r].branch
        /\ \A q \in Replicas \ {r} : proc'[q] = proc[q]
    BY <2>2, GotoFields
  <2> QED
    BY <1>10, <2>1, <2>2, <2>3
<1>12. ASSUME NEW r \in Replicas,
              ShutdownAPI(r) \/ Drained(r) \/ ShutdownMetrics(r) \/ RunReturns(r)
       PROVE  \A q \in Replicas : MigrationAt(q)'
  <2>1. /\ proc[r].at \in {"selecting"} \cup Stopping
        /\ \E place \in {"returned"} \cup Stopping : Goto(r, place)
        /\ UNCHANGED <<db, lock, maintain>>
    BY <1>12 DEF ShutdownAPI, Drained, ShutdownMetrics, RunReturns, At, Stopping
  <2>2. /\ proc[r].at \in Migrated
        /\ \E place \in Migrated \cup {"returned"} : Goto(r, place)
    BY <2>1 DEF Migrated, Serving
  <2> QED
    BY <1>10, <2>1, <2>2, GotoFields
<1>13. ASSUME NEW r \in Replicas, CloseStore(r) \/ Exit(r)
       PROVE  \A q \in Replicas : MigrationAt(q)'
  <2>1. /\ proc[r].at \in Closing
        /\ \E place \in {"closing", "ended"} : Goto(r, place)
        /\ UNCHANGED <<db, lock>>
        /\ \A q \in Replicas : maintain'[q] # "off" => maintain[q] # "off"
    BY <1>13 DEF CloseStore, Exit, Gone, At, Closing
  <2> QED
    BY <1>10, <2>1, GotoFields
<1>14. ASSUME NEW r \in Replicas,
              \/ StartAPI(r) \/ StartMetrics(r) \/ ListenerExited(r) \/ DrainTimesOut(r)
              \/ Collect(r)
       PROVE  \A q \in Replicas : MigrationAt(q)'
  <2>1. /\ UNCHANGED <<db, lock, maintain>>
        /\ proc[r].at \in {"starting api", "starting metrics", "selecting", "draining", "collecting"}
    BY <1>14 DEF StartAPI, StartMetrics, ListenerExited, DrainTimesOut, Collect, At
  <2>2. /\ \/ proc'[r].at = proc[r].at
           \/ proc'[r].at \in {"starting metrics", "selecting", "stopping metrics", "collecting"}
        /\ proc'[r].version = proc[r].version /\ proc'[r].branch = proc[r].branch
        /\ \A q \in Replicas \ {r} : proc'[q] = proc[q]
    BY <1>14, StartFields, MetricsFields, ExitedFields, CutFields, CollectFields
  <2>3. proc[r].at \in Migrated /\ proc'[r].at \in Migrated
    BY <2>1, <2>2 DEF Migrated, Serving, Stopping
  <2> QED
    BY <1>10, <2>1, <2>2, <2>3
<1>15. ASSUME NEW r \in Replicas, Kill(r)
       PROVE  \A q \in Replicas : MigrationAt(q)'
  <2>1. proc'[r].at = "ended" /\ \A q \in Replicas \ {r} : proc'[q] = proc[q]
    BY <1>15, GotoFields DEF Kill, Gone
  <2>2. UNCHANGED db /\ lock' = Unlocked(r) /\ maintain' = [maintain EXCEPT ![r] = "off"]
    BY <1>15 DEF Kill, Gone
  <2>3. proc'[r].at \notin Fresh \cup Migrated \cup {"reading", "migrating"}
    BY <2>1 DEF Fresh, Migrated, Binding, Serving, Stopping
  <2>4. MigrationAt(r)'
    BY <2>2, <2>3 DEF MigrationAt, At, Unlocked
  <2>5. ASSUME NEW q \in Replicas, q # r PROVE MigrationAt(q)'
    BY <2>1, <2>2, <2>5 DEF MigrationAt, At, Unlocked
  <2> QED
    BY <2>4, <2>5
<1>16. ASSUME NEW r \in Replicas, Restart(r)
       PROVE  \A q \in Replicas : MigrationAt(q)'
  <2>1. /\ proc[r].at = "ended" /\ proc'[r].at = "new" /\ proc'[r].branch = 1
        /\ \A q \in Replicas \ {r} : proc'[q] = proc[q]
        /\ UNCHANGED <<db, lock, maintain>>
    BY <1>16, RestartFields DEF Restart, At
  <2>2. "new" \notin Migrated
    BY DEF Migrated, Binding, Serving, Stopping
  <2>3. MigrationAt(r)'
    BY <2>1, <2>2 DEF MigrationAt, At
  <2>4. ASSUME NEW q \in Replicas, q # r PROVE MigrationAt(q)'
    BY <2>1, <2>4 DEF MigrationAt, At
  <2> QED
    BY <2>3, <2>4
<1>17. ASSUME NEW r \in Replicas, Signal(r)
       PROVE  \A q \in Replicas : MigrationAt(q)'
  <2>1. UNCHANGED <<db, lock, maintain>>
    BY <1>17 DEF Signal
  <2> QED
    BY <1>1, <1>17, <2>1, SignalFields
<1>18. ASSUME NEW r \in Replicas,
              MaintainStatement(r) \/ MaintainAnswered(r) \/ \E l \in Endpoints : ServeReturns(r, l)
       PROVE  \A q \in Replicas : MigrationAt(q)'
  <2>1. /\ UNCHANGED <<db, lock, proc>>
        /\ \A q \in Replicas : maintain'[q] # "off" => maintain[q] # "off"
    BY <1>18 DEF MaintainStatement, MaintainAnswered, ServeReturns
  <2> QED
    BY <1>1, <2>1
<1>19. ASSUME UNCHANGED <<lock, proc, maintain>>, db' \in Nat, db' = db \/ (lock = Null /\ db' >= db)
       PROVE  \A q \in Replicas : MigrationAt(q)'
  BY <1>19 DEF MigrationAt, At
<1>20. CASE \/ \E h \in Handlers : Accept(h) \/ Query(h) \/ Answered(h) \/ Finish(h)
            \/ NewerGatewayMigrates \/ UNCHANGED vars
  BY <1>19, <1>20 DEF Accept, Query, Answered, Finish, NewerGatewayMigrates, vars
<1> QED
  BY <1>2, <1>4, <1>5, <1>6, <1>7, <1>9, <1>11, <1>12, <1>13, <1>14, <1>15, <1>16, <1>17, <1>18,
     <1>20 DEF Next, Main, Migration, Run

-----------------------------------------------------------------------------
(* The sockets.                                                            *)

\* The classes of places that tell the states of the sockets.
LEMMA Places ==
    /\ Stopping = {"draining", "stopping metrics", "collecting"}
    /\ Closing = {"returned", "closing"}
    /\ Unbound = {"new", "opening", "building", "pricing", "locking", "reading", "migrating",
                  "entering", "probing", "binding api", "ended"}
BY DEF Stopping, Closing, Unbound, Starting, Migrating

\* Serving, draining and returning find the sockets as they left them.
LEMMA SocketStep ==
    TypeOK /\ (\A r \in Replicas : \A l \in Endpoints : SocketAt(r, l))
           /\ (\A r \in Replicas : HeardAt(r)) /\ [Next]_vars
      => \A r \in Replicas : \A l \in Endpoints : SocketAt(r, l)'
<1> SUFFICES ASSUME TypeOK, \A r \in Replicas : \A l \in Endpoints : SocketAt(r, l),
                    \A r \in Replicas : HeardAt(r), [Next]_vars
             PROVE  \A r \in Replicas : \A l \in Endpoints : SocketAt(r, l)'
  OBVIOUS
<1>0. /\ socket \in [Replicas -> [Endpoints -> {"none", "bound", "open", "closing", "over"}]]
      /\ Endpoints = {"api", "metrics"}
  BY DEF TypeOK, Endpoints
<1>1. ASSUME NEW r \in Replicas,
             \A q \in Replicas \ {r} : proc'[q] = proc[q] /\ socket'[q] = socket[q],
             \A l \in Endpoints : SocketAt(r, l)'
      PROVE  \A q \in Replicas : \A l \in Endpoints : SocketAt(q, l)'
  <2>1. ASSUME NEW q \in Replicas, NEW l \in Endpoints, q # r PROVE SocketAt(q, l)'
    <3>1. proc'[q] = proc[q] /\ socket'[q] = socket[q] /\ SocketAt(q, l)
      BY <1>1, <2>1
    <3> QED
      BY <3>1 DEF SocketAt, At
  <2> QED
    BY <1>1, <2>1
<1>2. ASSUME NEW r \in Replicas, NEW place, Goto(r, place), UNCHANGED socket,
             proc[r].at \in Unbound, place \in Unbound \cup {"returned"}
      PROVE  \A q \in Replicas : \A l \in Endpoints : SocketAt(q, l)'
  <2>1. proc'[r].at = place /\ \A q \in Replicas \ {r} : proc'[q] = proc[q]
    BY <1>2, GotoFields
  <2>2. \A l \in Endpoints : socket'[r][l] = "none"
    BY <1>2 DEF SocketAt
  <2>3. \A l \in Endpoints : SocketAt(r, l)'
    BY <1>2, <2>1, <2>2, Places DEF SocketAt, At
  <2> QED
    BY <1>1, <1>2, <2>1, <2>3
<1>3. ASSUME NEW r \in Replicas, UNCHANGED socket, proc'[r].at = proc[r].at,
             \A q \in Replicas \ {r} : proc'[q] = proc[q]
      PROVE  \A q \in Replicas : \A l \in Endpoints : SocketAt(q, l)'
  <2>1. ASSUME NEW l \in Endpoints PROVE SocketAt(r, l)'
    BY <1>3 DEF SocketAt, At
  <2> QED
    BY <1>1, <1>3, <2>1
<1>4. ASSUME NEW r \in Replicas,
             \/ Open(r) \/ Begin(r) \/ TakeLock(r) \/ StatementFails(r)
             \/ \E seen \in BOOLEAN : Commit(r, seen)
             \/ NewServer(r) \/ SetPrices(r) \/ EnterRun(r) \/ ProbeBackends(r)
      PROVE  \A q \in Replicas : \A l \in Endpoints : SocketAt(q, l)'
  <2>1. /\ UNCHANGED socket /\ proc[r].at \in Unbound
        /\ \E place \in Unbound \cup {"returned"} : Goto(r, place)
    BY <1>4, Places DEF Open, Begin, TakeLock, StatementFails, Commit, NewServer, SetPrices, EnterRun,
       ProbeBackends, At, serving, Starting, Migrating
  <2> QED
    BY <1>2, <2>1
<1>5. ASSUME NEW r \in Replicas, ReadVersion(r)
      PROVE  \A q \in Replicas : \A l \in Endpoints : SocketAt(q, l)'
  <2>1. proc[r].at = "reading" /\ UNCHANGED socket
    BY <1>5 DEF ReadVersion, At, serving
  <2>2. \A l \in Endpoints : socket'[r][l] = "none"
    BY <2>1, Places DEF SocketAt
  <2>3. \A l \in Endpoints : SocketAt(r, l)'
    BY <1>5, <2>2, ReadFields, Places DEF SocketAt, At
  <2> QED
    BY <1>1, <1>5, <2>1, <2>3, ReadFields
<1>6. ASSUME NEW r \in Replicas, Restart(r)
      PROVE  \A q \in Replicas : \A l \in Endpoints : SocketAt(q, l)'
  <2>1. proc[r].at = "ended" /\ UNCHANGED socket
    BY <1>6 DEF Restart, At, serving
  <2>2. \A l \in Endpoints : socket'[r][l] = "none"
    BY <2>1, Places DEF SocketAt
  <2>3. \A l \in Endpoints : SocketAt(r, l)'
    BY <1>6, <2>2, RestartFields, Places DEF SocketAt, At
  <2> QED
    BY <1>1, <1>6, <2>1, <2>3, RestartFields
<1>7. ASSUME NEW r \in Replicas, Migrate(r) \/ Collect(r) \/ Signal(r)
      PROVE  \A q \in Replicas : \A l \in Endpoints : SocketAt(q, l)'
  <2>1. UNCHANGED socket
    BY <1>7 DEF Migrate, Collect, Signal, serving
  <2> QED
    BY <1>3, <1>7, <2>1, MigrateFields, CollectFields, SignalFields
<1>8. ASSUME NEW r \in Replicas, ListenAPI(r) \/ ListenMetrics(r) \/ ListenFails(r)
      PROVE  \A q \in Replicas : \A l \in Endpoints : SocketAt(q, l)'
  <2>1. \A q \in Replicas \ {r} : proc'[q] = proc[q] /\ socket'[q] = socket[q]
    BY <1>0, <1>8, GotoFields DEF ListenAPI, ListenMetrics, ListenFails
  <2>2. CASE ListenAPI(r)
    <3>1. /\ proc[r].at = "binding api"
          /\ proc'[r].at = IF r \in WithMetrics THEN "binding metrics" ELSE "starting api"
          /\ socket'[r]["api"] = "bound" /\ socket'[r]["metrics"] = socket[r]["metrics"]
      BY <1>0, <2>2, GotoFields DEF ListenAPI, At
    <3>2. socket'[r]["metrics"] = "none"
      BY <1>0, <3>1, Places DEF SocketAt
    <3>3. \A l \in Endpoints : SocketAt(r, l)'
      BY <1>0, <3>1, <3>2, Places DEF SocketAt, At, Absent
    <3> QED
      BY <1>1, <2>1, <3>3
  <2>3. CASE ListenMetrics(r)
    <3>1. /\ proc[r].at = "binding metrics" /\ proc'[r].at = "starting api"
          /\ socket'[r]["api"] = socket[r]["api"] /\ socket'[r]["metrics"] = "bound"
      BY <1>0, <2>3, GotoFields DEF ListenMetrics, At
    <3>2. socket'[r]["api"] = "bound" /\ r \in WithMetrics
      BY <1>0, <3>1 DEF SocketAt, At
    <3>3. \A l \in Endpoints : SocketAt(r, l)'
      BY <1>0, <3>1, <3>2, Places DEF SocketAt, At, Absent
    <3> QED
      BY <1>1, <2>1, <3>3
  <2>4. CASE ListenFails(r)
    <3>1. /\ proc[r].at \in {"binding api", "binding metrics"} /\ proc'[r].at = "returned"
          /\ socket'[r]["api"] = "none" /\ socket'[r]["metrics"] = socket[r]["metrics"]
      BY <1>0, <2>4, GotoFields DEF ListenFails, At
    <3>2. socket'[r]["metrics"] = "none"
      BY <1>0, <3>1, Places DEF SocketAt, At
    <3>3. \A l \in Endpoints : SocketAt(r, l)'
      BY <1>0, <3>1, <3>2, Places DEF SocketAt, At
    <3> QED
      BY <1>1, <2>1, <3>3
  <2> QED
    BY <1>8, <2>2, <2>3, <2>4
<1>9. ASSUME NEW r \in Replicas, StartAPI(r)
      PROVE  \A q \in Replicas : \A l \in Endpoints : SocketAt(q, l)'
  <2>1. /\ proc[r].at = "starting api"
        /\ proc'[r].at = IF r \in WithMetrics THEN "starting metrics" ELSE "selecting"
        /\ socket'[r]["api"] = "open" /\ socket'[r]["metrics"] = socket[r]["metrics"]
        /\ \A q \in Replicas \ {r} : proc'[q] = proc[q] /\ socket'[q] = socket[q]
    <3>1. At(r, "starting api") /\ socket' = [socket EXCEPT ![r]["api"] = "open"]
      BY <1>9 DEF StartAPI
    <3>2. /\ socket'[r]["api"] = "open" /\ socket'[r]["metrics"] = socket[r]["metrics"]
          /\ \A q \in Replicas \ {r} : socket'[q] = socket[q]
      BY <1>0, <3>1, SocketFields DEF Endpoints
    <3> QED
      BY <1>0, <1>9, <3>1, <3>2, StartFields DEF At
  <2>2. socket'[r]["metrics"] = IF r \in WithMetrics THEN "bound" ELSE "none"
    <3>1. SocketAt(r, "metrics")
      BY <1>0
    <3> QED
      BY <2>1, <3>1 DEF SocketAt, At, Absent
  <2>3. \A l \in Endpoints : SocketAt(r, l)'
    <3>1. SocketAt(r, "api")'
      BY <2>1, <2>2, Places DEF SocketAt, At, Absent
    <3>2. SocketAt(r, "metrics")'
      BY <2>1, <2>2, Places DEF SocketAt, At, Absent
    <3> QED
      BY <1>0, <3>1, <3>2
  <2> QED
    BY <1>1, <2>1, <2>3
<1>10. ASSUME NEW r \in Replicas, StartMetrics(r)
       PROVE  \A q \in Replicas : \A l \in Endpoints : SocketAt(q, l)'
  <2>1. /\ proc[r].at = "starting metrics" /\ proc'[r].at = "selecting"
        /\ socket'[r]["metrics"] = "open" /\ socket'[r]["api"] = socket[r]["api"]
        /\ \A q \in Replicas \ {r} : proc'[q] = proc[q] /\ socket'[q] = socket[q]
    <3>1. At(r, "starting metrics") /\ socket' = [socket EXCEPT ![r]["metrics"] = "open"]
      BY <1>10 DEF StartMetrics
    <3>2. /\ socket'[r]["metrics"] = "open" /\ socket'[r]["api"] = socket[r]["api"]
          /\ \A q \in Replicas \ {r} : socket'[q] = socket[q]
      BY <1>0, <3>1, SocketFields DEF Endpoints
    <3> QED
      BY <1>0, <1>10, <3>1, <3>2, MetricsFields DEF At
  <2>2. socket'[r]["api"] \in {"open", "over"} /\ r \in WithMetrics
    <3>1. SocketAt(r, "api")
      BY <1>0
    <3> QED
      BY <2>1, <3>1 DEF SocketAt, At
  <2>3. \A l \in Endpoints : SocketAt(r, l)'
    <3>1. SocketAt(r, "api")'
      BY <2>1, <2>2, Places DEF SocketAt, At, Absent
    <3>2. SocketAt(r, "metrics")'
      BY <2>1, <2>2, Places DEF SocketAt, At, Absent
    <3> QED
      BY <1>0, <3>1, <3>2
  <2> QED
    BY <1>1, <2>1, <2>3
<1>11. ASSUME NEW r \in Replicas, NEW e \in Endpoints, ServeReturns(r, e)
       PROVE  \A q \in Replicas : \A l \in Endpoints : SocketAt(q, l)'
  <2>1. /\ socket[r][e] \in {"open", "closing"} /\ socket'[r][e] = "over"
        /\ \A l \in Endpoints \ {e} : socket'[r][l] = socket[r][l]
        /\ \A q \in Replicas \ {r} : socket'[q] = socket[q]
        /\ proc' = proc
    BY <1>0, <1>11 DEF ServeReturns
  <2>2. SocketAt(r, e)'
    BY <2>1 DEF SocketAt, At, Absent
  <2>3. ASSUME NEW l \in Endpoints, l # e PROVE SocketAt(r, l)'
    <3>1. socket'[r][l] = socket[r][l] /\ proc'[r].at = proc[r].at /\ SocketAt(r, l)
      BY <2>1, <2>3
    <3> QED
      BY <3>1 DEF SocketAt, At
  <2> QED
    BY <1>1, <2>1, <2>2, <2>3
<1>12. ASSUME NEW r \in Replicas, ListenerExited(r)
       PROVE  \A q \in Replicas : \A l \in Endpoints : SocketAt(q, l)'
  <2>1. /\ proc[r].at = "selecting" /\ proc'[r].at = "collecting"
        /\ \A l \in Endpoints : socket'[r][l] = Closed(socket[r][l])
        /\ \A q \in Replicas \ {r} : proc'[q] = proc[q] /\ socket'[q] = socket[q]
    BY <1>0, <1>12, ExitedFields DEF ListenerExited, At, CloseServers
  <2>2. ASSUME NEW l \in Endpoints PROVE SocketAt(r, l)'
    <3>1. IF Absent(r, l) THEN socket[r][l] = "none"
          ELSE socket[r][l] \in {"open", "closing", "over"}
      BY <2>1, Places DEF SocketAt
    <3>2. IF Absent(r, l) THEN socket'[r][l] = "none"
          ELSE socket'[r][l] \in {"closing", "over"}
      BY <2>1, <3>1 DEF Closed
    <3> QED
      BY <2>1, <3>2, Places DEF SocketAt, At, Absent
  <2> QED
    BY <1>1, <2>1, <2>2
<1>13. ASSUME NEW r \in Replicas, ShutdownAPI(r)
       PROVE  \A q \in Replicas : \A l \in Endpoints : SocketAt(q, l)'
  <2>1. /\ proc[r].at = "selecting" /\ proc'[r].at = "draining"
        /\ socket'[r]["api"] = Closed(socket[r]["api"])
        /\ socket'[r]["metrics"] = socket[r]["metrics"]
        /\ \A q \in Replicas \ {r} : proc'[q] = proc[q] /\ socket'[q] = socket[q]
    BY <1>0, <1>13, GotoFields DEF ShutdownAPI, At
  <2>2. /\ socket[r]["api"] \in {"open", "over"}
        /\ IF r \in WithMetrics THEN socket[r]["metrics"] \in {"open", "over"}
           ELSE socket[r]["metrics"] = "none"
    BY <1>0, <2>1 DEF SocketAt, At, Absent
  <2>3. socket'[r]["api"] \in {"closing", "over"}
    BY <2>1, <2>2 DEF Closed
  <2>4. SocketAt(r, "api")'
    BY <2>1, <2>3, Places DEF SocketAt, At, Absent
  <2>5. SocketAt(r, "metrics")'
    BY <2>1, <2>2, Places DEF SocketAt, At, Absent
  <2> QED
    BY <1>0, <1>1, <2>1, <2>4, <2>5
<1>14. ASSUME NEW r \in Replicas, Drained(r) \/ DrainTimesOut(r)
       PROVE  \A q \in Replicas : \A l \in Endpoints : SocketAt(q, l)'
  <2>1. /\ proc[r].at = "draining" /\ proc'[r].at = "stopping metrics" /\ socket' = socket
        /\ \A q \in Replicas \ {r} : proc'[q] = proc[q]
    BY <1>14, GotoFields, CutFields DEF Drained, DrainTimesOut, At, serving
  <2>2. \A l \in Endpoints : SocketAt(r, l)'
    BY <2>1, Places DEF SocketAt, At, Absent
  <2> QED
    BY <1>1, <2>1, <2>2
<1>15. ASSUME NEW r \in Replicas, ShutdownMetrics(r)
       PROVE  \A q \in Replicas : \A l \in Endpoints : SocketAt(q, l)'
  <2>1. /\ proc[r].at = "stopping metrics" /\ proc'[r].at = "collecting"
        /\ \A l \in Endpoints : socket'[r][l] = Closed(socket[r][l])
        /\ \A q \in Replicas \ {r} : proc'[q] = proc[q] /\ socket'[q] = socket[q]
    BY <1>0, <1>15, GotoFields DEF ShutdownMetrics, At, CloseServers
  <2>2. ASSUME NEW l \in Endpoints PROVE SocketAt(r, l)'
    <3>1. IF Absent(r, l) THEN socket[r][l] = "none"
          ELSE socket[r][l] \in {"open", "closing", "over"}
      BY <2>1, Places DEF SocketAt
    <3>2. IF Absent(r, l) THEN socket'[r][l] = "none"
          ELSE socket'[r][l] \in {"closing", "over"}
      BY <2>1, <3>1 DEF Closed
    <3> QED
      BY <2>1, <3>2, Places DEF SocketAt, At, Absent
  <2> QED
    BY <1>1, <2>1, <2>2
<1>16. ASSUME NEW r \in Replicas, RunReturns(r)
       PROVE  \A q \in Replicas : \A l \in Endpoints : SocketAt(q, l)'
  <2>1. /\ proc[r].at = "collecting" /\ proc'[r].at = "returned" /\ socket' = socket
        /\ proc[r].remaining = 0
        /\ \A q \in Replicas \ {r} : proc'[q] = proc[q]
    BY <1>16, GotoFields DEF RunReturns, At, serving
  <2>2. Runs(r, "api") + Runs(r, "metrics") + Len(errs[r]) = 0
    BY <2>1, Places DEF HeardAt, Hearing
  <2>3. Len(errs[r]) \in Nat
    BY DEF TypeOK
  <2>4. Runs(r, "api") \in Nat /\ Runs(r, "metrics") \in Nat
    BY DEF Runs
  <2>5. ASSUME NEW l \in Endpoints PROVE SocketAt(r, l)'
    <3>1. Runs(r, l) = 0
      BY <1>0, <2>2, <2>3, <2>4
    <3>2. socket[r][l] \notin {"open", "closing"}
      BY <3>1 DEF Runs
    <3>3. socket[r][l] \in {"none", "over"}
      BY <2>1, <3>2, Places DEF SocketAt
    <3> QED
      BY <2>1, <3>3, Places DEF SocketAt, At
  <2> QED
    BY <1>1, <2>1, <2>5
<1>17. ASSUME NEW r \in Replicas, CloseStore(r)
       PROVE  \A q \in Replicas : \A l \in Endpoints : SocketAt(q, l)'
  <2>1. /\ proc[r].at = "returned" /\ proc'[r].at = "closing" /\ socket' = socket
        /\ \A q \in Replicas \ {r} : proc'[q] = proc[q]
    BY <1>17, GotoFields DEF CloseStore, At, serving
  <2>2. \A l \in Endpoints : SocketAt(r, l)'
    BY <2>1, Places DEF SocketAt, At, Absent
  <2> QED
    BY <1>1, <2>1, <2>2
<1>18. ASSUME NEW r \in Replicas, Gone(r)
       PROVE  \A q \in Replicas : \A l \in Endpoints : SocketAt(q, l)'
  <2>1. /\ proc'[r].at = "ended" /\ \A l \in Endpoints : socket'[r][l] = "none"
        /\ \A q \in Replicas \ {r} : proc'[q] = proc[q] /\ socket'[q] = socket[q]
    BY <1>0, <1>18, GotoFields DEF Gone
  <2>2. \A l \in Endpoints : SocketAt(r, l)'
    BY <2>1, Places DEF SocketAt, At
  <2> QED
    BY <1>1, <2>1, <2>2
<1>19. ASSUME UNCHANGED <<proc, socket>>
       PROVE  \A q \in Replicas : \A l \in Endpoints : SocketAt(q, l)'
  <2>1. ASSUME NEW q \in Replicas, NEW l \in Endpoints PROVE SocketAt(q, l)'
    BY <1>19 DEF SocketAt, At
  <2> QED
    BY <2>1
<1>20. CASE \/ \E r \in Replicas : MaintainStatement(r) \/ MaintainAnswered(r)
            \/ \E h \in Handlers : Accept(h) \/ Query(h) \/ Answered(h) \/ Finish(h)
            \/ NewerGatewayMigrates \/ UNCHANGED vars
  BY <1>19, <1>20 DEF MaintainStatement, MaintainAnswered, Accept, Query, Answered, Finish,
     NewerGatewayMigrates, vars, serving
<1> QED
  BY <1>4, <1>5, <1>6, <1>7, <1>8, <1>9, <1>10, <1>11, <1>12, <1>13, <1>14, <1>15, <1>16,
     <1>17, <1>18, <1>20 DEF Next, Main, Migration, Run, Exit, Kill

-----------------------------------------------------------------------------
(* The channel.                                                            *)

\* Run hears of every listener that it has counted, and of a failed one while
\* it waits or drains.
LEMMA HeardStep ==
    TypeOK /\ (\A r \in Replicas : \A l \in Endpoints : SocketAt(r, l))
           /\ (\A r \in Replicas : HeardAt(r)) /\ [Next]_vars
      => \A r \in Replicas : HeardAt(r)'
<1> SUFFICES ASSUME TypeOK, \A r \in Replicas : \A l \in Endpoints : SocketAt(r, l),
                    \A r \in Replicas : HeardAt(r), [Next]_vars
             PROVE  \A r \in Replicas : HeardAt(r)'
  OBVIOUS
<1>0a. /\ Endpoints = {"api", "metrics"}
       /\ Hearing = {"starting metrics", "selecting", "draining", "stopping metrics", "collecting"}
  BY Places DEF Endpoints, Hearing
<1>0b. /\ socket \in [Replicas -> [Endpoints -> {"none", "bound", "open", "closing", "over"}]]
       /\ errs \in [Replicas -> Seq({"closed", "failed"})]
  BY DEF TypeOK
<1>0c. ASSUME NEW q, NEW l PROVE Runs(q, l) \in Nat
  BY DEF Runs
<1>0d. ASSUME NEW q \in Replicas PROVE Len(errs[q]) \in Nat
  BY <1>0b
<1>0e. ASSUME NEW q \in Replicas, errs[q] # <<>>
       PROVE  Len(Tail(errs[q])) = Len(errs[q]) - 1
  <2>1. ASSUME NEW s \in Seq({"closed", "failed"}), s # <<>>
        PROVE  Len(Tail(s)) = Len(s) - 1
    BY <2>1
  <2> QED
    BY <1>0b, <1>0e, <2>1
<1>0. /\ socket \in [Replicas -> [Endpoints -> {"none", "bound", "open", "closing", "over"}]]
      /\ errs \in [Replicas -> Seq({"closed", "failed"})]
      /\ Endpoints = {"api", "metrics"}
      /\ Hearing = {"starting metrics", "selecting", "draining", "stopping metrics", "collecting"}
  BY <1>0a, <1>0b
<1>00. ASSUME NEW r \in Replicas, proc'[r].at \in Hearing,
              proc'[r].remaining = Runs(r, "api")' + Runs(r, "metrics")' + Len(errs'[r]),
              proc'[r].at = "starting metrics" => proc'[r].remaining = 1,
              proc'[r].at \in {"selecting", "draining"} /\ socket'[r]["metrics"] = "over" =>
                  \E i \in DOMAIN errs'[r] : errs'[r][i] = "failed"
       PROVE  HeardAt(r)'
  BY <1>00 DEF HeardAt, At
<1>01. ASSUME NEW r \in Replicas, NEW a, NEW b, NEW n,
              Runs(r, "api")' = a, Runs(r, "metrics")' = b, Len(errs'[r]) = n,
              proc'[r].remaining = a + b + n
       PROVE  proc'[r].remaining = Runs(r, "api")' + Runs(r, "metrics")' + Len(errs'[r])
  BY <1>01
<1>1. ASSUME NEW r \in Replicas,
             \A q \in Replicas \ {r} : proc'[q] = proc[q] /\ socket'[q] = socket[q]
                                       /\ errs'[q] = errs[q],
             HeardAt(r)'
      PROVE  \A q \in Replicas : HeardAt(q)'
  <2>1. ASSUME NEW q \in Replicas, q # r PROVE HeardAt(q)'
    <3>1. proc'[q] = proc[q] /\ socket'[q] = socket[q] /\ errs'[q] = errs[q] /\ HeardAt(q)
      BY <1>1, <2>1
    <3> QED
      BY <3>1 DEF HeardAt, At, Runs
  <2> QED
    BY <1>1, <2>1
<1>2. ASSUME NEW r \in Replicas, UNCHANGED errs, proc[r].at \notin Hearing, proc'[r].at \notin Hearing
      PROVE  HeardAt(r)'
  BY <1>0, <1>2 DEF HeardAt, At
<1>3. ASSUME NEW r \in Replicas, UNCHANGED <<socket, errs>>,
             proc'[r].at = proc[r].at, proc'[r].remaining = proc[r].remaining
      PROVE  HeardAt(r)'
  BY <1>3 DEF HeardAt, At, Runs
<1>4. ASSUME NEW r \in Replicas,
             \/ Open(r) \/ Begin(r) \/ TakeLock(r) \/ StatementFails(r)
             \/ \E seen \in BOOLEAN : Commit(r, seen)
             \/ NewServer(r) \/ SetPrices(r) \/ EnterRun(r) \/ ProbeBackends(r)
             \/ CloseStore(r)
      PROVE  \A q \in Replicas : HeardAt(q)'
  <2>1. /\ UNCHANGED <<socket, errs>> /\ proc[r].at \in Unbound \cup {"returned"}
        /\ \E place \in Unbound \cup Closing : Goto(r, place)
    BY <1>4, Places DEF Open, Begin, TakeLock, StatementFails, Commit, NewServer, SetPrices,
       EnterRun, ProbeBackends, CloseStore, At, serving, Starting, Migrating
  <2>2. proc[r].at \notin Hearing /\ \E place : Goto(r, place) /\ place \notin Hearing
    BY <1>0, <2>1, Places
  <2>3. proc'[r].at \notin Hearing /\ \A q \in Replicas \ {r} : proc'[q] = proc[q]
    BY <2>2, GotoFields
  <2> QED
    BY <1>1, <1>2, <2>1, <2>2, <2>3
<1>5. ASSUME NEW r \in Replicas, ListenAPI(r) \/ ListenMetrics(r) \/ ListenFails(r)
      PROVE  \A q \in Replicas : HeardAt(q)'
  <2>1. /\ UNCHANGED errs /\ proc[r].at \in {"binding api", "binding metrics"}
        /\ \E place \in {"binding metrics", "starting api", "returned"} : Goto(r, place)
        /\ \A q \in Replicas \ {r} : socket'[q] = socket[q]
    BY <1>0, <1>5 DEF ListenAPI, ListenMetrics, ListenFails, At
  <2>2. /\ proc'[r].at \in {"binding metrics", "starting api", "returned"}
        /\ \A q \in Replicas \ {r} : proc'[q] = proc[q]
    BY <2>1, GotoFields
  <2>3. proc[r].at \notin Hearing /\ proc'[r].at \notin Hearing
    BY <1>0, <2>1, <2>2
  <2> QED
    BY <1>1, <1>2, <2>1, <2>2, <2>3
<1>6. ASSUME NEW r \in Replicas, ReadVersion(r) \/ Restart(r)
      PROVE  \A q \in Replicas : HeardAt(q)'
  <2>1. UNCHANGED <<socket, errs>> /\ proc[r].at \in {"reading", "ended"}
    BY <1>6 DEF ReadVersion, Restart, At, serving
  <2>2. /\ proc'[r].at \in {"migrating", "new"}
        /\ \A q \in Replicas \ {r} : proc'[q] = proc[q]
    BY <1>6, ReadFields, RestartFields
  <2>3. proc[r].at \notin Hearing /\ proc'[r].at \notin Hearing
    BY <1>0, <2>1, <2>2
  <2> QED
    BY <1>1, <1>2, <2>1, <2>2, <2>3
<1>7. ASSUME NEW r \in Replicas, Migrate(r) \/ Signal(r)
      PROVE  \A q \in Replicas : HeardAt(q)'
  <2>1. UNCHANGED <<socket, errs>>
    BY <1>7 DEF Migrate, Signal, serving
  <2> QED
    BY <1>1, <1>3, <1>7, <2>1, MigrateFields, SignalFields
<1>8. ASSUME NEW r \in Replicas, StartAPI(r)
      PROVE  \A q \in Replicas : HeardAt(q)'
  <2>1. /\ proc[r].at = "starting api"
        /\ proc'[r].at \in {"starting metrics", "selecting"} /\ proc'[r].remaining = 1
        /\ socket'[r]["api"] = "open" /\ socket'[r]["metrics"] = socket[r]["metrics"]
        /\ \A q \in Replicas \ {r} : proc'[q] = proc[q] /\ socket'[q] = socket[q]
        /\ errs' = errs
    <3>1. /\ At(r, "starting api") /\ socket' = [socket EXCEPT ![r]["api"] = "open"]
          /\ errs' = errs
      BY <1>8 DEF StartAPI
    <3>2. /\ socket'[r]["api"] = "open" /\ socket'[r]["metrics"] = socket[r]["metrics"]
          /\ \A q \in Replicas \ {r} : socket'[q] = socket[q]
      BY <1>0, <3>1, SocketFields DEF Endpoints
    <3> QED
      BY <1>0, <1>8, <3>1, <3>2, StartFields DEF At
  <2>2. socket'[r]["metrics"] \in {"bound", "none"} /\ errs[r] = <<>>
    BY <1>0, <2>1 DEF SocketAt, At, HeardAt
  <2>3. Runs(r, "api")' = 1 /\ Runs(r, "metrics")' = 0
    BY <2>1, <2>2 DEF Runs
  <2>4. Len(errs'[r]) = 0 /\ proc'[r].at \in Hearing
    BY <1>0, <2>1, <2>2
  <2>5. proc'[r].remaining = Runs(r, "api")' + Runs(r, "metrics")' + Len(errs'[r])
    <3>1. 1 = 1 + 0 + 0
      OBVIOUS
    <3> QED
      BY <1>01, <2>1, <2>3, <2>4, <3>1
  <2>6. socket'[r]["metrics"] # "over"
    BY <2>1, <2>2
  <2>7. HeardAt(r)'
    BY <1>00, <2>1, <2>4, <2>5, <2>6
  <2> QED
    BY <1>1, <2>1, <2>7
<1>9. ASSUME NEW r \in Replicas, StartMetrics(r)
      PROVE  \A q \in Replicas : HeardAt(q)'
  <2>1. /\ proc[r].at = "starting metrics"
        /\ proc'[r].at = "selecting" /\ proc'[r].remaining = proc[r].remaining + 1
        /\ socket'[r]["metrics"] = "open" /\ socket'[r]["api"] = socket[r]["api"]
        /\ \A q \in Replicas \ {r} : proc'[q] = proc[q] /\ socket'[q] = socket[q]
        /\ errs' = errs
    <3>1. /\ At(r, "starting metrics") /\ socket' = [socket EXCEPT ![r]["metrics"] = "open"]
          /\ errs' = errs
      BY <1>9 DEF StartMetrics
    <3>2. /\ socket'[r]["metrics"] = "open" /\ socket'[r]["api"] = socket[r]["api"]
          /\ \A q \in Replicas \ {r} : socket'[q] = socket[q]
      BY <1>0, <3>1, SocketFields DEF Endpoints
    <3> QED
      BY <1>0, <1>9, <3>1, <3>2, MetricsFields DEF At
  <2>2. socket[r]["metrics"] = "bound"
    BY <1>0, <2>1 DEF SocketAt, At
  <2>3. proc[r].remaining = Runs(r, "api") + 0 + Len(errs[r])
    BY <1>0, <2>1, <2>2 DEF HeardAt, Runs
  <2>4. Runs(r, "metrics")' = 1 /\ Runs(r, "api")' = Runs(r, "api")
    BY <2>1 DEF Runs
  <2>5. proc'[r].at \in Hearing /\ Len(errs'[r]) = Len(errs[r])
    BY <1>0, <2>1
  <2>6. Runs(r, "api") \in Nat /\ Len(errs[r]) \in Nat
    BY <1>0c, <1>0d
  <2>7. proc'[r].remaining = Runs(r, "api")' + Runs(r, "metrics")' + Len(errs'[r])
    <3>1. ASSUME NEW a \in Nat, NEW n \in Nat PROVE (a + 0 + n) + 1 = a + 1 + n
      OBVIOUS
    <3> QED
      BY <1>01, <2>1, <2>3, <2>4, <2>5, <2>6, <3>1
  <2>8. proc'[r].at # "starting metrics" /\ socket'[r]["metrics"] # "over"
    BY <2>1
  <2>9. HeardAt(r)'
    BY <1>00, <2>5, <2>7, <2>8
  <2> QED
    BY <1>1, <2>1, <2>9
<1>10. ASSUME NEW r \in Replicas, NEW e \in Endpoints, ServeReturns(r, e)
       PROVE  \A q \in Replicas : HeardAt(q)'
  <2> DEFINE answer == IF socket[r][e] = "closing" THEN "closed" ELSE "failed"
  <2>1. /\ socket[r][e] \in {"open", "closing"} /\ socket'[r][e] = "over"
        /\ \A l \in Endpoints \ {e} : socket'[r][l] = socket[r][l]
        /\ \A q \in Replicas \ {r} : socket'[q] = socket[q] /\ errs'[q] = errs[q]
        /\ proc' = proc /\ errs'[r] = Append(errs[r], answer)
    BY <1>0, <1>10 DEF ServeReturns
  <2>2. proc[r].at \in Hearing
    <3>1. proc[r].at \in Starting \cup Binding \cup Serving \cup Stopping \cup Closing \cup {"ended"}
      BY DEF TypeOK, Process
    <3>2. \/ proc[r].at \in Unbound \cup Closing
          \/ proc[r].at \in {"binding metrics", "starting api"}
          \/ proc[r].at \in Hearing
      BY <3>1 DEF Unbound, Binding, Serving, Hearing
    <3>3. SocketAt(r, e)
      OBVIOUS
    <3> QED
      BY <2>1, <3>2, <3>3 DEF SocketAt, At
  <2>3. /\ Len(errs'[r]) = Len(errs[r]) + 1 /\ DOMAIN errs'[r] = 1..Len(errs[r]) + 1
        /\ DOMAIN errs[r] = 1..Len(errs[r])
        /\ \A i \in 1..Len(errs[r]) : errs'[r][i] = errs[r][i]
        /\ errs'[r][Len(errs[r]) + 1] = answer
    <3> HIDE DEF answer
    <3>1. errs[r] \in Seq({"closed", "failed"}) /\ errs'[r] = Append(errs[r], answer)
      BY <1>0, <2>1
    <3> QED
      BY <3>1
  <2>4. /\ Runs(r, e) = 1 /\ Runs(r, e)' = 0
        /\ \A l \in Endpoints \ {e} : Runs(r, l)' = Runs(r, l)
    BY <2>1 DEF Runs
  <2>5. proc[r].remaining = Runs(r, "api") + Runs(r, "metrics") + Len(errs[r])
    BY <2>2 DEF HeardAt
  <2>6. proc'[r].remaining = Runs(r, "api")' + Runs(r, "metrics")' + Len(errs'[r])
    <3> HIDE DEF answer
    <3>0. Len(errs[r]) \in Nat /\ Runs(r, "api") \in Nat /\ Runs(r, "metrics") \in Nat
      BY <1>0c, <1>0d
    <3>00. proc'[r].remaining = proc[r].remaining
      BY <2>1
    <3>1. CASE e = "api"
      <4>1. Runs(r, "api") = 1 /\ Runs(r, "api")' = 0 /\ Runs(r, "metrics")' = Runs(r, "metrics")
        BY <1>0, <2>4, <3>1
      <4> QED
        BY <2>3, <2>5, <3>0, <3>00, <4>1
    <3>2. CASE e = "metrics"
      <4>1. Runs(r, "metrics") = 1 /\ Runs(r, "metrics")' = 0 /\ Runs(r, "api")' = Runs(r, "api")
        BY <1>0, <2>4, <3>2
      <4> QED
        BY <2>3, <2>5, <3>0, <3>00, <4>1
    <3> QED
      BY <1>0, <3>1, <3>2
  <2>7. At(r, "starting metrics") => proc[r].remaining = 1
    BY DEF HeardAt
  <2>8. ASSUME proc'[r].at \in {"selecting", "draining"}, socket'[r]["metrics"] = "over"
        PROVE  \E i \in DOMAIN errs'[r] : errs'[r][i] = "failed"
    <3>1. CASE e = "metrics"
      <4>1. socket[r][e] # "closing"
        BY <1>0, <2>1, <2>8, <3>1 DEF SocketAt, At
      <4>2. answer = "failed"
        BY <4>1
      <4>3. Len(errs[r]) + 1 \in 1..Len(errs[r]) + 1
        BY <1>0d
      <4> QED
        BY <2>3, <4>2, <4>3
    <3>2. CASE e # "metrics"
      <4>1. socket[r]["metrics"] = "over"
        BY <1>0, <2>1, <2>8, <3>2
      <4>2. PICK i \in DOMAIN errs[r] : errs[r][i] = "failed"
        BY <2>1, <2>8, <4>1 DEF HeardAt
      <4>3. i \in 1..Len(errs[r]) /\ i \in 1..Len(errs[r]) + 1
        BY <1>0d, <2>3, <4>2
      <4> QED
        BY <2>3, <4>2, <4>3
    <3> QED
      BY <3>1, <3>2
  <2>9. HeardAt(r)'
    <3> HIDE DEF answer
    <3> QED
      BY <1>00, <2>1, <2>2, <2>6, <2>7, <2>8 DEF At
  <2> QED
    BY <1>1, <2>1, <2>9
<1>11. ASSUME NEW s PROVE (Closed(s) \in {"open", "closing"}) <=> (s \in {"open", "closing"})
  BY DEF Closed
<1>12. ASSUME NEW r \in Replicas, ListenerExited(r)
       PROVE  \A q \in Replicas : HeardAt(q)'
  <2>1. /\ proc[r].at = "selecting" /\ proc'[r].at = "collecting"
        /\ proc'[r].remaining = proc[r].remaining - 1
        /\ errs[r] # <<>> /\ errs'[r] = Tail(errs[r])
        /\ \A l \in Endpoints : socket'[r][l] = Closed(socket[r][l])
        /\ \A q \in Replicas \ {r} : /\ proc'[q] = proc[q] /\ socket'[q] = socket[q]
                                     /\ errs'[q] = errs[q]
    BY <1>0, <1>12, ExitedFields DEF ListenerExited, At, CloseServers
  <2>2. Len(errs'[r]) = Len(errs[r]) - 1
    BY <1>0e, <2>1
  <2>3. \A l \in Endpoints : Runs(r, l)' = Runs(r, l)
    BY <1>11, <2>1 DEF Runs
  <2>4. proc[r].remaining = Runs(r, "api") + Runs(r, "metrics") + Len(errs[r])
    BY <1>0, <2>1 DEF HeardAt
  <2>5. Len(errs[r]) \in Nat /\ Runs(r, "api") \in Nat /\ Runs(r, "metrics") \in Nat
    BY <1>0c, <1>0d
  <2>6. Runs(r, "api")' = Runs(r, "api") /\ Runs(r, "metrics")' = Runs(r, "metrics")
    BY <1>0, <2>3
  <2>7. proc'[r].remaining = Runs(r, "api")' + Runs(r, "metrics")' + Len(errs'[r])
    BY <2>1, <2>2, <2>4, <2>5, <2>6
  <2>8. HeardAt(r)'
    BY <1>0, <1>00, <2>1, <2>7
  <2> QED
    BY <1>1, <2>1, <2>8
<1>13. ASSUME NEW r \in Replicas, ShutdownAPI(r)
       PROVE  \A q \in Replicas : HeardAt(q)'
  <2>1. /\ proc[r].at = "selecting" /\ proc'[r].at = "draining"
        /\ proc'[r].remaining = proc[r].remaining /\ errs' = errs
        /\ socket'[r]["api"] = Closed(socket[r]["api"])
        /\ socket'[r]["metrics"] = socket[r]["metrics"]
        /\ \A q \in Replicas \ {r} : proc'[q] = proc[q] /\ socket'[q] = socket[q]
    BY <1>0, <1>13, GotoFields DEF ShutdownAPI, At
  <2>2. Runs(r, "api")' = Runs(r, "api") /\ Runs(r, "metrics")' = Runs(r, "metrics")
    BY <1>11, <2>1 DEF Runs
  <2>3. proc[r].remaining = Runs(r, "api") + Runs(r, "metrics") + Len(errs[r])
    BY <1>0, <2>1 DEF HeardAt
  <2>4. proc'[r].remaining = Runs(r, "api")' + Runs(r, "metrics")' + Len(errs'[r])
    BY <2>1, <2>2, <2>3
  <2>5. socket'[r]["metrics"] = "over" => \E i \in DOMAIN errs'[r] : errs'[r][i] = "failed"
    BY <2>1 DEF HeardAt
  <2>6. HeardAt(r)'
    BY <1>0, <1>00, <2>1, <2>4, <2>5
  <2> QED
    BY <1>1, <2>1, <2>6
<1>14. ASSUME NEW r \in Replicas, Drained(r) \/ DrainTimesOut(r)
       PROVE  \A q \in Replicas : HeardAt(q)'
  <2>1. /\ proc[r].at = "draining" /\ proc'[r].at = "stopping metrics"
        /\ proc'[r].remaining = proc[r].remaining /\ UNCHANGED <<socket, errs>>
        /\ \A q \in Replicas \ {r} : proc'[q] = proc[q]
    BY <1>14, GotoFields, CutFields DEF Drained, DrainTimesOut, At, serving
  <2>2. proc'[r].remaining = Runs(r, "api")' + Runs(r, "metrics")' + Len(errs'[r])
    BY <1>0, <2>1 DEF HeardAt, Runs
  <2>3. HeardAt(r)'
    BY <1>0, <1>00, <2>1, <2>2
  <2> QED
    BY <1>1, <2>1, <2>3
<1>15. ASSUME NEW r \in Replicas, ShutdownMetrics(r)
       PROVE  \A q \in Replicas : HeardAt(q)'
  <2>1. /\ proc[r].at = "stopping metrics" /\ proc'[r].at = "collecting"
        /\ proc'[r].remaining = proc[r].remaining /\ errs' = errs
        /\ \A l \in Endpoints : socket'[r][l] = Closed(socket[r][l])
        /\ \A q \in Replicas \ {r} : proc'[q] = proc[q] /\ socket'[q] = socket[q]
    BY <1>0, <1>15, GotoFields DEF ShutdownMetrics, At, CloseServers
  <2>2. Runs(r, "api")' = Runs(r, "api") /\ Runs(r, "metrics")' = Runs(r, "metrics")
    BY <1>0, <1>11, <2>1 DEF Runs
  <2>3. proc[r].remaining = Runs(r, "api") + Runs(r, "metrics") + Len(errs[r])
    BY <1>0, <2>1 DEF HeardAt
  <2>4. proc'[r].remaining = Runs(r, "api")' + Runs(r, "metrics")' + Len(errs'[r])
    BY <2>1, <2>2, <2>3
  <2>5. HeardAt(r)'
    BY <1>0, <1>00, <2>1, <2>4
  <2> QED
    BY <1>1, <2>1, <2>5
<1>16. ASSUME NEW r \in Replicas, Collect(r)
       PROVE  \A q \in Replicas : HeardAt(q)'
  <2>1. /\ proc[r].at = "collecting" /\ proc'[r].at = "collecting"
        /\ proc'[r].remaining = proc[r].remaining - 1
        /\ errs[r] # <<>> /\ errs'[r] = Tail(errs[r]) /\ socket' = socket
        /\ \A q \in Replicas \ {r} : proc'[q] = proc[q] /\ errs'[q] = errs[q]
    BY <1>0, <1>16, CollectFields DEF Collect, At
  <2>2. Len(errs'[r]) = Len(errs[r]) - 1
    BY <1>0e, <2>1
  <2>3. Runs(r, "api")' = Runs(r, "api") /\ Runs(r, "metrics")' = Runs(r, "metrics")
    BY <2>1 DEF Runs
  <2>4. proc[r].remaining = Runs(r, "api") + Runs(r, "metrics") + Len(errs[r])
    BY <1>0, <2>1 DEF HeardAt
  <2>5. Len(errs[r]) \in Nat /\ Runs(r, "api") \in Nat /\ Runs(r, "metrics") \in Nat
    BY <1>0c, <1>0d
  <2>6. proc'[r].remaining = Runs(r, "api")' + Runs(r, "metrics")' + Len(errs'[r])
    BY <2>1, <2>2, <2>3, <2>4, <2>5
  <2>7. HeardAt(r)'
    BY <1>0, <1>00, <2>1, <2>6
  <2> QED
    BY <1>1, <2>1, <2>7
<1>17. ASSUME NEW r \in Replicas, RunReturns(r)
       PROVE  \A q \in Replicas : HeardAt(q)'
  <2>1. /\ proc[r].at = "collecting" /\ proc'[r].at = "returned"
        /\ proc[r].remaining = 0 /\ UNCHANGED <<socket, errs>>
        /\ \A q \in Replicas \ {r} : proc'[q] = proc[q]
    BY <1>17, GotoFields DEF RunReturns, At, serving
  <2>2. Runs(r, "api") + Runs(r, "metrics") + Len(errs[r]) = 0
    BY <1>0, <2>1 DEF HeardAt
  <2>3. Len(errs[r]) \in Nat /\ Runs(r, "api") \in Nat /\ Runs(r, "metrics") \in Nat
    BY <1>0c, <1>0d
  <2>4. errs[r] \in Seq({"closed", "failed"}) /\ Len(errs[r]) = 0
    <3>1. ASSUME NEW a \in Nat, NEW b \in Nat, NEW n \in Nat, a + b + n = 0 PROVE n = 0
      BY <3>1
    <3> QED
      BY <1>0, <2>2, <2>3, <3>1
  <2>5. errs'[r] = <<>>
    BY <2>1, <2>4
  <2>6. HeardAt(r)'
    BY <1>0, <2>1, <2>5 DEF HeardAt, At
  <2> QED
    BY <1>1, <2>1, <2>6
<1>18. ASSUME NEW r \in Replicas, Gone(r)
       PROVE  \A q \in Replicas : HeardAt(q)'
  <2>1. /\ proc'[r].at = "ended" /\ errs'[r] = <<>>
        /\ \A q \in Replicas \ {r} : /\ proc'[q] = proc[q] /\ socket'[q] = socket[q]
                                     /\ errs'[q] = errs[q]
    BY <1>0, <1>18, GotoFields DEF Gone
  <2>2. HeardAt(r)'
    BY <1>0, <2>1 DEF HeardAt, At
  <2> QED
    BY <1>1, <2>1, <2>2
<1>19. ASSUME UNCHANGED <<proc, socket, errs>>
       PROVE  \A q \in Replicas : HeardAt(q)'
  BY <1>3, <1>19
<1>20. CASE \/ \E r \in Replicas : MaintainStatement(r) \/ MaintainAnswered(r)
            \/ \E h \in Handlers : Accept(h) \/ Query(h) \/ Answered(h) \/ Finish(h)
            \/ NewerGatewayMigrates \/ UNCHANGED vars
  BY <1>19, <1>20 DEF MaintainStatement, MaintainAnswered, Accept, Query, Answered, Finish,
     NewerGatewayMigrates, vars, serving
<1> QED
  BY <1>4, <1>5, <1>6, <1>7, <1>8, <1>9, <1>10, <1>12, <1>13, <1>14, <1>15, <1>16,
     <1>17, <1>18, <1>20 DEF Next, Main, Migration, Run, Exit, Kill

-----------------------------------------------------------------------------
(* Types: the counters stay within their bounds because of what is heard.  *)

\* The parts of the next-state relation that differ in what they touch.
LEMMA StepCases ==
    ASSUME [Next]_vars
    PROVE  \/ UNCHANGED vars \/ NewerGatewayMigrates
           \/ \E r \in Replicas : Migration(r) \/ NewServer(r) \/ SetPrices(r)
           \/ \E r \in Replicas : Run(r)
           \/ \E r \in Replicas : CloseStore(r) \/ Exit(r) \/ Kill(r) \/ Restart(r) \/ Signal(r)
           \/ \E r \in Replicas : \E l \in Endpoints : ServeReturns(r, l)
           \/ \E r \in Replicas : MaintainStatement(r) \/ MaintainAnswered(r)
           \/ \E h \in Handlers : Accept(h) \/ Query(h) \/ Answered(h) \/ Finish(h)
<1>1. ASSUME NEW r \in Replicas, Main(r)
      PROVE  \/ Migration(r) \/ NewServer(r) \/ SetPrices(r)
             \/ Run(r) \/ CloseStore(r) \/ Exit(r)
  BY <1>1 DEF Main
<1>2. CASE Next
  BY <1>1, <1>2 DEF Next
<1> QED
  BY <1>2

\* What comes before Run touches the database, the pool and maintenance.
LEMMA StartEffect ==
    ASSUME NEW r \in Replicas, Migration(r) \/ NewServer(r) \/ SetPrices(r)
    PROVE  /\ UNCHANGED <<socket, errs, work>>
           /\ db' = db \/ \E seen \in BOOLEAN : Commit(r, seen)
           /\ lock' = lock \/ lock' = r \/ lock' = Unlocked(r)
           /\ pool' = pool \/ pool' = [pool EXCEPT ![r] = "open"]
           /\ maintain' = maintain \/ maintain' = [maintain EXCEPT ![r] = "asleep"]
<1> USE DEF database, serving, storing
<1>1. CASE Open(r)
  BY <1>1 DEF Open
<1>2. CASE Begin(r) \/ NewServer(r) \/ SetPrices(r)
  BY <1>2 DEF Begin, NewServer, SetPrices
<1>3. CASE TakeLock(r)
  BY <1>3 DEF TakeLock
<1>4. CASE ReadVersion(r) \/ Migrate(r)
  BY <1>4 DEF ReadVersion, Migrate
<1>5. CASE \E seen \in BOOLEAN : Commit(r, seen)
  BY <1>5 DEF Commit
<1>6. CASE StatementFails(r)
  BY <1>6 DEF StatementFails
<1> QED
  BY <1>1, <1>2, <1>3, <1>4, <1>5, <1>6 DEF Migration

\* Run leaves the database and the pool alone.
LEMMA RunFrame ==
    ASSUME NEW r \in Replicas, Run(r)
    PROVE  UNCHANGED <<db, lock, pool, maintain, work>>
<1> USE DEF database, serving, storing
<1>1. CASE EnterRun(r) \/ ProbeBackends(r) \/ ListenAPI(r) \/ ListenMetrics(r)
  BY <1>1 DEF EnterRun, ProbeBackends, ListenAPI, ListenMetrics
<1>2. CASE ListenFails(r) \/ StartAPI(r) \/ StartMetrics(r) \/ ListenerExited(r)
  BY <1>2 DEF ListenFails, StartAPI, StartMetrics, ListenerExited
<1>3. CASE ShutdownAPI(r) \/ Drained(r) \/ DrainTimesOut(r) \/ ShutdownMetrics(r)
  BY <1>3 DEF ShutdownAPI, Drained, DrainTimesOut, ShutdownMetrics
<1>4. CASE Collect(r) \/ RunReturns(r)
  BY <1>4 DEF Collect, RunReturns
<1> QED
  BY <1>1, <1>2, <1>3, <1>4 DEF Run

\* What Run does to the sockets and to the channel.
LEMMA RunEffect ==
    ASSUME TypeOK, NEW r \in Replicas, Run(r)
    PROVE  /\ \/ socket' = socket
              \/ \E l \in Endpoints : \/ socket' = [socket EXCEPT ![r][l] = "none"]
                                      \/ socket' = [socket EXCEPT ![r][l] = "bound"]
                                      \/ socket' = [socket EXCEPT ![r][l] = "open"]
              \/ ShutdownAPI(r)
              \/ socket' = [socket EXCEPT ![r] = CloseServers(r)]
           /\ \/ errs' = errs
              \/ errs[r] # <<>> /\ errs' = [errs EXCEPT ![r] = Tail(errs[r])]
<1> USE DEF database, serving, storing
<1>0. "api" \in Endpoints /\ "metrics" \in Endpoints /\ errs[r] = errs[r]
  BY DEF Endpoints
<1>1. CASE EnterRun(r) \/ ProbeBackends(r) \/ Drained(r) \/ DrainTimesOut(r) \/ RunReturns(r)
  BY <1>1 DEF EnterRun, ProbeBackends, Drained, DrainTimesOut, RunReturns
<1>2. CASE ListenAPI(r) \/ ListenMetrics(r)
  BY <1>0, <1>2 DEF ListenAPI, ListenMetrics
<1>3. CASE ListenFails(r)
  BY <1>0, <1>3 DEF ListenFails
<1>4. CASE StartAPI(r) \/ StartMetrics(r)
  BY <1>0, <1>4 DEF StartAPI, StartMetrics
<1>5. CASE ListenerExited(r)
  <2>1. errs \in [Replicas -> Seq({"closed", "failed"})]
    BY DEF TypeOK
  <2> QED
    BY <1>5, <2>1 DEF ListenerExited
<1>6. CASE ShutdownAPI(r)
  BY <1>6 DEF ShutdownAPI
<1>7. CASE ShutdownMetrics(r)
  BY <1>7 DEF ShutdownMetrics
<1>8. CASE Collect(r)
  <2>1. errs \in [Replicas -> Seq({"closed", "failed"})]
    BY DEF TypeOK
  <2> QED
    BY <1>8, <2>1 DEF Collect
<1> QED
  BY <1>1, <1>2, <1>3, <1>4, <1>5, <1>6, <1>7, <1>8 DEF Run

\* The end of a process takes everything with it; restart and signal do not
\* touch what is shared.
LEMMA EndEffect ==
    ASSUME NEW r \in Replicas,
           CloseStore(r) \/ Exit(r) \/ Kill(r) \/ Restart(r) \/ Signal(r)
    PROVE  /\ db' = db /\ (lock' = lock \/ lock' = Unlocked(r))
           /\ socket' = socket \/ socket' = [socket EXCEPT ![r] = [l \in Endpoints |-> "none"]]
           /\ errs' = errs \/ errs' = [errs EXCEPT ![r] = <<>>]
           /\ \/ pool' = pool \/ pool' = [pool EXCEPT ![r] = "closed"]
              \/ pool' = [pool EXCEPT ![r] = "none"]
           /\ maintain' = maintain \/ maintain' = [maintain EXCEPT ![r] = "off"]
           /\ work' = work \/ Gone(r)
<1> USE DEF database, serving, storing
<1>1. CASE Exit(r)
  BY <1>1 DEF Exit, Gone
<1>2. CASE Kill(r)
  BY <1>2 DEF Kill, Gone
<1>3. CASE CloseStore(r)
  BY <1>3 DEF CloseStore
<1>4. CASE Restart(r) \/ Signal(r)
  BY <1>4 DEF Restart, Signal
<1> QED
  BY <1>1, <1>2, <1>3, <1>4

\* A listener's end, maintenance, handlers and a newer gateway.
LEMMA OthersEffect ==
    /\ \A r \in Replicas : \A l \in Endpoints : ServeReturns(r, l) =>
          /\ UNCHANGED <<db, lock, pool, maintain, work>>
          /\ socket' = [socket EXCEPT ![r][l] = "over"]
    /\ \A r \in Replicas : MaintainStatement(r) \/ MaintainAnswered(r) =>
          /\ UNCHANGED <<db, lock, socket, errs, pool, work>>
          /\ \/ maintain' = [maintain EXCEPT ![r] = "asleep"]
             \/ maintain' = [maintain EXCEPT ![r] = "statement"]
    /\ \A h \in Handlers : Accept(h) \/ Query(h) \/ Answered(h) \/ Finish(h) =>
          UNCHANGED <<db, lock, socket, errs, pool, maintain>>
    /\ NewerGatewayMigrates => UNCHANGED <<lock, socket, errs, pool, maintain, work>>
    /\ UNCHANGED vars => UNCHANGED <<db, lock, socket, errs, pool, maintain, work>>
<1> USE DEF database, serving, storing, vars
<1>1. ASSUME NEW r \in Replicas, NEW l \in Endpoints, ServeReturns(r, l)
      PROVE  /\ UNCHANGED <<db, lock, pool, maintain, work>>
             /\ socket' = [socket EXCEPT ![r][l] = "over"]
  BY <1>1 DEF ServeReturns
<1>2. ASSUME NEW r \in Replicas, MaintainStatement(r) \/ MaintainAnswered(r)
      PROVE  /\ UNCHANGED <<db, lock, socket, errs, pool, work>>
             /\ \/ maintain' = [maintain EXCEPT ![r] = "asleep"]
                \/ maintain' = [maintain EXCEPT ![r] = "statement"]
  BY <1>2 DEF MaintainStatement, MaintainAnswered
<1>3. ASSUME NEW h \in Handlers, Accept(h) \/ Query(h) \/ Answered(h) \/ Finish(h)
      PROVE  UNCHANGED <<db, lock, socket, errs, pool, maintain>>
  BY <1>3 DEF Accept, Query, Answered, Finish
<1>4. ASSUME NewerGatewayMigrates
      PROVE  UNCHANGED <<lock, socket, errs, pool, maintain, work>>
  BY <1>4 DEF NewerGatewayMigrates
<1> QED
  BY <1>1, <1>2, <1>3, <1>4

\* Every variable stays in its set; a migration stops at the latest version,
\* and Run waits for two answers at most.
LEMMA TypeStep ==
    LifecycleInv /\ (\A r \in Replicas : MigrationAt(r)') /\ (\A r \in Replicas : HeardAt(r)')
                 /\ [Next]_vars
      => TypeOK'
<1> SUFFICES ASSUME LifecycleInv, \A r \in Replicas : MigrationAt(r)',
                    \A r \in Replicas : HeardAt(r)', [Next]_vars
             PROVE  TypeOK'
  OBVIOUS
<1>0. /\ TypeOK /\ Latest \in Nat \ {0} /\ Null \notin Replicas
      /\ proc \in [Replicas -> Process]
  BY LifecycleAssumption DEF LifecycleInv, TypeOK
<1> USE DEF database, serving, storing, vars
<1>1. proc' \in [Replicas -> Process]
  <2>0. ASSUME NEW p \in Process, NEW place \in Serving, NEW n \in 0..2
        PROVE  [p EXCEPT !.at = place, !.remaining = n] \in Process
    <3>1. place \in Starting \cup Binding \cup Serving \cup Stopping \cup Closing \cup {"ended"}
      OBVIOUS
    <3> QED
      BY <3>1 DEF Process
  <2>1. ASSUME NEW r \in Replicas, NEW place, Goto(r, place),
               place \in Starting \cup Binding \cup Serving \cup Stopping \cup Closing
                         \cup {"ended"}
        PROVE  proc' \in [Replicas -> Process]
    BY <1>0, <2>1 DEF Process, Goto
  <2>2. ASSUME NEW r \in Replicas,
               \/ Open(r) \/ Begin(r) \/ TakeLock(r) \/ StatementFails(r)
               \/ \E seen \in BOOLEAN : Commit(r, seen)
               \/ NewServer(r) \/ SetPrices(r) \/ EnterRun(r) \/ ProbeBackends(r)
               \/ ListenAPI(r) \/ ListenMetrics(r) \/ ListenFails(r)
               \/ ShutdownAPI(r) \/ Drained(r) \/ ShutdownMetrics(r) \/ RunReturns(r)
               \/ CloseStore(r) \/ Exit(r) \/ Kill(r)
        PROVE  proc' \in [Replicas -> Process]
    <3>1. PICK place \in Starting \cup Binding \cup Serving \cup Stopping \cup Closing
                         \cup {"ended"} : Goto(r, place)
      BY <2>2 DEF Open, Begin, TakeLock, StatementFails, Commit, NewServer, SetPrices, EnterRun,
         ProbeBackends, ListenAPI, ListenMetrics, ListenFails, ShutdownAPI, Drained,
         ShutdownMetrics, RunReturns, CloseStore, Exit, Kill, Gone, Starting, Migrating, Binding,
         Serving, Stopping, Closing
    <3> QED
      BY <2>1, <3>1
  <2>3. ASSUME NEW r \in Replicas, ReadVersion(r) PROVE proc' \in [Replicas -> Process]
    <3>1. db \in 0..Latest /\ "migrating" \in Starting
      BY <1>0, <2>3 DEF ReadVersion, TypeOK, Starting, Migrating
    <3> QED
      <4>1. proc' = [proc EXCEPT ![r] = [proc[r] EXCEPT !.at = "migrating", !.version = db]]
        BY <1>0, <2>3 DEF ReadVersion
      <4>2. ASSUME NEW p \in Process
            PROVE  [p EXCEPT !.at = "migrating", !.version = db] \in Process
        BY <3>1 DEF Process
      <4> QED
        BY <1>0, <4>1, <4>2
  <2>4. ASSUME NEW r \in Replicas, Migrate(r) PROVE proc' \in [Replicas -> Process]
    <3>1. /\ proc[r].branch \in 1..Latest + 1 /\ proc[r].branch <= Latest
          /\ proc[r].version \in 0..Latest
      BY <1>0, <2>4 DEF Migrate, Process
    <3>2. /\ proc[r].branch + 1 \in 1..Latest + 1
          /\ Applies(r) => proc[r].version + 1 \in 0..Latest
      BY <1>0, <3>1 DEF Applies
    <3>3. PICK v \in 0..Latest, b \in 1..Latest + 1 :
             proc' = [proc EXCEPT ![r].branch = b, ![r].version = v]
      BY <2>4, <3>1, <3>2 DEF Migrate
    <3> QED
      <4>1. proc' = [proc EXCEPT ![r] = [proc[r] EXCEPT !.branch = b, !.version = v]]
        BY <1>0, <3>3
      <4>2. ASSUME NEW p \in Process PROVE [p EXCEPT !.branch = b, !.version = v] \in Process
        BY DEF Process
      <4> QED
        BY <1>0, <4>1, <4>2
  <2>5. ASSUME NEW r \in Replicas, StartAPI(r) PROVE proc' \in [Replicas -> Process]
    <3>1. PICK place \in Serving : proc' = [proc EXCEPT ![r].remaining = 1, ![r].at = place]
      BY <2>5 DEF StartAPI, Serving
    <3>2. proc' = [proc EXCEPT ![r] = [proc[r] EXCEPT !.at = place, !.remaining = 1]]
      BY <1>0, <3>1
    <3>3. [proc[r] EXCEPT !.at = place, !.remaining = 1] \in Process
      <4>1. 1 \in 0..2 /\ proc[r] \in Process
        BY <1>0
      <4> QED
        BY <2>0, <4>1
    <3> QED
      BY <1>0, <3>2, <3>3
  <2>6. ASSUME NEW r \in Replicas, StartMetrics(r) PROVE proc' \in [Replicas -> Process]
    <3>1. proc[r].remaining = 1 /\ "selecting" \in Serving
      BY <2>6 DEF StartMetrics, LifecycleInv, HeardAt, Serving
    <3>2. proc' = [proc EXCEPT ![r] = [proc[r] EXCEPT !.at = "selecting",
                                                      !.remaining = proc[r].remaining + 1]]
      BY <1>0, <2>6 DEF StartMetrics
    <3>3. proc[r].remaining + 1 \in 0..2
      BY <3>1
    <3> QED
      BY <1>0, <2>0, <3>1, <3>2, <3>3
  <2>7. ASSUME NEW r \in Replicas, ListenerExited(r) PROVE proc' \in [Replicas -> Process]
    <3>1. "collecting" \in Stopping /\ (Handling(r) # {}) \in BOOLEAN
      BY DEF Stopping
    <3>2. proc[r].remaining - 1 \in 0..2
      <4>1. proc[r].remaining = Runs(r, "api") + Runs(r, "metrics") + Len(errs[r])
        BY <2>7 DEF ListenerExited, LifecycleInv, HeardAt, Hearing, At
      <4>2. Runs(r, "api") \in Nat /\ Runs(r, "metrics") \in Nat
        BY DEF Runs
      <4>3. errs[r] \in Seq({"closed", "failed"}) /\ errs[r] # <<>>
        BY <1>0, <2>7 DEF ListenerExited, TypeOK
      <4>4. Len(errs[r]) \in Nat /\ Len(errs[r]) >= 1
        BY <4>3
      <4>5. ASSUME NEW a \in Nat, NEW b \in Nat, NEW n \in Nat, n >= 1, NEW m \in 0..2,
                   m = a + b + n
            PROVE  m - 1 \in 0..2
        BY <4>5
      <4>6. proc[r].remaining \in 0..2
        BY <1>0 DEF Process
      <4> QED
        BY <4>1, <4>2, <4>4, <4>5, <4>6
    <3>3. proc'[r].remaining \in 0..2
      BY <1>0, <2>7, <3>2, ExitedFields
    <3> QED
      <4>0. PICK n \in 0..2, c \in BOOLEAN :
               n = proc[r].remaining - 1 /\ c = (Handling(r) # {})
        BY <3>1, <3>2, Zenon
      <4>1. proc' = [proc EXCEPT ![r] = [proc[r] EXCEPT !.at = "collecting", !.remaining = n,
                                                        !.cut = c]]
        <5>1. proc' = [proc EXCEPT ![r].at = "collecting", ![r].remaining = @ - 1, ![r].cut = c]
          BY <2>7, <4>0, Zenon DEF ListenerExited
        <5>2. proc' = [proc EXCEPT ![r].at = "collecting", ![r].remaining = n, ![r].cut = c]
          BY <4>0, <5>1, Zenon
        <5> QED
          BY <1>0, <5>2
      <4>2. ASSUME NEW p \in Process
            PROVE  [p EXCEPT !.at = "collecting", !.remaining = n, !.cut = c] \in Process
        BY <3>1 DEF Process
      <4> QED
        BY <1>0, <4>1, <4>2
  <2>8. ASSUME NEW r \in Replicas, DrainTimesOut(r) PROVE proc' \in [Replicas -> Process]
    <3>1. proc' = [proc EXCEPT ![r] = [proc[r] EXCEPT !.at = "stopping metrics", !.cut = TRUE]]
      BY <1>0, <2>8 DEF DrainTimesOut
    <3>2. "stopping metrics" \in Stopping
      BY DEF Stopping
    <3>3. ASSUME NEW p \in Process
          PROVE  [p EXCEPT !.at = "stopping metrics", !.cut = TRUE] \in Process
      BY <3>2 DEF Process
    <3> QED
      BY <1>0, <3>1, <3>3
  <2>9. ASSUME NEW r \in Replicas, Collect(r) PROVE proc' \in [Replicas -> Process]
    <3>1. proc[r].remaining \in 0..2 /\ proc[r].remaining > 0
      BY <1>0, <2>9 DEF Collect, Process
    <3>2. PICK n \in 0..2 : n = proc[r].remaining - 1
      BY <3>1
    <3>3. proc' = [proc EXCEPT ![r] = [proc[r] EXCEPT !.remaining = n]]
      BY <1>0, <2>9, <3>2 DEF Collect
    <3>4. ASSUME NEW p \in Process PROVE [p EXCEPT !.remaining = n] \in Process
      BY DEF Process
    <3> QED
      BY <1>0, <3>3, <3>4
  <2>10. ASSUME NEW r \in Replicas, Restart(r) PROVE proc' \in [Replicas -> Process]
    BY <1>0, <2>10 DEF Restart, Born, Process, Starting
  <2>11. ASSUME NEW r \in Replicas, Signal(r) PROVE proc' \in [Replicas -> Process]
    <3>1. proc' = [proc EXCEPT ![r] = [proc[r] EXCEPT !.signalled = TRUE]]
      BY <1>0, <2>11 DEF Signal
    <3>2. ASSUME NEW p \in Process PROVE [p EXCEPT !.signalled = TRUE] \in Process
      BY DEF Process
    <3> QED
      BY <1>0, <3>1, <3>2
  <2>12. CASE UNCHANGED proc
    BY <1>0, <2>12
  <2>13. CASE \/ \E r \in Replicas : MaintainStatement(r) \/ MaintainAnswered(r)
              \/ \E r \in Replicas : \E l \in Endpoints : ServeReturns(r, l)
              \/ \E h \in Handlers : Accept(h) \/ Query(h) \/ Answered(h) \/ Finish(h)
              \/ NewerGatewayMigrates \/ UNCHANGED vars
    BY <2>12, <2>13 DEF MaintainStatement, MaintainAnswered, ServeReturns, Accept, Query,
       Answered, Finish, NewerGatewayMigrates
  <2> QED
    BY <2>2, <2>3, <2>4, <2>5, <2>6, <2>7, <2>8, <2>9, <2>10, <2>11, <2>13
       DEF Next, Main, Migration, Run
<1>2. db' \in 0..Latest + 1
  <2>1. ASSUME NEW r \in Replicas, NEW seen \in BOOLEAN, Commit(r, seen)
        PROVE  db' \in 0..Latest + 1
    BY <1>0, <2>1 DEF Commit, Process
  <2>2. db' = db \/ (\E r \in Replicas : \E seen \in BOOLEAN : Commit(r, seen))
                 \/ NewerGatewayMigrates
    BY StepCases, StartEffect, RunFrame, RunEffect, EndEffect, OthersEffect, <1>0
  <2> QED
    BY <1>0, <2>1, <2>2 DEF NewerGatewayMigrates, TypeOK
<1>3. lock' \in Replicas \cup {Null}
  <2>1. \/ lock' = lock
        \/ \E r \in Replicas : lock' = Unlocked(r) \/ lock' = r
    BY StepCases, StartEffect, RunFrame, RunEffect, EndEffect, OthersEffect, <1>0
  <2> QED
    BY <1>0, <2>1 DEF TypeOK, Unlocked
<1>4. lock' # Null => proc'[lock'].at \in {"reading", "migrating"}
  BY <1>3 DEF MigrationAt, At
<1>5. socket' \in [Replicas -> [Endpoints -> {"none", "bound", "open", "closing", "over"}]]
  <2> DEFINE State == {"none", "bound", "open", "closing", "over"}
  <2>1. socket \in [Replicas -> [Endpoints -> State]] /\ Endpoints = {"api", "metrics"}
    BY <1>0 DEF TypeOK, Endpoints
  <2>2. ASSUME NEW r \in Replicas, NEW l \in Endpoints, NEW s \in State,
               socket' = [socket EXCEPT ![r][l] = s]
        PROVE  socket' \in [Replicas -> [Endpoints -> State]]
    BY <2>1, <2>2
  <2>3. ASSUME NEW r \in Replicas, NEW f \in [Endpoints -> State],
               socket' = [socket EXCEPT ![r] = f]
        PROVE  socket' \in [Replicas -> [Endpoints -> State]]
    BY <2>1, <2>3
  <2>4. ASSUME NEW r \in Replicas PROVE CloseServers(r) \in [Endpoints -> State]
    BY <2>1 DEF CloseServers, Closed
  <2>5. [l \in Endpoints |-> "none"] \in [Endpoints -> State]
    OBVIOUS
  <2>6. ASSUME NEW r \in Replicas PROVE Closed(socket[r]["api"]) \in State
    BY <2>1 DEF Closed
  <2>7. \/ socket' = socket
        \/ \E r \in Replicas, l \in Endpoints :
              socket' = [socket EXCEPT ![r][l] = "none"]
        \/ \E r \in Replicas, l \in Endpoints :
              socket' = [socket EXCEPT ![r][l] = "bound"]
        \/ \E r \in Replicas, l \in Endpoints :
              socket' = [socket EXCEPT ![r][l] = "open"]
        \/ \E r \in Replicas, l \in Endpoints :
              socket' = [socket EXCEPT ![r][l] = "over"]
        \/ \E r \in Replicas : ShutdownAPI(r)
        \/ \E r \in Replicas : socket' = [socket EXCEPT ![r] = CloseServers(r)]
        \/ \E r \in Replicas : socket' = [socket EXCEPT ![r] = [l \in Endpoints |-> "none"]]
    BY StepCases, StartEffect, RunFrame, RunEffect, EndEffect, OthersEffect, <1>0
  <2>8. ASSUME NEW r \in Replicas, ShutdownAPI(r)
        PROVE  socket' \in [Replicas -> [Endpoints -> State]]
    BY <2>1, <2>6, <2>8 DEF ShutdownAPI
  <2> QED
    BY <2>1, <2>2, <2>3, <2>4, <2>5, <2>7, <2>8
<1>6. errs' \in [Replicas -> Seq({"closed", "failed"})]
  <2> DEFINE Answers == Seq({"closed", "failed"})
  <2>1. errs \in [Replicas -> Answers]
    BY <1>0 DEF TypeOK
  <2>2. ASSUME NEW r \in Replicas, NEW s \in Answers, errs' = [errs EXCEPT ![r] = s]
        PROVE  errs' \in [Replicas -> Answers]
    BY <2>1, <2>2
  <2>3. \/ errs' = errs
        \/ \E r \in Replicas, l \in Endpoints : ServeReturns(r, l)
        \/ \E r \in Replicas : errs[r] # <<>> /\ errs' = [errs EXCEPT ![r] = Tail(errs[r])]
        \/ \E r \in Replicas : errs' = [errs EXCEPT ![r] = <<>>]
    BY StepCases, StartEffect, RunFrame, RunEffect, EndEffect, OthersEffect, <1>0
  <2>4. ASSUME NEW r \in Replicas, NEW l \in Endpoints, ServeReturns(r, l)
        PROVE  errs' \in [Replicas -> Answers]
    <3>1. PICK m \in {"closed", "failed"} : errs' = [errs EXCEPT ![r] = Append(errs[r], m)]
      BY <2>1, <2>4 DEF ServeReturns
    <3>2. Append(errs[r], m) \in Answers
      BY <2>1
    <3> QED
      BY <2>2, <3>1, <3>2
  <2>5. ASSUME NEW r \in Replicas, errs[r] # <<>> PROVE Tail(errs[r]) \in Answers
    BY <2>1, <2>5
  <2>6. <<>> \in Answers
    OBVIOUS
  <2> HIDE DEF Answers
  <2>7. ASSUME NEW r \in Replicas, errs[r] # <<>>, errs' = [errs EXCEPT ![r] = Tail(errs[r])]
        PROVE  errs' \in [Replicas -> Answers]
    BY <2>2, <2>5, <2>7
  <2>8. ASSUME NEW r \in Replicas, errs' = [errs EXCEPT ![r] = <<>>]
        PROVE  errs' \in [Replicas -> Answers]
    BY <2>2, <2>6, <2>8
  <2>9. ASSUME errs' = errs PROVE errs' \in [Replicas -> Answers]
    BY <2>1, <2>9
  <2>10. errs' \in [Replicas -> Answers]
    BY <2>3, <2>4, <2>7, <2>8, <2>9
  <2> QED
    BY <2>10 DEF Answers
<1>7. \A r \in Replicas : Len(errs'[r]) <= 2
  <2>1. ASSUME NEW r \in Replicas PROVE Len(errs'[r]) <= 2
    <3>1. CASE proc'[r].at \in Hearing
      <4>1. proc'[r].remaining = Runs(r, "api")' + Runs(r, "metrics")' + Len(errs'[r])
        BY <3>1 DEF HeardAt
      <4>2. Runs(r, "api")' \in Nat /\ Runs(r, "metrics")' \in Nat
        BY DEF Runs
      <4>3. Len(errs'[r]) \in Nat
        BY <1>6
      <4>4. proc'[r].remaining \in 0..2
        BY <1>1 DEF Process
      <4>5. ASSUME NEW a \in Nat, NEW b \in Nat, NEW n \in Nat, NEW m \in 0..2, m = a + b + n
            PROVE  n <= 2
        BY <4>5
      <4> QED
        BY <4>1, <4>2, <4>3, <4>4, <4>5
    <3>2. CASE proc'[r].at \notin Hearing
      <4>1. errs'[r] = <<>>
        BY <3>2 DEF HeardAt
      <4> QED
        BY <4>1
    <3> QED
      BY <3>1, <3>2
  <2> QED
    BY <2>1
<1>8. pool' \in [Replicas -> {"none", "open", "closed"}]
  <2>1. pool \in [Replicas -> {"none", "open", "closed"}]
    BY <1>0 DEF TypeOK
  <2>2. \/ pool' = pool
        \/ \E r \in Replicas : \/ pool' = [pool EXCEPT ![r] = "open"]
                               \/ pool' = [pool EXCEPT ![r] = "closed"]
                               \/ pool' = [pool EXCEPT ![r] = "none"]
    BY StepCases, StartEffect, RunFrame, RunEffect, EndEffect, OthersEffect, <1>0
  <2> QED
    BY <2>1, <2>2
<1>9. maintain' \in [Replicas -> {"off", "asleep", "statement"}]
  <2>1. maintain \in [Replicas -> {"off", "asleep", "statement"}]
    BY <1>0 DEF TypeOK
  <2>2. \/ maintain' = maintain
        \/ \E r \in Replicas : \/ maintain' = [maintain EXCEPT ![r] = "off"]
                               \/ maintain' = [maintain EXCEPT ![r] = "asleep"]
                               \/ maintain' = [maintain EXCEPT ![r] = "statement"]
    BY StepCases, StartEffect, RunFrame, RunEffect, EndEffect, OthersEffect, <1>0
  <2> QED
    BY <2>1, <2>2
<1>10. work' \in [Handlers -> {"none", "working", "statement", "refused"}]
  <2>1. work \in [Handlers -> {"none", "working", "statement", "refused"}]
    BY <1>0 DEF TypeOK
  <2>2. \/ work' = work
        \/ \E r \in Replicas : Gone(r)
        \/ \E h \in Handlers : Accept(h) \/ Query(h) \/ Answered(h) \/ Finish(h)
    BY StepCases, StartEffect, RunFrame, RunEffect, EndEffect, OthersEffect, <1>0
  <2>3. ASSUME NEW r \in Replicas, Gone(r)
        PROVE  work' \in [Handlers -> {"none", "working", "statement", "refused"}]
    BY <2>1, <2>3 DEF Gone
  <2>4. ASSUME NEW h \in Handlers, Accept(h) \/ Query(h) \/ Answered(h) \/ Finish(h)
        PROVE  work' \in [Handlers -> {"none", "working", "statement", "refused"}]
    BY <2>1, <2>4 DEF Accept, Query, Answered, Finish
  <2> QED
    BY <2>1, <2>2, <2>3, <2>4
<1> QED
  BY <1>1, <1>2, <1>3, <1>4, <1>5, <1>6, <1>7, <1>8, <1>9, <1>10 DEF TypeOK

-----------------------------------------------------------------------------
(* The pool and the handlers.                                              *)

\* The pool is open from openAccountStore to the deferred store.Close.
LEMMA PoolStep ==
    TypeOK /\ (\A r \in Replicas : PoolAt(r)) /\ [Next]_vars => \A r \in Replicas : PoolAt(r)'
<1> SUFFICES ASSUME TypeOK, \A r \in Replicas : PoolAt(r), [Next]_vars
             PROVE  \A r \in Replicas : PoolAt(r)'
  OBVIOUS
<1>0. pool \in [Replicas -> {"none", "open", "closed"}]
  BY DEF TypeOK
<1> USE DEF database, serving, storing, vars
<1>1. ASSUME NEW r \in Replicas, UNCHANGED pool, proc[r].at \notin {"new", "closing", "ended"},
             \A q \in Replicas \ {r} : proc'[q] = proc[q]
      PROVE  \A q \in Replicas : PoolAt(q)'
  BY <1>1 DEF PoolAt
<1>2. ASSUME NEW r \in Replicas,
             \A q \in Replicas \ {r} : proc'[q] = proc[q] /\ pool'[q] = pool[q],
             proc'[r].at \in {"new", "closing", "ended"} \/ pool'[r] = "open"
      PROVE  \A q \in Replicas : PoolAt(q)'
  BY <1>2 DEF PoolAt
<1>3. ASSUME NEW r \in Replicas,
             \/ Begin(r) \/ TakeLock(r) \/ \E seen \in BOOLEAN : Commit(r, seen)
             \/ NewServer(r) \/ SetPrices(r) \/ EnterRun(r) \/ ProbeBackends(r)
             \/ ListenAPI(r) \/ ListenMetrics(r) \/ ListenFails(r)
             \/ ShutdownAPI(r) \/ Drained(r) \/ ShutdownMetrics(r) \/ RunReturns(r)
      PROVE  \A q \in Replicas : PoolAt(q)'
  <2>1. /\ UNCHANGED pool /\ proc[r].at \notin {"new", "closing", "ended"}
        /\ \E place : Goto(r, place)
    BY <1>3 DEF Begin, TakeLock, Commit, NewServer, SetPrices, EnterRun, ProbeBackends, ListenAPI,
       ListenMetrics, ListenFails, ShutdownAPI, Drained, ShutdownMetrics, RunReturns, At
  <2> QED
    BY <1>1, <2>1, GotoFields
<1>4. ASSUME NEW r \in Replicas, StatementFails(r) PROVE \A q \in Replicas : PoolAt(q)'
  <2>1. /\ UNCHANGED pool /\ proc[r].at \notin {"new", "closing", "ended"}
        /\ \E place : Goto(r, place)
    BY <1>4 DEF StatementFails, Starting, Migrating
  <2> QED
    BY <1>1, <2>1, GotoFields
<1>5. ASSUME NEW r \in Replicas,
             \/ ReadVersion(r) \/ StartAPI(r) \/ StartMetrics(r) \/ ListenerExited(r)
             \/ DrainTimesOut(r) \/ Collect(r)
      PROVE  \A q \in Replicas : PoolAt(q)'
  <2>1. UNCHANGED pool /\ proc[r].at \notin {"new", "closing", "ended"}
    BY <1>5 DEF ReadVersion, StartAPI, StartMetrics, ListenerExited, DrainTimesOut, Collect, At
  <2>2. \A q \in Replicas \ {r} : proc'[q] = proc[q]
    BY <1>5, ReadFields, StartFields, MetricsFields, ExitedFields, CutFields, CollectFields
  <2> QED
    BY <1>1, <2>1, <2>2
<1>6. ASSUME NEW r \in Replicas, Open(r) PROVE \A q \in Replicas : PoolAt(q)'
  BY <1>0, <1>2, <1>6, GotoFields DEF Open
<1>7. ASSUME NEW r \in Replicas, CloseStore(r) PROVE \A q \in Replicas : PoolAt(q)'
  BY <1>0, <1>2, <1>7, GotoFields DEF CloseStore
<1>8. ASSUME NEW r \in Replicas, Gone(r) PROVE \A q \in Replicas : PoolAt(q)'
  BY <1>0, <1>2, <1>8, GotoFields DEF Gone
<1>9. ASSUME NEW r \in Replicas, Restart(r) PROVE \A q \in Replicas : PoolAt(q)'
  <2>1. pool' = pool
    BY <1>9 DEF Restart
  <2> QED
    BY <1>2, <1>9, <2>1, RestartFields
<1>10. ASSUME NEW r \in Replicas, Migrate(r) \/ Signal(r)
       PROVE  \A q \in Replicas : PoolAt(q)'
  <2>1. pool' = pool
    BY <1>10 DEF Migrate, Signal
  <2>2. \A q \in Replicas : proc'[q].at = proc[q].at
    BY <1>10, MigrateFields, SignalFields
  <2> QED
    BY <2>1, <2>2 DEF PoolAt
<1>11. ASSUME UNCHANGED <<proc, pool>> PROVE \A q \in Replicas : PoolAt(q)'
  BY <1>11 DEF PoolAt
<1>12. CASE \/ \E r \in Replicas : MaintainStatement(r) \/ MaintainAnswered(r)
            \/ \E r \in Replicas : \E l \in Endpoints : ServeReturns(r, l)
            \/ \E h \in Handlers : Accept(h) \/ Query(h) \/ Answered(h) \/ Finish(h)
            \/ NewerGatewayMigrates \/ UNCHANGED vars
  BY <1>11, <1>12 DEF MaintainStatement, MaintainAnswered, ServeReturns, Accept, Query, Answered,
     Finish, NewerGatewayMigrates
<1> QED
  BY <1>3, <1>4, <1>5, <1>6, <1>7, <1>8, <1>9, <1>10, <1>12
     DEF Next, Main, Migration, Run, Exit, Kill

\* A handler that is under way after the drain was cut off, so that no other
\* can find the pool closed.
LEMMA WorkStep ==
    LifecycleInv /\ [Next]_vars => \A h \in Handlers : WorkAt(h)'
<1> SUFFICES ASSUME LifecycleInv, [Next]_vars PROVE \A h \in Handlers : WorkAt(h)'
  OBVIOUS
<1> DEFINE Before == Unbound \cup {"binding metrics", "starting api"}
<1>0. /\ TypeOK /\ work \in [Handlers -> {"none", "working", "statement", "refused"}]
      /\ \A h \in Handlers : WorkAt(h) /\ h[1] \in Replicas
      /\ Before = {"new", "opening", "building", "pricing", "locking", "reading", "migrating",
                   "entering", "probing", "binding api", "ended", "binding metrics",
                   "starting api"}
  BY Places, LifecycleAssumption DEF LifecycleInv, TypeOK
<1> USE DEF database, serving, storing, vars
<1>1. ASSUME NEW r \in Replicas, \A q \in Replicas \ {r} : proc'[q] = proc[q],
             UNCHANGED work,
             \A h \in Handlers : h[1] = r => WorkAt(h)'
      PROVE  \A h \in Handlers : WorkAt(h)'
  <2>1. ASSUME NEW h \in Handlers, h[1] # r PROVE WorkAt(h)'
    <3>1. proc'[h[1]] = proc[h[1]] /\ work'[h] = work[h] /\ WorkAt(h)
      BY <1>0, <1>1, <2>1
    <3> QED
      BY <3>1 DEF WorkAt
  <2> QED
    BY <1>1, <2>1
<1>2. ASSUME NEW r \in Replicas, \A q \in Replicas \ {r} : proc'[q] = proc[q], UNCHANGED work,
             proc[r].at \in Before
      PROVE  \A h \in Handlers : WorkAt(h)'
  <2>1. ASSUME NEW h \in Handlers, h[1] = r PROVE WorkAt(h)'
    <3>1. work[h] = "none"
      BY <1>0, <1>2, <2>1 DEF WorkAt
    <3> QED
      BY <1>2, <3>1 DEF WorkAt
  <2> QED
    BY <1>1, <1>2, <2>1
<1>3. ASSUME NEW r \in Replicas,
             \/ Open(r) \/ Begin(r) \/ TakeLock(r)
             \/ \E seen \in BOOLEAN : Commit(r, seen)
             \/ NewServer(r) \/ SetPrices(r) \/ EnterRun(r) \/ ProbeBackends(r)
             \/ ListenAPI(r) \/ ListenMetrics(r) \/ ListenFails(r) \/ StatementFails(r)
      PROVE  \A h \in Handlers : WorkAt(h)'
  <2>1. proc[r].at \in Before /\ UNCHANGED work /\ \E place : Goto(r, place)
    BY <1>0, <1>3 DEF Open, Begin, TakeLock, Commit, NewServer, SetPrices, EnterRun, ProbeBackends,
       ListenAPI, ListenMetrics, ListenFails, StatementFails, Starting, Migrating, At
  <2> QED
    BY <1>0, <1>2, <2>1, GotoFields
<1>4. ASSUME NEW r \in Replicas, ReadVersion(r) \/ StartAPI(r) \/ Restart(r)
      PROVE  \A h \in Handlers : WorkAt(h)'
  <2>1. proc[r].at \in Before /\ UNCHANGED work
    BY <1>0, <1>4 DEF ReadVersion, StartAPI, Restart, At
  <2>2. \A q \in Replicas \ {r} : proc'[q] = proc[q]
    BY <1>0, <1>4, ReadFields, StartFields, RestartFields
  <2> QED
    BY <1>2, <2>1, <2>2
<1>5. ASSUME NEW r \in Replicas, \A q \in Replicas \ {r} : proc'[q] = proc[q], UNCHANGED work,
             proc'[r].cut = proc[r].cut, proc[r].at \notin Before, proc'[r].at \notin Before,
             \/ proc'[r].at \in {"starting metrics", "selecting", "draining"}
             \/ proc[r].at \notin {"starting metrics", "selecting", "draining"}
      PROVE  \A h \in Handlers : WorkAt(h)'
  <2>1. ASSUME NEW h \in Handlers, h[1] = r PROVE WorkAt(h)'
    <3>1. WorkAt(h)
      BY <1>0
    <3> QED
      BY <1>5, <2>1, <3>1 DEF WorkAt
  <2> QED
    BY <1>1, <1>5, <2>1
<1>6. ASSUME NEW r \in Replicas,
             ShutdownAPI(r) \/ ShutdownMetrics(r) \/ RunReturns(r) \/ CloseStore(r)
      PROVE  \A h \in Handlers : WorkAt(h)'
  <2>1. /\ UNCHANGED work
        /\ \/ At(r, "selecting") /\ Goto(r, "draining")
           \/ At(r, "stopping metrics") /\ Goto(r, "collecting")
           \/ At(r, "collecting") /\ Goto(r, "returned")
           \/ At(r, "returned") /\ Goto(r, "closing")
    BY <1>6 DEF ShutdownAPI, ShutdownMetrics, RunReturns, CloseStore
  <2>2. /\ \/ proc[r].at = "selecting" /\ proc'[r].at = "draining"
           \/ proc[r].at = "stopping metrics" /\ proc'[r].at = "collecting"
           \/ proc[r].at = "collecting" /\ proc'[r].at = "returned"
           \/ proc[r].at = "returned" /\ proc'[r].at = "closing"
        /\ proc'[r].cut = proc[r].cut /\ \A q \in Replicas \ {r} : proc'[q] = proc[q]
    <3>1. PICK place : Goto(r, place) /\ proc[r].at # place
                         /\ \/ proc[r].at = "selecting" /\ place = "draining"
                            \/ proc[r].at = "stopping metrics" /\ place = "collecting"
                            \/ proc[r].at = "collecting" /\ place = "returned"
                            \/ proc[r].at = "returned" /\ place = "closing"
      BY <2>1 DEF At
    <3>2. /\ proc'[r].at = place /\ proc'[r].cut = proc[r].cut
          /\ \A q \in Replicas \ {r} : proc'[q] = proc[q]
      BY <1>0, <3>1, GotoFields
    <3> QED
      BY <3>1, <3>2
  <2> QED
    BY <1>0, <1>5, <2>1, <2>2
<1>7. ASSUME NEW r \in Replicas, StartMetrics(r) PROVE \A h \in Handlers : WorkAt(h)'
  <2>1. UNCHANGED work /\ proc[r].at = "starting metrics" /\ proc'[r].at = "selecting"
        /\ proc'[r].cut = proc[r].cut /\ \A q \in Replicas \ {r} : proc'[q] = proc[q]
    BY <1>0, <1>7, MetricsFields DEF StartMetrics, At
  <2> QED
    BY <1>0, <1>5, <2>1
<1>8. ASSUME NEW r \in Replicas, UNCHANGED work, \A q \in Replicas \ {r} : proc'[q] = proc[q],
             proc'[r].at \notin Before, Handling(r) # {} => proc'[r].cut
      PROVE  \A h \in Handlers : WorkAt(h)'
  <2>1. ASSUME NEW h \in Handlers, h[1] = r PROVE WorkAt(h)'
    <3>1. work[h] # "none" => proc'[r].cut
      BY <1>8, <2>1 DEF Handling
    <3> QED
      BY <1>8, <2>1, <3>1 DEF WorkAt
  <2> QED
    BY <1>1, <1>8, <2>1
<1>9. ASSUME NEW r \in Replicas, ListenerExited(r) \/ Drained(r) \/ DrainTimesOut(r)
      PROVE  \A h \in Handlers : WorkAt(h)'
  <2>1. UNCHANGED work
    BY <1>9 DEF ListenerExited, Drained, DrainTimesOut
  <2>2. /\ proc'[r].at \in {"collecting", "stopping metrics"}
        /\ Handling(r) # {} => proc'[r].cut
        /\ \A q \in Replicas \ {r} : proc'[q] = proc[q]
    <3>1. CASE ListenerExited(r)
      BY <1>0, <3>1, ExitedFields
    <3>2. CASE Drained(r)
      BY <1>0, <3>2, GotoFields DEF Drained
    <3>3. CASE DrainTimesOut(r)
      BY <1>0, <3>3, CutFields
    <3> QED
      BY <1>9, <3>1, <3>2, <3>3
  <2> QED
    BY <1>0, <1>8, <2>1, <2>2
<1>10. ASSUME NEW r \in Replicas, Gone(r) PROVE \A h \in Handlers : WorkAt(h)'
  <2>1. /\ \A q \in Replicas \ {r} : proc'[q] = proc[q]
        /\ \A h \in Handlers : work'[h] = IF h[1] = r THEN "none" ELSE work[h]
    BY <1>0, <1>10, GotoFields DEF Gone
  <2>2. ASSUME NEW h \in Handlers, h[1] = r PROVE WorkAt(h)'
    BY <2>1, <2>2 DEF WorkAt
  <2>3. ASSUME NEW h \in Handlers, h[1] # r PROVE WorkAt(h)'
    <3>1. proc'[h[1]] = proc[h[1]] /\ work'[h] = work[h] /\ WorkAt(h)
      BY <1>0, <2>1, <2>3
    <3> QED
      BY <3>1 DEF WorkAt
  <2> QED
    BY <2>2, <2>3
<1>11. ASSUME UNCHANGED work,
              \A q \in Replicas : proc'[q].at = proc[q].at /\ proc'[q].cut = proc[q].cut
       PROVE  \A h \in Handlers : WorkAt(h)'
  <2>1. ASSUME NEW h \in Handlers PROVE WorkAt(h)'
    <3>1. /\ proc'[h[1]].at = proc[h[1]].at /\ proc'[h[1]].cut = proc[h[1]].cut
          /\ work'[h] = work[h] /\ WorkAt(h)
      BY <1>0, <1>11
    <3> QED
      BY <3>1 DEF WorkAt
  <2> QED
    BY <2>1
<1>12. ASSUME NEW r \in Replicas, Migrate(r) \/ Signal(r) \/ Collect(r)
       PROVE  \A h \in Handlers : WorkAt(h)'
  <2>1. UNCHANGED work
    BY <1>12 DEF Migrate, Signal, Collect
  <2>2. \A q \in Replicas : proc'[q].at = proc[q].at /\ proc'[q].cut = proc[q].cut
    BY <1>0, <1>12, MigrateFields, SignalFields, CollectFields
  <2> QED
    BY <1>11, <2>1, <2>2
<1>13. ASSUME NEW h \in Handlers, UNCHANGED proc,
              \A k \in Handlers \ {h} : work'[k] = work[k], WorkAt(h)'
       PROVE  \A k \in Handlers : WorkAt(k)'
  <2>1. ASSUME NEW k \in Handlers, k # h PROVE WorkAt(k)'
    BY <1>0, <1>13, <2>1 DEF WorkAt
  <2> QED
    BY <1>13, <2>1
<1>14. ASSUME NEW h \in Handlers, Accept(h) PROVE \A k \in Handlers : WorkAt(k)'
  <2>1. /\ work'[h] = "working" /\ \A k \in Handlers \ {h} : work'[k] = work[k]
        /\ proc' = proc /\ socket[h[1]]["api"] = "open" /\ h[1] \in Replicas
    BY <1>0, <1>14 DEF Accept
  <2>2. proc[h[1]].at \in {"starting metrics", "selecting"}
    <3>1. SocketAt(h[1], "api")
      BY <2>1 DEF LifecycleInv, Endpoints
    <3>2. /\ proc[h[1]].at \notin Unbound
          /\ proc[h[1]].at \notin {"binding metrics", "starting api"}
          /\ proc[h[1]].at \notin Stopping \cup Closing
      BY <2>1, <3>1, Places DEF SocketAt, At, Absent
    <3>3. proc[h[1]].at \in Starting \cup Binding \cup Serving \cup Stopping \cup Closing \cup {"ended"}
      BY <1>0, <2>1 DEF TypeOK, Process
    <3> QED
      BY <3>2, <3>3 DEF Unbound, Binding, Serving
  <2>3. WorkAt(h)'
    BY <1>0, <2>1, <2>2 DEF WorkAt
  <2> QED
    BY <1>13, <2>1, <2>3
<1>15. ASSUME NEW h \in Handlers, Query(h) PROVE \A k \in Handlers : WorkAt(k)'
  <2>1. /\ work[h] = "working"
        /\ work'[h] = IF pool[h[1]] = "open" THEN "statement" ELSE "refused"
        /\ \A k \in Handlers \ {h} : work'[k] = work[k]
        /\ proc' = proc /\ h[1] \in Replicas /\ WorkAt(h)
    BY <1>0, <1>15 DEF Query
  <2>2. pool[h[1]] # "open" => proc[h[1]].cut
    <3>1. proc[h[1]].at \notin Before
      BY <2>1 DEF WorkAt
    <3>2. PoolAt(h[1])
      BY <2>1 DEF LifecycleInv
    <3>3. pool[h[1]] # "open" => proc[h[1]].at = "closing"
      BY <1>0, <3>1, <3>2 DEF PoolAt
    <3> QED
      BY <2>1, <3>3 DEF WorkAt
  <2>3. WorkAt(h)'
    BY <2>1, <2>2 DEF WorkAt
  <2> QED
    BY <1>13, <2>1, <2>3
<1>16. ASSUME NEW h \in Handlers, Answered(h) \/ Finish(h)
       PROVE  \A k \in Handlers : WorkAt(k)'
  <2>1. /\ work[h] # "none" /\ work'[h] \in {"none", "working"}
        /\ \A k \in Handlers \ {h} : work'[k] = work[k]
        /\ proc' = proc /\ WorkAt(h)
    BY <1>0, <1>16 DEF Answered, Finish
  <2>2. WorkAt(h)'
    BY <2>1 DEF WorkAt
  <2> QED
    BY <1>13, <2>1, <2>2
<1>17. CASE \/ \E r \in Replicas : MaintainStatement(r) \/ MaintainAnswered(r)
            \/ \E r \in Replicas : \E l \in Endpoints : ServeReturns(r, l)
            \/ NewerGatewayMigrates \/ UNCHANGED vars
  BY <1>11, <1>17 DEF MaintainStatement, MaintainAnswered, ServeReturns, NewerGatewayMigrates
<1> QED
  BY <1>3, <1>4, <1>6, <1>7, <1>9, <1>10, <1>12, <1>14, <1>15, <1>16, <1>17
     DEF Next, Main, Migration, Run, Exit, Kill

-----------------------------------------------------------------------------
(* The theorems.                                                           *)

\* Every process starts at the beginning, with nothing bound or open.
LEMMA Initial == Init => LifecycleInv
<1> SUFFICES ASSUME Init PROVE LifecycleInv
  OBVIOUS
<1>0. Latest \in Nat \ {0} /\ Null \notin Replicas /\ \A h \in Handlers : h[1] \in Replicas
  BY LifecycleAssumption
<1>1. /\ \A r \in Replicas : /\ proc[r] = Born /\ errs[r] = <<>> /\ maintain[r] = "off"
                             /\ \A l \in Endpoints : socket[r][l] = "none"
      /\ \A h \in Handlers : work[h] = "none"
      /\ lock = Null /\ Born.at = "new" /\ Born.branch = 1 /\ "new" \notin Migrated
  BY DEF Init, Born, Migrated, Binding, Serving, Stopping
<1>2. TypeOK
  <2>1. Born \in Process
    BY <1>0 DEF Born, Process, Starting
  <2>2. <<>> \in Seq({"closed", "failed"}) /\ Len(<<>>) = 0
    OBVIOUS
  <2>3. \A r \in Replicas : Len(errs[r]) <= 2
    BY <1>1, <2>2
  <2>4. db \in 0..Latest + 1
    BY <1>0 DEF Init
  <2> QED
    BY <2>1, <2>2, <2>3, <2>4 DEF Init, TypeOK
<1>3. \A r \in Replicas : MigrationAt(r)
  BY <1>0, <1>1 DEF MigrationAt, At
<1>4. \A r \in Replicas : \A l \in Endpoints : SocketAt(r, l)
  BY <1>1, Places DEF SocketAt, At
<1>5. \A r \in Replicas : HeardAt(r)
  BY <1>1, Places DEF HeardAt, At, Hearing
<1>6. \A r \in Replicas : PoolAt(r)
  BY <1>1 DEF PoolAt
<1>7. \A h \in Handlers : WorkAt(h)
  BY <1>1 DEF WorkAt
<1> QED
  BY <1>2, <1>3, <1>4, <1>5, <1>6, <1>7 DEF LifecycleInv

\* The invariant of a process's life: what its place in main, Migrate and Run
\* says of the lock, the schema, the sockets, the channel, the pool and the
\* requests under way.
THEOREM Inductive == Spec => []LifecycleInv
<1>1. ASSUME LifecycleInv, [Next]_vars PROVE LifecycleInv'
  <2>1. /\ TypeOK /\ \A r \in Replicas : MigrationAt(r)
        /\ \A r \in Replicas : \A l \in Endpoints : SocketAt(r, l)
        /\ \A r \in Replicas : HeardAt(r)
        /\ \A r \in Replicas : PoolAt(r)
    BY <1>1 DEF LifecycleInv
  <2>2. \A r \in Replicas : MigrationAt(r)'
    BY <1>1, <2>1, MigrationStep
  <2>3. \A r \in Replicas : \A l \in Endpoints : SocketAt(r, l)'
    BY <1>1, <2>1, SocketStep
  <2>4. \A r \in Replicas : HeardAt(r)'
    BY <1>1, <2>1, HeardStep
  <2>5. \A r \in Replicas : PoolAt(r)'
    BY <1>1, <2>1, PoolStep
  <2>6. \A h \in Handlers : WorkAt(h)'
    BY <1>1, WorkStep
  <2>7. TypeOK'
    BY <1>1, <2>2, <2>4, TypeStep
  <2>8. (\A r \in Replicas : \A l \in Endpoints : SocketAt(r, l))'
    BY <2>3 DEF Endpoints
  <2> QED
    BY <2>2, <2>8, <2>4, <2>5, <2>6, <2>7 DEF LifecycleInv
<1> QED
  BY <1>1, Initial, PTL DEF Spec

\* The variables stay in their sets: no channel holds more answers than there
\* are listeners, and no migration passes the latest version.
THEOREM TypeCorrect == Spec => []TypeOK
<1>1. LifecycleInv => TypeOK
  BY DEF LifecycleInv
<1> QED
  BY <1>1, Inductive, PTL

\* The advisory lock of Migrate: no start meets what another one's migration
\* has created in the meantime, whatever was killed.
THEOREM StartsCorrect == Spec => []StartsDontCollide
<1>1. LifecycleInv => StartsDontCollide
  <2>1. ASSUME LifecycleInv, NEW r \in Replicas PROVE ~Collides(r)
    <3>1. MigrationAt(r) /\ db \in Int /\ proc[r].version \in Int /\ proc[r].branch \in Int
      BY <2>1, LifecycleAssumption DEF LifecycleInv, TypeOK, Process
    <3> QED
      BY <3>1 DEF MigrationAt, Collides, Applies
  <2> QED
    BY <2>1 DEF StartsDontCollide
<1> QED
  BY <1>1, Inductive, PTL

\* A start that fails leaves nothing that takes requests: the API is open only
\* over a migrated schema, and with the metrics socket bound.
THEOREM WholeStarts == Spec => []StartsWhole
<1>1. LifecycleInv => StartsWhole
  <2>1. ASSUME LifecycleInv, NEW r \in Replicas, socket[r]["api"] = "open"
        PROVE  db >= Latest /\ (r \in WithMetrics => socket[r]["metrics"] # "none")
    <3>1. SocketAt(r, "api") /\ SocketAt(r, "metrics") /\ MigrationAt(r)
      BY <2>1 DEF LifecycleInv, Endpoints
    <3>2. /\ proc[r].at \notin Unbound \cup Closing
          /\ proc[r].at \notin {"binding metrics", "starting api"}
      BY <2>1, <3>1 DEF SocketAt, At, Absent
    <3>3. proc[r].at \in Starting \cup Binding \cup Serving \cup Stopping \cup Closing \cup {"ended"}
      BY <2>1 DEF LifecycleInv, TypeOK, Process
    <3>4. proc[r].at \in {"starting metrics", "selecting"} \cup Stopping
      BY <3>2, <3>3 DEF Unbound, Binding, Serving
    <3>5. db >= Latest
      BY <3>1, <3>4 DEF MigrationAt, Migrated, Serving
    <3>6. r \in WithMetrics => socket[r]["metrics"] # "none"
      BY <3>1, <3>4 DEF SocketAt, At, Absent
    <3> QED
      BY <3>5, <3>6
  <2>2. ASSUME LifecycleInv, NEW r \in Replicas, maintain[r] # "off" PROVE db >= Latest
    BY <2>2 DEF LifecycleInv, MigrationAt
  <2> QED
    BY <2>1, <2>2 DEF StartsWhole
<1> QED
  BY <1>1, Inductive, PTL

\* Run returns with both listeners gone and their goroutines heard.
THEOREM WholeStops == Spec => []StopsWhole
<1>1. LifecycleInv => StopsWhole
  <2>1. ASSUME LifecycleInv, NEW r \in Replicas, proc[r].at \in Closing, NEW l \in Endpoints
        PROVE  socket[r][l] \in {"none", "over"} /\ errs[r] = <<>>
    <3>1. SocketAt(r, l) /\ HeardAt(r)
      BY <2>1 DEF LifecycleInv
    <3> QED
      BY <2>1, <3>1, Places DEF SocketAt, HeardAt, Hearing
  <2> QED
    BY <2>1 DEF StopsWhole
<1> QED
  BY <1>1, Inductive, PTL

\* The metrics listener outlasts the drain, unless it failed by itself.
THEOREM MetricsCorrect == Spec => []MetricsWhileDraining
<1>1. LifecycleInv => MetricsWhileDraining
  <2>1. ASSUME LifecycleInv, NEW r \in WithMetrics, At(r, "draining")
        PROVE  \/ socket[r]["metrics"] = "open"
               \/ \E i \in DOMAIN errs[r] : errs[r][i] = "failed"
    <3>1. SocketAt(r, "metrics") /\ HeardAt(r)
      BY <2>1, LifecycleAssumption DEF LifecycleInv, Endpoints
    <3>2. socket[r]["metrics"] \in {"open", "over"}
      BY <2>1, <3>1, Places DEF SocketAt, At, Absent
    <3> QED
      BY <2>1, <3>1, <3>2 DEF HeardAt, At
  <2> QED
    BY <2>1 DEF MetricsWhileDraining
<1> QED
  BY <1>1, Inductive, PTL

\* A request finds the pool closed only when it was cut off.
THEOREM SettlingCorrect == Spec => []SettledBeforeClose
<1>1. LifecycleInv => SettledBeforeClose
  BY DEF LifecycleInv, WorkAt, SettledBeforeClose
<1> QED
  BY <1>1, Inductive, PTL
=============================================================================
