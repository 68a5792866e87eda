----------------------------- MODULE Membership -----------------------------
(***************************************************************************)
(* Who serves a model in one gateway: the registry file, the published     *)
(* routing snapshot, the map of known backends, the health probes, and the *)
(* requests that hold a snapshot, or a backend of it, and keep it after the *)
(* snapshot was replaced.  An origin is read as a key of Server.backends,  *)
(* a model with an origin: the models of the catalog are reloaded, and a   *)
(* reload of them is rejected, together.                                   *)
(*                                                                         *)
(* A backend is an object, not an address: after a backend has left the    *)
(* registry and come back, there are two of one origin while old requests  *)
(* drain.                                                                  *)
(***************************************************************************)
EXTENDS Integers, FiniteSets

CONSTANTS
    Urls,        \* URLs as they are spelled in the registry
    Origins,     \* URLs as url.Parse(..).String() spells them
    OriginOf,    \* [Urls -> Origins]
    Spelling,    \* [Urls -> a URL as spelled, without a trailing slash]
    Requests,    \* concurrent requests for the model
    MaxCopies,   \* bound on the backends of one origin that exist at a time
    None         \* absence of a backend or of a series of a gauge

Backends == Origins \X (1..MaxCopies)

OriginsOf(S) == {i[1] : i \in S}

\* What loadModels and sameCatalog let through: at least one URL, and no
\* origin twice.
Registries ==
    {R \in SUBSET Urls :
        R # {} /\ \A u, v \in R : OriginOf[u] = OriginOf[v] => u = v}

ASSUME MembershipAssumption ==
    /\ IsFiniteSet(Urls)
    /\ OriginOf \in [Urls -> Origins]
    /\ DOMAIN Spelling = Urls
    /\ MaxCopies \in Nat \ {0}
    /\ None \notin Backends

VARIABLES
    registry,   \* what the file names; {} stands for any rejected content
    up,         \* [Origins -> whether /health would answer 200]
    routing,    \* backends of the published snapshot
    backends,   \* [Origins -> backend or None]: Server.backends
    health,     \* [Backends -> "assumed" before its first probe, "up", "down"]
    shown,      \* [Origins -> vire_backend_healthy, or None]
    inflight,   \* [Origins -> vire_backend_requests_in_flight]
    lock,       \* what holds reloadMu
    loaded,     \* the registry that a reload has read
    next,       \* the snapshot that it has built
    added,      \* the backends that it has made
    toProbe,    \* backends that the holder of reloadMu has yet to probe
    serving,    \* the listeners are open
    stopping,   \* the context of Run has ended
    pc,         \* [Requests -> where the request is]
    held        \* [Requests -> the backends it can still be sent to]

vars == <<registry, up, routing, backends, health, shown, inflight, lock,
          loaded, next, added, toProbe, serving, stopping, pc, held>>

reload == <<loaded, next, added>>
run == <<serving, stopping>>
requests == <<pc, held>>

TypeOK ==
    /\ registry \in Registries \cup {{}} /\ loaded \in Registries \cup {{}}
    /\ up \in [Origins -> BOOLEAN]
    /\ \A S \in {routing, next, added, toProbe} : S \subseteq Backends
    /\ backends \in [Origins -> Backends \cup {None}]
    /\ health \in [Backends -> {"assumed", "up", "down"}]
    /\ shown \in [Origins -> {"up", "down", None}]
    /\ inflight \in [Origins -> Int]
    /\ lock \in {"free", "start", "reload", "probe"}
    /\ serving \in BOOLEAN /\ stopping \in BOOLEAN
    /\ pc \in [Requests -> {"idle", "recording", "proxied"}]
    /\ held \in [Requests -> SUBSET Backends]

\* NewServer, and Run up to its first probeBackends.
Init ==
    /\ registry \in Registries
    /\ up \in [Origins -> BOOLEAN]
    /\ routing = {<<OriginOf[u], 1>> : u \in registry}
    /\ backends = [o \in Origins |-> IF <<o, 1>> \in routing THEN <<o, 1>> ELSE None]
    /\ health = [i \in Backends |-> "assumed"]
    /\ shown = [o \in Origins |-> None]
    /\ inflight = [o \in Origins |-> 0]
    /\ lock = "start" /\ toProbe = routing
    /\ loaded = {} /\ next = {} /\ added = {}
    /\ serving = FALSE /\ stopping = FALSE
    /\ pc = [r \in Requests |-> "idle"]
    /\ held = [r \in Requests |-> {}]
-----------------------------------------------------------------------------
(* Server.probeBackend.                                                    *)

Observed(o) == IF up[o] THEN "up" ELSE "down"

ProbeStored(i) ==
    /\ health' = [health EXCEPT ![i] = Observed(i[1])]
    /\ shown' = [shown EXCEPT ![i[1]] = Observed(i[1])]

\* Mutations of ProbeResult: a canceled probe has a result of its own; a
\* probe without an answer returns before it stores anything.
ProbeCanceled(i) ==
    IF stopping THEN health' = [health EXCEPT ![i] = "canceled"] /\ UNCHANGED shown
    ELSE ProbeStored(i)

ProbeAnswered(i) ==
    IF stopping \/ ~up[i[1]] THEN UNCHANGED <<health, shown>> ELSE ProbeStored(i)

\* A canceled probe tells nothing.
ProbeResult(i) == IF stopping THEN UNCHANGED <<health, shown>> ELSE ProbeStored(i)
-----------------------------------------------------------------------------
(* Server.ReloadRegistry.                                                  *)

Known == {backends[o] : o \in Origins} \ {None}

InUse == routing \cup Known \cup UNION {held[r] : r \in Requests}

\* A copy of o that nothing refers to any more: a new object.
Unused(o) == {k \in 1..MaxCopies : <<o, k>> \notin InUse}
New(o) == <<o, CHOOSE k \in Unused(o) : TRUE>>

\* Mutation of Member: a backend that is down is made anew.
MemberIfHealthy(o) ==
    IF backends[o] = None \/ health[backends[o]] = "down" THEN New(o) ELSE backends[o]

\* The entry of buildRouting for one URL.
Member(o) == IF backends[o] = None THEN New(o) ELSE backends[o]

\* The file is read; what it names differs from the published snapshot; and
\* the next snapshot is built.
StartReload ==
    LET wanted == {OriginOf[u] : u \in registry}
        built == {Member(o) : o \in wanted}
        fresh == built \ Known
    IN  /\ serving /\ ~stopping /\ lock = "free"
        /\ registry # {} /\ wanted # OriginsOf(routing)
        /\ \A o \in wanted : backends[o] = None => Unused(o) # {}
        /\ lock' = "reload"
        /\ loaded' = registry /\ next' = built /\ added' = fresh /\ toProbe' = fresh
        /\ backends' = [o \in Origins |-> IF o \in OriginsOf(fresh) THEN Member(o)
                                          ELSE backends[o]]
        /\ health' = [i \in Backends |-> IF i \in fresh THEN "assumed" ELSE health[i]]
        /\ inflight' = [o \in Origins |-> IF o \in OriginsOf(fresh) THEN 0
                                          ELSE inflight[o]]
        /\ UNCHANGED <<registry, up, routing, shown, run, requests>>

NewMemberHealthy(i) ==
    /\ lock = "reload" /\ i \in toProbe
    /\ ~stopping /\ up[i[1]]
    /\ ProbeResult(i)
    /\ toProbe' = toProbe \ {i}
    /\ UNCHANGED <<registry, up, routing, backends, inflight, lock, reload, run,
                   requests>>

\* What a reload leaves behind when it ends.
Unlock ==
    /\ lock' = "free"
    /\ loaded' = {} /\ next' = {} /\ added' = {} /\ toProbe' = {}

\* Mutations of RejectReload: only the failing member is forgotten; an early
\* return keeps reloadMu.
RejectOne(i) ==
    /\ lock = "reload" /\ i \in toProbe
    /\ stopping \/ ~up[i[1]]
    /\ health' = IF stopping THEN health ELSE [health EXCEPT ![i] = "down"]
    /\ backends' = [backends EXCEPT ![i[1]] = None]
    /\ shown' = [shown EXCEPT ![i[1]] = None]
    /\ Unlock
    /\ UNCHANGED <<registry, up, routing, inflight, run, requests>>

RejectLocked(i) ==
    /\ lock = "reload" /\ i \in toProbe
    /\ stopping \/ ~up[i[1]]
    /\ lock' = "kept"
    /\ UNCHANGED <<registry, up, routing, backends, health, shown, inflight,
                   reload, toProbe, run, requests>>

\* One new member is not healthy: all new members are forgotten.
RejectReload(i) ==
    /\ lock = "reload" /\ i \in toProbe
    /\ stopping \/ ~up[i[1]]
    /\ health' = IF stopping THEN health ELSE [health EXCEPT ![i] = "down"]
    /\ backends' = [o \in Origins |-> IF o \in OriginsOf(added) THEN None ELSE backends[o]]
    /\ shown' = [o \in Origins |-> IF o \in OriginsOf(added) THEN None ELSE shown[o]]
    /\ Unlock
    /\ UNCHANGED <<registry, up, routing, inflight, run, requests>>

\* The keys that survive the pruning of Server.backends.
Active == {Spelling[u] : u \in loaded}

\* Mutations of Publish: before the new members are probed; without taking
\* the pruned members' health from the metrics.
PublishEarly ==
    /\ lock = "reload"
    /\ routing' = next
    /\ backends' = [o \in Origins |-> IF o \in Active THEN backends[o] ELSE None]
    /\ shown' = [o \in Origins |->
                   IF backends[o] # None /\ o \notin Active THEN None ELSE shown[o]]
    /\ Unlock
    /\ UNCHANGED <<registry, up, health, inflight, run, requests>>

PublishShown ==
    /\ lock = "reload" /\ toProbe = {}
    /\ routing' = next
    /\ backends' = [o \in Origins |-> IF o \in Active THEN backends[o] ELSE None]
    /\ Unlock
    /\ UNCHANGED <<registry, up, health, shown, inflight, run, requests>>

Publish ==
    /\ lock = "reload" /\ toProbe = {}
    /\ routing' = next
    /\ backends' = [o \in Origins |-> IF o \in Active THEN backends[o] ELSE None]
    /\ shown' = [o \in Origins |->
                   IF backends[o] # None /\ o \notin Active THEN None ELSE shown[o]]
    /\ Unlock
    /\ UNCHANGED <<registry, up, health, inflight, run, requests>>
-----------------------------------------------------------------------------
(* Server.probeBackends: at the start of Run, then from watchBackends.     *)

StartProbes ==
    /\ serving /\ ~stopping /\ lock = "free"
    /\ lock' = "probe" /\ toProbe' = routing
    /\ UNCHANGED <<registry, up, routing, backends, health, shown, inflight,
                   reload, run, requests>>

Probe(i) ==
    /\ lock \in {"start", "probe"} /\ i \in toProbe
    /\ ProbeResult(i)
    /\ toProbe' = toProbe \ {i}
    /\ UNCHANGED <<registry, up, routing, backends, inflight, lock, reload, run,
                   requests>>

\* group.Wait; the first time, Run goes on to open its listeners.
ProbesDone ==
    /\ lock \in {"start", "probe"} /\ toProbe = {}
    /\ Unlock
    /\ serving' = TRUE
    /\ UNCHANGED <<registry, up, routing, backends, health, shown, inflight,
                   stopping, requests>>
-----------------------------------------------------------------------------
(* Requests.                                                               *)

Healthy(i) == health[i] # "down"

LoadRouting(r) ==
    /\ serving /\ pc[r] = "idle"
    /\ pc' = [pc EXCEPT ![r] = "recording"]
    /\ held' = [held EXCEPT ![r] = routing]
    /\ UNCHANGED <<registry, up, routing, backends, health, shown, inflight,
                   lock, reload, toProbe, run>>

\* BeginUsage fails, or no backend is found to be healthy.
Refuse(r) ==
    /\ pc[r] = "recording"
    /\ pc' = [pc EXCEPT ![r] = "idle"]
    /\ held' = [held EXCEPT ![r] = {}]
    /\ UNCHANGED <<registry, up, routing, backends, health, shown, inflight,
                   lock, reload, toProbe, run>>

Dispatch(r, i) ==
    /\ pc[r] = "recording" /\ i \in held[r] /\ Healthy(i)
    /\ pc' = [pc EXCEPT ![r] = "proxied"]
    /\ held' = [held EXCEPT ![r] = {i}]
    /\ inflight' = [inflight EXCEPT ![i[1]] = @ + 1]
    /\ UNCHANGED <<registry, up, routing, backends, health, shown, lock, reload,
                   toProbe, run>>

Finish(r, i) ==
    /\ pc[r] = "proxied" /\ held[r] = {i}
    /\ pc' = [pc EXCEPT ![r] = "idle"]
    /\ held' = [held EXCEPT ![r] = {}]
    /\ inflight' = [inflight EXCEPT ![i[1]] = @ - 1]
    /\ UNCHANGED <<registry, up, routing, backends, health, shown, lock, reload,
                   toProbe, run>>
-----------------------------------------------------------------------------
(* The operator and the backends (external).                               *)

EditRegistry(R) ==
    /\ registry' = R
    /\ UNCHANGED <<up, routing, backends, health, shown, inflight, lock, reload,
                   toProbe, run, requests>>

Turn(o) ==
    /\ up' = [up EXCEPT ![o] = ~@]
    /\ UNCHANGED <<registry, routing, backends, health, shown, inflight, lock,
                   reload, toProbe, run, requests>>

Stop ==
    /\ stopping' = TRUE
    /\ UNCHANGED <<registry, up, routing, backends, health, shown, inflight,
                   lock, reload, toProbe, serving, requests>>

Watchers ==
    \/ \E i \in Backends : NewMemberHealthy(i) \/ RejectReload(i) \/ Probe(i)
    \/ Publish
    \/ ProbesDone

Next ==
    \/ StartReload
    \/ StartProbes
    \/ Watchers
    \/ \E r \in Requests :
          \/ LoadRouting(r) \/ Refuse(r)
          \/ \E i \in Backends : Dispatch(r, i) \/ Finish(r, i)
    \/ \E R \in Registries \cup {{}} : EditRegistry(R)
    \/ \E o \in Origins : Turn(o)
    \/ Stop

Spec == Init /\ [][Next]_vars

(***************************************************************************)
(* A probe ends within the timeout of healthClient, so the holder of       *)
(* reloadMu goes on.  Both tickers fire again and again; sync.Mutex lets   *)
(* neither watcher starve, so each gets reloadMu again and again although  *)
(* the other one takes it in between.                                      *)
(***************************************************************************)
FairSpec ==
    /\ Spec
    /\ WF_vars(Watchers)
    /\ SF_vars(StartReload) /\ SF_vars(StartProbes)
-----------------------------------------------------------------------------
(***************************************************************************)
(* Between reloads, Server.backends holds the backends of the published    *)
(* snapshot and no others: a rejected reload leaves none of its new        *)
(* members behind, a pruned reload loses none that still serves.           *)
(***************************************************************************)
MapIsRouting == lock # "reload" => Known = routing

(***************************************************************************)
(* "It reuses backend health and connection pools when a member remains in *)
(* the registry" (buildRouting): an origin that stays in the published     *)
(* snapshot keeps its backend.                                             *)
(***************************************************************************)
MembersKept ==
    [][\A i \in routing : i[1] \in OriginsOf(routing') => i \in routing']_vars

(***************************************************************************)
(* vire_backend_healthy has a series for exactly the published members,    *)
(* and it tells what the router goes by, unless the process is stopped     *)
(* before it has probed.                                                   *)
(***************************************************************************)
HealthShown ==
    lock = "free" =>
        /\ \A o \in Origins \ OriginsOf(routing) : shown[o] = None
        /\ \A i \in routing : \/ shown[i[1]] = health[i]
                              \/ stopping /\ health[i] = "assumed"

(***************************************************************************)
(* "The running server probes before accepting traffic" (buildRouting):    *)
(* no request is sent to a backend that was never probed, neither at the   *)
(* start nor after a reload, unless the process is being stopped already.  *)
(***************************************************************************)
ProbedBeforeTraffic ==
    \A r \in Requests : pc[r] = "proxied" =>
        \A i \in held[r] : health[i] # "assumed" \/ stopping

(***************************************************************************)
(* A registry that stays, and whose members are and stay up, is published  *)
(* in the end, whatever was tried and rejected before.                     *)
(***************************************************************************)
RegistryApplied ==
    /\ <>[][UNCHANGED registry]_vars
    /\ <>[](registry # {} /\ \A u \in registry : up[OriginOf[u]])
    => <>(stopping \/ [](OriginsOf(routing) = {OriginOf[u] : u \in registry}))

(***************************************************************************)
(* The health that the router goes by follows a member's real health.      *)
(***************************************************************************)
HealthFollows ==
    \A o \in Origins :
        <>[][up'[o] = up[o]]_vars
          => <>(stopping \/ [](\A i \in routing : i[1] = o => Healthy(i) = up[o]))

(***************************************************************************)
(* "Active proxied requests, including response streaming", says the help  *)
(* text of the gauge.                                                      *)
(***************************************************************************)
InflightCounts ==
    \A o \in Origins :
        inflight[o] = Cardinality({r \in Requests :
                                     pc[r] = "proxied" /\ o \in OriginsOf(held[r])})

(***************************************************************************)
(* The documented scale-in: once the new membership is published and the   *)
(* gauge of the removed backend is zero, its replica may be taken away.    *)
(***************************************************************************)
DrainedStaysDrained ==
    [][\A r \in Requests :
         pc[r] # "proxied" /\ pc'[r] = "proxied" =>
            \A o \in OriginsOf(held'[r]) :
                o \in OriginsOf(routing) \/ inflight[o] # 0]_vars
=============================================================================
