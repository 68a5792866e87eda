-------------------------- MODULE MembershipProofs --------------------------
(***************************************************************************)
(* Proofs about Membership for every set of URLs, origins, requests and    *)
(* copies of a backend.                                                    *)
(***************************************************************************)
EXTENDS Membership, TLAPS

-----------------------------------------------------------------------------
(* The inductive invariant.                                                *)

Wanted(R) == {OriginOf[u] : u \in R}

\* The map finds a backend under its own origin.
Keyed == \A o \in Origins : backends[o] # None => backends[o][1] = o

\* What the holder of reloadMu has left to do.
Locked ==
    /\ lock = "start" <=> ~serving
    /\ lock = "start" => Known = routing
    /\ lock = "free" => toProbe = {}
    /\ lock # "reload" => added = {} /\ toProbe \subseteq routing
    /\ lock = "reload" =>
          /\ toProbe \subseteq added /\ added \subseteq Known
          /\ \A o \in Wanted(loaded) : backends[o] # None
          /\ next = {backends[o] : o \in Wanted(loaded)}

\* Backends that were probed, until the process is stopped: before the first
\* round has ended those that it need not probe any more, then those of the
\* snapshot, of the requests, and of the map but for the members that a reload
\* is about to probe.
Probed ==
    stopping \/
        /\ ~serving => \A i \in routing \ toProbe : health[i] # "assumed"
        /\ serving => \A i \in routing \cup (Known \ added) : health[i] # "assumed"
        /\ \A i \in added \ toProbe : health[i] # "assumed"
        /\ \A r \in Requests : \A i \in held[r] : health[i] # "assumed"

MembershipInv == TypeOK /\ Keyed /\ Locked /\ Probed

\* Every URL is spelled as url.Parse(..).String() spells it, but for a slash at
\* its end.
PlainSpelling == \A u \in Urls : Spelling[u] = OriginOf[u]

\* But for the new members of a reload, the map holds the published snapshot.
Mapped == Known \ added = routing

\* The gauge shows the health of the backends of the map, and no others'.
Shown ==
    \A o \in Origins :
        IF backends[o] = None THEN shown[o] = None
        ELSE \/ shown[o] = health[backends[o]]
             \/ shown[o] = None /\ health[backends[o]] = "assumed"

PlainInv == MembershipInv /\ Mapped /\ Shown

-----------------------------------------------------------------------------
(* New backends.                                                           *)

\* A new backend is nobody's: neither published, nor known, nor held.
LEMMA NewUnused ==
    ASSUME NEW o \in Origins, Unused(o) # {}
    PROVE  New(o) \in Backends \ InUse /\ New(o)[1] = o
BY DEF New, Unused, Backends

\* The members of the snapshot that a reload builds: those of the map are
\* kept, the others are new.
LEMMA Built ==
    ASSUME TypeOK, Keyed, NEW R \in Registries,
           \A o \in Wanted(R) : backends[o] = None => Unused(o) # {}
    PROVE  /\ Wanted(R) \subseteq Origins
           /\ \A o \in Wanted(R) :
                 /\ Member(o) \in Backends /\ Member(o)[1] = o
                 /\ IF backends[o] = None THEN Member(o) \notin InUse
                    ELSE Member(o) = backends[o] /\ Member(o) \in Known
<1>1. Wanted(R) \subseteq Origins
  BY MembershipAssumption DEF Wanted, Registries
<1>2. ASSUME NEW o \in Wanted(R), backends[o] = None
      PROVE  Member(o) \in Backends \ InUse /\ Member(o)[1] = o
  BY <1>1, <1>2, NewUnused DEF Member
<1>3. ASSUME NEW o \in Wanted(R), backends[o] # None
      PROVE  /\ Member(o) = backends[o] /\ Member(o) \in Known
             /\ Member(o) \in Backends /\ Member(o)[1] = o
  BY <1>1, <1>3 DEF Member, Known, TypeOK, Keyed
<1> QED
  BY <1>1, <1>2, <1>3

\* What StartReload does to the map, in terms of its new members.
LEMMA Started ==
    ASSUME TypeOK, Keyed, StartReload
    PROVE  /\ registry \in Registries /\ loaded' = registry
           /\ next' \subseteq Backends /\ added' \subseteq next'
           /\ added' \cap InUse = {} /\ toProbe' = added'
           /\ Wanted(registry) \subseteq Origins
           /\ \A o \in Origins : backends'[o] = IF backends[o] = None /\ o \in Wanted(registry)
                                               THEN Member(o) ELSE backends[o]
           /\ \A o \in Wanted(registry) : backends'[o] # None /\ Member(o) = backends'[o]
           /\ \A o \in Origins : backends[o] # None => backends[o] \notin added'
           /\ added' = {Member(o) : o \in {w \in Wanted(registry) : backends[w] = None}}
           /\ \A o \in Wanted(registry) : backends[o] = None => Member(o)[1] = o
           /\ \A i \in Backends : health'[i] = IF i \in added' THEN "assumed" ELSE health[i]
<1> DEFINE W == Wanted(registry)
           B == {Member(o) : o \in W}
           F == B \ Known
<1>1. registry \in Registries
  BY DEF StartReload, TypeOK
<1>2. /\ W \subseteq Origins
      /\ \A o \in W : /\ Member(o) \in Backends /\ Member(o)[1] = o
                      /\ IF backends[o] = None THEN Member(o) \notin InUse
                         ELSE Member(o) = backends[o] /\ Member(o) \in Known
  <2>1. \A o \in W : backends[o] = None => Unused(o) # {}
    BY DEF StartReload, Wanted
  <2> QED
    BY <1>1, <2>1, Built
<1>3. /\ loaded' = registry /\ next' = B /\ added' = F /\ toProbe' = F
      /\ backends' = [o \in Origins |-> IF o \in OriginsOf(F) THEN Member(o) ELSE backends[o]]
      /\ health' = [i \in Backends |-> IF i \in F THEN "assumed" ELSE health[i]]
  BY DEF StartReload, Wanted
<1>4. Known \subseteq InUse
  BY DEF InUse
<1>5. F = {Member(o) : o \in {w \in W : backends[w] = None}}
  BY <1>2, <1>4
<1>6. \A o \in Origins : o \in OriginsOf(F) <=> o \in W /\ backends[o] = None
  BY <1>2, <1>5 DEF OriginsOf
<1>7. None \notin Backends
  BY MembershipAssumption
<1>8. \A o \in Origins : backends[o] # None => backends[o] \in Known
  BY DEF Known
<1>9. F \cap InUse = {}
  BY <1>2, <1>5
<1> HIDE DEF F, B
<1>10. \A o \in Origins : backends'[o] = IF backends[o] = None /\ o \in W
                                          THEN Member(o) ELSE backends[o]
  BY <1>3, <1>6
<1>11. \A o \in W : backends'[o] # None /\ Member(o) = backends'[o]
  BY <1>2, <1>7, <1>10
<1>12. next' \subseteq Backends /\ added' \subseteq next'
  BY <1>2, <1>3 DEF F, B
<1>13. \A o \in Origins : backends[o] # None => backends[o] \notin added'
  BY <1>3, <1>4, <1>8, <1>9
<1> QED
  BY <1>1, <1>2, <1>3, <1>5, <1>9, <1>10, <1>11, <1>12, <1>13

-----------------------------------------------------------------------------
(* The steps.                                                              *)

\* What a probe may store.
LEMMA ProbeStores ==
    ASSUME TypeOK, NEW i \in Backends, ProbeResult(i)
    PROVE  /\ health' \in [Backends -> {"assumed", "up", "down"}]
           /\ shown' \in [Origins -> {"up", "down", None}]
           /\ \A j \in Backends : health[j] # "assumed" => health'[j] # "assumed"
           /\ stopping \/ health'[i] # "assumed"
           /\ UNCHANGED <<health, shown>> \/
                 /\ \A j \in Backends \ {i} : health'[j] = health[j]
                 /\ \A o \in Origins \ {i[1]} : shown'[o] = shown[o]
                 /\ shown'[i[1]] = health'[i]
<1> USE DEF TypeOK
<1>1. i[1] \in Origins /\ Observed(i[1]) \in {"up", "down"}
  BY DEF Backends, Observed
<1> QED
  BY <1>1 DEF ProbeResult, ProbeStored

\* The types, and the map by its keys, at every step.
LEMMA TypeStep == TypeOK /\ Keyed /\ Locked /\ [Next]_vars => TypeOK' /\ Keyed'
<1> SUFFICES ASSUME TypeOK, Keyed, Locked, [Next]_vars PROVE TypeOK' /\ Keyed'
  OBVIOUS
<1> USE DEF TypeOK, Keyed, reload, run, requests, Unlock
<1>1. CASE StartReload
  <2>1. toProbe' \subseteq Backends /\ added' \subseteq Backends /\ next' \subseteq Backends
        /\ loaded' \in Registries
    BY <1>1, Started
  <2>2. backends' \in [Origins -> Backends \cup {None}]
    <3>1. \A o \in Origins : backends'[o] \in Backends \cup {None}
      BY <1>1, Started
    <3>2. \E S : backends' = [o \in Origins |-> IF o \in S THEN Member(o) ELSE backends[o]]
      BY <1>1 DEF StartReload
    <3> QED
      BY <3>1, <3>2
  <2>3. \A o \in Origins : backends'[o] # None => backends'[o][1] = o
    BY <1>1, Started
  <2>4. health' \in [Backends -> {"assumed", "up", "down"}]
        /\ inflight' \in [Origins -> Int]
    BY <1>1 DEF StartReload
  <2> QED
    BY <1>1, <2>1, <2>2, <2>3, <2>4 DEF StartReload
<1>2. ASSUME NEW i \in Backends, NewMemberHealthy(i) \/ Probe(i) PROVE TypeOK' /\ Keyed'
  BY <1>2, ProbeStores DEF NewMemberHealthy, Probe
<1>3. ASSUME NEW i \in Backends, RejectReload(i) PROVE TypeOK' /\ Keyed'
  BY <1>3 DEF RejectReload
<1>4. CASE Publish
  BY <1>4 DEF Publish
<1>5. CASE StartProbes
  BY <1>5 DEF StartProbes
<1>6. CASE ProbesDone
  BY <1>6 DEF ProbesDone
<1>7. ASSUME NEW r \in Requests, LoadRouting(r) \/ Refuse(r) PROVE TypeOK' /\ Keyed'
  BY <1>7 DEF LoadRouting, Refuse
<1>8. ASSUME NEW r \in Requests, NEW i \in Backends, Dispatch(r, i) \/ Finish(r, i)
      PROVE  TypeOK' /\ Keyed'
  <2>1. i[1] \in Origins
    BY DEF Backends
  <2> QED
    BY <1>8, <2>1 DEF Dispatch, Finish
<1>9. ASSUME NEW R \in Registries \cup {{}}, EditRegistry(R) PROVE TypeOK' /\ Keyed'
  BY <1>9 DEF EditRegistry
<1>10. ASSUME NEW o \in Origins, Turn(o) PROVE TypeOK' /\ Keyed'
  BY <1>10 DEF Turn
<1>11. CASE Stop
  BY <1>11 DEF Stop
<1>12. CASE UNCHANGED vars
  BY <1>12 DEF vars
<1> QED
  BY <1>1, <1>2, <1>3, <1>4, <1>5, <1>6, <1>7, <1>8, <1>9, <1>10, <1>11, <1>12
  DEF Next, Watchers

\* A holder of reloadMu has only its own members to probe, and gives it back
\* with nothing left to do.
LEMMA LockedStep == TypeOK /\ Keyed /\ Locked /\ [Next]_vars => Locked'
<1> SUFFICES ASSUME TypeOK, Keyed, Locked, [Next]_vars PROVE Locked'
  OBVIOUS
<1> USE DEF Locked, Known, Wanted, reload, run, requests, Unlock
<1>1. CASE StartReload
  <2>1. lock' = "reload" /\ serving' = serving /\ serving
    BY <1>1 DEF StartReload, Wanted
  <2>2. \A o \in Wanted(loaded') : backends'[o] # None
    BY <1>1, Started
  <2>3. next' = {backends'[o] : o \in Wanted(loaded')}
    <3>1. next' = {Member(o) : o \in Wanted(registry)}
      BY <1>1 DEF StartReload
    <3>2. loaded' = registry /\ \A o \in Wanted(registry) : Member(o) = backends'[o]
      BY <1>1, Started
    <3> QED
      BY <3>1, <3>2
  <2>4. added' \subseteq Known'
    <3>1. /\ added' = {Member(o) : o \in {w \in Wanted(registry) : backends[w] = None}}
          /\ Wanted(registry) \subseteq Origins
          /\ \A o \in Wanted(registry) : backends'[o] # None /\ Member(o) = backends'[o]
      BY <1>1, Started
    <3> QED
      BY <3>1
  <2>5. toProbe' \subseteq added'
    BY <1>1, Started
  <2> QED
    BY <2>1, <2>2, <2>3, <2>4, <2>5
<1>2. ASSUME NEW i \in Backends, NewMemberHealthy(i) \/ Probe(i) PROVE Locked'
  BY <1>2 DEF NewMemberHealthy, Probe
<1>3. ASSUME NEW i \in Backends, RejectReload(i) PROVE Locked'
  BY <1>3 DEF RejectReload
<1>4. CASE Publish
  BY <1>4 DEF Publish
<1>5. CASE StartProbes
  BY <1>5 DEF StartProbes
<1>6. CASE ProbesDone
  BY <1>6 DEF ProbesDone
<1>7. ASSUME NEW r \in Requests,
             \/ LoadRouting(r) \/ Refuse(r)
             \/ \E i \in Backends : Dispatch(r, i) \/ Finish(r, i)
      PROVE  Locked'
  BY <1>7 DEF LoadRouting, Refuse, Dispatch, Finish
<1>8. CASE \/ \E R \in Registries \cup {{}} : EditRegistry(R)
           \/ \E o \in Origins : Turn(o)
           \/ Stop \/ UNCHANGED vars
  BY <1>8 DEF EditRegistry, Turn, Stop, vars
<1> QED
  BY <1>1, <1>2, <1>3, <1>4, <1>5, <1>6, <1>7, <1>8 DEF Next, Watchers

\* No backend is published, or held by a request, before it was probed.
LEMMA ProbedStep == TypeOK /\ Keyed /\ Locked /\ Probed /\ [Next]_vars => Probed'
<1> SUFFICES ASSUME TypeOK, Keyed, Locked, Probed, [Next]_vars, ~stopping' PROVE Probed'
  BY DEF Probed
<1>0. ~stopping
  BY DEF Next, Watchers, StartReload, StartProbes, NewMemberHealthy, RejectReload, Probe, Publish,
     ProbesDone, LoadRouting, Refuse, Dispatch, Finish, EditRegistry, Turn, Stop, vars, run
<1> USE <1>0 DEF Probed, Locked, Known, reload, run, requests, Unlock
<1>1. CASE StartReload
  <2>1. /\ serving' /\ serving /\ UNCHANGED <<routing, held>>
        /\ added' \cap InUse = {} /\ toProbe' = added'
        /\ \A i \in Backends : health'[i] = IF i \in added' THEN "assumed" ELSE health[i]
    BY <1>1, Started DEF StartReload
  <2>2. ASSUME NEW i \in InUse PROVE i \in Backends /\ health'[i] = health[i]
    BY <2>1, <2>2 DEF InUse, TypeOK
  <2>3. routing \subseteq InUse /\ Known \subseteq InUse /\ \A r \in Requests : held[r] \subseteq InUse
    BY DEF InUse
  <2>4. added = {}
    BY <1>1 DEF StartReload
  <2>5. Known' \ added' \subseteq Known
    <3>1. /\ \A o \in Origins : backends'[o] = IF backends[o] = None /\ o \in Wanted(registry)
                                             THEN Member(o) ELSE backends[o]
          /\ added' = {Member(o) : o \in {w \in Wanted(registry) : backends[w] = None}}
      BY <1>1, Started
    <3> QED
      BY <3>1
  <2>6. \A i \in routing \cup (Known \ added) : health[i] # "assumed"
    BY <2>1
  <2>7. \A i \in routing' \cup (Known' \ added') : health'[i] # "assumed"
    BY <2>1, <2>2, <2>3, <2>4, <2>5, <2>6
  <2>8. \A r \in Requests : \A i \in held'[r] : health'[i] # "assumed"
    BY <2>1, <2>2, <2>3
  <2> QED
    BY <2>1, <2>7, <2>8
<1>2. ASSUME NEW i \in Backends, NewMemberHealthy(i) \/ Probe(i) PROVE Probed'
  <2>1. \A j \in Backends : health[j] # "assumed" => health'[j] # "assumed"
    BY <1>2, ProbeStores DEF NewMemberHealthy, Probe
  <2>2. health'[i] # "assumed"
    BY <1>2, ProbeStores DEF NewMemberHealthy, Probe
  <2>3. routing \subseteq Backends /\ Known \subseteq Backends /\ added \subseteq Backends
        /\ \A r \in Requests : held[r] \subseteq Backends
    BY DEF TypeOK
  <2> QED
    BY <1>2, <2>1, <2>2, <2>3 DEF NewMemberHealthy, Probe
<1>3. ASSUME NEW i \in Backends, RejectReload(i) PROVE Probed'
  <2>1. Known' \subseteq Known \ added /\ added' = {} /\ UNCHANGED <<routing, held, serving>>
    <3>1. \A o \in Origins : backends'[o] = IF o \in OriginsOf(added) THEN None ELSE backends[o]
      BY <1>3 DEF RejectReload
    <3>2. \A o \in Origins : backends[o] \in added => o \in OriginsOf(added)
      BY MembershipAssumption DEF OriginsOf, Keyed, TypeOK
    <3> QED
      BY <1>3, <3>1, <3>2 DEF RejectReload
  <2>2. \A j \in Backends : health'[j] = "assumed" => health[j] = "assumed"
    BY <1>3 DEF RejectReload, TypeOK
  <2>3. serving
    BY <1>3 DEF RejectReload
  <2>4. routing \subseteq Backends /\ Known \subseteq Backends
        /\ \A r \in Requests : held[r] \subseteq Backends
    BY DEF TypeOK
  <2> QED
    BY <2>1, <2>2, <2>3, <2>4
<1>4. CASE Publish
  <2>1. /\ serving' /\ serving /\ added' = {} /\ UNCHANGED <<health, held>>
        /\ routing' = next /\ toProbe = {} /\ lock = "reload"
        /\ \A o \in Origins : backends'[o] \in {backends[o], None}
    BY <1>4 DEF Publish
  <2>2. \A i \in Known : health[i] # "assumed"
    BY <2>1
  <2>3. Known' \subseteq Known
    BY <2>1
  <2>4. next \subseteq Known
    <3>1. Wanted(loaded) \subseteq Origins
      BY MembershipAssumption DEF TypeOK, Registries, Wanted
    <3> QED
      BY <2>1, <3>1
  <2> QED
    BY <2>1, <2>2, <2>3, <2>4
<1>5. CASE StartProbes
  BY <1>5 DEF StartProbes
<1>6. CASE ProbesDone
  <2>1. ASSUME serving PROVE Probed'
    BY <1>6, <2>1 DEF ProbesDone
  <2>2. ASSUME ~serving PROVE Probed'
    BY <1>6, <2>2 DEF ProbesDone
  <2> QED
    BY <2>1, <2>2
<1>7. ASSUME NEW r \in Requests,
             \/ LoadRouting(r) \/ Refuse(r)
             \/ \E i \in Backends : Dispatch(r, i) \/ Finish(r, i)
      PROVE  Probed'
  <2>1. \A q \in Requests : held'[q] \subseteq held[q] \/ (serving /\ held'[q] = routing)
    BY <1>7 DEF LoadRouting, Refuse, Dispatch, Finish, TypeOK
  <2>2. UNCHANGED <<routing, backends, health, serving, added, toProbe>>
    BY <1>7 DEF LoadRouting, Refuse, Dispatch, Finish
  <2> QED
    BY <2>1, <2>2
<1>8. CASE \/ \E R \in Registries \cup {{}} : EditRegistry(R)
           \/ \E o \in Origins : Turn(o)
           \/ Stop \/ UNCHANGED vars
  BY <1>8 DEF EditRegistry, Turn, Stop, vars
<1> QED
  BY <1>1, <1>2, <1>3, <1>4, <1>5, <1>6, <1>7, <1>8 DEF Next, Watchers

-----------------------------------------------------------------------------
(* The map and the gauge, under plain spelling.                            *)

\* A reload that is published leaves its snapshot in the map, a rejected one
\* the old snapshot.
LEMMA MappedStep ==
    PlainSpelling /\ TypeOK /\ Keyed /\ Locked /\ Mapped /\ [Next]_vars => Mapped'
<1> SUFFICES ASSUME PlainSpelling, TypeOK, Keyed, Locked, Mapped, [Next]_vars PROVE Mapped'
  OBVIOUS
<1>1. CASE StartReload
  <2>1. /\ Wanted(registry) \subseteq Origins
        /\ \A o \in Origins : backends'[o] = IF backends[o] = None /\ o \in Wanted(registry)
                                             THEN Member(o) ELSE backends[o]
        /\ \A o \in Origins : backends[o] # None => backends[o] \notin added'
        /\ added' = {Member(o) : o \in {w \in Wanted(registry) : backends[w] = None}}
    BY <1>1, Started
  <2>2. Known' \ added' = Known
    BY <2>1 DEF Known
  <2>3. added = {} /\ routing' = routing
    BY <1>1 DEF StartReload, Locked
  <2> QED
    BY <2>2, <2>3 DEF Mapped
<1>2. ASSUME NEW i \in Backends, RejectReload(i) PROVE Mapped'
  <2>1. added' = {} /\ routing' = routing
        /\ \A o \in Origins : backends'[o] = IF o \in OriginsOf(added) THEN None ELSE backends[o]
    BY <1>2 DEF RejectReload, Unlock
  <2>2. \A o \in Origins : backends[o] # None =>
            (o \in OriginsOf(added) <=> backends[o] \in added)
    <3>1. \A j \in added : \E o \in Origins : j = backends[o] /\ j # None /\ j[1] = o
      BY <1>2 DEF RejectReload, Locked, Known, Keyed
    <3> QED
      BY <3>1 DEF OriginsOf, Keyed
  <2>3. Known' = Known \ added
    BY <2>1, <2>2 DEF Known
  <2> QED
    BY <2>1, <2>3 DEF Mapped
<1>3. CASE Publish
  <2>1. Active = Wanted(loaded) /\ Active \subseteq Origins
    BY MembershipAssumption DEF Active, Wanted, PlainSpelling, TypeOK, Registries
  <2>2. /\ \A o \in Active : backends[o] # None
        /\ next = {backends[o] : o \in Active}
    BY <1>3, <2>1 DEF Publish, Locked
  <2>3. Known' = {backends[o] : o \in Active}
    BY <1>3, <2>1, <2>2 DEF Publish, Known
  <2>4. added' = {} /\ routing' = next
    BY <1>3 DEF Publish, Unlock
  <2> QED
    BY <2>2, <2>3, <2>4 DEF Mapped
<1>4. ASSUME UNCHANGED <<backends, routing>>, added' = added PROVE Mapped'
  BY <1>4 DEF Mapped, Known
<1>5. ASSUME NEW i \in Backends, NewMemberHealthy(i) \/ Probe(i) PROVE Mapped'
  BY <1>4, <1>5 DEF NewMemberHealthy, Probe, reload
<1>6. CASE StartProbes \/ ProbesDone
  BY <1>4, <1>6 DEF StartProbes, ProbesDone, Unlock, reload, Locked
<1>7. ASSUME NEW r \in Requests,
             \/ LoadRouting(r) \/ Refuse(r)
             \/ \E i \in Backends : Dispatch(r, i) \/ Finish(r, i)
      PROVE  Mapped'
  BY <1>4, <1>7 DEF LoadRouting, Refuse, Dispatch, Finish, reload
<1>8. CASE \/ \E R \in Registries \cup {{}} : EditRegistry(R)
           \/ \E o \in Origins : Turn(o)
           \/ Stop \/ UNCHANGED vars
  BY <1>4, <1>8 DEF EditRegistry, Turn, Stop, vars, reload
<1> QED
  BY <1>1, <1>2, <1>3, <1>5, <1>6, <1>7, <1>8 DEF Next, Watchers

\* A probe stores what it shows; a pruned or rejected backend is shown no more.
LEMMA ShownStep ==
    TypeOK /\ Keyed /\ Locked /\ Mapped /\ Shown /\ [Next]_vars => Shown'
<1> SUFFICES ASSUME TypeOK, Keyed, Locked, Mapped, Shown, [Next]_vars PROVE Shown'
  OBVIOUS
<1> USE MembershipAssumption DEF Shown
<1>1. CASE StartReload
  <2>1. \A o \in Origins : backends'[o] = IF backends[o] = None /\ o \in Wanted(registry)
                                         THEN Member(o) ELSE backends[o]
    BY <1>1, Started
  <2>2. /\ added' = {Member(o) : o \in {w \in Wanted(registry) : backends[w] = None}}
        /\ \A o \in Origins : backends[o] # None => backends[o] \notin added'
        /\ \A i \in Backends : health'[i] = IF i \in added' THEN "assumed" ELSE health[i]
        /\ added' \subseteq Backends
    BY <1>1, Started
  <2>3. shown' = shown
    BY <1>1 DEF StartReload
  <2>4. ASSUME NEW o \in Origins, backends[o] # None
        PROVE  backends'[o] = backends[o] /\ health'[backends'[o]] = health[backends[o]]
    BY <2>1, <2>2, <2>4 DEF TypeOK
  <2>5. ASSUME NEW o \in Origins, backends[o] = None, backends'[o] # None
        PROVE  health'[backends'[o]] = "assumed"
    BY <2>1, <2>2, <2>5
  <2> QED
    BY <2>3, <2>4, <2>5
<1>2. ASSUME NEW i \in Backends, NewMemberHealthy(i) \/ Probe(i) PROVE Shown'
  <2>1. i \in Known
    BY <1>2 DEF NewMemberHealthy, Probe, Locked, Mapped
  <2>2. i[1] \in Origins /\ backends[i[1]] = i /\ i # None
    BY <2>1 DEF Known, Keyed, Backends
  <2>3. backends' = backends /\ ProbeResult(i)
    BY <1>2 DEF NewMemberHealthy, Probe
  <2>4. \A o \in Origins \ {i[1]} : backends[o] # i
    BY <2>2 DEF Keyed
  <2>5. CASE UNCHANGED <<health, shown>>
    BY <2>3, <2>5
  <2>6. CASE /\ \A j \in Backends \ {i} : health'[j] = health[j]
             /\ \A o \in Origins \ {i[1]} : shown'[o] = shown[o]
             /\ shown'[i[1]] = health'[i]
    BY <2>2, <2>3, <2>4, <2>6 DEF TypeOK
  <2> QED
    BY <2>3, <2>5, <2>6, ProbeStores
<1>3. ASSUME NEW i \in Backends, RejectReload(i) PROVE Shown'
  <2>1. /\ \A o \in Origins : backends'[o] = IF o \in OriginsOf(added) THEN None ELSE backends[o]
        /\ \A o \in Origins : shown'[o] = IF o \in OriginsOf(added) THEN None ELSE shown[o]
        /\ \A j \in Backends \ {i} : health'[j] = health[j]
    BY <1>3 DEF RejectReload, TypeOK
  <2>2. i \in added
    BY <1>3 DEF RejectReload, Locked
  <2>3. \A o \in Origins \ OriginsOf(added) : backends[o] # i
    BY <2>2 DEF OriginsOf, Keyed
  <2> QED
    BY <2>1, <2>3 DEF TypeOK
<1>4. CASE Publish
  BY <1>4 DEF Publish, Keyed, TypeOK
<1>5. CASE UNCHANGED <<backends, health, shown>>
  BY <1>5
<1>6. CASE StartProbes \/ ProbesDone
  BY <1>5, <1>6 DEF StartProbes, ProbesDone
<1>7. ASSUME NEW r \in Requests,
             \/ LoadRouting(r) \/ Refuse(r)
             \/ \E i \in Backends : Dispatch(r, i) \/ Finish(r, i)
      PROVE  Shown'
  BY <1>5, <1>7 DEF LoadRouting, Refuse, Dispatch, Finish
<1>8. CASE \/ \E R \in Registries \cup {{}} : EditRegistry(R)
           \/ \E o \in Origins : Turn(o)
           \/ Stop \/ UNCHANGED vars
  BY <1>5, <1>8 DEF EditRegistry, Turn, Stop, vars
<1> QED
  BY <1>1, <1>2, <1>3, <1>4, <1>6, <1>7, <1>8 DEF Next, Watchers

-----------------------------------------------------------------------------
(* The theorems.                                                           *)

\* NewServer makes the snapshot and the map of one backend for every URL.
LEMMA InitInv == Init => MembershipInv /\ Mapped /\ Shown
<1> SUFFICES ASSUME Init PROVE MembershipInv /\ Mapped /\ Shown
  OBVIOUS
<1>1. \A u \in registry : OriginOf[u] \in Origins
  BY MembershipAssumption DEF Init, Registries
<1>2. routing \subseteq Backends /\ \A i \in routing : i[1] \in Origins /\ i = <<i[1], 1>>
  BY <1>1, MembershipAssumption DEF Init, Backends
<1>3. \A o \in Origins : backends[o] = IF <<o, 1>> \in routing THEN <<o, 1>> ELSE None
  BY DEF Init
<1>4. Known = routing
  BY <1>2, <1>3, MembershipAssumption DEF Known
<1>5. TypeOK
  <2>1. backends \in [Origins -> Backends \cup {None}]
    <3>1. \A o \in Origins : <<o, 1>> \in Backends
      BY MembershipAssumption DEF Backends
    <3> QED
      BY <3>1 DEF Init
  <2>2. /\ health \in [Backends -> {"assumed", "up", "down"}]
        /\ shown \in [Origins -> {"up", "down", None}]
        /\ inflight \in [Origins -> Int]
        /\ pc \in [Requests -> {"idle", "recording", "proxied"}]
        /\ held \in [Requests -> SUBSET Backends]
    BY DEF Init
  <2>3. /\ registry \in Registries \cup {{}} /\ loaded \in Registries \cup {{}}
        /\ \A S \in {routing, next, added, toProbe} : S \subseteq Backends
        /\ lock \in {"free", "start", "reload", "probe"}
        /\ up \in [Origins -> BOOLEAN] /\ serving \in BOOLEAN /\ stopping \in BOOLEAN
    BY <1>2 DEF Init
  <2> QED
    BY <2>1, <2>2, <2>3 DEF TypeOK
<1>6. Keyed /\ Shown
  BY <1>3, MembershipAssumption, <1>2 DEF Init, Keyed, Shown
<1> QED
  BY <1>4, <1>5, <1>6 DEF Init, MembershipInv, Locked, Probed, Mapped

\* The invariant is inductive, however URLs are spelled.
THEOREM Inductive == Spec => []MembershipInv
<1>1. MembershipInv /\ [Next]_vars => MembershipInv'
  BY TypeStep, LockedStep, ProbedStep DEF MembershipInv
<1> QED
  BY InitInv, <1>1, PTL DEF Spec

\* The types of the server's state (Server, routingState, backend).
THEOREM TypeCorrect == Spec => []TypeOK
<1>1. MembershipInv => TypeOK
  BY DEF MembershipInv
<1> QED
  BY Inductive, <1>1, PTL

\* No request reaches a backend that was never probed, over every reload and
\* also when a URL is not spelled as its origin: a reload makes a backend that
\* no request can hold, and publishes it when its probe has answered.
THEOREM TrafficCorrect == Spec => []ProbedBeforeTraffic
<1>1. MembershipInv => ProbedBeforeTraffic
  BY DEF MembershipInv, Probed, ProbedBeforeTraffic
<1> QED
  BY Inductive, <1>1, PTL

\* With plain spelling, the map and the gauge follow the snapshot too.
THEOREM PlainInductive == PlainSpelling => (Spec => []PlainInv)
<1> SUFFICES ASSUME PlainSpelling PROVE Spec => []PlainInv
  OBVIOUS
<1>1. PlainInv /\ [Next]_vars => PlainInv'
  BY TypeStep, LockedStep, ProbedStep, MappedStep, ShownStep DEF PlainInv, MembershipInv
<1>2. Init => PlainInv
  BY InitInv DEF PlainInv
<1> QED
  BY <1>1, <1>2, PTL DEF Spec

\* Server.backends holds the published backends and no others, but while a
\* reload probes its new members.
THEOREM MapCorrect == PlainSpelling => (Spec => []MapIsRouting)
<1> SUFFICES ASSUME PlainSpelling PROVE Spec => []MapIsRouting
  OBVIOUS
<1>1. PlainInv => MapIsRouting
  BY DEF PlainInv, MembershipInv, Locked, Mapped, MapIsRouting
<1> QED
  BY PlainInductive, <1>1, PTL

\* vire_backend_healthy tells of exactly the published backends what the
\* router goes by.
THEOREM GaugeCorrect == PlainSpelling => (Spec => []HealthShown)
<1> SUFFICES ASSUME PlainSpelling PROVE Spec => []HealthShown
  OBVIOUS
<1>1. ASSUME PlainInv, lock = "free" PROVE HealthShown
  <2>1. Known = routing /\ serving
    BY <1>1 DEF PlainInv, MembershipInv, Locked, Mapped
  <2>2. ASSUME NEW i \in routing
        PROVE  shown[i[1]] = health[i] \/ (stopping /\ health[i] = "assumed")
    <3>1. i[1] \in Origins /\ backends[i[1]] = i /\ i # None
      BY <1>1, <2>1 DEF Known, PlainInv, MembershipInv, Keyed
    <3> QED
      <4>1. shown[i[1]] = health[i] \/ health[i] = "assumed"
        BY <1>1, <3>1 DEF PlainInv, Shown
      <4>2. stopping \/ health[i] # "assumed"
        BY <1>1, <2>1 DEF PlainInv, MembershipInv, Probed
      <4> QED
        BY <4>1, <4>2
  <2>3. ASSUME NEW o \in Origins \ OriginsOf(routing) PROVE shown[o] = None
    <3>1. backends[o] = None
      BY <1>1, <2>1 DEF Known, OriginsOf, PlainInv, MembershipInv, Keyed
    <3> QED
      BY <1>1, <3>1 DEF PlainInv, Shown
  <2> QED
    BY <2>2, <2>3 DEF HealthShown
<1>2. PlainInv => HealthShown
  BY <1>1 DEF HealthShown
<1> QED
  BY PlainInductive, <1>2, PTL

\* A member that stays in the published snapshot keeps its backend, with its
\* health and its connections (buildRouting).
THEOREM MembersCorrect == PlainSpelling => (Spec => MembersKept)
<1> SUFFICES ASSUME PlainSpelling PROVE Spec => MembersKept
  OBVIOUS
<1> DEFINE Kept == \A i \in routing : i[1] \in OriginsOf(routing') => i \in routing'
<1>1. ASSUME PlainInv, Next PROVE Kept
  <2>1. CASE Publish
    <3>1. next \subseteq Known /\ routing' = next /\ routing \subseteq Known
      <4>1. Wanted(loaded) \subseteq Origins
        BY <1>1, MembershipAssumption DEF PlainInv, MembershipInv, TypeOK, Registries, Wanted
      <4> QED
        BY <1>1, <2>1, <4>1 DEF Publish, PlainInv, MembershipInv, Locked, Mapped, Known
    <3>2. \A i, j \in Known : i[1] = j[1] => i = j
      BY <1>1 DEF Known, PlainInv, MembershipInv, Keyed
    <3> QED
      BY <3>1, <3>2 DEF OriginsOf
  <2>2. CASE ~Publish
    <3>1. routing' = routing
      BY <1>1, <2>2 DEF Next, Watchers, StartReload, StartProbes, NewMemberHealthy,
         RejectReload, Probe, ProbesDone, LoadRouting, Refuse, Dispatch, Finish,
         EditRegistry, Turn, Stop
    <3> QED
      BY <3>1
  <2> QED
    BY <2>1, <2>2
<1>2. PlainInv /\ [Next]_vars => [Kept]_vars
  BY <1>1
<1> QED
  BY PlainInductive, <1>2, PTL DEF Spec, MembersKept
=============================================================================
