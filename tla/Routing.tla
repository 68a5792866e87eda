------------------------------- MODULE Routing ------------------------------
(***************************************************************************)
(* The choice of a backend for a request (modelRoute.selectHealthyBackend) *)
(* in one routing snapshot.  The healths are atomic flags that the probes  *)
(* change while requests read them one after the other, so a choice is not *)
(* one step, and no single state need justify it.                          *)
(***************************************************************************)
EXTENDS Integers, Sequences

CONSTANTS
    MaxSize,        \* bound on the backends of a model
    Requests,       \* requests for the model
    Conversations,  \* conversation keys, of an account where there is one
    RingOrder,      \* [2..MaxSize -> [Conversations -> the backends in the
                    \* order of GetClosestN, the owner of LocateKey first]]
                    \* (external: the hash ring)
    None            \* no conversation, no backend

ASSUME RoutingAssumption ==
    /\ MaxSize \in Nat \ {0}
    /\ None \notin Conversations \cup Nat
    /\ \A n \in 2..MaxSize :
          /\ RingOrder[n] \in [Conversations -> [1..n -> 1..n]]
          /\ \A c \in Conversations : \A i, j \in 1..n :
                RingOrder[n][c][i] = RingOrder[n][c][j] => i = j

VARIABLES
    size,     \* length of modelRoute.backends: their numbers are 1..size
    healthy,  \* [Backends -> BOOLEAN]
    next,     \* round-robin requests so far: modelRoute.next
    pc,       \* [Requests -> where the choice is]
    key,      \* [Requests -> conversation or None]
    primary,  \* [Requests -> backend of selectBackend]
    tries,    \* [Requests -> backends tried after the primary]
    chosen,   \* [Requests -> the backend it is sent to]
    turns,    \* history: [Backends -> times it was a round-robin primary]
    steady    \* history: [Requests -> backends healthy since it began]

vars == <<size, healthy, next, pc, key, primary, tries, chosen, turns, steady>>

Backends == 1..size

TypeOK ==
    /\ size \in 1..MaxSize
    /\ healthy \in [Backends -> BOOLEAN]
    /\ next \in Nat
    /\ pc \in [Requests -> {"new", "primary", "failover", "chosen", "refused"}]
    /\ key \in [Requests -> Conversations \cup {None}]
    /\ primary \in [Requests -> Backends \cup {None}]
    /\ tries \in [Requests -> 0..size]
    /\ chosen \in [Requests -> Backends \cup {None}]
    /\ turns \in [Backends -> Nat]
    /\ steady \in [Requests -> SUBSET Backends]

Init ==
    /\ size \in 1..MaxSize
    /\ healthy \in [Backends -> BOOLEAN]
    /\ next = 0
    /\ pc = [r \in Requests |-> "new"]
    /\ key = [r \in Requests |-> None]
    /\ primary = [r \in Requests |-> None]
    /\ tries = [r \in Requests |-> 0]
    /\ chosen = [r \in Requests |-> None]
    /\ turns = [b \in Backends |-> 0]
    /\ steady = [r \in Requests |-> {}]

Goto(r, label) == pc' = [pc EXCEPT ![r] = label]

\* The result of a probe is stored.
ProbeStores(b, result) ==
    /\ healthy' = [healthy EXCEPT ![b] = result]
    /\ steady' = IF result THEN steady
                 ELSE [r \in Requests |->
                         IF pc[r] \in {"primary", "failover"} THEN steady[r] \ {b}
                         ELSE steady[r]]
    /\ UNCHANGED <<size, next, pc, key, primary, tries, chosen, turns>>
-----------------------------------------------------------------------------
(* modelRoute.selectBackend.                                               *)

Select(r, c, b) ==
    /\ pc[r] = "new"
    /\ key' = [key EXCEPT ![r] = c]
    /\ primary' = [primary EXCEPT ![r] = b]
    /\ steady' = [steady EXCEPT ![r] = {a \in Backends : healthy[a]}]
    /\ Goto(r, "primary")
    /\ UNCHANGED <<size, healthy, tries, chosen>>

\* Mutation of TakeTurn: the counter is the index.
TakeIndex(n) == n + 1

\* The n-th round-robin request, n from 0.
TakeTurn(n) == (n % size) + 1

SelectSingle(r, c) ==
    /\ size = 1
    /\ Select(r, c, 1)
    /\ UNCHANGED <<next, turns>>

SelectByAffinity(r, c) ==
    /\ size > 1 /\ c # None
    /\ Select(r, c, RingOrder[size][c][1])
    /\ UNCHANGED <<next, turns>>

SelectByTurn(r) ==
    /\ size > 1
    /\ Select(r, None, TakeTurn(next))
    /\ next' = next + 1
    /\ turns' = [b \in Backends |-> IF b = TakeTurn(next) THEN turns[b] + 1 ELSE turns[b]]
-----------------------------------------------------------------------------
(* The rest of modelRoute.selectHealthyBackend.                            *)

ByRing(r) == key[r] # None /\ size > 1

\* Mutation of Candidates: one round-robin candidate too few.
CandidatesButOne(r) ==
    IF ByRing(r) THEN RingOrder[size][key[r]]
    ELSE [i \in 1..(size - 2) |-> ((primary[r] - 1 + i) % size) + 1]

\* The backends to fall back on: by ring, from the owner on (which is read a
\* second time); otherwise all others, from the one after the primary on.
Candidates(r) ==
    IF ByRing(r) THEN RingOrder[size][key[r]]
    ELSE [i \in 1..(size - 1) |-> ((primary[r] - 1 + i) % size) + 1]

Choose(r, b) ==
    /\ chosen' = [chosen EXCEPT ![r] = b]
    /\ Goto(r, "chosen")

PrimaryHealthy(r) ==
    /\ pc[r] = "primary" /\ healthy[primary[r]]
    /\ Choose(r, primary[r])
    /\ UNCHANGED <<size, healthy, next, key, primary, tries, turns, steady>>

\* Mutation of PrimaryUnhealthy: the turn of the backend that is down is
\* passed on.
PrimarySkipped(r) ==
    /\ pc[r] = "primary" /\ ~healthy[primary[r]]
    /\ next' = next + 1
    /\ Goto(r, "failover")
    /\ UNCHANGED <<size, healthy, key, primary, tries, chosen, turns, steady>>

PrimaryUnhealthy(r) ==
    /\ pc[r] = "primary" /\ ~healthy[primary[r]]
    /\ Goto(r, "failover")
    /\ UNCHANGED <<size, healthy, next, key, primary, tries, chosen, turns, steady>>

TryNext(r) ==
    LET i == tries[r] + 1
    IN  /\ pc[r] = "failover" /\ i <= Len(Candidates(r))
        /\ tries' = [tries EXCEPT ![r] = i]
        /\ IF healthy[Candidates(r)[i]] THEN Choose(r, Candidates(r)[i])
           ELSE UNCHANGED <<pc, chosen>>
        /\ UNCHANGED <<size, healthy, next, key, primary, turns, steady>>

NoHealthyBackend(r) ==
    /\ pc[r] = "failover" /\ tries[r] = Len(Candidates(r))
    /\ Goto(r, "refused")
    /\ UNCHANGED <<size, healthy, next, key, primary, tries, chosen, turns, steady>>

Next ==
    \/ \E b \in Backends, result \in BOOLEAN : ProbeStores(b, result)
    \/ \E r \in Requests :
          \/ \E c \in Conversations \cup {None} : SelectSingle(r, c) \/ SelectByAffinity(r, c)
          \/ SelectByTurn(r)
          \/ PrimaryHealthy(r) \/ PrimaryUnhealthy(r)
          \/ TryNext(r) \/ NoHealthyBackend(r)

Spec == Init /\ [][Next]_vars
-----------------------------------------------------------------------------
(* The order in which a request prefers backends.                          *)
Preference(r) ==
    IF ByRing(r) THEN RingOrder[size][key[r]]
    ELSE [i \in Backends |-> ((primary[r] + i - 2) % size) + 1]

(***************************************************************************)
(* A request is refused, or sent past a backend that it prefers, only when *)
(* that backend was down at some moment of the choice: however the probes  *)
(* interfere, a backend that stayed healthy is found, and a conversation   *)
(* stays with its owner while the owner is up.                             *)
(***************************************************************************)
SteadyPreferred ==
    \A r \in Requests :
        /\ pc[r] = "refused" => steady[r] = {}
        /\ pc[r] = "chosen" =>
              \A j \in Backends : Preference(r)[j] = chosen[r] =>
                 \A i \in 1..(j - 1) : Preference(r)[i] \notin steady[r]

(***************************************************************************)
(* Round robin gives every backend its turn, whatever their health and     *)
(* however requests overlap.                                               *)
(***************************************************************************)
EvenTurns == \A a, b \in Backends : turns[a] <= turns[b] + 1
=============================================================================
