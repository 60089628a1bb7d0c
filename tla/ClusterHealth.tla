---------------------------- MODULE ClusterHealth ----------------------------
(***************************************************************************)
(* What the process knows of the services behind it: the cluster cache     *)
(* with its informers, the health check of OpenCost, the readiness probe   *)
(* and the requests that read the cache (internal/clustercache/cache.go,   *)
(* internal/opencostproxy/proxy.go, internal/server/server.go).            *)
(*                                                                         *)
(* Cache.Start creates three stores, runs their informers and assigns them *)
(* to its fields, without a lock, while requests are served.  The contents *)
(* of a resource is the number of its changes so far; the informers        *)
(* (client-go) are modelled as the code uses them.                         *)
(***************************************************************************)
EXTENDS Integers, Sequences, SequencesExt

CONSTANTS
    Resources,   \* namespaces, nodes, pods ...
    Order,       \* ... in the order Start assigns their stores
    MaxChanges,  \* bound: changes of one resource in the cluster
    MaxFlips     \* bound: OpenCost goes down or up again

ASSUME OrderAssumption == Order \in Seq(Resources) /\ ToSet(Order) = Resources /\ IsInjective(Order)
ASSUME SizeAssumption == MaxChanges \in Nat /\ MaxFlips \in Nat

VARIABLES
    present,     \* there is a Kubernetes configuration: Server.cache is not nil
    next,        \* the resource whose field Start assigns next, after the last one the flag
    half,        \* its store is made, and the assignment is under way
    running,     \* the informers that run
    store,       \* the store of each informer: Empty or the contents it was given
    ready,       \* Cache.ready
    cluster,     \* contents of each resource in the cluster
    upstream,    \* OpenCost answers its health endpoint with 200
    flips,       \* how often it has changed
    check,       \* the health check: "wait", or the result it is about to store
    healthy,     \* Proxy.healthy
    cancelled,   \* the context of main is cancelled
    probe,       \* last answer of /readyz; 0: not asked yet
    reading,     \* resources a request has still to read; <<>>: none under way
    trusted,     \* that request began after a 200 of /readyz
    got          \* what the last read of a request has got

cacheVars == <<next, half, running, store, ready>>
worldVars == <<cluster, upstream, flips, cancelled>>
proxyVars == <<check, healthy>>
requestVars == <<reading, trusted, got>>
vars == <<present, cacheVars, worldVars, proxyVars, probe, requestVars>>

Unset == -2  \* the field of a resource is nil
Empty == -1
Panic == -3  \* a request that used a half-assigned store; the Recoverer answers 500
Nothing == -4
Contents == 0..MaxChanges

\* The resources whose field is assigned.
Assigned == {Order[i] : i \in 1..next - 1}

Init ==
    /\ present \in BOOLEAN
    /\ next = 1 /\ half = FALSE /\ ready = FALSE
    /\ running = {} /\ store = [r \in Resources |-> Empty]
    /\ cluster = [r \in Resources |-> 0]
    /\ upstream \in BOOLEAN /\ flips = 0
    /\ check = "wait" /\ healthy = FALSE
    /\ cancelled = FALSE /\ probe = 0
    /\ reading = <<>> /\ trusted = FALSE /\ got = Nothing

-----------------------------------------------------------------------------
(* The world.  The names starting with Bad are used by no action: each is  *)
(* a plausible slip in the definition it precedes.                         *)

Change(r) ==
    /\ cluster[r] < MaxChanges
    /\ cluster' = [cluster EXCEPT ![r] = @ + 1]
    /\ UNCHANGED <<present, cacheVars, upstream, flips, cancelled, proxyVars, probe, requestVars>>

Flip ==
    /\ flips < MaxFlips /\ flips' = flips + 1 /\ upstream' = ~upstream
    /\ UNCHANGED <<present, cacheVars, cluster, cancelled, proxyVars, probe, requestVars>>

Cancel ==
    /\ ~cancelled /\ cancelled' = TRUE
    /\ UNCHANGED <<present, cacheVars, cluster, upstream, flips, proxyVars, probe, requestVars>>

-----------------------------------------------------------------------------
(* Cache.Start and the informers.                                          *)

BadOneMore ==  \* one store too many
    /\ present /\ next <= Len(Order) + 1 /\ ~half /\ half' = TRUE
    /\ UNCHANGED <<present, next, running, store, ready, worldVars, proxyVars, probe, requestVars>>

BadNotRun ==  \* the controller is created but not run
    /\ present /\ next <= Len(Order) /\ ~half /\ half' = TRUE
    /\ UNCHANGED <<present, next, running, store, ready, worldVars, proxyVars, probe, requestVars>>

\* watchResource creates a store and runs its informer; what it returns is about to be
\* assigned.
WatchResource ==
    /\ present /\ next <= Len(Order) /\ ~half /\ half' = TRUE
    /\ running' = running \cup {Order[next]}
    /\ UNCHANGED <<present, next, store, ready, worldVars, proxyVars, probe, requestVars>>

\* The assignment is complete.  An interface value takes two words; a reader may have come
\* between the two writes (Read below).
EndAssign ==
    /\ half /\ half' = FALSE /\ next' = next + 1
    /\ UNCHANGED <<present, running, store, ready, worldVars, proxyVars, probe, requestVars>>

BadSetReady ==  \* before the last store
    /\ present /\ next = Len(Order) /\ ~ready /\ ready' = TRUE
    /\ UNCHANGED <<present, next, half, running, store, worldVars, proxyVars, probe, requestVars>>

\* The flag is set without waiting for an informer to have synced.
SetReady ==
    /\ present /\ next = Len(Order) + 1 /\ ~ready /\ ready' = TRUE
    /\ UNCHANGED <<present, next, half, running, store, worldVars, proxyVars, probe, requestVars>>

\* The informer of r lists, or applies what changed since; it ends with the context.
Sync(r) ==
    /\ ~cancelled /\ r \in running /\ store[r] < cluster[r]
    /\ store' = [store EXCEPT ![r] = cluster[r]]
    /\ UNCHANGED <<present, next, half, running, ready, worldVars, proxyVars, probe, requestVars>>

-----------------------------------------------------------------------------
(* Proxy.StartHealthCheck.                                                 *)

\* A tick, and the answer of checkHealth: with the context cancelled it is always no.
CheckHealth ==
    /\ check = "wait"
    /\ check' = IF upstream /\ ~cancelled THEN "up" ELSE "down"
    /\ UNCHANGED <<present, cacheVars, worldVars, healthy, probe, requestVars>>

BadStoreHealth ==  \* a failure is not stored
    /\ check \in {"up", "down"} /\ check' = "wait" /\ healthy' = (healthy \/ check = "up")
    /\ UNCHANGED <<present, cacheVars, worldVars, probe, requestVars>>

StoreHealth ==
    /\ check \in {"up", "down"} /\ check' = "wait" /\ healthy' = (check = "up")
    /\ UNCHANGED <<present, cacheVars, worldVars, probe, requestVars>>

\* <-ctx.Done(), or a tick that is drawn before it.
StopCheck ==
    /\ check = "wait" /\ cancelled /\ check' = "stopped"
    /\ UNCHANGED <<present, cacheVars, worldVars, healthy, probe, requestVars>>

-----------------------------------------------------------------------------
(* The server.                                                             *)

IsReady == ~present \/ ready

IsHealthy == healthy

\* handleDetailedHealth: the two flags in words.
DetailedHealth ==
    [opencost |-> IF IsHealthy THEN "healthy" ELSE "unreachable",
     cluster_cache |-> IF ~present THEN "none" ELSE IF ready THEN "ready" ELSE "initializing"]

Readyz ==
    /\ probe' = IF IsReady THEN 200 ELSE 503
    /\ UNCHANGED <<present, cacheVars, worldVars, proxyVars, requestVars>>

\* What the handlers read: handleNamespaces, handleNodes and handleClusterSummary.
Endpoints == {<<r>> : r \in Resources} \cup {Order}

\* Without a cache the answer is 503; otherwise the stores are read one after the other,
\* whether or not the cache is ready.
Request(e) ==
    /\ reading = <<>> /\ present
    /\ reading' = e /\ got' = Nothing /\ trusted' = (probe = 200)
    /\ UNCHANGED <<present, cacheVars, worldVars, proxyVars, probe>>

\* GetNamespaces, GetNodes, GetPods: nil without a store, else what it holds.
Read(r) ==
    IF half /\ Order[next] = r THEN {Unset, Panic, store[r]}
    ELSE IF r \in Assigned THEN {store[r]} ELSE {Unset}

ReadStore ==
    /\ reading # <<>>
    /\ got' \in Read(Head(reading))
    /\ reading' = IF got' = Panic THEN <<>> ELSE Tail(reading)
    /\ UNCHANGED <<present, cacheVars, worldVars, proxyVars, probe, trusted>>

-----------------------------------------------------------------------------
Start == WatchResource \/ EndAssign \/ SetReady
HealthCheck == CheckHealth \/ StoreHealth \/ StopCheck

Next ==
    \/ \E r \in Resources : Change(r) \/ Sync(r)
    \/ Flip \/ Cancel
    \/ Start \/ HealthCheck
    \/ Readyz \/ ReadStore \/ \E e \in Endpoints : Request(e)

Spec == Init /\ [][Next]_vars

\* Start runs to its end, an informer gets what the API server has, the ticker goes on.
LiveSpec ==
    /\ Spec /\ WF_vars(Start) /\ WF_vars(HealthCheck)
    /\ \A r \in Resources : WF_vars(Sync(r))

-----------------------------------------------------------------------------
\* Every variable has the values the code gives it.
TypeOK ==
    /\ present \in BOOLEAN /\ next \in 1..Len(Order) + 1 /\ half \in BOOLEAN
    /\ half => next <= Len(Order)
    /\ running \subseteq Resources
    /\ store \in [Resources -> {Empty} \cup Contents] /\ ready \in BOOLEAN
    /\ cluster \in [Resources -> Contents]
    /\ upstream \in BOOLEAN /\ flips \in 0..MaxFlips /\ cancelled \in BOOLEAN
    /\ check \in {"wait", "up", "down", "stopped"} /\ healthy \in BOOLEAN
    /\ probe \in {0, 200, 503} /\ trusted \in BOOLEAN
    /\ reading \in Seq(Resources)
    /\ got \in {Nothing, Panic, Unset, Empty} \cup Contents

\* A request that follows a 200 of the readiness probe never finds a store missing or half
\* assigned, although nothing but the flag orders it after Cache.Start.
ReadyRequestsAreSafe ==
    trusted => got \notin {Unset, Panic}

\* "Returns 200 when the server and its dependencies are ready to serve traffic": after a
\* 200 a request gets the contents of the cluster, not those of an empty store.
ReadyRequestsAreServed ==
    trusted => got # Empty

\* When OpenCost stays as it is, /api/v1/health agrees with it in the end, until the check
\* stops.
HealthFollows ==
    <>[](cancelled \/ DetailedHealth.opencost = IF upstream THEN "healthy" ELSE "unreachable")

\* When the cluster stays as it is, every store agrees with it in the end and the cache is
\* shown as ready, until the informers stop.
CacheFollows ==
    present ~> (cancelled \/ (/\ DetailedHealth.cluster_cache = "ready"
                              /\ \A r \in Resources : store[r] = cluster[r]))
=============================================================================
