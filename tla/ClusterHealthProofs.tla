------------------------- MODULE ClusterHealthProofs -------------------------
(***************************************************************************)
(* Proofs about ClusterHealth, for every set of resources: type            *)
(* correctness, and that a request that follows a 200 of the readiness     *)
(* probe finds every store assigned.                                       *)
(***************************************************************************)
EXTENDS ClusterHealth, TLAPS

USE OrderAssumption, SizeAssumption

LEMMA OrderFacts ==
  /\ Len(Order) \in Nat /\ DOMAIN Order = 1..Len(Order)
  /\ \A i \in 1..Len(Order) : Order[i] \in Resources
  /\ \A r \in Resources : \E i \in 1..Len(Order) : Order[i] = r
<1>1. Len(Order) \in Nat /\ DOMAIN Order = 1..Len(Order)
      /\ \A i \in 1..Len(Order) : Order[i] \in Resources
  OBVIOUS
<1>2. \A r \in Resources : \E i \in DOMAIN Order : Order[i] = r
  BY DEF ToSet
<1> QED
  BY <1>1, <1>2

LEMMA HeadTail ==
  ASSUME NEW S, NEW s \in Seq(S), s # <<>>
  PROVE  Head(s) \in S /\ Tail(s) \in Seq(S)
  OBVIOUS

LEMMA EndpointType == \A e \in Endpoints : e \in Seq(Resources)
<1>1. \A r \in Resources : <<r>> \in Seq(Resources)
  OBVIOUS
<1>2. Order \in Seq(Resources)
  OBVIOUS
<1> QED
  BY <1>1, <1>2 DEF Endpoints

\* What the flag stands for: it comes after the last assignment, the probe after the flag,
\* a trusted request after the probe.
FlagOK ==
    /\ ready => next = Len(Order) + 1
    /\ probe = 200 /\ present => ready
    /\ trusted => present /\ ready

-----------------------------------------------------------------------------
LEMMA TypeStep == TypeOK /\ [Next]_vars => TypeOK'
<1> SUFFICES ASSUME TypeOK, [Next]_vars PROVE TypeOK'
  OBVIOUS
<1>1. ASSUME NEW r \in Resources, Change(r) PROVE TypeOK'
  BY <1>1 DEF Change, TypeOK, Contents, cacheVars, proxyVars, requestVars
<1>2. ASSUME NEW r \in Resources, Sync(r) PROVE TypeOK'
  BY <1>2 DEF Sync, TypeOK, worldVars, proxyVars, requestVars
<1>3. CASE Flip
  BY <1>3 DEF Flip, TypeOK, cacheVars, proxyVars, requestVars
<1>4. CASE Cancel
  BY <1>4 DEF Cancel, TypeOK, cacheVars, proxyVars, requestVars
<1>5. CASE WatchResource
  BY <1>5, OrderFacts DEF WatchResource, TypeOK, worldVars, proxyVars, requestVars
<1>6. CASE EndAssign
  <2>1. next \in 1..Len(Order) /\ half' = FALSE /\ next' = next + 1
    BY <1>6 DEF EndAssign, TypeOK
  <2>2. next' \in 1..Len(Order) + 1
    BY <2>1, OrderFacts
  <2>3. UNCHANGED <<present, running, store, ready, worldVars, proxyVars, probe, requestVars>>
    BY <1>6 DEF EndAssign
  <2>4. half' \in BOOLEAN /\ ~half'
    BY <2>1, Zenon
  <2> QED
    BY <2>2, <2>3, <2>4 DEF TypeOK, worldVars, proxyVars, requestVars
<1>7. CASE SetReady
  BY <1>7 DEF SetReady, TypeOK, worldVars, proxyVars, requestVars
<1>8. CASE CheckHealth
  BY <1>8 DEF CheckHealth, TypeOK, cacheVars, worldVars, requestVars
<1>9. CASE StoreHealth
  BY <1>9 DEF StoreHealth, TypeOK, cacheVars, worldVars, requestVars
<1>10. CASE StopCheck
  BY <1>10 DEF StopCheck, TypeOK, cacheVars, worldVars, requestVars
<1>11. CASE Readyz
  BY <1>11 DEF Readyz, TypeOK, cacheVars, worldVars, proxyVars, requestVars
<1>12. CASE ReadStore
  <2>1. Head(reading) \in Resources /\ Tail(reading) \in Seq(Resources)
    BY <1>12, HeadTail DEF ReadStore, TypeOK
  <2>2. reading' \in Seq(Resources)
    BY <1>12, <2>1 DEF ReadStore
  <2>3. got' \in {Nothing, Panic, Unset, Empty} \cup Contents
    BY <1>12, <2>1 DEF ReadStore, Read, TypeOK
  <2> QED
    BY <1>12, <2>2, <2>3 DEF ReadStore, TypeOK, cacheVars, worldVars, proxyVars
<1>13. ASSUME NEW e \in Endpoints, Request(e) PROVE TypeOK'
  BY <1>13, EndpointType DEF Request, TypeOK, cacheVars, worldVars, proxyVars
<1>14. CASE UNCHANGED vars
  BY <1>14 DEF TypeOK, vars, cacheVars, worldVars, proxyVars, requestVars
<1> QED
  BY <1>1, <1>2, <1>3, <1>4, <1>5, <1>6, <1>7, <1>8, <1>9, <1>10, <1>11, <1>12, <1>13, <1>14
     DEF Next, Start, HealthCheck

LEMMA FlagStep == TypeOK /\ FlagOK /\ [Next]_vars => FlagOK'
<1> SUFFICES ASSUME TypeOK, FlagOK, [Next]_vars PROVE FlagOK'
  OBVIOUS
<1>1. ASSUME NEW r \in Resources, Change(r) PROVE FlagOK'
  BY <1>1 DEF Change, FlagOK, cacheVars, requestVars
<1>2. ASSUME NEW r \in Resources, Sync(r) PROVE FlagOK'
  BY <1>2 DEF Sync, FlagOK, requestVars
<1>3. CASE Flip \/ Cancel
  BY <1>3 DEF Flip, Cancel, FlagOK, cacheVars, requestVars
<1>4. CASE WatchResource
  BY <1>4 DEF WatchResource, FlagOK, requestVars
<1>5. CASE EndAssign
  <2>1. next \in 1..Len(Order)
    BY <1>5 DEF EndAssign, TypeOK
  <2>2. ~ready
    BY <2>1, OrderFacts DEF FlagOK
  <2> QED
    BY <1>5, <2>2 DEF EndAssign, FlagOK, requestVars
<1>6. CASE SetReady
  BY <1>6 DEF SetReady, FlagOK, requestVars
<1>7. CASE HealthCheck
  BY <1>7 DEF HealthCheck, CheckHealth, StoreHealth, StopCheck, FlagOK, cacheVars, requestVars
<1>8. CASE Readyz
  BY <1>8 DEF Readyz, IsReady, FlagOK, cacheVars, requestVars
<1>9. CASE ReadStore
  BY <1>9 DEF ReadStore, FlagOK, cacheVars
<1>10. ASSUME NEW e \in Endpoints, Request(e) PROVE FlagOK'
  BY <1>10 DEF Request, FlagOK, cacheVars
<1>11. CASE UNCHANGED vars
  BY <1>11 DEF FlagOK, vars, cacheVars, requestVars
<1> QED
  BY <1>1, <1>2, <1>3, <1>4, <1>5, <1>6, <1>7, <1>8, <1>9, <1>10, <1>11 DEF Next, Start

LEMMA SafeStep ==
    TypeOK /\ FlagOK /\ ReadyRequestsAreSafe /\ [Next]_vars => ReadyRequestsAreSafe'
<1> SUFFICES ASSUME TypeOK, FlagOK, ReadyRequestsAreSafe, [Next]_vars
             PROVE  ReadyRequestsAreSafe'
  OBVIOUS
<1>1. CASE ReadStore
  <2> SUFFICES ASSUME trusted PROVE got' \notin {Unset, Panic}
    BY <1>1 DEF ReadStore, ReadyRequestsAreSafe
  <2>1. next = Len(Order) + 1 /\ ~half
    BY OrderFacts DEF FlagOK, TypeOK
  <2>2. Head(reading) \in Resources
    BY <1>1, HeadTail DEF ReadStore, TypeOK
  <2>3. Head(reading) \in Assigned /\ store[Head(reading)] \in {Empty} \cup Contents
    BY <2>1, <2>2, OrderFacts DEF Assigned, TypeOK
  <2>4. got' = store[Head(reading)]
    BY <1>1, <2>1, <2>3 DEF ReadStore, Read
  <2> QED
    BY <2>3, <2>4 DEF Contents, Empty, Unset, Panic
<1>2. ASSUME NEW e \in Endpoints, Request(e) PROVE ReadyRequestsAreSafe'
  BY <1>2 DEF Request, ReadyRequestsAreSafe, Nothing, Unset, Panic
<1>3. CASE UNCHANGED requestVars
  BY <1>3 DEF ReadyRequestsAreSafe, requestVars
<1> QED
  BY <1>1, <1>2, <1>3 DEF Next, Start, HealthCheck, Change, Sync, Flip, Cancel, WatchResource,
     EndAssign, SetReady, CheckHealth, StoreHealth, StopCheck, Readyz, vars

LEMMA InitType == Init => TypeOK
<1> SUFFICES ASSUME Init PROVE TypeOK
  OBVIOUS
<1>1. present \in BOOLEAN /\ half \in BOOLEAN /\ ready \in BOOLEAN /\ upstream \in BOOLEAN
      /\ cancelled \in BOOLEAN /\ healthy \in BOOLEAN /\ trusted \in BOOLEAN /\ ~half
  BY Zenon DEF Init
<1>2. reading \in Seq(Resources)
  BY DEF Init
<1>3. next \in 1..Len(Order) + 1
  BY OrderFacts DEF Init
<1> QED
  BY <1>1, <1>2, <1>3 DEF Init, TypeOK, Contents

\* The flags, the stores and the requests keep their types however the informers, the checks
\* and the requests interleave.
THEOREM TypeCorrect == Spec => []TypeOK
  BY InitType, TypeStep, PTL DEF Spec

\* A request that follows a 200 of /readyz never finds a store missing or half assigned
\* (Cache.Start in cache.go, the cluster handlers in server.go).
THEOREM ReadyIsSafe == Spec => []ReadyRequestsAreSafe
<1>1. Init => FlagOK /\ ReadyRequestsAreSafe
  BY DEF Init, FlagOK, ReadyRequestsAreSafe
<1>2. TypeOK /\ FlagOK /\ ReadyRequestsAreSafe /\ [Next]_vars
        => (FlagOK /\ ReadyRequestsAreSafe)'
  BY FlagStep, SafeStep
<1> QED
  BY <1>1, <1>2, TypeCorrect, PTL DEF Spec
=============================================================================
