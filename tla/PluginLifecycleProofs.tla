------------------------ MODULE PluginLifecycleProofs ------------------------
(***************************************************************************)
(* Proofs about PluginLifecycle, for any plugins, channel capacity, number *)
(* of budgets and of checks.                                               *)
(***************************************************************************)
EXTENDS PluginLifecycle, SequenceTheorems, TLAPS

\* A bridge has an event in hand exactly while it publishes.
HandInv == \A p \in Plugins : hand[p] \in Event <=> bridge[p] = "publish"

\* The stored result is that of the last check, or, while a check is being looked at,
\* of the one before it.
Looking(p) == poll[p] \in {"scan", "store"}
CheckInv ==
    \A p \in Plugins :
        /\ checks[p] = stored[p] + (IF Looking(p) THEN 1 ELSE 0)
        /\ poll[p] = "scan" => p \in EventFirst
        /\ poll[p] = "send" => p \notin EventFirst /\ checks[p] >= 1

\* What was sent, published or not, is at most one check ahead of what is stored.
SentInv ==
    \A p \in Plugins : \A i \in DOMAIN sent[p] :
        sent[p][i].check <= stored[p] + (IF p \in EventFirst /\ Looking(p) THEN 1 ELSE 0)

\* Nothing of a plugin runs before InitializeAll has reached it.
StartInv ==
    \A p \in Plugins : main = "register" \/ (main = "init" /\ p \in left) =>
                        poll[p] = "off" /\ bridge[p] = "off"

IInv == TypeOK /\ StartInv /\ HandInv /\ CheckInv /\ SentInv /\ BridgeFaithful

-----------------------------------------------------------------------------

\* TrySend keeps the contents of the channel, and its history, sequences of events.
LEMMA TrySendType ==
  ASSUME events \in [Plugins -> Seq(Event)], sent \in [Plugins -> Seq(Event)],
         NEW p \in Plugins, NEW e \in Event, TrySend(p, e)
  PROVE  events' \in [Plugins -> Seq(Event)] /\ sent' \in [Plugins -> Seq(Event)]
<1>1. Append(events[p], e) \in Seq(Event) /\ Append(sent[p], e) \in Seq(Event)
  BY AppendProperties
<1>2. CASE Len(events[p]) < EventCap
  BY <1>1, <1>2 DEF TrySend
<1>3. CASE ~(Len(events[p]) < EventCap)
  BY <1>3 DEF TrySend
<1>4. QED
  BY <1>2, <1>3

\* Every step keeps every variable in its type.
LEMMA TypeStep == TypeOK /\ HandInv /\ CheckInv /\ [Next]_vars => TypeOK'
<1> SUFFICES ASSUME TypeOK, HandInv, CheckInv, [Next]_vars PROVE TypeOK'
  OBVIOUS
<1> USE SizeAssumption, PluginAssumption
<1>1. ASSUME BeginInitialize
      PROVE  TypeOK'
  BY <1>1 DEF BeginInitialize, TypeOK, MainPc, PollPc, BridgePc, mainVars, pollVars,
     bridgeVars, chanVars, PollAt
<1>2. ASSUME Run
      PROVE  TypeOK'
  BY <1>2 DEF Run, TypeOK, MainPc, PollPc, BridgePc, mainVars, pollVars, bridgeVars,
     chanVars, PollAt
<1>3. ASSUME BeginShutdown
      PROVE  TypeOK'
  BY <1>3 DEF BeginShutdown, TypeOK, MainPc, PollPc, BridgePc, mainVars, pollVars,
     bridgeVars, chanVars, PollAt
<1>4. ASSUME EndShutdown
      PROVE  TypeOK'
  BY <1>4 DEF EndShutdown, TypeOK, MainPc, PollPc, BridgePc, mainVars, pollVars,
     bridgeVars, chanVars, PollAt
<1>5. ASSUME Exit
      PROVE  TypeOK'
  BY <1>5 DEF Exit, TypeOK, MainPc, PollPc, BridgePc, mainVars, pollVars, bridgeVars,
     chanVars, PollAt
<1>6. ASSUME Signal
      PROVE  TypeOK'
  BY <1>6 DEF Signal, TypeOK, MainPc, PollPc, BridgePc, mainVars, pollVars, bridgeVars,
     chanVars, PollAt
<1>7. ASSUME ServerFails
      PROVE  TypeOK'
  BY <1>7 DEF ServerFails, TypeOK, MainPc, PollPc, BridgePc, mainVars, pollVars, bridgeVars,
     chanVars, PollAt
<1>8. ASSUME NEW p \in Plugins, Register(p)
      PROVE  TypeOK'
  BY <1>8 DEF Register, TypeOK, MainPc, PollPc, BridgePc, mainVars, pollVars,
     bridgeVars, chanVars, PollAt
<1>9. ASSUME NEW p \in Plugins, Initialize(p)
      PROVE  TypeOK'
  BY <1>9 DEF Initialize, TypeOK, MainPc, PollPc, BridgePc, mainVars, pollVars,
     bridgeVars, chanVars, PollAt
<1>10. ASSUME NEW p \in Plugins, InitializeFails(p)
      PROVE  TypeOK'
  BY <1>10 DEF InitializeFails, TypeOK, MainPc, PollPc, BridgePc, mainVars, pollVars,
     bridgeVars, chanVars, PollAt
<1>11. ASSUME NEW p \in Plugins, Shutdown(p)
      PROVE  TypeOK'
  BY <1>11 DEF Shutdown, TypeOK, MainPc, PollPc, BridgePc, mainVars, pollVars,
     bridgeVars, chanVars, PollAt
<1>12. ASSUME NEW p \in Plugins, FetchOk(p)
      PROVE  TypeOK'
  BY <1>12 DEF FetchOk, TypeOK, MainPc, PollPc, BridgePc, mainVars, pollVars,
     bridgeVars, chanVars, PollAt
<1>13. ASSUME NEW p \in Plugins, FetchFails(p)
      PROVE  TypeOK'
  BY <1>13 DEF FetchFails, TypeOK, MainPc, PollPc, BridgePc, mainVars, pollVars,
     bridgeVars, chanVars, PollAt
<1>14. ASSUME NEW p \in Plugins, BudgetOk(p)
      PROVE  TypeOK'
  BY <1>14 DEF BudgetOk, TypeOK, MainPc, PollPc, BridgePc, mainVars, pollVars,
     bridgeVars, chanVars, PollAt
<1>15. ASSUME NEW p \in Plugins, BudgetAlert(p)
      PROVE  TypeOK'
  <2>1. /\ checks[p] \in 1..MaxChecks
        /\ item[p] \in 0..Items /\ 0 \in 0..Items
        /\ item[p] > 0 => item[p] - 1 \in 0..Items
    BY <1>15 DEF BudgetAlert, TypeOK, CheckInv, Looking, PollAt
  <2>2. [check |-> checks[p], item |-> item[p]] \in Event
    BY <2>1 DEF Event
  <2>3. events' \in [Plugins -> Seq(Event)] /\ sent' \in [Plugins -> Seq(Event)]
    BY <1>15, <2>2, TrySendType DEF BudgetAlert, TypeOK
  <2>4. UNCHANGED checks /\ item' \in [Plugins -> 0..Items]
    BY <1>15, <2>1 DEF BudgetAlert, TypeOK
  <2>5. QED
    BY <1>15, <2>3, <2>4 DEF BudgetAlert, TypeOK, MainPc, PollPc, BridgePc, mainVars, pollVars,
       bridgeVars, chanVars, PollAt
<1>16. ASSUME NEW p \in Plugins, EndScan(p)
      PROVE  TypeOK'
  BY <1>16 DEF EndScan, TypeOK, MainPc, PollPc, BridgePc, mainVars, pollVars,
     bridgeVars, chanVars, PollAt
<1>17. ASSUME NEW p \in Plugins, Store(p)
      PROVE  TypeOK'
  BY <1>17 DEF Store, TypeOK, MainPc, PollPc, BridgePc, mainVars, pollVars, bridgeVars,
     chanVars, PollAt
<1>18. ASSUME NEW p \in Plugins, IdleDetected(p)
      PROVE  TypeOK'
  <2>1. /\ checks[p] \in 1..MaxChecks
        /\ item[p] \in 0..Items /\ 0 \in 0..Items
        /\ item[p] > 0 => item[p] - 1 \in 0..Items
    BY <1>18 DEF IdleDetected, TypeOK, CheckInv, Looking, PollAt
  <2>2. [check |-> checks[p], item |-> 0] \in Event
    BY <2>1 DEF Event
  <2>3. events' \in [Plugins -> Seq(Event)] /\ sent' \in [Plugins -> Seq(Event)]
    BY <1>18, <2>2, TrySendType DEF IdleDetected, TypeOK
  <2>4. UNCHANGED checks /\ item' \in [Plugins -> 0..Items]
    BY <1>18, <2>1 DEF IdleDetected, TypeOK
  <2>5. QED
    BY <1>18, <2>3, <2>4 DEF IdleDetected, TypeOK, MainPc, PollPc, BridgePc, mainVars, pollVars,
       bridgeVars, chanVars, PollAt
<1>19. ASSUME NEW p \in Plugins, NothingIdle(p)
      PROVE  TypeOK'
  BY <1>19 DEF NothingIdle, TypeOK, MainPc, PollPc, BridgePc, mainVars, pollVars,
     bridgeVars, chanVars, PollAt
<1>20. ASSUME NEW p \in Plugins, Panic(p)
      PROVE  TypeOK'
  BY <1>20 DEF Panic, TypeOK, MainPc, PollPc, BridgePc, mainVars, pollVars, bridgeVars,
     chanVars, PollAt
<1>21. ASSUME NEW p \in Plugins, Tick(p)
      PROVE  TypeOK'
  BY <1>21 DEF Tick, TypeOK, MainPc, PollPc, BridgePc, mainVars, pollVars, bridgeVars,
     chanVars, PollAt
<1>22. ASSUME NEW p \in Plugins, PollExit(p)
      PROVE  TypeOK'
  BY <1>22 DEF PollExit, TypeOK, MainPc, PollPc, BridgePc, mainVars, pollVars,
     bridgeVars, chanVars, PollAt
<1>23. ASSUME NEW p \in Plugins, Take(p)
      PROVE  TypeOK'
  <2>1. Head(events[p]) \in Event /\ Tail(events[p]) \in Seq(Event)
    BY <1>23 DEF Take, TypeOK
  <2>2. QED
    BY <1>23, <2>1 DEF Take, TypeOK, MainPc, PollPc, BridgePc, mainVars, pollVars, bridgeVars,
       chanVars, PollAt
<1>24. ASSUME NEW p \in Plugins, Publish(p)
      PROVE  TypeOK'
  <2>1. hand[p] \in Event
    BY <1>24 DEF Publish, HandInv
  <2>2. published' \in [Plugins -> Seq(Event)]
    BY <1>24, <2>1 DEF Publish, TypeOK
  <2>3. QED
    BY <1>24, <2>2 DEF Publish, TypeOK, MainPc, PollPc, BridgePc, mainVars, pollVars, bridgeVars,
       chanVars, PollAt
<1>25. ASSUME NEW p \in Plugins, BridgeExit(p)
      PROVE  TypeOK'
  BY <1>25 DEF BridgeExit, TypeOK, MainPc, PollPc, BridgePc, mainVars, pollVars,
     bridgeVars, chanVars, PollAt
<1>26. CASE UNCHANGED vars
  BY <1>26 DEF TypeOK, MainPc, PollPc, BridgePc, mainVars, pollVars, bridgeVars, chanVars, PollAt, vars
<1>27. QED
  BY <1>1, <1>2, <1>3, <1>4, <1>5, <1>6, <1>7, <1>8, <1>9, <1>10, <1>11, <1>12, <1>13,
     <1>14, <1>15, <1>16, <1>17, <1>18, <1>19, <1>20, <1>21, <1>22, <1>23, <1>24,
     <1>25, <1>26
  DEF Next, MainStep, CheckStep, BridgeStep

\* Every step keeps the event in hand in step with the program counter.
LEMMA HandStep == TypeOK /\ StartInv /\ HandInv /\ [Next]_vars => HandInv'
<1> SUFFICES ASSUME TypeOK, StartInv, HandInv, [Next]_vars PROVE HandInv'
  OBVIOUS
<1> USE NoneAssumption
<1>1. ASSUME BeginInitialize
      PROVE  HandInv'
  BY <1>1 DEF BeginInitialize, TypeOK, HandInv, bridgeVars
<1>2. ASSUME Run
      PROVE  HandInv'
  BY <1>2 DEF Run, TypeOK, HandInv, bridgeVars
<1>3. ASSUME BeginShutdown
      PROVE  HandInv'
  BY <1>3 DEF BeginShutdown, TypeOK, HandInv, bridgeVars
<1>4. ASSUME EndShutdown
      PROVE  HandInv'
  BY <1>4 DEF EndShutdown, TypeOK, HandInv, bridgeVars
<1>5. ASSUME Exit
      PROVE  HandInv'
  BY <1>5 DEF Exit, TypeOK, HandInv, bridgeVars
<1>6. ASSUME Signal
      PROVE  HandInv'
  BY <1>6 DEF Signal, TypeOK, HandInv, bridgeVars
<1>7. ASSUME ServerFails
      PROVE  HandInv'
  BY <1>7 DEF ServerFails, TypeOK, HandInv, bridgeVars
<1>8. ASSUME NEW p \in Plugins, Register(p)
      PROVE  HandInv'
  BY <1>8 DEF Register, TypeOK, HandInv, bridgeVars
<1>9. ASSUME NEW p \in Plugins, Initialize(p)
      PROVE  HandInv'
  BY <1>9 DEF Initialize, TypeOK, StartInv, HandInv
<1>10. ASSUME NEW p \in Plugins, InitializeFails(p)
      PROVE  HandInv'
  BY <1>10 DEF InitializeFails, TypeOK, HandInv, bridgeVars
<1>11. ASSUME NEW p \in Plugins, Shutdown(p)
      PROVE  HandInv'
  BY <1>11 DEF Shutdown, TypeOK, HandInv, bridgeVars
<1>12. ASSUME NEW p \in Plugins, FetchOk(p)
      PROVE  HandInv'
  BY <1>12 DEF FetchOk, TypeOK, HandInv, bridgeVars
<1>13. ASSUME NEW p \in Plugins, FetchFails(p)
      PROVE  HandInv'
  BY <1>13 DEF FetchFails, TypeOK, HandInv, bridgeVars
<1>14. ASSUME NEW p \in Plugins, BudgetOk(p)
      PROVE  HandInv'
  BY <1>14 DEF BudgetOk, TypeOK, HandInv, bridgeVars
<1>15. ASSUME NEW p \in Plugins, BudgetAlert(p)
      PROVE  HandInv'
  BY <1>15 DEF BudgetAlert, TypeOK, HandInv, bridgeVars
<1>16. ASSUME NEW p \in Plugins, EndScan(p)
      PROVE  HandInv'
  BY <1>16 DEF EndScan, TypeOK, HandInv, bridgeVars
<1>17. ASSUME NEW p \in Plugins, Store(p)
      PROVE  HandInv'
  BY <1>17 DEF Store, TypeOK, HandInv, bridgeVars
<1>18. ASSUME NEW p \in Plugins, IdleDetected(p)
      PROVE  HandInv'
  BY <1>18 DEF IdleDetected, TypeOK, HandInv, bridgeVars
<1>19. ASSUME NEW p \in Plugins, NothingIdle(p)
      PROVE  HandInv'
  BY <1>19 DEF NothingIdle, TypeOK, HandInv, bridgeVars
<1>20. ASSUME NEW p \in Plugins, Panic(p)
      PROVE  HandInv'
  BY <1>20 DEF Panic, TypeOK, HandInv, bridgeVars
<1>21. ASSUME NEW p \in Plugins, Tick(p)
      PROVE  HandInv'
  BY <1>21 DEF Tick, TypeOK, HandInv, bridgeVars
<1>22. ASSUME NEW p \in Plugins, PollExit(p)
      PROVE  HandInv'
  BY <1>22 DEF PollExit, TypeOK, HandInv, bridgeVars
<1>23. ASSUME NEW p \in Plugins, Take(p)
      PROVE  HandInv'
  <2>1. Head(events[p]) \in Event
    BY <1>23 DEF Take, TypeOK
  <2>2. QED
    BY <1>23, <2>1 DEF Take, TypeOK, HandInv
<1>24. ASSUME NEW p \in Plugins, Publish(p)
      PROVE  HandInv'
  BY <1>24 DEF Publish, TypeOK, HandInv, bridgeVars
<1>25. ASSUME NEW p \in Plugins, BridgeExit(p)
      PROVE  HandInv'
  BY <1>25 DEF BridgeExit, TypeOK, HandInv, bridgeVars
<1>26. CASE UNCHANGED vars
  BY <1>26 DEF TypeOK, HandInv, bridgeVars, vars
<1>27. QED
  BY <1>1, <1>2, <1>3, <1>4, <1>5, <1>6, <1>7, <1>8, <1>9, <1>10, <1>11, <1>12, <1>13,
     <1>14, <1>15, <1>16, <1>17, <1>18, <1>19, <1>20, <1>21, <1>22, <1>23, <1>24,
     <1>25, <1>26
  DEF Next, MainStep, CheckStep, BridgeStep

\* Every step keeps what is stored in step with the checks.
LEMMA CheckStepInv == TypeOK /\ StartInv /\ CheckInv /\ [Next]_vars => CheckInv'
<1> SUFFICES ASSUME TypeOK, StartInv, CheckInv, [Next]_vars PROVE CheckInv'
  OBVIOUS
<1> USE SizeAssumption DEF Looking
<1>1. ASSUME BeginInitialize
      PROVE  CheckInv'
  BY <1>1 DEF BeginInitialize, TypeOK, CheckInv, pollVars, PollAt
<1>2. ASSUME Run
      PROVE  CheckInv'
  BY <1>2 DEF Run, TypeOK, CheckInv, pollVars, PollAt
<1>3. ASSUME BeginShutdown
      PROVE  CheckInv'
  BY <1>3 DEF BeginShutdown, TypeOK, CheckInv, pollVars, PollAt
<1>4. ASSUME EndShutdown
      PROVE  CheckInv'
  BY <1>4 DEF EndShutdown, TypeOK, CheckInv, pollVars, PollAt
<1>5. ASSUME Exit
      PROVE  CheckInv'
  BY <1>5 DEF Exit, TypeOK, CheckInv, pollVars, PollAt
<1>6. ASSUME Signal
      PROVE  CheckInv'
  BY <1>6 DEF Signal, TypeOK, CheckInv, pollVars, PollAt
<1>7. ASSUME ServerFails
      PROVE  CheckInv'
  BY <1>7 DEF ServerFails, TypeOK, CheckInv, pollVars, PollAt
<1>8. ASSUME NEW p \in Plugins, Register(p)
      PROVE  CheckInv'
  BY <1>8 DEF Register, TypeOK, CheckInv, pollVars, PollAt
<1>9. ASSUME NEW p \in Plugins, Initialize(p)
      PROVE  CheckInv'
  BY <1>9 DEF Initialize, TypeOK, StartInv, CheckInv
<1>10. ASSUME NEW p \in Plugins, InitializeFails(p)
      PROVE  CheckInv'
  BY <1>10 DEF InitializeFails, TypeOK, CheckInv, pollVars, PollAt
<1>11. ASSUME NEW p \in Plugins, Shutdown(p)
      PROVE  CheckInv'
  BY <1>11 DEF Shutdown, TypeOK, CheckInv, pollVars, PollAt
<1>12. ASSUME NEW p \in Plugins, FetchOk(p)
      PROVE  CheckInv'
  BY <1>12 DEF FetchOk, TypeOK, CheckInv, pollVars, PollAt
<1>13. ASSUME NEW p \in Plugins, FetchFails(p)
      PROVE  CheckInv'
  BY <1>13 DEF FetchFails, TypeOK, CheckInv, pollVars, PollAt
<1>14. ASSUME NEW p \in Plugins, BudgetOk(p)
      PROVE  CheckInv'
  BY <1>14 DEF BudgetOk, TypeOK, CheckInv, pollVars, PollAt
<1>15. ASSUME NEW p \in Plugins, BudgetAlert(p)
      PROVE  CheckInv'
  BY <1>15 DEF BudgetAlert, TypeOK, CheckInv, pollVars, PollAt
<1>16. ASSUME NEW p \in Plugins, EndScan(p)
      PROVE  CheckInv'
  BY <1>16 DEF EndScan, TypeOK, CheckInv, pollVars, PollAt
<1>17. ASSUME NEW p \in Plugins, Store(p)
      PROVE  CheckInv'
  BY <1>17 DEF Store, TypeOK, CheckInv, pollVars, PollAt
<1>18. ASSUME NEW p \in Plugins, IdleDetected(p)
      PROVE  CheckInv'
  BY <1>18 DEF IdleDetected, TypeOK, CheckInv, pollVars, PollAt
<1>19. ASSUME NEW p \in Plugins, NothingIdle(p)
      PROVE  CheckInv'
  BY <1>19 DEF NothingIdle, TypeOK, CheckInv, pollVars, PollAt
<1>20. ASSUME NEW p \in Plugins, Panic(p)
      PROVE  CheckInv'
  BY <1>20 DEF Panic, TypeOK, CheckInv, pollVars, PollAt
<1>21. ASSUME NEW p \in Plugins, Tick(p)
      PROVE  CheckInv'
  BY <1>21 DEF Tick, TypeOK, CheckInv, pollVars, PollAt
<1>22. ASSUME NEW p \in Plugins, PollExit(p)
      PROVE  CheckInv'
  BY <1>22 DEF PollExit, TypeOK, CheckInv, pollVars, PollAt
<1>23. ASSUME NEW p \in Plugins, Take(p)
      PROVE  CheckInv'
  BY <1>23 DEF Take, TypeOK, CheckInv, pollVars, PollAt
<1>24. ASSUME NEW p \in Plugins, Publish(p)
      PROVE  CheckInv'
  BY <1>24 DEF Publish, TypeOK, CheckInv, pollVars, PollAt
<1>25. ASSUME NEW p \in Plugins, BridgeExit(p)
      PROVE  CheckInv'
  BY <1>25 DEF BridgeExit, TypeOK, CheckInv, pollVars, PollAt
<1>26. CASE UNCHANGED vars
  BY <1>26 DEF TypeOK, CheckInv, pollVars, PollAt, vars
<1>27. QED
  BY <1>1, <1>2, <1>3, <1>4, <1>5, <1>6, <1>7, <1>8, <1>9, <1>10, <1>11, <1>12, <1>13,
     <1>14, <1>15, <1>16, <1>17, <1>18, <1>19, <1>20, <1>21, <1>22, <1>23, <1>24,
     <1>25, <1>26
  DEF Next, MainStep, CheckStep, BridgeStep

\* A plugin the loop has still to reach is left alone.
LEMMA StartStep == TypeOK /\ StartInv /\ [Next]_vars => StartInv'
<1> SUFFICES ASSUME TypeOK, StartInv, [Next]_vars PROVE StartInv'
  OBVIOUS
<1>1. ASSUME BeginInitialize
      PROVE  StartInv'
  BY <1>1 DEF BeginInitialize, TypeOK, StartInv, mainVars, pollVars, bridgeVars, PollAt
<1>2. ASSUME Run
      PROVE  StartInv'
  BY <1>2 DEF Run, TypeOK, StartInv, mainVars, pollVars, bridgeVars, PollAt
<1>3. ASSUME BeginShutdown
      PROVE  StartInv'
  BY <1>3 DEF BeginShutdown, TypeOK, StartInv, mainVars, pollVars, bridgeVars, PollAt
<1>4. ASSUME EndShutdown
      PROVE  StartInv'
  BY <1>4 DEF EndShutdown, TypeOK, StartInv, mainVars, pollVars, bridgeVars, PollAt
<1>5. ASSUME Exit
      PROVE  StartInv'
  BY <1>5 DEF Exit, TypeOK, StartInv, mainVars, pollVars, bridgeVars, PollAt
<1>6. ASSUME Signal
      PROVE  StartInv'
  BY <1>6 DEF Signal, TypeOK, StartInv, mainVars, pollVars, bridgeVars, PollAt
<1>7. ASSUME ServerFails
      PROVE  StartInv'
  BY <1>7 DEF ServerFails, TypeOK, StartInv, mainVars, pollVars, bridgeVars, PollAt
<1>8. ASSUME NEW p \in Plugins, Register(p)
      PROVE  StartInv'
  BY <1>8 DEF Register, TypeOK, StartInv, mainVars, pollVars, bridgeVars, PollAt
<1>9. ASSUME NEW p \in Plugins, Initialize(p)
      PROVE  StartInv'
  BY <1>9 DEF Initialize, TypeOK, StartInv, mainVars, pollVars, bridgeVars, PollAt
<1>10. ASSUME NEW p \in Plugins, InitializeFails(p)
      PROVE  StartInv'
  BY <1>10 DEF InitializeFails, TypeOK, StartInv, mainVars, pollVars, bridgeVars, PollAt
<1>11. ASSUME NEW p \in Plugins, Shutdown(p)
      PROVE  StartInv'
  BY <1>11 DEF Shutdown, TypeOK, StartInv, mainVars, pollVars, bridgeVars, PollAt
<1>12. ASSUME NEW p \in Plugins, FetchOk(p)
      PROVE  StartInv'
  BY <1>12 DEF FetchOk, TypeOK, StartInv, mainVars, pollVars, bridgeVars, PollAt
<1>13. ASSUME NEW p \in Plugins, FetchFails(p)
      PROVE  StartInv'
  BY <1>13 DEF FetchFails, TypeOK, StartInv, mainVars, pollVars, bridgeVars, PollAt
<1>14. ASSUME NEW p \in Plugins, BudgetOk(p)
      PROVE  StartInv'
  BY <1>14 DEF BudgetOk, TypeOK, StartInv, mainVars, pollVars, bridgeVars, PollAt
<1>15. ASSUME NEW p \in Plugins, BudgetAlert(p)
      PROVE  StartInv'
  BY <1>15 DEF BudgetAlert, TypeOK, StartInv, mainVars, pollVars, bridgeVars, PollAt
<1>16. ASSUME NEW p \in Plugins, EndScan(p)
      PROVE  StartInv'
  BY <1>16 DEF EndScan, TypeOK, StartInv, mainVars, pollVars, bridgeVars, PollAt
<1>17. ASSUME NEW p \in Plugins, Store(p)
      PROVE  StartInv'
  BY <1>17 DEF Store, TypeOK, StartInv, mainVars, pollVars, bridgeVars, PollAt
<1>18. ASSUME NEW p \in Plugins, IdleDetected(p)
      PROVE  StartInv'
  BY <1>18 DEF IdleDetected, TypeOK, StartInv, mainVars, pollVars, bridgeVars, PollAt
<1>19. ASSUME NEW p \in Plugins, NothingIdle(p)
      PROVE  StartInv'
  BY <1>19 DEF NothingIdle, TypeOK, StartInv, mainVars, pollVars, bridgeVars, PollAt
<1>20. ASSUME NEW p \in Plugins, Panic(p)
      PROVE  StartInv'
  BY <1>20 DEF Panic, TypeOK, StartInv, mainVars, pollVars, bridgeVars, PollAt
<1>21. ASSUME NEW p \in Plugins, Tick(p)
      PROVE  StartInv'
  BY <1>21 DEF Tick, TypeOK, StartInv, mainVars, pollVars, bridgeVars, PollAt
<1>22. ASSUME NEW p \in Plugins, PollExit(p)
      PROVE  StartInv'
  BY <1>22 DEF PollExit, TypeOK, StartInv, mainVars, pollVars, bridgeVars, PollAt
<1>23. ASSUME NEW p \in Plugins, Take(p)
      PROVE  StartInv'
  BY <1>23 DEF Take, TypeOK, StartInv, mainVars, pollVars, bridgeVars, PollAt
<1>24. ASSUME NEW p \in Plugins, Publish(p)
      PROVE  StartInv'
  BY <1>24 DEF Publish, TypeOK, StartInv, mainVars, pollVars, bridgeVars, PollAt
<1>25. ASSUME NEW p \in Plugins, BridgeExit(p)
      PROVE  StartInv'
  BY <1>25 DEF BridgeExit, TypeOK, StartInv, mainVars, pollVars, bridgeVars, PollAt
<1>26. CASE UNCHANGED vars
  BY <1>26 DEF TypeOK, StartInv, mainVars, pollVars, bridgeVars, PollAt, vars
<1>27. QED
  BY <1>1, <1>2, <1>3, <1>4, <1>5, <1>6, <1>7, <1>8, <1>9, <1>10, <1>11, <1>12, <1>13,
     <1>14, <1>15, <1>16, <1>17, <1>18, <1>19, <1>20, <1>21, <1>22, <1>23, <1>24,
     <1>25, <1>26
  DEF Next, MainStep, CheckStep, BridgeStep

-----------------------------------------------------------------------------
(* The bridge.                                                             *)

\* Taking an event moves it from the channel into the hand, publishing moves it on, and
\* sending appends to both sides.
LEMMA TakeSeq ==
  ASSUME NEW f \in Seq(Event), NEW q \in Seq(Event), q # <<>>
  PROVE  (f \o <<Head(q)>>) \o Tail(q) = (f \o <<>>) \o q
  OBVIOUS

LEMMA PublishSeq ==
  ASSUME NEW f \in Seq(Event), NEW h \in Event, NEW q \in Seq(Event)
  PROVE  (Append(f, h) \o <<>>) \o q = (f \o <<h>>) \o q
  OBVIOUS

LEMMA SendSeq ==
  ASSUME NEW f \in Seq(Event), NEW x \in Seq(Event), NEW q \in Seq(Event), NEW e \in Event
  PROVE  (f \o x) \o Append(q, e) = Append((f \o x) \o q, e)
  OBVIOUS

\* Only four actions touch a channel or a bridge's hand.
LEMMA BridgeFrame ==
  ASSUME [Next]_vars
  PROVE  \/ UNCHANGED <<events, sent, hand, published>>
         \/ \E p \in Plugins : BudgetAlert(p) \/ IdleDetected(p) \/ Take(p) \/ Publish(p)
<1>1. CASE UNCHANGED vars
  BY <1>1 DEF vars, bridgeVars, chanVars
<1>2. CASE MainStep \/ Signal \/ ServerFails
  BY <1>2 DEF MainStep, Signal, ServerFails, BeginInitialize, Run, BeginShutdown, EndShutdown, Exit, Register,
              Initialize, InitializeFails, Shutdown, bridgeVars, chanVars
<1>3. ASSUME NEW p \in Plugins, CheckStep(p)
      PROVE  UNCHANGED <<events, sent, hand, published>> \/ BudgetAlert(p) \/ IdleDetected(p)
  BY <1>3 DEF CheckStep, FetchOk, FetchFails, BudgetOk, EndScan, Store, NothingIdle, Panic,
              bridgeVars, chanVars
<1>4. ASSUME NEW p \in Plugins, Tick(p) \/ PollExit(p) \/ BridgeExit(p)
      PROVE  UNCHANGED <<events, sent, hand, published>>
  BY <1>4 DEF Tick, PollExit, BridgeExit, bridgeVars, chanVars
<1>5. QED
  BY <1>1, <1>2, <1>3, <1>4 DEF Next, BridgeStep

\* Every step keeps published, in hand and in the channel together what was sent.
LEMMA BridgeStepInv == TypeOK /\ HandInv /\ CheckInv /\ BridgeFaithful /\ [Next]_vars => BridgeFaithful'
<1> SUFFICES ASSUME TypeOK, HandInv, CheckInv, BridgeFaithful, [Next]_vars PROVE BridgeFaithful'
  OBVIOUS
<1>0. /\ events \in [Plugins -> Seq(Event)] /\ sent \in [Plugins -> Seq(Event)]
      /\ published \in [Plugins -> Seq(Event)] /\ hand \in [Plugins -> Event \cup {None}]
      /\ \A p \in Plugins : Hand(p) \in Seq(Event)
  <2>1. ASSUME NEW p \in Plugins PROVE Hand(p) \in Seq(Event)
    <3>1. CASE hand[p] = None
      BY <3>1 DEF Hand
    <3>2. CASE hand[p] # None
      <4>1. hand[p] \in Event
        BY <3>2 DEF TypeOK
      <4>2. QED
        BY <3>2, <4>1 DEF Hand
    <3>3. QED
      BY <3>1, <3>2
  <2>2. QED
    BY <2>1 DEF TypeOK
<1>1. CASE UNCHANGED <<events, sent, hand, published>>
  BY <1>1 DEF BridgeFaithful, Hand
<1>2. ASSUME NEW p \in Plugins, NEW e \in Event, TrySend(p, e), UNCHANGED <<hand, published>>
      PROVE  BridgeFaithful'
  <2>1. CASE UNCHANGED <<events, sent>>
    BY <1>1, <1>2, <2>1
  <2>2. CASE /\ events' = [events EXCEPT ![p] = Append(@, e)]
             /\ sent' = [sent EXCEPT ![p] = Append(@, e)]
    <3> SUFFICES ASSUME NEW q \in Plugins
                 PROVE  (published[q] \o Hand(q)) \o events'[q] = sent'[q]
      BY <1>2 DEF BridgeFaithful, Hand
    <3>1. CASE q # p
      BY <1>0, <2>2, <3>1 DEF BridgeFaithful
    <3>2. CASE q = p
      <4>1. events'[p] = Append(events[p], e) /\ sent'[p] = Append(sent[p], e)
        BY <1>0, <2>2
      <4>2. published[p] \in Seq(Event) /\ Hand(p) \in Seq(Event) /\ events[p] \in Seq(Event)
        BY <1>0
      <4>3. (published[p] \o Hand(p)) \o Append(events[p], e)
              = Append((published[p] \o Hand(p)) \o events[p], e)
        BY <4>2, SendSeq
      <4>4. QED
        BY <3>2, <4>1, <4>3 DEF BridgeFaithful
    <3>3. QED
      BY <3>1, <3>2
  <2>3. QED
    BY <1>2, <2>1, <2>2 DEF TrySend
<1>3. ASSUME NEW p \in Plugins, BudgetAlert(p)
      PROVE  BridgeFaithful'
  <2>1. [check |-> checks[p], item |-> item[p]] \in Event
    BY <1>3, SizeAssumption DEF BudgetAlert, TypeOK, CheckInv, Looking, Event
  <2>2. QED
    BY <1>2, <1>3, <2>1 DEF BudgetAlert, bridgeVars
<1>4. ASSUME NEW p \in Plugins, IdleDetected(p)
      PROVE  BridgeFaithful'
  <2>1. [check |-> checks[p], item |-> 0] \in Event
    BY <1>4, SizeAssumption DEF IdleDetected, PollAt, TypeOK, CheckInv, Event
  <2>2. QED
    BY <1>2, <1>4, <2>1 DEF IdleDetected, bridgeVars
<1>5. ASSUME NEW p \in Plugins, Take(p)
      PROVE  BridgeFaithful'
  <2> SUFFICES ASSUME NEW q \in Plugins
               PROVE  (published'[q] \o Hand(q)') \o events'[q] = sent'[q]
    BY DEF BridgeFaithful
  <2>1. CASE q # p
    BY <1>0, <1>5, <2>1 DEF Take, BridgeFaithful, Hand
  <2>2. CASE q = p
    <3>1. hand[p] = None /\ events[p] # <<>> /\ Head(events[p]) \in Event
      BY <1>0, <1>5 DEF Take, HandInv
    <3>2. /\ hand'[p] = Head(events[p]) /\ events'[p] = Tail(events[p])
          /\ published' = published /\ sent' = sent
      BY <1>0, <1>5 DEF Take
    <3>3. Hand(p) = <<>> /\ Hand(p)' = <<Head(events[p])>>
      BY <3>1, <3>2, NoneAssumption DEF Hand
    <3>4. (published[p] \o <<Head(events[p])>>) \o Tail(events[p]) = (published[p] \o <<>>) \o events[p]
      BY <1>0, <3>1, TakeSeq
    <3>5. QED
      BY <2>2, <3>2, <3>3, <3>4 DEF BridgeFaithful
  <2>3. QED
    BY <2>1, <2>2
<1>6. ASSUME NEW p \in Plugins, Publish(p)
      PROVE  BridgeFaithful'
  <2> SUFFICES ASSUME NEW q \in Plugins
               PROVE  (published'[q] \o Hand(q)') \o events'[q] = sent'[q]
    BY DEF BridgeFaithful
  <2>1. CASE q # p
    BY <1>0, <1>6, <2>1 DEF Publish, chanVars, BridgeFaithful, Hand
  <2>2. CASE q = p
    <3>1. hand[p] \in Event /\ hand[p] # None
      BY <1>6, NoneAssumption DEF Publish, HandInv
    <3>2. /\ hand'[p] = None /\ events' = events /\ sent' = sent
          /\ published'[p] = Append(published[p], hand[p])
      BY <1>0, <1>6 DEF Publish, chanVars
    <3>3. Hand(p) = <<hand[p]>> /\ Hand(p)' = <<>>
      BY <3>1, <3>2 DEF Hand
    <3>4. (Append(published[p], hand[p]) \o <<>>) \o events[p] = (published[p] \o <<hand[p]>>) \o events[p]
      <4>1. published[p] \in Seq(Event) /\ events[p] \in Seq(Event) /\ hand[p] \in Event
        BY <1>0, <3>1
      <4>2. QED
        BY <4>1, PublishSeq, Zenon
    <3>5. QED
      BY <2>2, <3>2, <3>3, <3>4 DEF BridgeFaithful
  <2>3. QED
    BY <2>1, <2>2
<1>7. QED
  BY <1>1, <1>3, <1>4, <1>5, <1>6, BridgeFrame

\* Every step keeps what was sent at most one check ahead of what is stored.
LEMMA SentStep == TypeOK /\ StartInv /\ CheckInv /\ SentInv /\ [Next]_vars => SentInv'
<1> SUFFICES ASSUME TypeOK, StartInv, CheckInv, SentInv, [Next]_vars PROVE SentInv'
  OBVIOUS
<1> USE SizeAssumption, PluginAssumption DEF Looking
<1>0. /\ sent \in [Plugins -> Seq(Event)] /\ poll \in [Plugins -> PollPc]
      /\ \A p \in Plugins : checks[p] \in Nat /\ stored[p] \in Nat
      /\ \A p \in Plugins : \A i \in DOMAIN sent[p] : sent[p][i].check \in Nat
  <2>1. ASSUME NEW p \in Plugins, NEW i \in DOMAIN sent[p] PROVE sent[p][i].check \in Nat
    <3>1. sent[p] \in Seq(Event) /\ i \in 1..Len(sent[p])
      BY <2>1, LenProperties DEF TypeOK
    <3>2. sent[p][i] \in Event
      BY <3>1, ElementOfSeq
    <3>3. QED
      BY <3>2 DEF Event
  <2>2. QED
    BY <2>1 DEF TypeOK
<1>27. ASSUME NEW p \in Plugins, NEW e \in Event, TrySend(p, e), UNCHANGED stored,
             \A q \in Plugins : Looking(q)' = Looking(q),
             e.check <= stored[p] + (IF p \in EventFirst /\ Looking(p) THEN 1 ELSE 0)
      PROVE  SentInv'
  <2>1. CASE sent' = sent
    BY <1>27, <2>1 DEF SentInv
  <2>2. CASE sent' = [sent EXCEPT ![p] = Append(@, e)]
    <3>1. \A i \in DOMAIN sent'[p] : (i \in DOMAIN sent[p] /\ sent'[p][i] = sent[p][i]) \/ sent'[p][i] = e
      BY <1>0, <2>2, AppendProperties, LenProperties
    <3>2. \A q \in Plugins : q # p => sent'[q] = sent[q]
      BY <1>0, <2>2
    <3>3. QED
      BY <1>27, <3>1, <3>2 DEF SentInv
  <2>3. QED
    BY <1>27, <2>1, <2>2 DEF TrySend
<1>1. ASSUME BeginInitialize
      PROVE  SentInv'
  BY <1>1, <1>0 DEF BeginInitialize, PollPc, SentInv, CheckInv, StartInv, pollVars,
     chanVars, PollAt
<1>2. ASSUME Run
      PROVE  SentInv'
  BY <1>2, <1>0 DEF Run, PollPc, SentInv, CheckInv, StartInv, pollVars, chanVars, PollAt
<1>3. ASSUME BeginShutdown
      PROVE  SentInv'
  BY <1>3, <1>0 DEF BeginShutdown, PollPc, SentInv, CheckInv, StartInv, pollVars,
     chanVars, PollAt
<1>4. ASSUME EndShutdown
      PROVE  SentInv'
  BY <1>4, <1>0 DEF EndShutdown, PollPc, SentInv, CheckInv, StartInv, pollVars,
     chanVars, PollAt
<1>5. ASSUME Exit
      PROVE  SentInv'
  BY <1>5, <1>0 DEF Exit, PollPc, SentInv, CheckInv, StartInv, pollVars, chanVars,
     PollAt
<1>6. ASSUME Signal
      PROVE  SentInv'
  BY <1>6, <1>0 DEF Signal, PollPc, SentInv, CheckInv, StartInv, pollVars, chanVars,
     PollAt
<1>7. ASSUME ServerFails
      PROVE  SentInv'
  BY <1>7, <1>0 DEF ServerFails, PollPc, SentInv, CheckInv, StartInv, pollVars, chanVars,
     PollAt
<1>8. ASSUME NEW p \in Plugins, Register(p)
      PROVE  SentInv'
  BY <1>8, <1>0 DEF Register, PollPc, SentInv, CheckInv, StartInv, pollVars, chanVars,
     PollAt
<1>9. ASSUME NEW p \in Plugins, Initialize(p)
      PROVE  SentInv'
  BY <1>9, <1>0 DEF Initialize, PollPc, SentInv, CheckInv, StartInv, pollVars, chanVars,
     PollAt
<1>10. ASSUME NEW p \in Plugins, InitializeFails(p)
      PROVE  SentInv'
  BY <1>10, <1>0 DEF InitializeFails, PollPc, SentInv, CheckInv, StartInv, pollVars,
     chanVars, PollAt
<1>11. ASSUME NEW p \in Plugins, Shutdown(p)
      PROVE  SentInv'
  BY <1>11, <1>0 DEF Shutdown, PollPc, SentInv, CheckInv, StartInv, pollVars, chanVars,
     PollAt
<1>12. ASSUME NEW p \in Plugins, FetchOk(p)
      PROVE  SentInv'
  BY <1>12, <1>0 DEF FetchOk, PollPc, SentInv, CheckInv, StartInv, pollVars, chanVars,
     PollAt
<1>13. ASSUME NEW p \in Plugins, FetchFails(p)
      PROVE  SentInv'
  BY <1>13, <1>0 DEF FetchFails, PollPc, SentInv, CheckInv, StartInv, pollVars,
     chanVars, PollAt
<1>14. ASSUME NEW p \in Plugins, BudgetOk(p)
      PROVE  SentInv'
  BY <1>14, <1>0 DEF BudgetOk, PollPc, SentInv, CheckInv, StartInv, pollVars, chanVars,
     PollAt
<1>15. ASSUME NEW p \in Plugins, BudgetAlert(p)
      PROVE  SentInv'
  <2>1. [check |-> checks[p], item |-> item[p]] \in Event
    BY <1>15 DEF BudgetAlert, TypeOK, CheckInv, Event
  <2>2. checks[p] <= stored[p] + (IF p \in EventFirst /\ Looking(p) THEN 1 ELSE 0)
    BY <1>0, <1>15 DEF BudgetAlert, CheckInv
  <2>3. stored' = stored /\ poll' = poll
    BY <1>15 DEF BudgetAlert
  <2>4. QED
    BY <1>27, <1>15, <2>1, <2>2, <2>3 DEF BudgetAlert
<1>16. ASSUME NEW p \in Plugins, EndScan(p)
      PROVE  SentInv'
  BY <1>16, <1>0 DEF EndScan, PollPc, SentInv, CheckInv, StartInv, pollVars, chanVars,
     PollAt
<1>17. ASSUME NEW p \in Plugins, Store(p)
      PROVE  SentInv'
  <2>1. /\ stored' = [stored EXCEPT ![p] = checks[p]] /\ checks[p] = stored[p] + 1 /\ sent' = sent
        /\ ~Looking(p)' /\ \A q \in Plugins : q # p => Looking(q)' = Looking(q) /\ stored'[q] = stored[q]
        /\ stored'[p] = checks[p]
    BY <1>0, <1>17 DEF Store, PollAt, PollPc, CheckInv, chanVars, TypeOK
  <2>2. QED
    BY <1>0, <2>1 DEF SentInv
<1>18. ASSUME NEW p \in Plugins, IdleDetected(p)
      PROVE  SentInv'
  <2>1. [check |-> checks[p], item |-> 0] \in Event
    BY <1>18 DEF IdleDetected, PollAt, TypeOK, CheckInv, Event
  <2>2. checks[p] <= stored[p] + (IF p \in EventFirst /\ Looking(p) THEN 1 ELSE 0)
    BY <1>0, <1>18 DEF IdleDetected, PollAt, CheckInv
  <2>3. stored' = stored /\ \A q \in Plugins : Looking(q)' = Looking(q)
    BY <1>0, <1>18 DEF IdleDetected, PollAt, PollPc
  <2>4. QED
    BY <1>27, <1>18, <2>1, <2>2, <2>3 DEF IdleDetected
<1>19. ASSUME NEW p \in Plugins, NothingIdle(p)
      PROVE  SentInv'
  BY <1>19, <1>0 DEF NothingIdle, PollPc, SentInv, CheckInv, StartInv, pollVars,
     chanVars, PollAt
<1>20. ASSUME NEW p \in Plugins, Panic(p)
      PROVE  SentInv'
  BY <1>20, <1>0 DEF Panic, PollPc, SentInv, CheckInv, StartInv, pollVars, chanVars,
     PollAt
<1>21. ASSUME NEW p \in Plugins, Tick(p)
      PROVE  SentInv'
  BY <1>21, <1>0 DEF Tick, PollPc, SentInv, CheckInv, StartInv, pollVars, chanVars,
     PollAt
<1>22. ASSUME NEW p \in Plugins, PollExit(p)
      PROVE  SentInv'
  BY <1>22, <1>0 DEF PollExit, PollPc, SentInv, CheckInv, StartInv, pollVars, chanVars,
     PollAt
<1>23. ASSUME NEW p \in Plugins, Take(p)
      PROVE  SentInv'
  BY <1>23, <1>0 DEF Take, PollPc, SentInv, CheckInv, StartInv, pollVars, chanVars,
     PollAt
<1>24. ASSUME NEW p \in Plugins, Publish(p)
      PROVE  SentInv'
  BY <1>24, <1>0 DEF Publish, PollPc, SentInv, CheckInv, StartInv, pollVars, chanVars,
     PollAt
<1>25. ASSUME NEW p \in Plugins, BridgeExit(p)
      PROVE  SentInv'
  BY <1>25, <1>0 DEF BridgeExit, PollPc, SentInv, CheckInv, StartInv, pollVars,
     chanVars, PollAt
<1>26. CASE UNCHANGED vars
  BY <1>26, <1>0 DEF PollPc, SentInv, CheckInv, StartInv, pollVars, chanVars, PollAt, vars
<1>28. QED
  BY <1>1, <1>2, <1>3, <1>4, <1>5, <1>6, <1>7, <1>8, <1>9, <1>10, <1>11, <1>12, <1>13,
     <1>14, <1>15, <1>16, <1>17, <1>18, <1>19, <1>20, <1>21, <1>22, <1>23, <1>24,
     <1>25, <1>26
  DEF Next, MainStep, CheckStep, BridgeStep

-----------------------------------------------------------------------------

\* The invariant holds in every reachable state.
THEOREM Invariance == Spec => []IInv
<1>1. Init => IInv
  <2> SUFFICES ASSUME Init PROVE IInv
    OBVIOUS
  <2>1. TypeOK
    <3>1. /\ events \in [Plugins -> Seq(Event)] /\ sent \in [Plugins -> Seq(Event)]
          /\ published \in [Plugins -> Seq(Event)]
      BY DEF Init
    <3>2. 0 \in 0..Items /\ 0 \in 0..MaxChecks
      BY SizeAssumption
    <3>3. QED
      BY <3>1, <3>2 DEF Init, TypeOK, MainPc, PollPc, BridgePc
  <2>2. HandInv
    BY NoneAssumption DEF Init, HandInv
  <2>3. BridgeFaithful
    <3>1. (<<>> \o <<>>) \o <<>> = <<>>
      BY ConcatEmptySeq, EmptySeq
    <3>2. QED
      BY <3>1 DEF Init, BridgeFaithful, Hand
  <2>4. StartInv /\ CheckInv /\ SentInv
    BY DEF Init, StartInv, CheckInv, Looking, SentInv
  <2>5. QED
    BY <2>1, <2>2, <2>3, <2>4 DEF IInv
<1>2. IInv /\ [Next]_vars => IInv'
  BY TypeStep, StartStep, HandStep, CheckStepInv, BridgeStepInv, SentStep DEF IInv
<1>3. QED
  BY <1>1, <1>2, PTL DEF Spec

\* All values are well-typed.
THEOREM TypeCorrect == Spec => []TypeOK
BY Invariance, PTL DEF IInv

\* The bridge loses, repeats and reorders nothing, not even while the plugins shut down.
THEOREM BridgeIsFaithful == Spec => []BridgeFaithful
BY Invariance, PTL DEF IInv

\* What was published is a beginning of what was sent, so it announces no check that is
\* more than one ahead of the stored one, and none ahead for a store-first plugin.
THEOREM AnnouncementsAreStored == Spec => []AnnouncedIsStored
<1>1. IInv => AnnouncedIsStored
  <2> SUFFICES ASSUME IInv, NEW p \in Plugins, NEW i \in DOMAIN published[p]
               PROVE  published[p][i].check <= stored[p] + (IF p \in EventFirst THEN 1 ELSE 0)
    BY DEF AnnouncedIsStored, Execute, HandleStatus, HandleRecommendations
  <2> USE DEF IInv
  <2>1. /\ published[p] \in Seq(Event) /\ events[p] \in Seq(Event) /\ Hand(p) \in Seq(Event)
        /\ i \in 1..Len(published[p])
    <3>1. Hand(p) \in Seq(Event)
      <4>1. CASE hand[p] = None
        BY <4>1 DEF Hand
      <4>2. CASE hand[p] # None
        <5>1. hand[p] \in Event
          BY <4>2 DEF TypeOK
        <5>2. QED
          BY <4>2, <5>1 DEF Hand
      <4>3. QED
        BY <4>1, <4>2
    <3>2. published[p] \in Seq(Event) /\ events[p] \in Seq(Event)
      BY DEF TypeOK
    <3>3. QED
      BY <3>1, <3>2, LenProperties
  <2>2. i \in DOMAIN sent[p] /\ sent[p][i] = published[p][i]
    <3>1. sent[p] = (published[p] \o Hand(p)) \o events[p]
      BY DEF BridgeFaithful
    <3>2. /\ i \in DOMAIN ((published[p] \o Hand(p)) \o events[p])
          /\ ((published[p] \o Hand(p)) \o events[p])[i] = published[p][i]
      <4> DEFINE u == published[p] \o Hand(p)
      <4>1. u \in Seq(Event) /\ i \in 1..Len(u) /\ u[i] = published[p][i]
        BY <2>1, ConcatProperties, LenProperties
      <4>2. u \o events[p] \in Seq(Event) /\ i \in 1..Len(u \o events[p]) /\ (u \o events[p])[i] = u[i]
        <5> HIDE DEF u
        <5>1. QED
          BY <2>1, <4>1, ConcatProperties, LenProperties
      <4>3. QED
        BY <4>1, <4>2, LenProperties
    <3>3. QED
      BY <3>1, <3>2
  <2>3. sent[p][i].check \in Nat /\ stored[p] \in Nat
    <3>1. published[p][i] \in Event
      BY <2>1, ElementOfSeq
    <3>2. QED
      BY <2>2, <3>1, SizeAssumption DEF Event, TypeOK
  <2>4. QED
    BY <2>2, <2>3 DEF SentInv
<1>2. QED
  BY Invariance, <1>1, PTL

-----------------------------------------------------------------------------
(* The end.                                                                *)

\* Channels are closed by ShutdownAll alone, after the signal and one by one; main is past it
\* only with all of them closed.
ShutInv ==
    /\ \A p \in Plugins : closed[p] =>
          signalled /\ main \in {"shutdown", "server", "stopped", "failed"}
    /\ main \in {"shutdown", "server", "stopped"} => signalled
    /\ main # "register" => registered = Plugins
    /\ main = "shutdown" => \A p \in registered : p \in left \/ closed[p]
    /\ main \in {"server", "stopped"} => \A p \in registered : closed[p]
    /\ panicked => /\ main \in {"shutdown", "server"}
                   /\ \E p \in Plugins : closed[p] /\ poll[p] \in {"scan", "send"}
    /\ \A p \in Plugins :
        /\ bridge[p] = "exited" => signalled
        /\ bridge[p] = "off" => poll[p] = "off" /\ sent[p] = <<>> /\ published[p] = <<>>

LEMMA ShutStep == TypeOK /\ ShutInv /\ ~Ended /\ [Next]_vars => ShutInv'
<1> SUFFICES ASSUME TypeOK, ShutInv, ~Ended, [Next]_vars PROVE ShutInv'
  OBVIOUS
<1>1. ASSUME BeginInitialize PROVE ShutInv'
  BY <1>1 DEF BeginInitialize, TypeOK, ShutInv, Ended, mainVars, pollVars, bridgeVars, chanVars
<1>2. ASSUME Run PROVE ShutInv'
  BY <1>2 DEF Run, TypeOK, ShutInv, Ended, mainVars, pollVars, bridgeVars, chanVars
<1>3. ASSUME BeginShutdown PROVE ShutInv'
  BY <1>3 DEF BeginShutdown, TypeOK, ShutInv, Ended, mainVars, pollVars, bridgeVars, chanVars
<1>4. ASSUME EndShutdown PROVE ShutInv'
  BY <1>4 DEF EndShutdown, TypeOK, ShutInv, Ended, mainVars, pollVars, bridgeVars, chanVars
<1>5. ASSUME Exit PROVE ShutInv'
  BY <1>5 DEF Exit, TypeOK, ShutInv, Ended, mainVars, pollVars, bridgeVars, chanVars
<1>6. ASSUME Signal PROVE ShutInv'
  BY <1>6 DEF Signal, TypeOK, ShutInv, Ended, mainVars, pollVars, bridgeVars, chanVars
<1>7. ASSUME ServerFails PROVE ShutInv'
  BY <1>7 DEF ServerFails, TypeOK, ShutInv, Ended, mainVars, pollVars, bridgeVars, chanVars
<1>8. ASSUME NEW p \in Plugins, Register(p) PROVE ShutInv'
  BY <1>8 DEF Register, TypeOK, ShutInv, Ended, mainVars, pollVars, bridgeVars, chanVars
<1>9. ASSUME NEW p \in Plugins, Initialize(p) PROVE ShutInv'
  BY <1>9 DEF Initialize, TypeOK, ShutInv, Ended, mainVars, pollVars, bridgeVars, chanVars
<1>10. ASSUME NEW p \in Plugins, InitializeFails(p) PROVE ShutInv'
  BY <1>10 DEF InitializeFails, TypeOK, ShutInv, Ended, mainVars, pollVars, bridgeVars, chanVars
<1>11. ASSUME NEW p \in Plugins, Shutdown(p) PROVE ShutInv'
  BY <1>11 DEF Shutdown, TypeOK, ShutInv, Ended, mainVars, pollVars, bridgeVars, chanVars
<1>12. ASSUME NEW p \in Plugins, FetchOk(p) PROVE ShutInv'
  BY <1>12 DEF FetchOk, PollAt, TypeOK, ShutInv, Ended, mainVars, pollVars, bridgeVars, chanVars
<1>13. ASSUME NEW p \in Plugins, FetchFails(p) PROVE ShutInv'
  BY <1>13 DEF FetchFails, PollAt, TypeOK, ShutInv, Ended, mainVars, pollVars, bridgeVars, chanVars
<1>14. ASSUME NEW p \in Plugins, BudgetOk(p) PROVE ShutInv'
  BY <1>14 DEF BudgetOk, TypeOK, ShutInv, Ended, mainVars, pollVars, bridgeVars, chanVars
<1>15. ASSUME NEW p \in Plugins, BudgetAlert(p) PROVE ShutInv'
  BY <1>15 DEF BudgetAlert, TrySend, TypeOK, ShutInv, Ended, mainVars, pollVars, bridgeVars, chanVars
<1>16. ASSUME NEW p \in Plugins, EndScan(p) PROVE ShutInv'
  BY <1>16 DEF EndScan, PollAt, TypeOK, ShutInv, Ended, mainVars, pollVars, bridgeVars, chanVars
<1>17. ASSUME NEW p \in Plugins, Store(p) PROVE ShutInv'
  BY <1>17 DEF Store, PollAt, TypeOK, ShutInv, Ended, mainVars, pollVars, bridgeVars, chanVars
<1>18. ASSUME NEW p \in Plugins, IdleDetected(p) PROVE ShutInv'
  BY <1>18 DEF IdleDetected, TrySend, PollAt, TypeOK, ShutInv, Ended, mainVars, pollVars, bridgeVars, chanVars
<1>19. ASSUME NEW p \in Plugins, NothingIdle(p) PROVE ShutInv'
  BY <1>19 DEF NothingIdle, PollAt, TypeOK, ShutInv, Ended, mainVars, pollVars, bridgeVars, chanVars
<1>20. ASSUME NEW p \in Plugins, Panic(p) PROVE ShutInv'
  BY <1>20 DEF Panic, TypeOK, ShutInv, Ended, mainVars, pollVars, bridgeVars, chanVars
<1>21. ASSUME NEW p \in Plugins, Tick(p) PROVE ShutInv'
  BY <1>21 DEF Tick, PollAt, TypeOK, ShutInv, Ended, mainVars, pollVars, bridgeVars, chanVars
<1>22. ASSUME NEW p \in Plugins, PollExit(p) PROVE ShutInv'
  BY <1>22 DEF PollExit, PollAt, TypeOK, ShutInv, Ended, mainVars, pollVars, bridgeVars, chanVars
<1>23. ASSUME NEW p \in Plugins, Take(p) PROVE ShutInv'
  BY <1>23 DEF Take, TypeOK, ShutInv, Ended, mainVars, pollVars, bridgeVars, chanVars
<1>24. ASSUME NEW p \in Plugins, Publish(p) PROVE ShutInv'
  BY <1>24 DEF Publish, TypeOK, ShutInv, Ended, mainVars, pollVars, bridgeVars, chanVars
<1>25. ASSUME NEW p \in Plugins, BridgeExit(p) PROVE ShutInv'
  BY <1>25 DEF BridgeExit, TypeOK, ShutInv, Ended, mainVars, pollVars, bridgeVars, chanVars
<1>26. CASE UNCHANGED vars
  BY <1>26 DEF vars, TypeOK, ShutInv, Ended, mainVars, pollVars, bridgeVars, chanVars
<1> QED
  BY <1>1, <1>2, <1>3, <1>4, <1>5, <1>6, <1>7, <1>8, <1>9, <1>10, <1>11, <1>12, <1>13,
     <1>14, <1>15, <1>16, <1>17, <1>18, <1>19, <1>20, <1>21, <1>22, <1>23, <1>24,
     <1>25, <1>26
  DEF Next, MainStep, CheckStep, BridgeStep

\* Nothing moves when the process has ended.
LEMMA ShutInvariant == Spec => []ShutInv
<1>1. Init => ShutInv
  BY DEF Init, ShutInv
<1>2. ShutInv /\ UNCHANGED vars => ShutInv'
  BY DEF ShutInv, vars, mainVars, pollVars, bridgeVars, chanVars
<1>3. IInv /\ ShutInv /\ [Next]_vars => ShutInv'
  BY <1>2, ShutStep DEF IInv, Next
<1> QED
  BY <1>1, <1>3, Invariance, PTL DEF Spec

\* The process has ended with a plugin that was not shut down.
CutShort == Ended /\ \E p \in registered : ~closed[p]

\* Of the goroutines modelled here two can cut the shutdown short: the server's by os.Exit,
\* at any time once it has started, and a poll loop by a send on a channel that ShutdownAll
\* has closed, after the signal, while it still has other plugins to shut down.
EndsInOrderOrFails ==
    CutShort => main = "failed" \/ (panicked /\ main = "shutdown" /\ signalled)

\* A process that ends by itself, with no panic and no failed server, has shut down every
\* plugin; and before the signal no plugin can end it (main.go, ShutdownAll in manager.go).
THEOREM EndsInOrderOrPanics == Spec => []EndsInOrderOrFails
<1>1. IInv /\ ShutInv => EndsInOrderOrFails
  BY DEF IInv, TypeOK, MainPc, ShutInv, EndsInOrderOrFails, CutShort, Ended
<1> QED
  BY <1>1, Invariance, ShutInvariant, PTL

\* Before the signal a bridge with events to publish is at it: none waits for anything else,
\* and none has ended, whatever became of the other plugins.
BridgeWorks ==
    \A p \in Plugins : ~signalled /\ published[p] # sent[p] =>
        bridge[p] = "publish" \/ (bridge[p] = "select" /\ events[p] # <<>>)

\* The safety half of EventsReachHub (bridgeEvents in manager.go).
THEOREM BridgesKeepWorking == Spec => []BridgeWorks
<1>1. IInv /\ ShutInv => BridgeWorks
  <2> SUFFICES ASSUME IInv, ShutInv, NEW p \in Plugins, ~signalled, published[p] # sent[p],
                      bridge[p] # "publish"
               PROVE  bridge[p] = "select" /\ events[p] # <<>>
    BY DEF BridgeWorks
  <2>1. bridge[p] = "select"
    BY DEF IInv, TypeOK, BridgePc, ShutInv
  <2>2. hand[p] = None
    BY DEF IInv, TypeOK, HandInv
  <2>3. published[p] \in Seq(Event) /\ (published[p] \o <<>>) \o events[p] = sent[p]
    BY <2>2 DEF IInv, TypeOK, BridgeFaithful, Hand
  <2>4. published[p] \o <<>> = published[p]
    BY <2>3, ConcatEmptySeq
  <2> QED
    BY <2>1, <2>3, <2>4
<1> QED
  BY <1>1, Invariance, ShutInvariant, PTL
=============================================================================
