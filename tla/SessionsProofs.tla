---------------------------- MODULE SessionsProofs ----------------------------
(***************************************************************************)
(* Proofs about Startup and Sessions, for every number of replicas,        *)
(* versions, tabs, faults and instants: what is applied and recorded,      *)
(* which process serves, and which sessions are honoured.                  *)
(***************************************************************************)
EXTENDS Sessions, TLAPS

USE VersionAssumption

-----------------------------------------------------------------------------
(* Startup.                                                                *)

\* Files before the one a loop has come to are applied, and so are those of a process that
\* is past its migrations; a version waiting for its commit is not recorded, and waits alone.
Applied == Len(schema)
LoopOK ==
    \A s \in Servers :
        /\ pc[s] \in {"loop", "exec", "record", "commit"} =>
               current[s] <= Applied /\ file[s] <= Applied + 1
        /\ pc[s] \in {"exec", "record", "commit"} => file[s] <= release[s]
        /\ pc[s] = "commit" => file[s] = Applied + 1
        /\ pc[s] \in {"auth", "serve"} => release[s] <= Applied
CommitsAlone ==
    \A s, t \in Servers : pc[s] = "commit" /\ pc[t] = "commit" /\ file[s] = file[t] => s = t

StartInv == StartTypeOK /\ AppliedOnceInOrder /\ LoopOK /\ CommitsAlone

\* The rows of a gapless table: as many as files applied, and the highest is their number.
LEMMA TableFacts ==
  ASSUME StartTypeOK, AppliedOnceInOrder
  PROVE  Applied \in 0..MaxVersion /\ HighestVersion = Applied
<1>1. Applied \in Nat /\ versions = 1..Applied /\ versions \subseteq 1..MaxVersion
  BY DEF StartTypeOK, AppliedOnceInOrder, Applied, Versions
<1>2. Applied <= MaxVersion
  BY <1>1
<1>3. CASE Applied = 0
  BY <1>1, <1>2, <1>3 DEF HighestVersion
<1>4. CASE Applied > 0
  <2>1. Applied \in versions /\ \A w \in versions : w <= Applied
    BY <1>1, <1>4
  <2>2. versions # {}
    BY <2>1
  <2>3. \A v \in versions : (\A w \in versions : w <= v) => v = Applied
    BY <1>1, <2>1
  <2>4. HighestVersion = CHOOSE v \in versions : \A w \in versions : w <= v
    BY <2>2 DEF HighestVersion
  <2> QED
    BY <1>1, <1>2, <2>1, <2>3, <2>4
<1> QED
  BY <1>1, <1>3, <1>4

LEMMA StartTypeStep ==
  ASSUME StartInv, [StartNext]_startVars PROVE StartTypeOK'
<1> USE DEF Pc, At, StartInv
<1>1. ASSUME NEW s \in Servers, NEW r \in 0..MaxVersion, Launch(s, r) PROVE StartTypeOK'
  BY <1>1 DEF Launch, StartTypeOK, database
<1>2. ASSUME NEW s \in Servers, New(s) PROVE StartTypeOK'
  BY <1>2 DEF New, StartTypeOK, database
<1>3. ASSUME NEW s \in Servers, CreateTable(s) PROVE StartTypeOK'
  BY <1>3 DEF CreateTable, StartTypeOK
<1>4. ASSUME NEW s \in Servers, MissTable(s) PROVE StartTypeOK'
  BY <1>4 DEF MissTable, StartTypeOK, database
<1>5. ASSUME NEW s \in Servers, CreateLoses(s) PROVE StartTypeOK'
  BY <1>5 DEF CreateLoses, StartTypeOK, database
<1>6. ASSUME NEW s \in Servers, ReadVersion(s) PROVE StartTypeOK'
  BY <1>6, TableFacts DEF ReadVersion, StartTypeOK, database
<1>7. ASSUME NEW s \in Servers, SkipFile(s) PROVE StartTypeOK'
  BY <1>7 DEF SkipFile, StartTypeOK, database
<1>8. ASSUME NEW s \in Servers, BeginTx(s) PROVE StartTypeOK'
  BY <1>8 DEF BeginTx, StartTypeOK, database
<1>9. ASSUME NEW s \in Servers, Exec(s) PROVE StartTypeOK'
  BY <1>9 DEF Exec, StartTypeOK, database
<1>10. ASSUME NEW s \in Servers, ExecLoses(s) PROVE StartTypeOK'
  BY <1>10 DEF ExecLoses, StartTypeOK, database
<1>11. ASSUME NEW s \in Servers, Record(s) PROVE StartTypeOK'
  BY <1>11 DEF Record, StartTypeOK, database
<1>12. ASSUME NEW s \in Servers, RecordLoses(s) PROVE StartTypeOK'
  BY <1>12 DEF RecordLoses, StartTypeOK, database
<1>13. ASSUME NEW s \in Servers, Commit(s) PROVE StartTypeOK'
  <2>1. file[s] \in 1..MaxVersion
    BY <1>13 DEF Commit, StartTypeOK, LoopOK
  <2>2. schema' \in Seq(Versions)
    BY <2>1, <1>13 DEF Commit, StartTypeOK, Versions
  <2>3. file' \in [Servers -> 1..MaxVersion + 1]
    BY <2>1, <1>13 DEF Commit, StartTypeOK
  <2>4. versions' \subseteq Versions
    BY <2>1, <1>13 DEF Commit, StartTypeOK, Versions
  <2>5. pc' \in [Servers -> Pc]
    BY <1>13 DEF Commit, StartTypeOK
  <2> QED
    BY <2>2, <2>3, <2>4, <2>5, <1>13 DEF Commit, StartTypeOK
<1>14. ASSUME NEW s \in Servers, Migrated(s) PROVE StartTypeOK'
  BY <1>14 DEF Migrated, StartTypeOK, database
<1>15. ASSUME NEW s \in Servers, NewManager(s) PROVE StartTypeOK'
  BY <1>15 DEF NewManager, StartTypeOK, database
<1>16. ASSUME NEW s \in Servers, Stop(s) PROVE StartTypeOK'
  BY <1>16 DEF Stop, StartTypeOK, database
<1>17. CASE UNCHANGED startVars
  BY <1>17 DEF startVars, StartTypeOK, database
<1> QED
  BY <1>1, <1>2, <1>3, <1>4, <1>5, <1>6, <1>7, <1>8, <1>9, <1>10, <1>11, <1>12, <1>13, <1>14,
     <1>15, <1>16, <1>17 DEF StartNext, StartStep

\* A commit appends the version that comes next, and it is the only row it adds.
LEMMA CommitNext ==
  ASSUME StartInv, NEW s \in Servers, Commit(s)
  PROVE  /\ AppliedOnceInOrder'
         /\ Applied' = Applied + 1
<1>1. file[s] = Applied + 1 /\ Applied \in Nat
  BY TableFacts DEF StartInv, LoopOK, Commit, At
<1>2. schema' = Append(schema, Applied + 1) /\ versions' = versions \cup {Applied + 1}
  BY <1>1 DEF Commit
<1>3. schema \in Seq(Nat) /\ Len(schema) = Applied
  BY DEF StartInv, StartTypeOK, Versions, Applied
<1>4. versions = 1..Applied /\ \A i \in 1..Applied : schema[i] = i
  BY DEF StartInv, AppliedOnceInOrder, Applied
<1>5. /\ Len(schema') = Applied + 1
      /\ \A i \in 1..Applied + 1 : schema'[i] = i
      /\ schema' \in Seq(Nat)
  BY <1>1, <1>2, <1>3, <1>4
<1>6. schema' = [i \in 1..Len(schema') |-> i]
  BY <1>1, <1>5
<1>7. versions' = 1..Len(schema')
  BY <1>1, <1>2, <1>4, <1>5
<1> QED
  BY <1>5, <1>6, <1>7 DEF AppliedOnceInOrder, Applied

\* Every step keeps the place of each loop in line with the files applied.
LEMMA LoopStep ==
  ASSUME StartInv, [StartNext]_startVars PROVE (LoopOK /\ CommitsAlone)'
<1>0. /\ pc \in [Servers -> Pc] /\ file \in [Servers -> Nat] /\ current \in [Servers -> Nat]
      /\ release \in [Servers -> Nat] /\ Applied \in Nat /\ LoopOK /\ CommitsAlone
  BY TableFacts DEF StartInv, StartTypeOK
<1>1. ASSUME NEW s \in Servers, NEW r \in 0..MaxVersion, Launch(s, r)
      PROVE  (LoopOK /\ CommitsAlone)'
  BY <1>0, <1>1 DEF Launch, At, database, LoopOK, CommitsAlone, Applied
<1>2. ASSUME NEW s \in Servers, New(s) PROVE (LoopOK /\ CommitsAlone)'
  BY <1>0, <1>2 DEF New, At, database, LoopOK, CommitsAlone, Applied
<1>3. ASSUME NEW s \in Servers, CreateTable(s) PROVE (LoopOK /\ CommitsAlone)'
  BY <1>0, <1>3 DEF CreateTable, At, database, LoopOK, CommitsAlone, Applied
<1>4. ASSUME NEW s \in Servers, MissTable(s) PROVE (LoopOK /\ CommitsAlone)'
  BY <1>0, <1>4 DEF MissTable, At, database, LoopOK, CommitsAlone, Applied
<1>5. ASSUME NEW s \in Servers, CreateLoses(s) PROVE (LoopOK /\ CommitsAlone)'
  BY <1>0, <1>5 DEF CreateLoses, At, database, LoopOK, CommitsAlone, Applied
<1>6. ASSUME NEW s \in Servers, ReadVersion(s) PROVE (LoopOK /\ CommitsAlone)'
  <2>1. HighestVersion = Applied
    BY TableFacts DEF StartInv
  <2> QED
    BY <1>0, <1>6, <2>1 DEF ReadVersion, At, database, LoopOK, CommitsAlone, Applied
<1>7. ASSUME NEW s \in Servers, SkipFile(s) PROVE (LoopOK /\ CommitsAlone)'
  BY <1>0, <1>7 DEF SkipFile, At, Skips, database, LoopOK, CommitsAlone, Applied
<1>8. ASSUME NEW s \in Servers, BeginTx(s) PROVE (LoopOK /\ CommitsAlone)'
  BY <1>0, <1>8 DEF BeginTx, At, Skips, database, LoopOK, CommitsAlone, Applied
<1>9. ASSUME NEW s \in Servers, Exec(s) PROVE (LoopOK /\ CommitsAlone)'
  BY <1>0, <1>9 DEF Exec, At, database, LoopOK, CommitsAlone, Applied
<1>10. ASSUME NEW s \in Servers, ExecLoses(s) PROVE (LoopOK /\ CommitsAlone)'
  BY <1>0, <1>10 DEF ExecLoses, At, database, LoopOK, CommitsAlone, Applied
<1>11. ASSUME NEW s \in Servers, Record(s) PROVE (LoopOK /\ CommitsAlone)'
  <2>1. versions = 1..Applied /\ file[s] >= 1
    BY DEF StartInv, StartTypeOK, AppliedOnceInOrder, Applied
  <2>2. file[s] = Applied + 1
    BY <1>0, <1>11, <2>1 DEF Record, At, LoopOK
  <2> QED
    BY <1>0, <1>11, <2>2 DEF Record, At, database, LoopOK, CommitsAlone, Applied
<1>12. ASSUME NEW s \in Servers, RecordLoses(s) PROVE (LoopOK /\ CommitsAlone)'
  BY <1>0, <1>12 DEF RecordLoses, At, database, LoopOK, CommitsAlone, Applied
<1>13. ASSUME NEW s \in Servers, Migrated(s) PROVE (LoopOK /\ CommitsAlone)'
  BY <1>0, <1>13 DEF Migrated, At, database, LoopOK, CommitsAlone, Applied
<1>14. ASSUME NEW s \in Servers, NewManager(s) PROVE (LoopOK /\ CommitsAlone)'
  BY <1>0, <1>14 DEF NewManager, At, database, LoopOK, CommitsAlone, Applied
<1>15. ASSUME NEW s \in Servers, Stop(s) PROVE (LoopOK /\ CommitsAlone)'
  BY <1>0, <1>15 DEF Stop, At, database, LoopOK, CommitsAlone, Applied
<1>16. ASSUME NEW s \in Servers, Commit(s) PROVE (LoopOK /\ CommitsAlone)'
  <2>1. Applied' = Applied + 1 /\ file[s] = Applied + 1
    BY <1>0, <1>16, CommitNext DEF Commit, At, LoopOK
  <2>2. LoopOK'
    BY <1>0, <1>16, <2>1 DEF Commit, At, LoopOK, CommitsAlone
  <2>3. CommitsAlone'
    BY <1>0, <1>16 DEF Commit, At, CommitsAlone
  <2> QED
    BY <2>2, <2>3
<1>17. CASE UNCHANGED startVars
  BY <1>0, <1>17 DEF startVars, database, LoopOK, CommitsAlone, Applied
<1> QED
  BY <1>1, <1>2, <1>3, <1>4, <1>5, <1>6, <1>7, <1>8, <1>9, <1>10, <1>11, <1>12, <1>13, <1>14,
     <1>15, <1>16, <1>17 DEF StartNext, StartStep

LEMMA StartInvHolds == StartSpec => []StartInv
<1>1. StartInit => StartInv
  <2> SUFFICES ASSUME StartInit PROVE StartInv
    OBVIOUS
  <2>1. StartTypeOK
    <3>1. schema \in Seq(Versions) /\ versions \subseteq Versions /\ faults \in 0..MaxFaults
      BY DEF StartInit
    <3>2. /\ pc \in [Servers -> Pc] /\ release \in [Servers -> 0..MaxVersion]
          /\ current \in [Servers -> 0..MaxVersion] /\ file \in [Servers -> 1..MaxVersion + 1]
      BY DEF StartInit, Pc
    <3>3. table \in BOOLEAN
      BY Zenon DEF StartInit
    <3> QED
      BY <3>1, <3>2, <3>3 DEF StartTypeOK
  <2>2. schema = [i \in 1..Len(schema) |-> i] /\ versions = 1..Len(schema)
    BY DEF StartInit
  <2> QED
    BY <2>1, <2>2 DEF StartInit, StartInv, AppliedOnceInOrder, LoopOK, CommitsAlone
<1>2. StartInv /\ [StartNext]_startVars => StartInv'
  <2> SUFFICES ASSUME StartInv, [StartNext]_startVars PROVE AppliedOnceInOrder'
    BY StartTypeStep, LoopStep DEF StartInv
  <2>1. CASE \E s \in Servers : Commit(s)
    BY <2>1, CommitNext
  <2>2. CASE UNCHANGED <<versions, schema>>
    BY <2>2 DEF StartInv, AppliedOnceInOrder
  <2> QED
    BY <2>1, <2>2 DEF StartNext, StartStep, Launch, New, MissTable, CreateTable, CreateLoses, ReadVersion,
       SkipFile, BeginTx, Exec, ExecLoses, Record, RecordLoses, Migrated, NewManager, Stop, startVars,
       database
<1> QED
  BY <1>1, <1>2, PTL DEF StartSpec

\* Every variable of the start of the processes keeps its type.
THEOREM StartTypeCorrect == StartSpec => []StartTypeOK
<1>1. StartInv => StartTypeOK
  BY DEF StartInv
<1> QED
  BY <1>1, StartInvHolds, PTL

\* Any number of processes that migrate one database at once, and die anywhere, apply each
\* file at most once, in order and without a gap (runMigrations in migrate.go).
THEOREM MigrationsApplyOnce == StartSpec => []AppliedOnceInOrder
<1>1. StartInv => AppliedOnceInOrder
  BY DEF StartInv
<1> QED
  BY <1>1, StartInvHolds, PTL

\* A process that serves has every migration of its image under it (main.go).
THEOREM ServingIsMigrated == StartSpec => []ServesMigrated
<1>1. StartInv => ServesMigrated
  <2> SUFFICES ASSUME StartInv, NEW s \in Servers, pc[s] \in {"auth", "serve"}
               PROVE  1..release[s] \subseteq versions
    BY DEF ServesMigrated
  <2>1. release[s] <= Applied /\ versions = 1..Applied
    BY DEF StartInv, LoopOK, AppliedOnceInOrder, Applied
  <2>2. release[s] \in Nat /\ Applied \in Nat
    BY TableFacts DEF StartInv, StartTypeOK
  <2> QED
    BY <2>1, <2>2
<1> QED
  BY <1>1, StartInvHolds, PTL

-----------------------------------------------------------------------------
(* Startup implements Rollout.                                             *)

\* A step that neither commits nor moves a replica past its migrations is not seen.
LEMMA RolloutUnseen ==
  ASSUME UNCHANGED <<schema, release, faults>>, Up' = Up
  PROVE  [Rollout!Next]_(Rollout!vars)
  BY DEF Rollout!vars

LEMMA RolloutStep == StartInv /\ [StartNext]_startVars => [Rollout!Next]_(Rollout!vars)
<1> SUFFICES ASSUME StartInv, [StartNext]_startVars PROVE [Rollout!Next]_(Rollout!vars)
  OBVIOUS
<1>0. /\ pc \in [Servers -> Pc] /\ release \in [Servers -> Nat] /\ Len(schema) \in Nat /\ LoopOK
  BY TableFacts DEF StartInv, StartTypeOK, Applied
<1>1. ASSUME NEW s \in Servers, NEW r \in 0..MaxVersion, Launch(s, r)
      PROVE  [Rollout!Next]_(Rollout!vars)
  <2>1. s \notin Up /\ Up' = Up /\ UNCHANGED <<schema, faults>>
    BY <1>0, <1>1 DEF Launch, At, Up, database
  <2>2. Rollout!Launch(s, r)
    BY <1>1, <2>1 DEF Launch, Rollout!Launch
  <2> QED
    BY <2>2 DEF Rollout!Next
<1>2. ASSUME NEW s \in Servers,
             \/ New(s) \/ MissTable(s) \/ CreateTable(s) \/ CreateLoses(s)
             \/ ReadVersion(s) \/ SkipFile(s) \/ BeginTx(s) \/ Exec(s) \/ ExecLoses(s)
             \/ Record(s) \/ RecordLoses(s)
      PROVE  [Rollout!Next]_(Rollout!vars)
  <2>1. UNCHANGED <<schema, release, faults>>
    BY <1>2 DEF New, MissTable, CreateTable, CreateLoses, ReadVersion, SkipFile, BeginTx, Exec,
       ExecLoses, Record, RecordLoses, database
  <2>2. Up' = Up
    BY <1>0, <1>2 DEF New, MissTable, CreateTable, CreateLoses, ReadVersion, SkipFile, BeginTx, Exec,
       ExecLoses, Record, RecordLoses, At, Up
  <2> QED
    BY <2>1, <2>2, RolloutUnseen
<1>3. ASSUME NEW s \in Servers, Commit(s) PROVE [Rollout!Next]_(Rollout!vars)
  <2>1. Len(schema)' = Len(schema) + 1
    BY <1>3, CommitNext DEF Applied
  <2>2. s \notin Up /\ Up' = Up /\ UNCHANGED <<release, faults>>
    BY <1>0, <1>3 DEF Commit, At, Up
  <2>3. Len(schema) < release[s]
    BY <1>0, <1>3 DEF Commit, At, LoopOK, Applied
  <2>4. Rollout!Apply(s)
    BY <2>1, <2>2, <2>3 DEF Rollout!Apply
  <2> QED
    BY <2>4 DEF Rollout!Next
<1>4. ASSUME NEW s \in Servers, Migrated(s) PROVE [Rollout!Next]_(Rollout!vars)
  <2>1. s \notin Up /\ Up' = Up \cup {s} /\ UNCHANGED <<schema, release, faults>>
    BY <1>0, <1>4 DEF Migrated, At, Up, database
  <2>2. release[s] <= Len(schema)
    <3>1. file[s] <= Len(schema) + 1 /\ file[s] > release[s] /\ file[s] \in Nat
      BY <1>0, <1>4 DEF Migrated, At, LoopOK, Applied, StartInv, StartTypeOK
    <3> QED
      BY <1>0, <3>1
  <2>3. Rollout!ComeUp(s)
    BY <2>1, <2>2 DEF Rollout!ComeUp
  <2> QED
    BY <2>3 DEF Rollout!Next
<1>5. ASSUME NEW s \in Servers, NewManager(s) PROVE [Rollout!Next]_(Rollout!vars)
  <2>1. Up' = Up /\ UNCHANGED <<schema, release, faults>>
    BY <1>0, <1>5 DEF NewManager, At, Up, database
  <2> QED
    BY <2>1, RolloutUnseen
<1>6. ASSUME NEW s \in Servers, Stop(s) PROVE [Rollout!Next]_(Rollout!vars)
  <2>1. Up' = Up \ {s} /\ UNCHANGED <<schema, release>> /\ faults' = faults + 1
    BY <1>0, <1>6 DEF Stop, Up, database
  <2>2. Rollout!Fail(s)
    BY <2>1 DEF Rollout!Fail
  <2> QED
    BY <2>2 DEF Rollout!Next
<1>7. CASE UNCHANGED startVars
  <2>1. Up' = Up /\ UNCHANGED <<schema, release, faults>>
    BY <1>7 DEF Up, startVars, database
  <2> QED
    BY <2>1, RolloutUnseen
<1> QED
  BY <1>1, <1>2, <1>3, <1>4, <1>5, <1>6, <1>7 DEF StartNext, StartStep

\* Any number of replicas that read the version once and outside of their transactions migrate
\* as if they took turns, and come up only with their image applied (runMigrations in migrate.go).
THEOREM StartImplementsRollout == StartSpec => ImplementsRollout
<1>1. StartInit => Rollout!Init
  BY DEF StartInit, Rollout!Init, Up
<1> QED
  BY <1>1, RolloutStep, StartInvHolds, PTL DEF StartSpec, ImplementsRollout, Rollout!Spec

-----------------------------------------------------------------------------
(* Sessions.                                                               *)

USE AgeAssumption, NoneAssumption

\* Every step of Sessions is, for the processes, a step of Startup or none at all.
LEMMA StepOfStartup == [Next]_vars => [StartNext]_startVars
<1> SUFFICES ASSUME [Next]_vars PROVE [StartNext]_startVars
  OBVIOUS
<1>1. ASSUME NEW s \in Servers, ServerStep(s) PROVE StartNext
  BY <1>1 DEF ServerStep, StartManager, StartNext, StartStep
<1>2. ASSUME NEW s \in Servers, StopServer(s) PROVE StartNext
  BY <1>2 DEF StopServer, StartNext
<1>3. CASE TimePasses
  BY <1>3 DEF TimePasses
<1>4. ASSUME NEW t \in Tabs, TabStep(t) PROVE UNCHANGED startVars
  BY <1>4 DEF TabStep, Receive, Reload, Request, HandleLogin, HandleLoginDisabled,
     RejectCallback, AcceptCallback, EncodeSession, FailCallback, HandleLogout
<1>5. CASE UNCHANGED vars
  BY <1>5 DEF vars
<1> QED
  BY <1>1, <1>2, <1>3, <1>4, <1>5 DEF Next

\* The processes behind a browser start as Startup says: what is proved of it holds here.
THEOREM StartsAsSpecified == Spec => StartSpec
<1>1. Init => StartInit
  BY DEF Init
<1> QED
  BY <1>1, StepOfStartup, PTL DEF Spec, StartSpec

\* The part of TypeOK that is not about the start of the processes.
BrowserTypeOK ==
    /\ auth \in {"disabled", "secret", "random"}
    /\ key \in [Servers -> Nat] /\ managers \in Nat
    /\ clock \in Time /\ tab \in [Tabs -> TabState]
    /\ flow \in [Tabs -> SignIn \cup {None}]
    /\ answer \in [Tabs -> Session \cup {None}]
    /\ stateCookie \in SignIn \cup {None}
    /\ session \in Session \cup {None}
    /\ signedIn \in Time \cup {None} /\ disturbed \subseteq Tabs

\* Cookies, sign-ins and keys keep their types.
LEMMA BrowserTypeStep ==
  ASSUME BrowserTypeOK, [Next]_vars PROVE BrowserTypeOK'
<1>1. ASSUME NEW s \in Servers, ServerStep(s) PROVE BrowserTypeOK'
  BY <1>1 DEF ServerStep, StartManager, NewManager, At, KeyOf, browserVars, tabVars, cookies,
     serverVars, BrowserTypeOK, TabState, Session, SignIn, Time
<1>2. ASSUME NEW s \in Servers, StopServer(s) PROVE BrowserTypeOK'
  BY <1>2 DEF StopServer, browserVars, tabVars, cookies, serverVars, BrowserTypeOK, TabState,
     Session, SignIn, Time
<1>3. CASE TimePasses
  BY <1>3 DEF TimePasses, browserVars, tabVars, cookies, serverVars, BrowserTypeOK, TabState,
     Session, SignIn, Time
<1>4. ASSUME NEW t \in Tabs, Receive(t) PROVE BrowserTypeOK'
  BY <1>4 DEF Receive, Show, Disturb, serverVars, BrowserTypeOK, TabState, Session, SignIn, Time
<1>5. ASSUME NEW t \in Tabs, Reload(t) PROVE BrowserTypeOK'
  BY <1>5 DEF Reload, EndFlow, cookies, serverVars, BrowserTypeOK, TabState, Session, SignIn, Time
<1>6. ASSUME NEW t \in Tabs, NEW s \in Servers, NEW path \in {"me", "data"}, Request(t, s, path)
      PROVE  BrowserTypeOK'
  BY <1>6 DEF Request, cookies, serverVars, BrowserTypeOK, TabState, Session, SignIn, Time
<1>7. ASSUME NEW t \in Tabs, NEW s \in Servers, NEW n \in States, HandleLogin(t, s, n)
      PROVE  BrowserTypeOK'
  BY <1>7 DEF HandleLogin, Show, SetState, Disturb, serverVars, BrowserTypeOK, TabState, Session,
     SignIn, Time
<1>8. ASSUME NEW t \in Tabs, NEW s \in Servers, HandleLoginDisabled(t, s) PROVE BrowserTypeOK'
  BY <1>8 DEF HandleLoginDisabled, Show, cookies, serverVars, BrowserTypeOK, TabState, Session,
     SignIn, Time
<1>9. ASSUME NEW t \in Tabs, NEW s \in Servers, RejectCallback(t, s) PROVE BrowserTypeOK'
  BY <1>9 DEF RejectCallback, Show, EndFlow, cookies, serverVars, BrowserTypeOK, TabState, Session,
     SignIn, Time
<1>10. ASSUME NEW t \in Tabs, NEW s \in Servers, AcceptCallback(t, s) PROVE BrowserTypeOK'
  BY <1>10 DEF AcceptCallback, EncodeSession, Show, EndFlow, cookies, serverVars, BrowserTypeOK,
     TabState, Session, SignIn, Time
<1>11. ASSUME NEW t \in Tabs, NEW s \in Servers, FailCallback(t, s) PROVE BrowserTypeOK'
  BY <1>11 DEF FailCallback, Show, EndFlow, cookies, serverVars, BrowserTypeOK, TabState, Session,
     SignIn, Time
<1>12. ASSUME NEW t \in Tabs, NEW s \in Servers, HandleLogout(t, s) PROVE BrowserTypeOK'
  BY <1>12 DEF HandleLogout, tabVars, serverVars, BrowserTypeOK, TabState, Session, SignIn, Time
<1>13. CASE UNCHANGED vars
  BY <1>13 DEF vars, browserVars, tabVars, cookies, serverVars, BrowserTypeOK, TabState, Session,
     SignIn, Time
<1> QED
  BY <1>1, <1>2, <1>3, <1>4, <1>5, <1>6, <1>7, <1>8, <1>9, <1>10, <1>11, <1>12, <1>13 DEF Next,
     TabStep

\* Sessions and the answers that bring them have the key of a manager that was created, the
\* configured one if there is one; the session in the browser was issued when it says.
SessionOK ==
    /\ signedIn = IF session = None THEN None ELSE session.at
    /\ auth = "secret" =>
           /\ \A s \in Servers : key[s] = 0
           /\ session # None => session.key = 0
           /\ \A t \in Tabs : answer[t] # None => answer[t].key = 0
    /\ auth # "secret" =>
           /\ \A s \in Servers : Serving(s) => key[s] \in 1..managers
           /\ session # None => session.key \in 1..managers
           /\ \A t \in Tabs : answer[t] # None => answer[t].key \in 1..managers

\* The keys stay with the sessions they signed.
LEMMA SessionStep ==
  ASSUME StartTypeOK, BrowserTypeOK, SessionOK, [Next]_vars PROVE SessionOK'
<1>1. ASSUME NEW s \in Servers, ServerStep(s) PROVE SessionOK'
  <2>1. CASE StartManager(s)
    BY <1>1, <2>1 DEF StartManager, NewManager, At, KeyOf, browserVars, tabVars, cookies,
       SessionOK, BrowserTypeOK, Serving, StartTypeOK
  <2>2. CASE pc[s] # "auth" /\ StartStep(s) /\ UNCHANGED <<serverVars, clock, browserVars>>
    <3>1. \A u \in Servers : pc'[u] = "serve" => pc[u] = "serve"
      BY <2>2 DEF StartStep, Launch, New, MissTable, CreateTable, CreateLoses, ReadVersion, SkipFile,
         BeginTx, Exec, ExecLoses, Record, RecordLoses, Commit, Migrated, NewManager, At, StartTypeOK
    <3> QED
      BY <2>2, <3>1 DEF browserVars, tabVars, cookies, serverVars, SessionOK, Serving
  <2> QED
    BY <1>1, <2>1, <2>2 DEF ServerStep
<1>2. ASSUME NEW s \in Servers, StopServer(s) PROVE SessionOK'
  BY <1>2 DEF StopServer, Stop, browserVars, tabVars, cookies, serverVars, SessionOK,
     Serving, StartTypeOK
<1>3. CASE TimePasses
  BY <1>3 DEF TimePasses, browserVars, tabVars, cookies, serverVars, startVars, SessionOK,
     BrowserTypeOK, Serving, Session, Time
<1>4. ASSUME NEW t \in Tabs, Receive(t) PROVE SessionOK'
  BY <1>4 DEF Receive, Show, Disturb, serverVars, startVars, SessionOK, BrowserTypeOK, Serving,
     Session, Time
<1>5. ASSUME NEW t \in Tabs, Reload(t) PROVE SessionOK'
  BY <1>5 DEF Reload, EndFlow, cookies, serverVars, startVars, SessionOK, BrowserTypeOK, Serving,
     Session, Time
<1>6. ASSUME NEW t \in Tabs, NEW s \in Servers, NEW path \in {"me", "data"}, Request(t, s, path)
      PROVE  SessionOK'
  BY <1>6 DEF Request, cookies, serverVars, startVars, SessionOK, BrowserTypeOK, Serving, Session,
     Time
<1>7. ASSUME NEW t \in Tabs, NEW s \in Servers, NEW n \in States, HandleLogin(t, s, n)
      PROVE  SessionOK'
  BY <1>7 DEF HandleLogin, Show, SetState, Disturb, serverVars, startVars, SessionOK,
     BrowserTypeOK, Serving, Session, Time
<1>8. ASSUME NEW t \in Tabs, NEW s \in Servers, HandleLoginDisabled(t, s) PROVE SessionOK'
  BY <1>8 DEF HandleLoginDisabled, Show, cookies, serverVars, startVars, SessionOK, BrowserTypeOK,
     Serving, Session, Time
<1>9. ASSUME NEW t \in Tabs, NEW s \in Servers, RejectCallback(t, s) PROVE SessionOK'
  BY <1>9 DEF RejectCallback, Show, EndFlow, cookies, serverVars, startVars, SessionOK,
     BrowserTypeOK, Serving, Session, Time
<1>10. ASSUME NEW t \in Tabs, NEW s \in Servers, AcceptCallback(t, s) PROVE SessionOK'
  BY <1>10 DEF AcceptCallback, EncodeSession, Show, EndFlow, cookies, serverVars, startVars, SessionOK,
     BrowserTypeOK, Serving, Session, Time
<1>11. ASSUME NEW t \in Tabs, NEW s \in Servers, FailCallback(t, s) PROVE SessionOK'
  BY <1>11 DEF FailCallback, Show, EndFlow, cookies, serverVars, startVars, SessionOK,
     BrowserTypeOK, Serving, Session, Time
<1>12. ASSUME NEW t \in Tabs, NEW s \in Servers, HandleLogout(t, s) PROVE SessionOK'
  BY <1>12 DEF HandleLogout, tabVars, serverVars, startVars, SessionOK, BrowserTypeOK, Serving,
     Session, Time
<1>13. CASE UNCHANGED vars
  BY <1>13 DEF vars, browserVars, tabVars, cookies, serverVars, startVars, SessionOK,
     BrowserTypeOK, Serving, Session, Time
<1> QED
  BY <1>1, <1>2, <1>3, <1>4, <1>5, <1>6, <1>7, <1>8, <1>9, <1>10, <1>11, <1>12, <1>13 DEF Next,
     TabStep

\* The state cookie of an undisturbed sign-in is its own.
FlowOK ==
    \A t \in Tabs : tab[t] = "idp" =>
        flow[t] \in SignIn /\ (t \notin disturbed => stateCookie = flow[t])

\* Whatever changes the state cookie disturbs the other sign-ins.
LEMMA FlowStep ==
  ASSUME BrowserTypeOK, FlowOK, [Next]_vars PROVE FlowOK'
<1>1. ASSUME NEW s \in Servers, ServerStep(s) PROVE FlowOK'
  BY <1>1 DEF ServerStep, StartManager, NewManager, At, KeyOf, browserVars, tabVars, cookies,
     serverVars, FlowOK, BrowserTypeOK, SignIn, TabState
<1>2. ASSUME NEW s \in Servers, StopServer(s) PROVE FlowOK'
  BY <1>2 DEF StopServer, browserVars, tabVars, cookies, serverVars, FlowOK, BrowserTypeOK, SignIn,
     TabState
<1>3. CASE TimePasses
  BY <1>3 DEF TimePasses, browserVars, tabVars, cookies, serverVars, FlowOK, BrowserTypeOK, SignIn,
     TabState
<1>4. ASSUME NEW t \in Tabs, Receive(t) PROVE FlowOK'
  BY <1>4 DEF Receive, Show, Disturb, serverVars, FlowOK, BrowserTypeOK, SignIn, TabState
<1>5. ASSUME NEW t \in Tabs, Reload(t) PROVE FlowOK'
  BY <1>5 DEF Reload, EndFlow, cookies, serverVars, FlowOK, BrowserTypeOK, SignIn, TabState
<1>6. ASSUME NEW t \in Tabs, NEW s \in Servers, NEW path \in {"me", "data"}, Request(t, s, path)
      PROVE  FlowOK'
  BY <1>6 DEF Request, cookies, serverVars, FlowOK, BrowserTypeOK, SignIn, TabState
<1>7. ASSUME NEW t \in Tabs, NEW s \in Servers, NEW n \in States, HandleLogin(t, s, n)
      PROVE  FlowOK'
  BY <1>7 DEF HandleLogin, Show, SetState, Disturb, serverVars, FlowOK, BrowserTypeOK, SignIn,
     TabState
<1>8. ASSUME NEW t \in Tabs, NEW s \in Servers, HandleLoginDisabled(t, s) PROVE FlowOK'
  BY <1>8 DEF HandleLoginDisabled, Show, cookies, serverVars, FlowOK, BrowserTypeOK, SignIn,
     TabState
<1>9. ASSUME NEW t \in Tabs, NEW s \in Servers, RejectCallback(t, s) PROVE FlowOK'
  BY <1>9 DEF RejectCallback, Show, EndFlow, cookies, serverVars, FlowOK, BrowserTypeOK, SignIn,
     TabState
<1>10. ASSUME NEW t \in Tabs, NEW s \in Servers, AcceptCallback(t, s) PROVE FlowOK'
  BY <1>10 DEF AcceptCallback, EncodeSession, Show, EndFlow, cookies, serverVars, FlowOK, BrowserTypeOK,
     SignIn, TabState
<1>11. ASSUME NEW t \in Tabs, NEW s \in Servers, FailCallback(t, s) PROVE FlowOK'
  BY <1>11 DEF FailCallback, Show, EndFlow, cookies, serverVars, FlowOK, BrowserTypeOK, SignIn,
     TabState
<1>12. ASSUME NEW t \in Tabs, NEW s \in Servers, HandleLogout(t, s) PROVE FlowOK'
  BY <1>12 DEF HandleLogout, tabVars, serverVars, FlowOK, BrowserTypeOK, SignIn, TabState
<1>13. CASE UNCHANGED vars
  BY <1>13 DEF vars, browserVars, tabVars, cookies, serverVars, FlowOK, BrowserTypeOK, SignIn,
     TabState
<1> QED
  BY <1>1, <1>2, <1>3, <1>4, <1>5, <1>6, <1>7, <1>8, <1>9, <1>10, <1>11, <1>12, <1>13 DEF Next,
     TabStep

LEMMA SessionsInv == Spec => [](StartTypeOK /\ BrowserTypeOK /\ SessionOK /\ FlowOK)
<1>1. Init => BrowserTypeOK /\ SessionOK /\ FlowOK
  <2> SUFFICES ASSUME Init PROVE BrowserTypeOK /\ SessionOK /\ FlowOK
    OBVIOUS
  <2>1. BrowserTypeOK
    BY DEF Init, BrowserTypeOK, TabState, Time
  <2>2. SessionOK
    BY DEF Init, StartInit, SessionOK, Serving
  <2>3. FlowOK
    BY DEF Init, FlowOK
  <2> QED
    BY <2>1, <2>2, <2>3
<1>2. StartTypeOK /\ BrowserTypeOK /\ SessionOK /\ FlowOK /\ [Next]_vars
        => (BrowserTypeOK /\ SessionOK /\ FlowOK)'
  BY BrowserTypeStep, SessionStep, FlowStep
<1> QED
  BY <1>1, <1>2, StartsAsSpecified, StartTypeCorrect, PTL DEF Spec

\* Keys, cookies, sign-ins and the processes behind them keep their types.
THEOREM TypeCorrect == Spec => []TypeOK
<1>1. StartTypeOK /\ BrowserTypeOK => TypeOK
  BY DEF BrowserTypeOK, TypeOK
<1> QED
  BY <1>1, SessionsInv, PTL

\* With a configured secret, or one process that made a key up, every replica admits a
\* session until it ends, and none admits it later (Middleware in auth.go).
THEOREM SessionsAreHonoured == Spec => []SessionHonoured
<1>1. StartTypeOK /\ BrowserTypeOK /\ SessionOK => SessionHonoured
  <2> SUFFICES ASSUME BrowserTypeOK, SessionOK, NEW s \in Servers, Serving(s), auth # "disabled"
               PROVE  /\ Valid(s) => Fresh
                      /\ Fresh /\ (auth = "secret" \/ managers = 1) => Valid(s)
    BY DEF SessionHonoured
  <2>1. CASE session = None
    BY <2>1 DEF Valid, DecodeSession, Fresh, SessionOK
  <2>2. CASE session # None
    <3>1. session \in Session /\ signedIn = session.at /\ signedIn # None
      BY <2>2 DEF BrowserTypeOK, SessionOK, Session
    <3>2. auth = "secret" \/ managers = 1 => session.key = key[s]
      BY <2>2, <3>1 DEF SessionOK, Session
    <3> QED
      BY <2>2, <3>1, <3>2 DEF Valid, DecodeSession, Fresh
  <2> QED
    BY <2>1, <2>2
<1> QED
  BY <1>1, SessionsInv, PTL

\* A callback is turned away only after another tab's sign-in, or too late (HandleCallback in
\* auth.go): restarts and other replicas are no reason.
THEOREM OnlyOverlapRejects == Spec => RejectedOnlyByOverlap
<1> DEFINE Reject == \A t \in Tabs : tab[t] = "idp" /\ tab'[t] = "rejected" =>
                         t \in disturbed \/ clock > flow[t].at + StateAge
<1>1. BrowserTypeOK /\ FlowOK /\ [Next]_vars => [Reject]_vars
  <2> SUFFICES ASSUME BrowserTypeOK, FlowOK, Next, NEW t \in Tabs,
                      tab[t] = "idp", tab'[t] = "rejected", t \notin disturbed
               PROVE  clock > flow[t].at + StateAge
    OBVIOUS
  <2>1. PICK s \in Servers : RejectCallback(t, s)
    BY DEF Next, TabStep, ServerStep, StartManager, StopServer, TimePasses, Receive, Reload,
       Request, HandleLogin, HandleLoginDisabled, RejectCallback, AcceptCallback, EncodeSession,
       FailCallback, HandleLogout, Show, browserVars, tabVars, BrowserTypeOK
  <2>2. flow[t] \in SignIn /\ stateCookie = flow[t]
    BY DEF FlowOK
  <2>3. SentState # flow[t].state /\ flow[t] # None
    BY <2>1, <2>2 DEF RejectCallback
  <2>4. ~(clock <= flow[t].at + StateAge)
    BY <2>2, <2>3 DEF SentState
  <2>5. clock \in Nat /\ flow[t].at \in Nat
    BY <2>2 DEF BrowserTypeOK, SignIn, Time
  <2> QED
    BY <2>4, <2>5
<1> QED
  BY <1>1, SessionsInv, PTL DEF Spec, RejectedOnlyByOverlap
=============================================================================
