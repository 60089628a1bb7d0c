------------------------ MODULE CostCollectionProofs ------------------------
(***************************************************************************)
(* Proofs about CostCollection, for every number of projects, sources,     *)
(* runs, faults and instants: type correctness, that deletions leave no    *)
(* orphans, that a completed collection is stored, and what the windows of *)
(* the stored collections count twice or miss.                             *)
(***************************************************************************)
EXTENDS CostCollection, TLAPS

USE SourceAssumption, SizeAssumption, NoneAssumption, NoCollectionAssumption

-----------------------------------------------------------------------------
\* The collection BeginCollect makes is well-typed.
LEMMA WindowType ==
  ASSUME TypeOK, NEW r \in Runs, NEW t \in todo[r]
  PROVE  [run |-> r, source |-> t.source, project |-> t.project,
          from |-> Window(t), to |-> clock, snap |-> t.snap, rows |-> FALSE] \in Collection
<1>1. t \in Snapshot
  BY DEF TypeOK
<1>2. Window(t) \in Int
  BY <1>1 DEF Window, Snapshot, Time, TypeOK
<1> QED
  BY <1>1, <1>2 DEF Collection, Snapshot, TypeOK

\* Type correctness is inductive as it stands.
LEMMA TypeStep ==
    TypeOK /\ [Next]_vars => TypeOK'
<1> SUFFICES ASSUME TypeOK, [Next]_vars PROVE TypeOK'
  OBVIOUS
<1>1. ASSUME NEW r \in Runs, Start(r) PROVE TypeOK'
  BY <1>1 DEF Start, Spawn, TypeOK, Time, Pc, Kinds, Snapshot, Collection, Stamp,
     env, tables, runVars, history
<1>2. ASSUME NEW r \in Runs, NEW k \in Kinds \ {"all"}, Tick(r, k) PROVE TypeOK'
  BY <1>2 DEF Tick, Spawn, TypeOK, Time, Pc, Kinds, Snapshot, Collection, Stamp,
     env, tables, runVars, history
<1>3. ASSUME TimePasses PROVE TypeOK'
  BY <1>3 DEF TimePasses, TypeOK, Time, Pc, Kinds, Snapshot, Collection, Stamp,
     env, tables, runVars, history
<1>4. ASSUME Crash PROVE TypeOK'
  <2>1. pc' \in [Runs -> Pc] /\ \A r \in Runs : pc'[r] \in {"unborn", "done"}
    BY <1>4 DEF Crash, Pc
  <2>2. faults' \in 0..MaxFaults /\ running' = FALSE
    BY <1>4 DEF Crash, Fault, TypeOK
  <2>3. /\ kind' \in [Runs -> Kinds] /\ cur' \in [Runs -> Collection \cup {None}]
        /\ time' \in [Runs -> Time \cup {Never}] /\ left' \in [Runs -> SUBSET Projects]
        /\ todo' \in [Runs -> SUBSET Snapshot]
    BY <1>4 DEF Crash, Kinds
  <2>4. UNCHANGED <<clock, projects, owner, enabled, collectedAt, records, spent, stamped,
                    announced>>
    BY <1>4 DEF Crash, tables, history
  <2> QED
    BY <2>1, <2>2, <2>3, <2>4 DEF TypeOK
<1>5. ASSUME NEW p \in Projects, CreateProject(p) PROVE TypeOK'
  BY <1>5 DEF CreateProject, Insert, TypeOK, Time, Pc, Kinds, Snapshot, Collection, Stamp,
     env, tables, runVars, history
<1>6. ASSUME NEW p \in Projects, DeleteProject(p) PROVE TypeOK'
  BY <1>6 DEF DeleteProject, DropSources, TypeOK, Time, Pc, Kinds, Snapshot, Collection,
     Stamp, env, tables, runVars, history
<1>7. ASSUME NEW s \in Sources, NEW p \in Projects, NEW e \in BOOLEAN, CreateCostSource(s, p, e)
      PROVE  TypeOK'
  BY <1>7 DEF CreateCostSource, Insert, TypeOK, Time, Pc, Kinds, Snapshot, Collection,
     Stamp, env, tables, runVars, history
<1>8. ASSUME NEW s \in Sources, DeleteCostSource(s) PROVE TypeOK'
  BY <1>8 DEF DeleteCostSource, DropSources, TypeOK, Time, Pc, Kinds, Snapshot,
     Collection, Stamp, env, tables, runVars, history
<1>9. ASSUME NEW r \in Runs, ListProjects(r) PROVE TypeOK'
  BY <1>9 DEF ListProjects, At, TypeOK, Time, Pc, Kinds, Snapshot, Collection, Stamp,
     env, tables, runVars, history
<1>10. ASSUME NEW r \in Runs, ListProjectsFails(r) PROVE TypeOK'
  BY <1>10 DEF ListProjectsFails, At, Fault, TypeOK, Time, Pc, Kinds, Snapshot,
     Collection, Stamp, env, tables, runVars, history
<1>11. ASSUME NEW r \in Runs, EndRun(r) PROVE TypeOK'
  BY <1>11 DEF EndRun, At, TypeOK, Time, Pc, Kinds, Snapshot, Collection, Stamp,
     env, tables, runVars, history
<1>12. ASSUME NEW r \in Runs, NEW p \in Projects, ListCostSources(r, p) PROVE TypeOK'
  BY <1>12 DEF ListCostSources, Read, Wanted, TypeOK, Time, Pc, Kinds, Snapshot,
     Collection, Stamp, env, tables, runVars, history
<1>13. ASSUME NEW r \in Runs, NEW p \in Projects, ListCostSourcesFails(r, p) PROVE TypeOK'
  BY <1>13 DEF ListCostSourcesFails, Fault, TypeOK, Time, Pc, Kinds, Snapshot, Collection,
     Stamp, env, tables, runVars, history
<1>14. ASSUME NEW r \in Runs, NEW t \in todo[r], SkipSource(r, t) PROVE TypeOK'
  BY <1>14 DEF SkipSource, TypeOK, Time, Pc, Kinds, Snapshot, Collection, Stamp,
     env, tables, runVars, history
<1>15. ASSUME NEW r \in Runs, NEW t \in todo[r], BeginCollect(r, t) PROVE TypeOK'
  <2> DEFINE c == [run |-> r, source |-> t.source, project |-> t.project, from |-> Window(t),
                   to |-> clock, snap |-> t.snap, rows |-> FALSE]
  <2>1. c \in Collection
    BY WindowType
  <2> HIDE DEF c
  <2>2. cur' = [cur EXCEPT ![r] = c] /\ pc' = [pc EXCEPT ![r] = "collect"]
        /\ todo' = [todo EXCEPT ![r] = @ \ {t}]
    BY <1>15 DEF BeginCollect, At, c
  <2>3. UNCHANGED <<kind, left, time, env, tables, history>>
    BY <1>15 DEF BeginCollect
  <2> QED
    BY <2>1, <2>2, <2>3 DEF TypeOK, Pc, env, tables, history
<1>16. ASSUME NEW r \in Runs, CollectFails(r) PROVE TypeOK'
  BY <1>16 DEF CollectFails, At, Drop, TypeOK, Time, Pc, Kinds, Snapshot, Collection,
     Stamp, env, tables, runVars, history
<1>17. ASSUME NEW r \in Runs, NEW rows \in BOOLEAN, CollectOk(r, rows) PROVE TypeOK'
  BY <1>17 DEF CollectOk, At, TypeOK, Time, Pc, Kinds, Snapshot, Collection, Stamp,
     env, tables, runVars, history
<1>18. ASSUME NEW r \in Runs, InsertCostRecords(r) PROVE TypeOK'
  BY <1>18 DEF InsertCostRecords, At, TypeOK, Time, Pc, Kinds, Snapshot, Collection,
     Stamp, env, tables, runVars, history
<1>19. ASSUME NEW r \in Runs, InsertFails(r) PROVE TypeOK'
  BY <1>19 DEF InsertFails, At, Drop, Fault, TypeOK, Time, Pc, Kinds, Snapshot, Collection,
     Stamp, env, tables, runVars, history
<1>20. ASSUME NEW r \in Runs, TakeTime(r) PROVE TypeOK'
  BY <1>20 DEF TakeTime, At, TypeOK, Time, Pc, Kinds, Snapshot, Collection,
     Stamp, env, tables, runVars, history
<1>21. ASSUME NEW r \in Runs, UpdateCostSourceCollectedAt(r) PROVE TypeOK'
  BY <1>21 DEF UpdateCostSourceCollectedAt, At, TypeOK, Time, Pc, Kinds, Snapshot,
     Collection, Stamp, env, tables, runVars, history
<1>22. ASSUME NEW r \in Runs, CollectedAtFails(r) PROVE TypeOK'
  BY <1>22 DEF CollectedAtFails, At, Fault, TypeOK, Time, Pc, Kinds, Snapshot, Collection,
     Stamp, env, tables, runVars, history
<1>23. ASSUME NEW r \in Runs, PublishComplete(r) PROVE TypeOK'
  BY <1>23 DEF PublishComplete, At, Drop, TypeOK, Time, Pc, Kinds, Snapshot,
     Collection, Stamp, env, tables, runVars, history
<1>24. CASE UNCHANGED vars
  BY <1>24 DEF TypeOK, Time, Pc, Kinds, Snapshot, Collection, Stamp, vars, env,
     tables, runVars, history
<1>25. ASSUME NEW r \in Runs, RunStep(r) PROVE TypeOK'
  BY <1>25, <1>9, <1>10, <1>11, <1>12, <1>13, <1>14, <1>15, <1>16, <1>17, <1>18, <1>19,
     <1>20, <1>21, <1>22, <1>23 DEF RunStep
<1>26. CASE Request
  BY <1>26, <1>5, <1>6, <1>7, <1>8 DEF Request
<1> QED
  BY <1>1, <1>2, <1>3, <1>4, <1>24, <1>25, <1>26 DEF Next

LEMMA InitType == Init => TypeOK
<1> SUFFICES ASSUME Init PROVE TypeOK
  OBVIOUS
<1>1. enabled \in [Sources -> BOOLEAN] /\ running \in BOOLEAN
  BY Zenon DEF Init
<1>2. pc \in [Runs -> Pc] /\ \A r \in Runs : pc[r] = "unborn"
  BY DEF Init, Pc
<1> QED
  BY <1>1, <1>2 DEF Init, TypeOK, Time, Kinds

\* TypeOK holds in every reachable state: the tables, the clock and the runs keep their
\* types whatever interleaves with a run (scheduler.go, sql.go).
THEOREM TypeCorrect == Spec => []TypeOK
  BY InitType, TypeStep, PTL DEF Spec

-----------------------------------------------------------------------------
(* Ids are not reused: what is known of a source that is gone stays apart  *)
(* from every source created later.                                        *)

SpentOK ==
    /\ \A s \in Sources : owner[s] # None => s \in spent
    /\ \A r \in Runs : \A t \in todo[r] : t.source \in spent
    /\ \A r \in Runs : cur[r] # None => cur[r].source \in spent
    /\ \A z \in stamped : z.of.source \in spent
    /\ \A c \in announced : c.source \in spent

LEMMA SpentStep ==
    TypeOK /\ SpentOK /\ [Next]_vars => SpentOK'
<1> SUFFICES ASSUME TypeOK, SpentOK, [Next]_vars PROVE SpentOK'
  OBVIOUS
<1>1. ASSUME NEW r \in Runs, Start(r) PROVE SpentOK'
  BY <1>1 DEF Start, Spawn, SpentOK, TypeOK, env, tables, runVars, history
<1>2. ASSUME NEW r \in Runs, NEW k \in Kinds \ {"all"}, Tick(r, k) PROVE SpentOK'
  BY <1>2 DEF Tick, Spawn, SpentOK, TypeOK, env, tables, runVars, history
<1>3. ASSUME TimePasses PROVE SpentOK'
  BY <1>3 DEF TimePasses, SpentOK, TypeOK, env, tables, runVars, history
<1>4. ASSUME Crash PROVE SpentOK'
  BY <1>4 DEF Crash, Fault, SpentOK, TypeOK, env, tables, runVars, history
<1>5. ASSUME NEW p \in Projects, CreateProject(p) PROVE SpentOK'
  BY <1>5 DEF CreateProject, Insert, SpentOK, TypeOK, env, tables, runVars, history
<1>6. ASSUME NEW p \in Projects, DeleteProject(p) PROVE SpentOK'
  BY <1>6 DEF DeleteProject, DropSources, SpentOK, TypeOK, env, tables, runVars, history
<1>7. ASSUME NEW s \in Sources, NEW p \in Projects, NEW e \in BOOLEAN, CreateCostSource(s, p, e)
      PROVE  SpentOK'
  BY <1>7 DEF CreateCostSource, Insert, SpentOK, TypeOK, env, tables, runVars, history
<1>8. ASSUME NEW s \in Sources, DeleteCostSource(s) PROVE SpentOK'
  BY <1>8 DEF DeleteCostSource, DropSources, SpentOK, TypeOK, env, tables, runVars, history
<1>9. ASSUME NEW r \in Runs, ListProjects(r) PROVE SpentOK'
  BY <1>9 DEF ListProjects, At, SpentOK, TypeOK, env, tables, runVars, history
<1>10. ASSUME NEW r \in Runs, ListProjectsFails(r) PROVE SpentOK'
  BY <1>10 DEF ListProjectsFails, At, Fault, SpentOK, TypeOK, env, tables, runVars, history
<1>11. ASSUME NEW r \in Runs, EndRun(r) PROVE SpentOK'
  BY <1>11 DEF EndRun, At, SpentOK, TypeOK, env, tables, runVars, history
<1>12. ASSUME NEW r \in Runs, NEW p \in Projects, ListCostSources(r, p) PROVE SpentOK'
  BY <1>12 DEF ListCostSources, Read, Wanted, SpentOK, TypeOK, env, tables, runVars, history
<1>13. ASSUME NEW r \in Runs, NEW p \in Projects, ListCostSourcesFails(r, p) PROVE SpentOK'
  BY <1>13 DEF ListCostSourcesFails, Fault, SpentOK, TypeOK, env, tables, runVars, history
<1>14. ASSUME NEW r \in Runs, NEW t \in todo[r], SkipSource(r, t) PROVE SpentOK'
  BY <1>14 DEF SkipSource, SpentOK, TypeOK, env, tables, runVars, history
<1>15. ASSUME NEW r \in Runs, NEW t \in todo[r], BeginCollect(r, t) PROVE SpentOK'
  <2> DEFINE c == [run |-> r, source |-> t.source, project |-> t.project, from |-> Window(t),
                   to |-> clock, snap |-> t.snap, rows |-> FALSE]
  <2>1. c.source = t.source /\ t.source \in spent
    BY DEF SpentOK
  <2> HIDE DEF c
  <2>2. cur' = [cur EXCEPT ![r] = c] /\ todo' = [todo EXCEPT ![r] = @ \ {t}]
    BY <1>15 DEF BeginCollect, c
  <2>3. UNCHANGED <<owner, spent, stamped, announced>>
    BY <1>15 DEF BeginCollect, tables, history
  <2> QED
    BY <2>1, <2>2, <2>3 DEF SpentOK, TypeOK
<1>16. ASSUME NEW r \in Runs, CollectFails(r) PROVE SpentOK'
  BY <1>16 DEF CollectFails, At, Drop, SpentOK, TypeOK, env, tables, runVars, history
<1>17. ASSUME NEW r \in Runs, NEW rows \in BOOLEAN, CollectOk(r, rows) PROVE SpentOK'
  <2>1. cur[r] \in Collection /\ cur[r].source \in spent
    BY <1>17 DEF CollectOk, At, TypeOK, SpentOK
  <2>2. PICK c \in Collection : c.source = cur[r].source /\ cur' = [cur EXCEPT ![r] = c]
    BY <1>17, <2>1 DEF CollectOk, Collection
  <2>3. UNCHANGED <<owner, spent, todo, stamped, announced>>
    BY <1>17 DEF CollectOk, tables, history
  <2> QED
    BY <2>1, <2>2, <2>3 DEF SpentOK, TypeOK
<1>18. ASSUME NEW r \in Runs, InsertCostRecords(r) PROVE SpentOK'
  BY <1>18 DEF InsertCostRecords, At, SpentOK, TypeOK, env, tables, runVars, history
<1>19. ASSUME NEW r \in Runs, InsertFails(r) PROVE SpentOK'
  BY <1>19 DEF InsertFails, At, Drop, Fault, SpentOK, TypeOK, env, tables, runVars, history
<1>20. ASSUME NEW r \in Runs, TakeTime(r) PROVE SpentOK'
  BY <1>20 DEF TakeTime, At, SpentOK, TypeOK, env, tables, runVars, history
<1>21. ASSUME NEW r \in Runs, UpdateCostSourceCollectedAt(r) PROVE SpentOK'
  BY <1>21 DEF UpdateCostSourceCollectedAt, At, SpentOK, TypeOK, env, tables, runVars,
     history
<1>22. ASSUME NEW r \in Runs, CollectedAtFails(r) PROVE SpentOK'
  BY <1>22 DEF CollectedAtFails, At, Fault, SpentOK, TypeOK, env, tables, runVars, history
<1>23. ASSUME NEW r \in Runs, PublishComplete(r) PROVE SpentOK'
  BY <1>23 DEF PublishComplete, At, Drop, SpentOK, TypeOK, env, tables, runVars, history
<1>24. CASE UNCHANGED vars
  BY <1>24 DEF SpentOK, TypeOK, vars, env, tables, runVars, history
<1>25. ASSUME NEW r \in Runs, RunStep(r) PROVE SpentOK'
  BY <1>25, <1>9, <1>10, <1>11, <1>12, <1>13, <1>14, <1>15, <1>16, <1>17, <1>18, <1>19,
     <1>20, <1>21, <1>22, <1>23 DEF RunStep
<1>26. CASE Request
  BY <1>26, <1>5, <1>6, <1>7, <1>8 DEF Request
<1> QED
  BY <1>1, <1>2, <1>3, <1>4, <1>24, <1>25, <1>26 DEF Next

\* Together with SpentOK, NoOrphans is inductive: a source is created under a fresh id, so
\* it has no record yet, and the deletions cascade.
LEMMA OrphanStep ==
    TypeOK /\ SpentOK /\ NoOrphans /\ [Next]_vars => NoOrphans'
<1> SUFFICES ASSUME TypeOK, SpentOK, NoOrphans, [Next]_vars PROVE NoOrphans'
  OBVIOUS
<1>1. ASSUME NEW r \in Runs, Start(r) PROVE NoOrphans'
  BY <1>1 DEF Start, Spawn, NoOrphans, SpentOK, TypeOK, Collection, env, tables, runVars,
     history
<1>2. ASSUME NEW r \in Runs, NEW k \in Kinds \ {"all"}, Tick(r, k) PROVE NoOrphans'
  BY <1>2 DEF Tick, Spawn, NoOrphans, SpentOK, TypeOK, Collection, env, tables, runVars,
     history
<1>3. ASSUME TimePasses PROVE NoOrphans'
  BY <1>3 DEF TimePasses, NoOrphans, SpentOK, TypeOK, Collection, env, tables, runVars,
     history
<1>4. ASSUME Crash PROVE NoOrphans'
  BY <1>4 DEF Crash, Fault, NoOrphans, SpentOK, TypeOK, Collection, env, tables, runVars,
     history
<1>5. ASSUME NEW p \in Projects, CreateProject(p) PROVE NoOrphans'
  BY <1>5 DEF CreateProject, Insert, NoOrphans, SpentOK, TypeOK, Collection, env, tables,
     runVars, history
<1>6. ASSUME NEW p \in Projects, DeleteProject(p) PROVE NoOrphans'
  BY <1>6 DEF DeleteProject, DropSources, NoOrphans, SpentOK, TypeOK, Collection, env,
     tables, runVars, history
<1>7. ASSUME NEW s \in Sources, NEW p \in Projects, NEW e \in BOOLEAN, CreateCostSource(s, p, e)
      PROVE  NoOrphans'
  BY <1>7 DEF CreateCostSource, Insert, NoOrphans, SpentOK, TypeOK, Collection, env,
     tables, runVars, history
<1>8. ASSUME NEW s \in Sources, DeleteCostSource(s) PROVE NoOrphans'
  BY <1>8 DEF DeleteCostSource, DropSources, NoOrphans, SpentOK, TypeOK, Collection, env,
     tables, runVars, history
<1>9. ASSUME NEW r \in Runs, ListProjects(r) PROVE NoOrphans'
  BY <1>9 DEF ListProjects, At, NoOrphans, SpentOK, TypeOK, Collection, env, tables,
     runVars, history
<1>10. ASSUME NEW r \in Runs, ListProjectsFails(r) PROVE NoOrphans'
  BY <1>10 DEF ListProjectsFails, At, Fault, NoOrphans, SpentOK, TypeOK, Collection, env,
     tables, runVars, history
<1>11. ASSUME NEW r \in Runs, EndRun(r) PROVE NoOrphans'
  BY <1>11 DEF EndRun, At, NoOrphans, SpentOK, TypeOK, Collection, env, tables, runVars,
     history
<1>12. ASSUME NEW r \in Runs, NEW p \in Projects, ListCostSources(r, p) PROVE NoOrphans'
  BY <1>12 DEF ListCostSources, Read, Wanted, NoOrphans, SpentOK, TypeOK, Collection, env,
     tables, runVars, history
<1>13. ASSUME NEW r \in Runs, NEW p \in Projects, ListCostSourcesFails(r, p) PROVE NoOrphans'
  BY <1>13 DEF ListCostSourcesFails, Fault, NoOrphans, SpentOK, TypeOK, Collection, env,
     tables, runVars, history
<1>14. ASSUME NEW r \in Runs, NEW t \in todo[r], SkipSource(r, t) PROVE NoOrphans'
  BY <1>14 DEF SkipSource, NoOrphans, SpentOK, TypeOK, Collection, env, tables, runVars,
     history
<1>15. ASSUME NEW r \in Runs, NEW t \in todo[r], BeginCollect(r, t) PROVE NoOrphans'
  BY <1>15 DEF BeginCollect, At, Window, NoOrphans, SpentOK, TypeOK, Collection, env,
     tables, runVars, history
<1>16. ASSUME NEW r \in Runs, CollectFails(r) PROVE NoOrphans'
  BY <1>16 DEF CollectFails, At, Drop, NoOrphans, SpentOK, TypeOK, Collection, env,
     tables, runVars, history
<1>17. ASSUME NEW r \in Runs, NEW rows \in BOOLEAN, CollectOk(r, rows) PROVE NoOrphans'
  BY <1>17 DEF CollectOk, At, NoOrphans, SpentOK, TypeOK, Collection, env, tables,
     runVars, history
<1>18. ASSUME NEW r \in Runs, InsertCostRecords(r) PROVE NoOrphans'
  BY <1>18 DEF InsertCostRecords, At, NoOrphans, SpentOK, TypeOK, Collection, env, tables,
     runVars, history
<1>19. ASSUME NEW r \in Runs, InsertFails(r) PROVE NoOrphans'
  BY <1>19 DEF InsertFails, At, Drop, Fault, NoOrphans, SpentOK, TypeOK, Collection, env,
     tables, runVars, history
<1>20. ASSUME NEW r \in Runs, TakeTime(r) PROVE NoOrphans'
  BY <1>20 DEF TakeTime, At, NoOrphans, SpentOK, TypeOK, Collection, env,
     tables, runVars, history
<1>21. ASSUME NEW r \in Runs, UpdateCostSourceCollectedAt(r) PROVE NoOrphans'
  BY <1>21 DEF UpdateCostSourceCollectedAt, At, NoOrphans, SpentOK, TypeOK, Collection,
     env, tables, runVars, history
<1>22. ASSUME NEW r \in Runs, CollectedAtFails(r) PROVE NoOrphans'
  BY <1>22 DEF CollectedAtFails, At, Fault, NoOrphans, SpentOK, TypeOK, Collection, env,
     tables, runVars, history
<1>23. ASSUME NEW r \in Runs, PublishComplete(r) PROVE NoOrphans'
  BY <1>23 DEF PublishComplete, At, Drop, NoOrphans, SpentOK, TypeOK, Collection, env,
     tables, runVars, history
<1>24. CASE UNCHANGED vars
  BY <1>24 DEF NoOrphans, SpentOK, TypeOK, Collection, vars, env, tables, runVars, history
<1>25. ASSUME NEW r \in Runs, RunStep(r) PROVE NoOrphans'
  BY <1>25, <1>9, <1>10, <1>11, <1>12, <1>13, <1>14, <1>15, <1>16, <1>17, <1>18, <1>19,
     <1>20, <1>21, <1>22, <1>23 DEF RunStep
<1>26. CASE Request
  BY <1>26, <1>5, <1>6, <1>7, <1>8 DEF Request
<1> QED
  BY <1>1, <1>2, <1>3, <1>4, <1>24, <1>25, <1>26 DEF Next

\* Deleting a project or a source leaves no record and no source behind, whatever collection
\* is under way (migrations/000001_init.up.sql, InsertCostRecords in sql.go).
THEOREM OrphansNever == Spec => []NoOrphans
<1>1. Init => TypeOK /\ SpentOK /\ NoOrphans
  BY InitType DEF Init, SpentOK, NoOrphans
<1>2. TypeOK /\ SpentOK /\ NoOrphans /\ [Next]_vars => (TypeOK /\ SpentOK /\ NoOrphans)'
  BY TypeStep, SpentStep, OrphanStep
<1> QED
  BY <1>1, <1>2, PTL DEF Spec

-----------------------------------------------------------------------------
\* What a run holds at its last two steps is stored.
InHandStored ==
    \A r \in Runs : pc[r] \in {"stamp", "update", "publish"} /\ owner[cur[r].source] # None
        => Stored(cur[r])

LEMMA InHandStep ==
    TypeOK /\ SpentOK /\ InHandStored /\ [Next]_vars => InHandStored'
<1> SUFFICES ASSUME TypeOK, SpentOK, InHandStored, [Next]_vars PROVE InHandStored'
  OBVIOUS
<1>1. ASSUME NEW r \in Runs, Start(r) PROVE InHandStored'
  BY <1>1 DEF Start, Spawn, InHandStored, SpentOK, TypeOK, Stored,
     AggregateCosts, Collection, env,
     tables, runVars, history
<1>2. ASSUME NEW r \in Runs, NEW k \in Kinds \ {"all"}, Tick(r, k) PROVE InHandStored'
  BY <1>2 DEF Tick, Spawn, InHandStored, SpentOK, TypeOK, Stored,
     AggregateCosts, Collection, env, tables,
     runVars, history
<1>3. ASSUME TimePasses PROVE InHandStored'
  BY <1>3 DEF TimePasses, InHandStored, SpentOK, TypeOK, Stored,
     AggregateCosts, Collection, env, tables,
     runVars, history
<1>4. ASSUME Crash PROVE InHandStored'
  BY <1>4 DEF Crash, Fault, InHandStored, SpentOK, TypeOK, Stored,
     AggregateCosts, Collection, env,
     tables, runVars, history
<1>5. ASSUME NEW p \in Projects, CreateProject(p) PROVE InHandStored'
  BY <1>5 DEF CreateProject, Insert, InHandStored, SpentOK, TypeOK, Stored,
     AggregateCosts, Collection,
     env, tables, runVars, history
<1>6. ASSUME NEW p \in Projects, DeleteProject(p) PROVE InHandStored'
  BY <1>6 DEF DeleteProject, DropSources, InHandStored, SpentOK, TypeOK, Stored, AggregateCosts,
     Collection, env, tables, runVars, history
<1>7. ASSUME NEW s \in Sources, NEW p \in Projects, NEW e \in BOOLEAN, CreateCostSource(s, p, e)
      PROVE  InHandStored'
  BY <1>7 DEF CreateCostSource, Insert, InHandStored, SpentOK, TypeOK, Stored,
     AggregateCosts, Collection,
     env, tables, runVars, history
<1>8. ASSUME NEW s \in Sources, DeleteCostSource(s) PROVE InHandStored'
  BY <1>8 DEF DeleteCostSource, DropSources, InHandStored, SpentOK, TypeOK, Stored,
     AggregateCosts,
     Collection, env, tables, runVars, history
<1>9. ASSUME NEW r \in Runs, ListProjects(r) PROVE InHandStored'
  BY <1>9 DEF ListProjects, At, InHandStored, SpentOK, TypeOK, Stored,
     AggregateCosts, Collection, env,
     tables, runVars, history
<1>10. ASSUME NEW r \in Runs, ListProjectsFails(r) PROVE InHandStored'
  BY <1>10 DEF ListProjectsFails, At, Fault, InHandStored, SpentOK, TypeOK, Stored,
     AggregateCosts,
     Collection, env, tables, runVars, history
<1>11. ASSUME NEW r \in Runs, EndRun(r) PROVE InHandStored'
  BY <1>11 DEF EndRun, At, InHandStored, SpentOK, TypeOK, Stored,
     AggregateCosts, Collection, env, tables,
     runVars, history
<1>12. ASSUME NEW r \in Runs, NEW p \in Projects, ListCostSources(r, p) PROVE InHandStored'
  BY <1>12 DEF ListCostSources, Read, Wanted, InHandStored, SpentOK, TypeOK, Stored,
     AggregateCosts,
     Collection, env, tables, runVars, history
<1>13. ASSUME NEW r \in Runs, NEW p \in Projects, ListCostSourcesFails(r, p) PROVE InHandStored'
  BY <1>13 DEF ListCostSourcesFails, Fault, InHandStored, SpentOK, TypeOK, Stored, AggregateCosts,
     Collection, env, tables, runVars, history
<1>14. ASSUME NEW r \in Runs, NEW t \in todo[r], SkipSource(r, t) PROVE InHandStored'
  BY <1>14 DEF SkipSource, InHandStored, SpentOK, TypeOK, Stored,
     AggregateCosts, Collection, env, tables,
     runVars, history
<1>15. ASSUME NEW r \in Runs, NEW t \in todo[r], BeginCollect(r, t) PROVE InHandStored'
  <2>1. pc' = [pc EXCEPT ![r] = "collect"] /\ UNCHANGED <<owner, records>>
    BY <1>15 DEF BeginCollect, At, tables
  <2>2. \A q \in Runs \ {r} : cur'[q] = cur[q]
    BY <1>15 DEF BeginCollect, TypeOK
  <2> QED
    BY <2>1, <2>2 DEF InHandStored, TypeOK, Stored, AggregateCosts
<1>16. ASSUME NEW r \in Runs, CollectFails(r) PROVE InHandStored'
  BY <1>16 DEF CollectFails, At, Drop, InHandStored, SpentOK, TypeOK, Stored, AggregateCosts,
     Collection, env, tables, runVars, history
<1>17. ASSUME NEW r \in Runs, NEW rows \in BOOLEAN, CollectOk(r, rows) PROVE InHandStored'
  <2>1. cur[r] \in Collection
    BY <1>17 DEF CollectOk, At, TypeOK
  <2>2. cur'[r].rows = rows /\ \A q \in Runs \ {r} : cur'[q] = cur[q]
    BY <1>17, <2>1 DEF CollectOk, TypeOK, Collection
  <2>3. pc' = [pc EXCEPT ![r] = IF rows THEN "insert" ELSE "stamp"] /\ UNCHANGED <<owner, records>>
    BY <1>17 DEF CollectOk, At, tables
  <2> QED
    BY <2>2, <2>3 DEF InHandStored, TypeOK, Stored, AggregateCosts
<1>18. ASSUME NEW r \in Runs, InsertCostRecords(r) PROVE InHandStored'
  BY <1>18 DEF InsertCostRecords, At, InHandStored, SpentOK, TypeOK, Stored,
     AggregateCosts, Collection,
     env, tables, runVars, history
<1>19. ASSUME NEW r \in Runs, InsertFails(r) PROVE InHandStored'
  BY <1>19 DEF InsertFails, At, Drop, Fault, InHandStored, SpentOK, TypeOK, Stored,
     AggregateCosts, Collection,
     env, tables, runVars, history
<1>20. ASSUME NEW r \in Runs, TakeTime(r) PROVE InHandStored'
  BY <1>20 DEF TakeTime, At, InHandStored, SpentOK, TypeOK, Stored, AggregateCosts,
     Collection, env, tables, runVars, history
<1>21. ASSUME NEW r \in Runs, UpdateCostSourceCollectedAt(r) PROVE InHandStored'
  BY <1>21 DEF UpdateCostSourceCollectedAt, At, InHandStored, SpentOK, TypeOK, Stored,
     AggregateCosts,
     Collection, env, tables, runVars, history
<1>22. ASSUME NEW r \in Runs, CollectedAtFails(r) PROVE InHandStored'
  BY <1>22 DEF CollectedAtFails, At, Fault, InHandStored, SpentOK, TypeOK, Stored, AggregateCosts,
     Collection, env, tables, runVars, history
<1>23. ASSUME NEW r \in Runs, PublishComplete(r) PROVE InHandStored'
  BY <1>23 DEF PublishComplete, At, Drop, InHandStored, SpentOK, TypeOK, Stored,
     AggregateCosts,
     Collection, env, tables, runVars, history
<1>24. CASE UNCHANGED vars
  BY <1>24 DEF InHandStored, SpentOK, TypeOK, Stored,
     AggregateCosts, Collection, vars, env, tables,
     runVars, history
<1>25. ASSUME NEW r \in Runs, RunStep(r) PROVE InHandStored'
  BY <1>25, <1>9, <1>10, <1>11, <1>12, <1>13, <1>14, <1>15, <1>16, <1>17, <1>18, <1>19,
     <1>20, <1>21, <1>22, <1>23 DEF RunStep
<1>26. CASE Request
  BY <1>26, <1>5, <1>6, <1>7, <1>8 DEF Request
<1> QED
  BY <1>1, <1>2, <1>3, <1>4, <1>24, <1>25, <1>26 DEF Next

LEMMA CompleteStep ==
    TypeOK /\ SpentOK /\ InHandStored /\ CompleteIsStored /\ [Next]_vars => CompleteIsStored'
<1> SUFFICES ASSUME TypeOK, SpentOK, InHandStored, CompleteIsStored, [Next]_vars PROVE CompleteIsStored'
  OBVIOUS
<1>1. ASSUME NEW r \in Runs, Start(r) PROVE CompleteIsStored'
  BY <1>1 DEF Start, Spawn, CompleteIsStored, InHandStored, SpentOK, TypeOK, Stored,
     AggregateCosts, env, tables, runVars, history
<1>2. ASSUME NEW r \in Runs, NEW k \in Kinds \ {"all"}, Tick(r, k) PROVE CompleteIsStored'
  BY <1>2 DEF Tick, Spawn, CompleteIsStored, InHandStored, SpentOK, TypeOK, Stored,
     AggregateCosts,
     env, tables, runVars, history
<1>3. ASSUME TimePasses PROVE CompleteIsStored'
  BY <1>3 DEF TimePasses, CompleteIsStored, InHandStored, SpentOK, TypeOK, Stored,
     AggregateCosts,
     env, tables, runVars, history
<1>4. ASSUME Crash PROVE CompleteIsStored'
  BY <1>4 DEF Crash, Fault, CompleteIsStored, InHandStored, SpentOK, TypeOK, Stored,
     AggregateCosts, env, tables, runVars, history
<1>5. ASSUME NEW p \in Projects, CreateProject(p) PROVE CompleteIsStored'
  BY <1>5 DEF CreateProject, Insert, CompleteIsStored, InHandStored, SpentOK, TypeOK,
     Stored, AggregateCosts, env, tables, runVars, history
<1>6. ASSUME NEW p \in Projects, DeleteProject(p) PROVE CompleteIsStored'
  <2> SUFFICES ASSUME NEW c \in announced, owner'[c.source] # None PROVE Stored(c)'
    BY <1>6 DEF DeleteProject, history, CompleteIsStored
  <2>1. c.source \in Sources /\ owner[c.source] # None
    BY <1>6 DEF DeleteProject, DropSources, TypeOK, Collection
  <2>2. c \in records => c \in records'
    BY <1>6, <2>1 DEF DeleteProject, DropSources
  <2> QED
    BY <2>1, <2>2 DEF CompleteIsStored, Stored, AggregateCosts
<1>7. ASSUME NEW s \in Sources, NEW p \in Projects, NEW e \in BOOLEAN, CreateCostSource(s, p, e)
      PROVE  CompleteIsStored'
  BY <1>7 DEF CreateCostSource, Insert, CompleteIsStored, InHandStored, SpentOK, TypeOK,
     Stored, AggregateCosts, env, tables, runVars, history
<1>8. ASSUME NEW s \in Sources, DeleteCostSource(s) PROVE CompleteIsStored'
  <2> SUFFICES ASSUME NEW c \in announced, owner'[c.source] # None PROVE Stored(c)'
    BY <1>8 DEF DeleteCostSource, history, CompleteIsStored
  <2>1. c.source \in Sources /\ owner[c.source] # None
    BY <1>8 DEF DeleteCostSource, DropSources, TypeOK, Collection
  <2>2. c \in records => c \in records'
    BY <1>8, <2>1 DEF DeleteCostSource, DropSources
  <2> QED
    BY <2>1, <2>2 DEF CompleteIsStored, Stored, AggregateCosts
<1>9. ASSUME NEW r \in Runs, ListProjects(r) PROVE CompleteIsStored'
  BY <1>9 DEF ListProjects, At, CompleteIsStored, InHandStored, SpentOK, TypeOK, Stored,
     AggregateCosts, env, tables, runVars, history
<1>10. ASSUME NEW r \in Runs, ListProjectsFails(r) PROVE CompleteIsStored'
  BY <1>10 DEF ListProjectsFails, At, Fault, CompleteIsStored, InHandStored, SpentOK,
     TypeOK, Stored, AggregateCosts, env, tables, runVars, history
<1>11. ASSUME NEW r \in Runs, EndRun(r) PROVE CompleteIsStored'
  BY <1>11 DEF EndRun, At, CompleteIsStored, InHandStored, SpentOK, TypeOK, Stored,
     AggregateCosts,
     env, tables, runVars, history
<1>12. ASSUME NEW r \in Runs, NEW p \in Projects, ListCostSources(r, p) PROVE CompleteIsStored'
  BY <1>12 DEF ListCostSources, Read, Wanted, CompleteIsStored, InHandStored, SpentOK,
     TypeOK, Stored, AggregateCosts, env, tables, runVars, history
<1>13. ASSUME NEW r \in Runs, NEW p \in Projects, ListCostSourcesFails(r, p) PROVE CompleteIsStored'
  BY <1>13 DEF ListCostSourcesFails, Fault, CompleteIsStored, InHandStored, SpentOK,
     TypeOK, Stored, AggregateCosts, env, tables, runVars, history
<1>14. ASSUME NEW r \in Runs, NEW t \in todo[r], SkipSource(r, t) PROVE CompleteIsStored'
  BY <1>14 DEF SkipSource, CompleteIsStored, InHandStored, SpentOK, TypeOK, Stored,
     AggregateCosts,
     env, tables, runVars, history
<1>15. ASSUME NEW r \in Runs, NEW t \in todo[r], BeginCollect(r, t) PROVE CompleteIsStored'
  BY <1>15 DEF BeginCollect, At, Window, CompleteIsStored, InHandStored, SpentOK, TypeOK,
     Stored, AggregateCosts, env, tables, runVars, history
<1>16. ASSUME NEW r \in Runs, CollectFails(r) PROVE CompleteIsStored'
  BY <1>16 DEF CollectFails, At, Drop, CompleteIsStored, InHandStored, SpentOK,
     TypeOK, Stored, AggregateCosts, env, tables, runVars, history
<1>17. ASSUME NEW r \in Runs, NEW rows \in BOOLEAN, CollectOk(r, rows) PROVE CompleteIsStored'
  BY <1>17 DEF CollectOk, At, CompleteIsStored, InHandStored, SpentOK, TypeOK, Stored,
     AggregateCosts, env, tables, runVars, history
<1>18. ASSUME NEW r \in Runs, InsertCostRecords(r) PROVE CompleteIsStored'
  BY <1>18 DEF InsertCostRecords, At, CompleteIsStored, InHandStored, SpentOK, TypeOK,
     Stored, AggregateCosts, env, tables, runVars, history
<1>19. ASSUME NEW r \in Runs, InsertFails(r) PROVE CompleteIsStored'
  BY <1>19 DEF InsertFails, At, Drop, Fault, CompleteIsStored, InHandStored, SpentOK, TypeOK,
     Stored, AggregateCosts, env, tables, runVars, history
<1>20. ASSUME NEW r \in Runs, TakeTime(r) PROVE CompleteIsStored'
  BY <1>20 DEF TakeTime, At, CompleteIsStored, InHandStored, SpentOK,
     TypeOK, Stored, AggregateCosts, env, tables, runVars, history
<1>21. ASSUME NEW r \in Runs, UpdateCostSourceCollectedAt(r) PROVE CompleteIsStored'
  BY <1>21 DEF UpdateCostSourceCollectedAt, At, CompleteIsStored, InHandStored, SpentOK,
     TypeOK, Stored, AggregateCosts, env, tables, runVars, history
<1>22. ASSUME NEW r \in Runs, CollectedAtFails(r) PROVE CompleteIsStored'
  BY <1>22 DEF CollectedAtFails, At, Fault, CompleteIsStored, InHandStored, SpentOK,
     TypeOK, Stored, AggregateCosts, env, tables, runVars, history
<1>23. ASSUME NEW r \in Runs, PublishComplete(r) PROVE CompleteIsStored'
  BY <1>23 DEF PublishComplete, At, Drop, CompleteIsStored, InHandStored, SpentOK,
     TypeOK, Stored, AggregateCosts, env, tables, runVars, history
<1>24. CASE UNCHANGED vars
  BY <1>24 DEF CompleteIsStored, InHandStored, SpentOK, TypeOK, Stored,
     AggregateCosts, vars, env,
     tables, runVars, history
<1>25. ASSUME NEW r \in Runs, RunStep(r) PROVE CompleteIsStored'
  BY <1>25, <1>9, <1>10, <1>11, <1>12, <1>13, <1>14, <1>15, <1>16, <1>17, <1>18, <1>19,
     <1>20, <1>21, <1>22, <1>23 DEF RunStep
<1>26. CASE Request
  BY <1>26, <1>5, <1>6, <1>7, <1>8 DEF Request
<1> QED
  BY <1>1, <1>2, <1>3, <1>4, <1>24, <1>25, <1>26 DEF Next

\* A collection announced as complete has its records stored, unless the source is gone:
\* the event follows the insert (collectSource in scheduler.go).
THEOREM AnnouncedIsStored == Spec => []CompleteIsStored
<1> DEFINE I == TypeOK /\ SpentOK /\ InHandStored /\ CompleteIsStored
<1>1. Init => I
  BY InitType DEF Init, SpentOK, InHandStored, CompleteIsStored
<1>2. I /\ [Next]_vars => I'
  BY TypeStep, SpentStep, InHandStep, CompleteStep
<1> QED
  BY <1>1, <1>2, PTL DEF Spec

-----------------------------------------------------------------------------
(* The windows: which collections can count a cost twice, and which        *)
(* instants can be in no window at all.                                    *)

\* Nothing a run has read or stored is from the future; a collection is read, then its window
\* ends, then the time of its stamp is taken, then the stamp is written.
ClockOK ==
    /\ \A r \in Runs : \A t \in todo[r] : t.snap <= clock
    /\ \A r \in Runs : cur[r] # None => cur[r].snap <= cur[r].to /\ cur[r].to <= clock
    /\ \A r \in Runs : time[r] # Never => time[r] <= clock
    /\ \A c \in records : c.snap <= clock
    /\ \A z \in stamped : /\ z.of.snap <= z.of.to /\ z.of.to <= z.at
                          /\ z.time <= z.at /\ z.at <= clock

\* The stamp of a step, if it writes one.
LEMMA NewStamp ==
  ASSUME TypeOK, NEW r \in Runs, UpdateCostSourceCollectedAt(r), owner[cur[r].source] # None
  PROVE  \E n \in Stamp :
             /\ n.of = cur[r] /\ n.time = time[r] /\ n.at = clock
             /\ stamped' = stamped \cup {n}
             /\ collectedAt' = [collectedAt EXCEPT ![cur[r].source] = n.time]
<1> DEFINE n == [of |-> cur[r], time |-> time[r], at |-> clock]
<1>1. cur[r] \in Collection /\ time[r] \in Time /\ clock \in Time
  BY DEF UpdateCostSourceCollectedAt, At, TypeOK
<1>2. n \in Stamp /\ n.of = cur[r] /\ n.time = time[r] /\ n.at = clock
  BY <1>1 DEF Stamp
<1>3. /\ stamped' = stamped \cup {n}
      /\ collectedAt' = [collectedAt EXCEPT ![cur[r].source] = time[r]]
  BY DEF UpdateCostSourceCollectedAt
<1> HIDE DEF n
<1> QED
  BY <1>2, <1>3

LEMMA ClockStep ==
    TypeOK /\ ClockOK /\ [Next]_vars => ClockOK'
<1> SUFFICES ASSUME TypeOK, ClockOK, [Next]_vars PROVE ClockOK'
  OBVIOUS
<1>1. ASSUME NEW r \in Runs, Start(r) PROVE ClockOK'
  BY <1>1 DEF Start, Spawn, ClockOK, TypeOK, Time, Snapshot, Collection, Stamp, env,
     tables, runVars, history
<1>2. ASSUME NEW r \in Runs, NEW k \in Kinds \ {"all"}, Tick(r, k) PROVE ClockOK'
  BY <1>2 DEF Tick, Spawn, ClockOK, TypeOK, Time, Snapshot, Collection, Stamp, env,
     tables, runVars, history
<1>3. ASSUME TimePasses PROVE ClockOK'
  BY <1>3 DEF TimePasses, ClockOK, TypeOK, Time, Snapshot, Collection, Stamp, env, tables,
     runVars, history
<1>4. ASSUME Crash PROVE ClockOK'
  BY <1>4 DEF Crash, Fault, ClockOK, TypeOK, Time, Snapshot, Collection, Stamp, env,
     tables, runVars, history
<1>5. ASSUME NEW p \in Projects, CreateProject(p) PROVE ClockOK'
  BY <1>5 DEF CreateProject, Insert, ClockOK, TypeOK, Time, Snapshot, Collection, Stamp,
     env, tables, runVars, history
<1>6. ASSUME NEW p \in Projects, DeleteProject(p) PROVE ClockOK'
  BY <1>6 DEF DeleteProject, DropSources, ClockOK, TypeOK, Time, Snapshot, Collection,
     Stamp, env, tables, runVars, history
<1>7. ASSUME NEW s \in Sources, NEW p \in Projects, NEW e \in BOOLEAN, CreateCostSource(s, p, e)
      PROVE  ClockOK'
  BY <1>7 DEF CreateCostSource, Insert, ClockOK, TypeOK, Time, Snapshot, Collection,
     Stamp, env, tables, runVars, history
<1>8. ASSUME NEW s \in Sources, DeleteCostSource(s) PROVE ClockOK'
  BY <1>8 DEF DeleteCostSource, DropSources, ClockOK, TypeOK, Time, Snapshot, Collection,
     Stamp, env, tables, runVars, history
<1>9. ASSUME NEW r \in Runs, ListProjects(r) PROVE ClockOK'
  BY <1>9 DEF ListProjects, At, ClockOK, TypeOK, Time, Snapshot, Collection, Stamp, env,
     tables, runVars, history
<1>10. ASSUME NEW r \in Runs, ListProjectsFails(r) PROVE ClockOK'
  BY <1>10 DEF ListProjectsFails, At, Fault, ClockOK, TypeOK, Time, Snapshot, Collection,
     Stamp, env, tables, runVars, history
<1>11. ASSUME NEW r \in Runs, EndRun(r) PROVE ClockOK'
  BY <1>11 DEF EndRun, At, ClockOK, TypeOK, Time, Snapshot, Collection, Stamp, env,
     tables, runVars, history
<1>12. ASSUME NEW r \in Runs, NEW p \in Projects, ListCostSources(r, p) PROVE ClockOK'
  BY <1>12 DEF ListCostSources, Read, Wanted, ClockOK, TypeOK, Time, Snapshot, Collection,
     Stamp, env, tables, runVars, history
<1>13. ASSUME NEW r \in Runs, NEW p \in Projects, ListCostSourcesFails(r, p) PROVE ClockOK'
  BY <1>13 DEF ListCostSourcesFails, Fault, ClockOK, TypeOK, Time, Snapshot, Collection,
     Stamp, env, tables, runVars, history
<1>14. ASSUME NEW r \in Runs, NEW t \in todo[r], SkipSource(r, t) PROVE ClockOK'
  BY <1>14 DEF SkipSource, ClockOK, TypeOK, Time, Snapshot, Collection, Stamp, env,
     tables, runVars, history
<1>15. ASSUME NEW r \in Runs, NEW t \in todo[r], BeginCollect(r, t) PROVE ClockOK'
  <2> DEFINE c == [run |-> r, source |-> t.source, project |-> t.project, from |-> Window(t),
                   to |-> clock, snap |-> t.snap, rows |-> FALSE]
  <2>1. c \in Collection /\ c.source = t.source /\ c.from = Window(t) /\ c.to = clock
        /\ c.snap = t.snap
    BY WindowType
  <2> HIDE DEF c
  <2>2. cur' = [cur EXCEPT ![r] = c] /\ todo' = [todo EXCEPT ![r] = @ \ {t}]
    BY <1>15 DEF BeginCollect, c
  <2>3. UNCHANGED <<clock, time, records, stamped>>
    BY <1>15 DEF BeginCollect, env, tables, history
  <2>4. t \in Snapshot
    BY DEF TypeOK
  <2> QED
    BY <2>1, <2>2, <2>3, <2>4 DEF ClockOK, TypeOK, Time, Snapshot
<1>16. ASSUME NEW r \in Runs, CollectFails(r) PROVE ClockOK'
  BY <1>16 DEF CollectFails, At, Drop, ClockOK, TypeOK, Time, Snapshot, Collection,
     Stamp, env, tables, runVars, history
<1>17. ASSUME NEW r \in Runs, NEW rows \in BOOLEAN, CollectOk(r, rows) PROVE ClockOK'
  <2>1. cur[r] \in Collection
    BY <1>17 DEF CollectOk, At, TypeOK
  <2> DEFINE c == [cur[r] EXCEPT !.rows = rows]
  <2>2. c \in Collection /\ c.source = cur[r].source /\ c.from = cur[r].from
        /\ c.to = cur[r].to /\ c.snap = cur[r].snap
    BY <2>1 DEF Collection
  <2>4. cur' = [cur EXCEPT ![r] = c]
    BY <1>17 DEF CollectOk
  <2> HIDE DEF c
  <2>3. UNCHANGED <<clock, todo, time, records, stamped>>
    BY <1>17 DEF CollectOk, env, tables, history
  <2> QED
    BY <2>1, <2>2, <2>3, <2>4 DEF ClockOK, TypeOK, Snapshot
<1>18. ASSUME NEW r \in Runs, InsertCostRecords(r) PROVE ClockOK'
  BY <1>18 DEF InsertCostRecords, At, ClockOK, TypeOK, Time, Snapshot, Collection, Stamp,
     env, tables, runVars, history
<1>19. ASSUME NEW r \in Runs, InsertFails(r) PROVE ClockOK'
  BY <1>19 DEF InsertFails, At, Drop, Fault, ClockOK, TypeOK, Time, Snapshot, Collection, Stamp,
     env, tables, runVars, history
<1>20. ASSUME NEW r \in Runs, TakeTime(r) PROVE ClockOK'
  BY <1>20 DEF TakeTime, At, ClockOK, TypeOK, Time, Snapshot, Collection,
     Stamp, env, tables, runVars, history
<1>21. ASSUME NEW r \in Runs, UpdateCostSourceCollectedAt(r) PROVE ClockOK'
  <2>0. UNCHANGED <<clock, owner, todo, cur, records>> /\ time' = [time EXCEPT ![r] = Never]
    BY <1>21 DEF UpdateCostSourceCollectedAt, env
  <2>1. CASE owner[cur[r].source] = None
    BY <1>21, <2>0, <2>1 DEF UpdateCostSourceCollectedAt, ClockOK, TypeOK
  <2>2. CASE owner[cur[r].source] # None
    <3>1. PICK n \in Stamp : /\ n.of = cur[r] /\ n.time = time[r] /\ n.at = clock
                             /\ stamped' = stamped \cup {n}
      BY <1>21, <2>2, NewStamp
    <3>2. cur[r] # None /\ time[r] # Never
      BY <1>21 DEF UpdateCostSourceCollectedAt, At, TypeOK
    <3>3. /\ n.of.snap <= n.of.to /\ n.of.to <= n.at
          /\ n.time <= n.at /\ n.at <= clock
      BY <3>1, <3>2 DEF ClockOK, Stamp, Time
    <3> QED
      BY <2>0, <3>1, <3>3 DEF ClockOK, TypeOK
  <2> QED
    BY <2>1, <2>2
<1>22. ASSUME NEW r \in Runs, CollectedAtFails(r) PROVE ClockOK'
  BY <1>22 DEF CollectedAtFails, At, Fault, ClockOK, TypeOK, Time, Snapshot, Collection,
     Stamp, env, tables, runVars, history
<1>23. ASSUME NEW r \in Runs, PublishComplete(r) PROVE ClockOK'
  BY <1>23 DEF PublishComplete, At, Drop, ClockOK, TypeOK, Time, Snapshot, Collection,
     Stamp, env, tables, runVars, history
<1>24. CASE UNCHANGED vars
  BY <1>24 DEF ClockOK, TypeOK, Time, Snapshot, Collection, Stamp, vars, env, tables,
     runVars, history
<1>25. ASSUME NEW r \in Runs, RunStep(r) PROVE ClockOK'
  BY <1>25, <1>9, <1>10, <1>11, <1>12, <1>13, <1>14, <1>15, <1>16, <1>17, <1>18, <1>19,
     <1>20, <1>21, <1>22, <1>23 DEF RunStep
<1>26. CASE Request
  BY <1>26, <1>5, <1>6, <1>7, <1>8 DEF Request
<1> QED
  BY <1>1, <1>2, <1>3, <1>4, <1>24, <1>25, <1>26 DEF Next

\* Of the collections of q's source none was stamped before q read it.
NoneSeen(S, q) == \A z \in S : z.of.source = q.source => q.snap <= z.at

\* from is the time of the last one that was.
SeenFrom(S, q, from) ==
    \E y \in S :
        /\ y.of.source = q.source /\ y.time = from /\ y.at <= q.snap
        /\ \A z \in S : z.of.source = q.source => z.at <= y.at \/ q.snap <= z.at

ReadOf(S, t) == IF t.last = Never THEN NoneSeen(S, t) ELSE SeenFrom(S, t, t.last)
BasisOf(S, c) == NoneSeen(S, c) \/ SeenFrom(S, c, c.from)

\* The window of a collection starts at the time of the last stamp its run could read.
BasisOK ==
    /\ \A r \in Runs : \A t \in todo[r] : ReadOf(stamped, t)
    /\ \A r \in Runs : cur[r] # None => BasisOf(stamped, cur[r])
    /\ \A c \in records : BasisOf(stamped, c)

LastMark(S, s, m) ==
    IF m = Never THEN \A z \in S : z.of.source # s
    ELSE \E y \in S : /\ y.of.source = s /\ y.time = m
                      /\ \A z \in S : z.of.source = s => z.at <= y.at

\* last_collected_at is the time of the stamp that was written last, not the latest time.
MarkOK == \A s \in Sources : owner[s] # None => LastMark(stamped, s, collectedAt[s])

\* A stamp that is written later changes nothing for who has read before.
LEMMA LaterStamp ==
  ASSUME NEW S, NEW n, NEW q, q.snap <= n.at
  PROVE  /\ NoneSeen(S, q) => NoneSeen(S \cup {n}, q)
         /\ \A from : SeenFrom(S, q, from) => SeenFrom(S \cup {n}, q, from)
  BY DEF NoneSeen, SeenFrom

LEMMA MarkStep ==
    TypeOK /\ SpentOK /\ NoOrphans /\ ClockOK /\ MarkOK /\ [Next]_vars => MarkOK'
<1> SUFFICES ASSUME TypeOK, SpentOK, NoOrphans, ClockOK, MarkOK, [Next]_vars PROVE MarkOK'
  OBVIOUS
<1>1. ASSUME UNCHANGED <<owner, collectedAt, stamped>> PROVE MarkOK'
  BY <1>1 DEF MarkOK
<1>2. ASSUME NEW r \in Runs, UpdateCostSourceCollectedAt(r) PROVE MarkOK'
  <2>1. CASE owner[cur[r].source] = None
    BY <1>1, <1>2, <2>1 DEF UpdateCostSourceCollectedAt
  <2>2. CASE owner[cur[r].source] # None
    <3>1. PICK n \in Stamp :
              /\ n.of = cur[r] /\ n.time = time[r] /\ n.at = clock
              /\ stamped' = stamped \cup {n}
              /\ collectedAt' = [collectedAt EXCEPT ![cur[r].source] = n.time]
      BY <1>2, <2>2, NewStamp
    <3>2. cur[r].source \in Sources /\ n.time # Never /\ owner' = owner
      BY <1>2, <3>1 DEF UpdateCostSourceCollectedAt, At, TypeOK, Collection, Stamp, Time
    <3>3. \A z \in stamped' : z.at <= n.at
      BY <3>1 DEF ClockOK, Stamp, Time
    <3>4. ASSUME NEW s \in Sources, owner[s] # None PROVE LastMark(stamped', s, collectedAt'[s])
      <4>1. CASE s = cur[r].source
        BY <3>1, <3>2, <3>3, <4>1 DEF LastMark, TypeOK
      <4>2. CASE s # cur[r].source
        <5>1. collectedAt'[s] = collectedAt[s] /\ n.of.source # s
          BY <3>1, <4>2 DEF TypeOK
        <5> QED
          BY <3>1, <3>4, <5>1 DEF MarkOK, LastMark
      <4> QED
        BY <4>1, <4>2
    <3> QED
      BY <3>2, <3>4 DEF MarkOK
  <2> QED
    BY <2>1, <2>2
<1>3. ASSUME NEW s \in Sources, NEW p \in Projects, NEW e \in BOOLEAN, CreateCostSource(s, p, e)
      PROVE  MarkOK'
  <2>1. /\ owner' = [owner EXCEPT ![s] = p] /\ UNCHANGED <<collectedAt, stamped>> /\ s \notin spent
    BY <1>3 DEF CreateCostSource, Insert, history
  <2>2. collectedAt[s] = Never /\ \A z \in stamped : z.of.source # s
    BY <2>1 DEF SpentOK, NoOrphans
  <2> QED
    BY <2>1, <2>2 DEF MarkOK, LastMark, TypeOK
<1>4. ASSUME NEW S, DropSources(S), UNCHANGED stamped PROVE MarkOK'
  BY <1>4 DEF DropSources, MarkOK
<1>5. Request => MarkOK'
  BY <1>1, <1>3, <1>4 DEF Request, CreateProject, DeleteProject, DeleteCostSource, history
<1>6. ASSUME NEW r \in Runs, RunStep(r), ~UpdateCostSourceCollectedAt(r) PROVE MarkOK'
  BY <1>1, <1>6 DEF RunStep, ListProjects, ListProjectsFails, EndRun, ListCostSources,
     ListCostSourcesFails, SkipSource, BeginCollect, CollectFails, CollectOk, InsertCostRecords,
     InsertFails, TakeTime, CollectedAtFails, PublishComplete, tables, history
<1>7. ASSUME NEW r \in Runs, Start(r) \/ \E k \in Kinds : Tick(r, k) PROVE MarkOK'
  BY <1>1, <1>7 DEF Start, Tick, Spawn, tables, history
<1>8. TimePasses \/ Crash \/ UNCHANGED vars => MarkOK'
  BY <1>1 DEF TimePasses, Crash, vars, tables, history
<1> QED
  BY <1>2, <1>5, <1>6, <1>7, <1>8 DEF Next

LEMMA BasisStep ==
    TypeOK /\ ClockOK /\ MarkOK /\ BasisOK /\ [Next]_vars => BasisOK'
<1> SUFFICES ASSUME TypeOK, ClockOK, MarkOK, BasisOK, [Next]_vars PROVE BasisOK'
  OBVIOUS
\* A step that reads, collects, stores and stamps nothing.
<1>1. ASSUME stamped' = stamped, records' \subseteq records,
             \A r \in Runs : todo'[r] \subseteq todo[r],
             \A r \in Runs : cur'[r] \in {cur[r], None}
      PROVE  BasisOK'
  BY <1>1 DEF BasisOK
<1>2. ASSUME NEW r \in Runs, NEW p \in Projects, ListCostSources(r, p) PROVE BasisOK'
  <2>1. UNCHANGED <<cur, records, stamped>> /\ todo' = [todo EXCEPT ![r] = Read(r, p)]
    BY <1>2 DEF ListCostSources, tables, history
  <2>2. ASSUME NEW t \in Read(r, p) PROVE ReadOf(stamped, t)
    <3>1. /\ t.source \in Sources /\ owner[t.source] = p /\ t.last = collectedAt[t.source]
          /\ t.snap = clock
      BY DEF Read, Wanted
    <3>2. LastMark(stamped, t.source, t.last)
      BY <3>1, NoneAssumption DEF MarkOK
    <3>3. \A z \in stamped : z.at <= t.snap
      BY <3>1 DEF ClockOK
    <3> QED
      BY <3>2, <3>3 DEF LastMark, ReadOf, NoneSeen, SeenFrom
  <2> QED
    BY <2>1, <2>2 DEF BasisOK, TypeOK
<1>3. ASSUME NEW r \in Runs, NEW t \in todo[r], BeginCollect(r, t) PROVE BasisOK'
  <2> DEFINE c == [run |-> r, source |-> t.source, project |-> t.project, from |-> Window(t),
                   to |-> clock, snap |-> t.snap, rows |-> FALSE]
  <2>1. c.source = t.source /\ c.from = Window(t) /\ c.snap = t.snap
    OBVIOUS
  <2> HIDE DEF c
  <2>2. cur' = [cur EXCEPT ![r] = c] /\ todo' = [todo EXCEPT ![r] = @ \ {t}]
    BY <1>3 DEF BeginCollect, c
  <2>3. UNCHANGED <<records, stamped>>
    BY <1>3 DEF BeginCollect, tables, history
  <2>4. BasisOf(stamped, c)
    <3>1. ReadOf(stamped, t)
      BY DEF BasisOK
    <3> QED
      BY <2>1, <3>1 DEF ReadOf, BasisOf, NoneSeen, SeenFrom, Window
  <2> QED
    BY <2>2, <2>3, <2>4 DEF BasisOK, TypeOK
<1>4. ASSUME NEW r \in Runs, NEW rows \in BOOLEAN, CollectOk(r, rows) PROVE BasisOK'
  <2>1. cur[r] \in Collection /\ cur[r] # None
    BY <1>4 DEF CollectOk, At, TypeOK
  <2> DEFINE c == [cur[r] EXCEPT !.rows = rows]
  <2>2. c.source = cur[r].source /\ c.from = cur[r].from /\ c.snap = cur[r].snap
    BY <2>1 DEF Collection
  <2>3. cur' = [cur EXCEPT ![r] = c] /\ UNCHANGED <<todo, records, stamped>>
    BY <1>4 DEF CollectOk, tables, history
  <2> HIDE DEF c
  <2>4. BasisOf(stamped, c)
    BY <2>1, <2>2 DEF BasisOK, BasisOf, NoneSeen, SeenFrom
  <2> QED
    BY <2>3, <2>4 DEF BasisOK, TypeOK
<1>5. ASSUME NEW r \in Runs, InsertCostRecords(r) PROVE BasisOK'
  <2>1. records' = records \cup {cur[r]} /\ UNCHANGED <<todo, cur, stamped>> /\ cur[r] # None
    BY <1>5 DEF InsertCostRecords, At, history, TypeOK
  <2> QED
    BY <2>1 DEF BasisOK
<1>6. ASSUME NEW r \in Runs, UpdateCostSourceCollectedAt(r) PROVE BasisOK'
  <2>0. UNCHANGED <<todo, cur, records>>
    BY <1>6 DEF UpdateCostSourceCollectedAt
  <2>1. CASE owner[cur[r].source] = None
    BY <1>1, <1>6, <2>0, <2>1 DEF UpdateCostSourceCollectedAt
  <2>2. CASE owner[cur[r].source] # None
    <3>1. PICK n \in Stamp : n.at = clock /\ stamped' = stamped \cup {n}
      BY <1>6, <2>2, NewStamp
    <3>2. ASSUME NEW q \in Runs, NEW t \in todo[q] PROVE ReadOf(stamped', t)
      <4>1. t.snap <= n.at /\ ReadOf(stamped, t)
        BY <3>1 DEF ClockOK, BasisOK
      <4> QED
        BY <3>1, <4>1, LaterStamp DEF ReadOf
    <3>3. ASSUME NEW c, c.snap <= clock, BasisOf(stamped, c) PROVE BasisOf(stamped', c)
      BY <3>1, <3>3, LaterStamp DEF BasisOf
    <3>4. ASSUME NEW q \in Runs, cur[q] # None PROVE cur[q].snap <= clock
      BY <3>4 DEF ClockOK, TypeOK, Collection, Time
    <3> QED
      BY <2>0, <3>2, <3>3, <3>4 DEF BasisOK, ClockOK
  <2> QED
    BY <2>1, <2>2
<1>7. ASSUME NEW r \in Runs, RunStep(r) PROVE BasisOK'
  <2>1. ASSUME NEW t \in todo[r], SkipSource(r, t) PROVE BasisOK'
    BY <1>1, <2>1 DEF SkipSource, tables, history, TypeOK
  <2>2. ASSUME CollectFails(r) \/ InsertFails(r) \/ PublishComplete(r) PROVE BasisOK'
    BY <1>1, <2>2 DEF CollectFails, InsertFails, PublishComplete, Drop, tables, history, TypeOK
  <2>3. ASSUME \/ ListProjects(r) \/ ListProjectsFails(r) \/ EndRun(r) \/ TakeTime(r)
               \/ CollectedAtFails(r) \/ \E p \in Projects : ListCostSourcesFails(r, p)
        PROVE  BasisOK'
    BY <1>1, <2>3 DEF ListProjects, ListProjectsFails, EndRun, TakeTime, CollectedAtFails,
       ListCostSourcesFails, tables, history
  <2> QED
    BY <1>2, <1>3, <1>4, <1>5, <1>6, <1>7, <2>1, <2>2, <2>3 DEF RunStep
<1>8. Request => BasisOK'
  BY <1>1 DEF Request, CreateProject, DeleteProject, CreateCostSource, DeleteCostSource,
     DropSources, runVars, history
<1>9. ASSUME NEW r \in Runs, Start(r) \/ \E k \in Kinds : Tick(r, k) PROVE BasisOK'
  BY <1>1, <1>9 DEF Start, Tick, Spawn, tables, history
<1>10. TimePasses \/ Crash \/ UNCHANGED vars => BasisOK'
  BY <1>1 DEF TimePasses, Crash, vars, tables, runVars, history
<1> QED
  BY <1>7, <1>8, <1>9, <1>10 DEF Next

WindowInv == TypeOK /\ SpentOK /\ NoOrphans /\ ClockOK /\ MarkOK /\ BasisOK

LEMMA WindowInit == Init => WindowInv
<1>1. Init => /\ SpentOK /\ NoOrphans /\ ClockOK /\ MarkOK /\ BasisOK
  BY DEF Init, SpentOK, NoOrphans, ClockOK, MarkOK, BasisOK
<1> QED
  BY <1>1, InitType DEF WindowInv

LEMMA WindowStep == WindowInv /\ [Next]_vars => WindowInv'
  BY TypeStep, SpentStep, OrphanStep, ClockStep, MarkStep, BasisStep DEF WindowInv

\* A collection that begins to read its source after another was stamped starts at or after
\* the end of that one's window, unless a third collection's update, waiting in the store
\* with a time from before, has moved last_collected_at back in between; then it starts at
\* that time (collectSource in scheduler.go).
THEOREM DoubleCountNeedsOverlap == Spec => []NoDoubleCountAfterStamp
<1>1. WindowInv => NoDoubleCountAfterStamp
  <2> SUFFICES ASSUME WindowInv, NEW z \in stamped, NEW c \in records,
                      c.source = z.of.source, c.snap > z.at, ~(c.from >= z.of.to)
               PROVE  \E y \in stamped : MovedBack(z, y) /\ y.at <= c.snap /\ c.from = y.time
    BY DEF NoDoubleCountAfterStamp
  <2>0. /\ c.snap \in Nat /\ c.from \in Int /\ z.at \in Nat /\ z.of.to \in Nat
        /\ \A y \in stamped : y.at \in Nat /\ y.time \in Nat
    BY DEF WindowInv, TypeOK, Collection, Stamp, Time
  <2>1. ~NoneSeen(stamped, c)
    BY <2>0 DEF NoneSeen
  <2>2. SeenFrom(stamped, c, c.from)
    BY <2>1 DEF WindowInv, BasisOK, BasisOf
  <2>3. PICK y \in stamped :
            /\ y.of.source = c.source /\ y.time = c.from /\ y.at <= c.snap
            /\ \A x \in stamped : x.of.source = c.source => x.at <= y.at \/ c.snap <= x.at
    BY <2>2 DEF SeenFrom
  <2>4. z.at <= y.at
    BY <2>0, <2>3
  <2> QED
    BY <2>0, <2>3, <2>4 DEF MovedBack
<1> QED
  BY <1>1, WindowInit, WindowStep, PTL DEF Spec

-----------------------------------------------------------------------------
\* Instant t is in a stored window of s, or passed while a collection of s was under way.
Covered(s, t) ==
    \E y \in stamped :
        /\ y.of.source = s
        /\ \/ y.of.from <= t /\ t < y.of.to /\ Stored(y.of)
           \/ y.of.snap <= t /\ t < y.at

\* Up to the moment of a stamp, not to its time only: the times may go back and forth.
AllCovered ==
    \A z, y \in stamped : y.of.source = z.of.source /\ owner[z.of.source] # None =>
        \A t \in z.of.from .. y.at - 1 : Covered(z.of.source, t)

\* As long as the records of the sources that stay do, so does what is covered.
LEMMA CoveredKept ==
  ASSUME AllCovered, UNCHANGED stamped,
         \A z \in stamped : owner'[z.of.source] # None =>
             owner[z.of.source] # None /\ (z.of \in records => z.of \in records')
  PROVE  AllCovered'
<1> SUFFICES ASSUME NEW z \in stamped, NEW y \in stamped, y.of.source = z.of.source,
                    owner'[z.of.source] # None, NEW t \in z.of.from .. y.at - 1
             PROVE  Covered(z.of.source, t)'
  BY DEF AllCovered
<1>1. PICK x \in stamped : /\ x.of.source = z.of.source
                           /\ \/ x.of.from <= t /\ t < x.of.to /\ Stored(x.of)
                              \/ x.of.snap <= t /\ t < x.at
  BY DEF AllCovered, Covered
<1>2. Stored(x.of) => Stored(x.of)'
  BY <1>1 DEF Stored, AggregateCosts
<1> QED
  BY <1>1, <1>2 DEF Covered

\* A new stamp covers what lies between the last one its run could read and itself.
LEMMA CoveredByStamp ==
  ASSUME WindowInv, InHandStored, AllCovered, NEW r \in Runs, UpdateCostSourceCollectedAt(r)
  PROVE  AllCovered'
<1>0. UNCHANGED <<owner, records, cur>>
  BY DEF UpdateCostSourceCollectedAt
<1>1. CASE owner[cur[r].source] = None
  BY <1>0, <1>1, CoveredKept DEF UpdateCostSourceCollectedAt
<1>2. CASE owner[cur[r].source] # None
  <2>0. PICK s \in Sources : s = cur[r].source
    BY DEF UpdateCostSourceCollectedAt, At, WindowInv, TypeOK, Collection
  <2>1. PICK n \in Stamp : /\ n.of = cur[r] /\ n.time = time[r] /\ n.at = clock
                           /\ stamped' = stamped \cup {n}
    BY <1>2, NewStamp DEF WindowInv
  <2>2. /\ n.of.source = s /\ n.of.from \in Int /\ n.of.to \in Nat /\ n.of.snap \in Nat
        /\ n.at \in Nat
    BY <2>0, <2>1 DEF Stamp, Collection, Time
  <2>3. n.of.snap <= n.of.to /\ n.of.to <= n.at
    BY <2>1 DEF UpdateCostSourceCollectedAt, At, WindowInv, TypeOK, ClockOK
  <2>4. Stored(n.of)'
    BY <1>0, <1>2, <2>1 DEF UpdateCostSourceCollectedAt, At, InHandStored, Stored, AggregateCosts
  <2>5. ASSUME NEW t \in Int, t < n.at, n.of.from <= t \/ n.of.snap <= t PROVE Covered(s, t)'
    BY <2>1, <2>2, <2>3, <2>4, <2>5 DEF Covered
  <2>6. ASSUME NEW a, NEW t, Covered(a, t) PROVE Covered(a, t)'
    BY <1>0, <2>1, <2>6 DEF Covered, Stored, AggregateCosts
  <2>7. \A y \in stamped : y.at \in Nat /\ y.time \in Nat /\ y.time <= y.at /\ y.at <= n.at
                           /\ y.of.from \in Int
    BY <2>1 DEF WindowInv, TypeOK, ClockOK, Stamp, Collection, Time
  <2>8. ASSUME NEW z \in stamped, z.of.source = s, NEW t \in z.of.from .. n.at - 1
        PROVE  Covered(s, t)'
    <3>1. t \in Int /\ z.of.from <= t /\ t < n.at
      BY <2>2, <2>7
    <3>2. CASE t < z.at
      <4>1. t \in z.of.from .. z.at - 1
        BY <2>7, <3>1, <3>2
      <4> QED
        BY <1>2, <2>0, <2>6, <2>8, <4>1 DEF AllCovered
    <3>3. CASE ~(t < z.at) /\ NoneSeen(stamped, n.of)
      <4>1. n.of.snap <= t
        BY <2>2, <2>7, <2>8, <3>1, <3>3 DEF NoneSeen
      <4> QED
        BY <2>5, <3>1, <4>1
    <3>4. CASE ~(t < z.at) /\ SeenFrom(stamped, n.of, n.of.from)
      <4>1. PICK y \in stamped : y.of.source = s /\ y.time = n.of.from
        BY <2>2, <3>4 DEF SeenFrom
      <4>2. CASE t < y.at
        <5>1. t \in z.of.from .. y.at - 1
          BY <2>7, <3>1, <4>2
        <5> QED
          BY <1>2, <2>0, <2>6, <2>8, <4>1, <5>1 DEF AllCovered
      <4>3. CASE ~(t < y.at)
        <5>1. n.of.from <= t
          BY <2>7, <3>1, <4>1, <4>3
        <5> QED
          BY <2>5, <3>1, <5>1
      <4> QED
        BY <4>2, <4>3
    <3>5. BasisOf(stamped, n.of)
      BY <2>1 DEF UpdateCostSourceCollectedAt, At, WindowInv, TypeOK, BasisOK
    <3> QED
      BY <3>2, <3>3, <3>4, <3>5 DEF BasisOf
  <2>9. ASSUME NEW z \in stamped', NEW y \in stamped', y.of.source = z.of.source,
               owner[z.of.source] # None, NEW t \in z.of.from .. y.at - 1
        PROVE  Covered(z.of.source, t)'
    <3>1. CASE z = n
      <4>1. t \in Int /\ t < n.at /\ n.of.from <= t
        BY <2>1, <2>2, <2>7, <3>1
      <4> QED
        BY <2>2, <2>5, <3>1, <4>1
    <3>2. CASE z \in stamped /\ y = n
      BY <2>2, <2>8, <2>9, <3>2
    <3>3. CASE z \in stamped /\ y \in stamped
      BY <2>6, <2>9, <3>3 DEF AllCovered
    <3> QED
      BY <2>1, <3>1, <3>2, <3>3
  <2> QED
    BY <1>0, <2>9 DEF AllCovered
<1> QED
  BY <1>1, <1>2

LEMMA CoveredStep ==
    WindowInv /\ InHandStored /\ AllCovered /\ [Next]_vars => AllCovered'
<1> SUFFICES ASSUME WindowInv, InHandStored, AllCovered, [Next]_vars PROVE AllCovered'
  OBVIOUS
<1>1. ASSUME UNCHANGED <<owner, stamped>>, records \subseteq records' PROVE AllCovered'
  BY <1>1, CoveredKept
<1>2. ASSUME NEW S, DropSources(S), UNCHANGED stamped PROVE AllCovered'
  <2>1. \A z \in stamped : z.of.source \in Sources
    BY DEF WindowInv, TypeOK, Stamp, Collection
  <2> QED
    BY <1>2, <2>1, CoveredKept DEF DropSources
<1>3. ASSUME NEW s \in Sources, NEW p \in Projects, NEW e \in BOOLEAN, CreateCostSource(s, p, e)
      PROVE  AllCovered'
  <2>1. /\ owner' = [owner EXCEPT ![s] = p] /\ UNCHANGED <<records, stamped>> /\ s \notin spent
    BY <1>3 DEF CreateCostSource, Insert, history
  <2>2. \A z \in stamped : z.of.source \in spent
    BY DEF WindowInv, SpentOK
  <2> QED
    BY <2>1, <2>2, CoveredKept DEF WindowInv, TypeOK
<1>4. Request => AllCovered'
  BY <1>1, <1>2, <1>3 DEF Request, CreateProject, DeleteProject, DeleteCostSource, history
<1>5. ASSUME NEW r \in Runs, RunStep(r), ~UpdateCostSourceCollectedAt(r) PROVE AllCovered'
  BY <1>1, <1>5 DEF RunStep, ListProjects, ListProjectsFails, EndRun, ListCostSources,
     ListCostSourcesFails, SkipSource, BeginCollect, CollectFails, CollectOk, InsertCostRecords,
     InsertFails, TakeTime, CollectedAtFails, PublishComplete, tables, history
<1>6. ASSUME NEW r \in Runs, Start(r) \/ \E k \in Kinds : Tick(r, k) PROVE AllCovered'
  BY <1>1, <1>6 DEF Start, Tick, Spawn, tables, history
<1>7. TimePasses \/ Crash \/ UNCHANGED vars => AllCovered'
  BY <1>1 DEF TimePasses, Crash, vars, tables, history
<1> QED
  BY <1>4, <1>5, <1>6, <1>7, CoveredByStamp DEF Next

\* An instant before last_collected_at is in a stored window of its source, or passed while a
\* collection of the source was under way, whichever way last_collected_at has moved
\* (collectSource in scheduler.go).
THEOREM LossNeedsCollection == Spec => []LostOnlyWhileCollecting
<1> DEFINE I == WindowInv /\ InHandStored /\ AllCovered
<1>1. Init => I
  BY WindowInit DEF Init, InHandStored, AllCovered
<1>2. I /\ [Next]_vars => I'
  BY WindowStep, InHandStep, CoveredStep DEF WindowInv
<1>3. I => LostOnlyWhileCollecting
  <2> SUFFICES ASSUME I, NEW z \in stamped, owner[z.of.source] # None,
                      NEW t \in z.of.from .. collectedAt[z.of.source] - 1
               PROVE  Covered(z.of.source, t)
    BY DEF LostOnlyWhileCollecting, Covered
  <2>1. z.of.source \in Sources /\ z.of.from \in Int
    BY DEF WindowInv, TypeOK, Stamp, Collection
  <2>2. PICK y \in stamped : y.of.source = z.of.source /\ y.time = collectedAt[z.of.source]
    BY <2>1 DEF WindowInv, MarkOK, LastMark
  <2>3. y.time \in Nat /\ y.at \in Nat /\ y.time <= y.at
    BY DEF WindowInv, TypeOK, ClockOK, Stamp, Time
  <2>4. t \in z.of.from .. y.at - 1
    BY <2>1, <2>2, <2>3
  <2> QED
    BY <2>2, <2>4 DEF AllCovered
<1> QED
  BY <1>1, <1>2, <1>3, PTL DEF Spec

-----------------------------------------------------------------------------
(* A run and its sources.  Each project a run has visited is behind it for *)
(* good, and so is each source of the project it is in; a source does not  *)
(* change its project.  So no run meets a source twice.                    *)

OnceOK ==
    /\ \A r \in Runs : pc[r] \in {"unborn", "list"} => todo[r] = {}
    /\ \A r \in Runs : \A t \in todo[r] : t.project \notin left[r]
    /\ \A r \in Runs : \A t, u \in todo[r] : t.source = u.source => t = u
    /\ \A r \in Runs : pc[r] \in {"collect", "insert"} =>
        /\ cur[r].run = r /\ cur[r].project \notin left[r]
        /\ \A t \in todo[r] : t.source # cur[r].source
    /\ \A c \in records :
        /\ pc[c.run] \notin {"unborn", "list"} /\ c.project \notin left[c.run]
        /\ \A t \in todo[c.run] : t.source # c.source
        /\ pc[c.run] \in {"collect", "insert"} => cur[c.run].source # c.source

LEMMA OnceStep ==
    TypeOK /\ NoOrphans /\ OnceOK /\ [Next]_vars => OnceOK'
<1> SUFFICES ASSUME TypeOK, NoOrphans, OnceOK, [Next]_vars PROVE OnceOK'
  OBVIOUS
<1>1. ASSUME NEW r \in Runs, Start(r) PROVE OnceOK'
  BY <1>1 DEF Start, Spawn, OnceOK, TypeOK, Collection, env, tables, runVars, history
<1>2. ASSUME NEW r \in Runs, NEW k \in Kinds \ {"all"}, Tick(r, k) PROVE OnceOK'
  BY <1>2 DEF Tick, Spawn, OnceOK, TypeOK, Collection, env, tables, runVars, history
<1>3. ASSUME TimePasses PROVE OnceOK'
  BY <1>3 DEF TimePasses, OnceOK, TypeOK, Collection, env, tables, runVars, history
<1>4. ASSUME Crash PROVE OnceOK'
  BY <1>4 DEF Crash, Fault, OnceOK, TypeOK, Collection, env, tables, runVars, history
<1>5. ASSUME NEW p \in Projects, CreateProject(p) PROVE OnceOK'
  BY <1>5 DEF CreateProject, Insert, OnceOK, TypeOK, Collection, env, tables, runVars,
     history
<1>6. ASSUME NEW p \in Projects, DeleteProject(p) PROVE OnceOK'
  BY <1>6 DEF DeleteProject, DropSources, OnceOK, TypeOK, Collection, env, tables, runVars,
     history
<1>7. ASSUME NEW s \in Sources, NEW p \in Projects, NEW e \in BOOLEAN, CreateCostSource(s, p, e)
      PROVE  OnceOK'
  BY <1>7 DEF CreateCostSource, Insert, OnceOK, TypeOK, Collection, env, tables, runVars,
     history
<1>8. ASSUME NEW s \in Sources, DeleteCostSource(s) PROVE OnceOK'
  BY <1>8 DEF DeleteCostSource, DropSources, OnceOK, TypeOK, Collection, env, tables,
     runVars, history
<1>9. ASSUME NEW r \in Runs, ListProjects(r) PROVE OnceOK'
  BY <1>9 DEF ListProjects, At, OnceOK, TypeOK, Collection, env, tables, runVars, history
<1>10. ASSUME NEW r \in Runs, ListProjectsFails(r) PROVE OnceOK'
  BY <1>10 DEF ListProjectsFails, At, Fault, OnceOK, TypeOK, Collection, env, tables,
     runVars, history
<1>11. ASSUME NEW r \in Runs, EndRun(r) PROVE OnceOK'
  BY <1>11 DEF EndRun, At, OnceOK, TypeOK, Collection, env, tables, runVars, history
<1>12. ASSUME NEW r \in Runs, NEW p \in Projects, ListCostSources(r, p) PROVE OnceOK'
  <2>1. UNCHANGED <<pc, cur, records>> /\ pc[r] = "next"
    BY <1>12 DEF ListCostSources, tables
  <2>2. todo' = [todo EXCEPT ![r] = Read(r, p)] /\ left' = [left EXCEPT ![r] = @ \ {p}]
        /\ p \in left[r]
    BY <1>12 DEF ListCostSources
  <2>3. /\ \A t \in Read(r, p) : t.project = p /\ owner[t.source] = p
        /\ \A t, u \in Read(r, p) : t.source = u.source => t = u
    BY DEF Read, Wanted
  <2>4. \A c \in records : c.run = r => c.project # p /\ owner[c.source] = c.project
    BY <2>2 DEF OnceOK, NoOrphans
  <2>5. \A t \in Read(r, p), c \in records : c.run = r => t.source # c.source
    BY <2>3, <2>4
  <2> HIDE DEF Read
  <2> QED
    BY <2>1, <2>2, <2>3, <2>5 DEF OnceOK, TypeOK, Collection
<1>13. ASSUME NEW r \in Runs, NEW p \in Projects, ListCostSourcesFails(r, p) PROVE OnceOK'
  BY <1>13 DEF ListCostSourcesFails, Fault, OnceOK, TypeOK, Collection, env, tables,
     runVars, history
<1>14. ASSUME NEW r \in Runs, NEW t \in todo[r], SkipSource(r, t) PROVE OnceOK'
  BY <1>14 DEF SkipSource, OnceOK, TypeOK, Collection, env, tables, runVars, history
<1>15. ASSUME NEW r \in Runs, NEW t \in todo[r], BeginCollect(r, t) PROVE OnceOK'
  <2> DEFINE c == [run |-> r, source |-> t.source, project |-> t.project, from |-> Window(t),
                   to |-> clock, snap |-> t.snap, rows |-> FALSE]
  <2>1. c.run = r /\ c.source = t.source /\ c.project = t.project
    OBVIOUS
  <2> HIDE DEF c
  <2>2. cur' = [cur EXCEPT ![r] = c] /\ todo' = [todo EXCEPT ![r] = @ \ {t}]
        /\ pc[r] = "next" /\ pc' = [pc EXCEPT ![r] = "collect"] /\ UNCHANGED <<left, records>>
    BY <1>15 DEF BeginCollect, At, tables, c
  <2> QED
    BY <2>1, <2>2 DEF OnceOK, TypeOK, Collection
<1>16. ASSUME NEW r \in Runs, CollectFails(r) PROVE OnceOK'
  BY <1>16 DEF CollectFails, At, Drop, OnceOK, TypeOK, Collection, env, tables, runVars, history
<1>17. ASSUME NEW r \in Runs, NEW rows \in BOOLEAN, CollectOk(r, rows) PROVE OnceOK'
  <2>1. cur[r] \in Collection /\ pc[r] = "collect"
    BY <1>17 DEF CollectOk, At, TypeOK
  <2>2. PICK c \in Collection : /\ c.run = cur[r].run /\ c.source = cur[r].source
                                /\ c.project = cur[r].project
                                /\ cur' = [cur EXCEPT ![r] = c]
    BY <1>17, <2>1 DEF CollectOk, Collection
  <2>3. /\ UNCHANGED <<left, todo, records>>
        /\ pc' = [pc EXCEPT ![r] = IF rows THEN "insert" ELSE "stamp"]
    BY <1>17 DEF CollectOk, At, tables
  <2> QED
    BY <2>1, <2>2, <2>3 DEF OnceOK, TypeOK, Collection
<1>18. ASSUME NEW r \in Runs, InsertCostRecords(r) PROVE OnceOK'
  BY <1>18 DEF InsertCostRecords, At, OnceOK, TypeOK, Collection, env, tables, runVars,
     history
<1>19. ASSUME NEW r \in Runs, InsertFails(r) PROVE OnceOK'
  BY <1>19 DEF InsertFails, At, Drop, OnceOK, TypeOK, Collection, env, tables, runVars, history
<1>20. ASSUME NEW r \in Runs, TakeTime(r) PROVE OnceOK'
  BY <1>20 DEF TakeTime, At, OnceOK, TypeOK, Collection, env, tables, runVars,
     history
<1>21. ASSUME NEW r \in Runs, UpdateCostSourceCollectedAt(r) PROVE OnceOK'
  BY <1>21 DEF UpdateCostSourceCollectedAt, At, OnceOK, TypeOK, Collection, env, tables,
     runVars, history
<1>22. ASSUME NEW r \in Runs, CollectedAtFails(r) PROVE OnceOK'
  BY <1>22 DEF CollectedAtFails, At, OnceOK, TypeOK, Collection, env, tables, runVars,
     history
<1>23. ASSUME NEW r \in Runs, PublishComplete(r) PROVE OnceOK'
  BY <1>23 DEF PublishComplete, At, Drop, OnceOK, TypeOK, Collection, env, tables, runVars,
     history
<1>24. CASE UNCHANGED vars
  BY <1>24 DEF OnceOK, vars, tables, runVars
<1>25. ASSUME NEW r \in Runs, RunStep(r) PROVE OnceOK'
  BY <1>25, <1>9, <1>10, <1>11, <1>12, <1>13, <1>14, <1>15, <1>16, <1>17, <1>18, <1>19,
     <1>20, <1>21, <1>22, <1>23 DEF RunStep
<1>26. CASE Request
  BY <1>26, <1>5, <1>6, <1>7, <1>8 DEF Request
<1> QED
  BY <1>1, <1>2, <1>3, <1>4, <1>24, <1>25, <1>26 DEF Next

\* An entry of the ledger is the records of one collection: no run stores a window of a source
\* twice, whatever is deleted and created around it and whatever fails (collectForProject and
\* collectSource in scheduler.go).
OncePerRun == \A c, d \in records : c.run = d.run /\ c.source = d.source => c = d

LEMMA OncePerRunStep ==
    TypeOK /\ OnceOK /\ OncePerRun /\ [Next]_vars => OncePerRun'
<1> SUFFICES ASSUME TypeOK, OnceOK, OncePerRun, [Next]_vars PROVE OncePerRun'
  OBVIOUS
<1>1. ASSUME NEW r \in Runs, InsertCostRecords(r) PROVE OncePerRun'
  <2>1. records' = records \cup {cur[r]} /\ pc[r] = "insert"
    BY <1>1 DEF InsertCostRecords, At
  <2>2. \A c \in records : c.run = cur[r].run => c.source # cur[r].source
    BY <2>1 DEF OnceOK
  <2> QED
    BY <2>1, <2>2 DEF OncePerRun
<1>2. ASSUME records' \subseteq records PROVE OncePerRun'
  BY <1>2 DEF OncePerRun
<1>3. ASSUME NEW r \in Runs, RunStep(r), ~InsertCostRecords(r) PROVE records' = records
  BY <1>3 DEF RunStep, ListProjects, ListProjectsFails, EndRun, ListCostSources,
     ListCostSourcesFails, SkipSource, BeginCollect, CollectFails, CollectOk, InsertFails,
     TakeTime, UpdateCostSourceCollectedAt, CollectedAtFails, PublishComplete, tables
<1>4. ASSUME Request PROVE records' \subseteq records
  BY <1>4 DEF Request, CreateProject, CreateCostSource, DeleteCostSource, DeleteProject, DropSources
<1>5. ASSUME NEW r \in Runs, Start(r) \/ \E k \in Kinds : Tick(r, k) PROVE records' = records
  BY <1>5 DEF Start, Tick, Spawn, tables
<1>6. ASSUME TimePasses \/ Crash \/ UNCHANGED vars PROVE records' = records
  BY <1>6 DEF TimePasses, Crash, vars, tables
<1> QED
  BY <1>1, <1>2, <1>3, <1>4, <1>5, <1>6 DEF Next

\* Every invariant the ledger rests on.
LedgerInv ==
    TypeOK /\ SpentOK /\ NoOrphans /\ InHandStored /\ ClockOK /\ OnceOK /\ OncePerRun

LEMMA LedgerInvariant == Spec => []LedgerInv
<1>1. Init => LedgerInv
  BY InitType DEF Init, LedgerInv, SpentOK, NoOrphans, InHandStored, ClockOK, OnceOK,
     OncePerRun
<1>2. LedgerInv /\ [Next]_vars => LedgerInv'
  BY TypeStep, SpentStep, OrphanStep, InHandStep, ClockStep, OnceStep, OncePerRunStep
     DEF LedgerInv
<1> QED
  BY <1>1, <1>2, PTL DEF Spec

\* No run stores the costs of a source twice.
THEOREM StoredOncePerRun == Spec => []OncePerRun
  BY LedgerInvariant, PTL DEF LedgerInv

-----------------------------------------------------------------------------
(* The collection implements the ledger: requests open and close, the      *)
(* insert posts, the stamp marks, and a complete event that had records    *)
(* tells; every other step changes nothing the ledger sees.                *)

LEMMA LedgerFrame ==
  ASSUME UNCHANGED <<clock, projects, owner, spent, records, collectedAt>>,
         Told' = Told
  PROVE  UNCHANGED Ledger!vars
  BY DEF Ledger!vars, Entries

LEMMA LedgerStutter ==
  ASSUME UNCHANGED <<clock, projects, owner, spent, records, collectedAt, announced>>
  PROVE  UNCHANGED Ledger!vars
  BY LedgerFrame DEF Told

LEMMA RequestKeepsLedger ==
  ASSUME LedgerInv, Request
  PROVE  Ledger!Next
<1>0. Told' = Told /\ clock' = clock
  BY DEF Request, CreateProject, CreateCostSource, DeleteCostSource, DeleteProject, history,
     env, Told
<1>1. ASSUME NEW p \in Projects, CreateProject(p) PROVE Ledger!OpenProject(p)
  BY <1>0, <1>1 DEF CreateProject, Insert, Ledger!OpenProject, Ledger!Use, Entries
<1>2. ASSUME NEW s \in Sources, NEW p \in Projects, NEW e \in BOOLEAN, CreateCostSource(s, p, e)
      PROVE  Ledger!OpenAccount(s, p)
  BY <1>0, <1>2 DEF CreateCostSource, Insert, Ledger!OpenAccount, Ledger!Use, Entries
<1>3. ASSUME NEW S, DropSources(S) PROVE Ledger!Close(S)
  <2>1. records' = {c \in records : c.source \notin S}
    BY <1>3 DEF DropSources
  <2>2. Entries' = {e \in Entries : e.source \notin S}
    BY <2>1 DEF Entries, Entry
  <2> QED
    BY <1>3, <2>2 DEF DropSources, Ledger!Close
<1>4. ASSUME NEW s \in Sources, DeleteCostSource(s) PROVE Ledger!CloseAccount(s)
  BY <1>0, <1>3, <1>4 DEF DeleteCostSource, Ledger!CloseAccount
<1>5. ASSUME NEW p \in Projects, DeleteProject(p) PROVE Ledger!CloseProject(p)
  BY <1>0, <1>3, <1>5 DEF DeleteProject, Ledger!CloseProject
<1> QED
  BY <1>1, <1>2, <1>4, <1>5 DEF Request, Ledger!Next

\* The source is there, as the row it refers to must be, and the run has not stored it yet.
LEMMA InsertPosts ==
  ASSUME LedgerInv, NEW r \in Runs, InsertCostRecords(r)
  PROVE  Ledger!Next
<1> DEFINE c == cur[r]
<1>1. /\ c \in Collection /\ pc[r] = "insert" /\ owner[c.source] = c.project
      /\ c.run = r /\ c.source \in Sources /\ c.project # None
  BY NoneAssumption DEF InsertCostRecords, At, LedgerInv, TypeOK, OnceOK, Collection
<1>2. \A d \in records : Entry(d) # Entry(c)
  BY <1>1 DEF LedgerInv, OnceOK, Entry
<1>3. Entries' = Entries \cup {Entry(c)} /\ Told' = Told
  BY DEF InsertCostRecords, Entries, history, Told
<1>4. Entry(c) = Ledger!Entry(r, c.source, owner[c.source])
  BY <1>1 DEF Entry, Ledger!Entry
<1>5. UNCHANGED <<clock, projects, owner, spent, collectedAt>>
  BY DEF InsertCostRecords, env
<1>6. Entry(c) \notin Entries
  BY <1>2 DEF Entries
<1>7. Ledger!Post(r, c.source)
  BY <1>1, <1>3, <1>4, <1>5, <1>6 DEF Ledger!Post
<1> QED
  BY <1>1, <1>7 DEF Ledger!Next

LEMMA StampMarks ==
  ASSUME LedgerInv, NEW r \in Runs, UpdateCostSourceCollectedAt(r)
  PROVE  Ledger!Next \/ UNCHANGED Ledger!vars
<1> DEFINE s == cur[r].source
<1>1. s \in Sources
  BY DEF UpdateCostSourceCollectedAt, At, LedgerInv, TypeOK, Collection
<1>2. UNCHANGED <<clock, projects, owner, spent, records, announced>>
  BY DEF UpdateCostSourceCollectedAt, env
<1>3. CASE owner[s] = None
  BY <1>2, <1>3, LedgerStutter DEF UpdateCostSourceCollectedAt
<1>4. CASE owner[s] # None
  <2>0. time[r] \in 0..clock
    BY DEF UpdateCostSourceCollectedAt, At, LedgerInv, TypeOK, ClockOK, Time
  <2>1. Ledger!Mark(s)
    BY <1>2, <1>4, <2>0 DEF UpdateCostSourceCollectedAt, Ledger!Mark, Entries, Told
  <2> QED
    BY <1>1, <2>1 DEF Ledger!Next
<1> QED
  BY <1>3, <1>4

\* What is published was stored before, or its source has been closed since.
LEMMA PublishTells ==
  ASSUME LedgerInv, NEW r \in Runs, PublishComplete(r)
  PROVE  Ledger!Next \/ UNCHANGED Ledger!vars
<1> DEFINE c == cur[r]
<1>1. c \in Collection /\ pc[r] = "publish"
  BY DEF PublishComplete, At, LedgerInv, TypeOK
<1>2. UNCHANGED <<clock, projects, owner, spent, records, collectedAt>>
  BY DEF PublishComplete, env, tables
<1>3. announced' = announced \cup {c}
  BY DEF PublishComplete
<1>4. CASE c.rows
  <2>1. Told' = Told \cup {Entry(c)}
    BY <1>3, <1>4 DEF Told
  <2>2. Entry(c) = Ledger!Entry(c.run, c.source, c.project)
    BY DEF Entry, Ledger!Entry
  <2>3. owner[c.source] # None => c \in records
    BY <1>1, <1>4 DEF LedgerInv, InHandStored, Stored, AggregateCosts
  <2>4. owner[c.source] # None => Entry(c) \in Entries
    BY <2>3 DEF Entries
  <2>5. Ledger!Tell(c.run, c.source, c.project)
    BY <1>2, <2>1, <2>2, <2>4 DEF Ledger!Tell, Entries
  <2> QED
    BY <1>1, <2>5 DEF Ledger!Next, Collection
<1>5. CASE ~c.rows
  <2>1. Told' = Told
    BY <1>3, <1>5 DEF Told
  <2> QED
    BY <1>2, <2>1, LedgerFrame
<1> QED
  BY <1>4, <1>5

LEMMA RunKeepsLedger ==
  ASSUME LedgerInv, NEW r \in Runs, RunStep(r)
  PROVE  Ledger!Next \/ UNCHANGED Ledger!vars
<1>1. CASE ~(InsertCostRecords(r) \/ UpdateCostSourceCollectedAt(r) \/ PublishComplete(r))
  <2>1. UNCHANGED <<clock, projects, owner, spent, records, collectedAt, announced>>
    BY <1>1 DEF RunStep, ListProjects, ListProjectsFails, EndRun, ListCostSources,
       ListCostSourcesFails, SkipSource, BeginCollect, CollectFails, CollectOk, InsertFails,
       TakeTime, CollectedAtFails, env, tables, history
  <2> QED
    BY <2>1, LedgerStutter
<1> QED
  BY <1>1, InsertPosts, StampMarks, PublishTells

LEMMA LedgerStep ==
  ASSUME LedgerInv, [Next]_vars
  PROVE  [Ledger!Next]_(Ledger!vars)
<1>1. ASSUME NEW r \in Runs, Start(r) \/ \E k \in Kinds : Tick(r, k) PROVE UNCHANGED Ledger!vars
  <2>1. UNCHANGED <<clock, projects, owner, spent, records, collectedAt, announced>>
    BY <1>1 DEF Start, Tick, Spawn, tables, history
  <2> QED
    BY <2>1, LedgerStutter
<1>2. ASSUME Crash \/ UNCHANGED vars PROVE UNCHANGED Ledger!vars
  <2>1. UNCHANGED <<clock, projects, owner, spent, records, collectedAt, announced>>
    BY <1>2 DEF Crash, vars, env, tables, history
  <2> QED
    BY <2>1, LedgerStutter
<1>3. ASSUME TimePasses PROVE Ledger!Next
  BY <1>3 DEF TimePasses, tables, history, Entries, Told, Ledger!Next, Ledger!Tick
<1> QED
  BY <1>1, <1>2, <1>3, RunKeepsLedger, RequestKeepsLedger DEF Next

\* Whatever overlaps, is deleted under a run's hands, fails or dies, the collection keeps the
\* ledger: a run enters the costs of a source at most once and only while the source is there,
\* entries go only with it, a mark is never in the future though it may go back, and nothing
\* is announced that was not entered (scheduler.go, sql.go, migrations/000001_init.up.sql).
THEOREM CollectionImplementsLedger == Spec => ImplementsLedger
<1>1. Init => Ledger!Init
  BY DEF Init, Ledger!Init, Entries, Told
<1>2. LedgerInv /\ [Next]_vars => [Ledger!Next]_(Ledger!vars)
  BY LedgerStep
<1> QED
  BY <1>1, <1>2, LedgerInvariant, PTL DEF Spec, ImplementsLedger, Ledger!Spec

-----------------------------------------------------------------------------
(* The safety half of EverySourceHasItsTurn.                               *)

\* A run strikes a source off its list only to collect it, or because its type has no
\* collector, or because the process ends: not when another source fails or is slow, not when
\* the source or its project is deleted, not when the list of the next project is read.
TurnIsKept ==
    [][\A r \in Runs : \A t \in todo[r] :
          \/ t \in todo'[r] \/ t.source \in Unregistered \/ ~running'
          \/ pc'[r] = "collect" /\ cur'[r].source = t.source /\ cur'[r].snap = t.snap]_vars

\* Nothing takes a source its turn (the two loops of collectForProject in scheduler.go).
THEOREM NoTurnIsLost == Spec => TurnIsKept
<1> DEFINE Kept(r, t) == \/ t \in todo'[r] \/ t.source \in Unregistered \/ ~running'
                         \/ /\ pc'[r] = "collect" /\ cur'[r].source = t.source
                            /\ cur'[r].snap = t.snap
<1>1. ASSUME TypeOK, [Next]_vars PROVE \A r \in Runs : \A t \in todo[r] : Kept(r, t)
  <2> SUFFICES ASSUME NEW r \in Runs, NEW t \in todo[r] PROVE Kept(r, t)
    OBVIOUS
  <2>1. /\ todo \in [Runs -> SUBSET Snapshot] /\ pc \in [Runs -> Pc]
        /\ cur \in [Runs -> Collection \cup {None}]
    BY <1>1 DEF TypeOK
  <2>2. ASSUME todo' = todo PROVE Kept(r, t)
    BY <2>2
  <2>3. ASSUME NEW q \in Runs, NEW p \in Projects, ListCostSources(q, p) PROVE Kept(r, t)
    BY <2>1, <2>3 DEF ListCostSources
  <2>4. ASSUME NEW q \in Runs, NEW u \in todo[q], SkipSource(q, u) PROVE Kept(r, t)
    BY <2>1, <2>4 DEF SkipSource
  <2>5. ASSUME NEW q \in Runs, NEW u \in todo[q], BeginCollect(q, u) PROVE Kept(r, t)
    <3> DEFINE c == [run |-> q, source |-> u.source, project |-> u.project, from |-> Window(u),
                     to |-> clock, snap |-> u.snap, rows |-> FALSE]
    <3>1. c.source = u.source /\ c.snap = u.snap
      OBVIOUS
    <3> HIDE DEF c
    <3>2. /\ cur' = [cur EXCEPT ![q] = c] /\ todo' = [todo EXCEPT ![q] = @ \ {u}]
          /\ pc' = [pc EXCEPT ![q] = "collect"]
      BY <2>5 DEF BeginCollect, At, c
    <3> QED
      BY <2>1, <3>1, <3>2
  <2>6. ASSUME NEW q \in Runs, RunStep(q), todo' # todo
        PROVE  \/ \E p \in Projects : ListCostSources(q, p)
               \/ \E u \in todo[q] : SkipSource(q, u) \/ BeginCollect(q, u)
    BY <2>6 DEF RunStep, ListProjects, ListProjectsFails, EndRun, ListCostSourcesFails,
       CollectFails, CollectOk, InsertCostRecords, InsertFails, TakeTime,
       UpdateCostSourceCollectedAt, CollectedAtFails, PublishComplete
  <2>7. Request => todo' = todo
    BY DEF Request, CreateProject, DeleteProject, CreateCostSource, DeleteCostSource, runVars
  <2>8. /\ TimePasses \/ UNCHANGED vars => todo' = todo
        /\ Crash => ~running'
    BY DEF TimePasses, Crash, vars, runVars
  <2>9. ASSUME NEW q \in Runs, Start(q) \/ \E k \in Kinds : Tick(q, k) PROVE todo' = todo
    BY <2>9 DEF Start, Tick, Spawn
  <2> QED
    BY <1>1, <2>2, <2>3, <2>4, <2>5, <2>6, <2>7, <2>8, <2>9 DEF Next
<1> DEFINE A == \A r \in Runs : \A t \in todo[r] :
          \/ t \in todo'[r] \/ t.source \in Unregistered \/ ~running'
          \/ pc'[r] = "collect" /\ cur'[r].source = t.source /\ cur'[r].snap = t.snap
<1>2. TypeOK /\ [Next]_vars => [A]_vars
  BY <1>1
<1> HIDE DEF A
<1>3. Spec => [][A]_vars
  BY <1>2, TypeCorrect, PTL DEF Spec
<1> QED
  BY <1>3 DEF A, TurnIsKept
=============================================================================
