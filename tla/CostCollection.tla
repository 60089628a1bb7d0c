--------------------------- MODULE CostCollection ---------------------------
(***************************************************************************)
(* The collection of costs: the scheduler starts a goroutine per tick, a   *)
(* run goes through the cost sources it read, collects a window of time    *)
(* from each and stores the records, while API requests create and delete  *)
(* projects and sources (internal/collector/scheduler.go,                  *)
(* its kubernetes collector, internal/store/sql.go, migrations/,           *)
(* internal/server/projects.go).                                           *)
(*                                                                         *)
(* Nothing keeps two runs apart.  A run works with the sources as it read  *)
(* them; each statement of the store is atomic, nothing else is.           *)
(***************************************************************************)
EXTENDS Integers, FiniteSets

CONSTANTS
    Projects, Sources,  \* the rows that may ever exist: ids are fresh UUIDs
    Kubernetes,         \* the sources of type kubernetes
    Unregistered,       \* the sources of a type without a collector (plugin)
    Runs, MaxActive,    \* bounds: the goroutines the scheduler may ever start, and at once
    Lookback,           \* the window of a source never collected (24 hours)
    MaxTime, MaxFaults, \* bounds: the clock; failed statements and crashes
    Never, None         \* no collection yet; no owner, no collection in hand

ASSUME SourceAssumption ==
    /\ Kubernetes \subseteq Sources /\ Unregistered \subseteq Sources
    /\ Kubernetes \cap Unregistered = {}
ASSUME SizeAssumption == {Lookback, MaxActive, MaxTime, MaxFaults} \subseteq Nat
ASSUME NoneAssumption == Never \notin Int /\ None \notin Projects

VARIABLES
    clock,       \* time.Now()
    faults,      \* faults that have happened
    projects,    \* table projects
    owner,       \* table cost_sources: project_id, None when there is no row
    enabled,     \* table cost_sources: enabled
    collectedAt, \* table cost_sources: last_collected_at
    records,     \* table cost_records, all records of one collection as one
    spent,       \* ids used by an earlier insert
    running,     \* Scheduler.running, in a process that lives
    pc,          \* program counter of each run
    kind,        \* the types a run collects
    left,        \* projects it has still to visit
    todo,        \* sources of the current project it has still to visit, as it read them
    cur,         \* the collection in hand
    time,        \* the time it is about to write as last_collected_at
    stamped,     \* history: collections whose last_collected_at was written, which, and when
    announced    \* history: the collections announced to the hub as complete

tables == <<projects, owner, enabled, collectedAt, records, spent>>
runVars == <<pc, kind, left, todo, cur, time>>
env == <<clock, faults, running>>
history == <<stamped, announced>>
vars == <<env, tables, runVars, history>>

Time == 0..MaxTime
Kinds == {"all", "csp", "kubernetes"}
Pc == {"unborn", "list", "next", "collect", "insert", "stamp", "update", "publish", "done"}
Snapshot == [source : Sources, project : Projects, last : Time \cup {Never}, snap : Time]
Collection == [run : Runs, source : Sources, project : Projects,
               from : Int, to : Time, snap : Time, rows : BOOLEAN]
Stamp == [of : Collection, time : Time, at : Time]
ASSUME NoCollectionAssumption == None \notin Collection

Init ==
    /\ clock = 0 /\ faults = 0 /\ running = FALSE
    /\ projects = {} /\ records = {} /\ spent = {}
    /\ owner = [s \in Sources |-> None]
    /\ enabled = [s \in Sources |-> TRUE]
    /\ collectedAt = [s \in Sources |-> Never]
    /\ pc = [r \in Runs |-> "unborn"]
    /\ kind = [r \in Runs |-> "all"]
    /\ left = [r \in Runs |-> {}]
    /\ todo = [r \in Runs |-> {}]
    /\ cur = [r \in Runs |-> None]
    /\ time = [r \in Runs |-> Never]
    /\ stamped = {} /\ announced = {}

-----------------------------------------------------------------------------
(* The scheduler and the environment.  The names starting with Bad are     *)
(* used by no action: each is a plausible slip in what it precedes.        *)

Active == {r \in Runs : pc[r] \notin {"unborn", "done"}}

Spawn(r, k) ==
    /\ pc[r] = "unborn" /\ Cardinality(Active) < MaxActive
    /\ pc' = [pc EXCEPT ![r] = "list"] /\ kind' = [kind EXCEPT ![r] = k]
    /\ UNCHANGED <<left, todo, cur, time, tables, history, clock, faults>>

\* Scheduler.Start, once per process: the initial collection of everything.
Start(r) == ~running /\ running' = TRUE /\ Spawn(r, "all")

\* A ticker fires: a new run, whether or not the previous one is over.
Tick(r, k) == running /\ UNCHANGED running /\ Spawn(r, k)

TimePasses ==
    /\ clock < MaxTime /\ clock' = clock + 1
    /\ UNCHANGED <<faults, running, tables, runVars, history>>

Fault == faults < MaxFaults /\ faults' = faults + 1

\* The process ends, by a signal or by itself, and its runs with all they hold; the tables stay.
Crash ==
    /\ running /\ Fault /\ running' = FALSE
    /\ pc' = [r \in Runs |-> IF pc[r] = "unborn" THEN "unborn" ELSE "done"]
    /\ kind' = [r \in Runs |-> "all"] /\ cur' = [r \in Runs |-> None] /\ time' = [r \in Runs |-> Never]
    /\ left' = [r \in Runs |-> {}] /\ todo' = [r \in Runs |-> {}]
    /\ UNCHANGED <<clock, tables, history>>

-----------------------------------------------------------------------------
(* API requests that change the tables.                                    *)

Insert(id) == running /\ id \notin spent /\ spent' = spent \cup {id}

CreateProject(p) ==
    /\ Insert(p)
    /\ projects' = projects \cup {p}
    /\ UNCHANGED <<owner, enabled, collectedAt, records, env, runVars, history>>

\* The foreign key refuses a source of an unknown project (500, nothing changes).
CreateCostSource(s, p, e) ==
    /\ p \in projects /\ Insert(s)
    /\ owner' = [owner EXCEPT ![s] = p] /\ enabled' = [enabled EXCEPT ![s] = e]
    /\ UNCHANGED <<projects, collectedAt, records, env, runVars, history>>

\* ON DELETE CASCADE: a source takes its records with it ...
DropSources(S) ==
    /\ owner' = [s \in Sources |-> IF s \in S THEN None ELSE owner[s]]
    /\ collectedAt' = [s \in Sources |-> IF s \in S THEN Never ELSE collectedAt[s]]
    /\ enabled' = [s \in Sources |-> s \in S \/ enabled[s]]
    /\ records' = {c \in records : c.source \notin S}

BadDeleteCostSource(s) ==  \* without the cascade
    /\ running /\ owner[s] # None
    /\ owner' = [owner EXCEPT ![s] = None]
    /\ UNCHANGED <<projects, enabled, collectedAt, records, spent, env, runVars, history>>

DeleteCostSource(s) ==
    /\ running /\ owner[s] # None
    /\ DropSources({s})
    /\ UNCHANGED <<projects, spent, env, runVars, history>>

\* ... and a project its sources.
DeleteProject(p) ==
    /\ running /\ p \in projects
    /\ projects' = projects \ {p}
    /\ DropSources({s \in Sources : owner[s] = p})
    /\ UNCHANGED <<spent, env, runVars, history>>

-----------------------------------------------------------------------------
(* A run: collectAll, or collectByTypes, and collectSource.                *)

At(r, from, to) == pc[r] = from /\ pc' = [pc EXCEPT ![r] = to]

\* The types of a run: all of them, the three clouds, or kubernetes.
Wanted(k) ==
    {s \in Sources :
        \/ k = "all"
        \/ k = "csp" /\ s \notin Kubernetes \cup Unregistered
        \/ k = "kubernetes" /\ s \in Kubernetes}

\* The projects are read once, at the start of the run.
ListProjects(r) ==
    /\ At(r, "list", "next")
    /\ left' = [left EXCEPT ![r] = projects]
    /\ UNCHANGED <<kind, todo, cur, time, env, tables, history>>

ListProjectsFails(r) ==
    /\ At(r, "list", "done") /\ Fault /\ kind' = [kind EXCEPT ![r] = "all"]
    /\ UNCHANGED <<clock, running, left, todo, cur, time, tables, history>>

\* What a run reads of the sources of p.
Read(r, p) ==
    {[source |-> s, project |-> p, last |-> collectedAt[s], snap |-> clock] :
        s \in {x \in Wanted(kind[r]) : owner[x] = p /\ enabled[x]}}

ListCostSources(r, p) ==
    /\ pc[r] = "next" /\ todo[r] = {} /\ p \in left[r]
    /\ left' = [left EXCEPT ![r] = @ \ {p}]
    /\ todo' = [todo EXCEPT ![r] = Read(r, p)]
    /\ UNCHANGED <<pc, kind, cur, time, env, tables, history>>

\* Logged; the run goes on with the next project.
ListCostSourcesFails(r, p) ==
    /\ pc[r] = "next" /\ todo[r] = {} /\ p \in left[r] /\ Fault
    /\ left' = [left EXCEPT ![r] = @ \ {p}]
    /\ UNCHANGED <<pc, kind, todo, cur, time, clock, running, tables, history>>

EndRun(r) ==
    /\ todo[r] = {} /\ left[r] = {} /\ At(r, "next", "done") /\ kind' = [kind EXCEPT ![r] = "all"]
    /\ UNCHANGED <<left, todo, cur, time, env, tables, history>>

\* No collector for the type.
SkipSource(r, t) ==
    /\ pc[r] = "next" /\ t \in todo[r] /\ t.source \in Unregistered
    /\ todo' = [todo EXCEPT ![r] = @ \ {t}]
    /\ UNCHANGED <<pc, kind, left, cur, time, env, tables, history>>

BadWindow(t) == clock - Lookback  \* LastCollectedAt is ignored

\* Where the window of a source starts.
Window(t) == IF t.last = Never THEN clock - Lookback ELSE t.last

BadBeginCollect(r, t) ==  \* the window goes to a variable of an inner scope
    /\ t \in todo[r] /\ t.source \notin Unregistered /\ At(r, "next", "collect")
    /\ todo' = [todo EXCEPT ![r] = @ \ {t}]
    /\ UNCHANGED <<kind, left, cur, time, env, tables, history>>

\* The window is fixed and Collect is called.
BeginCollect(r, t) ==
    /\ t \in todo[r] /\ t.source \notin Unregistered /\ At(r, "next", "collect")
    /\ todo' = [todo EXCEPT ![r] = @ \ {t}]
    /\ cur' = [cur EXCEPT ![r] =
           [run |-> r, source |-> t.source, project |-> t.project,
            from |-> Window(t), to |-> clock, snap |-> t.snap, rows |-> FALSE]]
    /\ UNCHANGED <<kind, left, time, env, tables, history>>

Drop(r) == cur' = [cur EXCEPT ![r] = None]

BadCollectFails(r) ==  \* the loop over the sources is left
    /\ At(r, "collect", "next") /\ Drop(r) /\ todo' = [todo EXCEPT ![r] = {}]
    /\ UNCHANGED <<kind, left, time, env, tables, history>>

\* Collect returns an error: collection.failed is published, which only the hub sees, and the
\* run goes on with the next source.
CollectFails(r) ==
    /\ At(r, "collect", "next") /\ Drop(r)
    /\ UNCHANGED <<kind, left, todo, time, env, tables, history>>

\* Only the kubernetes collector returns records; the three for clouds return none yet.
Collected(s) == IF s \in Kubernetes THEN BOOLEAN ELSE {FALSE}

BadCollectOk(r, rows) ==  \* the test for records is the wrong way round
    /\ At(r, "collect", IF rows THEN "stamp" ELSE "insert")
    /\ rows \in Collected(cur[r].source)
    /\ cur' = [cur EXCEPT ![r].rows = rows]
    /\ UNCHANGED <<kind, left, todo, time, env, tables, history>>

\* Collect returns records of the window, or none.
CollectOk(r, rows) ==
    /\ At(r, "collect", IF rows THEN "insert" ELSE "stamp")
    /\ rows \in Collected(cur[r].source)
    /\ cur' = [cur EXCEPT ![r].rows = rows]
    /\ UNCHANGED <<kind, left, todo, time, env, tables, history>>

\* One transaction: all the records or none; their source must exist.
InsertCostRecords(r) ==
    /\ At(r, "insert", "stamp") /\ owner[cur[r].source] = cur[r].project
    /\ records' = records \cup {cur[r]}
    /\ UNCHANGED <<projects, owner, enabled, collectedAt, spent, kind, left, todo,
                   cur, time, env, history>>

BadInsertFails(r) ==  \* the error is logged only
    /\ At(r, "insert", "stamp")
    /\ \/ owner[cur[r].source] = None /\ UNCHANGED faults
       \/ Fault
    /\ UNCHANGED <<clock, running, kind, left, todo, cur, time, tables, history>>

\* The source is gone, or the statement fails: no stamp and no event.
InsertFails(r) ==
    /\ At(r, "insert", "next") /\ Drop(r)
    /\ \/ owner[cur[r].source] = None /\ UNCHANGED faults
       \/ Fault
    /\ UNCHANGED <<clock, running, kind, left, todo, time, tables, history>>

\* Not the end of the window, and taken before the statement has its turn in the store.
TakeTime(r) ==
    /\ At(r, "stamp", "update") /\ time' = [time EXCEPT ![r] = clock]
    /\ UNCHANGED <<kind, left, todo, cur, env, tables, history>>

\* No row, no error.
UpdateCostSourceCollectedAt(r) ==
    /\ At(r, "update", "publish") /\ time' = [time EXCEPT ![r] = Never]
    /\ IF owner[cur[r].source] = None
       THEN UNCHANGED <<collectedAt, stamped>>
       ELSE /\ collectedAt' = [collectedAt EXCEPT ![cur[r].source] = time[r]]
            /\ stamped' = stamped \cup {[of |-> cur[r], time |-> time[r], at |-> clock]}
    /\ UNCHANGED <<projects, owner, enabled, records, spent, kind, left, todo, cur, env,
                   announced>>

\* Logged; the collection counts as complete all the same.
CollectedAtFails(r) ==
    /\ At(r, "update", "publish") /\ Fault /\ time' = [time EXCEPT ![r] = Never]
    /\ UNCHANGED <<clock, running, kind, left, todo, cur, tables, history>>

PublishComplete(r) ==
    /\ At(r, "publish", "next") /\ Drop(r) /\ announced' = announced \cup {cur[r]}
    /\ UNCHANGED <<kind, left, todo, time, env, tables, stamped>>

-----------------------------------------------------------------------------
RunStep(r) ==
    \/ ListProjects(r) \/ ListProjectsFails(r) \/ EndRun(r)
    \/ \E p \in Projects : ListCostSources(r, p) \/ ListCostSourcesFails(r, p)
    \/ \E t \in todo[r] : SkipSource(r, t) \/ BeginCollect(r, t)
    \/ CollectFails(r) \/ \E rows \in BOOLEAN : CollectOk(r, rows)
    \/ InsertCostRecords(r) \/ InsertFails(r)
    \/ TakeTime(r) \/ UpdateCostSourceCollectedAt(r) \/ CollectedAtFails(r) \/ PublishComplete(r)

Request ==
    \/ \E p \in Projects : CreateProject(p) \/ DeleteProject(p)
    \/ \E s \in Sources, p \in Projects, e \in BOOLEAN : CreateCostSource(s, p, e)
    \/ \E s \in Sources : DeleteCostSource(s)

\* The bounds are used up.
Ended == \A r \in Runs : pc[r] = "done"

Next ==
    \/ \E r \in Runs : Start(r) \/ RunStep(r)
    \/ \E r \in Runs, k \in Kinds \ {"all"} : Tick(r, k)
    \/ TimePasses \/ Crash \/ Request
    \/ Ended /\ UNCHANGED vars

Spec == Init /\ [][Next]_vars

\* A goroutine that can take a step takes one; Collect returns within its timeouts.
LiveSpec == Spec /\ \A r \in Runs : WF_vars(RunStep(r))

-----------------------------------------------------------------------------
\* Every variable has the values the code gives it; a run holds a collection where it
\* uses one.
TypeOK ==
    /\ clock \in Time /\ faults \in 0..MaxFaults /\ running \in BOOLEAN
    /\ projects \subseteq Projects /\ owner \in [Sources -> Projects \cup {None}]
    /\ enabled \in [Sources -> BOOLEAN]
    /\ collectedAt \in [Sources -> Time \cup {Never}]
    /\ records \subseteq Collection /\ spent \subseteq Projects \cup Sources
    /\ pc \in [Runs -> Pc] /\ kind \in [Runs -> Kinds]
    /\ left \in [Runs -> SUBSET Projects] /\ todo \in [Runs -> SUBSET Snapshot]
    /\ cur \in [Runs -> Collection \cup {None}]
    /\ \A r \in Runs : pc[r] \in {"collect", "insert", "stamp", "update", "publish"} => cur[r] # None
    /\ time \in [Runs -> Time \cup {Never}] /\ \A r \in Runs : pc[r] = "update" => time[r] # Never
    /\ stamped \subseteq Stamp /\ announced \subseteq Collection

\* Deleting a project or a source in the middle of a collection leaves no record and no
\* source behind, and no late insert or update brings one back: "Delete a project and all
\* associated cost sources, members, and costs".
NoOrphans ==
    /\ \A c \in records : owner[c.source] = c.project
    /\ \A s \in Sources : owner[s] # None => owner[s] \in projects
    /\ \A s \in Sources : collectedAt[s] # Never => owner[s] # None

\* Stamp y was written after stamp z, with a time from before the end of z's window: its
\* statement waited in the store while z's collection went by, and moved last_collected_at back.
MovedBack(z, y) == y.of.source = z.of.source /\ y.time < z.of.to /\ z.at <= y.at

\* A cost is counted twice only by collections that overlap in time: one that reads the
\* source after another was stamped starts at or after the end of that one's window; unless
\* it reads what a third collection moved back, and then it starts where that one's time is.
NoDoubleCountAfterStamp ==
    \A z \in stamped, c \in records :
        c.source = z.of.source /\ c.snap > z.at =>
            \/ c.from >= z.of.to
            \/ \E y \in stamped : MovedBack(z, y) /\ y.at <= c.snap /\ c.from = y.time

\* What the cost summary of a project adds up: the records whose project_id is p.  The
\* other conditions of a CostQuery are not used by the handler.
AggregateCosts(p) == {c \in records : c.project = p}

\* The records of a collection count in the costs of its project.
Stored(c) == c.rows => c \in AggregateCosts(c.project)

\* The instants up to last_collected_at are in a window whose records are stored, but for
\* those that passed while a collection was under way, until its stamp was written: the next
\* window starts where the stamp is, not where the last window ended.
LostOnlyWhileCollecting ==
    \A z \in stamped : owner[z.of.source] # None =>
        \A t \in z.of.from .. collectedAt[z.of.source] - 1 :
            \E y \in stamped :
                /\ y.of.source = z.of.source
                /\ \/ y.of.from <= t /\ t < y.of.to /\ Stored(y.of)
                   \/ y.of.snap <= t /\ t < y.at

\* Who is told that a collection is complete and asks for the costs of the project gets
\* its records counted in, unless the source has been deleted since.
CompleteIsStored ==
    \A c \in announced : owner[c.source] # None => Stored(c)

\* A collection as the ledger has it: whose costs, by which run.
Entry(c) == [run |-> c.run, source |-> c.source, project |-> c.project]
Entries == {Entry(c) : c \in records}
Told == {Entry(c) : c \in {d \in announced : d.rows}}

Ledger == INSTANCE CostLedger WITH
    now <- clock,
    open <- projects,
    account <- owner,
    used <- spent,
    entries <- Entries,
    mark <- collectedAt,
    told <- Told

\* Runs that overlap, work with sources as they were, and die between any two statements
\* keep the ledger: a run enters the costs of a source at most once and nothing of a source
\* that is gone, takes nothing back, and announces what is entered.
ImplementsLedger == Ledger!Spec

\* A source a run has read gets its turn in that run, whatever happens to the others.
EverySourceHasItsTurn ==
    \A r \in Runs, s \in Sources \ Unregistered :
        (pc[r] # "done" /\ \E t \in todo[r] : t.source = s)
            ~> (~running \/ (pc[r] = "collect" /\ cur[r].source = s))
=============================================================================
