------------------------------- MODULE Startup -------------------------------
(***************************************************************************)
(* The start of the processes that share one database: main opens it,      *)
(* runMigrations creates the table of versions, reads the highest one and  *)
(* applies the files above it, each in a transaction with its version row, *)
(* and auth.NewManager asks the identity provider for its configuration;   *)
(* only then is the server started (cmd/finguard/main.go, internal/store). *)
(*                                                                         *)
(* Replicas start at any time, next to each other and over each other's    *)
(* versions.  Every error ends in os.Exit(1): the supervisor starts the    *)
(* process again, perhaps from a newer image.                              *)
(***************************************************************************)
EXTENDS Naturals, Sequences

CONSTANTS
    Servers,     \* the replicas
    MaxVersion,  \* migrations in the newest image: files 1 to MaxVersion
    MaxFaults    \* bound: failed statements, lost connections and crashes

ASSUME VersionAssumption == MaxVersion \in Nat /\ MaxFaults \in Nat

VARIABLES
    pc,        \* where main is: see Pc
    release,   \* the image a replica runs has the files 1 to release
    current,   \* currentVersion of runMigrations, read once
    file,      \* the file its loop has come to
    table,     \* schema_migrations exists
    versions,  \* the rows of schema_migrations
    schema,    \* the files whose statements are committed, in that order
    faults     \* faults that have happened

database == <<table, versions, schema>>
startVars == <<pc, release, current, file, database, faults>>

Versions == 1..MaxVersion
Pc == {"down", "open", "create", "creating", "version", "loop", "exec", "record",
       "commit", "auth", "serve"}

StartInit ==
    /\ pc = [s \in Servers |-> "down"]
    /\ release \in [Servers -> 0..MaxVersion]
    /\ current = [s \in Servers |-> 0]
    /\ file = [s \in Servers |-> 1]
    /\ table = FALSE /\ versions = {} /\ schema = <<>>
    /\ faults = 0

At(s, from, to) == pc[s] = from /\ pc' = [pc EXCEPT ![s] = to]

\* An uncommitted transaction of s has executed a file, or also recorded its version.
InTx(s) == pc[s] \in {"record", "commit"}

-----------------------------------------------------------------------------
(* The names starting with Bad are used by no action: each is a plausible  *)
(* slip in the definition it precedes.                                     *)

\* The supervisor starts the process, from the same image or a newer one.
Launch(s, r) ==
    /\ At(s, "down", "open") /\ r >= release[s]
    /\ release' = [release EXCEPT ![s] = r]
    /\ UNCHANGED <<current, file, database, faults>>

\* store.New: sql.Open, Ping and, for sqlite, the pragmas.
New(s) == At(s, "open", "create") /\ UNCHANGED <<release, current, file, database, faults>>

\* CREATE TABLE IF NOT EXISTS schema_migrations finds no table and goes on to create it ...
MissTable(s) ==
    /\ At(s, "create", "creating") /\ ~table
    /\ UNCHANGED <<release, current, file, database, faults>>

\* ... while another process may do so.
CreateTable(s) ==
    /\ At(s, "creating", "version") \/ (At(s, "create", "version") /\ table)
    /\ table' = TRUE
    /\ UNCHANGED <<release, current, file, versions, schema, faults>>

\* Then the statement may fail although it says IF NOT EXISTS.
CreateLoses(s) ==
    /\ At(s, "creating", "down") /\ table
    /\ UNCHANGED <<release, current, file, database, faults>>

HighestVersion == IF versions = {} THEN 0 ELSE CHOOSE v \in versions : \A w \in versions : w <= v

\* SELECT COALESCE(MAX(version), 0); the files are read from the image and sorted.
ReadVersion(s) ==
    /\ At(s, "version", "loop")
    /\ current' = [current EXCEPT ![s] = HighestVersion]
    /\ file' = [file EXCEPT ![s] = 1]
    /\ UNCHANGED <<release, database, faults>>

BadSkips(s) == file[s] < current[s]  \* the current version is applied again
Skips(s) == file[s] <= current[s]

\* version <= currentVersion: continue.
SkipFile(s) ==
    /\ pc[s] = "loop" /\ file[s] <= release[s] /\ Skips(s)
    /\ file' = [file EXCEPT ![s] = @ + 1]
    /\ UNCHANGED <<pc, release, current, database, faults>>

\* BeginTx.
BeginTx(s) ==
    /\ file[s] <= release[s] /\ ~Skips(s) /\ At(s, "loop", "exec")
    /\ UNCHANGED <<release, current, file, database, faults>>

\* The statements of the file; they are invisible to the others until the commit.
Exec(s) == At(s, "exec", "record") /\ UNCHANGED <<release, current, file, database, faults>>

\* Another transaction holds the lock, or has made the change in the meantime.
BadExecLoses(s) ==  \* the error is logged and the loop goes on
    /\ At(s, "exec", "loop") /\ file' = [file EXCEPT ![s] = @ + 1]
    /\ file[s] \in versions \/ \E t \in Servers \ {s} : InTx(t)
    /\ UNCHANGED <<release, current, database, faults>>

ExecLoses(s) ==
    /\ At(s, "exec", "down")
    /\ file[s] \in versions \/ \E t \in Servers \ {s} : InTx(t)
    /\ UNCHANGED <<release, current, file, database, faults>>

\* INSERT of the version: its primary key waits for an uncommitted row of another
\* transaction ...
BadRecord(s) ==  \* ON CONFLICT DO NOTHING
    /\ At(s, "record", "commit")
    /\ ~\E t \in Servers \ {s} : pc[t] = "commit" /\ file[t] = file[s]
    /\ UNCHANGED <<release, current, file, database, faults>>

Record(s) ==
    /\ At(s, "record", "commit") /\ file[s] \notin versions
    /\ ~\E t \in Servers \ {s} : pc[t] = "commit" /\ file[t] = file[s]
    /\ UNCHANGED <<release, current, file, database, faults>>

\* ... and refuses a committed one: the rollback, and the end of the process.
RecordLoses(s) ==
    /\ At(s, "record", "down") /\ file[s] \in versions
    /\ UNCHANGED <<release, current, file, database, faults>>

Commit(s) ==
    /\ At(s, "commit", "loop")
    /\ versions' = versions \cup {file[s]}
    /\ schema' = Append(schema, file[s])
    /\ file' = [file EXCEPT ![s] = @ + 1]
    /\ UNCHANGED <<release, current, table, faults>>

\* The loop is over: Migrate returns nil.
Migrated(s) ==
    /\ file[s] > release[s] /\ At(s, "loop", "auth")
    /\ UNCHANGED <<release, current, file, database, faults>>

\* auth.NewManager: with OIDC it needs the discovery document of the provider.
NewManager(s) == At(s, "auth", "serve") /\ UNCHANGED <<release, current, file, database, faults>>

\* A statement, the ping or the discovery fails: os.Exit(1); or the process is killed.
\* Its transaction is rolled back, and of a commit whose answer is lost nothing remains
\* to be done either.
Stop(s) ==
    /\ pc[s] # "down" /\ pc' = [pc EXCEPT ![s] = "down"]
    /\ faults < MaxFaults /\ faults' = faults + 1
    /\ UNCHANGED <<release, current, file, database>>

StartStep(s) ==
    \/ New(s) \/ MissTable(s) \/ CreateTable(s) \/ CreateLoses(s)
    \/ ReadVersion(s) \/ SkipFile(s) \/ BeginTx(s) \/ Exec(s) \/ ExecLoses(s)
    \/ Record(s) \/ RecordLoses(s) \/ Commit(s) \/ Migrated(s) \/ NewManager(s)
    \/ \E r \in 0..MaxVersion : Launch(s, r)

AllServe == \A s \in Servers : pc[s] = "serve"

StartNext ==
    \/ \E s \in Servers : StartStep(s) \/ Stop(s)
    \/ AllServe /\ UNCHANGED startVars

StartSpec == StartInit /\ [][StartNext]_startVars

\* A process that can go on does, and the supervisor starts it again.
StartLiveSpec == StartSpec /\ \A s \in Servers : WF_startVars(StartStep(s))

-----------------------------------------------------------------------------
\* Every variable has the values its counterpart can hold.
StartTypeOK ==
    /\ pc \in [Servers -> Pc]
    /\ release \in [Servers -> 0..MaxVersion] /\ current \in [Servers -> 0..MaxVersion]
    /\ file \in [Servers -> 1..MaxVersion + 1]
    /\ table \in BOOLEAN /\ versions \subseteq Versions /\ schema \in Seq(Versions)
    /\ faults \in 0..MaxFaults

\* However many processes migrate at once, and wherever they die: each file is applied
\* at most once, in the order of the versions and without a gap, and exactly the files
\* applied are recorded.
AppliedOnceInOrder ==
    /\ schema = [i \in 1..Len(schema) |-> i]
    /\ versions = 1..Len(schema)

\* A process that serves requests has the schema of its image under it, even if another
\* process has applied the files or has been there with a newer image.
ServesMigrated ==
    \A s \in Servers : pc[s] \in {"auth", "serve"} => 1..release[s] \subseteq versions

\* The replicas past their migrations.
Up == {s \in Servers : pc[s] \in {"auth", "serve"}}

Rollout == INSTANCE Rollout WITH applied <- Len(schema), image <- release, up <- Up

\* Replicas that migrate one database at once, each with a version it has read once, behave
\* as if they took turns at the next migration, and come up only with all of their image
\* applied.
ImplementsRollout == Rollout!Spec

\* Processes that get in each other's way when they migrate all come up in the end.
AllComeUp == <>[]AllServe
=============================================================================
