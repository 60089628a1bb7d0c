# FinGuard in TLA+

FinGuard is one Go process. It follows the costs of Kubernetes namespaces and cloud
accounts, answers a REST API from a SQL database and from caches, and streams events to
WebSocket clients. The code is short; what is hard about it is that a dozen kinds of
goroutine share channels, maps, flags and tables with few locks and fewer transactions.
This project models those parts, model-checks them with TLC and proves the most important
properties with TLAPS, for every size of the instance.

Source paths below are relative to the repository; "map" in `PROJECT.json` ties every
definition to its lines.

## Inventory

| Part | Its state | Its operations | Interacts with |
|---|---|---|---|
| Event hub (`internal/stream/hub.go`) | map of clients under an RWMutex; per client a buffered channel, a topic map, a context | Register, Unregister, Publish, Broadcast, Subscribe, Len | called by every goroutine that publishes and by the WebSocket handlers |
| WebSocket endpoint (`internal/server/server.go`, handleStream, readPump, writePump) | one connection, two goroutines | accept, welcome, read subscriptions, pump messages | the hub |
| Plugin manager (`internal/plugin/manager.go`) and process start and end (`cmd/finguard/main.go`) | map of plugins, their contexts | Register, InitializeAll, bridgeEvents, ShutdownAll | plugins, hub |
| Budgets and cost breakdown plugins (`plugins/`) | last result under a lock, event channel of 100 | poll, check, store, announce, Shutdown | OpenCost over HTTP, the manager's bridge |
| Cost collection (`internal/collector`) | nothing but `running`; tables cost_sources, cost_records | Start, a goroutine per tick, collect, insert, stamp, publish | store, collectors, hub, API requests |
| Cluster cache (`internal/clustercache/cache.go`) | three informer stores, `ready` | Start, IsReady, reads | Kubernetes API server, readiness probe, handlers |
| OpenCost proxy (`internal/opencostproxy`) | `healthy` | health check, proxied requests | OpenCost |
| Start of a process (`cmd/finguard/main.go`, `internal/store/migrate.go`, `NewManager` of `internal/auth/auth.go`) | table schema_migrations, the schema itself | open the database, runMigrations, discover the provider, exit | other replicas over the database, the supervisor, the identity provider |
| Sessions (`internal/auth/auth.go`, routes of `internal/server/server.go`, `web/frontend/src/lib/api.ts`) | the key of each process; two cookies in each browser | login, callback, logout, middleware, user info | browser tabs, identity provider |
| First login (`provisionUser` of `internal/auth/auth.go`) | tables users, groups, group_members | callback, provisionUser, syncGroup | identity provider, store |
| Project API (`internal/server/projects.go`) | tables projects, project_roles, cost_sources | create, read, update, delete; members; sources | store |
| Store and schema (`internal/store`, `migrations/`) | the database | one statement or one transaction per method | everyone above |
| RBAC (`internal/auth/rbac.go`) | none | role checks | nobody: `NewRBAC` has no caller |
| Configuration, OpenCost mock, frontend, Helm chart, API documents | none that matters here | | |

What is hard to get right, and what makes each part correct:

- **Hub.** `Unregister` closes the channel of a client outside the lock; a publisher
  iterates with the lock held; a full buffer drops; `Subscribe` writes a map without the
  lock. Correct means: no send on a closed channel, no blocking of a publisher by a slow
  peer, per-publisher order with losses only at a full buffer, the filter applied, the
  welcome first, dead clients forgotten.
- **Plugins.** Shutdown closes a channel that a poll loop may be about to use; a bridge
  may stop with events left; a server that fails ends the process on the spot. Correct means:
  the bridge loses and reorders nothing, a client told of a result can read it, the process ends
  after a signal, and not before all plugins are shut down.
- **Collection.** Runs overlap, work on what they read earlier, and take the time of the
  stamp, not the end of the window, as the next start; that time is taken before the UPDATE that
  writes it has a connection, so stamps may be written out of order; sources disappear under
  them; the process dies between insert and stamp. Correct means: records never outlive their source,
  double counts and gaps only where runs overlap or a collection takes time, "complete"
  announced only after the records are there, one bad source does not stop the others.
- **Cache and health.** Fields are assigned while requests read them, a flag orders the
  two. Correct means: a request after a 200 of `/readyz` meets no missing store; flags and
  stores follow what they stand for.
- **Start.** Each replica reads the version once and then applies files one by one, next to
  others that do the same and may die anywhere. Correct means: each file applied once, in order,
  recorded with it; nobody serves on an older schema than its own; all come up in the end.
- **Sessions.** Nothing is stored by the server: a cookie is worth what the key of the process
  that reads it makes of it, and the state of a sign-in is in one cookie that all tabs share.
  Correct means: every replica admits exactly the fresh sessions; a sign-in is turned away for
  a reason.
- **First login.** Check-then-insert of users and groups by concurrent requests; two keys, subject
  and email, that may lead to different rows; a session that may not fit into its cookie. Correct
  means: one user per account as far as the keys agree, known accounts get in, claimed groups are
  joined.
- **Projects.** Read, merge, write back in two statements; delete in between. Correct
  means: sequential updates stay, deleted projects stay deleted, no orphaned roles.

The hazards are listed line by line in `PROJECT.json`, each with the properties that
would catch it.

## Modules

Each component module declares CONSTANTS with named assumptions, has one action per
operation (or per half of an operation where others can come between) and states its own
properties. `MC...` modules add only the values TLC needs, `...Proofs` modules the theorems.
Definitions named `Bad...` are used by no action: each is a plausible slip in the code of
the definition that follows it, and a property must fail when it takes that definition's
place.

### StreamHub: the hub and its WebSocket clients

State: `hubClients` is `Hub.clients`, `writer` the goroutine that has called `mu.Lock`;
per client `queue`/`closed`/`cancelled` are `Client.send` and `Client.ctx`, `topics` is
`Client.topics`, `handler` the program counter of handleStream + writePump + Unregister,
`reader` that of readPump, `conn` the connection; per publisher `pubPc`, `cur`, `todo` (the
rest of the range loop). `wire`, `dropped`, `asked` are history.

The RWMutex is modelled with Go's preference for writers: a waiting `Lock` keeps new
readers out (`CanRLock`) and waits for the old ones (`HasLock`). The log line of Register takes
the read lock once more, between the insertion and the welcome (`LogTotal`). A topic-map write has a
beginning and an end (`BeginTopic`, `EndTopic`), because readers come without a lock: in
between `subscribedTo` may see either map, or the Go runtime stops the process (`Fatal`).
A marshalled event is its publisher, its number and its topic.

### EventFeed: what the hub promises

The same service without its machinery: no lock, no program counters, no closing of channels, no
half-done map write. An event is owed to the members present when its publication starts, nobody leaves
while something is owed to it, an event is refused only by a filter, lost only at a full buffer
(the capacity, plus at most the one event writePump has in hand), and what was taken is
delivered in order after the welcome, or thrown away if the peer has left. `StreamHub` implements
it under the mapping `Feed`: `Readers` are the open publications, `todo` what is owed, hand and
buffer together are `Pending`, and the topics a peer has asked for are `wanted`, those written
`filter`; while a request is being applied either may decide. `Spec => ImplementsFeed` is
checked by TLC and proved.

### UserDirectory, CostLedger and Rollout: what three other components promise

Three more abstract specifications, each without the statements, stale reads and crashes its
component lives with:

- `UserDirectory`: finding or creating a user is one atomic step. A subject and an email have each one
  user at most, for good. Whoever asks gets the user of its subject, if there was one when it asked, and
  otherwise one with its subject or its email; without a fault a login is refused only if it began before
  either had a user and lost one of them to another login, or if its session does not fit into a cookie.
  `Provision` implements it (`ImplementsDirectory`): an INSERT INTO users is `Enter`, the end of the group
  statements `Answer` or `TurnAway`.
- `CostLedger`: a run enters the costs of a source at most once, at once, and only while the source is
  there; entries go only with their source; the mark of a source is set only while it is there, to a time that
  was the present once, and may fall behind an earlier mark; what was entered is announced after it is entered.
  `CostCollection` implements it (`ImplementsLedger`).
- `Rollout`: replicas take turns at the next migration, each only if its image has it, and come up with
  all of their image applied; a fault undoes no migration. `Startup` implements it
  (`ImplementsRollout`); a transaction is invisible there until its commit.

All three mappings are state functions of the detailed module; each refinement is checked by TLC and proved.

### Startup: several processes on one database

`pc` is the program counter of `main` up to the server's start and of `runMigrations` inside
it; `release` says how many files the image of a replica has. A file and its version row are one
transaction: `Exec` and `Record` change nothing that others see, `Commit` does. Two transactions
meet as they do in the databases used: the one that comes second waits for the lock, the
primary key or the DDL, and then fails (`ExecLoses`, `RecordLoses`) or, if the first was rolled
back, goes on. `CREATE TABLE IF NOT EXISTS` is two steps, `MissTable` and `CreateTable`: two processes
may both find no table, and the second may then fail in spite of the clause (`CreateLoses`), as
PostgreSQL does. Every error of the code ends in `os.Exit(1)`; `Launch` is the supervisor, which may
bring a newer image.

### Sessions: browsers and replicas

EXTENDS Startup: a replica serves when `NewManager` has chosen its key (`KeyOf`: 0 stands for the
configured secret, every other number for a key made up once). A browser has one
`finguard_oauth_state` and one `finguard_session` cookie and several tabs; the answer to a
callback is under way for a while (`answer`), so the cookies it sets may come after another
tab's. `auth` is the configuration. Provisioning is a single step here; Provision has its
statements. The cookies' ages are kept, on a clock of a few ticks.

### PluginLifecycle: main, the poll loops and the bridges

`main` is the program counter of `main()`, `left` the loop of InitializeAll or ShutdownAll;
per plugin `poll`, `item`, `checks`, `stored` are the poll loop and its last result, `events`
and `closed` the event channel, `bridge` and `hand` the goroutine bridgeEvents. The two kinds
of plugin differ in the order of storing and announcing (`EventFirst`). Costs are abstracted
to "alert or not". `ServerFails` is the goroutine of `srv.Start`: an error there, such as a port in
use, calls `os.Exit(1)` whatever `main` is doing, before or during the shutdown. `rp.cancel()` in
ShutdownAll is no step of its own: its context is a child of one already cancelled. `Hub.Publish` is
one step here; StreamHub is its detail, and `PublishReturns` there is why the step may be assumed to
end.

### CostCollection: scheduler, collectors, tables, API requests

The tables are sets and functions, each statement of `sql.go` is one action, with the
foreign keys and cascades of `migrations/000001_init.up.sql`. A run (`pc`, `kind`, `left`,
`todo`, `cur`) is the goroutine of one tick. Snapshots of a source carry the time they were
read (`snap`). All records of one collection stand for one record: they are inserted in one
transaction. The stamp is two steps: `TakeTime` evaluates `time.Now()` (scheduler.go:168), and
`UpdateCostSourceCollectedAt` writes that time when the statement has its turn, which may be after
another run's. `stamped` is history: which time was written for which collection, and when. Any
statement may fail, and the process may end at any step (`Crash`) and start again (`Start`).

### ClusterHealth: cache, probe, health check

`WatchResource` makes a store and runs its informer, which may sync before the field of the store
is assigned. That field is an interface value of two words: a request that reads it before
`EndAssign` may get nil, the store, or panic. The contents of a resource is the number of its
changes; informers are external, modelled as the code uses them: `Sync` copies what the API server
has, once the informer runs. `DetailedHealth` is the answer of handleDetailedHealth, of
which the liveness properties speak.

### Provision: OIDC logins

Each statement of provisionUser and syncGroup is an action; UNIQUE constraints decide the
races. An account is a subject and an email, and nothing ties the two together: accounts may share
an email (a new subject from the provider) or a subject (its email has changed). The row that is
found is never updated. A session carries all groups of its claims, and securecookie refuses a value
that is too long; `TooLong` says for which lists of groups (`Encoded`). `unseen` is history: the
claims a login looked up when they had no group. Sessions are not stored by the server.

### Projects: the project API

A row is a function from fields to the request that gave the value, so "whose value is
there now" is part of the state. handleUpdateProject is two actions, BeginUpdate
(GetProject) and UpdateProject (decode, merge, UPDATE); the other handlers are one statement
each, and may fail before it (`RejectBody`, 400) or in it (`StatementFails`, 500). `writes` and
`seen` record who wrote a row and what a merging request had read.

## Runs

| Run | Instance | What it shows |
|---|---|---|
| `hub_order` | 1 client, 2 publishers of 2 events, 2 topics, buffer 2 | welcome first, per-publisher order, nothing lost but at a full buffer; StreamHub implements EventFeed |
| `hub_live` | 2 clients, 2 publishers of 1 broadcast, buffer 1 | no send on a closed channel; a client is never unregistered behind its handler; Publish returns; a dead client with something to write is reaped |
| `plugin_life` | 2 plugins (one of each kind), 2 checks of 2 budgets, channel of 1 | the bridge is faithful; what is announced is stored (budgets: at most one check behind); the process ends after a signal; every event sent reaches the hub |
| `plugin_shutdown` | as above, channel of 2 | *violation*: the process can panic before every plugin is shut down |
| `collect_store` | 3 runs, at most 2 at a time, 1 project, 1 source, time 0..2, 1 fault | no orphans; double count only by overlap or behind a stamp that was moved back; gaps only while collecting; CostCollection implements CostLedger |
| `collect_live` | 1 run, 2 projects, 3 sources of the three kinds, 1 fault | each source of a run has its turn |
| `health_follow` | 3 stores, 1 change each, 1 flip of OpenCost | requests after a 200 are safe; flag and stores follow |
| `health_ready` | the same with no change | *violation*: after a 200 a request is answered from an empty store |
| `provision` | 3 logins, 3 accounts (two share an email, two a subject), 2 groups, of which a session takes one, 1 fault | Provision implements UserDirectory; one user per account; known accounts get in; why a group can be missing |
| `projects` | 5 requests, 2 ids, 2 names, a user and a group, 2 roles | only overlapping PUTs undo each other; no resurrection; no orphaned roles |
| `startup` | 2 replicas, 2 files, 2 faults | each file applied once and in order; Startup implements Rollout; all replicas come up |
| `sessions` | 2 replicas, 1 file, 1 fault; 2 tabs, 3 states, state cookie lives 1 tick, session 2, time 0..3; each of the three configurations | who is admitted by which replica; when a callback is turned away |

Why the bounds suffice. Every race of the code is between two actors, so two of each actor
occur, and a third where one sets the stage (a login that creates the user two others find;
five requests are create, two updates, delete and create again). `hub_order` takes two events per
publisher because order needs two, and a buffer of two under four events so that it fills and
drains. It has one client: no property relates two clients, and `hub_live` has two.
`EventCap = 1` fills at the second alert of a check, and two checks let a result be
superseded. In `collect_store` a stamp that waits can be passed by a whole second run, and the third
run, which must come after both, reads what they left; `MaxActive = 2` lets any two overlap and the
third follow. Its source is one because all of its properties speak of one source; `collect_live` has
three. Two ticks leave room for a window, an overlap with it and a stamp later than its end; one
fault is any single failed statement or one crash. The exception of `OneUserPerAccount` needs four
logins (one that takes the email of an account, that account, one that takes its subject, and the
account again), so in the run of three
the property holds without it and the exception is there for the proof, which covers every number
of logins. Three states are one
more than the tabs, so a sign-in can begin after both others; three ticks outlive a session. Two files
and two replicas let one process be overtaken between its read of the version and its second file.
Bounded
history (`asked`, `MaxEvents`, `MaxChecks`, `MaxFaults`) only ends behaviours early. The safety
properties that are proved do not depend on these bounds at all. Symmetry is used only in `hub_order`,
`collect_store`, `provision`, `projects` and `sessions`, which have no liveness property, over constants the modules (and the
abstract ones they implement) never tell apart.

Deadlock is checked in every run; a module that may really stop says when
(`Quiescent`, `Ended`). In `provision` that is also why every login ends: none of its steps leads
back to an earlier one, and only with all logins ended may the system rest.

Fairness. A goroutine that can run does: weak fairness per goroutine (publisher, pump,
reader, `main`, poll loop, bridge, run, Start, the health ticker, each informer, each starting
process together with its supervisor). This is
what the Go scheduler gives; channel operations and locks are enabled only where Go would
let them go on. HTTP calls end within their timeouts, so a fetch or a collection is allowed to
end, with any outcome. Nothing is assumed of signals, of poll tickers, of what makes the server fail,
of peers (a peer may never read and never leave), or of the requests and the cluster. The lock is
fair per holder, which Go's RWMutex guarantees: once a writer has announced itself, no new
reader comes before it.

## What the checks found

- **Shutdown panics** (`plugin_shutdown`, code bug). ShutdownAll closes the event channel of
  budgets (`plugins/budgets/plugin.go:109`) without waiting for the poll loop, which may be
  between its fetch and its send. A `select` with a send on a closed channel panics, in a
  goroutine nobody recovers: the process dies before the remaining plugins, the cache and the
  HTTP server are shut down. The same holds for cost breakdown.
- **Ready before synced** (`health_ready`, code and comment disagree). `/readyz` answers 200
  as soon as the informers exist; `/api/v1/cluster` then reports zero nodes.
- **A disabled login locks the page out** (seen in `Sessions`; not a run of its own). With
  authentication disabled (`make dev`, `README.md:203`) `main` still passes a manager, so
  `handleMe` (`internal/server/server.go:164`) asks `HandleUserInfo`, which finds no user and answers 401;
  `api.ts:11` sends the page to `/login`, which answers the JSON text "auth disabled". The
  branch of `handleMe` for a missing manager is never taken. `UserInContext` and
  `HandleLoginDisabled` are this behaviour.
- **Collections of the cloud collectors are stubs** that return no records without an error; the
  scheduler stamps `last_collected_at` all the same (`Collected`, `UpdateCostSourceCollectedAt`), so
  what such a source costs until they are written will not be collected later.
- **The end of a process can skip ShutdownAll** (seen in `PluginLifecycle`). When `srv.Start` returns
  an error its goroutine calls `os.Exit(1)` (`cmd/finguard/main.go:147`), at any time after the plugins
  were started. `AllShutDown` excepts it, so that its violation is the panic above.
- **`last_collected_at` can go back** (seen in `CostCollection`). `scheduler.go:168` takes the time of
  the stamp before the UPDATE has a connection. A run that waits there while another collects and stamps
  the source overwrites the later time, and the next run collects a stamped window again although it
  overlaps with nobody. `NoDoubleCountAfterStamp` says that this is the only way (`MovedBack`).
- **One account can meet two users** (seen in `Provision`). `provisionUser` looks for the subject and
  then for the email, and updates neither. If one user has the email of an account and another comes
  to have its subject, the account gets the first one's session and later the second one's.
- **Too many groups lock a user out** (seen in `Provision`). The session holds all group claims; when
  the encoded cookie is too long, `auth.go:194` answers 500, with the user already created, and so it
  does each time. `KnownAccountsGetIn` and `TurnAway` of UserDirectory name this case.
- The hub's topic map is written without the lock. `OnlyMapRaceStops` (StreamHubProofs) says that
  this, and nothing else in the hub, can stop the process.

Behaviour that the properties allow on purpose, because it is what the code does: two PUTs
that overlap lose one value (`LossNeedsOverlap` says that only they do); a PUT of a
description only can get 500, when the name it read has been taken meanwhile; a PUT or DELETE
of a project already deleted answers 200; the removal of a group without `subjectType`
removes nothing; replicas that start on an empty database at once may fail to create the table of
versions, and come up with their next start; groups are synced on the first login only, so a claim lost then stays lost;
collections that overlap count costs twice; costs of the time a collection takes may never be
collected, because the next window starts at the stamp; a connection whose peer has left stays
registered until an event is written to it; two tabs that sign in at once can turn each other
away; without a configured secret sessions end with the process, and are refused by other replicas.

## Proofs

All theorems hold for any values of the constants that satisfy the ASSUMEs of the module
(sizes are naturals, buffers are not empty, markers such as `None` differ from data; sources of
different types are different; a session without groups fits into a cookie). The assumptions are evaluated by TLC in the
runs. Every proof is by an inductive invariant, split by action.

| Module | Theorem | Why the invariant is needed |
|---|---|---|
| StreamHubProofs | TypeCorrect, SendsAreSafe, PumpIsAlone, OnlyMapRaceStops; LockNeverRests, NobodyOvertakenForEver | A publisher's range loop stays inside `hubClients` (`IterInv`), because only a lock holder removes a client (`LockInv`) and it waits for the readers; a client in the map is open (`MemberInv`, `ClosedInv`), because a handler closes it only after it has unlinked it. The same invariant shows that somebody can always move the lock on (`LockMovesOn`), and with it that the writers that may still go before a waiting publisher only get fewer (`WaitsRunOut`). |
| StreamOrderProofs | WelcomeIsFirst, PublisherOrderHolds, NothingIsLost, HubImplementsFeed | What a publisher has still to send to a client is newer than all that client was ever sent by it (`AllBehind`), because the event in hand is the publisher's latest (`Latest`) and the range loop visits a client once. `WelcomeInv` ties the wire to the handler's position. `FeedInv` says that nothing is owed outside a range loop and that only topics asked for are written; with it every step of the hub is a step of EventFeed or none (`FeedSim`), and a stream only grows while its peer is there (`StreamStep`). |
| PluginLifecycleProofs | TypeCorrect, BridgeIsFaithful, AnnouncementsAreStored; EndsInOrderOrPanics, BridgesKeepWorking | What is stored is the last check, or the one before while a check is being looked at (`CheckInv`), and what was sent, published or not, is at most that far ahead (`SentInv`). Nothing of a plugin runs before InitializeAll reached it (`StartInv`), and a bridge has an event in hand exactly while it publishes (`HandInv`). Channels are closed only after the signal, and a panic needs a closed channel and a poll loop that is about to send (`ShutInv`): a process that ends with a plugin left was ended by its failing server, or as `plugin_shutdown` shows. |
| CostCollectionProofs | TypeCorrect, OrphansNever, AnnouncedIsStored, DoubleCountNeedsOverlap, LossNeedsCollection; StoredOncePerRun, CollectionImplementsLedger, NoTurnIsLost | Ids are never used twice (`SpentOK`), so a deleted source does not come back under a stale run; what a run is about to stamp or announce is stored or its source gone (`InHandStored`). A collection is read, then its window ends, then the time of its stamp is taken, then it is written, and all of it is past (`ClockOK`). `last_collected_at` is the time of the stamp written last, not the latest time (`MarkOK`), and a window starts at the time of the last stamp its run could read (`BasisOK`): so who reads after a stamp starts at or behind its window, or at a time another stamp has moved back. Windows and the times collections take cover everything up to the moment of any stamp (`AllCovered`), wherever the times written lie. Projects and sources a run has dealt with are behind it for good (`OnceOK`): so a pair of run and source stands for one collection, and an insert is a new entry of the ledger. |
| ClusterHealthProofs | TypeCorrect, ReadyIsSafe | The stores before the next one to assign are assigned; the flag comes after all of them, the 200 after the flag, a trusted request after the 200 (`FlagOK`). |
| ProvisionProofs | TypeCorrect, AccountsHaveOneUser, KnownGetIn, MissingHasReason; ProvisionImplementsDirectory | No two users share a subject or an email, and the user a login holds has one of the two of its account (`UserInv`); users are never removed, so a known key stays known at each lookup (`KnownInv`); a claim is in the list, in hand, joined or explained, who is about to create a group found none, and a group is created by a login that had its claim in hand (`GroupInv`). The three together (`DirInv`) are what the refinement needs: a lookup finds a user the directory may answer with. |
| ProjectsProofs | TypeCorrect, OnlyOverlapLoses, DeletedStaysDeleted, RolesNeverOrphaned; RowsAreNotMixedUp | The copy of an update under way has what the writes it has seen gave, as far as nobody undid them (`CopyOK`); writers, seen or not, have ended, so they write once (`DoneOK`); the project of an update is there or deleted (`MergeOK`), and deleted rows are gone (`Gone`). Each field of a row, and of each copy under way, is as one of that project's own writers gave it (`OwnInv`). |
| SessionsProofs | StartTypeCorrect, MigrationsApplyOnce, ServingIsMigrated, StartImplementsRollout; StartsAsSpecified, TypeCorrect, SessionsAreHonoured, OnlyOverlapRejects | A loop never passes a file that is not applied, so the files below it are (`LoopOK`), and only one process at a time holds an uncommitted version row for a file that is not recorded (`CommitsAlone`); who is past its loop has all files of its image. Every step of Sessions is a step of Startup or none (`StepOfStartup`), so these hold there as well. Keys in cookies and in answers under way belong to a manager that was created (`SessionOK`); the state cookie of an undisturbed sign-in is its own (`FlowOK`). |

Only model-checked: the liveness properties of the runs, because neither fairness nor ENABLED
is in the prover's reach (`PublishReturns`, `DeadClientReaped`, `ShutdownEnds`, `EventsReachHub`,
`EverySourceHasItsTurn`, `HealthFollows`, `CacheFollows`, `AllComeUp`). Of three of them the
argument short of fairness is proved for every instance, so that what is left to TLC is that an
actor that can always go on does:

- `PublishReturns`: `LockNeverRests` (no circle of waiting at the lock) and `NobodyOvertakenForEver` (each
  turn of a writer, and each client of a range loop, is used up once and none is added).
- `EventsReachHub`: `BridgesKeepWorking` (until the signal, whoever has events to publish is at it).
- `EverySourceHasItsTurn`: `NoTurnIsLost` (a source on the list of a run leaves it only by its turn).

Every safety and action property of a passing run is a theorem. `ServesMigrated` and `CompleteIsStored`
are theorems without a run of their own: the refinement checked in their place
(`provision`, `startup`, `collect_store`) fails where they do. Cascades, UNIQUE constraints and the
atomicity of a statement are assumptions about the database, built into the actions.

## Not modelled, and why

- RBAC: the middleware is never constructed, so no request passes through it.
- Configuration, logging, JSON shapes, the OpenCost mock, the Helm chart and the generated API
  documents: no state that changes, or none of this program's.
- The frontend beyond `request` of `api.ts`: views without state of their own that the server sees. The one
  ordering hazard there (`Sources.tsx:36`, an older answer that arrives last) is listed and not modelled.
- The amounts of costs: `PluginLifecycle` knows "alert or not", so the thresholds of budgets and a
  zero limit (`plugins/budgets/plugin.go:148`), and an error answer that is read as no costs (`:209`), are
  listed as hazards without a property.
- The texts of queries (`rebind.go`): a pure rewriting, applied to constant texts of `sql.go`.
- Handlers that only read: lists, the proxied OpenCost requests, the configuration and summary
  routes of plugins. The reads a client makes after an event are in the properties instead: the
  cost summary of a project (`AggregateCosts`) and the stored results of the plugins (`Execute`).
- The cloud SDKs, client-go, the WebSocket library and the database: external, modelled by how
  the code uses them.

## Order of the work, and what is left

StreamHub, PluginLifecycle, CostCollection, ClusterHealth, Provision and Projects came first, with
their proofs; then Startup, Sessions and EventFeed; then UserDirectory, Rollout and CostLedger with their
refinement proofs, and the safety arguments under three liveness properties. Left for later:

1. `ProjectPages`: the requests the pages of the frontend have in flight, and what a page shows
   when the answers come in another order.
2. Pure modules checked against reference definitions over bounded inputs: the budget
   thresholds (zero limit, both boundaries), idle detection, `rebindQuery`, the role levels of RBAC.
3. The bridges of PluginLifecycle as publishers of EventFeed, in place of the single step
   `Publish`.
4. An abstract specification of ClusterHealth (a store once assigned is never taken away and only
   follows the cluster) and its refinement, and the argument under `AllComeUp`.
