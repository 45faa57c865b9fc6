# adb-link in TLA+

adb-link is a gateway between clients (HTTP and MCP) and databases. It keeps a
configuration that is reloaded while it runs, permission rules, a cache of
connections with a background health check, and asynchronous queries that clients
submit, poll and cancel; and it replaces its own executable. This directory holds
TLA+ models of these parts, the TLC configurations that check them on small
instances, and proofs for every instance. `PROJECT.json` maps each definition to its
lines of the source and lists the hazards the properties are for.

## The system

| Component | State | Operations | Talks to |
|---|---|---|---|
| Asynchronous queries (`services/async_query_service.go`) | map of entries (status, result, error, cancel function), cleanup loop | Submit, SubmitTool, the goroutine of a query, GetStatus, GetResult, Cancel, Start, Stop, the sweep | query execution; HTTP and MCP handlers call it |
| Connection cache (`services/connection_service.go`) | SQL connections, non-SQL clients, server metadata, health check | GetSQLDB, GetNonSQLClient, GetServerInfo, Invalidate, InvalidateAll, the health check, DisposeAll | reads the configuration; called by query execution, schema browsing, handlers, the reload callback |
| Configuration (`config/loader.go`, `watcher.go`) | immutable snapshot behind an atomic pointer, YAML files, callbacks, debounce timer | Reload, Register/Unregister/Persist/Remove of tools and datasources, the watcher | runs the callbacks under its lock |
| Permissions (`services/permission_service.go`) | users and rules behind an RWMutex | UpdateState, Check*, Filter* | replaced by the reload callback |
| Query execution (`services/query_service.go`) | none | Execute, Explain, ExecuteTemplate | permissions, configuration, connections |
| Schema browsing (`services/schema_service.go`) | none | GetDatabases, GetSchema, GetTableInfo, GetViewInfo | permissions, metadata, connections |
| Metadata (`services/metadata_service.go`) | comments of databases, tables, views and columns by bare name | UpdateState, Enhance* | replaced by the reload callback |
| MCP server (`mcp/`) | tool table, notification function | tools/list, tools/call, register_tool, ..., stdio and HTTP transports | every service |
| HTTP API (`api/`) | none | one handler per route | every service |
| Container and program (`services/container.go`, `cmd/adb-link`) | the watcher, signal handlers | start, stop, signals | owns every service |
| Self-update (`cmd/adb-link/update.go`) | the executable and its backup | download, rename, copy, remove | file system |
| Dialects, non-SQL clients, models, logging | none, or a driver's handle | I/O and text | databases |

How they interact: a request handler runs in a goroutine of its own and calls the
services directly. A reload (from the watcher's goroutine) stores a new snapshot and
then, still under the configuration's lock, calls back: the container's callback
replaces permissions and metadata and closes every cached connection, and the MCP
server's announces a changed tool list. Background goroutines are the watcher, the
health check, the cleanup loop and one per asynchronous query.

### What is hard, and what makes each part correct

* **Asynchronous queries.** Four parties (goroutine, clients, sweep, Stop) change
  one entry; clients use a pointer after the map's lock is released. Correct means:
  an accepted cancellation wins, a reported outcome is not revoked, a result is
  there when it is dereferenced, nothing is forgotten that still runs unattended,
  the map does not grow for ever, and every query comes to an end when it is
  cancelled, expires or the service stops.
* **Connection cache.** Configuration and connections are read under different locks;
  the health check pings without a lock; callers hold connections that others may
  close. Correct means: no connection leaks, none is cached dead, none is handed out
  for another datasource or database, a healthy connection is not evicted in place of
  a dead one, a dead one is evicted, a changed configuration takes effect, the
  shutdown ends.
* **Configuration.** A registration is a look-up, a store, a validation and a write
  of a file, each apart; a reload reads the files one by one under the lock while
  they are written without it. Correct means: what is served ends up as the files
  say, a rejected datasource leaves nothing behind, the rules in force are the
  snapshot's, an unregistered tool cannot be called, the watcher stops.
* **Permissions.** One decision reads users and rules under two locks. Correct
  means: a decision is one that a single configuration gives; a field granted
  implies its table, database and datasource granted; the swap during a reload does
  not grant what neither configuration does.
* **Queries and listings.** A request reads the configuration and the permissions
  several times while a reload replaces them one after the other, takes a connection
  from a pool that others share and may leave a setting on it. Correct means:
  nothing runs that was not granted, a listing shows what is granted, the setting
  does not reach another's statement, every connection comes back, an answer says
  whether it is cut, a template's parameters arrive where they belong.
* **Self-update.** Every call may fail and the process may be killed between any
  two. Correct means: a binary that runs is always there, an error leaves the old
  one, a success the announced one, and no temporary file stays.

## The modules

| Module | What it is |
|---|---|
| `QueryLifecycle` | abstract: what the service promises of an asynchronous query |
| `AsyncQuery` | the asynchronous query service; implements `QueryLifecycle` |
| `ConnectionService` | the connection cache among handlers, reloads, health check and shutdown |
| `PermissionService` | the rules, the checks and filters, and the reload that swaps the rules |
| `ConfigService` | snapshot, files, registration and removal, watcher and reload, the MCP tool table |
| `Requests` | what every request to a datasource goes through, among reloads and other requests |
| `ToolTemplate` | how a tool's template becomes a statement |
| `QueryService` | queries, explanations, tools and tests; extends `Requests` and `ToolTemplate` |
| `SchemaService` | listings, comments and their filters; extends `Requests` |
| `Service` | queries and listings composed, with their properties |
| `Update` | the self-update |
| `MC*` + `.cfg` | the instances for TLC: `MCAsyncQuery`, `MCConnectionService`, `MCPermissionService`, `MCConfigService`, `MCService`, `MCUpdate` |
| `*Proofs` | theorems: `AsyncQueryProofs`, `ConnectionServiceProofs`, `PermissionServiceProofs`, `ConfigServiceProofs`, `ToolTemplateProofs`, `ServiceProofs` (which extends it), `UpdateProofs` |

A component is modelled once in detail; where another module meets it, it is reduced
to what it promises there. `ConnectionService` has configurations as version
numbers, `ConfigService` opens no connections, `Requests` takes a permission check
as one look at what is granted (that a check is several looks is
`PermissionService`'s matter), and its pool outlives reloads.

### AsyncQuery

One action is one critical section. `queries` is the key set of `a.queries`, `entry`
the fields that properties tell apart (status, whether there is a result, whether
there is an error text), `ctxDone` whether the query's context was cancelled, `job`
the program counter of its goroutine, `age` the time since `createdAt` counted to
just past the TTL. `call` is the entry a client has looked up under `a.mu` and not
yet locked. `sweeper` and `expired` are the cleanup in progress: it holds `a.mu`
throughout and takes each `entry.mu` in turn, so an entry may be worked on, and not
looked up, while the sweep runs. `stopTodo` is the copy of the map that `Stop` works
off after releasing `a.mu`. `accepted` and `told` are history variables.

| Code | Actions |
|---|---|
| `Submit`, `SubmitTool` | `Submit`, `SubmitTool` |
| `runQuery`, `runTool` | `Begin`, `Return` (the database call), `Finish` |
| `GetStatus`, `GetResult`, `Cancel` | `Lookup`, then `GetStatus`, `GetResult`, `Cancel` |
| `cleanupLoop`, `cleanupExpired` | `BeginSweep`, `Forget` (per entry), `LoopExit` |
| `Start`, `Stop` | `Start`, `Stop`, `StopEntry` (per entry) |
| the clock | `Tick` |

`Return` leaves the outcome open even when the context is cancelled: the answer may
have been on its way. `Start` and `Stop` are called in turn by one goroutine, so a
`Start` waits for a `Stop` to finish. In the program each is called once
(`main.go`); the model lets them alternate, as the service's own guards
(`cleanupRunning`, `cleanupCancel`) allow for.

`QueryLifecycle` has no goroutines, contexts or locks: a query is open until it is
decided (succeeded or failed) or doomed (a client, Stop or its age cancelled it); a
decided query does not change, a doomed one ends cancelled. `Life` maps a query of
the service to this: one that is not done is open or doomed by whether its context
is cancelled, whatever status is displayed meanwhile.

### ConnectionService

A configuration is a version number per datasource (0: not configured). A connection
remembers the pair of datasource and database it was opened for (`owner`) and the
version its DSN was built from (`dsn`). Names are sequences of letters, one of which
is the colon, and `Key` joins those of a pair with `::` as the code does; the key of
a non-SQL client is the datasource's name. `KeysOf` is the comparison of prefixes in
`Invalidate`. `cache` is both `sqlConns` and `nonSQLClients`: the second differs in
having one key per datasource, no health check and constructors that need not ping.
`proc` is the place of each handler between the reads of the configuration, `cs.mu`,
the use of the connection and what it does with it: a query, server metadata with its
second `cs.mu`, or the trial of a registration. `health` is the health check: its
goroutine, the two fields `healthCancel` and `healthDone`, its context, the channel,
the snapshot it is working off, the key it is about to evict and its failure counts.
`fails` is a history variable: the failed pings in a row of each single connection.

| Code | Actions |
|---|---|
| `GetSQLDB`, `GetNonSQLClient` | `Get`, then `Hit`, `Open` or `OpenFails`, then `Used` |
| `GetServerInfo` | `GetServerInfo`, `Resolve`, then `Hit`, `Open` or `OpenFails`, `ReadInfo`, `StoreInfo` |
| `ConfigService.Reload` and its callback | `Reload`, `ReloadCallback` |
| registration of a datasource, over HTTP and MCP | `BeginRegistration`, `Register`, `Resolve`, then `Hit`, `Open` or `OpenFails`; without a connection `Undo`; with one `Validate`, then `InvalidateChanged`, or `Unregister` and `InvalidateChanged` |
| unregistration | `BeginUnregistration`, `Unregister`, `InvalidateChanged` |
| `StartHealthCheck`, `runHealthCheck` | `StartHealthCheck`, `HealthTick`, `PingSucceeds`, `PingFails`, `Evict`, `HealthExit` |
| `DisposeAll` | `StopHealthCheck`, `DisposeAll` |
| a database (external) | `Flip` |

The lock is held from the look-up to the insertion of a connection, ping included,
so `Open` is one action. `StopHealthCheck` is called from `DisposeAll` only, and
`DisposeAll` and `StartHealthCheck` once each, by the container.

### PermissionService

`users` maps each user to a group (`authUsersByName`, with `NoGroup` for a user who
has no entry, as `getUserGroup` answers), `permissions` is the rule list; both lists
and their order matter only as sets. A glob pattern is the set of names it matches,
so a rule has a set of datasources, databases, tables and fields; a list of patterns
is the union. `check` is the request: the names asked about, those left, those
granted, and for the name under way the group that was read and the decision. A
check is a filter with one name. `seen` and `since` are history variables: the
configurations in force during the check of one name, and since the request came.

| Code | Actions |
|---|---|
| `NewPermissionService`, `UpdateState` | `Init`, `UpdateState` |
| `CheckDatasource`, ..., `CheckTool`, `FilterDatabases`, ..., `FilterTools` | `Ask` (with the bypass when there is no user), then per name `GetUserGroup`, `Decide`, `Collect`; `Return` |
| `collectRules`, `collectTools`, the bodies of the checks | `CollectRules`, `CollectTools`, `CheckDatasource`, ..., `CheckTool` |

`getUserGroup` and the rest of `getUserPermissions` hold the read lock separately,
so they are two actions. What follows the second works on what was matched under it
and is part of `Decide`. `UpdateState` indexes users that come from a map keyed by
API key: of two keys with one user name either may win (`ByName`).

`Grants` says what a configuration grants without the code's helpers; the properties
compare decisions with it.

### ConfigService

A definition is who wrote it: a request, or the operator. `files` says what each
YAML file defines; a missing, half-written or invalid file defines nothing. `snap`
is the snapshot (tools and datasources by name, and the rules), `applied` the rules
the permission service works with, `tools` the tool table of the MCP server. `load`
is a reload under `cs.mu`: the next file and the snapshot under construction.
`watch`, `events` and `timer` are the watcher, the notifications it has not taken
and its debounce timer. `req` has the place of each request, `linked` whether the
file it is writing still has its name. `drift` and `before` are history variables.

| Code | Actions |
|---|---|
| `NewConfigService`, `LoadAll`, `loadFileInto` | `Init`, `LoadFileInto` |
| the handlers' look-ups, over HTTP and MCP | `RegisterTool`, `McpRegisterTool`, `RegisterDatasource`, ..., `UnregisterTool`, ... |
| `RegisterTool`, `RegisterDatasource` of the service | `Store` |
| validation by opening and pinging, and taking back | `Validates`, `ValidationFails`, `Undo` |
| `RegisterDynamicTool`, its removal | `ListTool`, `UnlistTool` |
| `PersistTool`, `PersistDatasource` (`os.WriteFile`) | `Truncate`, `Write`, `PersistFails` |
| `UnregisterTool`, `UnregisterDatasource`, `Remove...File` | `Delete`, `RemoveFile`, `RemoveFails` |
| `Watcher.Start`, `run`, `armDebounce`, `Stop` | `StartWatcher`, `TakeEvent`, `StopWatcher`, `WatcherExits` |
| `Reload` | `BeginReload`, `ReadDirFails`, `ReadFile`, `ReadFileFails`, `Swap`, `RunCallbacks` |
| the operator (external) | `Edit` |

A request holds `cs.mu` for one step and waits while a reload holds it; the files
are written without it. `os.WriteFile` truncates and then writes, and another
request may remove or truncate the file in between; two that write over each other
may leave something that does not parse.

`ServedIsOnDisk` compares the snapshot with the files when nothing is under way, but
for the names in `drift`, the known exceptions: a registration whose file could not
be written, a removal of a definition that another file has too or whose file could
not be removed, a rejected registration that took out what was there before, a file
that could not be read or a directory that could not be listed, and an edit before
the watcher was started. Each stays until the next reload, which empties `drift`. A
rejected registration takes out whatever is under its name, so it may undo a rival's
that was confirmed; the rival's file is then still there and the next reload brings
it back.

### Requests, QueryService, SchemaService, ToolTemplate, Service

One datasource of some type, one user, requests numbered as they come. `snap`,
`perm` and `meta` are the configurations that `ConfigService`, `PermissionService`
and `MetadataService` work with; a reload replaces the first, its callback the
others. A request is a record: its place, what it asks for, what it has sent, what
ran, what it has found, shows and answers. `Route` is the order of stages per kind
of request, as the handlers and services have it: a query looks at the configuration
before the permission, a table listing after it, a schema is not checked but
filtered. `pool` says who has a connection and whether SQL Server only plans on it,
`using` is the current database of the Milvus client. `RunsIn` is the database a
statement runs on: Milvus' current one; for Redis and SQLite, which ignore the
parameter, and for Oracle, which takes it for the service to connect to, none that
was asked for; the one asked for in the others. `since` is a history variable:
the configurations each service had since a request came.

| Code | Actions |
|---|---|
| the HTTP and MCP handlers | `ExecuteQuery`, `McpExecuteQuery`, `SubmitAsyncQuery`, ..., `ListTools` |
| `Execute`, `Explain`, `ExecuteTemplate`, `GetSchema`, ... up to the statement | `ReadConfig`, `Check`, `Connect` |
| `queryWithRetry`, `explainMSSQL`, `database/sql` | `Acquire`, `NoConnection`, `PlanOn`, `ConnectionLost`, `StatementFails`, `PlanOff` |
| `executeSQL`, `executeNonSQL`, the template's statement | `Execute`, `Scan` |
| `MilvusClient.Execute` | `UsingDatabase` |
| the catalogue queries of dialects and clients | `Describe`, `ReadNames`, `ReadTable`, `SkipView`, `NameMain` (SQLite, which asks nobody) |
| `Enhance...`, `Filter...` | `Enhance`, `Filter` (per name) |
| `ConfigService.Reload` and the container's callback | `SwapSnapshot`, `UpdatePermissions`, `UpdateMetadata` |

A limit is an integer with a largest value (`MaxInt`), and `limit + 1` wraps as the
code's does. `Fetched` says how many of a statement's rows arrive, by type; `Answer`
what is made of them. `ToolTemplate` has both ways of filling in parameters character
by character, because the property is about characters: `strings.ReplaceAll` in the
order of a Go map, and `convertNamedParams` with the driver's binding. `Meant` is the
reference: one pass in which every placeholder stands for its value. Where values are
bound the two agree for templates without a placeholder in a literal (`Unquoted`):
the database takes a marker between quotes for text (`Bound`), and so `Meant` and
what is run differ there. Oracle's driver binds none of the markers it gets
(`Understood`). Where nothing is bound they agree for calls that are `Clear`: no
value has a colon, names are words of letters, no name begins another placeholder or
is begun by one, and no colon stands right before a placeholder.

A file of metadata has comments for kinds and bare names, as `MetadataConfig` has
three maps; `Configured` takes the last file that has the thing. The file's
`database`, which the documentation shows, is in the model only to state what the
documentation says.

### Update

`exe` and `bak` are the files at the executable's path and beside it, with release,
platform, whether they are whole and executable; `dl` and `bin` the temporary files;
`run` what the run has found out and how it ended. Each call of `runUpdate`,
`downloadAndReplace`, `extractFromTarGz`, `extractFromZip` and `copyFile` is an
action with a failing twin; `Killed` may come anywhere, `Restore` is a person who
moves the backup back. `Matches` is what `selectAsset` asks of a name: the names
contain each other (`win` in `darwin`), so words are compared by containment.

## The runs

| Run | Checks | Bounds |
|---|---|---|
| `entries` | `TypeOK`, `ResultIffSucceeded`, `ForgottenIsHarmless`, refinement of `QueryLifecycle` (`ImplementsLifecycle`) | a query and a tool, one client, TTL 1, one start |
| `live` | `CancelWins`, `ReportedOutcomeHolds`, `OneCleanupLoop`, `ExpiryEndsRunaways`, `StopEndsQueries`, `EntriesAreForgotten`, refinement with fairness (`ImplementsFairLifecycle`) | one query, two clients, TTL 2, two starts |
| `cache` | `TypeOK`, `OpenIffCached`, `EvictsOnlyFailed`, `OutdatedOnlyLateOrUndone` | one key, two handlers (symmetric), two configurations, three connections, one failure evicts |
| `evict` | `RightDatabase`, `FailingIsEvicted` | a datasource with two databases, one of them with `::` in its name, and a non-SQL one, one handler, two failures evict, two connections |
| `checks` | `TypeOK`, `StableGroupDecision`, `FilterMixesOnlyInForce`, `GrantsAreNested` | one user, two groups, two tables and one name of every other kind, one request, four configurations |
| `config` | `TypeOK`, `RejectedIsGone`, `ServedIsOnDisk`, `UnregisteredIsUncallable`, `ChangesTakeEffect`, `StopEnds` | one datasource, one tool, one other file, two requests of any kind, one edit, one fault |
| `requests` | `TypeOK`, `StatementWasGranted`, `ListsWhatIsGranted`, `CommentsAreCurrent`, `ExplainOnlyPlans`, `ConnectionsComeBack`, `TruncationHonest`, `SentAsWritten` | every type of datasource, two databases with a table of one name, three configurations, one connection, one request of any kind and two reloads, on SQL Server a query or an explanation before or beside it and one reload, limits 0 and 2, largest int 2, two rows, six templates, one of them with a `::` and two with quotes |
| `update` | `TypeOK`, `NeverWithoutBinary`, `ErrorKeepsOld`, `UpdatedRuns`, `CleansUp` | three releases, one of which forgot to raise its version, five archives, four hosts |

Why the bounds are enough. Entries share nothing but the map, its lock, the sweep and
Stop's copy, so two of them show every interaction and one shows every race on an
entry; a race on an entry has at most a client that acts and one that observes; the
clock matters only as before and after the TTL; a second start is the first whose
predecessor may still be alive. Connections of different keys share the lock and the
reload; two of them on one key show a replacement, the third a replacement of the
replacement; two configurations show a stale one; `MaxFailures` 2 is the least at
which a count is carried from one round to the next. Permission checks share nothing
but the rules, so one request shows what reloads do to it; two tables are the least a
filter can mix; the four configurations move the user between groups, name the user
twice or not at all, grant by name, by group and by the empty group, and leave lists
empty. Names in the configuration share the files they are in, the reload and the
lock: a name's own file and another that defines it too are the places a definition
can be in, the file after it and the one before it are both read around a change, and
two requests for one name are the rivals; one fault shows each exception, and a
second only another of them. Requests for a datasource meet on a connection that has
a setting (SQL Server) and on Milvus' current database, and for one connection more
requests wait as one does, so there are two requests on SQL Server, of which the
first may leave the setting behind and the second may be of any kind, two in
`database_doc` and one elsewhere; two reloads put two configurations behind one
request; a table that two databases have and a view are the least that a look-up by
bare name and kind can confuse; the largest int is 2 so that both a limit below it
and the limit at it are requested. The templates have parameters of which one begins
the other, two apart, one that is not given, a colon before a placeholder, a
placeholder in a literal and one after a literal: the first, the third and the fourth
are not `Clear`, the fifth is not `Unquoted`. In `evict` no two pairs are joined to
one key, which the premise of `RightDatabase` leaves out; what the code does with
such names is among the disagreements below. `MaxStarts`, `MaxVersion`, `MaxConns`,
`MaxEdits`, `MaxFaults`, `MaxReloads`, `Admits` and `MaxRows` are bounds of the
models; `TTL`, `MaxFailures`, `HandlerLimit`, `ServiceLimit` and `MaxInt` parameters
of the code. The proofs do without values for any of them.

Each property of these runs is shown to depend on the code by a variant of one
definition with a plausible bug ("Wrong:" in the modules, "mutants" in
`PROJECT.json`).

Deadlock is checked but in `config`, `requests` and `database_doc`: there requests
are finitely many and the watcher may be stopped, so the system really may come to
rest. In the others clients, databases and starts keep stepping; termination is
stated as liveness.

### Where the code and its documentation disagree

| Run | Statement | What happens |
|---|---|---|
| `reload_doc` | "invalidate cached connections so DSN/credential changes take effect" (`container.go:48`) | a handler that read the configuration before the reload caches a connection to the old one after it |
| `dispose_doc` | "DisposeAll closes all cached connections" (`connection_service.go:341`) | `StopHealthCheck` clears `healthDone` before it waits on it; the goroutine then closes nothing and the wait never ends |
| `swap_doc` | "so that ConfigService hot-reload can swap the rule set without race conditions" (`permission_service.go:17`) | a check that reads the group before a reload and the rules after it decides what neither configuration says |
| `database_doc` | "Execute a query on a specified datasource and database" (`tools.go:121`) | two requests share a Milvus client; one selects its database between the other's selection and its query (`milvus_client.go:105`) |

The counterexample of `dispose_doc` is not a race: every shutdown after the health
check was started hangs there, which `DisposeEndsUnstarted` proves. What does hold in
place of the others is stated as well: of `reload_doc`'s statement, that only a
handler that read the configuration before the change, or a registration that is
taken back without an invalidation, leaves the old one cached
(`OutdatedOnlyLateOrUndone`); of the eviction comment, `EvictsOnlyFailed`; of the
permissions' comment, `StableGroupDecision`; of the statements below on keys,
comments and templates, `RightDatabase` with the premise that no datasource has a
colon in its name, `CommentsAreCurrent` and `SentAsWritten`.

Disagreements met while modelling that have no run, because they are of words, of a
single statement, or are in the model as an exception:

* "GetSQLDB returns a cached *sql.DB for the given datasource and database"
  (`connection_service.go:39`): database `b::a` of datasource `a` and database `a` of
  datasource `a::b` have one key (`:55`), and one gets the other's connection (`Key`).
* The database parameter is the "schema for Oracle" (`tools.go:124`): it is the
  service to connect to (`oracle.go:22`), and the statement runs in the schema of the
  datasource's user; Redis and SQLite do not look at it (`RunsIn`).
* Metadata is for the tables of one database (`docs/configuration.md:181`): things
  are looked up by their bare names (`metadata_service.go:88`), so a table of another
  database gets the comment (`Configured`).
* `INTERVAL ':days days'` in a tool's template (`docs/mcp-tools.md:264`): the
  placeholder becomes a marker inside the literal, which the database takes for text
  (`Bound`).
* "positional placeholders the driver supports" (`query_service.go:408`): Oracle gets
  `?` (`:460`), which its driver does not bind (`Understood`).
* A query cancelled while pending is shown as running when its goroutine starts,
  until it ends (`async_query_service.go:149`; `docs/openapi.yaml:449` "Cancels a
  pending or running async query"). The cancellation itself holds (`CancelWins`).
* The count of failed pings belongs to the key, so a re-opened connection inherits
  its predecessor's failures and is evicted early (`connection_service.go:325`; the
  comment at 252 speaks of connections).
* `docs/mcp-tools.md:176` lists the status `completed`; the service says
  `succeeded`, so a client that polls for `completed` polls until the entry expires.
* "deletes the config file" (`tools.go:411`): a datasource defined in another file
  than its own comes back with the next reload (`drift`).
* "The connection is validated before registration" (`tools.go:336`): it is
  registered first and taken back when the validation fails.
* `docs/mcp-tools.md:249` says a tool registered over "API or MCP" is listed at
  once: one registered over HTTP is not in the MCP tool table, and one removed over
  HTTP or by an edit stays callable there with its old definition, also against
  `docs/configuration.md:203` ("Add/remove custom tools" as a hot reload).
* `docs/configuration.md:151` gives a tool's statement the key `sql`; the code reads
  `template`.
* `docs/configuration.md:179` shows tables and columns of metadata as lists;
  `MetadataConfig` has maps by name, as `conf/metadata.yaml` writes them, and no
  `database`.
* `README.md:114` promises access control on fields: `GetSchema` shows the columns
  of every table it may show.
* `docs/mcp-tools.md:288` lets "Empty/anonymous users" pass every check; the checks
  let an empty name pass (`Ask`), and queries turn an empty name into `anonymous`
  first, which has to be granted.

### Fairness

`AsyncQuery.FairSpec`: the goroutine of a query begins and finishes (Go's scheduler
runs it, `entry.mu` is held for short), the sweep and a Stop go on, the clock
advances and the ticker of a live loop fires. Of databases only this is assumed: a
statement whose context is cancelled returns. A statement that is not cancelled may
run for ever, and no client, Start or Stop is bound to act; that is why
`ExpiryEndsRunaways` and `EntriesAreForgotten` allow for the loop being stopped.

`ConnectionService.FairSpec`: the health check's goroutine runs, its ticker fires,
each ping returns (it has a timeout of three seconds), and `DisposeAll` goes on when
the channel is closed. A ping may fail at any time, but can succeed only while the
database answers, so `FailingIsEvicted` has the database that comes back as one way
out. No handler, reload or shutdown is bound to happen.

`ConfigService.FairSpec`: a request that came runs to its end (its calls are of the
file system, and the ping of a validation has a timeout), and the watcher's
goroutine is scheduled. One assumption is not the code's own: the last callback
writes a notification to the standard output under `cs.mu`, and a client that does
not read it blocks everything (`RunCallbacks` is taken to return). Arrivals, edits
and the stop are not bound to happen, and they are finitely many: files that change
more often than every half second postpone the reload for ever.

`Service` and `Update` state safety only. A query over HTTP ends with its timeout,
but nothing in the code makes a listing or the update's download end: their contexts
have none.

All fairness is weak, per actor.

## The proofs

`AsyncQueryProofs` proves for every `Queries`, `ToolQueries`, `Clients`, `TTL` and
`MaxStarts` that satisfy `AsyncAssumption`: `TypeOK`, all the safety invariants of
the runs, and that every behaviour implements `QueryLifecycle!Spec`. None of the
invariants is inductive alone. The inductive one, `Inv`, adds:

* `JobMatchesStatus`: what an entry may show at each point of its goroutine. Without
  it nothing says that a status `cancelled` before the end goes with a cancelled
  context.
* `KnownAreSubmitted`: everything in the map, in a sweep, in Stop's copy or held by
  a client was submitted, so that an action on it does not touch an entry yet to be.
* `AcceptedIsCancelled`: the context of an accepted cancellation is done, and its
  entry is not decided. This is what `CancelWins` rests on: the goroutine asks the
  context after the answer, so it sees every cancellation that came before.
* `ToldIsBacked`: what was told is still so, or is `cancelled` with a cancelled
  context.
* `SweepIsDue`: what a sweep is about to forget is past its TTL.

The refinement is proved step by step: each action maps to the step of the life
cycle named in its proof or to a stutter, from `Inv`.

`ConnectionServiceProofs` proves, from `ConnectionAssumption`, `TypeOK`,
`OpenIffCached`, `RightDatabase` and the action property `EvictsOnlyFailed`.
`OpenIffCached` is strengthened to `Inv`: a cached connection is open, was opened for
that key and has a number in use (`CachedAreOpen`), an open one is cached
(`OpenAreCached`), a connection in use has a number in use and an owner with the key
it is used for (`UsedAreOwned`); the numbers make the next connection a fresh one.
Removing any set of keys from the cache preserves this (`CloseKeepsInv`), which
covers invalidation, eviction and disposal at once. `EvictsOnlyFailed` rests on a
second invariant, `EvictingHasFailed`: between the failed ping and the lock, the
connection about to be evicted has a failed ping of its own.

`NoMixup` is about the joined keys. From `Inv` the owner of a connection in use has
the key of the pair that is asked for; `JoinedOnce` shows of names of any length that
two pairs with one joined text are one pair if neither datasource has a colon in its
name: the first colon of the text is where the datasource ends. Without the premise
it is not true, as the first of the disagreements that have no run shows.

Two more of its theorems say what is true where `reload_doc` and `dispose_doc` show
that a comment is not. `OnlyLateOrUndone` is a pair of action properties: with every
change of a datasource applied (`Applying` is false), a cached connection, or server
metadata, becomes outdated in no other step than the `Open`, or the `StoreInfo`, of a
handler that read the configuration before it changed, or the `Undo` of a
registration that got no connection. `Fates` says of every step what it does to one
datasource: it is under a change, is as it was, has nothing cached any more, or is
undone; an invalidation leaves nothing of it in the cache because the prefix
finds every key of the datasource (`InvalidateFinds`). `CachedOrOpened` and
`KeptOrStored` say where what is cached after a step comes from.
`DisposeEndsUnstarted` says that a shutdown comes to its end only where no
health check was ever started. Its invariant, `Unclosed`, follows the two fields
`healthCancel` and `healthDone` and the channel: the goroutine finds the field
already cleared, so nobody closes the channel that is waited on.

`PermissionServiceProofs` proves, from `PermissionAssumption` and for any users,
rules, configurations and requests, `TypeOK`, `GrantsAreNested`,
`StableGroupDecision` and `FilterMixesOnlyInForce`. `PermittedIsGrants` shows that
what the code collects, matches and checks is what `Grants` says; `GrantsAreNested`
needs only the shape of the four checks (`RulesNest`) and no invariant. The other
two rest on `Inv`, which says of a request what it knows at each point: between the
locks the configuration in force is among those seen and the group is that of one of
them (`Halfway`); after them the decision is one that a configuration seen gives
(`Decided`); every name settled so far is shown or not as a configuration in force
since the request came has it, and no name still to be checked is shown
(`Collected`). The premise that the group did not change is what turns the group
read into that of the rules read (`DecisionJustified`), and `swap_doc` shows that it
cannot be left out.

`ConfigServiceProofs` proves, from the five assumptions of `ConfigService` and for
any files, names, requests and edits, `TypeOK`, `RejectedIsGone`, `ServedIsOnDisk`,
`UnregisteredIsUncallable` and `RulesFollowSnapshot`, which no run checks: outside of
a reload the rules in force are those of the snapshot. Two
inductive invariants are used. `Inv` says where a registration may be: in a file
only once its validation is over (`FilesConfirmed`), in the snapshot that a reload
is building likewise (`LoadConfirmed`), in the snapshot only under its own name and
from its store on (`SnapRegistered`); a rejected one has passed its `Undo`, and
nothing but the store puts it anywhere. `BeforeConfirmed` and `Uncallable` say of a
removal that the tool table has lost what was confirmed before it; `RulesApplied`
that the rules lag only while the callbacks are due. `DiskInv` is about the disk.
`Served` says of each name that the snapshot agrees with the files unless something
is on its way that will bring them together: a notification, the armed timer, a
request between its change of the snapshot and of its file, or `drift`; and of a
reload under way that what it has read so far is the last definition in the files it
has read (`LastOf`), or a notification is on its way. `LastOf` describes the choice
of the last file by quantifiers, so that one more file read is a step of the
invariant and no induction over the sequence is needed; that a finite set of places
has a last one comes from the well-founded order of the naturals.

`ServiceProofs` proves, from the assumptions of `Requests`, `QueryService` and
`SchemaService` and for any types of datasource, requests, connections, catalogs,
configurations, limits, numbers of rows and templates, `TypeOK`,
`StatementWasGranted`, `ListsWhatIsGranted`, `CommentsAreCurrent`,
`ExplainOnlyPlans`, `ConnectionsComeBack`, `TruncationHonest` and `SentAsWritten`.
`Inv` has two halves. `ReqInv` is about one request and what it has seen:

* `OnRoute`: which kinds of request come to which stage; from it `Advances` reads
  off the next stage of every route.
* `Cleared`: past the check, the path is granted by a configuration seen; past the
  look at the configuration, the datasource was open in one. This is what makes
  `StatementWasGranted` inductive along routes that have the two in different
  orders.
* `Filtered`: what the filter has settled is shown or hidden as a configuration seen
  has it, and nothing still to be settled is shown.
* `Commented`, `Planned`, `Honest`: the statements of the properties, per request.
  That the greatest number of a file that has the thing is what `Gives` describes is
  `ConfiguredGives`.

All of it is monotone in what was seen, so a reload preserves it (`GrowsHolds`), and
it speaks of no other request, so a step of one preserves that of the others
(`OthersHold`). `PoolInv` is about the pool: a connection is taken only by a request
between `plan` and `close`, one that plans is an explanation's which has switched
the setting on, and an explanation about to query has one that plans. `PoolStays`
and `PoolLetsGo` cover every step but the two that take a connection and set it.

`SentInv` is a third invariant: what a request has sent for a tool was made of a call
by one of the two ways of filling in parameters, the one for its type. With the two
theorems on templates below it gives `ToolsSentAsWritten`.

`ToolTemplateProofs` proves what the two ways of filling in parameters compute, for
every text, every set of parameters and every value. `BoundMeans`: what
`convertNamedParams` makes, with the driver putting the arguments where the markers
are, is what the template means, with `?` as with numbered markers and without any
condition on names or values, as long as no placeholder is in a literal
(`Unquoted`). `SubstitutedMeans`: where the call is `Clear`,
replacing one parameter after another is too, in whatever order Go's map yields
them. `CharsAssumption` is assumed: a colon is not a letter of a name, and no
character of a template or a value is itself a marker of the driver (markers are
numbers in the model, and a `?` of the template's own is left out). So is
`CallsAssumption`, that templates, names and values are texts and the parameters of
a call are finitely many. The recursion is written with recursive functions; that
there is one, with the equations its definition states, is shown by putting it
together place by place (`RecursionDefines`, `PiecesDefine`). The library's
induction theorems take an operator as a parameter, so induction over a text is done
with a set instead: the places where a claim holds are all of them, because there is
a least one where it would fail (`UpInduction`, `DownInduction`, from
`NatLessThanWellFounded`). The steps of the argument:

* a scan passes a placeholder at once and copies everything else (`ScanStepEffect`);
  two scans of one text, one that puts markers and one that puts values, go in step,
  and binding what the first has made gives what the second has (`BindFollows`), the
  quotes that the database has counted being those of the template so far;
* a text with a rendering, in which some parameters stand for their values and the
  others for themselves, is turned by the replacement of one more parameter into the
  rendering with that parameter too (`ReplaceRendered`, which is where `Clear` is
  needed); with none replaced it is the template (`RenderNone`), with all of them
  what is meant (`RenderAll`);
* an order of the parameters has each of them once (`OrdersHaveAll`).

The proof corrected the premise. `Clear` once asked of names only that none begins
another parameter, and of the text nothing: `::b` with the parameters `a` and `b`,
where the value of `b` begins with an `a`, becomes `:a...` and is then replaced
again, and `:a:b` with the parameters `ab` and `b` puts a name together when the
value of `b` is `b`. TLC found both when asked, and the fourth template of `requests`
is the first of them.

`UpdateProofs` proves, for any releases, archives and hosts, `TypeOK` and the four
invariants from `IInv`: where the old binary is at every call (`Kept`), what the
temporary files hold (`Extracted`), what the new binary is on its way (`Installed`)
and what has failed by then (`Reported`). `MatchesOwn` shows of the patterns that
only an archive of the very platform matches.

Only model-checked: the liveness properties (`ExpiryEndsRunaways`,
`StopEndsQueries`, `EntriesAreForgotten`, `FailingIsEvicted`, `ChangesTakeEffect`,
`StopEnds`) and the refinement with fairness (`ImplementsFairLifecycle`), which need
fairness and ENABLED and are out of this prover's reach. Every other property of the
passing runs is a theorem.
`AsyncQuery`'s clock is one number per entry that saturates past the TTL; the proofs
are about that clock.

## What the properties leave open

Behaviour that is in the models or was met while reading, and that no document
speaks about or that a property names as its exception:

* The TTL counts from the submission, so a long query is cancelled by it, and a late
  result is kept for less. A submission after Stop is accepted and nobody's.
  Submitting does not check the permission; the query does when it runs.
* A connection is used after `cs.mu` was released and may be closed by then; one may
  be opened after `DisposeAll`. The lock is held during the ping of a new
  connection. `Invalidate` matches by prefix (`KeysOf`): datasource `a` closes the
  connections of one named `a::b` too. A registration that got no connection is taken
  back without an invalidation (`Undo`).
* Of two API keys with one user name and different groups either wins, by the order
  of Go's map.
* Stop waits for a reload. An overflow of inotify's queue is only logged. A tool
  registration between the change of the configuration and of the tool table, and a
  removal in between, leaves the tool listed; `UnregisteredIsUncallable` is about
  tools confirmed before.
* At the largest int `limit + 1` wraps: SQL then fetches nothing and reports no cut,
  Elasticsearch refuses. Redis cuts arrays without a word. Milvus is asked for no
  more rows than the limit, so it reports a cut only where the query has a larger
  limit of its own, and shows the hits of the first vector only. A MongoDB request
  may bring a limit of its own, documents that do not decode are skipped and the
  cursor's error is not looked at. SQL templates are not limited.
* A statement whose connection broke is sent again whether or not it was executed.
* Names of which one begins another, values with placeholders in them, and
  placeholders right after a colon are filled in by map order where nothing is bound
  (`Clear` is the premise of `SentAsWritten`). `::type` is taken for a placeholder in
  every template; PostgreSQL's casts are read so too. `Quote` is the single quote:
  comments, identifiers in double quotes and PostgreSQL's dollar quotes, in which a
  marker is not a parameter either, are left out, and so is ClickHouse's driver, which
  also replaces the `?` inside a literal.
* Catalogue loops of several dialects do not look at `rows.Err`, so a listing that
  breaks off looks complete; Oracle's statement for databases has a column less than
  is scanned, so the listing always fails. Redis is shown with one database when it
  cannot be asked how many there are, Elasticsearch with its cluster's name, SQLite
  with `main`. With an empty database only the
  datasource is checked.
* Switching SQL Server's setting on may time out after the server has done it; the
  driver then gives the connection up (`Renew`).
* The archive for a platform is found by words its name contains: `win` is in
  `darwin`, which the suffix `.zip` makes harmless (`Matches`), and `arm` is in
  `arm64`, so that a 32-bit ARM host, which releases are not built for and
  `Platforms` leaves out, would be given the archive for `arm64`.
* Two updates at once are not kept apart. The rollback's rename is not looked at.
  Close and fsync errors are ignored. The version is a constant in the source (so
  the linker flag has no effect), and any difference from the latest tag counts as
  newer.
* Over stdio one request is answered at a time, and a last line without a newline is
  dropped.

## Not modelled

SQL texts (but for templates), rows, audit lines and error texts; goroutine-local
data; what drivers do on a connection. In `AsyncQuery`, what `Execute` does
(`Requests` has that). In `ConnectionService`, dialects and pool options, the default
database of an empty name (it is resolved before the key is made; `Default` is the
pair), the change of a datasource's type, the persisting of a registration
(`ConfigService` has it), and failing look-ups of a dialect, which leave no trace. In
`PermissionService`, the matching of a glob (`filepath.Match`) and malformed
patterns, which match only themselves. In `ConfigService`, what a definition says,
names that clash with other files, and invalid YAML other than as a file that defines
nothing. In `Requests`, server information added to a listing, comments of columns
(looked up like those of their table) and the timeouts' lengths. Of the HTTP and MCP
layers, decoding, encoding, authentication and the transports. Settings, middleware,
the API documentation, the program's flags and signals, the dialects whose catalogue
loops are like MySQL's, and the models, errors and logging have no behaviour of their
own to check. `PROJECT.json` lists the components without a module, with reasons.

## Plan

Done, the most important behaviour first: `AsyncQuery` with `QueryLifecycle`,
`ConnectionService`, `ConfigService`, `PermissionService`, query execution and
listings (`Requests` to `Service`), the tool table (in `ConfigService`), `Update`;
each with proofs of its safety.

Left:

1. `Container`: start and stop of all services with handlers under way, composing
   `AsyncQuery`, `ConnectionService` and `ConfigService`; `dispose_doc` shows that
   its stop does not return as it is.
2. The stdio transport: one request at a time against notifications that are written
   under `cs.mu`, with a pipe that may be full.
