------------------------------ MODULE Requests ------------------------------
(***************************************************************************)
(* What every request to a datasource goes through: it reads the           *)
(* configuration, asks for permission, takes a connection and runs         *)
(* statements, while reloads replace the configuration, the permissions    *)
(* and the metadata one after the other, and other requests share the      *)
(* connections.  QueryService and SchemaService add what is particular to  *)
(* queries and to listings; Service puts the two together.                 *)
(*                                                                         *)
(* There is one datasource and one user.  What a rule grants is            *)
(* PermissionService's, how connections come and go ConnectionService's    *)
(* matter: a check is one look at what is granted, and the pool of a       *)
(* datasource outlives reloads here.                                       *)
(*                                                                         *)
(* Definitions under "Wrong:" are variants with a plausible bug, not part  *)
(* of the specification; each shows which property catches it.             *)
(***************************************************************************)
EXTENDS Integers, Sequences

CONSTANTS
  Types,           \* the types of datasource to consider
  Requests,        \* numbered in the order they come
  Conns,           \* the physical connections of the pool
  Databases,       \* databases of the datasource
  NoDatabase,      \* the empty database parameter
  Tool,            \* a tool on the datasource
  Catalog,         \* what the server has: <<database>>, <<database, table>>, <<database, table, field>>
  Configurations,  \* of the datasource, what the user may see and the comments
  None,            \* no request, comment or answer
  MaxReloads,      \* bound, by the type of the datasource
  Admits           \* bound: what each request may be, by that type

\* GaussDB is like PostgreSQL here, TiDB and ClickHouse like MySQL.
SqlTypes == {"postgresql", "mssql", "mysql", "sqlite", "hive", "oracle"}
ExplainTypes == {"postgresql", "mssql", "mysql", "sqlite"}
NonSqlTypes == {"elasticsearch", "redis", "mongodb", "milvus"}

\* A thing a user may be granted; the empty path is the datasource.
Paths == {<<>>, <<Tool>>} \cup {<<d>> : d \in Databases} \cup Catalog

ASSUME TypesAssumption == Types \subseteq SqlTypes \cup NonSqlTypes
ASSUME CatalogAssumption == \A p \in Catalog : p[1] \in Databases
ASSUME RequestsAssumption == Requests \subseteq Nat /\ None \notin Requests
ASSUME ConfigurationsAssumption ==
  \A c \in Configurations : /\ c.datasource \in {"absent", "shadow", "open"}
                            /\ c.granted \subseteq Paths

VARIABLES
  type,     \* of the datasource
  snap,     \* the configuration in ConfigService
  perm,     \* the one PermissionService works with
  meta,     \* the one MetadataService works with
  reloads,  \* so far
  pool,     \* who uses a connection, and whether it only plans statements
  using,    \* the current database of the Milvus client
  req,      \* the requests
  since     \* history: the configurations each service had since a request came

config == <<type, snap, perm, meta, reloads>>
vars == <<config, pool, using, req, since>>

Sql == type \in SqlTypes

Ops == {"execute", "explain", "test", "tool", "databases", "schema", "table", "view", "list"}

ASSUME BoundAssumption ==
  MaxReloads \in [Types -> Nat] /\ Admits \in [Types -> [Requests -> SUBSET Ops]]

\* The order in which the handlers and services do their work.
Route(op) ==
  CASE op \in {"execute", "explain"} -> <<"config", "check", "connect", "send">>
    [] op = "test" -> <<"config", "connect", "send">>
    [] op = "tool" -> <<"handler", "check", "config", "connect", "send">>
    [] op \in {"databases", "table"} \/ (op = "view" /\ Sql) ->
         <<"check", "config", "connect", "send", "enhance", "filter">>
    [] op = "view" /\ ~Sql -> <<"check", "config", "enhance", "filter">>
    [] op = "schema" -> <<"config", "connect", "send", "enhance", "filter">>
    [] OTHER -> <<"filter">>

Stages == {"idle", "answered", "ended", "done",
           "handler", "check", "config", "connect", "send",
           "plan", "query", "rows", "close", "enhance", "filter"}

Blank == [pc |-> "idle", op |-> "none", db |-> NoDatabase, path |-> <<>>, limit |-> 0,
          attempt |-> 0, ran |-> None, sent |-> None, answer |-> None,
          left |-> {}, found |-> {}, shown |-> {}, comments |-> {}]

Nothing == [snap |-> {}, perm |-> {}, meta |-> {}]

Init ==
  /\ type \in Types
  /\ snap \in Configurations
  /\ perm = snap
  /\ meta = snap
  /\ reloads = 0
  /\ pool = [c \in Conns |-> [user |-> None, plans |-> FALSE]]
  /\ using = NoDatabase
  /\ req = [r \in Requests |-> Blank]
  /\ since = [r \in Requests |-> Nothing]

At(r, pc) == req[r].pc = pc
Active(r) == req[r].pc \notin {"idle", "done"}
Granted(path) == path \in perm.granted

Becomes(r, record) == req' = [req EXCEPT ![r] = record]
Goto(r, pc) == Becomes(r, [req[r] EXCEPT !.pc = pc])
\* An error or an answer without content.
End(r) == Becomes(r, [Blank EXCEPT !.pc = "ended"])

\* The stage after the present one.
Advance(r) ==
  LET route == Route(req[r].op)
      here == CHOOSE i \in DOMAIN route : route[i] = req[r].pc
  IN Goto(r, route[here + 1])

\* A request comes, one of each number, in order.
Comes(r, record) ==
  /\ At(r, "idle")
  /\ record.op \in Admits[type][r]
  /\ \A q \in Requests : q < r => ~At(q, "idle")
  /\ Becomes(r, record)
  /\ since' = [since EXCEPT ![r] = [snap |-> {snap}, perm |-> {perm}, meta |-> {meta}]]
  /\ UNCHANGED <<config, pool, using>>

Arrive(r, op, db, path, limit, pc) ==
  Comes(r, [Blank EXCEPT !.pc = pc, !.op = op, !.db = db, !.path = path, !.limit = limit])

-----------------------------------------------------------------------------
(* Configuration and permission.                                             *)

Direct(r) == req[r].op \in {"execute", "explain"}

\* GetDatasource, and the refusal of shadow datasources.
ReadConfig(r) ==
  /\ At(r, "config")
  /\ IF snap.datasource = "absent" \/ (Direct(r) /\ snap.datasource = "shadow")
     THEN End(r)
     ELSE Advance(r)
  /\ UNCHANGED <<config, pool, using, since>>

\* Wrong: looks at the datasource whatever the request is for.
CheckDatasourceOnly(r) ==
  /\ At(r, "handler") \/ At(r, "check")
  /\ IF Granted(<<>>) THEN Advance(r) ELSE End(r)
  /\ UNCHANGED <<config, pool, using, since>>

\* CheckTool, in the handler and in ExecuteTemplate; CheckDatasource,
\* CheckDatabase or CheckTable, by what the request is for.  Then a statement
\* is refused that the type of datasource cannot explain.
Check(r) ==
  /\ At(r, "handler") \/ At(r, "check")
  /\ IF Granted(req[r].path) /\ (req[r].op = "explain" => type \in ExplainTypes)
     THEN Advance(r)
     ELSE End(r)
  /\ UNCHANGED <<config, pool, using, since>>

\* GetSQLDB or GetNonSQLClient, which read the configuration again.
Connect(r) ==
  /\ At(r, "connect")
  /\ \/ snap.datasource # "absent" /\ Advance(r)
     \/ End(r)
  /\ UNCHANGED <<config, pool, using, since>>

-----------------------------------------------------------------------------
(* Statements.  A SQL statement has a connection of the pool to itself until *)
(* its rows are closed; the clients of the other types are shared.           *)

Mine(r) == {c \in Conns : pool[c].user = r}
Plans(r) == \E c \in Mine(r) : pool[c].plans
Pinned(r) == type = "mssql" /\ req[r].op = "explain"
\* The databases of SQLite are known without a statement.
Unasked(r) == type = "sqlite" /\ req[r].op = "databases"

\* QueryContext takes a connection for the statement, db.Conn for explainMSSQL.
Acquire(r) ==
  /\ Sql /\ ~Unasked(r)
  /\ At(r, "send")
  /\ \E c \in Conns :
       /\ pool[c].user = None
       /\ pool' = [pool EXCEPT ![c].user = r]
  /\ Goto(r, IF Pinned(r) THEN "plan" ELSE "query")
  /\ UNCHANGED <<config, using, since>>

SetPlans(r, on) == pool' = [c \in Conns |-> IF c \in Mine(r) THEN [pool[c] EXCEPT !.plans = on]
                                                             ELSE pool[c]]
Release(r) == pool' = [c \in Conns |-> IF c \in Mine(r) THEN [pool[c] EXCEPT !.user = None]
                                                        ELSE pool[c]]
\* The connection that is in the pool afterwards executes: it was reset, or
\* the driver found it broken and the pool opens another in its place.
Renew(r) == pool' = [c \in Conns |-> IF c \in Mine(r) THEN [user |-> None, plans |-> FALSE]
                                                      ELSE pool[c]]

\* No connection becomes free, or can be opened, in time.
NoConnection(r) ==
  /\ Sql /\ ~Unasked(r)
  /\ At(r, "send")
  /\ End(r)
  /\ UNCHANGED <<config, pool, using, since>>

\* SET SHOWPLAN_XML ON
PlanOn(r) ==
  /\ At(r, "plan")
  /\ \/ SetPlans(r, TRUE) /\ Goto(r, "query")
     \/ Release(r) /\ End(r)
     \/ Renew(r) /\ End(r)
  /\ UNCHANGED <<config, using, since>>

\* UsingDatabase of the Milvus client; an empty database is not selected.
Selects(r) == type = "milvus" /\ req[r].db # NoDatabase /\ req[r].op \in {"execute", "tool", "schema", "table"}
UsingDatabase(r) ==
  /\ At(r, "send")
  /\ Selects(r)
  /\ \/ using' = req[r].db /\ Goto(r, "query")
     \/ using' = using /\ End(r)
  /\ UNCHANGED <<config, pool, since>>

Ready(r) == At(r, "query") \/ (At(r, "send") /\ ~Sql /\ ~Selects(r))

\* The database a statement runs in.  Redis' client and SQLite's file have
\* one; what is asked for names Oracle's service, and there statements run in
\* the schema of the datasource's user.  Milvus' client has a current one.  The
\* others get the one asked for, or their default.
RunsIn(r) ==
  CASE type = "milvus" -> using
    [] type \in {"redis", "sqlite", "oracle"} -> NoDatabase
    [] OTHER -> req[r].db

\* The server runs the statement that Text admits.
Run(r, Text) ==
  /\ Ready(r)
  /\ \E text \in Text :
       Becomes(r, [req[r] EXCEPT !.pc = "rows", !.sent = text,
                     !.ran = [db |-> RunsIn(r), plan |-> Plans(r)]])
  /\ UNCHANGED <<config, pool, using, since>>

\* The rows are closed, or the statement has none: a pinned connection is
\* reset before it goes back, any other goes back.
Closed(r, record) ==
  IF Pinned(r)
  THEN UNCHANGED pool /\ Becomes(r, [record EXCEPT !.pc = "close", !.op = "explain"])
  ELSE Release(r) /\ Becomes(r, record)

\* queryWithRetry sends the statement once more when the connection was lost.
Retries(r) ==
  \/ req[r].op = "execute"
  \/ req[r].op = "tool" /\ type = "hive"

\* Wrong: tries until it works.
ConnectionLostForEver(r) ==
  /\ Sql
  /\ At(r, "query") \/ At(r, "rows")
  /\ Renew(r)
  /\ IF At(r, "query") /\ Retries(r)
     THEN Becomes(r, [req[r] EXCEPT !.pc = "send", !.attempt = @ + 1])
     ELSE End(r)
  /\ UNCHANGED <<config, using, since>>

ConnectionLost(r) ==
  /\ Sql
  /\ At(r, "query") \/ At(r, "rows")
  /\ Renew(r)
  /\ IF At(r, "query") /\ Retries(r) /\ req[r].attempt = 0
     THEN Becomes(r, [req[r] EXCEPT !.pc = "send", !.attempt = @ + 1])
     ELSE End(r)
  /\ UNCHANGED <<config, using, since>>

\* Wrong: the error path returns before the deferred close.
StatementFailsOpen(r) ==
  /\ Ready(r) \/ At(r, "rows")
  /\ End(r)
  /\ UNCHANGED <<config, pool, using, since>>

\* The server refuses the statement or breaks it off; a timeout does the same.
\* Redis' client makes no error of it when it asks for the databases.
StatementFails(r) ==
  /\ Ready(r) \/ At(r, "rows")
  /\ ~(type = "redis" /\ req[r].op = "databases")
  /\ Closed(r, [Blank EXCEPT !.pc = "ended"])
  /\ UNCHANGED <<config, using, since>>

\* Wrong: the connection goes back to the pool as it is.
PlanStays(r) ==
  /\ At(r, "close")
  /\ Release(r)
  /\ End(r)
  /\ UNCHANGED <<config, using, since>>

\* SET SHOWPLAN_XML OFF, with a context of its own, whatever came before; it
\* fails only when the connection is gone.
PlanOff(r) ==
  /\ At(r, "close")
  /\ Renew(r)
  /\ End(r)
  /\ UNCHANGED <<config, using, since>>

\* The answer goes to the client.
Return(r) ==
  /\ req[r].pc \in {"answered", "ended"}
  /\ Becomes(r, [Blank EXCEPT !.pc = "done"])
  /\ since' = [since EXCEPT ![r] = Nothing]
  /\ UNCHANGED <<config, pool, using>>

-----------------------------------------------------------------------------
(* A reload swaps the snapshot; its callback updates the permissions and     *)
(* then the metadata.                                                        *)

Seen(service, c) ==
  since' = [r \in Requests |-> IF Active(r) THEN [since[r] EXCEPT ![service] = @ \cup {c}]
                                            ELSE since[r]]

SwapSnapshot ==
  /\ reloads < MaxReloads[type]
  /\ perm = snap /\ meta = snap
  /\ snap' \in Configurations \ {snap}
  /\ reloads' = reloads + 1
  /\ Seen("snap", snap')
  /\ UNCHANGED <<type, perm, meta, pool, using, req>>

UpdatePermissions ==
  /\ perm # snap
  /\ perm' = snap
  /\ Seen("perm", snap)
  /\ UNCHANGED <<type, snap, meta, reloads, pool, using, req>>

UpdateMetadata ==
  /\ perm = snap /\ meta # snap
  /\ meta' = snap
  /\ Seen("meta", snap)
  /\ UNCHANGED <<type, snap, perm, reloads, pool, using, req>>

Reload == SwapSnapshot \/ UpdatePermissions \/ UpdateMetadata
=============================================================================
