---------------------------- MODULE SchemaService ----------------------------
(***************************************************************************)
(* Listings: datasources, tools, databases, the schema of a database and   *)
(* the columns of a table or view, with the comments of the metadata and   *)
(* without what the user may not see.  Requests has the stages that they   *)
(* share with queries.                                                     *)
(***************************************************************************)
EXTENDS Requests, FiniteSets, FiniteSetsExt

CONSTANTS
  Views,         \* the tables of the catalog that are views
  MainDatabase,  \* the one a server without names for its databases is shown with
  OwnComment     \* what the server says of a thing: a comment or None

ASSUME MainDatabaseAssumption == MainDatabase \in Databases
ASSUME MetadataAssumption == \A c \in Configurations : c.metadata \in Seq(Range(c.metadata))

\* A file of metadata has comments for <<kind, name>>: of databases, of tables
\* and of views, whatever database they are in.  That it says a database itself
\* is not looked at.
Kinds == {"databases", "tables", "views"}

Kind(op, p) ==
  CASE op = "databases" -> "databases"
    [] op = "view" \/ (op = "schema" /\ Sql /\ p \in Views) -> "views"
    [] OTHER -> "tables"

Thing(op, p) == <<Kind(op, p), p[Len(p)]>>

\* MetadataService.UpdateState: of several files the last one that has the
\* thing counts.
Having(c, thing) == {i \in DOMAIN c.metadata : thing \in DOMAIN c.metadata[i].comments}

Configured(c, thing) ==
  IF Having(c, thing) = {} THEN None ELSE c.metadata[Max(Having(c, thing))].comments[thing]

-----------------------------------------------------------------------------
(* Arrival.                                                                  *)

ListDatabases(r) == Arrive(r, "databases", NoDatabase, <<>>, 0, "check")

GetSchema(r) == \E db \in Databases : Arrive(r, "schema", db, <<db>>, 0, "config")
McpListDatabases(r) == ListDatabases(r)
McpGetSchema(r) == GetSchema(r)

Tables == {p \in Catalog : Len(p) = 2}

\* GetTableInfo and GetViewInfo, which checks the table too and, where there
\* are no views, makes up one without columns.  Either takes either's name.
GetTableInfo(r) == \E p \in Tables : Arrive(r, "table", p[1], p, 0, "check")
GetViewInfo(r) == \E p \in Tables : Arrive(r, "view", p[1], p, 0, "check")
McpGetTableInfo(r) == GetTableInfo(r)
McpGetViewInfo(r) == GetViewInfo(r)

\* The names come from one look at the snapshot.
ListNames(r, names) ==
  Comes(r, [Blank EXCEPT !.pc = "filter", !.op = "list", !.found = names, !.left = names])

ListDatasources(r) == ListNames(r, IF snap.datasource = "absent" THEN {} ELSE {<<>>})
McpListDatasources(r) == ListDatasources(r)
ListTools(r) == ListNames(r, {<<Tool>>})

-----------------------------------------------------------------------------
(* Reading the catalog.  A schema takes a statement for the names and one    *)
(* for each table or view.                                                   *)

Listings == {"databases", "schema", "table", "view"}

\* What is asked for: the names, or a table of the schema.
Describe(r) ==
  /\ req[r].op \in Listings
  /\ Run(r, IF req[r].left = {} THEN {<<>>} ELSE req[r].left)

\* The names that an answer may have.  Most SQL servers and MongoDB: of the
\* database, in Oracle the owner, asked for.  Milvus: of its client's current
\* one.  Elasticsearch, Redis and SQLite: of all.
Named(r, p) ==
  CASE type \in {"elasticsearch", "redis", "sqlite"} -> TRUE
    [] type = "milvus" -> p[1] = req[r].ran.db
    [] OTHER -> p[1] = req[r].db
OfSchema(r) == {<<req[r].db, p[2]>> : p \in {p \in Tables : Named(r, p)}}
OfTable(r) == {req[r].path \o <<p[3]>> :
                 p \in {p \in Catalog : Len(p) = 3 /\ p[2] = req[r].path[2] /\ Named(r, p)}}

\* scanObjectNames looks at rows.Err at the end.  The loops of the dialects do
\* not, but Oracle's: rows that break off look like all.
ScanObjectNames(names) == {names}
ScanUnchecked(names) == SUBSET names
OracleColumns(r) == {OfTable(r)}
SqlTables(r) == ScanObjectNames(OfSchema(r))
SqlColumns(r) == ScanUnchecked(OfTable(r))
HiveDatabases(names) == ScanUnchecked(names)
HiveTables(r) == ScanUnchecked(OfSchema(r))
HiveColumns(r) == ScanUnchecked(OfTable(r))
ElasticsearchTables(r) == {OfSchema(r)}
ElasticsearchColumns(r) == {OfTable(r)}
\* The prefixes of the keys seen in a number of rounds, the fields of some keys.
RedisTables(r) == SUBSET OfSchema(r)
RedisColumns(r) == SUBSET OfTable(r)
MongoTables(r) == {OfSchema(r)}
\* The fields of some documents.
MongoColumns(r) == SUBSET OfTable(r)
MilvusTables(r) == {OfSchema(r)}
MilvusColumns(r) == {OfTable(r)}

\* Oracle's statement has one column less than is scanned.  Elasticsearch shows
\* its cluster, Redis the first database when it cannot be asked how many.
DatabaseNames ==
  LET all == {p \in Catalog : Len(p) = 1}
      main == {<<MainDatabase>>}
  IN CASE type = "oracle" -> {}
       [] type = "hive" -> HiveDatabases(all)
       [] type = "elasticsearch" -> {main}
       [] type = "redis" -> {all, main}
       [] OTHER -> ScanObjectNames(all)

TableNames(r) ==
  CASE type = "hive" -> HiveTables(r)
    [] Sql /\ type # "hive" -> SqlTables(r)
    [] type = "elasticsearch" -> ElasticsearchTables(r)
    [] type = "redis" -> RedisTables(r)
    [] type = "mongodb" -> MongoTables(r)
    [] type = "milvus" -> MilvusTables(r)

ColumnNames(r) ==
  CASE type = "hive" -> HiveColumns(r)
    [] type = "oracle" -> OracleColumns(r)
    [] Sql /\ type \notin {"hive", "oracle"} -> SqlColumns(r)
    [] type = "elasticsearch" -> ElasticsearchColumns(r)
    [] type = "redis" -> RedisColumns(r)
    [] type = "mongodb" -> MongoColumns(r)
    [] type = "milvus" -> MilvusColumns(r)

Names(r) ==
  CASE req[r].op = "databases" -> DatabaseNames
    [] req[r].op = "schema" -> TableNames(r)
    [] req[r].op \in {"table", "view"} -> ColumnNames(r)

\* The next table of the schema, or the end of reading.
Continue(r, left, found) ==
  Closed(r, IF left = {}
            THEN [req[r] EXCEPT !.pc = "enhance", !.left = found, !.found = found]
            ELSE [req[r] EXCEPT !.pc = "send", !.left = left, !.found = found])

ReadNames(r) ==
  /\ At(r, "rows")
  /\ req[r].op \in Listings
  /\ req[r].sent = <<>>
  /\ \E names \in Names(r) :
       IF req[r].op = "schema" THEN Continue(r, names, {}) ELSE Continue(r, {}, names)
  /\ UNCHANGED <<config, using, since>>

\* SQLite's dialect names the main database itself.
NameMain(r) ==
  /\ At(r, "send")
  /\ Unasked(r)
  /\ Becomes(r, [req[r] EXCEPT !.pc = "enhance", !.left = {<<MainDatabase>>},
                              !.found = {<<MainDatabase>>}])
  /\ UNCHANGED <<config, pool, using, since>>

ReadTable(r) ==
  /\ At(r, "rows")
  /\ req[r].op = "schema"
  /\ req[r].sent \in req[r].left
  /\ Continue(r, req[r].left \ {req[r].sent}, req[r].found \cup {req[r].sent})
  /\ UNCHANGED <<config, using, since>>

\* A view that cannot be described is left out.
SkipView(r) ==
  /\ At(r, "rows")
  /\ Sql
  /\ req[r].op = "schema"
  /\ req[r].sent \in req[r].left \cap Views
  /\ Continue(r, req[r].left \ {req[r].sent}, req[r].found)
  /\ UNCHANGED <<config, using, since>>

-----------------------------------------------------------------------------
(* Comments and permissions.                                                 *)

\* What the server says; of a made up view it says nothing.
Own(op, p) == IF op = "view" /\ ~Sql THEN None ELSE OwnComment[p]

\* Wrong: a view is looked up among the tables.
CommentOfTable(op, p) ==
  IF Own(op, p) # None THEN Own(op, p) ELSE Configured(meta, <<"tables", p[Len(p)]>>)

\* EnhanceDatabaseNames, EnhanceTableInfo and EnhanceViewInfo: the server's own
\* comment stays.
Comment(op, p) == IF Own(op, p) # None THEN Own(op, p) ELSE Configured(meta, Thing(op, p))

\* One look at the metadata for each table of a schema, or for all databases.
Enhance(r) ==
  /\ At(r, "enhance")
  /\ LET schema == req[r].op = "schema"
         things == CASE req[r].op = "databases" -> req[r].found
                     [] schema -> req[r].left
                     [] OTHER -> {req[r].path}
     IN \E S \in IF schema /\ things # {} THEN {{p} : p \in things} ELSE {things} :
          LET rest == IF schema THEN things \ S ELSE {} IN
          Becomes(r, [req[r] EXCEPT
            !.comments = @ \cup {<<p, Comment(req[r].op, p)>> : p \in S},
            !.pc = IF rest = {} THEN "filter" ELSE "enhance",
            !.left = IF rest = {} THEN req[r].found ELSE rest])
  /\ UNCHANGED <<config, pool, using, since>>

\* Wrong: one look for all the names.
FilterWithDatasource(r) ==
  /\ At(r, "filter")
  /\ IF Granted(<<>>)
     THEN Becomes(r, [req[r] EXCEPT !.pc = "answered", !.left = {}, !.shown = req[r].found])
     ELSE Goto(r, "answered")
  /\ UNCHANGED <<config, pool, using, since>>

\* FilterDatabases, FilterTables and FilterFields, and CheckDatasource or
\* CheckTool in a list of all: one check for each name.
Filter(r) ==
  /\ At(r, "filter")
  /\ IF req[r].left = {} THEN Goto(r, "answered")
     ELSE \E p \in req[r].left :
            Becomes(r, [req[r] EXCEPT !.left = @ \ {p},
                          !.shown = IF Granted(p) THEN @ \cup {p} ELSE @])
  /\ UNCHANGED <<config, pool, using, since>>

Listing(r) ==
  \/ ListDatasources(r) \/ ListDatabases(r) \/ GetSchema(r) \/ GetTableInfo(r) \/ GetViewInfo(r)
  \/ McpListDatasources(r) \/ McpListDatabases(r) \/ McpGetSchema(r)
  \/ McpGetTableInfo(r) \/ McpGetViewInfo(r) \/ ListTools(r)
  \/ Describe(r) \/ ReadNames(r) \/ ReadTable(r) \/ SkipView(r) \/ NameMain(r)
  \/ Enhance(r) \/ Filter(r)
=============================================================================
