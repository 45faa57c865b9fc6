---------------------------- MODULE QueryService ----------------------------
(***************************************************************************)
(* Queries: executing and explaining a statement, running a tool, testing  *)
(* a datasource, and what each type of datasource makes of the limit.      *)
(* Requests has the stages that they share with listings.                  *)
(***************************************************************************)
EXTENDS Requests, ToolTemplate

CONSTANTS
  Calls,         \* the tool's template with the parameters of a call
  Limits,        \* limits that requests ask for
  HandlerLimit,  \* what the handlers use for a missing limit, and
  ServiceLimit,  \* the service for one that is not positive
  MaxInt,        \* the largest int
  MaxRows        \* bound on the rows a statement has

IntType == -(MaxInt + 1) .. MaxInt

ASSUME LimitsAssumption ==
  /\ MaxInt \in Nat /\ MaxRows \in Nat
  /\ Limits \subseteq IntType
  /\ {HandlerLimit, ServiceLimit} \subseteq 1 .. MaxInt

ASSUME CallsAssumption ==
  \A call \in Calls :
    /\ call.text \in Seq(Chars)
    /\ IsFiniteSet(DOMAIN call.params) /\ DOMAIN call.params \subseteq Seq(Chars)
    /\ call.params \in [DOMAIN call.params -> Seq(Chars)]

Wrap(n) == IF n > MaxInt THEN n - 2 * (MaxInt + 1) ELSE n
Least(m, n) == IF m < n THEN m ELSE n
UpTo(n) == IF n < 0 THEN 0 ELSE n

-----------------------------------------------------------------------------
(* Arrival.                                                                  *)

DbPath(db) == IF db = NoDatabase THEN <<>> ELSE <<db>>

\* The handler replaces any limit that is not positive; over MCP only one that
\* is missing, which is among Limits.
ExecuteQuery(r) ==
  \E db \in Databases \cup {NoDatabase}, limit \in Limits :
    Arrive(r, "execute", db, DbPath(db), IF limit <= 0 THEN HandlerLimit ELSE limit, "config")

McpExecuteQuery(r) ==
  \E db \in Databases \cup {NoDatabase}, limit \in Limits \cup {HandlerLimit} :
    Arrive(r, "execute", db, DbPath(db), limit, "config")

\* The handlers look at the datasource and leave the permission to the query
\* itself, which runs later; neither replaces a limit.
SubmitAsyncQuery(r) ==
  /\ snap.datasource = "open"
  /\ McpExecuteQuery(r)
McpSubmitAsyncQuery(r) ==
  /\ snap.datasource = "open"
  /\ McpExecuteQuery(r)

ExplainQuery(r) ==
  \E db \in Databases \cup {NoDatabase} : Arrive(r, "explain", db, DbPath(db), 0, "config")
McpExplainQuery(r) == ExplainQuery(r)

DatasourceTest(r) == Arrive(r, "test", NoDatabase, <<>>, 0, "config")

\* The tool has a database of its own or gets a default.
ExecuteTool(r) ==
  \E db \in Databases : Arrive(r, "tool", db, <<Tool>>, ServiceLimit, "handler")

\* A tool listed over MCP; its handler has the definition and checks first.
DynamicTool(r) ==
  \E db \in Databases : Arrive(r, "tool", db, <<Tool>>, ServiceLimit, "handler")

SubmitAsyncTool(r) ==
  \E db \in Databases : Arrive(r, "tool", db, <<Tool>>, ServiceLimit, "handler")

\* Over MCP only the goroutine checks.
McpSubmitAsyncTool(r) ==
  \E db \in Databases : Arrive(r, "tool", db, <<Tool>>, ServiceLimit, "check")

-----------------------------------------------------------------------------
(* Statements.                                                               *)

\* What is sent for a tool: text with its parameters in place, or a statement
\* and the values bound to it, numbered for some drivers.
ToolStatements(call) ==
  LET sents == IF ~Sql \/ type = "hive" THEN Substituted(call)
               ELSE {Converted(call, type \in {"postgresql", "mssql"})}
  IN {[call |-> call, text |-> s.text, args |-> s.args] : s \in sents}

\* What is run for it; Oracle's driver binds names and numbers after a colon, and
\* nothing here.
Understood(sent) == IF type = "oracle" THEN sent.text ELSE Bound(sent)

Execute(r) ==
  \/ req[r].op \in {"execute", "explain", "test"} /\ Run(r, {None})
  \/ req[r].op = "tool" /\ Run(r, UNION {ToolStatements(call) : call \in Calls})

\* A template run by executeTemplateSQL has no limit.
Unlimited(r) == req[r].op = "tool" /\ Sql /\ type # "hive"
Limit(r) == IF req[r].limit <= 0 THEN ServiceLimit ELSE req[r].limit

\* How many of n rows arrive at a request for limit rows.  A query of MongoDB or
\* Milvus may have a limit of its own.
OwnLimits(limit) == {limit} \cup 1 .. MaxRows
FetchSql(n, limit) == {Least(n, UpTo(Wrap(limit + 1)))}
\* Elasticsearch refuses a negative size.
SearchElasticsearch(n, limit) == {Least(n, size) : size \in {Wrap(limit + 1)} \cap Nat}
\* A cursor that breaks looks like one at its end.
ReadCursor(n) == 0 .. n
FindMongo(n, limit) == UNION {ReadCursor(Least(n, own + 1)) : own \in OwnLimits(limit)}
\* A pipeline is not limited.
AggregateMongo(n) == ReadCursor(n)
QueryMilvus(n, limit) == {Least(n, own) : own \in OwnLimits(limit)}
\* Of several vectors only the hits of the first are shown.
FirstHits(n) == 0 .. n
SearchMilvus(n, limit) == UNION {FirstHits(m) : m \in QueryMilvus(n, limit)}

\* Wrong: asks for no row beyond the limit.
FetchedToLimit(n, limit) == {Least(n, limit)}

Fetched(n, limit) ==
  CASE Sql -> FetchSql(n, limit)
    [] type = "elasticsearch" -> SearchElasticsearch(n, limit)
    [] type = "redis" -> {n}
    [] type = "mongodb" -> FindMongo(n, limit) \cup AggregateMongo(n)
    [] type = "milvus" -> QueryMilvus(n, limit) \cup SearchMilvus(n, limit)

\* What does not fit the limit is cut; of Redis' answers without a word.
Truncated(got, limit) == got > limit
Answer(n, got, limit) ==
  [total |-> n, limit |-> limit, rows |-> Least(got, limit), truncated |-> Truncated(got, limit)]
AnswerRedis(n, got, limit) == [Answer(n, got, limit) EXCEPT !.truncated = FALSE]

Answers(r) ==
  CASE req[r].op \in {"explain", "test"} -> {None}
    [] Unlimited(r) -> {Answer(n, n, n) : n \in 0 .. MaxRows}
    [] OTHER -> UNION {{IF type = "redis" THEN AnswerRedis(n, got, Limit(r)) ELSE Answer(n, got, Limit(r)) :
                          got \in Fetched(n, Limit(r))} : n \in 0 .. MaxRows}

\* The rows are read to the end or to the limit, and closed.
Scan(r) ==
  /\ At(r, "rows")
  /\ req[r].op \in {"execute", "explain", "test", "tool"}
  /\ \E answer \in Answers(r) :
       Closed(r, [Blank EXCEPT !.pc = "answered", !.answer = answer])
  /\ UNCHANGED <<config, using, since>>

Query(r) ==
  \/ ExecuteQuery(r) \/ SubmitAsyncQuery(r) \/ ExplainQuery(r) \/ DatasourceTest(r)
  \/ McpExecuteQuery(r) \/ McpSubmitAsyncQuery(r) \/ McpExplainQuery(r)
  \/ ExecuteTool(r) \/ SubmitAsyncTool(r) \/ DynamicTool(r) \/ McpSubmitAsyncTool(r)
  \/ Execute(r) \/ Scan(r)
=============================================================================
