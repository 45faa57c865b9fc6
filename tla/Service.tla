------------------------------- MODULE Service -------------------------------
(***************************************************************************)
(* The requests to a datasource, queries and listings together, while the  *)
(* configuration is reloaded.                                              *)
(***************************************************************************)
EXTENDS QueryService, SchemaService

TypeOK ==
  /\ type \in Types
  /\ {snap, perm, meta} \subseteq Configurations
  /\ reloads \in 0 .. MaxReloads[type]
  /\ pool \in [Conns -> [user : Requests \cup {None}, plans : BOOLEAN]]
  /\ using \in Databases \cup {NoDatabase}
  /\ \A r \in Requests :
       /\ req[r].pc \in Stages
       /\ req[r].op \in Ops \cup {"none"}
       /\ req[r].db \in Databases \cup {NoDatabase}
       /\ req[r].path \in Paths
       /\ req[r].attempt \in 0 .. 1
       /\ req[r].shown \subseteq req[r].found
       /\ \A service \in {"snap", "perm", "meta"} : since[r][service] \subseteq Configurations

Stage(r) ==
  \/ ReadConfig(r) \/ Check(r) \/ Connect(r)
  \/ Acquire(r) \/ NoConnection(r) \/ PlanOn(r) \/ UsingDatabase(r)
  \/ ConnectionLost(r) \/ StatementFails(r) \/ PlanOff(r) \/ Return(r)

Next == Reload \/ \E r \in Requests : Query(r) \/ Listing(r) \/ Stage(r)

Spec == Init /\ [][Next]_vars

-----------------------------------------------------------------------------
(* Properties.                                                               *)

Running(r) == req[r].ran # None

\* What runs on the datasource was granted to the user while the request was
\* under way, and a query or explanation runs only if the datasource was open
\* to them: the check and the look at the configuration come before every path
\* to the server, among reloads.  A test of the connection and the schema of a
\* database are not checked before they run.
StatementWasGranted ==
  \A r \in Requests : Running(r) =>
    /\ req[r].op \notin {"test", "schema"} => \E c \in since[r].perm : req[r].path \in c.granted
    /\ Direct(r) => \E c \in since[r].snap : c.datasource = "open"

\* What a listing shows was granted at some time since it was asked for, and
\* what it hides was not granted all the time.
ListsWhatIsGranted ==
  \A r \in Requests : At(r, "answered") =>
    \A p \in req[r].found :
      \E c \in since[r].perm : (p \in c.granted) = (p \in req[r].shown)

\* A comment is the server's own, or else the one of the last file that had a
\* comment for a thing of that kind and name, in metadata used meanwhile.
Gives(c, thing, comment) ==
  IF \E file \in Range(c.metadata) : thing \in DOMAIN file.comments
  THEN \E i \in DOMAIN c.metadata :
         /\ thing \in DOMAIN c.metadata[i].comments
         /\ comment = c.metadata[i].comments[thing]
         /\ \A j \in DOMAIN c.metadata : thing \in DOMAIN c.metadata[j].comments => j <= i
  ELSE comment = None

CommentsAreCurrent ==
  \A r \in Requests : \A pc \in req[r].comments :
    IF Own(req[r].op, pc[1]) # None THEN pc[2] = Own(req[r].op, pc[1])
    ELSE \E c \in since[r].meta : Gives(c, Thing(req[r].op, pc[1]), pc[2])

\* On SQL Server an explained statement is planned and no other one is: the
\* setting belongs to a connection that goes back to the pool.
ExplainOnlyPlans ==
  type = "mssql" =>
    \A r \in Requests : Running(r) => (req[r].ran.plan <=> req[r].op = "explain")

\* Every connection comes back to the pool when the statement has ended, on
\* every path.
ConnectionsComeBack ==
  \A c \in Conns : pool[c].user # None =>
    req[pool[c].user].pc \in {"plan", "query", "rows", "close"}

\* An answer has no more rows than asked for and does not claim to be cut when
\* it is not; from SQL databases and Elasticsearch it says so when it is, for
\* any limit but the largest int.
TruncationHonest ==
  \A r \in Requests : req[r].answer # None =>
    LET a == req[r].answer IN
    /\ a.rows <= a.limit
    /\ a.truncated => a.rows = a.limit /\ a.rows < a.total
    /\ (Sql \/ type = "elasticsearch") /\ a.limit < MaxInt =>
         a.truncated \/ a.rows = a.total

\* A tool's statement is its template with every placeholder standing for the
\* parameter's value, or for NULL where values are bound and there is none, when
\* no placeholder is in a literal and the driver binds the marker it gets.
Binds == Sql /\ type # "hive"

SentAsWritten ==
  \A r \in Requests : req[r].op = "tool" /\ Running(r) =>
    LET sent == req[r].sent IN
    IF Binds THEN type # "oracle" /\ Unquoted(sent.call) => Understood(sent) = Meant(sent.call)
    ELSE Clear(sent.call) => sent.text = MeantOrLeft(sent.call)

\* The documentation: "Execute a query on a specified datasource and database"
\* (internal/mcp/tools.go:121).
RunsOnItsDatabase ==
  \A r \in Requests : Running(r) /\ req[r].op = "execute" /\ req[r].db # NoDatabase =>
    req[r].ran.db = req[r].db
=============================================================================
