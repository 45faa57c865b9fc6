------------------------------ MODULE MCService ------------------------------
(* The instances of Service that TLC checks.                               *)
EXTENDS Service

CONSTANTS d1, d2, t, v, f, g, tool, c1, own, x, y, val

TwoRequests    == 1 .. 2
AdmitsAll      == [ty \in Types |-> [r \in Requests |-> Ops]]
\* One request, but on SQL Server two that may meet on a connection.
MeetOnMssql    == [ty \in Types |-> IF ty = "mssql" THEN <<{"execute", "explain"}, Ops>>
                                                     ELSE <<Ops, {}>>]
OneReload      == [ty \in Types |-> 1]
FewerOnMssql   == [ty \in Types |-> IF ty = "mssql" THEN 1 ELSE 2]
AllTypes       == SqlTypes \cup NonSqlTypes
JustMilvus     == {"milvus"}
OneConn        == {c1}
TheDatabases   == {d1, d2}
TheCatalog     == {<<d1>>, <<d1, t>>, <<d1, t, f>>, <<d1, v>>, <<d2>>, <<d2, t>>}
TheViews       == {<<d1, v>>}
TheComments    == [p \in {<<>>, <<tool>>, <<d1>>, <<d2>>, <<d1, t>>, <<d1, v>>, <<d2, t>>, <<d2, v>>} |->
                     IF p = <<d1>> THEN own ELSE None]
OpenToAll      == [datasource |-> "open",
                   metadata |-> <<[database |-> d1, comments |-> <<"tables", t>> :> x @@ <<"views", v>> :> y]>>,
                   granted |-> {<<>>, <<tool>>, <<d1>>, <<d1, t>>, <<d1, t, f>>, <<d1, v>>, <<d2>>, <<d2, t>>}]
ShadowForSome  == [datasource |-> "shadow",
                   metadata |-> <<[database |-> d1, comments |-> <<"tables", t>> :> x @@ <<"databases", d2>> :> x],
                                  [database |-> d2, comments |-> <<"tables", t>> :> y]>>,
                   granted |-> {<<>>, <<tool>>, <<d1>>, <<d1, t>>}]
Removed        == [datasource |-> "absent", metadata |-> <<>>, granted |-> {}]
TheConfigurations == {OpenToAll, ShadowForSome, Removed}

\* ":a :ab" with both, only one, or a value that looks like a placeholder.
Both     == [text |-> <<Colon, f, val, Colon, f, g>>, params |-> (<<f>> :> <<x>>) @@ (<<f, g>> :> <<y>>)]
Apart    == [text |-> <<Colon, f, val, Colon, g>>, params |-> (<<f>> :> <<x>>) @@ (<<g>> :> <<y, y>>)]
OneGiven == [text |-> <<Colon, g, Colon, f, g, Colon, f>>, params |-> (<<f>> :> <<x>>)]
\* "::b" with a and b, where the value of b begins with an a.
Doubled  == [text |-> <<Colon, Colon, g>>, params |-> (<<f>> :> <<x>>) @@ (<<g>> :> <<f, y>>)]
\* "':a'" and "'c':a", where the literal ends before the placeholder.
InQuotes == [text |-> <<Quote, Colon, f, Quote>>, params |-> (<<f>> :> <<x>>)]
Between  == [text |-> <<Quote, val, Quote, Colon, f>>, params |-> (<<f>> :> <<x, Quote>>)]
TheCalls == {Both, Apart, OneGiven, Doubled, InQuotes, Between}
TheLetters == {f, g}
TheChars   == {Colon, Quote, Null, f, g, x, y, val}
TheLimits == {0, 2}
=============================================================================
