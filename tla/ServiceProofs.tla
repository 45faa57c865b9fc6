--------------------------- MODULE ServiceProofs ---------------------------
(***************************************************************************)
(* Proofs about Service: its types, and that among requests and reloads    *)
(* nothing runs ungranted, listings show what is granted, comments are     *)
(* current, connections come back as they were, truncation is told, and    *)
(* what is sent for a tool is what its template means.                     *)
(***************************************************************************)
EXTENDS Service, ToolTemplateProofs, TLAPS

-----------------------------------------------------------------------------
(* Records of requests.                                                      *)

\* A request has these fields and no others.
Fields == {"pc", "op", "db", "path", "limit", "attempt", "ran", "sent", "answer",
           "left", "found", "shown", "comments"}
WellFormed(q) == q = [f \in Fields |-> q[f]]

Formed == /\ req = [r \in Requests |-> req[r]]
          /\ \A r \in Requests : WellFormed(req[r])

\* A request becomes the record it is given; the others stay.
LEMMA BecomesEffect ==
  ASSUME Formed, NEW r \in Requests, NEW record, Becomes(r, record), WellFormed(record)
  PROVE  /\ Formed'
         /\ req'[r] = record
         /\ \A q \in Requests \ {r} : req'[q] = req[q]
<1>1. \A q \in Requests : req'[q] = IF q = r THEN record ELSE req[q]
  BY DEF Formed, Becomes
<1>2. req' = [q \in Requests |-> req'[q]]  BY DEF Formed, Becomes
<1> QED  BY <1>1, <1>2 DEF Formed

\* What a request keeps from its arrival to its end.
Keeps(q, s) == s.op = q.op /\ s.db = q.db /\ s.path = q.path /\ s.limit = q.limit

\* So do their other fields, when only the place changes.
Carries(q, s) == /\ s.attempt = q.attempt /\ s.ran = q.ran /\ s.sent = q.sent
                 /\ s.answer = q.answer /\ s.left = q.left /\ s.found = q.found
                 /\ s.shown = q.shown /\ s.comments = q.comments

\* A change of place.
LEMMA PlaceOnly ==
  ASSUME NEW q, WellFormed(q), NEW pc
  PROVE  LET s == [q EXCEPT !.pc = pc] IN WellFormed(s) /\ s.pc = pc /\ Keeps(q, s) /\ Carries(q, s)
BY DEF WellFormed, Fields, Keeps, Carries

\* Moving on changes the place only.
LEMMA GotoEffect ==
  ASSUME Formed, NEW r \in Requests, NEW pc, Goto(r, pc)
  PROVE  /\ Formed'
         /\ \A q \in Requests \ {r} : req'[q] = req[q]
         /\ req'[r].pc = pc
         /\ Keeps(req[r], req'[r])
         /\ Carries(req[r], req'[r])
<1> DEFINE s == [req[r] EXCEPT !.pc = pc]
<1>1. WellFormed(s) /\ s.pc = pc /\ Keeps(req[r], s) /\ Carries(req[r], s)
  BY PlaceOnly DEF Formed
<1>2. Becomes(r, s)  BY DEF Goto
<1> HIDE DEF s
<1> QED  BY <1>1, <1>2, BecomesEffect

\* A record without content.
LEMMA BlankFields ==
  ASSUME NEW pc
  PROVE  LET q == [Blank EXCEPT !.pc = pc] IN
         /\ WellFormed(q) /\ q.pc = pc /\ q.op = "none" /\ q.db = NoDatabase /\ q.path = <<>>
         /\ q.limit = 0 /\ q.attempt = 0 /\ q.ran = None /\ q.sent = None /\ q.answer = None
         /\ q.left = {} /\ q.found = {} /\ q.shown = {} /\ q.comments = {}
<1>1. WellFormed(Blank)  BY DEF WellFormed, Fields, Blank
<1>2. /\ Blank.op = "none" /\ Blank.db = NoDatabase /\ Blank.path = <<>>
      /\ Blank.limit = 0 /\ Blank.attempt = 0 /\ Blank.ran = None /\ Blank.sent = None
      /\ Blank.answer = None /\ Blank.left = {} /\ Blank.found = {} /\ Blank.shown = {}
      /\ Blank.comments = {}
  BY DEF Blank
<1> DEFINE q == [Blank EXCEPT !.pc = pc]
<1>3. WellFormed(q) /\ q.pc = pc /\ Keeps(Blank, q) /\ Carries(Blank, q)  BY <1>1, PlaceOnly
<1> HIDE DEF q
<1>4. /\ WellFormed(q) /\ q.pc = pc /\ q.op = "none" /\ q.db = NoDatabase /\ q.path = <<>>
      /\ q.limit = 0 /\ q.attempt = 0 /\ q.ran = None /\ q.sent = None /\ q.answer = None
      /\ q.left = {} /\ q.found = {} /\ q.shown = {} /\ q.comments = {}
  BY <1>2, <1>3 DEF Keeps, Carries
<1> QED  BY <1>4 DEF q

-----------------------------------------------------------------------------
(* The way of a request.                                                     *)

\* Which requests come to which stages.
OnRoute(q) ==
  /\ q.pc = "handler" => q.op = "tool"
  /\ q.pc = "check" => q.op \in Ops \ {"test", "schema", "list"}
  /\ q.pc = "config" => q.op \in Ops \ {"list"}
  /\ q.pc \in {"connect", "send", "plan", "query", "rows"} =>
       q.op \in Ops \ {"list"} /\ (q.op = "view" => Sql)

\* The stage after the four that lead to the server.
After(op, pc) ==
  CASE pc = "handler" -> "check"
    [] pc = "check" -> IF op \in {"execute", "explain"} THEN "connect" ELSE "config"
    [] pc = "config" -> IF op \in {"execute", "explain"} THEN "check"
                        ELSE IF op = "view" /\ ~Sql THEN "enhance" ELSE "connect"
    [] OTHER -> "send"

\* Route and Advance come down to that.
LEMMA Advances ==
  ASSUME NEW r \in Requests, OnRoute(req[r]),
         req[r].pc \in {"handler", "check", "config", "connect"}, Advance(r)
  PROVE  Goto(r, After(req[r].op, req[r].pc))
<1> DEFINE op == req[r].op
           pc == req[r].pc
           route == Route(op)
           here == CHOOSE i \in DOMAIN route : route[i] = pc
<1>1. Goto(r, route[here + 1])  BY DEF Advance
<1>2. CASE op \in {"execute", "explain"}
  <2>1. route = <<"config", "check", "connect", "send">>  BY <1>2 DEF Route
  <2> QED  BY <1>1, <1>2, <2>1 DEF After, OnRoute
<1>3. CASE op = "test"
  <2>1. route = <<"config", "connect", "send">>  BY <1>3 DEF Route
  <2> QED  BY <1>1, <1>3, <2>1 DEF After, OnRoute
<1>4. CASE op = "tool"
  <2>1. route = <<"handler", "check", "config", "connect", "send">>  BY <1>4 DEF Route
  <2> QED  BY <1>1, <1>4, <2>1 DEF After, OnRoute
<1>5. CASE op \in {"databases", "table"} \/ (op = "view" /\ Sql)
  <2>1. route = <<"check", "config", "connect", "send", "enhance", "filter">>  BY <1>5 DEF Route
  <2> QED  BY <1>1, <1>5, <2>1 DEF After, OnRoute
<1>6. CASE op = "view" /\ ~Sql
  <2>1. route = <<"check", "config", "enhance", "filter">>  BY <1>6 DEF Route
  <2> QED  BY <1>1, <1>6, <2>1 DEF After, OnRoute
<1>7. CASE op = "schema"
  <2>1. route = <<"config", "connect", "send", "enhance", "filter">>  BY <1>7 DEF Route
  <2> QED  BY <1>1, <1>7, <2>1 DEF After, OnRoute
<1> QED  BY <1>2, <1>3, <1>4, <1>5, <1>6, <1>7 DEF OnRoute, Ops

-----------------------------------------------------------------------------
(* What holds of a request q that has seen the configurations s.             *)

SinceType == [snap : SUBSET Configurations, perm : SUBSET Configurations,
              meta : SUBSET Configurations]
Sees(s) == snap \in s.snap /\ perm \in s.perm /\ meta \in s.meta

\* Its fields.
FieldsOK(q) ==
  /\ WellFormed(q)
  /\ q.pc \in Stages
  /\ q.op \in Ops \cup {"none"}
  /\ q.db \in Databases \cup {NoDatabase}
  /\ q.path \in Paths
  /\ q.limit \in IntType
  /\ q.attempt \in 0 .. 1

\* It was checked before the stages that lead to the server.
Cleared(q, s) ==
  /\ q.op \in {"none", "list"} => q.ran = None
  /\ /\ q.op \in {"execute", "explain", "tool", "databases", "table", "view"}
     /\ \/ q.ran # None
        \/ q.pc \in {"connect", "send", "plan", "query"}
        \/ q.pc = "config" /\ q.op \notin {"execute", "explain"}
     => \E c \in s.perm : q.path \in c.granted
  /\ /\ q.op \in {"execute", "explain"}
     /\ q.ran # None \/ q.pc \in {"check", "connect", "send", "plan", "query"}
     => \E c \in s.snap : c.datasource = "open"

\* Names that the filter has settled are shown or not as a configuration has it.
Settles(s, p, shown) == \E c \in s.perm : (p \in c.granted) = (p \in shown)
Filtered(q, s) ==
  /\ q.pc \notin {"filter", "answered"} => q.shown = {}
  /\ q.pc = "filter" => /\ q.left \cap q.shown = {}
                        /\ q.left \subseteq q.found
                        /\ \A p \in q.found \ q.left : Settles(s, p, q.shown)
  /\ q.pc = "answered" => \A p \in q.found : Settles(s, p, q.shown)
  /\ q.shown \subseteq q.found

Commented(q, s) ==
  \A pc \in q.comments :
    IF Own(q.op, pc[1]) # None THEN pc[2] = Own(q.op, pc[1])
    ELSE \E c \in s.meta : Gives(c, Thing(q.op, pc[1]), pc[2])

Planned(q) == type = "mssql" /\ q.ran # None => (q.ran.plan <=> q.op = "explain")

Told(a) ==
  /\ a.rows <= a.limit
  /\ a.truncated => a.rows = a.limit /\ a.rows < a.total
  /\ (Sql \/ type = "elasticsearch") /\ a.limit < MaxInt => a.truncated \/ a.rows = a.total
Honest(q) == q.answer # None => Told(q.answer)

ReqInv(q, s) ==
  /\ FieldsOK(q)
  /\ s \in SinceType
  /\ q.pc \notin {"idle", "done"} => Sees(s)
  /\ OnRoute(q)
  /\ Cleared(q, s)
  /\ Filtered(q, s)
  /\ Commented(q, s)
  /\ Planned(q)
  /\ Honest(q)

Holds(r) == ReqInv(req[r], since[r])

\* What holds of all requests, and of what they share.
ConfigOK == /\ type \in Types
            /\ {snap, perm, meta} \subseteq Configurations
            /\ reloads \in 0 .. MaxReloads[type]
            /\ using \in Databases \cup {NoDatabase}

InUse == {"plan", "query", "rows", "close"}
Explains(r) == type = "mssql" /\ req[r].op = "explain"
PoolInv ==
  /\ pool \in [Conns -> [user : Requests \cup {None}, plans : BOOLEAN]]
  /\ \A c \in Conns : pool[c].user # None => req[pool[c].user].pc \in InUse
  /\ \A c \in Conns : pool[c].plans =>
       /\ pool[c].user # None
       /\ Explains(pool[c].user)
       /\ req[pool[c].user].pc # "plan"
  /\ \A r \in Requests : req[r].pc = "plan" => Explains(r) /\ Mine(r) # {}
  /\ \A r \in Requests : Explains(r) /\ req[r].pc = "query" => Plans(r)

Inv == /\ req = [r \in Requests |-> req[r]]
       /\ since = [r \in Requests |-> since[r]]
       /\ ConfigOK
       /\ \A r \in Requests : Holds(r)
       /\ PoolInv

\* The invariant says what requests look like.
LEMMA InvFormed == Inv => Formed
BY DEF Inv, Formed, Holds, ReqInv, FieldsOK

\* A record that has no content yet or no longer.
LEMMA BlankHolds ==
  ASSUME NEW pc \in {"idle", "ended", "done"}, NEW s \in SinceType,
         pc = "ended" => Sees(s), MaxInt \in Nat
  PROVE  ReqInv([Blank EXCEPT !.pc = pc], s) /\ WellFormed([Blank EXCEPT !.pc = pc])
<1> DEFINE q == [Blank EXCEPT !.pc = pc]
<1>1. /\ WellFormed(q) /\ q.pc = pc /\ q.op = "none" /\ q.db = NoDatabase /\ q.path = <<>>
      /\ q.limit = 0 /\ q.attempt = 0 /\ q.ran = None /\ q.sent = None /\ q.answer = None
      /\ q.left = {} /\ q.found = {} /\ q.shown = {} /\ q.comments = {}
  BY BlankFields
<1> HIDE DEF q
<1>2. FieldsOK(q)  BY <1>1 DEF FieldsOK, Stages, Paths, IntType
<1>3. q.pc \notin {"idle", "done"} => Sees(s)  BY <1>1
<1>4. OnRoute(q) /\ Cleared(q, s) /\ Planned(q) /\ Honest(q)
  BY <1>1 DEF OnRoute, Cleared, Planned, Honest
<1>5. Filtered(q, s) /\ Commented(q, s)  BY <1>1 DEF Filtered, Commented
<1>6. ReqInv(q, s) /\ WellFormed(q)  BY <1>1, <1>2, <1>3, <1>4, <1>5 DEF ReqInv
<1> QED  BY <1>6 DEF q

\* What holds of a request does not depend on anything else but the configuration.
LEMMA Transfer ==
  ASSUME NEW r, UNCHANGED config, ReqInv(req'[r], since'[r])
  PROVE  Holds(r)'
BY DEF config, Holds, ReqInv, FieldsOK, WellFormed, Sees, OnRoute, Cleared, Filtered, Settles,
       Commented, Own, Thing, Kind, Planned, Honest, Told, Sql, SinceType

\* A step of one request: the others are as they were.
LEMMA OthersHold ==
  ASSUME Inv, NEW r \in Requests, UNCHANGED config, Formed',
         since' = [q \in Requests |-> since'[q]],
         \A q \in Requests \ {r} : req'[q] = req[q] /\ since'[q] = since[q],
         ReqInv(req'[r], since'[r]), using' \in Databases \cup {NoDatabase}, PoolInv'
  PROVE  Inv'
<1>1. \A q \in Requests : Holds(q)'
  <2>1. \A q \in Requests \ {r} : ReqInv(req'[q], since'[q])  BY DEF Inv, Holds
  <2> QED  BY <2>1, Transfer
<1>2. ConfigOK'  BY DEF Inv, ConfigOK, config
<1> QED  BY <1>1, <1>2 DEF Inv, Formed

-----------------------------------------------------------------------------
(* The pool.                                                                 *)

\* A step of a request that leaves the pool alone: the request had no
\* connection, or goes on with the one it has.
LEMMA PoolStays ==
  ASSUME Inv, NEW r \in Requests, UNCHANGED <<type, pool>>,
         \A q \in Requests \ {r} : req'[q] = req[q],
         \/ req[r].pc \notin InUse
         \/ /\ req[r].pc # "plan" /\ req'[r].pc \in {"rows", "close"}
            /\ req'[r].op = req[r].op,
         req'[r].pc # "plan", ~(Explains(r)' /\ req'[r].pc = "query")
  PROVE  PoolInv'
<1>0. PoolInv  BY DEF Inv
<1> USE <1>0 DEF PoolInv, InUse
<1>1. \A c \in Conns : pool'[c].user # None => req'[pool'[c].user].pc \in InUse  OBVIOUS
<1>2. \A c \in Conns : pool'[c].plans => /\ pool'[c].user # None
                                         /\ Explains(pool[c].user)'
                                         /\ req'[pool'[c].user].pc # "plan"
  BY DEF Explains
<1>3. \A q \in Requests : req'[q].pc = "plan" => Explains(q)' /\ Mine(q)' # {}
  BY DEF Explains, Mine
<1>4. \A q \in Requests : Explains(q)' /\ req'[q].pc = "query" => Plans(q)'
  BY DEF Explains, Plans, Mine
<1> QED  BY <1>1, <1>2, <1>3, <1>4

\* A request gives back what it has, with the setting taken back.
LEMMA PoolLetsGo ==
  ASSUME Inv, NEW r \in Requests, UNCHANGED type,
         \A q \in Requests \ {r} : req'[q] = req[q],
         Renew(r) \/ (Release(r) /\ (Explains(r) => req[r].pc = "plan")),
         req'[r].pc \notin {"plan", "query"}
  PROVE  PoolInv'
<1>0. PoolInv  BY DEF Inv
<1> USE <1>0 DEF PoolInv, InUse
<1>1. ASSUME NEW c \in Conns
      PROVE  /\ pool'[c] \in [user : Requests \cup {None}, plans : BOOLEAN]
             /\ pool[c].user = r => pool'[c].user = None /\ ~pool'[c].plans
             /\ pool[c].user # r => pool'[c] = pool[c]
  <2>1. CASE pool[c].user # r
    <3>1. pool'[c] = pool[c]  BY <2>1 DEF Renew, Release, Mine
    <3> QED  BY <2>1, <3>1
  <2>2. CASE pool[c].user = r /\ Renew(r)
    <3>1. pool'[c] = [user |-> None, plans |-> FALSE]  BY <2>2 DEF Renew, Mine
    <3> HIDE <1>0
    <3> QED  BY <2>2, <3>1, RequestsAssumption
  <2>3. CASE pool[c].user = r /\ Release(r) /\ (Explains(r) => req[r].pc = "plan")
    <3>1. pool'[c] = [pool[c] EXCEPT !.user = None]  BY <2>3 DEF Release, Mine
    <3>2. pool[c] \in [user : Requests \cup {None}, plans : BOOLEAN]  OBVIOUS
    <3>3. ~pool[c].plans  BY <2>3
    <3>4. pool'[c].user = None /\ pool'[c].plans = pool[c].plans
          /\ pool'[c] \in [user : Requests \cup {None}, plans : BOOLEAN]
      <4> HIDE <1>0
      <4> QED  BY <3>1, <3>2
    <3> QED  BY <2>3, <3>3, <3>4
  <2> QED  BY <2>1, <2>2, <2>3
<1>2. pool' = [c \in Conns |-> pool'[c]]  BY DEF Renew, Release
<1>3. pool' \in [Conns -> [user : Requests \cup {None}, plans : BOOLEAN]]  BY <1>1, <1>2
<1>4. \A c \in Conns : pool'[c].user # None => pool[c].user # r /\ pool'[c] = pool[c]
  BY <1>1
<1>5. \A c \in Conns : pool'[c].plans => pool[c].user # r /\ pool'[c] = pool[c]
  BY <1>1
<1>6. \A c \in Conns : pool'[c].user # None => req'[pool'[c].user].pc \in InUse  BY <1>4
<1>7. \A c \in Conns : pool'[c].plans => /\ pool'[c].user # None
                                         /\ Explains(pool[c].user)'
                                         /\ req'[pool'[c].user].pc # "plan"
  BY <1>5 DEF Explains
<1>8. \A q \in Requests : q # r => Mine(q)' = Mine(q) /\ \A c \in Mine(q) : pool'[c] = pool[c]
  BY <1>1, RequestsAssumption DEF Mine
<1>9. \A q \in Requests : req'[q].pc = "plan" => Explains(q)' /\ Mine(q)' # {}
  BY <1>8 DEF Explains
<1>10. \A q \in Requests : Explains(q)' /\ req'[q].pc = "query" => Plans(q)'
  BY <1>8 DEF Explains, Plans
<1> QED  BY <1>3, <1>6, <1>7, <1>9, <1>10

-----------------------------------------------------------------------------
(* The steps of a request, one by one.                                       *)

\* An end without an answer.
LEMMA EndEffect ==
  ASSUME Inv, NEW r \in Requests, End(r), Active(r)
  PROVE  /\ Formed' /\ \A q \in Requests \ {r} : req'[q] = req[q]
         /\ req'[r].pc = "ended"
         /\ ReqInv(req'[r], since[r])
<1> DEFINE s == [Blank EXCEPT !.pc = "ended"]
<1>1. since[r] \in SinceType /\ Sees(since[r])  BY DEF Inv, Holds, ReqInv, Active
<1>2. ReqInv(s, since[r]) /\ WellFormed(s)  BY <1>1, BlankHolds, LimitsAssumption
<1>3. s.pc = "ended"  BY BlankFields
<1>4. Becomes(r, s)  BY DEF End
<1> HIDE DEF s
<1> QED  BY <1>2, <1>3, <1>4, BecomesEffect, InvFormed

\* Moving on without looking at the filter: what has to be shown of the new place.
LEMMA GotoHolds ==
  ASSUME Inv, NEW r \in Requests, NEW pc \in Stages \ {"idle", "done", "filter", "answered"},
         Goto(r, pc), req[r].pc \notin {"idle", "done", "filter", "answered"},
         \A q : q.pc = pc /\ q.op = req[r].op => OnRoute(q),
         LET q == req'[r] IN Cleared(q, since[r])
  PROVE  /\ Formed' /\ \A q \in Requests \ {r} : req'[q] = req[q]
         /\ req'[r].pc = pc /\ req'[r].op = req[r].op
         /\ ReqInv(req'[r], since[r])
<1> DEFINE q == req[r]
           s == req'[r]
<1>1. /\ Formed' /\ \A p \in Requests \ {r} : req'[p] = req[p]
      /\ s.pc = pc /\ Keeps(q, s) /\ Carries(q, s)
  BY InvFormed, GotoEffect
<1>2. ReqInv(q, since[r])  BY DEF Inv, Holds
<1>3. WellFormed(s)  BY <1>1 DEF Formed
<1> HIDE DEF q, s
<1>4. FieldsOK(s)  BY <1>1, <1>2, <1>3 DEF ReqInv, FieldsOK, Keeps, Carries
<1>5. OnRoute(s)  BY <1>1 DEF Keeps, q
<1>6. Filtered(s, since[r])  BY <1>1, <1>2 DEF ReqInv, Filtered, Carries, q
<1>7. Commented(s, since[r]) /\ Planned(s) /\ Honest(s)
  BY <1>1, <1>2 DEF ReqInv, Commented, Planned, Honest, Carries, Keeps
<1>8. Sees(since[r]) /\ since[r] \in SinceType  BY <1>2 DEF ReqInv, q
<1>9. Cleared(s, since[r])  BY DEF s
<1>10. ReqInv(s, since[r])  BY <1>4, <1>5, <1>6, <1>7, <1>8, <1>9 DEF ReqInv
<1> QED  BY <1>1, <1>10 DEF Keeps, s, q

\* An end before a connection was taken.
LEMMA EndsHere ==
  ASSUME Inv, NEW r \in Requests, End(r), UNCHANGED <<config, pool, using, since>>,
         Active(r), req[r].pc \notin InUse
  PROVE  Inv'
<1>1. /\ Formed' /\ \A q \in Requests \ {r} : req'[q] = req[q]
      /\ req'[r].pc = "ended" /\ ReqInv(req'[r], since[r])
  BY EndEffect
<1>2. PoolInv'  BY <1>1, PoolStays DEF config
<1> QED  BY <1>1, <1>2, OthersHold DEF Inv, ConfigOK

\* A step forward without a connection.
LEMMA MovesOn ==
  ASSUME Inv, NEW r \in Requests, NEW pc \in {"check", "config", "connect", "send", "query", "enhance"},
         Goto(r, pc), UNCHANGED <<config, pool, since>>,
         req[r].pc \in {"handler", "check", "config", "connect", "send"},
         \A q : q.pc = pc /\ q.op = req[r].op => OnRoute(q),
         LET q == req'[r] IN Cleared(q, since[r]),
         ~(type = "mssql" /\ req[r].op = "explain" /\ pc = "query"),
         using' \in Databases \cup {NoDatabase}
  PROVE  Inv'
<1>1. /\ Formed' /\ \A q \in Requests \ {r} : req'[q] = req[q]
      /\ req'[r].pc = pc /\ req'[r].op = req[r].op /\ ReqInv(req'[r], since[r])
  BY GotoHolds DEF Stages
<1>2. PoolInv'  BY <1>1, PoolStays DEF config, Explains, InUse
<1> QED  BY <1>1, <1>2, OthersHold DEF Inv

\* What Goto does to the fields that Cleared looks at.
LEMMA GotoClears ==
  ASSUME Inv, NEW r \in Requests, NEW pc, Goto(r, pc)
  PROVE  /\ req'[r].pc = pc /\ req'[r].op = req[r].op
         /\ req'[r].path = req[r].path /\ req'[r].ran = req[r].ran
         /\ Cleared(req[r], since[r]) /\ OnRoute(req[r])
BY InvFormed, GotoEffect DEF Keeps, Carries, Inv, Holds, ReqInv

\* The look at the configuration.
LEMMA ReadConfigHolds ==
  ASSUME Inv, NEW r \in Requests, ReadConfig(r)
  PROVE  Inv'
<1>1. req[r].pc = "config" /\ UNCHANGED <<config, pool, using, since>>  BY DEF ReadConfig, At
<1>2. CASE End(r)  BY <1>1, <1>2, EndsHere DEF Active, InUse
<1>3. CASE Advance(r) /\ ~(snap.datasource = "absent" \/ (Direct(r) /\ snap.datasource = "shadow"))
  <2>1. Holds(r)  BY DEF Inv
  <2>2. OnRoute(req[r]) /\ Cleared(req[r], since[r]) /\ Sees(since[r])
    BY <1>1, <2>1 DEF Holds, ReqInv
  <2> DEFINE pc == After(req[r].op, "config")
  <2>3. Goto(r, pc)  BY <1>1, <1>3, <2>2, Advances
  <2>4. req[r].op \in Ops \ {"list"}  BY <1>1, <2>2 DEF OnRoute
  <2>5. pc = IF req[r].op \in {"execute", "explain"} THEN "check"
             ELSE IF req[r].op = "view" /\ ~Sql THEN "enhance" ELSE "connect"
    BY DEF After
  <2>6. req[r].op \in {"execute", "explain"} => \E c \in since[r].snap : c.datasource = "open"
    <3>1. snap \in Configurations  BY DEF Inv, ConfigOK
    <3> QED  BY <1>3, <2>2, <3>1, ConfigurationsAssumption DEF Direct, Sees
  <2> HIDE DEF pc
  <2>7. Cleared(req'[r], since[r])
    BY <1>1, <2>2, <2>3, <2>5, <2>6, GotoClears DEF Cleared
  <2>8. \A q : q.pc = pc /\ q.op = req[r].op => OnRoute(q)
    BY <2>4, <2>5 DEF OnRoute, Ops
  <2>9. pc \in {"check", "connect", "enhance"}  BY <2>5
  <2> QED  BY <1>1, <2>3, <2>7, <2>8, <2>9, MovesOn DEF Inv, ConfigOK
<1> QED  BY <1>2, <1>3 DEF ReadConfig

\* The check of the permission.
LEMMA CheckHolds ==
  ASSUME Inv, NEW r \in Requests, Check(r)
  PROVE  Inv'
<1>1. req[r].pc \in {"handler", "check"} /\ UNCHANGED <<config, pool, using, since>>
  BY DEF Check, At
<1>2. CASE End(r)  BY <1>1, <1>2, EndsHere DEF Active, InUse
<1>3. CASE Advance(r) /\ Granted(req[r].path)
  <2>1. Holds(r)  BY DEF Inv
  <2>2. OnRoute(req[r]) /\ Cleared(req[r], since[r]) /\ Sees(since[r])
    BY <1>1, <2>1 DEF Holds, ReqInv
  <2> DEFINE pc == After(req[r].op, req[r].pc)
  <2>3. Goto(r, pc)  BY <1>1, <1>3, <2>2, Advances
  <2>4. req[r].op \in Ops \ {"test", "schema", "list"}  BY <1>1, <2>2 DEF OnRoute, Ops
  <2>5. pc = IF req[r].pc = "handler" THEN "check"
             ELSE IF req[r].op \in {"execute", "explain"} THEN "connect" ELSE "config"
    BY <1>1 DEF After
  <2>6. \E c \in since[r].perm : req[r].path \in c.granted  BY <1>3, <2>2 DEF Granted, Sees
  <2> HIDE DEF pc
  <2>7. Cleared(req'[r], since[r])
    BY <1>1, <2>2, <2>3, <2>5, <2>6, GotoClears DEF Cleared, OnRoute
  <2>8. \A q : q.pc = pc /\ q.op = req[r].op => OnRoute(q)
    BY <2>2, <2>4, <2>5 DEF OnRoute, Ops
  <2>9. pc \in {"check", "config", "connect"}  BY <2>5
  <2> QED  BY <1>1, <2>3, <2>7, <2>8, <2>9, MovesOn DEF Inv, ConfigOK
<1> QED  BY <1>2, <1>3 DEF Check

\* Getting a connection or not, and selecting a database.
LEMMA ConnectHolds ==
  ASSUME Inv, NEW r \in Requests, Connect(r) \/ NoConnection(r) \/ UsingDatabase(r)
  PROVE  Inv'
<1>1. req[r].pc \in {"connect", "send"} /\ UNCHANGED <<config, pool, since>>
  BY DEF Connect, NoConnection, UsingDatabase, At
<1>2. OnRoute(req[r]) /\ Cleared(req[r], since[r])  BY DEF Inv, Holds, ReqInv
<1>3. CASE End(r) /\ UNCHANGED using  BY <1>1, <1>3, EndsHere DEF Active, InUse
<1>4. CASE Connect(r) /\ Advance(r)
  <2>1. req[r].pc = "connect" /\ UNCHANGED using  BY <1>4 DEF Connect, At
  <2>2. Goto(r, "send")  BY <1>2, <1>4, <2>1, Advances DEF After
  <2>3. Cleared(req'[r], since[r])  BY <1>2, <2>1, <2>2, GotoClears DEF Cleared
  <2>4. \A q : q.pc = "send" /\ q.op = req[r].op => OnRoute(q)  BY <1>2, <2>1 DEF OnRoute
  <2> QED  BY <1>1, <2>1, <2>2, <2>3, <2>4, MovesOn DEF Inv, ConfigOK
<1>5. CASE UsingDatabase(r) /\ Goto(r, "query") /\ using' = req[r].db
  <2>1. req[r].pc = "send" /\ type = "milvus"  BY <1>5 DEF UsingDatabase, At, Selects
  <2>2. Cleared(req'[r], since[r])  BY <1>2, <1>5, <2>1, GotoClears DEF Cleared
  <2>3. \A q : q.pc = "query" /\ q.op = req[r].op => OnRoute(q)  BY <1>2, <2>1 DEF OnRoute
  <2>4. using' \in Databases \cup {NoDatabase}  BY <1>5 DEF Inv, Holds, ReqInv, FieldsOK
  <2> QED  BY <1>1, <1>5, <2>1, <2>2, <2>3, <2>4, MovesOn
<1> QED  BY <1>3, <1>4, <1>5 DEF Connect, NoConnection, UsingDatabase

\* An end that gives the connection back.
LEMMA EndsLettingGo ==
  ASSUME Inv, NEW r \in Requests, End(r), UNCHANGED <<config, using, since>>, Active(r),
         Renew(r) \/ (Release(r) /\ (Explains(r) => req[r].pc = "plan"))
  PROVE  Inv'
<1>1. /\ Formed' /\ \A q \in Requests \ {r} : req'[q] = req[q]
      /\ req'[r].pc = "ended" /\ ReqInv(req'[r], since[r])
  BY EndEffect
<1>2. PoolInv'  BY <1>1, PoolLetsGo DEF config
<1> QED  BY <1>1, <1>2, OthersHold DEF Inv, ConfigOK

\* A connection of the pool is taken: it does not plan yet.
LEMMA AcquireHolds ==
  ASSUME Inv, NEW r \in Requests, Acquire(r)
  PROVE  Inv'
<1>1. req[r].pc = "send" /\ UNCHANGED <<config, using, since>>  BY DEF Acquire, At
<1>2. PICK c \in Conns : pool[c].user = None /\ pool' = [pool EXCEPT ![c].user = r]
  BY DEF Acquire
<1> DEFINE pc == IF Explains(r) THEN "plan" ELSE "query"
<1>3. Goto(r, pc) /\ pc \in {"plan", "query"}  BY DEF Acquire, Pinned, Explains
<1>4. OnRoute(req[r]) /\ Cleared(req[r], since[r])  BY DEF Inv, Holds, ReqInv
<1> HIDE DEF pc
<1>5. Cleared(req'[r], since[r])  BY <1>1, <1>3, <1>4, GotoClears DEF Cleared
<1>6. \A q : q.pc = pc /\ q.op = req[r].op => OnRoute(q)  BY <1>1, <1>3, <1>4 DEF OnRoute
<1>7. /\ Formed' /\ \A q \in Requests \ {r} : req'[q] = req[q]
      /\ req'[r].pc = pc /\ req'[r].op = req[r].op /\ ReqInv(req'[r], since[r])
  BY <1>1, <1>3, <1>5, <1>6, GotoHolds DEF Stages
<1>8. PoolInv'
  <2>0. PoolInv  BY DEF Inv
  <2> USE <2>0 DEF PoolInv, InUse
  <2>1. \A d \in Conns : pool[d].user # r  BY <1>1, RequestsAssumption
  <2>2. ~pool[c].plans  BY <1>2
  <2>3. /\ pool'[c].user = r /\ ~pool'[c].plans
        /\ pool'[c] \in [user : Requests \cup {None}, plans : BOOLEAN]
    <3>1. pool'[c] = [pool[c] EXCEPT !.user = r]
          /\ pool[c] \in [user : Requests \cup {None}, plans : BOOLEAN]
      BY <1>2
    <3>2. pool'[c].user = r /\ pool'[c].plans = pool[c].plans
          /\ pool'[c] \in [user : Requests \cup {None}, plans : BOOLEAN]
      <4> HIDE <2>0
      <4> QED  BY <3>1
    <3> QED  BY <2>2, <3>2
  <2>4. \A d \in Conns : d # c => pool'[d] = pool[d]  BY <1>2
  <2>5. pool' \in [Conns -> [user : Requests \cup {None}, plans : BOOLEAN]]
    BY <1>2, <2>3, <2>4
  <2>6. \A d \in Conns : pool'[d].user # None => req'[pool'[d].user].pc \in InUse
    BY <1>3, <1>7, <2>1, <2>3, <2>4
  <2>7. \A d \in Conns : pool'[d].plans => /\ pool'[d].user # None
                                           /\ Explains(pool[d].user)'
                                           /\ req'[pool'[d].user].pc # "plan"
    BY <1>1, <1>7, <2>1, <2>3, <2>4 DEF Explains, config
  <2>8. \A q \in Requests : q # r => Mine(q)' = Mine(q) /\ \A d \in Mine(q) : pool'[d] = pool[d]
    BY <1>2, <2>3, <2>4, RequestsAssumption DEF Mine
  <2>9. \A q \in Requests : req'[q].pc = "plan" => Explains(q)' /\ Mine(q)' # {}
    <3>1. c \in Mine(r)'  BY <2>3 DEF Mine
    <3>2. req'[r].pc = "plan" => Explains(r)'  BY <1>1, <1>7 DEF Explains, config, pc
    <3> QED  BY <1>1, <1>7, <2>8, <3>1, <3>2 DEF Explains, config
  <2>10. \A q \in Requests : Explains(q)' /\ req'[q].pc = "query" => Plans(q)'
    <3>1. ~(Explains(r)' /\ req'[r].pc = "query")  BY <1>1, <1>7 DEF Explains, config, pc
    <3> QED  BY <1>1, <1>7, <2>8, <3>1 DEF Explains, config, Plans
  <2>11. \A d \in Conns : pool'[d].plans => pool'[d].user = pool[d].user  BY <2>3, <2>4
  <2> QED  BY <2>5, <2>6, <2>7, <2>9, <2>10, <2>11 DEF Explains
<1> QED  BY <1>1, <1>7, <1>8, OthersHold DEF Inv, ConfigOK

\* The setting is switched on, or the connection goes back.
LEMMA PlanOnHolds ==
  ASSUME Inv, NEW r \in Requests, PlanOn(r)
  PROVE  Inv'
<1>1. req[r].pc = "plan" /\ UNCHANGED <<config, using, since>>  BY DEF PlanOn, At
<1>2. CASE (Release(r) \/ Renew(r)) /\ End(r)  BY <1>1, <1>2, EndsLettingGo DEF Active
<1>3. CASE SetPlans(r, TRUE) /\ Goto(r, "query")
  <2>1. OnRoute(req[r]) /\ Cleared(req[r], since[r])  BY DEF Inv, Holds, ReqInv
  <2>2. Cleared(req'[r], since[r])  BY <1>1, <1>3, <2>1, GotoClears DEF Cleared
  <2>3. \A q : q.pc = "query" /\ q.op = req[r].op => OnRoute(q)  BY <1>1, <2>1 DEF OnRoute
  <2>4. /\ Formed' /\ \A q \in Requests \ {r} : req'[q] = req[q]
        /\ req'[r].pc = "query" /\ req'[r].op = req[r].op /\ ReqInv(req'[r], since[r])
    BY <1>1, <1>3, <2>2, <2>3, GotoHolds DEF Stages
  <2>5. PoolInv'
    <3>0. PoolInv  BY DEF Inv
    <3> USE <3>0 DEF PoolInv, InUse
    <3>1. Explains(r)' /\ Mine(r) # {}  BY <1>1, <2>4 DEF Explains, config
    <3>2. ASSUME NEW c \in Conns
          PROVE  /\ pool'[c] \in [user : Requests \cup {None}, plans : BOOLEAN]
                 /\ pool'[c].user = pool[c].user
                 /\ pool[c].user # r => pool'[c] = pool[c]
                 /\ pool[c].user = r => pool'[c].plans
      <4>1. CASE pool[c].user # r
        <5>1. pool'[c] = pool[c]  BY <1>3, <4>1 DEF SetPlans, Mine
        <5> QED  BY <4>1, <5>1
      <4>2. CASE pool[c].user = r
        <5>1. pool'[c] = [pool[c] EXCEPT !.plans = TRUE]  BY <1>3, <4>2 DEF SetPlans, Mine
        <5>2. pool[c] \in [user : Requests \cup {None}, plans : BOOLEAN]  OBVIOUS
        <5>3. pool'[c] \in [user : Requests \cup {None}, plans : BOOLEAN]
              /\ pool'[c].user = pool[c].user /\ pool'[c].plans
          <6> HIDE <3>0
          <6> QED  BY <5>1, <5>2
        <5> QED  BY <4>2, <5>3
      <4> QED  BY <4>1, <4>2
    <3>3. pool' = [c \in Conns |-> pool'[c]]  BY <1>3 DEF SetPlans
    <3>4. pool' \in [Conns -> [user : Requests \cup {None}, plans : BOOLEAN]]  BY <3>2, <3>3
    <3>5. \A c \in Conns : pool'[c].user # None => req'[pool'[c].user].pc \in InUse
      BY <2>4, <3>2
    <3>6. \A c \in Conns : pool'[c].plans => /\ pool'[c].user # None
                                             /\ Explains(pool[c].user)'
                                             /\ req'[pool'[c].user].pc # "plan"
      <4> SUFFICES ASSUME NEW c \in Conns, pool'[c].plans
                   PROVE  /\ pool'[c].user # None
                          /\ Explains(pool[c].user)'
                          /\ req'[pool'[c].user].pc # "plan"
        OBVIOUS
      <4>1. CASE pool[c].user = r
        <5>1. pool'[c].user = r /\ r # None  BY <3>2, <4>1, RequestsAssumption
        <5>2. Explains(pool[c].user)'  BY <3>1, <5>1 DEF Explains
        <5> QED  BY <2>4, <5>1, <5>2
      <4>2. CASE pool[c].user # r
        <5>1. pool'[c] = pool[c] /\ pool[c].plans  BY <3>2, <4>2
        <5>2. pool[c].user \in Requests \ {r} /\ Explains(pool[c].user)
              /\ req[pool[c].user].pc # "plan" /\ pool[c].user # None
          BY <4>2, <5>1
        <5>3. Explains(pool[c].user)'  BY <1>1, <2>4, <5>1, <5>2 DEF Explains, config
        <5> QED  BY <2>4, <5>1, <5>2, <5>3
      <4> QED  BY <4>1, <4>2
    <3>7. \A q \in Requests : Mine(q)' = Mine(q)  BY <3>2 DEF Mine
    <3>8. \A q \in Requests : req'[q].pc = "plan" => Explains(q)' /\ Mine(q)' # {}
      BY <1>1, <2>4, <3>7 DEF Explains, config
    <3>9. \A q \in Requests : Explains(q)' /\ req'[q].pc = "query" => Plans(q)'
      <4>1. Plans(r)'  BY <3>1, <3>2 DEF Plans, Mine
      <4>2. \A q \in Requests : q # r /\ Plans(q) => Plans(q)'  BY <3>2 DEF Plans, Mine
      <4> QED  BY <1>1, <2>4, <4>1, <4>2 DEF Explains, config
    <3>10. \A c \in Conns : pool'[c].user = pool[c].user  BY <3>2
    <3> QED  BY <3>4, <3>5, <3>6, <3>8, <3>9, <3>10 DEF Explains
  <2> QED  BY <1>1, <2>4, <2>5, OthersHold DEF Inv, ConfigOK
<1> QED  BY <1>2, <1>3 DEF PlanOn

\* The server runs a statement.
LEMMA RunHolds ==
  ASSUME Inv, NEW r \in Requests, NEW Text, Run(r, Text)
  PROVE  Inv'
<1>1. UNCHANGED <<config, pool, using, since>>  BY DEF Run
<1>2. /\ req[r].pc \in {"send", "query"}
      /\ req[r].pc = "send" => ~Sql
  BY DEF Run, Ready, At
<1> DEFINE db == RunsIn(r)
           plan == Plans(r)
           ran == [db |-> db, plan |-> plan]
<1>3. PICK text \in Text : Becomes(r, [req[r] EXCEPT !.pc = "rows", !.sent = text, !.ran = ran])
  BY DEF Run
<1> DEFINE q == req[r]
           s == [q EXCEPT !.pc = "rows", !.sent = text, !.ran = ran]
<1>4. ReqInv(q, since[r])  BY DEF Inv, Holds
<1>5. ran.plan = plan
  <2> HIDE DEF plan, db
  <2> QED  OBVIOUS
<1>6. WellFormed(q)  BY <1>4 DEF ReqInv, FieldsOK
<1> HIDE DEF ran
<1>7. WellFormed(s) /\ s.pc = "rows" /\ Keeps(q, s) /\ s.ran = ran /\ s.attempt = q.attempt
      /\ s.answer = q.answer /\ s.shown = q.shown /\ s.found = q.found /\ s.comments = q.comments
  <2> HIDE DEF q
  <2> QED  BY <1>6 DEF WellFormed, Fields, Keeps
<1> HIDE DEF s
<1>8. Becomes(r, s)  BY <1>3 DEF s
<1>9. /\ Formed' /\ req'[r] = s /\ \A p \in Requests \ {r} : req'[p] = req[p]
  BY <1>7, <1>8, InvFormed, BecomesEffect
<1>10. ReqInv(s, since[r])
  <2>1. FieldsOK(s)  BY <1>4, <1>7 DEF ReqInv, FieldsOK, Keeps, Stages
  <2>2. OnRoute(s)  BY <1>2, <1>4, <1>7 DEF ReqInv, OnRoute, Keeps
  <2>3. Cleared(s, since[r])  BY <1>2, <1>4, <1>7 DEF ReqInv, OnRoute, Cleared, Keeps, Ops
  <2>4. Filtered(s, since[r])  BY <1>2, <1>4, <1>7 DEF ReqInv, Filtered
  <2>5. Commented(s, since[r]) /\ Honest(s)  BY <1>4, <1>7 DEF ReqInv, Commented, Honest, Keeps
  <2>6. Planned(s)
    <3>1. CASE type = "mssql"
      <4>1. req[r].pc = "query"  BY <1>2, <3>1 DEF Sql, SqlTypes
      <4>2. Plans(r) <=> req[r].op = "explain"
        BY <3>1, <4>1, RequestsAssumption DEF Inv, PoolInv, Plans, Mine, Explains
      <4> QED  BY <1>5, <1>7, <4>2 DEF Planned, Keeps
    <3>2. CASE type # "mssql"  BY <3>2 DEF Planned
    <3> QED  BY <3>1, <3>2
  <2>7. Sees(since[r]) /\ since[r] \in SinceType  BY <1>2, <1>4 DEF ReqInv
  <2> QED  BY <2>1, <2>2, <2>3, <2>4, <2>5, <2>6, <2>7 DEF ReqInv
<1>11. PoolInv'  BY <1>1, <1>2, <1>7, <1>9, PoolStays DEF config, InUse, Keeps
<1> QED  BY <1>1, <1>9, <1>10, <1>11, OthersHold DEF Inv, ConfigOK

\* The connection breaks: the statement is sent once more, or the request ends.
LEMMA LostHolds ==
  ASSUME Inv, NEW r \in Requests, ConnectionLost(r)
  PROVE  Inv'
<1>1. /\ UNCHANGED <<config, using, since>> /\ Renew(r)
      /\ req[r].pc \in {"query", "rows"}
  BY DEF ConnectionLost, At
<1>2. CASE End(r)  BY <1>1, <1>2, EndsLettingGo DEF Active
<1>3. CASE /\ req[r].pc = "query" /\ req[r].attempt = 0
           /\ Becomes(r, [req[r] EXCEPT !.pc = "send", !.attempt = @ + 1])
  <2> DEFINE q == req[r]
             s == [q EXCEPT !.pc = "send", !.attempt = @ + 1]
  <2>1. ReqInv(q, since[r])  BY DEF Inv, Holds
  <2>2. WellFormed(q)  BY <2>1 DEF ReqInv, FieldsOK
  <2>3. WellFormed(s) /\ s.pc = "send" /\ Keeps(q, s) /\ s.ran = q.ran /\ s.attempt = 1
        /\ s.answer = q.answer /\ s.shown = q.shown /\ s.found = q.found /\ s.comments = q.comments
    <3>1. q.attempt + 1 = 1  BY <1>3
    <3> HIDE DEF q
    <3>2. s.attempt = q.attempt + 1  BY <2>2 DEF WellFormed, Fields
    <3> QED  BY <2>2, <3>1, <3>2 DEF WellFormed, Fields, Keeps
  <2>4. Becomes(r, s)  BY <1>3
  <2> HIDE DEF s
  <2>5. /\ Formed' /\ req'[r] = s /\ \A p \in Requests \ {r} : req'[p] = req[p]
    BY <2>3, <2>4, InvFormed, BecomesEffect
  <2>6. ReqInv(s, since[r])
    <3>1. FieldsOK(s)  BY <2>1, <2>3 DEF ReqInv, FieldsOK, Keeps, Stages
    <3>2. OnRoute(s)  BY <1>3, <2>1, <2>3 DEF ReqInv, OnRoute, Keeps
    <3>3. Cleared(s, since[r])  BY <1>3, <2>1, <2>3 DEF ReqInv, OnRoute, Cleared, Keeps
    <3>4. Filtered(s, since[r])  BY <1>3, <2>1, <2>3 DEF ReqInv, Filtered
    <3>5. Commented(s, since[r]) /\ Honest(s) /\ Planned(s)
      BY <2>1, <2>3 DEF ReqInv, Commented, Honest, Planned, Keeps
    <3>6. Sees(since[r]) /\ since[r] \in SinceType  BY <1>3, <2>1 DEF ReqInv
    <3> QED  BY <3>1, <3>2, <3>3, <3>4, <3>5, <3>6 DEF ReqInv
  <2>7. PoolInv'  BY <1>1, <2>3, <2>5, PoolLetsGo DEF config
  <2> QED  BY <1>1, <2>5, <2>6, <2>7, OthersHold DEF Inv, ConfigOK
<1> QED  BY <1>2, <1>3 DEF ConnectionLost, At

\* The rows are closed, and the request goes on as the record says.
LEMMA ClosedHolds ==
  ASSUME Inv, NEW r \in Requests, NEW record, Closed(r, record), WellFormed(record),
         UNCHANGED <<config, using, since>>,
         req[r].pc \in {"query", "rows"} \/ (req[r].pc = "send" /\ ~Sql),
         record.pc \notin {"plan", "query"},
         IF Explains(r)
         THEN /\ FieldsOK(record) /\ record.ran = None /\ record.answer = None
              /\ record.found = {} /\ record.shown = {} /\ record.comments = {}
         ELSE ReqInv(record, since[r])
  PROVE  Inv'
<1>1. CASE Explains(r)
  <2> DEFINE s == [record EXCEPT !.pc = "close", !.op = "explain"]
  <2>2. Becomes(r, s) /\ UNCHANGED pool  BY <1>1 DEF Closed, Pinned, Explains
  <2>3. /\ WellFormed(s) /\ s.pc = "close" /\ s.op = "explain" /\ s.ran = None /\ s.answer = None
        /\ s.found = {} /\ s.shown = {} /\ s.comments = {}
        /\ s.db = record.db /\ s.path = record.path /\ s.limit = record.limit
        /\ s.attempt = record.attempt
    BY <1>1 DEF WellFormed, Fields
  <2> HIDE DEF s
  <2>4. /\ Formed' /\ req'[r] = s /\ \A p \in Requests \ {r} : req'[p] = req[p]
    BY <2>2, <2>3, InvFormed, BecomesEffect
  <2>5. ReqInv(s, since[r])
    <3>1. FieldsOK(s)  BY <1>1, <2>3 DEF FieldsOK, Stages, Ops
    <3>2. OnRoute(s) /\ Cleared(s, since[r]) /\ Planned(s) /\ Honest(s)
      BY <2>3 DEF OnRoute, Cleared, Planned, Honest
    <3>3. Filtered(s, since[r]) /\ Commented(s, since[r])  BY <2>3 DEF Filtered, Commented
    <3>4. Sees(since[r]) /\ since[r] \in SinceType  BY DEF Inv, Holds, ReqInv
    <3> QED  BY <3>1, <3>2, <3>3, <3>4 DEF ReqInv
  <2>6. req[r].pc # "send"  BY <1>1 DEF Explains, Sql, SqlTypes
  <2>7. PoolInv'
    BY <1>1, <2>2, <2>3, <2>4, <2>6, PoolStays DEF config, Explains
  <2> QED  BY <2>4, <2>5, <2>7, OthersHold DEF Inv, ConfigOK
<1>2. CASE ~Explains(r)
  <2>1. Release(r) /\ Becomes(r, record)  BY <1>2 DEF Closed, Pinned, Explains
  <2>2. /\ Formed' /\ req'[r] = record /\ \A p \in Requests \ {r} : req'[p] = req[p]
    BY <2>1, InvFormed, BecomesEffect
  <2>3. PoolInv'  BY <1>2, <2>1, <2>2, PoolLetsGo DEF config
  <2> QED  BY <1>2, <2>2, <2>3, OthersHold DEF Inv, ConfigOK
<1> QED  BY <1>1, <1>2

\* A statement fails; the setting is switched off.
LEMMA FailsHolds ==
  ASSUME Inv, NEW r \in Requests, StatementFails(r) \/ PlanOff(r)
  PROVE  Inv'
<1>1. CASE StatementFails(r)
  <2> DEFINE s == [Blank EXCEPT !.pc = "ended"]
  <2>1. /\ Closed(r, s) /\ UNCHANGED <<config, using, since>>
        /\ req[r].pc \in {"query", "rows"} \/ (req[r].pc = "send" /\ ~Sql)
    BY <1>1 DEF StatementFails, Ready, At
  <2>2. since[r] \in SinceType /\ Sees(since[r])  BY <2>1 DEF Inv, Holds, ReqInv
  <2>3. ReqInv(s, since[r]) /\ WellFormed(s)  BY <2>2, BlankHolds, LimitsAssumption
  <2>4. /\ s.pc = "ended" /\ s.ran = None /\ s.answer = None
        /\ s.found = {} /\ s.shown = {} /\ s.comments = {}
    BY BlankFields
  <2> HIDE DEF s
  <2>5. FieldsOK(s)  BY <2>3 DEF ReqInv
  <2> QED  BY <2>1, <2>3, <2>4, <2>5, ClosedHolds
<1>2. CASE PlanOff(r)
  BY <1>2, EndsLettingGo DEF PlanOff, At, Active
<1> QED  BY <1>1, <1>2

-----------------------------------------------------------------------------
(* Answers to queries.                                                       *)

\* How many rows arrive, by the type of datasource.
LEMMA FetchedRows ==
  ASSUME type \in Types, NEW n \in 0 .. MaxRows, NEW limit \in 1 .. MaxInt,
         NEW got \in Fetched(n, limit)
  PROVE  /\ got \in Nat /\ got <= n
         /\ (Sql \/ type = "elasticsearch") /\ limit < MaxInt => got = Least(n, limit + 1)
<1>0. MaxInt \in Nat /\ MaxRows \in Nat  BY LimitsAssumption
<1> USE <1>0
<1>1. type \in SqlTypes \cup NonSqlTypes  BY TypesAssumption
<1>2. \A m \in Nat, k \in Nat : Least(m, k) \in Nat /\ Least(m, k) <= m  BY DEF Least
<1>3. CASE Sql
  <2>1. got = Least(n, UpTo(Wrap(limit + 1)))  BY <1>3 DEF Fetched, FetchSql, Sql, SqlTypes
  <2>2. limit < MaxInt => UpTo(Wrap(limit + 1)) = limit + 1  BY DEF UpTo, Wrap
  <2>3. UpTo(Wrap(limit + 1)) \in Nat  BY DEF UpTo, Wrap
  <2> QED  BY <1>2, <2>1, <2>2, <2>3
<1>4. CASE type = "elasticsearch"
  <2>1. got \in SearchElasticsearch(n, limit)
    BY <1>4 DEF Fetched, Sql, SqlTypes
  <2>2. PICK size \in {Wrap(limit + 1)} \cap Nat : got = Least(n, size)
    BY <2>1 DEF SearchElasticsearch
  <2>3. limit < MaxInt => Wrap(limit + 1) = limit + 1  BY DEF Wrap
  <2> QED  BY <1>2, <2>2, <2>3
<1>5. CASE type = "redis"
  <2>1. got = n  BY <1>5 DEF Fetched, Sql, SqlTypes
  <2> QED  BY <1>5, <2>1 DEF Sql, SqlTypes
<1>6. CASE type = "mongodb"
  <2>1. got \in FindMongo(n, limit) \cup AggregateMongo(n)
    BY <1>6 DEF Fetched, Sql, SqlTypes
  <2>2. ASSUME NEW m \in Nat, got \in ReadCursor(m), m <= n PROVE got \in Nat /\ got <= n
    BY <2>2 DEF ReadCursor
  <2>3. CASE got \in FindMongo(n, limit)
    <3>1. PICK own \in OwnLimits(limit) : got \in ReadCursor(Least(n, own + 1))
      BY <2>3 DEF FindMongo
    <3>2. own + 1 \in Nat  BY DEF OwnLimits
    <3> QED  BY <1>2, <1>6, <2>2, <3>1, <3>2 DEF Sql, SqlTypes
  <2>4. CASE got \in AggregateMongo(n)
    BY <1>6, <2>2, <2>4 DEF AggregateMongo, Sql, SqlTypes
  <2> QED  BY <2>1, <2>3, <2>4
<1>7. CASE type = "milvus"
  <2>1. got \in QueryMilvus(n, limit) \cup SearchMilvus(n, limit)
    BY <1>7 DEF Fetched, Sql, SqlTypes
  <2>2. \A m \in QueryMilvus(n, limit) : m \in Nat /\ m <= n
    <3>1. OwnLimits(limit) \subseteq Nat  BY DEF OwnLimits
    <3> QED  BY <1>2, <3>1 DEF QueryMilvus
  <2>3. CASE got \in SearchMilvus(n, limit)
    <3>1. PICK m \in QueryMilvus(n, limit) : got \in FirstHits(m)  BY <2>3 DEF SearchMilvus
    <3>2. got \in Nat /\ got <= m  BY <2>2, <3>1 DEF FirstHits
    <3> QED  BY <1>7, <2>2, <3>1, <3>2 DEF Sql, SqlTypes
  <2> QED  BY <1>7, <2>1, <2>2, <2>3 DEF Sql, SqlTypes
<1> QED  BY <1>1, <1>3, <1>4, <1>5, <1>6, <1>7 DEF Sql, NonSqlTypes

\* An answer says what there is to say of its rows.
LEMMA AnswersTold ==
  ASSUME Inv, NEW r \in Requests, NEW a \in Answers(r)
  PROVE  /\ a # None => Told(a)
         /\ req[r].op \in {"explain", "test"} => a = None
<1>0. MaxInt \in Nat /\ MaxRows \in Nat /\ ServiceLimit \in 1 .. MaxInt  BY LimitsAssumption
<1>1. CASE req[r].op \in {"explain", "test"}  BY <1>1 DEF Answers, Unlimited
<1>2. CASE Unlimited(r) /\ req[r].op \notin {"explain", "test"}
  <2>1. PICK n \in 0 .. MaxRows : a = Answer(n, n, n)  BY <1>2 DEF Answers
  <2>2. a.rows = Least(n, n) /\ a.limit = n /\ a.total = n /\ (a.truncated <=> n > n)
    BY <2>1 DEF Answer, Truncated
  <2>3. a.rows = n /\ ~a.truncated  BY <1>0, <2>2 DEF Least
  <2> QED  BY <1>0, <1>2, <2>2, <2>3 DEF Told
<1>3. CASE ~Unlimited(r) /\ req[r].op \notin {"explain", "test"}
  <2> DEFINE limit == Limit(r)
             Of(n) == {IF type = "redis" THEN AnswerRedis(n, got, limit) ELSE Answer(n, got, limit) :
                         got \in Fetched(n, limit)}
  <2>1. Answers(r) = UNION {Of(n) : n \in 0 .. MaxRows}  BY <1>3 DEF Answers
  <2>2. PICK n \in 0 .. MaxRows : a \in Of(n)
    <3> HIDE DEF Of
    <3> QED  BY <2>1
  <2>3. PICK got \in Fetched(n, limit) :
          a = IF type = "redis" THEN AnswerRedis(n, got, limit) ELSE Answer(n, got, limit)
    BY <2>2
  <2>4. limit \in 1 .. MaxInt
    <3>1. req[r].limit \in IntType  BY DEF Inv, Holds, ReqInv, FieldsOK
    <3> QED  BY <1>0, <3>1 DEF Limit, IntType
  <2> HIDE DEF limit, Of
  <2>5. /\ got \in Nat /\ got <= n
        /\ (Sql \/ type = "elasticsearch") /\ limit < MaxInt => got = Least(n, limit + 1)
    BY <2>4, FetchedRows DEF Inv, ConfigOK
  <2>6. CASE type = "redis"
    <3>1. a.rows = Least(got, limit) /\ a.limit = limit /\ a.truncated = FALSE
      BY <2>3, <2>6 DEF AnswerRedis, Answer
    <3>2. ~Sql /\ type # "elasticsearch"  BY <2>6 DEF Sql, SqlTypes
    <3> QED  BY <1>0, <1>3, <2>4, <2>5, <3>1, <3>2 DEF Told, Least
  <2>7. CASE type # "redis"
    <3>1. a.rows = Least(got, limit) /\ a.limit = limit /\ a.total = n
          /\ (a.truncated <=> got > limit)
      BY <2>3, <2>7 DEF Answer, Truncated
    <3>2. a.rows <= a.limit  BY <2>4, <2>5, <3>1 DEF Least
    <3>3. a.truncated => a.rows = a.limit /\ a.rows < a.total
      BY <2>4, <2>5, <3>1 DEF Least
    <3>4. (Sql \/ type = "elasticsearch") /\ a.limit < MaxInt => a.truncated \/ a.rows = a.total
      BY <2>4, <2>5, <3>1 DEF Least
    <3> QED  BY <1>3, <3>2, <3>3, <3>4 DEF Told
  <2> QED  BY <2>6, <2>7
<1> QED  BY <1>1, <1>2, <1>3

\* The rows are read and the request is answered.
LEMMA ScanHolds ==
  ASSUME Inv, NEW r \in Requests, Scan(r)
  PROVE  Inv'
<1>1. req[r].pc = "rows" /\ UNCHANGED <<config, using, since>>  BY DEF Scan, At
<1>2. PICK answer \in Answers(r) : Closed(r, [Blank EXCEPT !.pc = "answered", !.answer = answer])
  BY DEF Scan
<1> DEFINE s == [Blank EXCEPT !.pc = "answered", !.answer = answer]
           b == [Blank EXCEPT !.pc = "ended"]
<1>3. WellFormed(Blank)  BY DEF WellFormed, Fields, Blank
<1>4. ReqInv(b, since[r])
  <2>1. since[r] \in SinceType /\ Sees(since[r])  BY <1>1 DEF Inv, Holds, ReqInv
  <2> QED  BY <2>1, BlankHolds, LimitsAssumption
<1>5. b.op = "none" /\ b.ran = None /\ b.comments = {} /\ b.found = {} /\ b.shown = {}
      /\ b.limit = 0 /\ b.attempt = 0 /\ b.db = NoDatabase /\ b.path = <<>>
  BY BlankFields
<1>6. /\ WellFormed(s) /\ s.pc = "answered" /\ s.answer = answer
      /\ s.op = b.op /\ s.ran = b.ran /\ s.comments = b.comments /\ s.found = b.found
      /\ s.shown = b.shown /\ s.limit = b.limit /\ s.attempt = b.attempt /\ s.db = b.db
      /\ s.path = b.path
  <2> DEFINE z == Blank
  <2>1. WellFormed(z)  BY <1>3
  <2> HIDE DEF z
  <2>2. LET x == [z EXCEPT !.pc = "answered", !.answer = answer]
            y == [z EXCEPT !.pc = "ended"] IN
        /\ WellFormed(x) /\ x.pc = "answered" /\ x.answer = answer
        /\ x.op = y.op /\ x.ran = y.ran /\ x.comments = y.comments /\ x.found = y.found
        /\ x.shown = y.shown /\ x.limit = y.limit /\ x.attempt = y.attempt /\ x.db = y.db
        /\ x.path = y.path
    BY <2>1 DEF WellFormed, Fields
  <2> QED  BY <2>2 DEF z
<1>7. /\ answer # None => Told(answer)
      /\ req[r].op \in {"explain", "test"} => answer = None
  BY AnswersTold
<1>8. Closed(r, s)  BY <1>2
<1> HIDE DEF s, b
<1>9. FieldsOK(s)  BY <1>4, <1>6 DEF ReqInv, FieldsOK, Stages
<1>10. ReqInv(s, since[r])
  <2>1. OnRoute(s) /\ Cleared(s, since[r]) /\ Planned(s)
    BY <1>5, <1>6 DEF OnRoute, Cleared, Planned
  <2>2. Filtered(s, since[r]) /\ Commented(s, since[r])  BY <1>5, <1>6 DEF Filtered, Commented
  <2>3. Honest(s)  BY <1>6, <1>7 DEF Honest
  <2>4. Sees(since[r]) /\ since[r] \in SinceType  BY <1>1 DEF Inv, Holds, ReqInv
  <2> QED  BY <1>9, <2>1, <2>2, <2>3, <2>4 DEF ReqInv
<1>11. Explains(r) => s.answer = None  BY <1>6, <1>7 DEF Explains
<1> QED  BY <1>1, <1>5, <1>6, <1>8, <1>9, <1>10, <1>11, ClosedHolds

-----------------------------------------------------------------------------
(* Listings.                                                                 *)

\* Reading goes on, or is at its end.
LEMMA ContinueHolds ==
  ASSUME Inv, NEW r \in Requests, NEW left, NEW found, Continue(r, left, found),
         req[r].pc = "rows", req[r].op \in Listings,
         req[r].op # "schema" => left = {},
         UNCHANGED <<config, using, since>>
  PROVE  Inv'
<1> DEFINE q == req[r]
           s == IF left = {} THEN [q EXCEPT !.pc = "enhance", !.left = found, !.found = found]
                ELSE [q EXCEPT !.pc = "send", !.left = left, !.found = found]
<1>1. ReqInv(q, since[r])  BY DEF Inv, Holds
<1>2. Closed(r, s)  BY DEF Continue
<1>3. WellFormed(q)  BY <1>1 DEF ReqInv, FieldsOK
<1>4. /\ WellFormed(s) /\ s.pc \in {"enhance", "send"} /\ Keeps(q, s) /\ s.ran = q.ran
      /\ s.attempt = q.attempt /\ s.answer = q.answer /\ s.shown = q.shown
      /\ s.comments = q.comments
      /\ left = {} => s.pc = "enhance"
  <2> HIDE DEF q
  <2>1. CASE left = {}  BY <1>3, <2>1 DEF WellFormed, Fields, Keeps
  <2>2. CASE left # {}  BY <1>3, <2>2 DEF WellFormed, Fields, Keeps
  <2> QED  BY <2>1, <2>2
<1> HIDE DEF s
<1>5. FieldsOK(s)  BY <1>1, <1>4 DEF ReqInv, FieldsOK, Keeps, Stages
<1>6. ReqInv(s, since[r])
  <2>1. OnRoute(s)  BY <1>1, <1>4 DEF ReqInv, OnRoute, Keeps, Ops
  <2>2. Cleared(s, since[r])  BY <1>1, <1>4 DEF ReqInv, Cleared, Keeps
  <2>3. Filtered(s, since[r])  BY <1>1, <1>4 DEF ReqInv, Filtered
  <2>4. Commented(s, since[r]) /\ Honest(s) /\ Planned(s)
    BY <1>1, <1>4 DEF ReqInv, Commented, Honest, Planned, Keeps
  <2>5. Sees(since[r]) /\ since[r] \in SinceType  BY <1>1 DEF ReqInv
  <2> QED  BY <1>5, <2>1, <2>2, <2>3, <2>4, <2>5 DEF ReqInv
<1>7. ~Explains(r)  BY DEF Explains, Listings
<1> QED  BY <1>2, <1>4, <1>6, <1>7, ClosedHolds

\* Names, tables and views are read.
LEMMA ReadsHold ==
  ASSUME Inv, NEW r \in Requests, ReadNames(r) \/ ReadTable(r) \/ SkipView(r)
  PROVE  Inv'
<1>1. req[r].pc = "rows" /\ UNCHANGED <<config, using, since>>
  BY DEF ReadNames, ReadTable, SkipView, At
<1>2. CASE ReadNames(r)
  <2>1. req[r].op \in Listings  BY <1>2 DEF ReadNames
  <2>2. PICK names \in Names(r) :
          IF req[r].op = "schema" THEN Continue(r, names, {}) ELSE Continue(r, {}, names)
    BY <1>2 DEF ReadNames
  <2>3. CASE req[r].op = "schema"  BY <1>1, <2>1, <2>2, <2>3, ContinueHolds
  <2>4. CASE req[r].op # "schema"  BY <1>1, <2>1, <2>2, <2>4, ContinueHolds
  <2> QED  BY <2>3, <2>4
<1>3. CASE ReadTable(r)
  <2>1. req[r].op = "schema"
        /\ Continue(r, req[r].left \ {req[r].sent}, req[r].found \cup {req[r].sent})
    BY <1>3 DEF ReadTable
  <2> QED  BY <1>1, <2>1, ContinueHolds DEF Listings
<1>4. CASE SkipView(r)
  <2>1. req[r].op = "schema" /\ Continue(r, req[r].left \ {req[r].sent}, req[r].found)
    BY <1>4 DEF SkipView
  <2> QED  BY <1>1, <2>1, ContinueHolds DEF Listings
<1> QED  BY <1>2, <1>3, <1>4

\* The main database is named.
LEMMA NameMainHolds ==
  ASSUME Inv, NEW r \in Requests, NameMain(r)
  PROVE  Inv'
<1>1. req[r].pc = "send" /\ UNCHANGED <<config, pool, using, since>>  BY DEF NameMain, At
<1> DEFINE q == req[r]
           main == {<<MainDatabase>>}
           s == [q EXCEPT !.pc = "enhance", !.left = main, !.found = main]
<1>2. Becomes(r, s)  BY DEF NameMain
<1>3. ReqInv(q, since[r]) /\ WellFormed(q)  BY DEF Inv, Holds, ReqInv, FieldsOK
<1>4. /\ WellFormed(s) /\ s.pc = "enhance" /\ Keeps(q, s) /\ s.ran = q.ran
      /\ s.attempt = q.attempt /\ s.answer = q.answer /\ s.shown = q.shown
      /\ s.comments = q.comments
  <2> HIDE DEF q, main
  <2> QED  BY <1>3 DEF WellFormed, Fields, Keeps
<1> HIDE DEF s, main
<1>5. /\ Formed' /\ req'[r] = s /\ \A p \in Requests \ {r} : req'[p] = req[p]
  BY <1>2, <1>4, InvFormed, BecomesEffect
<1>6. ReqInv(s, since[r])
  <2>1. FieldsOK(s)  BY <1>3, <1>4 DEF ReqInv, FieldsOK, Keeps, Stages
  <2>2. OnRoute(s)  BY <1>4 DEF OnRoute
  <2>3. Cleared(s, since[r])  BY <1>1, <1>3, <1>4 DEF ReqInv, Cleared, Keeps
  <2>4. Filtered(s, since[r])
    <3>1. q.shown = {}  BY <1>1, <1>3 DEF ReqInv, Filtered
    <3> QED  BY <1>4, <3>1 DEF Filtered
  <2>5. Commented(s, since[r]) /\ Honest(s) /\ Planned(s)
    BY <1>3, <1>4 DEF ReqInv, Commented, Honest, Planned, Keeps
  <2>6. Sees(since[r]) /\ since[r] \in SinceType  BY <1>1, <1>3 DEF ReqInv
  <2> QED  BY <2>1, <2>2, <2>3, <2>4, <2>5, <2>6 DEF ReqInv
<1>7. PoolInv'  BY <1>1, <1>4, <1>5, PoolStays DEF config, InUse
<1> QED  BY <1>1, <1>5, <1>6, <1>7, OthersHold DEF Inv, ConfigOK

\* What is configured for a thing is what the last file that has it says.
LEMMA ConfiguredGives ==
  ASSUME NEW c \in Configurations, NEW thing
  PROVE  Gives(c, thing, Configured(c, thing))
<1> DEFINE S == Having(c, thing)
           n == Len(c.metadata)
<1>1. n \in Nat /\ DOMAIN c.metadata = 1 .. n
  BY MetadataAssumption, LenProperties
<1>2. CASE S = {}
  <2>1. ~\E file \in Range(c.metadata) : thing \in DOMAIN file.comments  BY <1>2 DEF Having, Range
  <2>2. Configured(c, thing) = None  BY <1>2 DEF Configured
  <2> HIDE DEF S
  <2> QED  BY <2>1, <2>2 DEF Gives
<1>3. CASE S # {}
  <2>1. S \subseteq 0 .. n  BY <1>1 DEF Having
  <2>2. Max(S) \in S /\ \A j \in S : Max(S) >= j
    <3> HIDE DEF S, n
    <3> QED  BY <1>1, <1>3, <2>1, MaxIsGreatest
  <2>3. /\ Max(S) \in DOMAIN c.metadata /\ thing \in DOMAIN c.metadata[Max(S)].comments
        /\ \A j \in DOMAIN c.metadata : thing \in DOMAIN c.metadata[j].comments => j <= Max(S)
    BY <2>1, <2>2 DEF Having
  <2>4. Configured(c, thing) = c.metadata[Max(S)].comments[thing]  BY <1>3 DEF Configured
  <2>5. \E file \in Range(c.metadata) : thing \in DOMAIN file.comments  BY <2>3 DEF Range
  <2> HIDE DEF S
  <2> QED  BY <2>3, <2>4, <2>5 DEF Gives
<1> QED  BY <1>2, <1>3

\* Comments are looked up in the metadata of the moment.
LEMMA EnhanceHolds ==
  ASSUME Inv, NEW r \in Requests, Enhance(r)
  PROVE  Inv'
<1>1. req[r].pc = "enhance" /\ UNCHANGED <<config, pool, using, since>>  BY DEF Enhance, At
<1> DEFINE q == req[r]
           schema == q.op = "schema"
           things == CASE q.op = "databases" -> q.found
                       [] schema -> q.left
                       [] OTHER -> {q.path}
<1>2. PICK S \in IF schema /\ things # {} THEN {{p} : p \in things} ELSE {things} :
        LET rest == IF schema THEN things \ S ELSE {} IN
        Becomes(r, [q EXCEPT
          !.comments = @ \cup {<<p, Comment(q.op, p)>> : p \in S},
          !.pc = IF rest = {} THEN "filter" ELSE "enhance",
          !.left = IF rest = {} THEN q.found ELSE rest])
  BY DEF Enhance
<1> DEFINE rest == IF schema THEN things \ S ELSE {}
           new == {<<p, Comment(q.op, p)>> : p \in S}
           pc == IF rest = {} THEN "filter" ELSE "enhance"
           left == IF rest = {} THEN q.found ELSE rest
           s == [q EXCEPT !.comments = @ \cup new, !.pc = pc, !.left = left]
<1>3. Becomes(r, s)  BY <1>2
<1>4. ReqInv(q, since[r]) /\ WellFormed(q)  BY DEF Inv, Holds, ReqInv, FieldsOK
<1>5. pc \in {"filter", "enhance"} /\ (pc = "filter" => left = q.found)  OBVIOUS
<1>6. \A x \in new : IF Own(q.op, x[1]) # None THEN x[2] = Own(q.op, x[1])
                     ELSE Gives(meta, Thing(q.op, x[1]), x[2])
  <2> HIDE DEF things, rest, schema, q
  <2>1. \A thing : Gives(meta, thing, Configured(meta, thing))
    BY ConfiguredGives DEF Inv, ConfigOK
  <2> QED  BY <2>1 DEF Comment
<1> HIDE DEF pc, left, new
<1>7. /\ WellFormed(s) /\ s.pc = pc /\ Keeps(q, s) /\ s.ran = q.ran
      /\ s.attempt = q.attempt /\ s.answer = q.answer /\ s.shown = q.shown
      /\ s.comments = q.comments \cup new /\ s.left = left /\ s.found = q.found
  <2> HIDE DEF q
  <2> QED  BY <1>4 DEF WellFormed, Fields, Keeps
<1> HIDE DEF s
<1>8. /\ Formed' /\ req'[r] = s /\ \A p \in Requests \ {r} : req'[p] = req[p]
  BY <1>3, <1>7, InvFormed, BecomesEffect
<1>9. ReqInv(s, since[r])
  <2>1. FieldsOK(s)  BY <1>4, <1>5, <1>7 DEF ReqInv, FieldsOK, Keeps, Stages
  <2>2. OnRoute(s)  BY <1>5, <1>7 DEF OnRoute
  <2>3. Cleared(s, since[r])  BY <1>4, <1>5, <1>7 DEF ReqInv, Cleared, Keeps
  <2>4. Filtered(s, since[r])
    <3>1. q.shown = {}  BY <1>1, <1>4 DEF ReqInv, Filtered
    <3> QED  BY <1>5, <1>7, <3>1 DEF Filtered
  <2>5. Sees(since[r]) /\ since[r] \in SinceType  BY <1>1, <1>4 DEF ReqInv
  <2>6. Commented(s, since[r])
    <3>1. Commented(q, since[r]) /\ s.op = q.op /\ s.comments = q.comments \cup new
      BY <1>4, <1>7 DEF ReqInv, Keeps
    <3>2. meta \in since[r].meta  BY <2>5 DEF Sees
    <3> HIDE DEF q
    <3> QED  BY <1>6, <3>1, <3>2 DEF Commented
  <2>7. Honest(s) /\ Planned(s)  BY <1>4, <1>7 DEF ReqInv, Honest, Planned, Keeps
  <2> QED  BY <2>1, <2>2, <2>3, <2>4, <2>5, <2>6, <2>7 DEF ReqInv
<1>10. PoolInv'  BY <1>1, <1>5, <1>7, <1>8, PoolStays DEF config, InUse
<1> QED  BY <1>1, <1>8, <1>9, <1>10, OthersHold DEF Inv, ConfigOK

\* A name is shown or hidden as it is granted at that moment.
LEMMA FilterHolds ==
  ASSUME Inv, NEW r \in Requests, Filter(r)
  PROVE  Inv'
<1>1. req[r].pc = "filter" /\ UNCHANGED <<config, pool, using, since>>  BY DEF Filter, At
<1> DEFINE q == req[r]
<1>2. ReqInv(q, since[r]) /\ WellFormed(q)  BY DEF Inv, Holds, ReqInv, FieldsOK
<1>3. Sees(since[r]) /\ since[r] \in SinceType  BY <1>1, <1>2 DEF ReqInv
<1>4. ASSUME NEW s, Becomes(r, s), WellFormed(s), Keeps(q, s), s.ran = q.ran,
             s.attempt = q.attempt, s.answer = q.answer, s.comments = q.comments,
             s.pc \in {"filter", "answered"}, Filtered(s, since[r])
      PROVE  Inv'
  <2>1. /\ Formed' /\ req'[r] = s /\ \A p \in Requests \ {r} : req'[p] = req[p]
    BY <1>4, InvFormed, BecomesEffect
  <2>2. ReqInv(s, since[r])
    <3>1. FieldsOK(s)  BY <1>2, <1>4 DEF ReqInv, FieldsOK, Keeps, Stages
    <3>2. OnRoute(s)  BY <1>4 DEF OnRoute
    <3>3. Cleared(s, since[r])  BY <1>2, <1>4 DEF ReqInv, Cleared, Keeps
    <3>4. Commented(s, since[r]) /\ Honest(s) /\ Planned(s)
      BY <1>2, <1>4 DEF ReqInv, Commented, Honest, Planned, Keeps
    <3> QED  BY <1>3, <1>4, <3>1, <3>2, <3>3, <3>4 DEF ReqInv
  <2>3. PoolInv'  BY <1>1, <1>4, <2>1, PoolStays DEF config, InUse
  <2> QED  BY <1>1, <2>1, <2>2, <2>3, OthersHold DEF Inv, ConfigOK
<1>5. CASE q.left = {} /\ Goto(r, "answered")
  <2> DEFINE s == [q EXCEPT !.pc = "answered"]
  <2>1. WellFormed(s) /\ s.pc = "answered" /\ Keeps(q, s) /\ Carries(q, s)  BY <1>2, PlaceOnly
  <2>2. Becomes(r, s)  BY <1>5 DEF Goto
  <2> HIDE DEF s
  <2>3. Filtered(s, since[r])
    BY <1>1, <1>2, <1>5, <2>1 DEF ReqInv, Filtered, Carries, Settles
  <2> QED  BY <1>4, <2>1, <2>2, <2>3 DEF Carries
<1>6. CASE q.left # {}
  <2>1. PICK p \in q.left : Becomes(r, [q EXCEPT !.left = @ \ {p},
                                          !.shown = IF Granted(p) THEN @ \cup {p} ELSE @])
    BY <1>6 DEF Filter
  <2> DEFINE shown == IF Granted(p) THEN q.shown \cup {p} ELSE q.shown
             s == [q EXCEPT !.left = @ \ {p}, !.shown = shown]
  <2>2. Becomes(r, s)  BY <2>1
  <2>3. Granted(p) => p \in shown  OBVIOUS
  <2>4. \A x : x # p => (x \in shown <=> x \in q.shown)  OBVIOUS
  <2>5. ~Granted(p) => shown = q.shown  OBVIOUS
  <2> HIDE DEF shown
  <2>6. /\ WellFormed(s) /\ s.pc = q.pc /\ Keeps(q, s) /\ s.ran = q.ran
        /\ s.attempt = q.attempt /\ s.answer = q.answer /\ s.comments = q.comments
        /\ s.left = q.left \ {p} /\ s.shown = shown /\ s.found = q.found
    <3> HIDE DEF q
    <3> QED  BY <1>2 DEF WellFormed, Fields, Keeps
  <2> HIDE DEF s
  <2>7. /\ q.left \cap q.shown = {} /\ q.left \subseteq q.found /\ q.shown \subseteq q.found
        /\ \A x \in q.found \ q.left : Settles(since[r], x, q.shown)
    BY <1>1, <1>2 DEF ReqInv, Filtered
  <2>8. Settles(since[r], p, shown)
    <3>1. (p \in perm.granted) = (p \in shown)  BY <2>3, <2>5, <2>7 DEF Granted
    <3> QED  BY <1>3, <3>1 DEF Settles, Sees
  <2>9. \A x \in s.found \ s.left : Settles(since[r], x, s.shown)
    <3> SUFFICES ASSUME NEW x \in s.found \ s.left PROVE Settles(since[r], x, shown)
      BY <2>6
    <3>1. CASE x = p  BY <2>8, <3>1
    <3>2. CASE x # p
      <4>1. x \in q.found \ q.left  BY <2>6, <3>2
      <4>2. Settles(since[r], x, q.shown)  BY <2>7, <4>1
      <4>3. (x \in shown) = (x \in q.shown)  BY <2>4, <3>2
      <4> QED  BY <4>2, <4>3 DEF Settles
    <3> QED  BY <3>1, <3>2
  <2>10. s.left \cap s.shown = {} /\ s.left \subseteq s.found /\ s.shown \subseteq s.found
    BY <2>4, <2>6, <2>7
  <2>11. Filtered(s, since[r])  BY <1>1, <2>6, <2>9, <2>10 DEF Filtered
  <2> QED  BY <1>1, <1>4, <2>2, <2>6, <2>11
<1> QED  BY <1>5, <1>6 DEF Filter

-----------------------------------------------------------------------------
(* Arrival, return and reloads.                                              *)

\* What a request has seen when it comes.
Now == [snap |-> {snap}, perm |-> {perm}, meta |-> {meta}]

\* A request comes.
LEMMA ComesHolds ==
  ASSUME Inv, NEW r \in Requests, NEW q, Comes(r, q),
         q.pc \in {"handler", "check", "config", "filter"}, ReqInv(q, Now)
  PROVE  Inv'
<1>1. Becomes(r, q) /\ req[r].pc = "idle" /\ UNCHANGED <<config, pool, using>>
  BY DEF Comes, At
<1>2. since' = [since EXCEPT ![r] = Now]  BY DEF Comes, Now
<1>3. /\ Formed' /\ req'[r] = q /\ \A p \in Requests \ {r} : req'[p] = req[p]
  BY <1>1, InvFormed, BecomesEffect DEF ReqInv, FieldsOK
<1>4. since = [p \in Requests |-> since[p]]  BY DEF Inv
<1>5. /\ since' = [p \in Requests |-> since'[p]] /\ since'[r] = Now
      /\ \A p \in Requests \ {r} : since'[p] = since[p]
  <2> HIDE DEF Now
  <2> QED  BY <1>2, <1>4
<1>6. PoolInv'  BY <1>1, <1>3, PoolStays DEF config, InUse
<1> QED  BY <1>1, <1>3, <1>5, <1>6, OthersHold DEF Inv, ConfigOK

\* A request that starts without names.
LEMMA ArriveHolds ==
  ASSUME Inv, NEW r \in Requests, NEW op \in Ops \ {"list"},
         NEW db \in Databases \cup {NoDatabase}, NEW path \in Paths, NEW limit \in IntType,
         NEW pc \in {"handler", "check", "config"}, Arrive(r, op, db, path, limit, pc),
         pc = "handler" => op = "tool",
         pc = "check" => op \in {"tool", "databases", "table", "view"},
         pc = "config" => op \in {"execute", "explain", "test", "schema"}
  PROVE  Inv'
<1> DEFINE b == Blank
           q == [b EXCEPT !.pc = pc, !.op = op, !.db = db, !.path = path, !.limit = limit]
<1>1. WellFormed(b)  BY DEF WellFormed, Fields, Blank
<1>2. /\ b.attempt = 0 /\ b.ran = None /\ b.answer = None /\ b.left = {} /\ b.found = {}
      /\ b.shown = {} /\ b.comments = {}
  BY DEF Blank
<1>3. Comes(r, q)  BY DEF Arrive
<1> HIDE DEF b
<1>4. /\ WellFormed(q) /\ q.pc = pc /\ q.op = op /\ q.db = db /\ q.path = path
      /\ q.limit = limit /\ Carries(b, q)
  BY <1>1 DEF WellFormed, Fields, Carries
<1> HIDE DEF q
<1>5. FieldsOK(q)  BY <1>2, <1>4 DEF FieldsOK, Stages, Carries
<1>6. OnRoute(q)  BY <1>4 DEF OnRoute, Ops
<1>7. Cleared(q, Now)  BY <1>2, <1>4 DEF Cleared, Carries
<1>8. Filtered(q, Now) /\ Commented(q, Now) /\ Planned(q) /\ Honest(q)
  BY <1>2, <1>4 DEF Filtered, Commented, Planned, Honest, Carries
<1>9. Now \in SinceType /\ Sees(Now)  BY DEF Now, SinceType, Sees, Inv, ConfigOK
<1>10. ReqInv(q, Now)  BY <1>5, <1>6, <1>7, <1>8, <1>9 DEF ReqInv
<1> QED  BY <1>3, <1>4, <1>10, ComesHolds

\* A list whose names come with the request.
LEMMA ListNamesHolds ==
  ASSUME Inv, NEW r \in Requests, NEW names, ListNames(r, names)
  PROVE  Inv'
<1> DEFINE b == Blank
           q == [b EXCEPT !.pc = "filter", !.op = "list", !.found = names, !.left = names]
<1>1. WellFormed(b)  BY DEF WellFormed, Fields, Blank
<1>2. /\ b.db = NoDatabase /\ b.path = <<>> /\ b.limit = 0 /\ b.attempt = 0 /\ b.ran = None
      /\ b.answer = None /\ b.shown = {} /\ b.comments = {}
  BY DEF Blank
<1>3. Comes(r, q)  BY DEF ListNames
<1> HIDE DEF b
<1>4. /\ WellFormed(q) /\ q.pc = "filter" /\ q.op = "list" /\ q.db = b.db /\ q.path = b.path
      /\ q.limit = b.limit /\ q.attempt = b.attempt /\ q.ran = b.ran /\ q.answer = b.answer
      /\ q.shown = b.shown /\ q.comments = b.comments /\ q.left = names /\ q.found = names
  BY <1>1 DEF WellFormed, Fields
<1> HIDE DEF q
<1>5. FieldsOK(q)
  BY <1>2, <1>4, LimitsAssumption DEF FieldsOK, Stages, Ops, Paths, IntType
<1>6. OnRoute(q) /\ Cleared(q, Now)  BY <1>2, <1>4 DEF OnRoute, Cleared
<1>7. Filtered(q, Now) /\ Commented(q, Now) /\ Planned(q) /\ Honest(q)
  BY <1>2, <1>4 DEF Filtered, Commented, Planned, Honest
<1>8. Now \in SinceType /\ Sees(Now)  BY DEF Now, SinceType, Sees, Inv, ConfigOK
<1>9. ReqInv(q, Now)  BY <1>5, <1>6, <1>7, <1>8 DEF ReqInv
<1> QED  BY <1>3, <1>4, <1>9, ComesHolds

\* The arrivals of queries.
LEMMA QueryArrives ==
  ASSUME Inv, NEW r \in Requests,
         \/ ExecuteQuery(r) \/ SubmitAsyncQuery(r) \/ ExplainQuery(r) \/ DatasourceTest(r)
         \/ McpExecuteQuery(r) \/ McpSubmitAsyncQuery(r) \/ McpExplainQuery(r)
         \/ ExecuteTool(r) \/ SubmitAsyncTool(r) \/ DynamicTool(r) \/ McpSubmitAsyncTool(r)
  PROVE  Inv'
<1>1. \A db \in Databases \cup {NoDatabase} : DbPath(db) \in Paths  BY DEF DbPath, Paths
<1>2. <<>> \in Paths /\ <<Tool>> \in Paths  BY DEF Paths
<1>3. /\ 0 \in IntType /\ HandlerLimit \in IntType /\ ServiceLimit \in IntType
      /\ Limits \subseteq IntType
  BY LimitsAssumption DEF IntType
<1>4. {"execute", "explain", "test", "tool"} \subseteq Ops \ {"list"}  BY DEF Ops
<1>5. CASE ExecuteQuery(r)
  <2>1. PICK db \in Databases \cup {NoDatabase}, limit \in Limits :
          Arrive(r, "execute", db, DbPath(db), IF limit <= 0 THEN HandlerLimit ELSE limit, "config")
    BY <1>5 DEF ExecuteQuery
  <2>2. (IF limit <= 0 THEN HandlerLimit ELSE limit) \in IntType  BY <1>3
  <2> QED  BY <1>1, <1>4, <2>1, <2>2, ArriveHolds
<1>6. CASE McpExecuteQuery(r)
  BY <1>1, <1>3, <1>4, <1>6, ArriveHolds DEF McpExecuteQuery
<1>7. CASE SubmitAsyncQuery(r) \/ McpSubmitAsyncQuery(r)
  BY <1>6, <1>7 DEF SubmitAsyncQuery, McpSubmitAsyncQuery
<1>8. CASE ExplainQuery(r) \/ McpExplainQuery(r)
  BY <1>1, <1>3, <1>4, <1>8, ArriveHolds DEF ExplainQuery, McpExplainQuery
<1>9. CASE DatasourceTest(r)
  BY <1>2, <1>3, <1>4, <1>9, ArriveHolds DEF DatasourceTest
<1>10. CASE ExecuteTool(r) \/ DynamicTool(r) \/ SubmitAsyncTool(r)
  <2>1. PICK db \in Databases : Arrive(r, "tool", db, <<Tool>>, ServiceLimit, "handler")
    BY <1>10 DEF ExecuteTool, DynamicTool, SubmitAsyncTool
  <2> QED  BY <1>2, <1>3, <1>4, <2>1, ArriveHolds
<1>11. CASE McpSubmitAsyncTool(r)
  BY <1>2, <1>3, <1>4, <1>11, ArriveHolds DEF McpSubmitAsyncTool
<1> QED  BY <1>5, <1>6, <1>7, <1>8, <1>9, <1>10, <1>11

\* The arrivals of listings.
LEMMA ListingArrives ==
  ASSUME Inv, NEW r \in Requests,
         \/ ListDatasources(r) \/ ListDatabases(r) \/ GetSchema(r) \/ GetTableInfo(r)
         \/ GetViewInfo(r) \/ McpListDatasources(r) \/ McpListDatabases(r) \/ McpGetSchema(r)
         \/ McpGetTableInfo(r) \/ McpGetViewInfo(r) \/ ListTools(r)
  PROVE  Inv'
<1>1. <<>> \in Paths /\ \A db \in Databases : <<db>> \in Paths  BY DEF Paths
<1>2. \A p \in Tables : p \in Paths /\ p[1] \in Databases
  BY CatalogAssumption DEF Tables, Paths
<1>3. 0 \in IntType  BY LimitsAssumption DEF IntType
<1>4. {"databases", "schema", "table", "view"} \subseteq Ops \ {"list"}  BY DEF Ops
<1>5. CASE ListDatabases(r) \/ McpListDatabases(r)
  BY <1>1, <1>3, <1>4, <1>5, ArriveHolds DEF ListDatabases, McpListDatabases
<1>6. CASE GetSchema(r) \/ McpGetSchema(r)
  BY <1>1, <1>3, <1>4, <1>6, ArriveHolds DEF GetSchema, McpGetSchema
<1>7. CASE GetTableInfo(r) \/ McpGetTableInfo(r)
  <2>1. PICK p \in Tables : Arrive(r, "table", p[1], p, 0, "check")
    BY <1>7 DEF GetTableInfo, McpGetTableInfo
  <2> QED  BY <1>2, <1>3, <1>4, <2>1, ArriveHolds
<1>8. CASE GetViewInfo(r) \/ McpGetViewInfo(r)
  <2>1. PICK p \in Tables : Arrive(r, "view", p[1], p, 0, "check")
    BY <1>8 DEF GetViewInfo, McpGetViewInfo
  <2> QED  BY <1>2, <1>3, <1>4, <2>1, ArriveHolds
<1>9. CASE ListDatasources(r) \/ McpListDatasources(r) \/ ListTools(r)
  BY <1>9, ListNamesHolds DEF ListDatasources, McpListDatasources, ListTools
<1> QED  BY <1>5, <1>6, <1>7, <1>8, <1>9

\* The answer is out; nothing is left of the request.
LEMMA ReturnHolds ==
  ASSUME Inv, NEW r \in Requests, Return(r)
  PROVE  Inv'
<1> DEFINE s == [Blank EXCEPT !.pc = "done"]
<1>1. Becomes(r, s) /\ req[r].pc \in {"answered", "ended"} /\ UNCHANGED <<config, pool, using>>
  BY DEF Return
<1>2. since' = [since EXCEPT ![r] = Nothing]  BY DEF Return
<1>3. Nothing \in SinceType  BY DEF Nothing, SinceType
<1>4. ReqInv(s, Nothing) /\ WellFormed(s)  BY <1>3, BlankHolds, LimitsAssumption
<1>5. s.pc = "done"  BY BlankFields
<1> HIDE DEF s
<1>6. /\ Formed' /\ req'[r] = s /\ \A p \in Requests \ {r} : req'[p] = req[p]
  BY <1>1, <1>4, InvFormed, BecomesEffect
<1>7. since = [p \in Requests |-> since[p]]  BY DEF Inv
<1>8. /\ since' = [p \in Requests |-> since'[p]] /\ since'[r] = Nothing
      /\ \A p \in Requests \ {r} : since'[p] = since[p]
  BY <1>2, <1>7
<1>9. PoolInv'  BY <1>1, <1>5, <1>6, PoolStays DEF config, InUse
<1> QED  BY <1>1, <1>4, <1>6, <1>8, <1>9, OthersHold DEF Inv, ConfigOK

\* A request that has seen more configurations is as well off.
LEMMA GrowsHolds ==
  ASSUME Inv, NEW r \in Requests, UNCHANGED <<type, req>>, since'[r] \in SinceType,
         since[r].snap \subseteq since'[r].snap, since[r].perm \subseteq since'[r].perm,
         since[r].meta \subseteq since'[r].meta,
         Active(r) => Sees(since[r])'
  PROVE  Holds(r)'
<1> DEFINE q == req[r]
           s == since[r]
<1>1. ReqInv(q, s)  BY DEF Inv, Holds
<1>2. FieldsOK(q)'  BY <1>1 DEF ReqInv, FieldsOK, WellFormed
<1>3. (q.pc \notin {"idle", "done"})' => Sees(s)'  BY DEF Active
<1>4. OnRoute(q)' /\ Planned(q)'  BY <1>1 DEF ReqInv, OnRoute, Planned, Sql
<1>5. Honest(q)'  BY <1>1 DEF ReqInv, Honest, Told, Sql
<1>6. Cleared(q, s)'  BY <1>1 DEF ReqInv, Cleared
<1>7. Filtered(q, s)'  BY <1>1 DEF ReqInv, Filtered, Settles
<1>8. Commented(q, s)'  BY <1>1 DEF ReqInv, Commented, Own, Thing, Kind, Sql
<1> QED  BY <1>2, <1>3, <1>4, <1>5, <1>6, <1>7, <1>8 DEF ReqInv, Holds

\* What Seen does to what a request has seen.
LEMMA SeenEffect ==
  ASSUME Inv, NEW service \in {"snap", "perm", "meta"}, NEW c \in Configurations,
         Seen(service, c)
  PROVE  /\ since' = [r \in Requests |-> since'[r]]
         /\ \A r \in Requests :
              /\ since'[r] \in SinceType
              /\ since[r].snap \subseteq since'[r].snap
              /\ since[r].perm \subseteq since'[r].perm
              /\ since[r].meta \subseteq since'[r].meta
              /\ Active(r) => c \in since'[r][service]
<1>1. since' = [r \in Requests |-> since'[r]]  BY DEF Seen
<1>2. ASSUME NEW r \in Requests
      PROVE  /\ since'[r] \in SinceType
             /\ since[r].snap \subseteq since'[r].snap
             /\ since[r].perm \subseteq since'[r].perm
             /\ since[r].meta \subseteq since'[r].meta
             /\ Active(r) => c \in since'[r][service]
  <2>1. since[r] \in SinceType  BY DEF Inv, Holds, ReqInv
  <2>2. CASE ~Active(r)
    <3>1. since'[r] = since[r]  BY <2>2 DEF Seen
    <3> QED  BY <2>1, <2>2, <3>1
  <2>3. CASE Active(r)
    <3>1. since'[r] = [since[r] EXCEPT ![service] = @ \cup {c}]  BY <2>3 DEF Seen
    <3>2. CASE service = "snap"  BY <2>1, <3>1, <3>2 DEF SinceType
    <3>3. CASE service = "perm"  BY <2>1, <3>1, <3>3 DEF SinceType
    <3>4. CASE service = "meta"  BY <2>1, <3>1, <3>4 DEF SinceType
    <3> QED  BY <3>2, <3>3, <3>4
  <2> QED  BY <2>2, <2>3
<1> QED  BY <1>1, <1>2

\* A reload touches no request but in what it has seen.
LEMMA ReloadHolds ==
  ASSUME Inv, Reload
  PROVE  Inv'
<1>1. UNCHANGED <<type, using, pool, req>>
  BY DEF Reload, SwapSnapshot, UpdatePermissions, UpdateMetadata
<1>2. PoolInv'  BY <1>1 DEF Inv, PoolInv, Explains, Mine, Plans
<1>3. ConfigOK'
  <2>1. CASE SwapSnapshot
    BY <1>1, <2>1, BoundAssumption DEF SwapSnapshot, Inv, ConfigOK
  <2>2. CASE UpdatePermissions \/ UpdateMetadata
    BY <1>1, <2>2 DEF UpdatePermissions, UpdateMetadata, Inv, ConfigOK
  <2> QED  BY <2>1, <2>2 DEF Reload
<1>4. /\ since' = [r \in Requests |-> since'[r]]
      /\ \A r \in Requests :
           /\ since'[r] \in SinceType
           /\ since[r].snap \subseteq since'[r].snap
           /\ since[r].perm \subseteq since'[r].perm
           /\ since[r].meta \subseteq since'[r].meta
           /\ Active(r) => Sees(since[r])'
  <2>0. {snap, perm, meta} \subseteq Configurations
        /\ \A r \in Requests : Active(r) => Sees(since[r])
    BY DEF Inv, ConfigOK, Holds, ReqInv, Active
  <2>1. CASE SwapSnapshot
    <3>1. snap' \in Configurations /\ Seen("snap", snap') /\ UNCHANGED <<perm, meta>>
      BY <2>1 DEF SwapSnapshot
    <3> QED  BY <2>0, <3>1, SeenEffect DEF Sees
  <2>2. CASE UpdatePermissions
    <3>1. perm' = snap /\ Seen("perm", snap) /\ UNCHANGED <<snap, meta>>
      BY <2>2 DEF UpdatePermissions
    <3> QED  BY <2>0, <3>1, SeenEffect DEF Sees
  <2>3. CASE UpdateMetadata
    <3>1. meta' = snap /\ Seen("meta", snap) /\ UNCHANGED <<snap, perm>>
      BY <2>3 DEF UpdateMetadata
    <3> QED  BY <2>0, <3>1, SeenEffect DEF Sees
  <2> QED  BY <2>1, <2>2, <2>3 DEF Reload
<1>5. \A r \in Requests : Holds(r)'  BY <1>1, <1>4, GrowsHolds
<1> QED  BY <1>1, <1>2, <1>3, <1>4, <1>5 DEF Inv

-----------------------------------------------------------------------------
(* The invariant.                                                            *)

\* The invariant holds before the first request.
LEMMA InitHolds == Init => Inv
<1> SUFFICES ASSUME Init PROVE Inv  OBVIOUS
<1>1. ConfigOK  BY BoundAssumption DEF Init, ConfigOK
<1>2. Nothing \in SinceType  BY DEF Nothing, SinceType
<1>3. Blank.pc = "idle" /\ WellFormed(Blank)  BY DEF Blank, WellFormed, Fields
<1>4. ReqInv(Blank, Nothing)
  <2> DEFINE b == Blank
             n == Nothing
  <2>1. [b EXCEPT !.pc = "idle"] = b
    <3> HIDE DEF b
    <3> QED  BY <1>3 DEF b, WellFormed, Fields
  <2>2. ReqInv([Blank EXCEPT !.pc = "idle"], n)  BY <1>2, BlankHolds, LimitsAssumption
  <2> QED  BY <2>1, <2>2
<1>5. req = [r \in Requests |-> Blank] /\ since = [r \in Requests |-> Nothing]  BY DEF Init
<1>6. \A r \in Requests : Holds(r)
  <2> DEFINE b == Blank
             n == Nothing
  <2>1. req = [r \in Requests |-> b] /\ since = [r \in Requests |-> n]  BY <1>5
  <2>2. ReqInv(b, n)  BY <1>4
  <2> HIDE DEF b, n
  <2> QED  BY <2>1, <2>2 DEF Holds
<1>7. PoolInv
  <2> DEFINE b == Blank
             free == [user |-> None, plans |-> FALSE]
  <2>1. req = [r \in Requests |-> b] /\ b.pc = "idle"  BY <1>3, <1>5
  <2>2. pool = [c \in Conns |-> free]  BY DEF Init
  <2>3. free.user = None /\ ~free.plans /\ free \in [user : Requests \cup {None}, plans : BOOLEAN]
    OBVIOUS
  <2> HIDE DEF b, free
  <2> QED  BY <2>1, <2>2, <2>3 DEF PoolInv, InUse
<1> QED  BY <1>1, <1>5, <1>6, <1>7 DEF Inv

\* Every step preserves the invariant.
LEMMA NextHolds == Inv /\ [Next]_vars => Inv'
<1> SUFFICES ASSUME Inv, [Next]_vars PROVE Inv'  OBVIOUS
<1>1. CASE UNCHANGED vars
  <2>1. UNCHANGED <<config, req, since, pool, using>>  BY <1>1 DEF vars
  <2>2. \A r \in Requests : Holds(r)'  BY <2>1, Transfer DEF Inv, Holds
  <2>3. PoolInv'  BY <2>1 DEF Inv, PoolInv, Explains, Mine, Plans, config
  <2> QED  BY <2>1, <2>2, <2>3 DEF Inv, ConfigOK, config
<1>2. CASE Reload  BY <1>2, ReloadHolds
<1>3. ASSUME NEW r \in Requests, Query(r) PROVE Inv'
  <2>1. CASE Execute(r)
    <3>1. PICK Text : Run(r, Text)  BY <2>1 DEF Execute
    <3> QED  BY <3>1, RunHolds
  <2>2. CASE Scan(r)  BY <2>2, ScanHolds
  <2> QED  BY <1>3, <2>1, <2>2, QueryArrives DEF Query
<1>4. ASSUME NEW r \in Requests, Listing(r) PROVE Inv'
  <2>1. CASE Describe(r)
    <3>1. PICK Text : Run(r, Text)  BY <2>1 DEF Describe
    <3> QED  BY <3>1, RunHolds
  <2>2. CASE ReadNames(r) \/ ReadTable(r) \/ SkipView(r)  BY <2>2, ReadsHold
  <2>3. CASE Enhance(r)  BY <2>3, EnhanceHolds
  <2>4. CASE Filter(r)  BY <2>4, FilterHolds
  <2>5. CASE NameMain(r)  BY <2>5, NameMainHolds
  <2> QED  BY <1>4, <2>1, <2>2, <2>3, <2>4, <2>5, ListingArrives DEF Listing
<1>5. ASSUME NEW r \in Requests, Stage(r) PROVE Inv'
  BY <1>5, ReadConfigHolds, CheckHolds, ConnectHolds, AcquireHolds, PlanOnHolds, LostHolds,
     FailsHolds, ReturnHolds DEF Stage
<1> QED  BY <1>1, <1>2, <1>3, <1>4, <1>5 DEF Next

\* So it always holds.
LEMMA SpecHolds == Spec => []Inv
BY InitHolds, NextHolds, PTL DEF Spec

-----------------------------------------------------------------------------
(* What is sent.                                                             *)

\* What may be sent for a tool.
AllStatements == UNION {ToolStatements(call) : call \in Calls}

\* A tool's statement is one of these.
SentOK(q) == q.ran # None /\ q.op = "tool" => q.sent \in AllStatements
SentInv == \A r \in Requests : SentOK(req[r])

\* A request becomes a record of which that holds.
LEMMA BecomesSent ==
  ASSUME Inv, SentInv, UNCHANGED type, NEW r \in Requests, NEW record,
         Becomes(r, record), SentOK(record)
  PROVE  SentInv'
<1>1. AllStatements' = AllStatements  BY DEF AllStatements, ToolStatements, Sql
<1>2. \A q \in Requests : req'[q] = IF q = r THEN record ELSE req[q]
  BY DEF Inv, Becomes
<1>3. ASSUME NEW q \in Requests PROVE SentOK(req[q])'
  <2>1. SentOK(req'[q])  BY <1>2 DEF SentInv
  <2> QED  BY <1>1, <2>1 DEF SentOK
<1> QED  BY <1>3 DEF SentInv

\* It holds of a record that has run nothing, and of one that keeps what it sent.
LEMMA KeptSent ==
  ASSUME Inv, SentInv, NEW r \in Requests, NEW s,
         \/ s.ran = None
         \/ s.op = req[r].op /\ s.ran = req[r].ran /\ s.sent = req[r].sent
  PROVE  SentOK(s)
BY DEF SentInv, SentOK

\* A change of the place, and an end.
LEMMA MovesSent ==
  ASSUME Inv, SentInv, UNCHANGED type, NEW r \in Requests,
         NEW pc, Goto(r, pc) \/ Becomes(r, [Blank EXCEPT !.pc = pc])
  PROVE  SentInv'
<1>1. CASE Goto(r, pc)
  <2> DEFINE q == req[r]
             s == [q EXCEPT !.pc = pc]
  <2>1. WellFormed(q)  BY InvFormed DEF Formed
  <2>2. Keeps(q, s) /\ Carries(q, s)  BY <2>1, PlaceOnly
  <2>3. Becomes(r, s)  BY <1>1 DEF Goto
  <2> HIDE DEF s
  <2> QED  BY <2>2, <2>3, BecomesSent, KeptSent DEF Keeps, Carries
<1>2. CASE Becomes(r, [Blank EXCEPT !.pc = pc])
  <2> DEFINE s == [Blank EXCEPT !.pc = pc]
  <2>1. s.ran = None  BY BlankFields
  <2>2. Becomes(r, s)  BY <1>2
  <2> HIDE DEF s
  <2> QED  BY <2>1, <2>2, BecomesSent, KeptSent
<1> QED  BY <1>1, <1>2

\* A statement is run: for a tool, one of its statements.
LEMMA RunSent ==
  ASSUME Inv, SentInv, NEW r \in Requests, NEW Text, Run(r, Text), UNCHANGED type,
         req[r].op = "tool" => Text = AllStatements
  PROVE  SentInv'
<1> DEFINE q == req[r]
           ran == [db |-> RunsIn(r), plan |-> Plans(r)]
<1>1. PICK text \in Text : Becomes(r, [q EXCEPT !.pc = "rows", !.sent = text, !.ran = ran])
  BY DEF Run
<1> DEFINE s == [q EXCEPT !.pc = "rows", !.sent = text, !.ran = ran]
<1>2. WellFormed(q)  BY InvFormed DEF Formed
<1> HIDE DEF ran
<1>3. s.op = q.op /\ s.sent = text /\ s.ran = ran
  <2> HIDE DEF q
  <2> QED  BY <1>2 DEF WellFormed, Fields
<1>4. Becomes(r, s)  BY <1>1
<1> HIDE DEF s
<1>5. SentOK(s)  BY <1>1, <1>3 DEF SentOK
<1> QED  BY <1>4, <1>5, BecomesSent

\* The rows are closed.
LEMMA ClosedSent ==
  ASSUME Inv, SentInv, UNCHANGED type, NEW r \in Requests, NEW record,
         Closed(r, record), WellFormed(record), SentOK(record)
  PROVE  SentInv'
<1>1. CASE Pinned(r)
  <2> DEFINE s == [record EXCEPT !.pc = "close", !.op = "explain"]
  <2>1. s.op = "explain" /\ s.ran = record.ran  BY DEF WellFormed, Fields
  <2>2. Becomes(r, s)  BY <1>1 DEF Closed
  <2> HIDE DEF s
  <2>3. SentOK(s)  BY <2>1 DEF SentOK
  <2> QED  BY <2>2, <2>3, BecomesSent
<1>2. CASE ~Pinned(r)
  BY <1>2, BecomesSent DEF Closed
<1> QED  BY <1>1, <1>2

\* A request comes with nothing run.
LEMMA ArriveSent ==
  ASSUME Inv, SentInv, NEW r \in Requests,
         \/ \E op, db, path, limit, pc : Arrive(r, op, db, path, limit, pc)
         \/ \E names : ListNames(r, names)
  PROVE  SentInv'
<1> DEFINE b == Blank
<1>1. WellFormed(b) /\ b.ran = None  BY DEF WellFormed, Fields, Blank
<1>2. CASE \E op, db, path, limit, pc : Arrive(r, op, db, path, limit, pc)
  <2>1. PICK op, db, path, limit, pc : Arrive(r, op, db, path, limit, pc)  BY <1>2
  <2> DEFINE s == [b EXCEPT !.pc = pc, !.op = op, !.db = db, !.path = path, !.limit = limit]
  <2>2. Becomes(r, s) /\ UNCHANGED type  BY <2>1 DEF Arrive, Comes, config
  <2> HIDE DEF b
  <2>3. s.ran = None  BY <1>1 DEF WellFormed, Fields
  <2> HIDE DEF s
  <2> QED  BY <2>2, <2>3, BecomesSent, KeptSent
<1>3. CASE \E names : ListNames(r, names)
  <2>1. PICK names : ListNames(r, names)  BY <1>3
  <2> DEFINE s == [b EXCEPT !.pc = "filter", !.op = "list", !.found = names, !.left = names]
  <2>2. Becomes(r, s) /\ UNCHANGED type  BY <2>1 DEF ListNames, Comes, config
  <2> HIDE DEF b
  <2>3. s.ran = None  BY <1>1 DEF WellFormed, Fields
  <2> HIDE DEF s
  <2> QED  BY <2>2, <2>3, BecomesSent, KeptSent
<1> QED  BY <1>2, <1>3

\* The steps of queries.
LEMMA QuerySent ==
  ASSUME Inv, SentInv, NEW r \in Requests, Query(r)
  PROVE  SentInv'
<1>1. CASE Execute(r)
  <2>1. UNCHANGED type  BY <1>1 DEF Execute, Run, config
  <2> QED  BY <1>1, <2>1, RunSent DEF Execute, AllStatements
<1>2. CASE Scan(r)
  <2>1. PICK answer : Closed(r, [Blank EXCEPT !.pc = "answered", !.answer = answer])
    BY <1>2 DEF Scan
  <2> DEFINE b == Blank
             s == [b EXCEPT !.pc = "answered", !.answer = answer]
  <2>2. Closed(r, s) /\ UNCHANGED type  BY <1>2, <2>1 DEF Scan, config
  <2>3. WellFormed(b) /\ b.ran = None  BY DEF WellFormed, Fields, Blank
  <2> HIDE DEF b
  <2>4. WellFormed(s) /\ s.ran = None  BY <2>3 DEF WellFormed, Fields
  <2> HIDE DEF s
  <2> QED  BY <2>2, <2>4, ClosedSent, KeptSent
<1>3. CASE ~Execute(r) /\ ~Scan(r)
  <2>1. \E op, db, path, limit, pc : Arrive(r, op, db, path, limit, pc)
    BY <1>3 DEF Query, ExecuteQuery, SubmitAsyncQuery, ExplainQuery, DatasourceTest,
       McpExecuteQuery, McpSubmitAsyncQuery, McpExplainQuery, ExecuteTool, SubmitAsyncTool,
       DynamicTool, McpSubmitAsyncTool
  <2> QED  BY <2>1, ArriveSent
<1> QED  BY <1>1, <1>2, <1>3

\* Reading goes on, of what is no tool.
LEMMA ContinueSent ==
  ASSUME Inv, SentInv, UNCHANGED type, NEW r \in Requests, NEW left, NEW found,
         Continue(r, left, found)
  PROVE  SentInv'
<1> DEFINE q == req[r]
           s == IF left = {} THEN [q EXCEPT !.pc = "enhance", !.left = found, !.found = found]
                ELSE [q EXCEPT !.pc = "send", !.left = left, !.found = found]
<1>1. WellFormed(q)  BY InvFormed DEF Formed
<1>2. Closed(r, s)  BY DEF Continue
<1>3. WellFormed(s) /\ s.op = q.op /\ s.ran = q.ran /\ s.sent = q.sent
  <2> HIDE DEF q
  <2> QED  BY <1>1 DEF WellFormed, Fields
<1> HIDE DEF s
<1> QED  BY <1>2, <1>3, ClosedSent, KeptSent

\* The steps of listings.
LEMMA ListingSent ==
  ASSUME Inv, SentInv, NEW r \in Requests, Listing(r)
  PROVE  SentInv'
<1> DEFINE q == req[r]
<1>0. WellFormed(q)  BY InvFormed DEF Formed
<1>1. CASE Describe(r)
  <2>1. UNCHANGED type /\ req[r].op # "tool"  BY <1>1 DEF Describe, Listings, Run, config
  <2> QED  BY <1>1, <2>1, RunSent DEF Describe
<1>2. CASE ReadNames(r) \/ ReadTable(r) \/ SkipView(r)
  <2>1. UNCHANGED type  BY <1>2 DEF ReadNames, ReadTable, SkipView, config
  <2>2. \E left, found : Continue(r, left, found)
    BY <1>2 DEF ReadNames, ReadTable, SkipView
  <2> QED  BY <2>1, <2>2, ContinueSent
<1>3. CASE Enhance(r)
  <2>1. PICK comments, pc, left :
          Becomes(r, [q EXCEPT !.comments = comments, !.pc = pc, !.left = left])
    BY <1>3 DEF Enhance
  <2> DEFINE s == [q EXCEPT !.comments = comments, !.pc = pc, !.left = left]
  <2>2. Becomes(r, s) /\ UNCHANGED type  BY <1>3, <2>1 DEF Enhance, config
  <2>3. s.op = q.op /\ s.ran = q.ran /\ s.sent = q.sent
    <3> HIDE DEF q
    <3> QED  BY <1>0 DEF WellFormed, Fields
  <2> HIDE DEF s
  <2> QED  BY <2>2, <2>3, BecomesSent, KeptSent
<1>4. CASE Filter(r)
  <2>1. UNCHANGED type  BY <1>4 DEF Filter, config
  <2>2. CASE Goto(r, "answered")  BY <2>1, <2>2, MovesSent
  <2>3. CASE \E left, shown : Becomes(r, [q EXCEPT !.left = left, !.shown = shown])
    <3>1. PICK left, shown : Becomes(r, [q EXCEPT !.left = left, !.shown = shown])  BY <2>3
    <3> DEFINE s == [q EXCEPT !.left = left, !.shown = shown]
    <3>2. Becomes(r, s)  BY <3>1
    <3>3. s.op = q.op /\ s.ran = q.ran /\ s.sent = q.sent
      <4> HIDE DEF q
      <4> QED  BY <1>0 DEF WellFormed, Fields
    <3> HIDE DEF s
    <3> QED  BY <2>1, <3>2, <3>3, BecomesSent, KeptSent
  <2> QED  BY <1>4, <2>2, <2>3 DEF Filter
<1>5. CASE NameMain(r)
  <2> DEFINE main == {<<MainDatabase>>}
             s == [q EXCEPT !.pc = "enhance", !.left = main, !.found = main]
  <2>1. Becomes(r, s) /\ UNCHANGED type  BY <1>5 DEF NameMain, config
  <2>2. s.op = q.op /\ s.ran = q.ran /\ s.sent = q.sent
    <3> HIDE DEF q, main
    <3> QED  BY <1>0 DEF WellFormed, Fields
  <2> HIDE DEF s
  <2> QED  BY <2>1, <2>2, BecomesSent, KeptSent
<1>6. CASE /\ ~Describe(r) /\ ~ReadNames(r) /\ ~ReadTable(r) /\ ~SkipView(r)
           /\ ~NameMain(r) /\ ~Enhance(r) /\ ~Filter(r)
  <2>1. \/ \E op, db, path, limit, pc : Arrive(r, op, db, path, limit, pc)
        \/ \E names : ListNames(r, names)
    BY <1>6 DEF Listing, ListDatasources, ListDatabases, GetSchema, GetTableInfo, GetViewInfo,
       McpListDatasources, McpListDatabases, McpGetSchema, McpGetTableInfo, McpGetViewInfo,
       ListTools
  <2> QED  BY <2>1, ArriveSent
<1> QED  BY <1>1, <1>2, <1>3, <1>4, <1>5, <1>6

\* The stages.
LEMMA StageSent ==
  ASSUME Inv, SentInv, NEW r \in Requests, Stage(r)
  PROVE  SentInv'
<1>1. UNCHANGED type
  BY DEF Stage, ReadConfig, Check, Connect, Acquire, NoConnection, PlanOn, UsingDatabase,
     ConnectionLost, StatementFails, PlanOff, Return, config
<1>2. CASE \E pc : Goto(r, pc) \/ Becomes(r, [Blank EXCEPT !.pc = pc])
  BY <1>1, <1>2, MovesSent
<1>3. CASE StatementFails(r)
  <2> DEFINE s == [Blank EXCEPT !.pc = "ended"]
  <2>1. Closed(r, s)  BY <1>3 DEF StatementFails
  <2>2. WellFormed(s) /\ s.ran = None  BY BlankFields
  <2> HIDE DEF s
  <2> QED  BY <1>1, <2>1, <2>2, ClosedSent, KeptSent
<1>4. CASE \E attempt : Becomes(r, [req[r] EXCEPT !.pc = "send", !.attempt = attempt])
  <2> DEFINE q == req[r]
  <2>1. PICK attempt : Becomes(r, [q EXCEPT !.pc = "send", !.attempt = attempt])  BY <1>4
  <2> DEFINE s == [q EXCEPT !.pc = "send", !.attempt = attempt]
  <2>2. Becomes(r, s)  BY <2>1
  <2>3. WellFormed(q)  BY InvFormed DEF Formed
  <2>4. s.op = q.op /\ s.ran = q.ran /\ s.sent = q.sent
    <3> HIDE DEF q
    <3> QED  BY <2>3 DEF WellFormed, Fields
  <2> HIDE DEF s
  <2> QED  BY <1>1, <2>2, <2>4, BecomesSent, KeptSent
<1>5. CASE ReadConfig(r) \/ Check(r) \/ Connect(r)
  BY <1>2, <1>5 DEF ReadConfig, Check, Connect, Advance, End
<1>6. CASE \/ Acquire(r) \/ NoConnection(r) \/ PlanOn(r) \/ UsingDatabase(r)
           \/ PlanOff(r) \/ Return(r)
  BY <1>2, <1>6 DEF Acquire, NoConnection, PlanOn, UsingDatabase, PlanOff, Return, End
<1>7. CASE ConnectionLost(r)
  BY <1>2, <1>4, <1>7 DEF ConnectionLost, End
<1> QED  BY <1>3, <1>5, <1>6, <1>7 DEF Stage

\* Every step preserves it.
LEMMA NextSent == Inv /\ SentInv /\ [Next]_vars => SentInv'
<1> SUFFICES ASSUME Inv, SentInv, [Next]_vars PROVE SentInv'  OBVIOUS
<1>1. CASE UNCHANGED <<type, req>>
  BY <1>1 DEF SentInv, SentOK, AllStatements, ToolStatements, Sql
<1>2. CASE UNCHANGED vars  BY <1>1, <1>2 DEF vars, config
<1>3. CASE Reload
  BY <1>1, <1>3 DEF Reload, SwapSnapshot, UpdatePermissions, UpdateMetadata
<1> QED  BY <1>2, <1>3, QuerySent, ListingSent, StageSent DEF Next

\* It holds before the first request, so always.
LEMMA SpecSent == Spec => []SentInv
<1>1. Init => SentInv
  <2> SUFFICES ASSUME Init PROVE SentInv  OBVIOUS
  <2> DEFINE b == Blank
  <2>1. b.ran = None  BY DEF Blank
  <2>2. req = [r \in Requests |-> b]  BY DEF Init
  <2> HIDE DEF b
  <2> QED  BY <2>1, <2>2 DEF SentInv, SentOK
<1> QED  BY <1>1, NextSent, SpecHolds, PTL DEF Spec

-----------------------------------------------------------------------------
(* The theorems.                                                             *)

\* The variables have their types, whatever handlers and reloads do.
THEOREM ServiceTypeOK == Spec => []TypeOK
<1>1. Inv => TypeOK
  <2> SUFFICES ASSUME Inv PROVE TypeOK  OBVIOUS
  <2>1. ConfigOK /\ PoolInv  BY DEF Inv
  <2>2. ASSUME NEW r \in Requests
        PROVE  /\ FieldsOK(req[r]) /\ req[r].shown \subseteq req[r].found
               /\ since[r] \in SinceType
    BY DEF Inv, Holds, ReqInv, Filtered
  <2>3. \A r \in Requests : \A service \in {"snap", "perm", "meta"} :
          since[r][service] \subseteq Configurations
    BY <2>2 DEF SinceType
  <2> QED  BY <2>1, <2>2, <2>3 DEF TypeOK, ConfigOK, PoolInv, FieldsOK
<1> QED  BY <1>1, SpecHolds, PTL

\* No path of a query, tool, explanation or table listing leads to the server
\* without the check and, for queries, the look at shadow, however reloads fall
\* between the stages.
THEOREM GrantedBeforeRun == Spec => []StatementWasGranted
<1>1. Inv => StatementWasGranted
  <2> SUFFICES ASSUME Inv, NEW r \in Requests, Running(r)
               PROVE  /\ req[r].op \notin {"test", "schema"} =>
                           \E c \in since[r].perm : req[r].path \in c.granted
                      /\ Direct(r) => \E c \in since[r].snap : c.datasource = "open"
    BY DEF StatementWasGranted
  <2>1. Cleared(req[r], since[r]) /\ req[r].op \in Ops \cup {"none"} /\ req[r].ran # None
    BY DEF Inv, Holds, ReqInv, FieldsOK, Running
  <2> QED  BY <2>1 DEF Cleared, Direct, Ops
<1> QED  BY <1>1, SpecHolds, PTL

\* A filter that asks name by name while permissions are replaced shows nothing
\* that was never granted and hides nothing that always was.
THEOREM ListsGranted == Spec => []ListsWhatIsGranted
<1>1. Inv => ListsWhatIsGranted
  BY DEF Inv, Holds, ReqInv, Filtered, Settles, ListsWhatIsGranted, At
<1> QED  BY <1>1, SpecHolds, PTL

\* The server's comment is never replaced, and a configured one was in force.
THEOREM CommentsFresh == Spec => []CommentsAreCurrent
<1>1. Inv => CommentsAreCurrent
  BY DEF Inv, Holds, ReqInv, Commented, CommentsAreCurrent
<1> QED  BY <1>1, SpecHolds, PTL

\* On SQL Server a connection in planning mode runs explanations only, and these
\* run only on such a one.
THEOREM PlansOnly == Spec => []ExplainOnlyPlans
<1>1. Inv => ExplainOnlyPlans
  BY DEF Inv, Holds, ReqInv, Planned, ExplainOnlyPlans, Running
<1> QED  BY <1>1, SpecHolds, PTL

\* No path through a statement, among errors, retries and lost connections,
\* keeps the connection.
THEOREM PoolWhole == Spec => []ConnectionsComeBack
<1>1. Inv => ConnectionsComeBack
  BY DEF Inv, PoolInv, InUse, ConnectionsComeBack
<1> QED  BY <1>1, SpecHolds, PTL

\* Whatever the limit and the number of rows, up to the largest int, an answer
\* does not exceed the limit and says truly whether it is cut.
THEOREM CutsTold == Spec => []TruncationHonest
<1>1. Inv => TruncationHonest
  BY DEF Inv, Holds, ReqInv, Honest, Told, TruncationHonest
<1> QED  BY <1>1, SpecHolds, PTL

\* Every statement of a tool is what its template means: with the values bound by
\* any number of placeholders, where none is in a literal and the driver knows the
\* marker, on every SQL type but Oracle and Hive; and with text replaced in any
\* order of the parameters, on the other types, where the call is clear.
THEOREM ToolsSentAsWritten == Spec => []SentAsWritten
<1>1. Inv /\ SentInv => SentAsWritten
  <2> SUFFICES ASSUME Inv, SentInv, NEW r \in Requests, req[r].op = "tool", Running(r)
               PROVE  LET sent == req[r].sent IN
                      IF Binds THEN type # "oracle" /\ Unquoted(sent.call) =>
                                      Understood(sent) = Meant(sent.call)
                      ELSE Clear(sent.call) => sent.text = MeantOrLeft(sent.call)
    BY DEF SentAsWritten
  <2> DEFINE sent == req[r].sent
  <2>1. PICK call \in Calls : sent \in ToolStatements(call)
    BY DEF SentInv, SentOK, Running, AllStatements
  <2>2. Proper(call)  BY CallsAssumption DEF Proper
  <2>3. CASE Binds
    <3> DEFINE numbered == type \in {"postgresql", "mssql"}
               made == Converted(call, numbered)
    <3>1. sent = [call |-> call, text |-> made.text, args |-> made.args]
      BY <2>1, <2>3 DEF ToolStatements, Binds
    <3>2. Unquoted(call) => Bound(made) = Meant(call)
      <4>1. numbered \in BOOLEAN  OBVIOUS
      <4> HIDE DEF numbered
      <4> QED  BY <2>2, <4>1, BoundMeans
    <3> HIDE DEF made, sent
    <3>3. sent.call = call /\ sent.text = made.text /\ sent.args = made.args  BY <3>1
    <3>4. Bound(sent) = Bound(made)  BY <3>3 DEF Bound, BindStep
    <3> QED  BY <2>3, <3>2, <3>3, <3>4 DEF sent, Understood
  <2>4. CASE ~Binds
    <3>1. PICK made \in Substituted(call) :
            sent = [call |-> call, text |-> made.text, args |-> made.args]
      BY <2>1, <2>4 DEF ToolStatements, Binds
    <3> HIDE DEF sent
    <3>2. sent.call = call /\ sent.text = made.text  BY <3>1
    <3>3. Clear(call) => made.text = MeantOrLeft(call)  BY <2>2, SubstitutedMeans
    <3> QED  BY <2>4, <3>2, <3>3 DEF sent
  <2> QED  BY <2>3, <2>4
<1> QED  BY <1>1, SpecHolds, SpecSent, PTL
=============================================================================
