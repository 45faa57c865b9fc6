-------------------------- MODULE PermissionService --------------------------
(***************************************************************************)
(* The permission service (internal/services/permission_service.go): rules *)
(* that grant users and groups datasources, databases, tables, fields and  *)
(* tools, and the checks that read them while a reload replaces them.      *)
(*                                                                         *)
(* A check takes the read lock twice, for the user's group and for the     *)
(* rules; a filter does so for each name.  A pattern is the set of names   *)
(* it matches, a list of patterns the union of those sets.                 *)
(*                                                                         *)
(* Definitions under "Wrong:" are variants with a plausible bug.  They are *)
(* not part of the specification; each shows which property catches it.    *)
(***************************************************************************)
EXTENDS Naturals

CONSTANTS
    Users,
    NoUser,       \* the empty user name: no authentication
    Groups,
    NoGroup,      \* the empty group name
    Datasources, Databases, Tables, Fields, Tools,
    Configs,      \* the configurations a reload may find
    Procs         \* concurrent requests

Rule == [datasources : SUBSET Datasources, databases : SUBSET Databases,
         tables : SUBSET Tables, fields : SUBSET Fields]

Permission ==
    [users : SUBSET Users, groups : SUBSET Groups, rules : SUBSET Rule, tools : SUBSET Tools]

ASSUME PermissionAssumption ==
    /\ NoUser \notin Users
    /\ NoGroup \in Groups
    /\ Configs \subseteq [authUsers   : SUBSET [name : Users, group : Groups],
                          permissions : SUBSET Permission]

VARIABLES
    users,        \* ps.authUsersByName: the group of each user
    permissions,  \* ps.permissions
    check         \* where each request stands

vars == <<users, permissions, check>>

\* What a check asks about, by its kind.
Ops == {"datasource", "database", "table", "field", "tool"}

Paths(op) ==
    CASE op = "datasource" -> {<<d>> : d \in Datasources}
      [] op = "database"   -> Datasources \X Databases
      [] op = "table"      -> Datasources \X Databases \X Tables
      [] op = "field"      -> Datasources \X Databases \X Tables \X Fields
      [] op = "tool"       -> {<<t>> : t \in Tools}

AllPaths == UNION {Paths(op) : op \in Ops}
InForce  == [users : [Users -> Groups], permissions : SUBSET Permission]
Current  == [users |-> users, permissions |-> permissions]

-----------------------------------------------------------------------------
(* Evaluating the rules.                                                   *)

\* Wrong: a user without a group belongs to the group without a name.
MatchedWithoutGroup(perms, group, user) ==
    {p \in perms : user \in p.users \/ group \in p.groups}

\* getUserPermissions: the permissions that name the user or the group.
Matched(perms, group, user) ==
    {p \in perms : user \in p.users \/ (group # NoGroup /\ group \in p.groups)}

CollectRules(matched) == UNION {p.rules : p \in matched}
CollectTools(matched) == UNION {p.tools : p \in matched}

CheckDatasource(R, path) == \E r \in R : path[1] \in r.datasources

CheckDatabase(R, path) ==
    \E r \in R : path[1] \in r.datasources /\ path[2] \in r.databases

CheckTable(R, path) ==
    \E r \in R : /\ path[1] \in r.datasources
                 /\ path[2] \in r.databases
                 /\ path[3] \in r.tables

\* Wrong: the tables of the rule are not looked at.
CheckFieldOnly(R, path) ==
    \E r \in R : /\ path[1] \in r.datasources
                 /\ path[2] \in r.databases
                 /\ path[4] \in r.fields

CheckField(R, path) ==
    \E r \in R : /\ path[1] \in r.datasources
                 /\ path[2] \in r.databases
                 /\ path[3] \in r.tables
                 /\ path[4] \in r.fields

CheckTool(T, path) == path[1] \in T

Permitted(op, matched, path) ==
    \/ op = "datasource" /\ CheckDatasource(CollectRules(matched), path)
    \/ op = "database"   /\ CheckDatabase(CollectRules(matched), path)
    \/ op = "table"      /\ CheckTable(CollectRules(matched), path)
    \/ op = "field"      /\ CheckField(CollectRules(matched), path)
    \/ op = "tool"       /\ CheckTool(CollectTools(matched), path)

-----------------------------------------------------------------------------
(* The requests.                                                           *)

Stages == {"idle", "group", "rules", "decided", "answered"}

Check ==
    [pc      : Stages,
     user    : Users \union {NoUser},
     op      : Ops,
     names   : SUBSET AllPaths,           \* the names asked about
     todo    : SUBSET AllPaths,           \* those not decided yet
     out     : SUBSET AllPaths,           \* those granted
     path    : AllPaths \union {<<>>},    \* the one being checked
     group   : Groups,                    \* the group that was read
     granted : BOOLEAN,                   \* the decision
     seen    : SUBSET InForce,            \* history: in force during this check
     since   : SUBSET InForce]            \* history: since the request came

Idle ==
    [pc |-> "idle", user |-> NoUser, op |-> "tool", names |-> {}, todo |-> {}, out |-> {},
     path |-> <<>>, group |-> NoGroup, granted |-> FALSE, seen |-> {}, since |-> {}]

\* Only a named user is checked, and only for a name not decided yet.
Fits(c) ==
    /\ c.pc \notin {"idle", "answered"} => c.user \in Users
    /\ c.pc \in {"rules", "decided"} => c.path \in c.todo

TypeOK ==
    /\ users \in [Users -> Groups]
    /\ permissions \subseteq Permission
    /\ check \in [Procs -> Check]
    /\ \A p \in Procs : Fits(check[p])

\* UpdateState indexes the users by name.  They come as a map from API keys,
\* in any order: of two keys with one user name, either may win.
ByName(authUsers) ==
    {f \in [Users -> Groups] :
        \A u \in Users : \/ [name |-> u, group |-> f[u]] \in authUsers
                         \/ f[u] = NoGroup /\ ~ \E a \in authUsers : a.name = u}

Init ==
    /\ \E conf \in Configs : users \in ByName(conf.authUsers) /\ permissions = conf.permissions
    /\ check = [p \in Procs |-> Idle]

\* The reload callback swaps users and rules under the write lock.
UpdateState ==
    /\ \E conf \in Configs :
         /\ users' \in ByName(conf.authUsers)
         /\ permissions' = conf.permissions
    /\ check' = [p \in Procs |->
                   [check[p] EXCEPT
                      !.seen  = IF check[p].pc = "rules" THEN @ \union {Current'} ELSE @,
                      !.since = IF check[p].pc = "idle" THEN @ ELSE @ \union {Current'}]]

\* A filter's names differ in their last part only.
Siblings(op, names) ==
    \A a, b \in names : /\ op \in {"database", "table", "field"} => a[1] = b[1]
                        /\ op \in {"table", "field"} => a[2] = b[2]
                        /\ op = "field" => a[3] = b[3]

\* A Check asks about one name, a Filter about several.  Without a user
\* nothing is checked.
Ask(p, u, op, names) ==
    /\ check[p].pc = "idle"
    /\ names # {}
    /\ Siblings(op, names)
    /\ check' = [check EXCEPT ![p] =
                   IF u = NoUser
                   THEN [Idle EXCEPT !.pc = "answered", !.op = op, !.names = names, !.out = names]
                   ELSE [Idle EXCEPT !.pc = "group", !.user = u, !.op = op, !.names = names,
                                     !.todo = names, !.since = {Current}]]
    /\ UNCHANGED <<users, permissions>>

\* getUserGroup, under the first read lock.
GetUserGroup(p) ==
    /\ check[p].pc = "group"
    /\ \E path \in check[p].todo :
         check' = [check EXCEPT ![p].pc = "rules", ![p].path = path,
                                ![p].group = users[check[p].user], ![p].seen = {Current}]
    /\ UNCHANGED <<users, permissions>>

\* The rest of getUserPermissions, under the second read lock.
Decide(p) ==
    /\ check[p].pc = "rules"
    /\ check' = [check EXCEPT
                   ![p].pc = "decided",
                   ![p].granted = Permitted(check[p].op,
                                            Matched(permissions, check[p].group, check[p].user),
                                            check[p].path)]
    /\ UNCHANGED <<users, permissions>>

\* Wrong: a filter takes one granted name for all of them.
CollectAll(p) ==
    LET c == check[p]
    IN  /\ c.pc = "decided"
        /\ check' = [check EXCEPT ![p].pc = "answered", ![p].todo = {},
                                  ![p].out = IF c.granted THEN c.names ELSE c.out]
        /\ UNCHANGED <<users, permissions>>

\* Wrong: the group is kept for the next name, and so is the name.
CollectAgain(p) ==
    LET c == check[p]
    IN  /\ c.pc = "decided"
        /\ check' = [check EXCEPT ![p].pc = IF c.todo \ {c.path} = {} THEN "answered" ELSE "rules",
                                  ![p].todo = c.todo \ {c.path},
                                  ![p].out = IF c.granted THEN @ \union {c.path} ELSE @]
        /\ UNCHANGED <<users, permissions>>

Collect(p) ==
    LET c    == check[p]
        left == c.todo \ {c.path}
    IN  /\ c.pc = "decided"
        /\ check' = [check EXCEPT ![p].pc = IF left = {} THEN "answered" ELSE "group",
                                  ![p].todo = left,
                                  ![p].out = IF c.granted THEN @ \union {c.path} ELSE @]
        /\ UNCHANGED <<users, permissions>>

Return(p) ==
    /\ check[p].pc = "answered"
    /\ check' = [check EXCEPT ![p] = Idle]
    /\ UNCHANGED <<users, permissions>>

Next ==
    \/ UpdateState
    \/ \E p \in Procs :
         \/ \E u \in Users \union {NoUser}, op \in Ops : \E names \in SUBSET Paths(op) :
                Ask(p, u, op, names)
         \/ GetUserGroup(p) \/ Decide(p) \/ Collect(p) \/ Return(p)

Spec == Init /\ [][Next]_vars

-----------------------------------------------------------------------------
(* What a configuration grants, said without the code's helpers.           *)

Covers(r, op, path) ==
    /\ path[1] \in r.datasources
    /\ op # "datasource" => path[2] \in r.databases
    /\ op \in {"table", "field"} => path[3] \in r.tables
    /\ op = "field" => path[4] \in r.fields

Grants(perms, group, u, op, path) ==
    \E perm \in perms :
        /\ \/ u \in perm.users
           \/ group \in perm.groups \ {NoGroup}
        /\ IF op = "tool" THEN path[1] \in perm.tools
                          ELSE \E r \in perm.rules : Covers(r, op, path)

GrantedBy(s, u, op, path) == Grants(s.permissions, s.users[u], u, op, path)

StableGroup(S, u) == \A s, t \in S : s.users[u] = t.users[u]

-----------------------------------------------------------------------------
(* Safety.                                                                 *)

\* While the user stays in one group, each decision is one that a single
\* configuration gives which was in force during the check; in particular a
\* check that begins after a reload knows nothing of the rules before it.
StableGroupDecision ==
    \A p \in Procs :
        LET c == check[p]
        IN  (c.pc = "decided" /\ StableGroup(c.seen, c.user)) =>
                \E s \in c.seen : c.granted <=> GrantedBy(s, c.user, c.op, c.path)

\* A filter that a reload interrupts may mix configurations, but it shows no
\* name that was denied all the time, and hides none that was granted all the
\* time.
FilterMixesOnlyInForce ==
    \A p \in Procs :
        LET c == check[p]
        IN  (c.pc = "answered" /\ c.user # NoUser /\ StableGroup(c.since, c.user)) =>
                \A n \in c.names :
                    \E s \in c.since : (n \in c.out) <=> GrantedBy(s, c.user, c.op, n)

\* A user who may see a field may see its table, the table's database and the
\* database's datasource: schema browsing asks for them one after the other.
GrantsAreNested ==
    \A u \in Users :
        LET R == CollectRules(Matched(permissions, users[u], u))
        IN  /\ \A path \in Paths("field") : CheckField(R, path) => CheckTable(R, path)
            /\ \A path \in Paths("table") : CheckTable(R, path) => CheckDatabase(R, path)
            /\ \A path \in Paths("database") : CheckDatabase(R, path) => CheckDatasource(R, path)

(* What the comments say.                                                  *)

\* permission_service.go:17-18 "so that ConfigService hot-reload can swap the
\* rule set without race conditions": every decision is one that a single
\* configuration gives which was in force during the check.  A check that reads
\* the group before a reload and the rules after it may grant what neither does.
DecisionOfOneConfig ==
    \A p \in Procs :
        LET c == check[p]
        IN  c.pc = "decided" =>
                \E s \in c.seen : c.granted <=> GrantedBy(s, c.user, c.op, c.path)
=============================================================================
