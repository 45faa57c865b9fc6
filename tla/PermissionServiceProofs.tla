----------------------- MODULE PermissionServiceProofs -----------------------
(***************************************************************************)
(* Theorems about PermissionService, for any users, rules, configurations  *)
(* and requests.                                                           *)
(***************************************************************************)
EXTENDS PermissionService, TLAPS

LEMMA Constants ==
    /\ NoUser \notin Users
    /\ NoGroup \in Groups
    /\ Configs \subseteq [authUsers   : SUBSET [name : Users, group : Groups],
                          permissions : SUBSET Permission]
BY PermissionAssumption DEF PermissionAssumption

USE Constants

-----------------------------------------------------------------------------
(* The rules.                                                              *)

\* What the code collects and matches is what the permissions grant.
LEMMA PermittedIsGrants ==
    ASSUME NEW perms, NEW group, NEW u, NEW op \in Ops, NEW path
    PROVE  Permitted(op, Matched(perms, group, u), path) <=> Grants(perms, group, u, op, path)
<1> DEFINE M == Matched(perms, group, u)
<1>1. \A r : r \in CollectRules(M) <=> \E perm \in perms :
              (u \in perm.users \/ group \in perm.groups \ {NoGroup}) /\ r \in perm.rules
  BY DEF CollectRules, Matched
<1>2. \A t : t \in CollectTools(M) <=> \E perm \in perms :
              (u \in perm.users \/ group \in perm.groups \ {NoGroup}) /\ t \in perm.tools
  BY DEF CollectTools, Matched
<1> HIDE DEF M
<1>3. CASE op = "datasource"
  BY <1>1, <1>3 DEF Permitted, Grants, Covers, CheckDatasource, M
<1>4. CASE op = "database"
  BY <1>1, <1>4 DEF Permitted, Grants, Covers, CheckDatabase, M
<1>5. CASE op = "table"
  BY <1>1, <1>5 DEF Permitted, Grants, Covers, CheckTable, M
<1>6. CASE op = "field"
  BY <1>1, <1>6 DEF Permitted, Grants, Covers, CheckField, M
<1>7. CASE op = "tool"
  BY <1>2, <1>7 DEF Permitted, Grants, CheckTool, M
<1> QED
  BY <1>3, <1>4, <1>5, <1>6, <1>7 DEF Ops

\* A decision is a Boolean.
LEMMA PermittedTyped ==
    ASSUME NEW op \in Ops, NEW matched, NEW path
    PROVE  Permitted(op, matched, path) \in BOOLEAN
BY DEF Ops, Permitted, CheckDatasource, CheckDatabase, CheckTable, CheckField, CheckTool

\* Any set of rules grants fields only within tables, tables only within
\* databases and databases only within datasources.
LEMMA RulesNest ==
    ASSUME NEW R, NEW path
    PROVE  /\ CheckField(R, path) => CheckTable(R, path)
           /\ CheckTable(R, path) => CheckDatabase(R, path)
           /\ CheckDatabase(R, path) => CheckDatasource(R, path)
BY DEF CheckField, CheckTable, CheckDatabase, CheckDatasource

\* In every state what a user is granted is nested.
THEOREM Nested == Spec => []GrantsAreNested
<1>1. GrantsAreNested
  BY RulesNest DEF GrantsAreNested
<1> QED
  BY <1>1, PTL

-----------------------------------------------------------------------------
(* Types.                                                                  *)

LEMMA CurrentTyped == TypeOK => Current \in InForce
BY DEF TypeOK, Current, InForce

LEMMA IdleTyped == Idle \in Check
<1>1. Idle.granted \in BOOLEAN
  BY DEF Idle
<1> QED
  BY DEF Idle, Check, Stages, Ops

\* A step of one request.
LEMMA StepTyped ==
    ASSUME TypeOK, NEW p \in Procs, NEW c \in Check, Fits(c),
           check' = [check EXCEPT ![p] = c], UNCHANGED <<users, permissions>>
    PROVE  TypeOK'
BY DEF TypeOK, Fits

\* What one request becomes when it reads its user's group.
LEMMA GroupRead ==
    ASSUME NEW p \in Procs, GetUserGroup(p)
    PROVE  \E path \in check[p].todo :
             check' = [check EXCEPT ![p] = [check[p] EXCEPT
                         !.pc = "rules", !.path = path, !.group = users[check[p].user],
                         !.seen = {Current}]]
<1>1. PICK path \in check[p].todo :
        check' = [check EXCEPT ![p].pc = "rules", ![p].path = path,
                               ![p].group = users[check[p].user], ![p].seen = {Current}]
  BY DEF GetUserGroup
<1> DEFINE group == users[check[p].user]
           now   == {Current}
<1>2. check' = [check EXCEPT ![p].pc = "rules", ![p].path = path,
                             ![p].group = group, ![p].seen = now]
  BY <1>1
<1> HIDE DEF group, now
<1>3. check' = [check EXCEPT ![p] = [check[p] EXCEPT
                  !.pc = "rules", !.path = path, !.group = group, !.seen = now]]
  BY <1>2
<1> QED
  BY <1>3 DEF group, now

LEMMA InitTyped == Init => TypeOK
<1> SUFFICES ASSUME Init PROVE TypeOK
  OBVIOUS
<1>1. users \in [Users -> Groups] /\ permissions \subseteq Permission
  BY DEF Init, ByName
<1> QED
  BY <1>1, IdleTyped DEF Init, TypeOK, Fits, Idle

LEMMA NextTyped == TypeOK /\ [Next]_vars => TypeOK'
<1> SUFFICES ASSUME TypeOK, [Next]_vars PROVE TypeOK'
  OBVIOUS
<1>0. \A p \in Procs : check[p] \in Check /\ Fits(check[p])
  BY DEF TypeOK, Fits
<1>1. CASE UpdateState
  <2>1. users' \in [Users -> Groups] /\ permissions' \subseteq Permission
    BY <1>1 DEF UpdateState, ByName
  <2>2. Current' \in InForce
    BY <2>1 DEF Current, InForce
  <2>3. ASSUME NEW p \in Procs PROVE check'[p] \in Check /\ Fits(check'[p])
    <3> DEFINE S == IF check[p].pc = "rules" THEN check[p].seen \union {Current'}
                    ELSE check[p].seen
               T == IF check[p].pc = "idle" THEN check[p].since
                    ELSE check[p].since \union {Current'}
    <3>1. check[p] \in Check /\ Fits(check[p]) /\ S \in SUBSET InForce /\ T \in SUBSET InForce
      BY <1>0, <2>2 DEF Check
    <3>2. check'[p] = [check[p] EXCEPT !.seen = S, !.since = T]
      BY <1>1 DEF UpdateState
    <3> HIDE DEF S, T
    <3> QED
      BY <3>1, <3>2 DEF Check, Fits
  <2>4. check' = [p \in Procs |-> check'[p]]
    BY <1>1 DEF UpdateState
  <2> QED
    BY <2>1, <2>3, <2>4 DEF TypeOK, Fits
<1>2. ASSUME NEW p \in Procs, NEW u \in Users \union {NoUser}, NEW op \in Ops,
             NEW names \in SUBSET Paths(op), Ask(p, u, op, names)
      PROVE  TypeOK'
  <2>1. names \subseteq AllPaths /\ Current \in InForce
    BY CurrentTyped DEF AllPaths
  <2>2. [Idle EXCEPT !.pc = "answered", !.op = op, !.names = names, !.out = names] \in Check
    BY <2>1, IdleTyped DEF Check, Stages
  <2>3. [Idle EXCEPT !.pc = "group", !.user = u, !.op = op, !.names = names,
                     !.todo = names, !.since = {Current}] \in Check
    BY <2>1, IdleTyped DEF Check, Stages
  <2> QED
    BY <1>2, <2>2, <2>3 DEF Ask, TypeOK, Fits, Idle
<1>3. ASSUME NEW p \in Procs, GetUserGroup(p) PROVE TypeOK'
  <2>1. check[p].user \in Users /\ users[check[p].user] \in Groups
    BY <1>0, <1>3 DEF GetUserGroup, TypeOK, Fits
  <2>2. PICK path \in check[p].todo :
          check' = [check EXCEPT ![p] = [check[p] EXCEPT
                      !.pc = "rules", !.path = path, !.group = users[check[p].user],
                      !.seen = {Current}]]
    BY <1>3, GroupRead
  <2> DEFINE c == [check[p] EXCEPT !.pc = "rules", !.path = path,
                                   !.group = users[check[p].user], !.seen = {Current}]
  <2>3. path \in AllPaths /\ {Current} \in SUBSET InForce /\ check[p] \in Check
    BY <1>0, CurrentTyped DEF Check
  <2>4. c \in Check /\ Fits(c)
    BY <2>1, <2>3 DEF Check, Stages, Fits
  <2> QED
    BY <1>3, <2>2, <2>4, StepTyped DEF GetUserGroup
<1>4. ASSUME NEW p \in Procs, Decide(p) PROVE TypeOK'
  <2> DEFINE g == Permitted(check[p].op, Matched(permissions, check[p].group, check[p].user),
                            check[p].path)
             c == [check[p] EXCEPT !.pc = "decided", !.granted = g]
  <2>1. g \in BOOLEAN
    BY <1>0, PermittedTyped DEF Check
  <2>2. /\ check' = [check EXCEPT ![p] = c]
        /\ check[p] \in Check /\ Fits(check[p]) /\ check[p].pc = "rules"
    BY <1>0, <1>4 DEF Decide
  <2> HIDE DEF g
  <2>3. c \in Check /\ Fits(c)
    BY <2>1, <2>2 DEF Check, Stages, Fits
  <2> QED
    BY <1>4, <2>2, <2>3, StepTyped DEF Decide
<1>5. ASSUME NEW p \in Procs, Collect(p) PROVE TypeOK'
  <2> DEFINE left == check[p].todo \ {check[p].path}
             out  == IF check[p].granted THEN check[p].out \union {check[p].path}
                     ELSE check[p].out
             next == IF left = {} THEN "answered" ELSE "group"
             c    == [check[p] EXCEPT !.pc = next, !.todo = left, !.out = out]
  <2>1. /\ check' = [check EXCEPT ![p] = c]
        /\ check[p] \in Check /\ Fits(check[p]) /\ check[p].pc = "decided"
    BY <1>0, <1>5 DEF Collect
  <2>2. left \in SUBSET AllPaths /\ next \in {"answered", "group"}
    BY <2>1 DEF Check
  <2>3. out \in SUBSET AllPaths
    BY <2>1 DEF Check, Fits
  <2> HIDE DEF left, out, next
  <2>4. c \in Check /\ Fits(c)
    BY <2>1, <2>2, <2>3 DEF Check, Stages, Fits
  <2> QED
    BY <1>5, <2>1, <2>4, StepTyped DEF Collect
<1>6. ASSUME NEW p \in Procs, Return(p) PROVE TypeOK'
  BY <1>6, IdleTyped DEF Return, TypeOK, Fits, Idle
<1>7. CASE UNCHANGED vars
  BY <1>7 DEF vars, TypeOK
<1> QED
  BY <1>1, <1>2, <1>3, <1>4, <1>5, <1>6, <1>7 DEF Next

\* Every variable keeps its type.
THEOREM TypeCorrect == Spec => []TypeOK
BY InitTyped, NextTyped, PTL DEF Spec

-----------------------------------------------------------------------------
(* What a request knows of the configurations, of which now is in force.   *)

\* Between the two locks: the group is that of a configuration seen.
Halfway(c, now) ==
    c.pc = "rules" => /\ now \in c.seen
                      /\ c.seen \subseteq c.since
                      /\ \E s \in c.seen : c.group = s.users[c.user]

Justified(c) ==
    StableGroup(c.seen, c.user) => \E s \in c.seen : c.granted <=> GrantedBy(s, c.user, c.op, c.path)

\* After them: the decision is one of a configuration seen.
Decided(c) == c.pc = "decided" => c.seen \subseteq c.since /\ Justified(c)

SettledNames(c) ==
    StableGroup(c.since, c.user) =>
        \A n \in c.names \ c.todo : \E s \in c.since : (n \in c.out) <=> GrantedBy(s, c.user, c.op, n)

\* Over all the names: so are those settled; the others are not shown yet.
Collected(c, now) ==
    c.pc # "idle" /\ c.user # NoUser =>
        /\ now \in c.since
        /\ c.todo \subseteq c.names
        /\ c.out \intersect c.todo = {}
        /\ c.pc = "answered" => c.todo = {}
        /\ SettledNames(c)

RequestInv(c, now) == Halfway(c, now) /\ Decided(c) /\ Collected(c, now)

Inv == TypeOK /\ \A p \in Procs : RequestInv(check[p], Current)

\* A reload adds a configuration to what has been seen.
LEMMA ReloadKeeps ==
    ASSUME NEW c, NEW d, NEW now, NEW new, RequestInv(c, now),
           d.pc = c.pc, d.user = c.user, d.op = c.op, d.names = c.names, d.todo = c.todo,
           d.out = c.out, d.path = c.path, d.group = c.group, d.granted = c.granted,
           d.seen = IF c.pc = "rules" THEN c.seen \union {new} ELSE c.seen,
           d.since = IF c.pc = "idle" THEN c.since ELSE c.since \union {new}
    PROVE  RequestInv(d, new)
<1>1. Halfway(d, new)
  BY DEF RequestInv, Halfway
<1>2. Decided(d)
  BY DEF RequestInv, Decided, Justified
<1>3. ASSUME d.pc # "idle", d.user # NoUser
      PROVE  Collected(d, new)
  <2>1. Collected(c, now) /\ c.pc # "idle" /\ c.user # NoUser /\ d.since = c.since \union {new}
    BY <1>3 DEF RequestInv
  <2>2. StableGroup(d.since, d.user) => StableGroup(c.since, c.user)
    BY <2>1 DEF StableGroup
  <2>3. SettledNames(d)
    BY <2>1, <2>2 DEF Collected, SettledNames
  <2> QED
    BY <2>1, <2>3 DEF Collected
<1> QED
  BY <1>1, <1>2, <1>3 DEF RequestInv, Collected

\* A decision made with the group of a configuration seen and the rules of now.
LEMMA DecisionJustified ==
    ASSUME NEW c, NEW now, NEW g, c.op \in Ops, now \in c.seen, StableGroup(c.seen, c.user),
           \E s \in c.seen : c.group = s.users[c.user],
           g = Permitted(c.op, Matched(now.permissions, c.group, c.user), c.path)
    PROVE  g <=> GrantedBy(now, c.user, c.op, c.path)
<1>1. c.group = now.users[c.user]
  BY DEF StableGroup
<1> QED
  BY <1>1, PermittedIsGrants DEF GrantedBy

\* Steps of one request leave the configuration alone.
LEMMA StepKeeps ==
    ASSUME Inv, TypeOK', NEW p \in Procs, NEW c, RequestInv(c, Current),
           check' = [check EXCEPT ![p] = c], UNCHANGED <<users, permissions>>
    PROVE  Inv'
<1>1. Current' = Current
  BY DEF Current
<1>2. \A q \in Procs : RequestInv(check'[q], Current)
  BY DEF Inv, TypeOK
<1> QED
  BY <1>1, <1>2 DEF Inv

LEMMA InitInv == Init => Inv
<1> SUFFICES ASSUME Init PROVE Inv
  OBVIOUS
<1>1. \A p \in Procs : check[p] = Idle
  BY DEF Init
<1> QED
  BY <1>1, InitTyped DEF Inv, RequestInv, Halfway, Decided, Collected, Idle

LEMMA NextInv == Inv /\ [Next]_vars => Inv'
<1> SUFFICES ASSUME Inv, [Next]_vars PROVE Inv'
  OBVIOUS
<1>0. TypeOK' /\ \A p \in Procs : check[p] \in Check /\ Fits(check[p]) /\ RequestInv(check[p], Current)
  BY NextTyped DEF Inv, TypeOK
<1>1. CASE UpdateState
  <2>1. ASSUME NEW p \in Procs PROVE RequestInv(check'[p], Current')
    <3> DEFINE S == IF check[p].pc = "rules" THEN check[p].seen \union {Current'}
                    ELSE check[p].seen
               T == IF check[p].pc = "idle" THEN check[p].since
                    ELSE check[p].since \union {Current'}
               d == [check[p] EXCEPT !.seen = S, !.since = T]
    <3>1. check'[p] = d
      BY <1>1 DEF UpdateState
    <3>2. /\ d.pc = check[p].pc /\ d.user = check[p].user /\ d.op = check[p].op
          /\ d.names = check[p].names /\ d.todo = check[p].todo /\ d.out = check[p].out
          /\ d.path = check[p].path /\ d.group = check[p].group
          /\ d.granted = check[p].granted /\ d.seen = S /\ d.since = T
      BY <1>0 DEF Check
    <3> HIDE DEF d
    <3>3. RequestInv(d, Current')
      BY <1>0, <3>2, ReloadKeeps
    <3> QED
      BY <3>1, <3>3
  <2> QED
    BY <1>0, <2>1 DEF Inv
<1>2. ASSUME NEW p \in Procs, NEW u \in Users \union {NoUser}, NEW op \in Ops,
             NEW names \in SUBSET Paths(op), Ask(p, u, op, names)
      PROVE  Inv'
  <2>1. CASE u = NoUser
    <3> DEFINE c == [Idle EXCEPT !.pc = "answered", !.op = op, !.names = names, !.out = names]
    <3>1. RequestInv(c, Current)
      BY DEF RequestInv, Halfway, Decided, Collected, Idle
    <3> QED
      BY <1>0, <1>2, <2>1, <3>1, StepKeeps DEF Ask
  <2>2. CASE u # NoUser
    <3> DEFINE c == [Idle EXCEPT !.pc = "group", !.user = u, !.op = op, !.names = names,
                                 !.todo = names, !.since = {Current}]
    <3>1. RequestInv(c, Current)
      BY DEF RequestInv, Halfway, Decided, Collected, SettledNames, Idle
    <3> QED
      BY <1>0, <1>2, <2>2, <3>1, StepKeeps DEF Ask
  <2> QED
    BY <2>1, <2>2
<1>3. ASSUME NEW p \in Procs, GetUserGroup(p) PROVE Inv'
  <2>1. PICK path \in check[p].todo :
          check' = [check EXCEPT ![p] = [check[p] EXCEPT
                      !.pc = "rules", !.path = path, !.group = users[check[p].user],
                      !.seen = {Current}]]
    BY <1>3, GroupRead
  <2> DEFINE c == [check[p] EXCEPT !.pc = "rules", !.path = path,
                                   !.group = users[check[p].user], !.seen = {Current}]
  <2>2. /\ check[p].pc = "group" /\ check[p].user # NoUser
        /\ Collected(check[p], Current)
    BY <1>0, <1>3 DEF GetUserGroup, Fits, RequestInv
  <2>3. /\ c.pc = "rules" /\ c.seen = {Current} /\ c.group = users[check[p].user]
        /\ c.user = check[p].user /\ c.op = check[p].op /\ c.names = check[p].names
        /\ c.todo = check[p].todo /\ c.out = check[p].out /\ c.since = check[p].since
    BY <1>0 DEF Check
  <2> HIDE DEF c
  <2>4. Current.users = users
    BY DEF Current
  <2>5. Halfway(c, Current)
    BY <2>2, <2>3, <2>4 DEF Halfway, Collected
  <2>6. Collected(c, Current)
    BY <2>2, <2>3 DEF Collected, SettledNames
  <2>7. RequestInv(c, Current)
    BY <2>3, <2>5, <2>6 DEF RequestInv, Decided
  <2> QED
    BY <1>0, <1>3, <2>1, <2>7, StepKeeps DEF GetUserGroup, c
<1>4. ASSUME NEW p \in Procs, Decide(p) PROVE Inv'
  <2> DEFINE g == Permitted(check[p].op, Matched(permissions, check[p].group, check[p].user),
                            check[p].path)
             c == [check[p] EXCEPT !.pc = "decided", !.granted = g]
  <2>1. /\ check' = [check EXCEPT ![p] = c]
        /\ check[p].pc = "rules" /\ check[p].op \in Ops /\ Halfway(check[p], Current)
        /\ Collected(check[p], Current)
    BY <1>0, <1>4 DEF Decide, Check, RequestInv
  <2>2. Current.permissions = permissions
    BY DEF Current
  <2>3. StableGroup(check[p].seen, check[p].user) =>
            (g <=> GrantedBy(Current, check[p].user, check[p].op, check[p].path))
    BY <2>1, <2>2, DecisionJustified DEF Halfway
  <2> HIDE DEF g
  <2>4. /\ c.pc = "decided" /\ c.granted = g /\ c.seen = check[p].seen
        /\ c.user = check[p].user /\ c.op = check[p].op /\ c.names = check[p].names
        /\ c.todo = check[p].todo /\ c.out = check[p].out /\ c.since = check[p].since
        /\ c.path = check[p].path
    BY <1>0 DEF Check
  <2> HIDE DEF c
  <2>5. Justified(c)
    BY <2>1, <2>3, <2>4 DEF Justified, Halfway
  <2>6. Collected(c, Current)
    BY <2>1, <2>4 DEF Collected, SettledNames
  <2>7. RequestInv(c, Current)
    BY <2>1, <2>4, <2>5, <2>6 DEF RequestInv, Halfway, Decided
  <2> QED
    BY <1>0, <1>4, <2>1, <2>7, StepKeeps DEF Decide
<1>5. ASSUME NEW p \in Procs, Collect(p) PROVE Inv'
  <2> DEFINE left == check[p].todo \ {check[p].path}
             out  == IF check[p].granted THEN check[p].out \union {check[p].path}
                     ELSE check[p].out
             next == IF left = {} THEN "answered" ELSE "group"
             c    == [check[p] EXCEPT !.pc = next, !.todo = left, !.out = out]
  <2>1. /\ check' = [check EXCEPT ![p] = c]
        /\ check[p].pc = "decided" /\ check[p].user # NoUser
        /\ check[p].path \in check[p].todo
        /\ Justified(check[p]) /\ check[p].seen \subseteq check[p].since
        /\ Collected(check[p], Current)
    BY <1>0, <1>5 DEF Collect, Fits, RequestInv, Decided
  <2>2. /\ c.pc = next /\ c.todo = left /\ c.out = out
        /\ c.user = check[p].user /\ c.op = check[p].op /\ c.names = check[p].names
        /\ c.since = check[p].since
    BY <1>0 DEF Check
  <2> HIDE DEF c
  <2>3. ASSUME StableGroup(c.since, c.user), NEW n \in c.names \ c.todo
        PROVE  \E s \in c.since : (n \in c.out) <=> GrantedBy(s, c.user, c.op, n)
    <3>1. CASE n = check[p].path
      <4>1. StableGroup(check[p].seen, check[p].user)
        BY <2>1, <2>2, <2>3 DEF StableGroup
      <4>2. PICK s \in check[p].seen :
              check[p].granted <=> GrantedBy(s, check[p].user, check[p].op, check[p].path)
        BY <2>1, <4>1 DEF Justified
      <4>3. n \in c.out <=> check[p].granted
        BY <2>1, <2>2, <3>1 DEF Collected
      <4>4. s \in c.since
        BY <2>1, <2>2
      <4> QED
        BY <2>2, <3>1, <4>2, <4>3, <4>4
    <3>2. CASE n # check[p].path
      <4>1. n \in c.out <=> n \in check[p].out
        BY <2>2, <3>2
      <4>2. n \in check[p].names \ check[p].todo
        BY <2>2, <2>3, <3>2
      <4>3. SettledNames(check[p])
        BY <2>1 DEF Collected
      <4> QED
        BY <2>2, <2>3, <4>1, <4>2, <4>3 DEF SettledNames
    <3> QED
      BY <3>1, <3>2
  <2>4. Collected(c, Current)
    <3>1. c.todo \subseteq c.names /\ c.out \intersect c.todo = {} /\ Current \in c.since
      BY <2>1, <2>2 DEF Collected
    <3>2. c.pc = "answered" => c.todo = {}
      BY <2>2
    <3> QED
      BY <2>3, <3>1, <3>2 DEF Collected, SettledNames
  <2>5. RequestInv(c, Current)
    BY <2>2, <2>4 DEF RequestInv, Halfway, Decided
  <2> QED
    BY <1>0, <1>5, <2>1, <2>5, StepKeeps DEF Collect
<1>6. ASSUME NEW p \in Procs, Return(p) PROVE Inv'
  <2>1. RequestInv(Idle, Current)
    BY DEF RequestInv, Halfway, Decided, Collected, Idle
  <2> QED
    BY <1>0, <1>6, <2>1, StepKeeps DEF Return
<1>7. CASE UNCHANGED vars
  <2>1. Current' = Current
    BY <1>7 DEF vars, Current
  <2> QED
    BY <1>0, <1>7, <2>1 DEF vars, Inv
<1> QED
  BY <1>1, <1>2, <1>3, <1>4, <1>5, <1>6, <1>7 DEF Next

\* The request invariant, from which the next two follow.
THEOREM Invariance == Spec => []Inv
BY InitInv, NextInv, PTL DEF Spec

\* While the user stays in one group, a decision is one that a configuration
\* in force during the check gives.
THEOREM DecisionsJustified == Spec => []StableGroupDecision
<1>1. Inv => StableGroupDecision
  BY DEF Inv, RequestInv, Decided, Justified, StableGroupDecision
<1> QED
  BY <1>1, Invariance, PTL

\* A filter shows no name denied all the time and hides none granted all the
\* time.
THEOREM FiltersJustified == Spec => []FilterMixesOnlyInForce
<1>1. Inv => FilterMixesOnlyInForce
  BY DEF Inv, RequestInv, Collected, SettledNames, FilterMixesOnlyInForce
<1> QED
  BY <1>1, Invariance, PTL
=============================================================================
