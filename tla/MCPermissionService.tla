------------------------ MODULE MCPermissionService ------------------------
(* The instance of PermissionService that TLC checks: a table and a second *)
(* one, and configurations that move a user between groups, name the user, *)
(* narrow a rule, leave a list empty or name the group without a name.     *)
EXTENDS PermissionService

CONSTANTS alice, staff, guests, d, b, t1, t2, f, tool, p1

TheUsers       == {alice}
TheGroups      == {staff, guests, NoGroup}
TheDatasources == {d}
TheDatabases   == {b}
TheTables      == {t1, t2}
TheFields      == {f}
TheTools       == {tool}
TheProcs       == {p1}

In(g)        == {[name |-> alice, group |-> g]}
Narrow(ts, fs) == [datasources |-> {d}, databases |-> {b}, tables |-> ts, fields |-> fs]
For(us, gs, rs, ts) == [users |-> us, groups |-> gs, rules |-> rs, tools |-> ts]

TheConfigs ==
    {[authUsers   |-> In(staff),
      permissions |-> {For({}, {guests}, {Narrow({t1, t2}, {f})}, {tool})}],
     [authUsers   |-> In(guests),
      permissions |-> {For({}, {staff}, {Narrow({t1}, {f})}, {tool})}],
     [authUsers   |-> In(staff) \union In(guests),
      permissions |-> {For({alice}, {}, {Narrow({t1}, {}), Narrow({}, {f})}, {}),
                       For({}, {staff}, {Narrow({t2}, {f})}, {tool})}],
     [authUsers   |-> {},
      permissions |-> {For({}, {NoGroup}, {Narrow({t1, t2}, {f})}, {tool})}]}
=============================================================================
