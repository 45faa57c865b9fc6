\* A request while reloads go through four configurations.
SPECIFICATION Spec
CONSTANTS
    NoUser = NoUser
    NoGroup = NoGroup
    alice = alice
    staff = staff
    guests = guests
    d = d
    b = b
    t1 = t1
    t2 = t2
    f = f
    tool = tool
    p1 = p1
    Users <- TheUsers
    Groups <- TheGroups
    Datasources <- TheDatasources
    Databases <- TheDatabases
    Tables <- TheTables
    Fields <- TheFields
    Tools <- TheTools
    Configs <- TheConfigs
    Procs <- TheProcs
INVARIANTS
    TypeOK
    StableGroupDecision
    FilterMixesOnlyInForce
    GrantsAreNested
