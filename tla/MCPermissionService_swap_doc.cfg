\* The comment on the lock, against a check that takes it twice.
SPECIFICATION Spec
CONSTANTS
    NoUser = NoUser
    NoGroup = NoGroup
    alice = alice
    staff = staff
    guests = guests
    d = d
    b = b
    t1 = t1
    t2 = t2
    f = f
    tool = tool
    p1 = p1
    Users <- TheUsers
    Groups <- TheGroups
    Datasources <- TheDatasources
    Databases <- TheDatabases
    Tables <- TheTables
    Fields <- TheFields
    Tools <- TheTools
    Configs <- TheConfigs
    Procs <- TheProcs
INVARIANTS
    DecisionOfOneConfig
