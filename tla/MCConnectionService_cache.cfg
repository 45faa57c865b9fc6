\* One datasource, two handlers, one configuration change.
SPECIFICATION Spec
CONSTANTS
    a = a
    b = b
    Colon = Colon
    p1 = p1
    p2 = p2
    Letters <- TheLetters
    Datasources <- OneDatasource
    NonSQL <- NoNonSQL
    Databases <- TheDatabases
    Pairs <- OnePair
    Default <- TheDefaults
    Procs <- TwoProcs
    MaxFailures = 1
    MaxVersion = 2
    MaxConns = 3
INVARIANTS
    TypeOK
    OpenIffCached
PROPERTIES
    EvictsOnlyFailed
    OutdatedOnlyLateOrUndone
SYMMETRY ProcSymmetry
