\* The comment of the reload callback, against a handler under way.
SPECIFICATION Spec
CONSTANTS
    a = a
    b = b
    Colon = Colon
    p1 = p1
    p2 = p2
    Letters <- TheLetters
    Datasources <- OneDatasource
    NonSQL <- NoNonSQL
    Databases <- TheDatabases
    Pairs <- OnePair
    Default <- TheDefaults
    Procs <- OneProc
    MaxFailures = 2
    MaxVersion = 2
    MaxConns = 2
INVARIANTS
    ReloadTakesEffect
