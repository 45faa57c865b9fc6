\* The comment of DisposeAll, against the channel that is never closed.
SPECIFICATION FairSpec
CONSTANTS
    a = a
    b = b
    Colon = Colon
    p1 = p1
    p2 = p2
    Letters <- TheLetters
    Datasources <- OneDatasource
    NonSQL <- NoNonSQL
    Databases <- TheDatabases
    Pairs <- OnePair
    Default <- TheDefaults
    Procs <- OneProc
    MaxFailures = 2
    MaxVersion = 1
    MaxConns = 1
PROPERTIES
    DisposeEnds
