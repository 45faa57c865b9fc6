\* A SQL datasource with two databases and a non-SQL one, one handler, one
\* configuration change; a database that stays away.
SPECIFICATION FairSpec
CONSTANTS
    a = a
    b = b
    Colon = Colon
    p1 = p1
    p2 = p2
    Letters <- TheLetters
    Datasources <- TheDatasources
    NonSQL <- ServedB
    Databases <- TwoDatabases
    Pairs <- MorePairs
    Default <- TheDefaults
    Procs <- OneProc
    MaxFailures = 2
    MaxVersion = 1
    MaxConns = 2
INVARIANTS
    RightDatabase
PROPERTIES
    FailingIsEvicted
