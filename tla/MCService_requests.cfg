\* A request of every kind on every type of datasource, two reloads; on SQL Server
\* two requests, the first a query or an explanation, and one reload.
SPECIFICATION Spec
CONSTANTS
    d1 = d1
    d2 = d2
    t = t
    v = v
    f = f
    g = g
    tool = tool
    c1 = c1
    own = own
    x = x
    y = y
    val = val
    Types <- AllTypes
    Requests <- TwoRequests
    Conns <- OneConn
    Databases <- TheDatabases
    NoDatabase = NoDatabase
    Tool = tool
    Catalog <- TheCatalog
    Configurations <- TheConfigurations
    None = None
    MaxReloads <- FewerOnMssql
    Admits <- MeetOnMssql
    Calls <- TheCalls
    Limits <- TheLimits
    HandlerLimit = 1
    ServiceLimit = 1
    MaxInt = 2
    MaxRows = 2
    Chars <- TheChars
    Colon = Colon
    Letters <- TheLetters
    Quote = Quote
    Null = Null
    Views <- TheViews
    MainDatabase = d1
    OwnComment <- TheComments
INVARIANTS
    TypeOK
    StatementWasGranted
    ListsWhatIsGranted
    CommentsAreCurrent
    ExplainOnlyPlans
    ConnectionsComeBack
    TruncationHonest
    SentAsWritten
CHECK_DEADLOCK FALSE
