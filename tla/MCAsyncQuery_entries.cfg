\* A query and a tool, one client, one start of the loop.
SPECIFICATION Spec
CONSTANTS
    q1 = q1
    q2 = q2
    c1 = c1
    c2 = c2
    Queries <- TwoQueries
    ToolQueries <- OneTool
    Clients <- OneClient
    TTL = 1
    MaxStarts = 1
INVARIANTS
    TypeOK
    ResultIffSucceeded
    ForgottenIsHarmless
PROPERTIES
    ImplementsLifecycle
