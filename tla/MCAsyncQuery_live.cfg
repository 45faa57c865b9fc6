\* Safety and liveness: one query, two clients, the loop started up to twice.
SPECIFICATION FairSpec
CONSTANTS
    q1 = q1
    q2 = q2
    c1 = c1
    c2 = c2
    Queries <- JustQ1
    ToolQueries <- NoTool
    Clients <- TwoClients
    TTL = 2
    MaxStarts = 2
INVARIANTS
    CancelWins
    ReportedOutcomeHolds
    OneCleanupLoop
PROPERTIES
    ExpiryEndsRunaways
    StopEndsQueries
    EntriesAreForgotten
    ImplementsFairLifecycle
