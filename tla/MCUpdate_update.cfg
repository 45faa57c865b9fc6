\* Three releases, four platforms, any number of runs, failures and kills.
SPECIFICATION Spec
CONSTANTS
    None = None
    Releases <- ThreeReleases
    Says <- TheVersions
    Built <- TheArchives
    Hosts <- TheHosts
INVARIANTS
    TypeOK
    NeverWithoutBinary
    ErrorKeepsOld
    UpdatedRuns
    CleansUp
