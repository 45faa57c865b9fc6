\* A datasource, a tool, two requests of any kind and an edit.
SPECIFICATION FairSpec
CONSTANTS
    d = d
    t = t
    main = main
    old = old
    rule = rule
    None = None
    Datasources <- TheDatasources
    Tools <- TheTools
    Main = main
    FileSeq <- TheFiles
    Requests <- TwoRequests
    Edited <- TheEdits
    Rules <- TheRules
    Versions <- TwoVersions
    MaxEdits = 1
    MaxFaults = 1
INVARIANTS
    TypeOK
    RejectedIsGone
    ServedIsOnDisk
    UnregisteredIsUncallable
PROPERTIES
    ChangesTakeEffect
    StopEnds
CHECK_DEADLOCK FALSE
