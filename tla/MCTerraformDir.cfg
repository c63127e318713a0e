SPECIFICATION FairSpec
CONSTANTS
    Runs = {x1, x2}
    Requests <- MCRequests
    ResourcesName <- MCResourcesName
    MaxFaults = 2
    None = None
INVARIANTS
    TypeOK
    PemOpens
    RecordIsCurrent
    FailureHasACause
    OwnState
PROPERTIES
    RetryHeals
CHECK_DEADLOCK FALSE
