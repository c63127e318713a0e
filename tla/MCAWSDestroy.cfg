SPECIFICATION Spec
CONSTANTS
    Requests <- TwoRequests
    CloudOf <- TwoCloudOf
    Wanted <- TwoWanted
    GroupNamed <- MCGroupNamed
    Dag = "AWS"
    MaxSends = 2
    MaxFaults = 2
    NoRequest = NoRequest
INVARIANTS
    StateOutlivesInfra
    PurgeComplete
    LossShows
CHECK_DEADLOCK FALSE
