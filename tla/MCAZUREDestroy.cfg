SPECIFICATION FairSpec
CONSTANTS
    Requests <- TwoRequests
    CloudOf <- TwoCloudOf
    Wanted <- TwoWanted
    GroupNamed <- MCGroupNamed
    Dag = "AZURE"
    MaxSends = 2
    MaxFaults = 2
    NoRequest = NoRequest
INVARIANTS
    TypeOK
    GroupLast
    LossShows
PROPERTIES
    RunEnds
CHECK_DEADLOCK FALSE
