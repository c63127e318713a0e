SPECIFICATION Spec
CONSTANTS
    Requests <- TwoRequests
    CloudOf <- TwoCloudOf
    Wanted <- TwoWanted
    GroupNamed <- MCGroupNamed
    Dag = "AZURE"
    MaxSends = 1
    MaxFaults = 4
    NoRequest = NoRequest
INVARIANTS
    SubfoldersDestroyedSafely
CHECK_DEADLOCK FALSE
