SPECIFICATION Spec
CONSTANTS
    Requests <- MCRequests
    CloudOf <- MCCloudOf
    Wanted <- MCWanted
    GroupNamed <- MCGroupNamed
    Dag = "AZURE"
    MaxSends = 1
    MaxFaults = 0
    NoRequest = NoRequest
INVARIANTS
    DestroysResources
CHECK_DEADLOCK FALSE
