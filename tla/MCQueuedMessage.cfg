SPECIFICATION FairSpec
CONSTANTS
    Requests <- MCRequests
    CloudOf <- MCCloudOf
    ResourcesName <- MCNames
    Wanted <- MCWanted
    Patches = {p1}
    HandRuns = {h1}
    ByHand = {"rz"}
    MaxFaults = 1
    NoRequest = NoRequest
PROPERTIES
    QueuedSuccessfully
CHECK_DEADLOCK FALSE
