SPECIFICATION Spec
CONSTANTS
    Requests <- MCRequests
    CloudOf <- MCCloudOf
    ResourcesName <- MCNames
    Wanted <- MCWanted
    Patches = {p1}
    HandRuns = {}
    ByHand = {}
    MaxFaults = 0
    NoRequest = NoRequest
PROPERTIES
    StatusIsApprovedOrRejected
CHECK_DEADLOCK FALSE
