SPECIFICATION Spec
CONSTANTS
    Requests <- MCRequests
    CloudOf <- MCCloudOf
    ResourcesName <- MCNames
    Wanted <- MCWanted
    Patches = {p1, p2}
    HandRuns = {h1}
    ByHand = {"rz"}
    MaxFaults = 1
    NoRequest = NoRequest
SYMMETRY Symmetry
INVARIANTS
    DispatchedOnce
    BuiltByOwnCloud
    StrandedHasACause
PROPERTIES
    RefinesDispatch
CHECK_DEADLOCK FALSE
