SPECIFICATION FairSpec
CONSTANTS
    Requests <- MCTrio
    CloudOf <- MCTrioCloud
    ResourcesName <- MCTrioNames
    Wanted <- MCTrioWanted
    Patches = {p1, p2}
    HandRuns = {}
    ByHand = {}
    MaxFaults = 1
    NoRequest = NoRequest
INVARIANTS
    BuiltByOwnCloud
PROPERTIES
    TakenIsBuilt
CHECK_DEADLOCK FALSE
