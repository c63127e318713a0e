SPECIFICATION FairSpec
CONSTANTS
    Calls = {c1, c2}
    Names = {n1, n2}
    NoName = NoName
INVARIANTS
    TypeOK
    NextCodeFree
PROPERTIES
    EveryCallEnds
    RefinesLedger
CHECK_DEADLOCK FALSE
