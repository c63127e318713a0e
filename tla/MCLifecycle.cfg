SPECIFICATION Spec
CONSTANTS
    Names = {n1, n2}
    Syncs = {s1}
    Patches = {p1, p2}
    Destroys = {d1}
    PageSize = 1
    MaxRows = 2
    MaxProjects = 3
    MaxUpsets = 1
INVARIANTS
    TypeOK
    CreatedHasProject
    SyncKeepsBuilt
    PurgeLeavesNothing
    BuiltTwiceHasACause
    SyncReconciles
    UnprojectedIsTornDown
CHECK_DEADLOCK FALSE
