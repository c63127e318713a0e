SPECIFICATION MCSpec
CONSTANTS
    Emails = {e1, e2}
    Browsers = {b1}
    Requests = {x1}
    Nothing = Nothing
    Lifetime = 2
    RefreshLifetime = 3
    MaxUsers = 2
    AzurePolicies = {az}
    AwsPolicies = {aw}
    Values = {v1, v2}
    Secrets = {s1}
    MaxRows = 2
    Slots = {r1, r2}
    MaxChanges = 3
    NumSizes = 4
    Class <- MCClass
    Engine <- MCEngine
    MaxLimit = 3
SYMMETRY Symmetry
INVARIANTS
    TypesOK
    OneUserPerEmail
    DemotionBites
    SessionIsOneUser
    OwnListing
    UpdatesAreRead
    CountsDriftByChanges
    WalkComplete
PROPERTIES
    SecretsOwn
    DemotedAdminsStop
CHECK_DEADLOCK FALSE
