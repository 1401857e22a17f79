\* A rotation overlaps the registration of its node.
CONSTANTS
    Nodes = {n1}
    Regions = {g1}
    Admins = {a1, a2}
    Durations = {1}
    EarlyActions = TRUE
    Reliable = TRUE
    Unborn = Unborn
    Deleted = Deleted
    None = None
    MaxKeys = 2
    MaxTime = 0
    MaxAudit = 1
SPECIFICATION RegistrySpec
INVARIANTS KeysAgree
CHECK_DEADLOCK FALSE
