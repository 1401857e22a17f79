\* A certification overlaps a decertification.
CONSTANTS
    Nodes = {n1}
    Regions = {g1}
    Admins = {a1, a2}
    Durations = {1}
    EarlyActions = FALSE
    Reliable = TRUE
    Unborn = Unborn
    Deleted = Deleted
    None = None
    MaxKeys = 1
    MaxTime = 0
    MaxAudit = 1
SPECIFICATION RegistrySpec
PROPERTIES RecertifyOnly
CHECK_DEADLOCK FALSE
