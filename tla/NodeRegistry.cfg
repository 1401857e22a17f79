\* Two overlapping admin requests on two nodes, with failures: a registration
\* and two rotations of one node, or work on both.
CONSTANTS
    Nodes = {n1, n2}
    Regions = {g1}
    Admins = {a1, a2}
    Durations = {1}
    EarlyActions = FALSE
    Reliable = FALSE
    Unborn = Unborn
    Deleted = Deleted
    None = None
    MaxKeys = 3
    MaxTime = 1
    MaxAudit = 1
SPECIFICATION RegistrySpec
SYMMETRY Symmetry
INVARIANTS TypeOK RowSecretLive KeysAgree RetiredKeyDead KeyInv
CHECK_DEADLOCK FALSE
