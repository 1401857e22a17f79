\* One admin request at a time and no failures, with a request of a node in
\* between.
CONSTANTS
    Nodes = {n1, n2}
    Regions = {g1}
    Admins = {a1}
    Durations = {1}
    EarlyActions = FALSE
    Reliable = TRUE
    Unborn = Unborn
    Deleted = Deleted
    None = None
    MaxKeys = 3
    MaxTime = 1
    MaxAudit = 1
    Callers = {c1}
    Refused = Refused
    Nobody = Nobody
    HmacTolerance = 0
SPECIFICATION AuthSpec
SYMMETRY Symmetry
CONSTRAINT FewEntries
INVARIANTS VaultTight DecertifiedMarked BothWaysOpen AuthInv SerialInv
PROPERTIES RecertifyOnly ImplementsCredentials
CHECK_DEADLOCK FALSE
