\* One admin request and one request for a prompt at a time.
CONSTANTS
    t1 = t1
    t2 = t2
    Templates = {t1, t2}
    Texts = {x1, x2}
    Hashes <- MCHashes
    Hash <- MCHash
    VarLists = {vs1}
    Admins = {a1}
    Keep = Keep
    NoRow = NoRow
    MaxVersion = 2
    Clients = {c1}
    Endpoints <- MCEndpoints
    Names = {e1}
    ApiKeys = {k1}
    Hash32 <- MCHash32
    Splits <- MCSplits
    None = None
SPECIFICATION ServingSpec
SYMMETRY TextSymmetry
CONSTRAINT Focus
INVARIANTS ServingInv AnswersVerify WithdrawnNotServed FallbackJustified DefaultAfterStop 
PROPERTIES VersionMonotone
