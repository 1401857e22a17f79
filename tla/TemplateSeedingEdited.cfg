\* A replica is restarted after an administrator has edited a template.
CONSTANTS
    a1 = a1
    a2 = a2
    r1 = r1
    r2 = r2
    r3 = r3
    t1 = t1
    t2 = t2
    t3 = t3
    x1 = x1
    x2 = x2
    x3 = x3
    vs1 = vs1
    Templates = {t1}
    Texts = {x1, x2, x3}
    Hashes <- MCHashes
    Hash <- MCHash
    VarLists = {vs1}
    Admins = {a1}
    Keep = Keep
    NoRow = NoRow
    MaxVersion = 2
    Replicas = {r1}
    Release <- ReleaseOnly
    Promoted <- PromotedNone
    Replaces <- ReplacesNone
    Host <- HostOnly
    EditsSeeded = TRUE
    MaxCrashes = 1
SPECIFICATION SeedSpec
INVARIANTS SettledAttested
CHECK_DEADLOCK FALSE
