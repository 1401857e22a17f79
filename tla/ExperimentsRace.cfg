\* Two experiments of a template are activated at the same time.
CONSTANTS
    e1 = e1
    e2 = e2
    k1 = k1
    k2 = k2
    Templates = {t1}
    Names = {e1, e2}
    Admins = {a1, a2}
    ApiKeys = {k1, k2}
    Hash32 <- MCHash32
    Splits <- MCSplits
    None = None
SPECIFICATION ExperimentsSpec
INVARIANTS OneActive
