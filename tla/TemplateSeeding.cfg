\* A deployment replaces r1 by r2, by r3 or by both, which run beside each
\* other, with crashes; an administrator edits t3, which no release seeds, and
\* may withdraw any template.
CONSTANTS
    a1 = a1
    a2 = a2
    r1 = r1
    r2 = r2
    r3 = r3
    t1 = t1
    t2 = t2
    t3 = t3
    x1 = x1
    x2 = x2
    x3 = x3
    vs1 = vs1
    Templates = {t1, t2, t3}
    Texts = {x1, x2}
    Hashes <- MCHashes
    Hash <- MCHash
    VarLists = {vs1}
    Admins = {a1, a2}
    Keep = Keep
    NoRow = NoRow
    MaxVersion = 1
    Replicas = {r1, r2, r3}
    Release <- Releases
    Promoted <- PromotedByNewer
    Replaces <- NewerReplaceFirst
    Host <- MCHost
    EditsSeeded = FALSE
    MaxCrashes = 2
SPECIFICATION SeedSpec
INVARIANTS HistoryHashed SettledAttested
PROPERTIES SeedConverges NoRevival
CHECK_DEADLOCK FALSE
