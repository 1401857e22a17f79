\* Two overlapping admin requests: the version goes down.
CONSTANTS
    a1 = a1
    a2 = a2
    x1 = x1
    x2 = x2
    Templates = {t1}
    Texts = {x1, x2}
    Hashes <- MCHashes
    Hash <- MCHash
    VarLists = {vs1}
    Admins = {a1, a2}
    Keep = Keep
    NoRow = NoRow
    MaxVersion = 3
SPECIFICATION StoreSpec
PROPERTIES VersionMonotone
