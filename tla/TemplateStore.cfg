\* Two overlapping admin requests on one template, three version increments.
CONSTANTS
    a1 = a1
    a2 = a2
    x1 = x1
    x2 = x2
    Templates = {t1}
    Texts = {x1, x2}
    Hashes <- MCHashes
    Hash <- MCHash
    VarLists = {vs1}
    Admins = {a1, a2}
    Keep = Keep
    NoRow = NoRow
    MaxVersion = 3
SPECIFICATION StoreSpec
SYMMETRY AdminSymmetry
INVARIANTS TypeOK RowAttested HistoryHashed StoreInv
PROPERTIES NoHoleMade ImplementsLedger
