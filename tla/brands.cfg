SPECIFICATION CarefulShopfrontSpec
CONSTANTS
    Brand = {b1, b2}
    Category = {c1}
    Names = {n1}
    Products = {p1, p2}
    Requests = {r1, r2}
    NoRow = NoRow
    Idle = Idle
    Limit = 1
    JoinedRows = 0
    NoFilter = NoFilter
    NoAnswer = NoAnswer
    NoWalk = NoWalk
SYMMETRY Symmetric
CONSTRAINT OneBesideReader
INVARIANTS
    ShopfrontTypeOK
    NamesUnique
    ParentsListed
    MissesOnlyByChanges
CHECK_DEADLOCK FALSE
