SPECIFICATION CheckoutSpec
CONSTANTS
    v1 = v1
    v2 = v2
    Users = {u1, u2}
    NoUser = NoUser
    Orders = {o1, o2, o3}
    Variants = {v1, v2}
    Skus = {s1, s2}
    MaxQty = 2
    InitialStock <- TwoAndOne
SYMMETRY Symmetric
INVARIANTS
    LedgerExact
    StockExact
    PendingCanSettle
    OnePendingPerUser
    NoticeTrue
PROPERTIES
    KeepsReservations
CHECK_DEADLOCK FALSE
