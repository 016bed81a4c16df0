SPECIFICATION AdminSpec
CONSTANTS
    v1 = v1
    v2 = v2
    Users = {u1, u2}
    NoUser = NoUser
    Orders = {o1, o2}
    Variants = {v1, v2}
    NoVariant = NoVariant
    Sessions = {t1, t2, t3}
    NoSession = NoSession
    MaxQty = 1
    InitialStock <- TwoAndOne
    Admins = {a1}
    StockLevels = {2}
    MaxInFlight = 3
SYMMETRY Symmetric
INVARIANTS
    AdminTypeOK
    LedgerExact
PROPERTIES
    KeepsSuppliedReservations
CHECK_DEADLOCK FALSE
