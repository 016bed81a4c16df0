SPECIFICATION CheckoutSpec
CONSTANTS
    v1 = v1
    v2 = v2
    Users = {u1, u2}
    NoUser = NoUser
    Orders = {o1, o2, o3}
    Variants = {v1, v2}
    NoVariant = NoVariant
    Sessions = {t1, t2}
    NoSession = NoSession
    MaxQty = 1
    InitialStock <- TwoAndOne
SYMMETRY Symmetric
INVARIANTS
    PendingInStock
CHECK_DEADLOCK FALSE
