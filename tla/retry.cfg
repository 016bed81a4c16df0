SPECIFICATION Spec
CONSTANTS
    v1 = v1
    v2 = v2
    Users = {u1, u2}
    NoUser = NoUser
    Orders = {o1, o2, o3}
    Variants = {v1, v2}
    Skus = {s1, s2}
    MaxQty = 1
    InitialStock <- TwoAndOne
SYMMETRY Symmetric
INVARIANTS
    TypeOK
    NeverOversold
    ExpiredPaymentCancelled
    SettledNoticeTrue
PROPERTIES
    ExpiredIsFinal
    StockLeavesByPayment
CHECK_DEADLOCK FALSE
