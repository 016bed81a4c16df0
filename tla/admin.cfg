SPECIFICATION CarefulSpec
CONSTANTS
    p1 = p1
    Users = {u1, u2}
    NoUser = NoUser
    Orders = {o1, o2}
    Variants = {v1, v2}
    Skus = {s1, s2}
    MaxQty = 1
    InitialStock <- TwoOfEach
    Products = {p1}
    ProductOf <- OneProduct
    StockLevels = {1}
    Admins = {}
    NoDraft = NoDraft
SYMMETRY Symmetric
VIEW ButTold
INVARIANTS
    CatalogueTypeOK
    ReservedCovers
    PendingInStock
    OnSaleCanSettle
CHECK_DEADLOCK FALSE
