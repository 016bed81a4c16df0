SPECIFICATION ApartSpec
CONSTANTS
    p1 = p1
    Users = {u1, u2}
    NoUser = NoUser
    Orders = {o1, o2}
    Variants = {v1}
    Skus = {s1}
    MaxQty = 1
    InitialStock <- TwoOfEach
    Products = {p1}
    ProductOf <- OneProduct
    StockLevels = {1}
    Admins = {a1}
    NoDraft = NoDraft
PROPERTIES
    SettlesOnceOnSale
CHECK_DEADLOCK FALSE
