SPECIFICATION Spec
CONSTANTS
    v1 = v1
    v2 = v2
    Users = {u1}
    NoUser = NoUser
    Orders = {o1}
    Variants = {v1, v2}
    NoVariant = NoVariant
    Sessions = {t1, t2, t3}
    NoSession = NoSession
    MaxQty = 1
    InitialStock <- OneOfEach
PROPERTIES
    SessionsFinish
CHECK_DEADLOCK FALSE
