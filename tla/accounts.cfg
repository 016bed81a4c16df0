SPECIFICATION CarefulSpec
CONSTANTS
    Users = {u1}
    NoUser = NoUser
    Codes = {c1, c2}
    NoCode = NoCode
    Requests = {r1, r2}
    MaxVersion = 2
    MaxTokens = 2
SYMMETRY Symmetric
INVARIANTS
    AccountsTypeOK
    BannedLockedOut
PROPERTIES
    CodeUsedOnce
    OnlyRestoreReturns
CHECK_DEADLOCK FALSE
