SPECIFICATION Spec
CONSTANTS
    Users = {u1}
    NoUser = NoUser
    Codes = {c1, c2}
    NoCode = NoCode
    Requests = {r1, r2}
    MaxVersion = 2
    MaxTokens = 2
PROPERTIES
    CodeCompletesRegistration
CHECK_DEADLOCK FALSE
