SPECIFICATION Spec
CONSTANTS
    Users = {u1, u2}
    Keys = {k1, k2}
    NoKey = NoKey
    Requests = {r1, r2}
INVARIANTS
    FilesTypeOK
    ObjectsHaveRows
    InUseNotOffered
PROPERTIES
    RemovedAfterMonth
    
CHECK_DEADLOCK FALSE
