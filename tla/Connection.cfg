SPECIFICATION Spec
CONSTANTS
    Conns = {c1, c2}
    NoConn = NoConn
    Users = {u1, u2}
    NoUser = NoUser
    MaxRequests = 1
INVARIANTS
    TypeOK
    RegisteredIsServed
    ApprovalAccepted
PROPERTIES
    NoLockout
    NothingLeft
CHECK_DEADLOCK FALSE
