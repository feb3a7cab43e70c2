SPECIFICATION Spec
CONSTANTS
    Conns = {c1}
    NoConn = NoConn
    Users = {u1}
    NoUser = NoUser
    MaxRequests = 1
PROPERTIES
    RequestsReceived
CHECK_DEADLOCK FALSE
