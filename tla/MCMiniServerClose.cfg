CONSTANTS
    Conns = {c1, c2}
    Workers = {w1, w2}
    MaxFd = 2
    Listen = Listen
    Free = Free
    NoConn = NoConn
    Faults = {"malformed"}
SPECIFICATION Spec
CHECK_DEADLOCK FALSE
INVARIANTS
    OthersUntouched
