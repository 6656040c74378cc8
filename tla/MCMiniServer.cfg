CONSTANTS
    Conns = {c1, c2, c3}
    Workers = {w1, w2}
    MaxFd = 3
    Listen = Listen
    Free = Free
    NoConn = NoConn
    Faults = {"start", "accept", "schedule"}
SPECIFICATION Spec
CHECK_DEADLOCK FALSE
INVARIANTS
    DescriptorsSound
PROPERTIES
    StopTerminates
    ConnectionsClosed
