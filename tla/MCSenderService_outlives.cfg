SPECIFICATION Spec
CONSTANTS
    Conns = {c1, c2}
    NoConn = NoConn
    MaxInst = 1
SYMMETRY Receivers
INVARIANT
    SessionsStopped
CHECK_DEADLOCK FALSE
