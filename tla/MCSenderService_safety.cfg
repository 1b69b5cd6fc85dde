SPECIFICATION Spec
CONSTANTS
    Conns = {c1, c2}
    NoConn = NoConn
    MaxInst = 2
SYMMETRY Receivers
INVARIANTS
    NoPhantomSession
    CountExact
    SessionsTracked
    MdnsHonest
CHECK_DEADLOCK FALSE
