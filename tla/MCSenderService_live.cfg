SPECIFICATION FairSpec
CONSTANTS
    Conns = {c1, c2}
    NoConn = NoConn
    MaxInst = 1
PROPERTIES
    StoppedSessionsEnd
    AcceptLoopEnds
    ListenerServes
CHECK_DEADLOCK FALSE
