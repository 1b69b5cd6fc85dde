SPECIFICATION FairSpec
CONSTANTS
    s1 = s1
    s2 = s2
    b1 = b1
    b2 = b2
    k1 = k1
    k2 = k2
    Codes = {k1, k2}
    Sessions = {s1, s2}
    Busids = {b1, b2}
    None = None
    Setups <- MCSetups
    NPorts = 2
    ExtraBulk = 1
    Reports = 2
INVARIANTS
    RightDevice
    Paired
    DriveVerdict
    AllFramesRelayed
    HandedOver
PROPERTIES
    SessionEnds
    SenderEnds
CHECK_DEADLOCK FALSE
