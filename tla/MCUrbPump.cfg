SPECIFICATION FairSpec
CONSTANTS
    ep0 = ep0
    bulk = bulk
    iso = iso
    missing = missing
    Eps = {ep0, bulk, iso, missing}
    EpType <- MCEpType
    Ifaces = {i1}
    PacketCounts = {1, 3}
    SeqMod = 3
    MaxAwaiting = 2
    NetCap = 2
INVARIANTS
    InFrame
    AnsweredInOrder
    NothingForgotten
PROPERTIES
    ServesInOrder
    CommandsAnswered
    LossEndsPump
    StopNoticed
CHECK_DEADLOCK FALSE
