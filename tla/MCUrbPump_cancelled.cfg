SPECIFICATION Spec
CONSTANTS
    ep0 = ep0
    bulk = bulk
    iso = iso
    missing = missing
    Eps = {bulk}
    EpType <- MCEpType
    Ifaces = {i1}
    PacketCounts = {1, 3}
    SeqMod = 3
    MaxAwaiting = 2
    NetCap = 1
INVARIANT CancelledCleared
CHECK_DEADLOCK FALSE
