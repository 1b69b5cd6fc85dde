SPECIFICATION FairSpec
CONSTANTS
    mouse = mouse
    storage = storage
    Devices = {mouse}
    HidDevices = {mouse}
    KindOf <- MCKindOf
    None = None
    SeqMod = 3
    NetCap = 1
PROPERTY UnplugEndsReceiver
CHECK_DEADLOCK FALSE
