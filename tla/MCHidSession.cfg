SPECIFICATION FairSpec
CONSTANTS
    mouse = mouse
    storage = storage
    Devices = {mouse, storage}
    HidDevices = {mouse}
    KindOf <- MCKindOf
    None = None
    SeqMod = 3
    NetCap = 2
INVARIANTS
    TypeOK
    NoFault
    BindingAgreed
    TornDown
    NoComplaint
    UnbindIsLast
PROPERTIES
    AppliedInOrder
    StopEndsSession
    EndReachesReceiver
    ReportsArrive
    CtrlCNoticed
CHECK_DEADLOCK FALSE
