SPECIFICATION FairSpec
CONSTANTS
    c1 = c1
    c2 = c2
    b1 = b1
    b2 = b2
    Clients = {c1, c2}
    Busids = {b1, b2}
    None = None
    NNodes = 2
    BusOf <- MCBusOf
    KindOf <- MCKindOf
    Commands <- MCCommands
    SeqMod = 3
    NetCap = 1
INVARIANTS
    BoundAsPicked
    LogComplete
PROPERTIES
    InTurn
    DepartedLetGo
CHECK_DEADLOCK FALSE
