SPECIFICATION Spec
CONSTANTS
    Conns = {c1, c2}
    NoConn = NoConn
    IoLoops = {l1, l2}
    MainLoop = MainLoop
    Payload = {p}
    Reported <- SomeMasks
    Writes = {"written", "buffered", "failed"}
    MaxSends = 2
INVARIANTS
    TypeOK
    CallbackOnce
    NoDanglingChannel
    DestroyedAfterClose
    RemovalFindsEntry
    EstablishedWhenConnecting
    SenderOrder
    LifetimeInv
PROPERTIES
    NoReadAfterForceClose
SYMMETRY Symmetric
CHECK_DEADLOCK FALSE
