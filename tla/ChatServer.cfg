SPECIFICATION ChatSpec
CONSTANTS
    Conns = {c1, c2}
    NoConn = NoConn
    IoLoops = {l1, l2}
    MainLoop = MainLoop
    Payload <- ServerPayload
    Reported <- SomeMasks
    Writes = {"written", "buffered", "failed"}
    MaxSends = 6
    Users = {1, 2}
    Texts = {t1}
    MaxRequests = 2
INVARIANTS
    ChatTypeOK
    SessionsMatchConnections
    StoredBeforeBroadcast
    BroadcastComplete
    OneSessionUnlessRaced
PROPERTIES
    TcpServerSpec
SYMMETRY Symmetric
CHECK_DEADLOCK FALSE
