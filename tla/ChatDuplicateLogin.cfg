SPECIFICATION ChatSpec
CONSTANTS
    Conns = {c1, c2}
    NoConn = NoConn
    IoLoops = {l1, l2}
    MainLoop = MainLoop
    Payload <- ServerPayload
    Reported <- SomeMasks
    Writes = {"written", "buffered", "failed"}
    MaxSends = 6
    Users = {1}
    Texts = {t1}
    MaxRequests = 2
INVARIANT OneSessionPerUser
CHECK_DEADLOCK FALSE
