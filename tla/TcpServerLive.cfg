SPECIFICATION FairSpec
CONSTANTS
    Conns = {c1, c2}
    NoConn = NoConn
    IoLoops = {l1, l2}
    MainLoop = MainLoop
    Payload = {p}
    Reported <- FewMasks
    Writes = {"written", "failed"}
    MaxSends = 1
PROPERTIES
    ClosedIsDestroyed
    AcceptedIsEstablished
    SentArrives
CHECK_DEADLOCK FALSE
