SPECIFICATION Spec
CONSTANTS
    Conns = {c1, c2}
    NoConn = NoConn
    IoLoops = {l1, l2}
    MainLoop = MainLoop
    Payload = {p}
    Reported <- SomeMasks
    Writes = {"written", "buffered", "failed"}
    MaxSends = 1
INVARIANT SendTargetAlive
CHECK_DEADLOCK FALSE
