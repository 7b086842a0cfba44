\* One client that said hello leaves: the guide says the capture stops.
CONSTANTS
    Sessions = {s1}
    Registered = {s1}
    Named = {}
    ConnID = ConnID
    NoSession = NoSession
    MaxLoad = 1
    Threads = {t1}
    Free = Free
    StartMayFail = FALSE
    SinkMayFail = FALSE
    StartOutrunsIdle = TRUE
SPECIFICATION Spec
PROPERTY LastDisconnectStops
CHECK_DEADLOCK FALSE
