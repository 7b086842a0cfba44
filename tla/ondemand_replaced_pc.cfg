\* A second client takes over the peer connection.
CONSTANTS
    Sessions = {s1, s2}
    Registered = {}
    Named = {}
    ConnID = ConnID
    NoSession = NoSession
    MaxLoad = 2
    Threads = {t1}
    Free = Free
    StartMayFail = FALSE
    SinkMayFail = FALSE
    StartOutrunsIdle = TRUE
SPECIFICATION Spec
PROPERTY NegotiatingSessionKept
CHECK_DEADLOCK FALSE
