\* Two clients: the guide says whoever connects is streamed to.
CONSTANTS
    Sessions = {s1, s2}
    Registered = {}
    Named = {}
    ConnID = ConnID
    NoSession = NoSession
    MaxLoad = 1
    Threads = {t1}
    Free = Free
    StartMayFail = FALSE
    SinkMayFail = FALSE
    StartOutrunsIdle = TRUE
SPECIFICATION Spec
PROPERTY ActiveSessionIsServed
CHECK_DEADLOCK FALSE
