\* What must come of an arrival and of a departure.
CONSTANTS
    Sessions = {s1, s2}
    Registered = {}
    Named = {}
    ConnID = ConnID
    NoSession = NoSession
    MaxLoad = 1
    Threads = {t1, t2}
    Free = Free
    StartMayFail = FALSE
    SinkMayFail = FALSE
    StartOutrunsIdle = TRUE
SPECIFICATION Spec
PROPERTIES
    StopsWhenEmpty
    DisconnectEndsSession
    ArrivalStartsCapture
CHECK_DEADLOCK FALSE
