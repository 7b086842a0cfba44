\* Timers, callbacks and removals of two clients that send no hello race.
CONSTANTS
    Sessions = {s1, s2}
    Registered = {}
    Named = {}
    ConnID = ConnID
    NoSession = NoSession
    MaxLoad = 2
    Threads = {t1, t2}
    Free = Free
    StartMayFail = FALSE
    SinkMayFail = FALSE
    StartOutrunsIdle = TRUE
SPECIFICATION Spec
INVARIANTS
    EmptyIsWatched
CHECK_DEADLOCK FALSE
