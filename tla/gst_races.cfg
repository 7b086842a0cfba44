\* Three goroutines race for the manager; starts may fail, samples too.
CONSTANTS
    Threads = {t1, t2, t3}
    Free = Free
    StartMayFail = TRUE
    SinkMayFail = TRUE
SPECIFICATION GstSpec
INVARIANTS
    GstTypeOK
    StreamingIsBacked
PROPERTIES
    RunningPipelineKept
    CallsReturn
    ImplementsLifecycle
