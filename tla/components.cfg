\* One component at a time, each with what makes its interesting cases happen.
CONSTANTS
    Users = {u1, u2}
    MaxSessions = 2
    SessionTTL = 1
    MaxCreated = 3
    MaxNow = 2
    Refreshers = {r1, r2}
    AccessTTL = 1
    RefreshTTL = 1
    MaxTokens = 3
    MaxHour = 2
    Subjects = {root, bob}
    AdminUsers = {root}
    Grantable = {"desktop:*"}
    Unknown = Unknown
    Assignable = {"capturer"}
    Handlers = {h1, h2}
    NoCall = NoCall
    Clients = 1
    MessagesEach = 2
    Workers = 2
    QueueSize = 1
    WorkerQueue = 1
    MaxStarts = 2
    Peers = {p1}
    None = None
    MaxConnections = 2
    MaxAttempts = 1
    MaxPCs = 3
    MaxReports = 2
    NewMayFail = TRUE
    OnDemandModes = {TRUE, FALSE}
    MayFailAt = {"metrics", "gst", "web", "register"}
    VideoTracks = {v1}
    AudioTracks = {a1}
    NoTrack = NoTrack
    StopCallers = {c1}
    MaxStreamStarts = 2
    MinBitrate = 1
    MaxBitrate = 7
    BitrateStepSize = 2
    MaxOptStarts = 2
    Paths = {index, other}
    DefaultFile = index
    EmbeddedFiles = {index}
    Browsers = {b1}
    Others = {b2}
    CacheTimeout = 0
    MaxCacheSize = 1
    MaxVersions = 1
    MaxAsks = 3
    MaxClock = 1
    Correspondents = {alice, bert}
    HistoryLimits = {1, 2}
    Checkers = {k1, k2}
    Shown = {"hello", "offer"}
    MaxSeen = 2
    AppComponents = {"metrics"}
    SetupMayFail = TRUE
    MaxMetricStarts = 2
    MaxCPUTime = 2
    CPUWidth = 2
    MaxRetries = 3
    Pages = {"index", "webrtc"}
    MaxSockets = 3
    MaxLosses = 2
SPECIFICATION Spec
INVARIANTS
    ComponentsTypeOK
    ListsMatchTable RefreshedOnce 
    QuietStopIsSafe
    EndLeavesNothing
    MonitoringIsSafe
    RunningServesComponents UsageIsAPercentage
    SwitchingKeepsMessage
    OneLiveSocket
PROPERTIES
    ExpiredGoes
    HashKeepsOrder AcceptedIsAnswered
    NoneForgotten FailedIsDealtWith
    SignalEnds
    RecoveryEnds
    NotModifiedIsRecent
    VerdictFollowsSession
    ConnectsAgain
CHECK_DEADLOCK FALSE
