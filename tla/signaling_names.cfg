\* Three connections compete for a name; one hello each, the server may stop.
CONSTANTS
    Conns = {c1, c2, c3}
    Names = {n1}
    None = None
    MayRehello = FALSE
SPECIFICATION SigSpec
INVARIANTS
    SigTypeOK
    RoutesAreLive
    PanicsOnlyAfterStop
    NameLostOnlyToNamesake
    NoticeFollowsRemoval
PROPERTY LossIsReported
CHECK_DEADLOCK FALSE
