\* The cleanup routine finds an expired connection.
CONSTANTS
    Conns = {c1, c2}
    Names = {n1}
    None = None
    MayRehello = FALSE
SPECIFICATION SigSpec
PROPERTY CleanupCleans
CHECK_DEADLOCK FALSE
