\* Two clients ask for offers at the same time; making a connection may fail.
CONSTANTS
    Sessions = {s1, s2}
    NoSession = NoSession
    Nil = Nil
    MaxRequests = 3
    NewPCMayFail = TRUE
SPECIFICATION OfferSpec
INVARIANTS
    OfferTypeOK
    QuietIsUsable
    
PROPERTY OfferIsComplete
CHECK_DEADLOCK FALSE
