SPECIFICATION Spec
CONSTANTS
    f1 = f1
    s1 = s1
    x1 = x1
    Sends = {s1}
    Fires = {f1}
    Closes = {}
    Finals = {x1}
    Cancellable = {s1, x1}
    NoCall = NoCall
    ChannelSize = 1
    Keepalive = TRUE
    Faults = TRUE
    HandlerSawEnd = TRUE
    MaxData = 2
    MaxControl = 1
INVARIANTS
    TypeOK
    
    OutcomeTruthful
    CauseSurfacedOnce
    NoSpuriousDisconnect
    CloseTruthful
    GracefulCloseLosesNothing
    InOrderNoLoss
PROPERTIES
    KeepsContract
    
\* The program may stop: a connection ends, and every call is made once.
CHECK_DEADLOCK FALSE
