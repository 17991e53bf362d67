SPECIFICATION LinkSpec
CONSTANTS
    c1 = c1
    f1 = f1
    s1 = s1
    s2 = s2
    s3 = s3
    s4 = s4
    s5 = s5
    Sends = {s1, s2, s3, s4, s5}
    Fires = {f1}
    Closes = {c1}
    Finals = {}
    Cancellable = {}
    NoCall = NoCall
    ChannelSize = 1
    Keepalive = FALSE
    Faults = FALSE
    HandlerSawEnd = FALSE
    MaxData = 6
    MaxControl = 0
    ToServer = 2
    ToClient = 1
SYMMETRY Symmetry
INVARIANTS
    MutualWaitNeedsWindow
    
PROPERTIES
    ServerIsMock
\* The calls are used up, or both ends wait for each other.
CHECK_DEADLOCK FALSE
