SPECIFICATION Spec
CONSTANTS
    x1 = x1
    Sends = {}
    Fires = {}
    Closes = {}
    Finals = {x1}
    Cancellable = {}
    NoCall = NoCall
    ChannelSize = 1
    Keepalive = FALSE
    Faults = FALSE
    HandlerSawEnd = FALSE
    MaxData = 0
    MaxControl = 1
INVARIANTS
    CloseIsGraceful
\* The program may stop: a connection ends, and every call is made once.
CHECK_DEADLOCK FALSE
