SPECIFICATION Spec
CONSTANTS
    s1 = s1
    x1 = x1
    Sends = {s1}
    Fires = {}
    Closes = {}
    Finals = {x1}
    Cancellable = {}
    NoCall = NoCall
    ChannelSize = 1
    Keepalive = FALSE
    Faults = FALSE
    HandlerSawEnd = FALSE
    MaxData = 0
    MaxControl = 1
INVARIANTS
    CloseReportsCause
\* The program may stop: a connection ends, and every call is made once.
CHECK_DEADLOCK FALSE
