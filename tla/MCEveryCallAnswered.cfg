SPECIFICATION Spec
CONSTANTS
    s1 = s1
    Sends = {s1}
    Fires = {}
    Closes = {}
    Finals = {}
    Cancellable = {}
    NoCall = NoCall
    ChannelSize = 1
    Keepalive = FALSE
    Faults = FALSE
    HandlerSawEnd = FALSE
    MaxData = 0
    MaxControl = 0
INVARIANTS
    EveryCallAnswered
\* The program may stop: a connection ends, and every call is made once.
CHECK_DEADLOCK FALSE
