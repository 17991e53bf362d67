SPECIFICATION LiveSpec
CONSTANTS
    s1 = s1
    x1 = x1
    Sends = {s1}
    Fires = {}
    Closes = {}
    Finals = {x1}
    Cancellable = {}
    NoCall = NoCall
    ChannelSize = 1
    Keepalive = TRUE
    Faults = TRUE
    HandlerSawEnd = TRUE
    MaxData = 2
    MaxControl = 0
PROPERTIES
    CallsResolve
    EveryFrameReceived
    ConsumerLearnsEnd
    CloseReturns
\* The program may stop: a connection ends, and every call is made once.
CHECK_DEADLOCK FALSE
