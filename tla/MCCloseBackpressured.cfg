SPECIFICATION AnsweringPeerSpec
CONSTANTS
    x1 = x1
    Sends = {}
    Fires = {}
    Closes = {}
    Finals = {x1}
    Cancellable = {}
    NoCall = NoCall
    ChannelSize = 1
    Keepalive = FALSE
    Faults = FALSE
    HandlerSawEnd = FALSE
    MaxData = 2
    MaxControl = 0
PROPERTIES
    CloseReturns
\* The program may stop: a connection ends, and every call is made once.
CHECK_DEADLOCK FALSE
