SPECIFICATION LiveSpec
CONSTANTS
    Codecs = {"Json", "MsgPack", "Raw"}
    MaxFrames = 3
    MaxControl = 1
INVARIANTS
    TypeOK
    NothingLostAtHandOff
    ProtocolFramesHidden
    
    HandsOverInitialState
PROPERTIES
    RecvReturns
\* connect returns once.
CHECK_DEADLOCK FALSE
