SPECIFICATION LiveSpec
CONSTANTS
    c1 = c1
    c2 = c2
    Clients = {c1, c2}
    NoClient = NoClient
    Flavours = {"json", "msgpack", "auth"}
    Kinds = {"Message", "SendPing", "Close", "Abort", "auth", "badauth", "garbage", "other", "ping", "pong", "close"}
    MaxFrames = 3
INVARIANTS
    TypeOK
    
    
PROPERTIES
    EveryoneServed
\* The server may exit, and the clients are used up.
CHECK_DEADLOCK FALSE
