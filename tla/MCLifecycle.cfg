SPECIFICATION Spec
CONSTANTS
    h1 = h1
    h2 = h2
    h3 = h3
    Handles = {h1, h2, h3}
    NoHandler = NoHandler
    g1 = g1
    g2 = g2
    Handlers = {g1, g2}
    ChannelSize = 1
    MaxConns = 2
SYMMETRY Symmetry
INVARIANTS
    TypeOK
    OneLiveConnection
    
    PartsBelongTogether
    JoinsAClosingLoop
    NoOrphanLoop
\* The program may stop: the connections are used up.
CHECK_DEADLOCK FALSE
