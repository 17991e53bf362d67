SPECIFICATION Spec
CONSTANTS
    Names = {"host", "cookie"}
    Generated = {"host"}
    Values = {"v1", "v2"}
    Intervals = {"2s", "5s"}
    Messages = {"tic"}
    Default = "2s"
    None = "None"
    MaxValues = 2
    MaxCalls = 3
    MaxConnects = 2
INVARIANTS
    
    KeepaliveAsConfigured
\* The connections are used up.
CHECK_DEADLOCK FALSE
