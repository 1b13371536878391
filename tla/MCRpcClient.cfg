SPECIFICATION FairSpec
CONSTANTS
    Caller = {c1, c2}
    Server = {s1}
    Conn = {1, 2, 3}
    NoServer = NoServer
    NoConn = 0
    Threads = 2
    MaxCalls = 2
    MaxRequests = 3
    MaxChanges = 1
INVARIANTS NoLostWakeup OwnAnswer
PROPERTIES CallsEnd RemoteCallSpec
CHECK_DEADLOCK FALSE
