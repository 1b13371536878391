SPECIFICATION Spec
CONSTANTS
    Caller = {c1}
    Server = {s1, s2}
    Conn = {1, 2, 3, 4, 5}
    NoServer = NoServer
    NoConn = 0
    Threads = 1
    MaxCalls = 2
    MaxRequests = 2
    MaxChanges = 4
INVARIANTS MapFollowsZooKeeper ListedIsOpen
CHECK_DEADLOCK FALSE
