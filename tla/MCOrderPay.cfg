SPECIFICATION FairSpec
CONSTANTS
    Order = {o1, o2}
    NoOrder = NoOrder
    Payer = {p1, p2}
    Prefetch = 1
    MaxCrashes = 1
    MaxReconnects = 1
INVARIANTS OnTimeStaysPaid TimeoutListed NothingLeftUnacked
PROPERTIES OrderSettles
CHECK_DEADLOCK FALSE
