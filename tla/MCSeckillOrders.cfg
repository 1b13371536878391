SPECIFICATION FairSpec
CONSTANTS
    User = {u1, u2}
    NoUser = NoUser
    Thread = {t1}
    Consumer = {c1}
    OrderId = {o1, o2}
    NoOrder = NoOrder
    InitStock = 3
    MaxRequests = 2
    MaxRetries = 1
    MaxErrors = 1
    MaxCrashes = 1
INVARIANTS DbNeverOverdrawn
PROPERTIES OrdersTimeOut MessagesSettle
CHECK_DEADLOCK FALSE
