SPECIFICATION Spec
CONSTANTS
    User = {u1, u2}
    NoUser = NoUser
    Thread = {t1, t2}
    Consumer = {c1, c2}
    OrderId = {o1, o2, o3}
    NoOrder = NoOrder
    InitStock = 1
    MaxRequests = 3
    MaxRetries = 1
    MaxErrors = 1
    MaxCrashes = 1
INVARIANTS TypeOK StockNeverNegative UnitsAccounted NoOversell RestoredAtMostOnce TimedOrStranded NeverSoldOutInDb
PROPERTIES GateSpec
SYMMETRY Symmetry
CHECK_DEADLOCK FALSE
