SPECIFICATION Spec
CONSTANTS
    Order = {o1}
    NoOrder = NoOrder
    Payer = {p1}
    Prefetch = 1
    MaxCrashes = 0
    MaxReconnects = 0
INVARIANT TimedOutIsUnpaid
CHECK_DEADLOCK FALSE
