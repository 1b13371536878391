SPECIFICATION FairSpec
CONSTANTS
    a1 = a1
    a2 = a2
    unknown = unknown
    Thread = {t1, t2}
    Card = {a1, a2, unknown}
    Account = {a1, a2}
    Amount = {1}
    Opening <- MCOpening
    PoolSize = 1
    NoCard = NoCard
    Unwritten = Unwritten
    None = None
    MaxTransfers = 2
    MaxFailures = 0
    MaxCrashes = 0
PROPERTY ThreadGetsConnection
CHECK_DEADLOCK FALSE
