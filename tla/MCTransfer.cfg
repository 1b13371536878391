SPECIFICATION FairSpec
CONSTANTS
    a1 = a1
    a2 = a2
    unknown = unknown
    Thread = {t1, t2}
    Card = {a1, a2, unknown}
    Account = {a1, a2}
    Amount = {1}
    Opening <- MCOpening
    PoolSize = 2
    NoCard = NoCard
    Unwritten = Unwritten
    None = None
    MaxTransfers = 3
    MaxFailures = 1
    MaxCrashes = 1
INVARIANT IdleHoldsNothing
PROPERTIES MoneyMoves LedgerSpec TransfersEnd
CHECK_DEADLOCK FALSE
