SPECIFICATION FairSpec
CONSTANTS
    w1 = w1
    w2 = w2
    Worker <- MCWorker
    NodeId <- MCNodeId
    NodeSize = 2
    SeqSize = 2
    MaxClock = 2
    MaxSetBacks = 1
    MaxCalls = 4
INVARIANTS TypeOK IncreasingInLife IncreasingOnGoodClock NodesDisjoint
PROPERTIES WaitEnds
CHECK_DEADLOCK FALSE
