SPECIFICATION FairSpec
CONSTANTS
    s1 = s1  s2 = s2  s3 = s3  s4 = s4
    Socket <- Sockets
    Kinds <- Clients
    CorePoolSize = 1
    MaximumPoolSize = 2
    QueueCapacity = 1
INVARIANTS TypeOK AnsweredOnce
PROPERTIES WholeRequestsServed RunsEnd
CHECK_DEADLOCK FALSE
