SPECIFICATION Spec
CONSTANTS
    Request = {r1, r2}
    LastId = 2
    LastVersion = 2
INVARIANT RefreshedRedis
CHECK_DEADLOCK FALSE
