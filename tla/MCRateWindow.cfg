SPECIFICATION Spec
CONSTANTS
    Thread = {r1, r2}
    Second = 2
    Slots = 3
    Recent = 6
    MaxTimes = 2
    MaxDelay = 4
    MaxTime = 23
INVARIANTS TypeOK SlotHoldsItsSecond RateBound
PROPERTIES LimitedForReason
SYMMETRY Threads
CHECK_DEADLOCK FALSE
