SPECIFICATION FairSpec
CONSTANTS
    w1 = w1
    w2 = w2
    None = None
    Payments = {1}
    Entries = {1, 2}
    Workers = {w1, w2}
    SECOND = 1
    VALID = 1
    OVERLAP = 1
    LAG = 0
    SPAN = 2
    GRACE = 3
    PAGE_SIZE = 1
    MaxDelay = 1
    Horizon = 3
    MaxFaults = 1
INVARIANTS
    NothingSkipped
PROPERTIES
    PaidIsCollected
CHECK_DEADLOCK FALSE
