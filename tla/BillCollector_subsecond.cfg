SPECIFICATION FairSpec
CONSTANTS
    w1 = w1
    w2 = w2
    None = None
    Payments = {1}
    Entries = {1, 2}
    Workers = {w1}
    SECOND = 2
    VALID = 2
    OVERLAP = 2
    LAG = 0
    SPAN = 2
    GRACE = 8
    PAGE_SIZE = 1
    MaxDelay = 2
    Horizon = 6
    MaxFaults = 1
PROPERTIES
    PaidIsCollected
CHECK_DEADLOCK FALSE
