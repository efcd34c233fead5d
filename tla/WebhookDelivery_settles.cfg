SPECIFICATION FairSpec
CONSTANTS
    d1 = d1
    w1 = w1
    w2 = w2
    None = None
    Deliveries = {d1}
    Workers = {w1}
    maxAttempts = 2
    Limit = 4
    MaxLost = 1
    MaxRetries = 1
    MaxFailures = 1
CHECK_DEADLOCK FALSE
PROPERTIES
    DeliveryIsSettled
