SPECIFICATION Spec
CONSTANTS
    d1 = d1
    w1 = w1
    w2 = w2
    None = None
    Deliveries = {d1}
    Workers = {w1, w2}
    maxAttempts = 2
    Limit = 3
    MaxLost = 1
    MaxRetries = 0
    MaxFailures = 2
SYMMETRY EitherWorker
CHECK_DEADLOCK FALSE
INVARIANTS
    AttemptsWithinMax
