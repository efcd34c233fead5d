SPECIFICATION FairSpec
CONSTANTS
    w1 = w1
    w2 = w2
    Events = {1}
    KindOf <- AllSuccess
    Quarters = {q}
    Tests = {t}
    Mediums = {"EMAIL"}
    Workers = {w1, w2}
    None = None
    BATCH = 1
    LIMIT = 1
    MAX_ATTEMPTS = 2
    MaxSources = 1
    MaxFailures = 1
    MaxTrouble = 2
CHECK_DEADLOCK FALSE
INVARIANTS
    ToldOnce
PROPERTIES
    EventIsHandled
