SPECIFICATION Spec
CONSTANTS
    c1 = c1
    c2 = c2
    w1 = w1
    w2 = w2
    Channels = {c1, c2}
    Legacy = c1
    PluginOf <- AllBill
    Accounts = {a, b}
    Keys = {k}
    None = None
    Payments = {1}
    Workers = {w1}
    MaxRevision <- TwoAndOne
    MaxFaults = 1
SYMMETRY Symmetry
CHECK_DEADLOCK FALSE
INVARIANTS
    EvidenceIsCurrent AccountsStayApart
