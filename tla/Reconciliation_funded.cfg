SPECIFICATION Spec

CONSTANTS
    o1 = o1
    o2 = o2
    p1 = p1
    p2 = p2
    t1 = t1
    t2 = t2
    w1 = w1
    w2 = w2
    i1 = i1
    None = None
    Orders = {o1}
    Payments = {p1, p2}
    WithUrl = {o1}
    Trades = {t1, t2}
    Workers = {w1}
    Importers = {i1}
    OrderOf <- OneOrder
    amount <- OneAmount
    expiresAt <- OneExpiry
    Modes = {"AMOUNT", "REMARK", "NONE"}
    VALID_SECONDS = 1
    AMOUNT_OFFSET_MAX = 1
    Kinds = {"asShown", "noRemark", "short", "named", "twoRemarks"}
    Horizon = 1
    MaxFaults = 1

INVARIANTS
    CreditIsFunded
    FlowTypeOK

CHECK_DEADLOCK FALSE
