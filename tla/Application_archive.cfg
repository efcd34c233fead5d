SPECIFICATION Spec
CONSTANTS
    w1 = w1
    w2 = w2
    Orders = {1}
    Payments = {1}
    Numbers = {n1}
    Keys = {}
    Bodies = {b1}
    None = None
    Workers = {w1, w2}
CHECK_DEADLOCK FALSE
INVARIANTS
    MovedMoneyIsOnRecord
