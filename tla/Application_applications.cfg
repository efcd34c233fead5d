SPECIFICATION Spec
CONSTANTS
    w1 = w1
    w2 = w2
    Orders = {1, 2}
    Payments = {1}
    Numbers = {n1, n2}
    Keys = {k}
    Bodies = {b1, b2}
    None = None
    Workers = {w1, w2}
SYMMETRY Symmetry
CHECK_DEADLOCK FALSE
INVARIANTS
    AnsweredIsAsked DeletedIsQuiet
