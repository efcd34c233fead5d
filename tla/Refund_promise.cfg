SPECIFICATION Spec
CONSTANTS
    o1 = o1
    won = won
    late = late
    a = a
    b = b
    c = c
    None = None
    Orders = {o1}
    Payments = {won, late}
    Refunds = {a, b, c}
    winningPaymentId <- Winner
    OrderOf <- OneOrder
    ChannelOf <- AllAlipay
    amount <- AmountTwo
    PaymentOf <- OneOfWinner
    AmountOf <- Sizes
    WithUrl = {o1}
    Truncated = {b}
    Api = {"api1"}
    Recoverers = {}
    RECOVERY_MAX_ATTEMPTS = 1
    MaxCrashes = 1
CHECK_DEADLOCK FALSE
PROPERTIES
    ImplementsRefunding
