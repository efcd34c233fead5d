SPECIFICATION Spec
CONSTANTS
    o1 = o1
    won = won
    late = late
    a = a
    b = b
    c = c
    None = None
    Orders = {o1}
    Payments = {won, late}
    Refunds = {a}
    winningPaymentId <- Winner
    OrderOf <- OneOrder
    ChannelOf <- AllAlipay
    amount <- AmountTwo
    PaymentOf <- AllOfWinner
    AmountOf <- Sizes
    WithUrl = {o1}
    Truncated = {}
    Api = {"api1", "api2"}
    Recoverers = {}
    RECOVERY_MAX_ATTEMPTS = 1
    MaxCrashes = 0
CHECK_DEADLOCK FALSE
PROPERTIES
    RefundSuccessIsFinal
