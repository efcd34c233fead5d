SPECIFICATION FairSpec
CONSTANTS
    o1 = o1
    won = won
    late = late
    a = a
    b = b
    c = c
    None = None
    Orders = {o1}
    Payments = {won, late}
    Refunds = {b}
    winningPaymentId <- Winner
    OrderOf <- OneOrder
    ChannelOf <- AllAlipay
    amount <- AmountTwo
    PaymentOf <- AllOfWinner
    AmountOf <- Sizes
    WithUrl = {o1}
    Truncated = {}
    Api = {"api1", "api2"}
    Recoverers = {"rec1"}
    RECOVERY_MAX_ATTEMPTS = 2
    MaxCrashes = 1
CHECK_DEADLOCK FALSE
INVARIANTS
    RefundIsRediscovered
PROPERTIES
    RefundStaysRecorded
