SPECIFICATION FairSpec
CONSTANTS
    o1 = o1
    p1 = p1
    p2 = p2
    api1 = api1
    api2 = api2
    exp1 = exp1
    exp2 = exp2
    None = None
    Orders = {o1}
    Payments = {p1}
    OrderOf <- OneOrder
    ChannelOf <- AllAlipay
    WithUrl = {o1}
    Notified = {}
    Lossy = {}
    Api = {api1}
    Expirers = {exp1}
    Recoverers = {}
    RECOVERY_MAX_ATTEMPTS = 1
    MaxCrashes = 0
CHECK_DEADLOCK FALSE
PROPERTIES
    ExpiredIsSettled
