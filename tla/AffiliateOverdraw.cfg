SPECIFICATION AffiliateSpec
CONSTANTS
    ReferredOrders = {"o1"}
    OwnOrders = {}
    OrderTotal <- MCOneTotal
    Rates = {5000}
    PayoutAmounts = {1}
    MinPayout = 1
    Payouts = {1, 2}
    Workers = {w1}
    Callers = {c1, c2}
    Admins = {a1}
    MaxFaults = 0
PROPERTIES PayoutIsCovered
CHECK_DEADLOCK FALSE
