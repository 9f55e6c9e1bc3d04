SPECIFICATION AffiliateSpec
CONSTANTS
    ReferredOrders = {"o1"}
    OwnOrders = {}
    OrderTotal <- MCOneTotal
    Rates = {5000}
    PayoutAmounts = {1}
    MinPayout = 1
    Payouts = {1}
    Workers = {w1}
    Callers = {c1}
    Admins = {a1, a2}
    MaxFaults = 0
PROPERTIES PayoutsAreFinal
CHECK_DEADLOCK FALSE
