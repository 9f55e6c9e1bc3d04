SPECIFICATION MoneySpec
CONSTANTS
    p1 = p1
    p2 = p2
    p3 = p3
    Orders = {o1}
    PaymentIds = {p1, p2, p3}
    Amounts = {1, 2}
    Total <- TotalTwo
    First <- FirstP1
    TestProviderEnabled = FALSE
    Requests = {r1, r2}
    Reconcilers = {c1}
    TransferIds = {t1, t2}
    TestEventIds = {x1, x2}
    ReferredOrders = {"o1", "o2", "own"}
    OwnOrders = {"own"}
    OrderTotal <- MCTotal
    Rates = {2500, 5000}
    PayoutAmounts = {1}
    MinPayout = 1
    Payouts = {1, 2}
    Workers = {r1, r2}
    Callers = {t1, t2}
    Admins = {x1, x2}
    MaxFaults = 1
SYMMETRY Symm
INVARIANTS WellFormed PaidOnceAnnouncedOnce SurplusPaymentsAreFlagged NoSuccessWithoutCapture ShownSessionIsBound BooksHold
PROPERTIES AttemptsMoveForward ReferralsMoveForward OnlyStaleClawbacksBreakTheBooks
CHECK_DEADLOCK FALSE
