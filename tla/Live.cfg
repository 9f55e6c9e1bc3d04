SPECIFICATION LiveSpec
CONSTANTS
    Orders = {o1}
    PaymentIds = {p1, p2}
    Requests = {r1, r2}
    Reconcilers = {c1}
    TransferIds = {t1}
    TestEventIds = {}
    Amounts = {1, 2}
    Total <- TotalOne
    First <- FirstOne
    TestProviderEnabled = FALSE
    Subs = {m1, m2}
    MemberTasks = {q1, q2}
    MemberWorkers = {w1}
    MaxMemberFaults = 1
PROPERTIES CaptureIsApplied WhatIsDueEnds MembershipsHold
CHECK_DEADLOCK FALSE
