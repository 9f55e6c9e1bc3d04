SPECIFICATION MCSpec
CONSTANTS
    Users = {u1}
    CartIds = {c1, c2}
    Prices = {x1, x2}
    Currencies = {USD, VND}
    Keys = {k1}
    Checkouts = {r1, r2}
    Writers = {w1}
    Amounts = {1, 2}
    MaxQty = 2
    MaxAmount = 3
SYMMETRY Symm
INVARIANTS OrderIsItsCart OrdersAreSound OneOrderWithinLease CommittedKeysHold
CHECK_DEADLOCK FALSE
