SPECIFICATION MCSpec
CONSTANTS
    Users = {u1}
    CartIds = {c1, c2}
    Prices = {x1}
    Currencies = {USD}
    Keys = {k1}
    Checkouts = {r1, r2}
    Writers = {w1}
    Amounts = {2}
    MaxQty = 1
    MaxAmount = 3
SYMMETRY Symm
INVARIANTS OneOrderPerKey
CHECK_DEADLOCK FALSE
