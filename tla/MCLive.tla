------------------------------- MODULE MCLive -------------------------------
\* What redelivered webhooks and polling workers must bring to an end: the payments of one
\* order, the referrals of one affiliate, or the memberships of one customer.  One of the
\* three happens, the others stay in their initial state.
EXTENDS Payments, Memberships

VARIABLES side, acct, ref, payouts, wk, call, adm, faults, overtaken

FirstOne == [o \in Orders |-> CHOOSE p \in PaymentIds : TRUE]
TotalOne == [o \in Orders |-> 2]

Aff == INSTANCE Affiliate WITH
    ReferredOrders <- {"o1", "o2"}, OwnOrders <- {}, OrderTotal <- [o \in {"o1", "o2"} |-> IF o = "o1" THEN 2 ELSE 4],
    Rates <- {5000}, PayoutAmounts <- {2}, MinPayout <- 1, Payouts <- {1}, Workers <- {"w1", "w2"},
    Callers <- {"c1"}, Admins <- {"a1"}, MaxFaults <- 2

affVars == <<acct, ref, payouts, wk, call, adm, faults, overtaken>>
liveVars == <<vars, affVars, memberVars, side>>

LiveInit ==
    /\ side \in {"payments", "affiliate", "memberships"}
    /\ Init /\ Aff!AffiliateInit /\ MembershipsInit
    /\ side # "memberships" => planActive /\ Current = {}

Captures == side = "payments" /\ Next /\ UNCHANGED <<affVars, memberVars, side>>
Holds == side = "affiliate" /\ Aff!AffiliateNext /\ UNCHANGED <<vars, memberVars, side>>
Periods == side = "memberships" /\ MembershipsNext /\ UNCHANGED <<vars, affVars, side>>

LiveNext == Captures \/ Holds \/ Periods

\* What is fair is disabled on the sides that stay as they were.
LiveSpec == LiveInit /\ [][LiveNext]_liveVars /\ Fairness /\ Aff!AffiliateFairness /\ MembershipsFairness

\* Every referral is released or rejected after its hold, and every membership ends with its
\* period, although workers crash in the middle of a batch (the maturation of
\* affiliate-processor.ts and subscription-reconciler.ts).
WhatIsDueEnds == Aff!HoldsEnd /\ MembershipsEndWithTheirPeriod
=============================================================================
