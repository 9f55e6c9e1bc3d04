------------------------------ MODULE MCMoney -------------------------------
(* Money that comes in and money that goes out: the payments of one order, or the account  *)
(* of one affiliate.  One side of them happens, the others stay in their initial state.    *)
EXTENDS Payments, Affiliate, TLC

CONSTANTS p1, p2, p3

VARIABLE side

\* A development shop, whose test provider takes callbacks (ENABLE_TEST_PAYMENT_PROVIDER).
Dev == INSTANCE Payments WITH TestProviderEnabled <- TRUE

FirstP1 == [o \in Orders |-> p1]
TotalTwo == [o \in Orders |-> 2]

\* Bound: a development shop has two attempts, one request at a time, one transfer in full.
FewInDevelopment ==
    /\ Cardinality({p \in PaymentIds : Used(p)}) <= 2
    /\ Cardinality({r \in Requests : req[r] # IdleReq}) <= 1
    /\ Cardinality({t \in TransferIds : transfers[t] # NoTransfer}) <= 1
    /\ \A t \in TransferIds : transfers[t].amt \in {0, 2}

\* Commissions of 1 and 2 at the higher rate, 1 and 1 (rounded up from 1/2) at the
\* lower one; the third order is the affiliate's own.
MCTotal == "o1" :> 2 @@ "o2" :> 4 @@ "own" :> 2

Busy(local, S) == Cardinality({s \in S : local[s] # Idle})

\* Bound: while rates change and two referrals are under way, there is one payout.
OnePayout == Busy(call, Callers) <= 1 /\ Busy(adm, Admins) <= 1 /\ payouts[2] = NoPayout

\* Bound: while all processes overlap, the rate stays and one order earns.
OneReferral == acct.rate = 5000 /\ \A w \in Workers : wk[w].pc = "credit" => wk[w].order = "o2"

ShopNext == side = "shop" /\ Next /\ UNCHANGED <<affiliateVars, side>>
DevelopmentNext == side = "development" /\ Dev!Next /\ FewInDevelopment' /\ UNCHANGED <<affiliateVars, side>>
ReferralsNext == side = "referrals" /\ AffiliateNext /\ OnePayout' /\ UNCHANGED <<vars, side>>
PayoutsNext == side = "payouts" /\ AffiliateNext /\ OneReferral' /\ UNCHANGED <<vars, side>>

MoneyInit ==
    /\ side \in {"shop", "development", "referrals", "payouts"}
    /\ AffiliateInit
    /\ IF side = "development" THEN Dev!Init ELSE Init
    /\ side # "referrals" => acct.rate = 5000
MoneyNext == ShopNext \/ DevelopmentNext \/ ReferralsNext \/ PayoutsNext
MoneySpec == MoneyInit /\ [][MoneyNext]_<<vars, affiliateVars, side>>

\* The processes of the affiliate have the names of requests, transfers and test events, so
\* that the same permutations serve every side.
Symm == Permutations(Requests) \cup Permutations({p2, p3}) \cup Permutations(TransferIds)
        \cup Permutations(TestEventIds)
=============================================================================
