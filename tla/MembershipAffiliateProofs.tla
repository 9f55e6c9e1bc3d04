--------------------- MODULE MembershipAffiliateProofs ----------------------
(***************************************************************************)
(* Proofs about the two halves of membership-affiliate-engine.ts:          *)
(* Affiliate, for any orders, amounts, rates and any number of workers,    *)
(* requests and administrators, and Memberships, for any subscriptions,    *)
(* requests and workers.                                                   *)
(***************************************************************************)
EXTENDS Affiliate, Memberships, SumLemmas, TLAPS

-----------------------------------------------------------------------------
(***************************************************************************)
(* Affiliates                                                              *)
(***************************************************************************)

\* A commission is a natural number and never more than the order's total.
LEMMA CommissionBounds ==
    ASSUME NEW total \in Nat, NEW rate \in Nat
    PROVE  Commission(total, rate) \in Nat /\ Commission(total, rate) <= total
<1> DEFINE p == total * rate
           raw == (2 * total * rate + 10000) \div 20000
<1>1. p \in Nat
    OBVIOUS
<1>2. 2 * total * rate = 2 * p
    OBVIOUS
<1>3. raw \in Nat
  <2> HIDE DEF p
  <2>1. raw = (2 * p + 10000) \div 20000
    BY <1>2
  <2> QED
    BY <1>1, <2>1
<1> HIDE DEF raw
<1>4. Commission(total, rate) = IF total <= 0 \/ rate <= 0 THEN 0 ELSE IF raw <= total THEN raw ELSE total
    BY DEF Commission, raw
<1> QED
    BY <1>3, <1>4

LEMMA InitType == AffiliateInit => AffiliateTypeOK
<1> SUFFICES ASSUME AffiliateInit PROVE AffiliateTypeOK
    OBVIOUS
<1> USE AffiliateAssumption DEF AffiliateInit
<1>1. acct \in Accounts
    BY DEF Accounts
<1>2. NoReferral \in Referrals /\ NoPayout \in PayoutRows
    BY DEF NoReferral, NoPayout, Referrals, PayoutRows
<1>3. Idle \in WorkerStates
    BY DEF WorkerStates
<1> QED
    BY <1>1, <1>2, <1>3 DEF AffiliateTypeOK

\* What the affiliate did not earn was not read as earned either: the rows that a
\* worker works on are not the affiliate's own orders.
LEMMA OwnOrdersEarnNothing ==
    ASSUME AffiliateTypeOK, NEW o \in ReferredOrders, ref[o].st # "none"
    PROVE  o \in ReferredOrders \ OwnOrders
BY DEF AffiliateTypeOK, NoReferral

\* The types of a worker's local state, by program counter.
LEMMA WorkerTypes ==
    ASSUME AffiliateTypeOK, NEW w \in Workers
    PROVE  /\ wk[w] \in WorkerStates
           /\ wk[w].pc = "credit" => wk[w].order \in ReferredOrders \ OwnOrders /\ wk[w].rate \in Rates
           /\ wk[w].pc = "clawback" => wk[w].order \in ReferredOrders \ OwnOrders /\ wk[w].seen \in {"PENDING", "APPROVED"}
           /\ wk[w].pc = "mature" => wk[w] \in [pc : {"mature"}, batch : SUBSET (ReferredOrders \ OwnOrders)]
BY DEF AffiliateTypeOK, WorkerStates, Idle

LEMMA CallerTypes ==
    ASSUME AffiliateTypeOK, NEW c \in Callers, call[c].pc = "request"
    PROVE  call[c].amt \in PayoutAmounts
BY DEF AffiliateTypeOK, Idle

\* When a request is written, every other that is under way becomes late.
LEMMA OvertakenRequests ==
    ASSUME AffiliateTypeOK, NEW c \in Callers, Overtakes(c)
    PROVE  /\ call' \in [Callers -> {Idle} \cup [pc : {"request"}, amt : PayoutAmounts, late : BOOLEAN]]
           /\ \A d \in Callers : call'[d].pc = "request" => call'[d].late
<1> DEFINE Requested == [pc : {"request"}, amt : PayoutAmounts, late : BOOLEAN]
<1>1. ASSUME NEW d \in Callers
      PROVE  call'[d] \in {Idle} \cup Requested /\ (call'[d].pc = "request" => call'[d].late)
  <2>1. call[d] \in {Idle} \cup Requested
    BY DEF AffiliateTypeOK
  <2>2. CASE d = c \/ call[d].pc = "idle"
    BY <2>2 DEF Overtakes, Idle
  <2>3. CASE ~(d = c \/ call[d].pc = "idle")
    <3>1. call[d] \in Requested /\ call'[d] = [call[d] EXCEPT !.late = TRUE]
      BY <2>1, <2>3 DEF Overtakes, Idle
    <3> QED
      BY <3>1
  <2> QED
    BY <2>2, <2>3
<1> QED
  <2>1. DOMAIN call' = Callers /\ call' = [d \in Callers |-> call'[d]]
    BY DEF Overtakes
  <2> QED
    BY <1>1, <2>1

LEMMA DecisionTypes ==
    ASSUME AffiliateTypeOK, NEW a \in Admins, adm[a].pc = "process"
    PROVE  adm[a].payout \in Payouts /\ adm[a].to \in {"COMPLETED", "REJECTED"}
BY DEF AffiliateTypeOK, Idle

LEMMA ReferralTypes ==
    ASSUME AffiliateTypeOK, NEW o \in ReferredOrders
    PROVE  /\ ref[o] \in Referrals /\ ref[o].comm \in Nat
           /\ [ref[o] EXCEPT !.st = "REJECTED"] \in Referrals
           /\ [ref[o] EXCEPT !.st = "APPROVED", !.approved = TRUE] \in Referrals
           /\ [ref[o] EXCEPT !.due = TRUE] \in Referrals
<1>1. ref[o] \in Referrals
    BY DEF AffiliateTypeOK
<1> QED
    BY <1>1 DEF Referrals

LEMMA PayoutTypes ==
    ASSUME AffiliateTypeOK, NEW p \in Payouts
    PROVE  payouts[p] \in PayoutRows /\ payouts[p].amt \in Nat
BY AffiliateAssumption DEF AffiliateTypeOK, PayoutRows

\* Balances are integers.
LEMMA BalanceTypes ==
    ASSUME AffiliateTypeOK
    PROVE  /\ acct \in Accounts
           /\ acct.pending \in Int /\ acct.available \in Int /\ acct.withdrawn \in Int /\ acct.earned \in Int
BY DEF AffiliateTypeOK, Accounts

\* A worker's step that leaves the rows alone.
LEMMA WorkerOnly ==
    ASSUME AffiliateTypeOK, NEW w \in Workers, NEW s \in WorkerStates,
           wk' = [wk EXCEPT ![w] = s], UNCHANGED <<acct, ref, payouts, call, adm, overtaken>>, faults' \in 0 .. MaxFaults
    PROVE  AffiliateTypeOK'
BY DEF AffiliateTypeOK

\* A step of a worker that also changes the account and the referral of one order of
\* somebody else.
LEMMA ReferralStep ==
    ASSUME AffiliateTypeOK, NEW w \in Workers, NEW s \in WorkerStates, NEW o \in ReferredOrders \ OwnOrders, NEW r \in Referrals,
           wk' = [wk EXCEPT ![w] = s], ref' = [ref EXCEPT ![o] = r], acct' \in Accounts,
           UNCHANGED <<payouts, call, adm, faults, overtaken>>
    PROVE  AffiliateTypeOK'
<1>1. ref' \in [ReferredOrders -> Referrals]
    BY DEF AffiliateTypeOK
<1>2. \A x \in OwnOrders : ref'[x] = NoReferral
    BY AffiliateAssumption DEF AffiliateTypeOK
<1>3. wk' \in [Workers -> WorkerStates]
    BY DEF AffiliateTypeOK
<1> QED
    BY <1>1, <1>2, <1>3 DEF AffiliateTypeOK

LEMMA CreditWriteType ==
    ASSUME AffiliateTypeOK, NEW w \in Workers, CreditWrite(w)
    PROVE  AffiliateTypeOK'
<1> DEFINE o == wk[w].order
           c == Commission(OrderTotal[o], wk[w].rate)
           r == [NoReferral EXCEPT !.st = "PENDING", !.comm = c]
<1>1. o \in ReferredOrders \ OwnOrders /\ wk[w].rate \in Nat /\ OrderTotal[o] \in Nat
    BY WorkerTypes, AffiliateAssumption DEF CreditWrite
<1>2. c \in Nat
    BY <1>1, CommissionBounds
<1> HIDE DEF c
<1>3. r \in Referrals
    BY <1>2 DEF NoReferral, Referrals
<1>4. Idle \in WorkerStates
    BY DEF WorkerStates
<1>5. CASE ref[o].st = "none"
  <2>1. /\ ref' = [ref EXCEPT ![o] = r] /\ acct' = [acct EXCEPT !.pending = @ + c, !.earned = @ + c]
        /\ wk' = [wk EXCEPT ![w] = Idle] /\ UNCHANGED <<payouts, call, adm, faults, overtaken>>
    BY <1>5 DEF CreditWrite, c
  <2>2. acct' \in Accounts
    <3>1. acct.pending + c \in Int /\ acct.earned + c \in Int
      BY <1>2, BalanceTypes
    <3>2. acct' = [acct EXCEPT !.pending = acct.pending + c, !.earned = acct.earned + c]
      BY <2>1
    <3> QED
      BY <3>1, <3>2, BalanceTypes DEF Accounts
  <2> HIDE DEF o, r
  <2> QED
    BY <1>1, <1>3, <1>4, <2>1, <2>2, ReferralStep
<1>6. CASE ref[o].st # "none"
  <2>1. wk' = [wk EXCEPT ![w] = Idle] /\ UNCHANGED <<acct, ref, payouts, call, adm, faults, overtaken>>
    BY <1>6 DEF CreditWrite
  <2> QED
    BY <1>4, <2>1, WorkerOnly DEF AffiliateTypeOK
<1> QED
    BY <1>5, <1>6

LEMMA ClawbackWriteType ==
    ASSUME AffiliateTypeOK, NEW w \in Workers, ClawbackWrite(w)
    PROVE  AffiliateTypeOK'
<1> DEFINE o == wk[w].order
           r == [ref[o] EXCEPT !.st = "REJECTED"]
<1>1. o \in ReferredOrders \ OwnOrders
    BY WorkerTypes DEF ClawbackWrite
<1>2. r \in Referrals /\ ref[o].comm \in Nat
    BY <1>1, ReferralTypes
<1>3. Idle \in WorkerStates
    BY DEF WorkerStates
<1>4. acct' \in Accounts
  <2> DEFINE c == ref[o].comm
  <2>1. /\ acct.pending - c \in Int /\ acct.available - c \in Int /\ acct.earned - c \in Int
    BY <1>2, BalanceTypes
  <2>2. \/ acct' = [acct EXCEPT !.pending = acct.pending - c, !.earned = acct.earned - c]
        \/ acct' = [acct EXCEPT !.available = acct.available - c, !.earned = acct.earned - c]
    BY DEF ClawbackWrite, TakeBack
  <2> HIDE DEF c
  <2>3. CASE acct' = [acct EXCEPT !.pending = acct.pending - c, !.earned = acct.earned - c]
    BY <2>1, <2>3, BalanceTypes DEF Accounts
  <2>4. CASE acct' = [acct EXCEPT !.available = acct.available - c, !.earned = acct.earned - c]
    BY <2>1, <2>4, BalanceTypes DEF Accounts
  <2> QED
    BY <2>2, <2>3, <2>4
<1>5. /\ ref' = [ref EXCEPT ![o] = r] /\ wk' = [wk EXCEPT ![w] = Idle] /\ UNCHANGED <<payouts, call, adm, faults, overtaken>>
    BY <1>1 DEF ClawbackWrite, AffiliateTypeOK
<1> HIDE DEF o, r
<1> QED
    BY <1>1, <1>2, <1>3, <1>4, <1>5, ReferralStep

\* The worker's state after one referral of a batch.
LEMMA NextReferralType ==
    ASSUME AffiliateTypeOK, NEW w \in Workers, NEW o \in ReferredOrders, wk[w].pc = "mature", NextReferral(w, o)
    PROVE  \E s \in WorkerStates : wk' = [wk EXCEPT ![w] = s]
<1> DEFINE s == IF wk[w].batch = {o} THEN Idle ELSE [wk[w] EXCEPT !.batch = @ \ {o}]
<1>1. wk[w] \in [pc : {"mature"}, batch : SUBSET (ReferredOrders \ OwnOrders)]
    BY WorkerTypes
<1>2. [wk[w] EXCEPT !.batch = @ \ {o}] \in [pc : {"mature"}, batch : SUBSET (ReferredOrders \ OwnOrders)]
    BY <1>1
<1>3. s \in WorkerStates
    BY <1>2 DEF WorkerStates
<1>4. wk' = [wk EXCEPT ![w] = s]
    BY DEF NextReferral
<1> QED
    BY <1>3, <1>4

LEMMA MatureOneType ==
    ASSUME AffiliateTypeOK, NEW w \in Workers, NEW o \in ReferredOrders, MatureOne(w, o)
    PROVE  AffiliateTypeOK'
<1>1. PICK s \in WorkerStates : wk' = [wk EXCEPT ![w] = s]
    BY NextReferralType DEF MatureOne
<1> DEFINE r == [ref[o] EXCEPT !.st = "APPROVED", !.approved = TRUE]
<1>2. r \in Referrals /\ ref[o].comm \in Nat
    BY ReferralTypes
<1>3. CASE ref[o].st = "PENDING"
  <2>1. o \in ReferredOrders \ OwnOrders
    BY <1>3, OwnOrdersEarnNothing
  <2>2. acct' \in Accounts
    <3> DEFINE c == ref[o].comm
    <3>1. acct.pending - c \in Int /\ acct.available + c \in Int
      BY <1>2, BalanceTypes
    <3>2. acct' = [acct EXCEPT !.pending = acct.pending - c, !.available = acct.available + c]
      BY <1>3 DEF MatureOne
    <3> HIDE DEF c
    <3> QED
      BY <3>1, <3>2, BalanceTypes DEF Accounts
  <2>3. ref' = [ref EXCEPT ![o] = r] /\ UNCHANGED <<payouts, call, adm, faults, overtaken>>
    BY <1>3 DEF MatureOne, AffiliateTypeOK
  <2> HIDE DEF r
  <2> QED
    BY <1>1, <1>2, <2>1, <2>2, <2>3, ReferralStep
<1>4. CASE ref[o].st # "PENDING"
    BY <1>1, <1>4, WorkerOnly DEF MatureOne, AffiliateTypeOK
<1> QED
    BY <1>3, <1>4

\* Every step keeps the types.
LEMMA NextType == AffiliateTypeOK /\ [AffiliateNext]_affiliateVars => AffiliateTypeOK'
<1> SUFFICES ASSUME AffiliateTypeOK, [AffiliateNext]_affiliateVars PROVE AffiliateTypeOK'
    OBVIOUS
<1> USE AffiliateAssumption
<1>0. Idle \in WorkerStates
    BY DEF WorkerStates
<1>1. ASSUME NEW w \in Workers, Work(w) PROVE AffiliateTypeOK'
    BY <1>1, CreditWriteType, ClawbackWriteType, MatureOneType DEF Work
<1>2. ASSUME NEW w \in Workers, MatureRead(w) PROVE AffiliateTypeOK'
  <2> DEFINE s == [pc |-> "mature", batch |-> {x \in ReferredOrders : ref[x].st = "PENDING" /\ ref[x].due}]
  <2>1. s.batch \subseteq ReferredOrders \ OwnOrders
    BY OwnOrdersEarnNothing
  <2>2. s \in WorkerStates
    BY <2>1 DEF WorkerStates
  <2>3. wk' = [wk EXCEPT ![w] = s] /\ UNCHANGED <<acct, ref, payouts, call, adm, faults, overtaken>>
    BY <1>2 DEF MatureRead
  <2> HIDE DEF s
  <2> QED
    BY <2>2, <2>3, WorkerOnly DEF AffiliateTypeOK
<1>3. ASSUME NEW w \in Workers, Fault(w) PROVE AffiliateTypeOK'
    BY <1>0, <1>3, WorkerOnly DEF Fault, AffiliateTypeOK
<1>4. ASSUME NEW w \in Workers, NEW o \in ReferredOrders, CreditRead(w, o) PROVE AffiliateTypeOK'
  <2> DEFINE s == [pc |-> "credit", order |-> o, rate |-> acct.rate]
  <2>1. s \in WorkerStates
    BY <1>4 DEF CreditRead, AffiliateTypeOK, Accounts, WorkerStates
  <2> QED
    BY <1>4, <2>1, WorkerOnly DEF CreditRead, AffiliateTypeOK
<1>5. ASSUME NEW w \in Workers, NEW o \in ReferredOrders, ClawbackRead(w, o) PROVE AffiliateTypeOK'
  <2> DEFINE s == [pc |-> "clawback", order |-> o, seen |-> ref[o].st]
  <2>1. ref[o].st \in {"PENDING", "APPROVED"}
    BY <1>5 DEF ClawbackRead, ReferralTransitions
  <2>2. s \in WorkerStates
    BY <2>1, OwnOrdersEarnNothing DEF WorkerStates
  <2> QED
    BY <1>5, <2>2, WorkerOnly DEF ClawbackRead, AffiliateTypeOK
<1>6. ASSUME NEW w \in Workers, NEW o \in ReferredOrders, MatureFails(w, o) PROVE AffiliateTypeOK'
  <2>1. PICK s \in WorkerStates : wk' = [wk EXCEPT ![w] = s]
    BY <1>6, NextReferralType DEF MatureFails
  <2> QED
    BY <1>6, <2>1, WorkerOnly DEF MatureFails, AffiliateTypeOK
<1>7. ASSUME NEW o \in ReferredOrders, HoldElapses(o) PROVE AffiliateTypeOK'
  <2> DEFINE r == [ref[o] EXCEPT !.due = TRUE]
  <2>1. r \in Referrals
    BY ReferralTypes
  <2>2. o \in ReferredOrders \ OwnOrders
    BY <1>7, OwnOrdersEarnNothing DEF HoldElapses
  <2>3. ref' = [ref EXCEPT ![o] = r] /\ UNCHANGED <<acct, payouts, wk, call, adm, faults, overtaken>>
    BY <1>7 DEF HoldElapses, AffiliateTypeOK
  <2> HIDE DEF r
  <2>4. ref' \in [ReferredOrders -> Referrals] /\ \A x \in OwnOrders : ref'[x] = NoReferral
    BY <2>1, <2>2, <2>3 DEF AffiliateTypeOK
  <2> QED
    BY <2>3, <2>4 DEF AffiliateTypeOK
<1>8. ASSUME NEW c \in Callers, NEW amt \in PayoutAmounts, PayoutRead(c, amt) PROVE AffiliateTypeOK'
  <2>1. [pc |-> "request", amt |-> amt, late |-> FALSE] \in [pc : {"request"}, amt : PayoutAmounts, late : BOOLEAN]
    OBVIOUS
  <2> QED
    BY <1>8, <2>1 DEF PayoutRead, AffiliateTypeOK
<1>9. ASSUME NEW c \in Callers, NEW p \in Payouts, PayoutWrite(c, p) PROVE AffiliateTypeOK'
  <2>1. call[c].amt \in PayoutAmounts
    BY <1>9, CallerTypes DEF PayoutWrite
  <2>2. acct' \in Accounts
    <3>0. call[c].amt \in Nat
      BY <2>1
    <3>1. acct.available - call[c].amt \in Int
      BY <3>0, BalanceTypes
    <3>2. acct' = [acct EXCEPT !.available = acct.available - call[c].amt]
      BY <1>9 DEF PayoutWrite
    <3> QED
      BY <3>1, <3>2, BalanceTypes DEF Accounts
  <2>3. payouts' \in [Payouts -> PayoutRows]
    BY <1>9, <2>1 DEF PayoutWrite, AffiliateTypeOK, PayoutRows
  <2>4. call' \in [Callers -> {Idle} \cup [pc : {"request"}, amt : PayoutAmounts, late : BOOLEAN]]
    BY <1>9, OvertakenRequests DEF PayoutWrite
  <2>5. overtaken' \subseteq {"request", "decision"}
    BY <1>9 DEF PayoutWrite, AffiliateTypeOK
  <2> QED
    BY <1>9, <2>2, <2>3, <2>4, <2>5 DEF PayoutWrite, AffiliateTypeOK
<1>10. ASSUME NEW a \in Admins, NEW p \in Payouts, NEW to \in {"COMPLETED", "REJECTED"}, ProcessRead(a, p, to)
       PROVE  AffiliateTypeOK'
    BY <1>10 DEF ProcessRead, AffiliateTypeOK
<1>11. ASSUME NEW a \in Admins, ProcessWrite(a) PROVE AffiliateTypeOK'
  <2>1. adm[a].payout \in Payouts /\ adm[a].to \in {"COMPLETED", "REJECTED"}
    BY <1>11, DecisionTypes DEF ProcessWrite
  <2> DEFINE m == payouts[adm[a].payout].amt
  <2>2. acct' \in Accounts
    <3>1. m \in Nat
      BY <2>1, PayoutTypes
    <3>2. acct.available + m \in Int /\ acct.withdrawn + m \in Int
      BY <3>1, BalanceTypes
    <3>3. \/ acct' = [acct EXCEPT !.withdrawn = acct.withdrawn + m]
          \/ acct' = [acct EXCEPT !.available = acct.available + m]
      BY <1>11 DEF ProcessWrite, Settle
    <3> HIDE DEF m
    <3> QED
      BY <3>2, <3>3, BalanceTypes DEF Accounts
  <2>3. payouts' \in [Payouts -> PayoutRows]
    BY <1>11, <2>1 DEF ProcessWrite, AffiliateTypeOK, PayoutRows
  <2>4. overtaken' \subseteq {"request", "decision"}
    BY <1>11 DEF ProcessWrite, AffiliateTypeOK
  <2> QED
    BY <1>11, <2>2, <2>3, <2>4 DEF ProcessWrite, AffiliateTypeOK
<1>12. ASSUME NEW b \in BOOLEAN, UpdateAdminAffiliateStatus(b) PROVE AffiliateTypeOK'
    BY <1>12 DEF UpdateAdminAffiliateStatus, AffiliateTypeOK, Accounts
<1>13. ASSUME NEW r \in Rates, UpdateAdminAffiliateCommission(r) PROVE AffiliateTypeOK'
    BY <1>13 DEF UpdateAdminAffiliateCommission, AffiliateTypeOK, Accounts
<1>14. ASSUME UNCHANGED affiliateVars PROVE AffiliateTypeOK'
    BY <1>14 DEF affiliateVars, AffiliateTypeOK
<1> QED
    BY <1>1, <1>2, <1>3, <1>4, <1>5, <1>6, <1>7, <1>8, <1>9, <1>10, <1>11, <1>12, <1>13, <1>14 DEF AffiliateNext

\* Rows and local states keep their shape, and the affiliate's own orders earn nothing.
THEOREM AffiliateTypeCorrect == AffiliateSpec => []AffiliateTypeOK
<1> QED
    BY InitType, NextType, PTL DEF AffiliateSpec

-----------------------------------------------------------------------------
\* The properties of one step, from the types of its first state.
LEMMA StepMovesForward ==
    ASSUME AffiliateTypeOK, [AffiliateNext]_affiliateVars, NEW o \in ReferredOrders
    PROVE  /\ Rank(ref[o].st) <= Rank(ref'[o].st)
           /\ ref[o].st # "none" => ref'[o].comm = ref[o].comm
<1> USE DEF Rank
<1>1. ref[o] \in Referrals /\ ref \in [ReferredOrders -> Referrals]
    BY DEF AffiliateTypeOK
<1>2. ref[o].st \in {"none", "PENDING", "APPROVED", "REJECTED"}
    BY <1>1 DEF Referrals
<1>3. CASE UNCHANGED ref
    BY <1>2, <1>3
<1>4. ASSUME NEW w \in Workers, CreditWrite(w), ref' # ref
      PROVE  /\ Rank(ref[o].st) <= Rank(ref'[o].st)
             /\ ref[o].st # "none" => ref'[o].comm = ref[o].comm
  <2>1. ref[wk[w].order].st = "none"
    BY <1>4 DEF CreditWrite
  <2>2. o # wk[w].order => ref'[o] = ref[o]
    BY <1>1, <1>4 DEF CreditWrite
  <2>3. CASE o = wk[w].order
    <3>1. ref'[o].st = "PENDING"
      BY <1>1, <1>4, <2>1, <2>3 DEF CreditWrite, NoReferral
    <3> QED
      BY <2>1, <2>3, <3>1
  <2>4. CASE o # wk[w].order
    BY <1>2, <2>2, <2>4
  <2> QED
    BY <2>3, <2>4
<1>5. ASSUME NEW w \in Workers, ClawbackWrite(w)
      PROVE  /\ Rank(ref[o].st) <= Rank(ref'[o].st)
             /\ ref[o].st # "none" => ref'[o].comm = ref[o].comm
  <2>1. ref'[o] = ref[o] \/ (ref'[o].st = "REJECTED" /\ ref'[o].comm = ref[o].comm)
    BY <1>1, <1>5 DEF ClawbackWrite, Referrals
  <2> QED
    BY <1>2, <2>1
<1>6. ASSUME NEW w \in Workers, NEW x \in ReferredOrders, MatureOne(w, x), ref' # ref
      PROVE  /\ Rank(ref[o].st) <= Rank(ref'[o].st)
             /\ ref[o].st # "none" => ref'[o].comm = ref[o].comm
  <2>1. ref[x].st = "PENDING"
    BY <1>6 DEF MatureOne
  <2>2. ref'[o] = ref[o] \/ (o = x /\ ref'[o].st = "APPROVED" /\ ref'[o].comm = ref[o].comm)
    BY <1>1, <1>6 DEF MatureOne, Referrals
  <2> QED
    BY <1>2, <2>1, <2>2
<1>7. ASSUME NEW x \in ReferredOrders, HoldElapses(x)
      PROVE  /\ Rank(ref[o].st) <= Rank(ref'[o].st)
             /\ ref[o].st # "none" => ref'[o].comm = ref[o].comm
  <2>1. ref'[o].st = ref[o].st /\ ref'[o].comm = ref[o].comm
    BY <1>1, <1>7 DEF HoldElapses, Referrals
  <2> QED
    BY <1>2, <2>1
<1>8. \/ UNCHANGED ref
      \/ \E w \in Workers : CreditWrite(w) \/ ClawbackWrite(w) \/ \E x \in ReferredOrders : MatureOne(w, x)
      \/ \E x \in ReferredOrders : HoldElapses(x)
    BY DEF AffiliateNext, Work, affiliateVars, MatureRead, Fault, CreditRead, ClawbackRead, MatureFails, PayoutRead, PayoutWrite,
           ProcessRead, ProcessWrite, UpdateAdminAffiliateStatus, UpdateAdminAffiliateCommission
<1> QED
    BY <1>3, <1>4, <1>5, <1>6, <1>7, <1>8

\* A referral never goes back and keeps its commission, with any number of workers.
THEOREM ReferralsForward == AffiliateSpec => ReferralsMoveForward
<1>1. AffiliateTypeOK /\ [AffiliateNext]_affiliateVars =>
        [\A o \in ReferredOrders : /\ Rank(ref[o].st) <= Rank(ref'[o].st)
                                   /\ ref[o].st # "none" => ref'[o].comm = ref[o].comm]_affiliateVars
    BY StepMovesForward
<1> QED
    BY <1>1, AffiliateTypeCorrect, PTL DEF AffiliateSpec, ReferralsMoveForward

-----------------------------------------------------------------------------
(***************************************************************************)
(* The books: what a step adds to a sum of commissions or of payouts       *)
(***************************************************************************)
Matured == {o \in ReferredOrders : ref[o].approved}
PendingSum == CommissionOf(ReferralsIn({"PENDING"}))
EarnedSum == CommissionOf(ReferralsIn({"PENDING", "APPROVED"}))
MaturedSum == CommissionOf(Matured)
AskedSum == PayoutsOf(PayoutsIn({"REQUESTED"}))

\* Finitely many rows have been written; a referral that matured has been approved, and one
\* that is approved has matured.
RowsInUse ==
    /\ IsFiniteSet({o \in ReferredOrders : ref[o].st # "none"})
    /\ IsFiniteSet({p \in Payouts : payouts[p].st # "none"})
    /\ \A o \in ReferredOrders : ref[o].approved => ref[o].st \in {"APPROVED", "REJECTED"}

LEMMA SumsAreNumbers ==
    ASSUME AffiliateTypeOK, RowsInUse
    PROVE  PendingSum \in Nat /\ EarnedSum \in Nat /\ MaturedSum \in Nat /\ AskedSum \in Nat
<1> DEFINE comm == [o \in ReferredOrders |-> ref[o].comm]
           amt == [p \in Payouts |-> payouts[p].amt]
           Credited == {o \in ReferredOrders : ref[o].st # "none"}
<1>1. \A o \in ReferredOrders : comm[o] \in Int /\ comm[o] >= 0
  <2>1. \A o \in ReferredOrders : ref[o].comm \in Nat
    BY ReferralTypes
  <2> QED
    BY <2>1
<1>2. \A p \in Payouts : amt[p] \in Int /\ amt[p] >= 0
  <2>1. \A p \in Payouts : payouts[p].amt \in Nat
    BY PayoutTypes
  <2> QED
    BY <2>1
<1> HIDE DEF comm, amt
<1>3. ASSUME NEW S \in SUBSET Credited
      PROVE  SumFunctionOnSet(comm, S) \in Nat
  <2>1. IsFiniteSet(S)
      BY FS_Subset DEF RowsInUse
  <2> QED
      BY <1>1, <2>1, SumIsNumber
<1>4. ReferralsIn({"PENDING"}) \subseteq Credited /\ ReferralsIn({"PENDING", "APPROVED"}) \subseteq Credited
    BY DEF ReferralsIn
<1>5. Matured \subseteq Credited
    BY DEF Matured, RowsInUse
<1>6. PayoutsIn({"REQUESTED"}) \subseteq Payouts /\ IsFiniteSet(PayoutsIn({"REQUESTED"}))
  <2>1. PayoutsIn({"REQUESTED"}) \subseteq {p \in Payouts : payouts[p].st # "none"}
      BY DEF PayoutsIn
  <2> QED
      BY <2>1, FS_Subset DEF RowsInUse
<1>7. SumFunctionOnSet(amt, PayoutsIn({"REQUESTED"})) \in Nat
    BY <1>2, <1>6, SumIsNumber
<1>8. PendingSum \in Nat /\ EarnedSum \in Nat
    BY <1>3, <1>4 DEF PendingSum, EarnedSum, CommissionOf, comm
<1>9. MaturedSum \in Nat
    BY <1>3, <1>5 DEF MaturedSum, CommissionOf, comm
<1> QED
    BY <1>7, <1>8, <1>9 DEF AskedSum, PayoutsOf, amt

\* A step that changes one referral changes each sum of commissions by what that referral was
\* and is in it.
LEMMA CommissionsChange ==
    ASSUME AffiliateTypeOK, AffiliateTypeOK', RowsInUse, NEW o \in ReferredOrders, \A x \in ReferredOrders \ {o} : ref'[x] = ref[x]
    PROVE  /\ PendingSum' = PendingSum + (IF ref'[o].st = "PENDING" THEN ref'[o].comm ELSE 0)
                                       - (IF ref[o].st = "PENDING" THEN ref[o].comm ELSE 0)
           /\ EarnedSum' = EarnedSum + (IF ref'[o].st \in {"PENDING", "APPROVED"} THEN ref'[o].comm ELSE 0)
                                     - (IF ref[o].st \in {"PENDING", "APPROVED"} THEN ref[o].comm ELSE 0)
           /\ MaturedSum' = MaturedSum + (IF ref'[o].approved THEN ref'[o].comm ELSE 0)
                                       - (IF ref[o].approved THEN ref[o].comm ELSE 0)
<1> DEFINE f == [x \in ReferredOrders |-> ref[x].comm]
           g == [x \in ReferredOrders |-> ref'[x].comm]
           Credited == {x \in ReferredOrders : ref[x].st # "none"}
<1>1. /\ \A x \in ReferredOrders : f[x] = ref[x].comm /\ g[x] = ref'[x].comm
      /\ \A x \in ReferredOrders : f[x] \in Int /\ g[x] \in Int
      /\ \A x \in ReferredOrders \ {o} : f[x] = g[x]
    BY DEF AffiliateTypeOK, Referrals
<1> HIDE DEF f, g
<1>2. ASSUME NEW S \in SUBSET Credited, NEW T \in SUBSET ReferredOrders, S \ {o} = T \ {o}
      PROVE  SumFunctionOnSet(g, T) = SumFunctionOnSet(f, S) + (IF o \in T THEN ref'[o].comm ELSE 0)
                                                             - (IF o \in S THEN ref[o].comm ELSE 0)
  <2>1. IsFiniteSet(S)
      BY FS_Subset DEF RowsInUse
  <2>2. SumFunctionOnSet(g, T) = SumFunctionOnSet(f, S) + (IF o \in T THEN g[o] ELSE 0) - (IF o \in S THEN f[o] ELSE 0)
      BY <1>1, <1>2, <2>1, SumChanges
  <2> QED
      BY <1>1, <2>2
<1>3. /\ PendingSum = SumFunctionOnSet(f, ReferralsIn({"PENDING"}))
      /\ PendingSum' = SumFunctionOnSet(g, ReferralsIn({"PENDING"})')
      /\ EarnedSum = SumFunctionOnSet(f, ReferralsIn({"PENDING", "APPROVED"}))
      /\ EarnedSum' = SumFunctionOnSet(g, ReferralsIn({"PENDING", "APPROVED"})')
      /\ MaturedSum = SumFunctionOnSet(f, Matured)
      /\ MaturedSum' = SumFunctionOnSet(g, Matured')
    BY DEF PendingSum, EarnedSum, MaturedSum, CommissionOf, f, g
<1>4. /\ ReferralsIn({"PENDING"}) \in SUBSET Credited /\ ReferralsIn({"PENDING"})' \in SUBSET ReferredOrders
      /\ ReferralsIn({"PENDING"}) \ {o} = ReferralsIn({"PENDING"})' \ {o}
      /\ o \in ReferralsIn({"PENDING"}) <=> ref[o].st = "PENDING"
      /\ o \in ReferralsIn({"PENDING"})' <=> ref'[o].st = "PENDING"
    BY DEF ReferralsIn
<1>5. /\ ReferralsIn({"PENDING", "APPROVED"}) \in SUBSET Credited
      /\ ReferralsIn({"PENDING", "APPROVED"})' \in SUBSET ReferredOrders
      /\ ReferralsIn({"PENDING", "APPROVED"}) \ {o} = ReferralsIn({"PENDING", "APPROVED"})' \ {o}
      /\ o \in ReferralsIn({"PENDING", "APPROVED"}) <=> ref[o].st \in {"PENDING", "APPROVED"}
      /\ o \in ReferralsIn({"PENDING", "APPROVED"})' <=> ref'[o].st \in {"PENDING", "APPROVED"}
    BY DEF ReferralsIn
<1>6. /\ Matured \in SUBSET Credited /\ Matured' \in SUBSET ReferredOrders
      /\ Matured \ {o} = Matured' \ {o}
      /\ o \in Matured <=> ref[o].approved
      /\ o \in Matured' <=> ref'[o].approved
    BY DEF Matured, RowsInUse
<1>7. PendingSum' = PendingSum + (IF ref'[o].st = "PENDING" THEN ref'[o].comm ELSE 0)
                               - (IF ref[o].st = "PENDING" THEN ref[o].comm ELSE 0)
    BY <1>2, <1>3, <1>4
<1>8. EarnedSum' = EarnedSum + (IF ref'[o].st \in {"PENDING", "APPROVED"} THEN ref'[o].comm ELSE 0)
                             - (IF ref[o].st \in {"PENDING", "APPROVED"} THEN ref[o].comm ELSE 0)
    BY <1>2, <1>3, <1>5
<1>9. MaturedSum' = MaturedSum + (IF ref'[o].approved THEN ref'[o].comm ELSE 0)
                               - (IF ref[o].approved THEN ref[o].comm ELSE 0)
    BY <1>2, <1>3, <1>6
<1> QED
    BY <1>7, <1>8, <1>9

\* The same of a step that changes one payout.
LEMMA AskedChanges ==
    ASSUME AffiliateTypeOK, AffiliateTypeOK', RowsInUse, NEW p \in Payouts, \A x \in Payouts \ {p} : payouts'[x] = payouts[x]
    PROVE  AskedSum' = AskedSum + (IF payouts'[p].st = "REQUESTED" THEN payouts'[p].amt ELSE 0)
                                - (IF payouts[p].st = "REQUESTED" THEN payouts[p].amt ELSE 0)
<1> DEFINE f == [x \in Payouts |-> payouts[x].amt]
           g == [x \in Payouts |-> payouts'[x].amt]
           S == PayoutsIn({"REQUESTED"})
           T == PayoutsIn({"REQUESTED"})'
<1>1. /\ \A x \in Payouts : f[x] = payouts[x].amt /\ g[x] = payouts'[x].amt
      /\ \A x \in Payouts : f[x] \in Int /\ g[x] \in Int
      /\ \A x \in Payouts \ {p} : f[x] = g[x]
    BY DEF AffiliateTypeOK, PayoutRows
<1>2. AskedSum = SumFunctionOnSet(f, S) /\ AskedSum' = SumFunctionOnSet(g, T)
    BY DEF AskedSum, PayoutsOf
<1>3. /\ S \subseteq {x \in Payouts : payouts[x].st # "none"} /\ S \subseteq Payouts /\ T \subseteq Payouts
      /\ S \ {p} = T \ {p}
      /\ p \in S <=> payouts[p].st = "REQUESTED"
    BY DEF PayoutsIn
<1>4. p \in T <=> payouts'[p].st = "REQUESTED"
    BY DEF PayoutsIn
<1> HIDE DEF f, g, S, T
<1>5. IsFiniteSet(S)
    BY <1>3, FS_Subset DEF RowsInUse
<1>6. SumFunctionOnSet(g, T) = SumFunctionOnSet(f, S) + (IF p \in T THEN g[p] ELSE 0) - (IF p \in S THEN f[p] ELSE 0)
    BY <1>1, <1>3, <1>5, SumChanges
<1> QED
    BY <1>1, <1>2, <1>3, <1>4, <1>6

LEMMA RowsStayFinite ==
    ASSUME RowsInUse, NEW o \in ReferredOrders, \A x \in ReferredOrders \ {o} : ref'[x] = ref[x],
           ref'[o].approved => ref'[o].st \in {"APPROVED", "REJECTED"}, UNCHANGED payouts
    PROVE  RowsInUse'
<1>1. IsFiniteSet({x \in ReferredOrders : ref[x].st # "none"} \cup {o})
    BY FS_AddElement DEF RowsInUse
<1>2. {x \in ReferredOrders : ref'[x].st # "none"} \subseteq {x \in ReferredOrders : ref[x].st # "none"} \cup {o}
    OBVIOUS
<1>3. IsFiniteSet({x \in ReferredOrders : ref'[x].st # "none"})
    BY <1>1, <1>2, FS_Subset
<1>4. IsFiniteSet({p \in Payouts : payouts'[p].st # "none"})
    BY DEF RowsInUse
<1>5. \A x \in ReferredOrders : ref'[x].approved => ref'[x].st \in {"APPROVED", "REJECTED"}
    BY DEF RowsInUse
<1> QED
    BY <1>3, <1>4, <1>5 DEF RowsInUse

LEMMA PayoutsStayFinite ==
    ASSUME RowsInUse, NEW p \in Payouts, \A x \in Payouts \ {p} : payouts'[x] = payouts[x], UNCHANGED ref
    PROVE  RowsInUse'
<1>1. IsFiniteSet({x \in Payouts : payouts[x].st # "none"} \cup {p})
    BY FS_AddElement DEF RowsInUse
<1>2. {x \in Payouts : payouts'[x].st # "none"} \subseteq {x \in Payouts : payouts[x].st # "none"} \cup {p}
    OBVIOUS
<1>3. IsFiniteSet({x \in Payouts : payouts'[x].st # "none"})
    BY <1>1, <1>2, FS_Subset
<1>4. /\ IsFiniteSet({o \in ReferredOrders : ref'[o].st # "none"})
      /\ \A x \in ReferredOrders : ref'[x].approved => ref'[x].st \in {"APPROVED", "REJECTED"}
    BY DEF RowsInUse
<1> QED
    BY <1>3, <1>4 DEF RowsInUse

\* The balances after a step, next to those before it.
Moves(pending, available, withdrawn, earned) ==
    /\ acct'.pending = acct.pending + pending /\ acct'.available = acct.available + available
    /\ acct'.withdrawn = acct.withdrawn + withdrawn /\ acct'.earned = acct.earned + earned

\* What a step adds to the sums of the referrals.
Adds(pending, earned, matured) ==
    PendingSum' = PendingSum + pending /\ EarnedSum' = EarnedSum + earned /\ MaturedSum' = MaturedSum + matured

LEMMA CreditBooks ==
    ASSUME AffiliateTypeOK, AffiliateTypeOK', RowsInUse, NEW w \in Workers, CreditWrite(w)
    PROVE  /\ RowsInUse' /\ UNCHANGED <<payouts, call, adm, overtaken>>
           /\ \E c \in Nat : Moves(c, 0, 0, c) /\ Adds(c, c, 0)
<1> DEFINE o == wk[w].order
           c == Commission(OrderTotal[o], wk[w].rate)
<1>1. o \in ReferredOrders /\ wk[w].rate \in Nat /\ OrderTotal[o] \in Nat
    BY WorkerTypes, AffiliateAssumption DEF CreditWrite
<1>2. c \in Nat
    BY <1>1, CommissionBounds
<1> HIDE DEF c
<1>3. PendingSum \in Nat /\ EarnedSum \in Nat /\ MaturedSum \in Nat
    BY SumsAreNumbers
<1>4. CASE ref[o].st = "none"
  <2>1. /\ ref' = [ref EXCEPT ![o] = [NoReferral EXCEPT !.st = "PENDING", !.comm = c]]
        /\ acct' = [acct EXCEPT !.pending = acct.pending + c, !.earned = acct.earned + c]
        /\ UNCHANGED <<payouts, call, adm, overtaken>>
    BY <1>4 DEF CreditWrite, c
  <2>2. /\ \A x \in ReferredOrders \ {o} : ref'[x] = ref[x]
        /\ ref'[o].st = "PENDING" /\ ref'[o].comm = c /\ ref'[o].approved = FALSE
    BY <1>1, <2>1 DEF NoReferral, AffiliateTypeOK
  <2>3. ref[o].approved = FALSE
    BY <1>1, <1>4 DEF RowsInUse, AffiliateTypeOK, Referrals
  <2> HIDE DEF o
  <2>4. RowsInUse'
    BY <1>1, <2>1, <2>2, RowsStayFinite
  <2>5. Adds(c, c, 0)
    BY <1>1, <1>2, <1>3, <1>4, <2>2, <2>3, CommissionsChange DEF Adds
  <2>6. Moves(c, 0, 0, c)
    BY <1>2, <2>1, BalanceTypes DEF Moves, Accounts
  <2> QED
    BY <1>2, <2>1, <2>4, <2>5, <2>6
<1>5. CASE ref[o].st # "none"
  <2>1. UNCHANGED <<acct, ref, payouts, call, adm, overtaken>>
    BY <1>5 DEF CreditWrite
  <2>2. Moves(0, 0, 0, 0)
    BY <2>1, BalanceTypes DEF Moves
  <2>3. Adds(0, 0, 0)
    BY <1>3, <2>1 DEF Adds, PendingSum, EarnedSum, MaturedSum, CommissionOf, ReferralsIn, Matured
  <2> QED
    BY <2>1, <2>2, <2>3 DEF RowsInUse
<1> QED
    BY <1>4, <1>5

\* What a claw-back takes from the account it takes from the sums, unless it is stale.
LEMMA ClawbackBooks ==
    ASSUME AffiliateTypeOK, AffiliateTypeOK', RowsInUse, NEW w \in Workers, ClawbackWrite(w)
    PROVE  /\ RowsInUse' /\ UNCHANGED <<payouts, call, adm, overtaken>>
           /\ MaturedSum' = MaturedSum
           /\ \E c \in Nat : \/ Moves(-c, 0, 0, -c) /\ (Adds(-c, -c, 0) \/ StaleClawback)
                             \/ Moves(0, -c, 0, -c) /\ (Adds(0, -c, 0) \/ StaleClawback)
<1> DEFINE o == wk[w].order
           c == ref[o].comm
           seen == wk[w].seen
<1>1. o \in ReferredOrders /\ seen \in {"PENDING", "APPROVED"} /\ wk[w].pc = "clawback"
    BY WorkerTypes DEF ClawbackWrite
<1>2. c \in Nat /\ ref[o] \in Referrals
    BY <1>1, ReferralTypes
<1>3. PendingSum \in Nat /\ EarnedSum \in Nat /\ MaturedSum \in Nat
    BY SumsAreNumbers
<1>4. /\ ref' = [ref EXCEPT ![o] = [ref[o] EXCEPT !.st = "REJECTED"]] /\ UNCHANGED <<payouts, call, adm, overtaken>>
      /\ wk'[w] = Idle
    BY <1>1 DEF ClawbackWrite, AffiliateTypeOK
<1>5. /\ \A x \in ReferredOrders \ {o} : ref'[x] = ref[x]
      /\ ref'[o].st = "REJECTED" /\ ref'[o].comm = c /\ ref'[o].approved = ref[o].approved
  <2>1. ref'[o] = [ref[o] EXCEPT !.st = "REJECTED"] /\ \A x \in ReferredOrders \ {o} : ref'[x] = ref[x]
    BY <1>1, <1>4 DEF AffiliateTypeOK
  <2> QED
    BY <1>2, <2>1 DEF Referrals
<1>6. ref[o].st = seen \/ StaleClawback
    BY <1>1, <1>4 DEF StaleClawback
<1>7. /\ seen = "PENDING" => Moves(-c, 0, 0, -c)
      /\ seen # "PENDING" => Moves(0, -c, 0, -c)
  <2>1. acct' = TakeBack(seen, c)
    BY DEF ClawbackWrite
  <2> HIDE DEF c, seen
  <2> QED
    BY <1>2, <2>1, BalanceTypes DEF TakeBack, Moves, Accounts
<1> HIDE DEF o, c, seen
<1>8. RowsInUse'
    BY <1>1, <1>4, <1>5, RowsStayFinite
<1>9. MaturedSum' = MaturedSum
  <2>1. ref[o].approved \in BOOLEAN /\ ref[o].comm = c
    BY <1>2 DEF Referrals, c
  <2> QED
    BY <1>1, <1>2, <1>3, <1>5, <2>1, CommissionsChange
<1>10. ASSUME ref[o].st = seen
       PROVE  /\ seen = "PENDING" => Adds(-c, -c, 0)
              /\ seen # "PENDING" => Adds(0, -c, 0)
  <2>1. ref[o].comm = c
    BY DEF c
  <2>2. PendingSum' = PendingSum + 0 - (IF ref[o].st = "PENDING" THEN c ELSE 0)
    BY <1>1, <1>5, <2>1, CommissionsChange
  <2>3. EarnedSum' = EarnedSum + 0 - c
    BY <1>1, <1>5, <1>10, <2>1, CommissionsChange
  <2> QED
    BY <1>1, <1>2, <1>3, <1>9, <1>10, <2>2, <2>3 DEF Adds
<1> QED
    BY <1>1, <1>2, <1>4, <1>6, <1>7, <1>8, <1>9, <1>10

LEMMA MatureBooks ==
    ASSUME AffiliateTypeOK, AffiliateTypeOK', RowsInUse, NEW w \in Workers, NEW o \in ReferredOrders, MatureOne(w, o)
    PROVE  /\ RowsInUse' /\ UNCHANGED <<payouts, call, adm, overtaken>>
           /\ \E c \in Nat : Moves(-c, c, 0, 0) /\ Adds(-c, 0, c)
<1> DEFINE c == ref[o].comm
<1>1. c \in Nat /\ ref[o] \in Referrals
    BY ReferralTypes
<1>2. PendingSum \in Nat /\ EarnedSum \in Nat /\ MaturedSum \in Nat
    BY SumsAreNumbers
<1>3. CASE ref[o].st = "PENDING"
  <2>1. /\ ref' = [ref EXCEPT ![o] = [ref[o] EXCEPT !.st = "APPROVED", !.approved = TRUE]]
        /\ acct' = [acct EXCEPT !.pending = acct.pending - c, !.available = acct.available + c]
        /\ UNCHANGED <<payouts, call, adm, overtaken>>
    BY <1>3 DEF MatureOne, AffiliateTypeOK
  <2>2. /\ \A x \in ReferredOrders \ {o} : ref'[x] = ref[x]
        /\ ref'[o].st = "APPROVED" /\ ref'[o].comm = c /\ ref'[o].approved = TRUE
    <3>1. ref'[o] = [ref[o] EXCEPT !.st = "APPROVED", !.approved = TRUE] /\ \A x \in ReferredOrders \ {o} : ref'[x] = ref[x]
      BY <2>1 DEF AffiliateTypeOK
    <3> QED
      BY <1>1, <3>1 DEF Referrals
  <2>3. ref[o].approved = FALSE
    BY <1>1, <1>3 DEF RowsInUse, Referrals
  <2>4. ref[o].comm = c
    OBVIOUS
  <2> HIDE DEF c
  <2>5. RowsInUse'
    BY <2>1, <2>2, RowsStayFinite
  <2>6. /\ PendingSum' = PendingSum + 0 - c /\ EarnedSum' = EarnedSum + c - c /\ MaturedSum' = MaturedSum + c - 0
    BY <1>3, <2>2, <2>3, <2>4, CommissionsChange
  <2>7. Adds(-c, 0, c)
    BY <1>1, <1>2, <2>6 DEF Adds
  <2>8. Moves(-c, c, 0, 0)
    BY <1>1, <2>1, BalanceTypes DEF Moves, Accounts
  <2> QED
    BY <1>1, <2>1, <2>5, <2>7, <2>8
<1>4. CASE ref[o].st # "PENDING"
  <2>1. UNCHANGED <<acct, ref, payouts, call, adm, overtaken>>
    BY <1>4 DEF MatureOne
  <2>2. Moves(0, 0, 0, 0)
    BY <2>1, BalanceTypes DEF Moves
  <2>3. Adds(0, 0, 0)
    BY <1>2, <2>1 DEF Adds, PendingSum, EarnedSum, MaturedSum, CommissionOf, ReferralsIn, Matured
  <2> QED
    BY <2>1, <2>2, <2>3 DEF RowsInUse
<1> QED
    BY <1>3, <1>4

\* The passing of a hold moves nothing.
LEMMA HoldBooks ==
    ASSUME AffiliateTypeOK, AffiliateTypeOK', RowsInUse, NEW o \in ReferredOrders, HoldElapses(o)
    PROVE  RowsInUse' /\ UNCHANGED <<acct, payouts, call, adm, overtaken>> /\ Adds(0, 0, 0)
<1>1. ref[o] \in Referrals /\ ref[o].comm \in Nat
    BY ReferralTypes
<1>2. PendingSum \in Nat /\ EarnedSum \in Nat /\ MaturedSum \in Nat
    BY SumsAreNumbers
<1>3. /\ \A x \in ReferredOrders \ {o} : ref'[x] = ref[x]
      /\ ref'[o].st = ref[o].st /\ ref'[o].comm = ref[o].comm /\ ref'[o].approved = ref[o].approved
  <2>1. ref'[o] = [ref[o] EXCEPT !.due = TRUE] /\ \A x \in ReferredOrders \ {o} : ref'[x] = ref[x]
    BY DEF HoldElapses, AffiliateTypeOK
  <2> QED
    BY <1>1, <2>1 DEF Referrals
<1>4. RowsInUse'
    BY <1>3, RowsStayFinite DEF HoldElapses, RowsInUse
<1>5. /\ PendingSum' = PendingSum + (IF ref[o].st = "PENDING" THEN ref[o].comm ELSE 0)
                                  - (IF ref[o].st = "PENDING" THEN ref[o].comm ELSE 0)
      /\ EarnedSum' = EarnedSum + (IF ref[o].st \in {"PENDING", "APPROVED"} THEN ref[o].comm ELSE 0)
                                - (IF ref[o].st \in {"PENDING", "APPROVED"} THEN ref[o].comm ELSE 0)
      /\ MaturedSum' = MaturedSum + (IF ref[o].approved THEN ref[o].comm ELSE 0)
                                  - (IF ref[o].approved THEN ref[o].comm ELSE 0)
    BY <1>3, CommissionsChange
<1> QED
    BY <1>1, <1>2, <1>4, <1>5 DEF HoldElapses, Adds

\* A new payout asks for what it takes from the available balance.
LEMMA RequestBooks ==
    ASSUME AffiliateTypeOK, AffiliateTypeOK', RowsInUse, NEW c \in Callers, NEW p \in Payouts, PayoutWrite(c, p)
    PROVE  /\ RowsInUse' /\ UNCHANGED <<ref, adm>>
           /\ call[c].amt \in Nat /\ call[c].pc = "request"
           /\ \A d \in Callers : call'[d].pc = "request" => call'[d].late
           /\ Moves(0, -call[c].amt, 0, 0) /\ AskedSum' = AskedSum + call[c].amt
<1> DEFINE m == call[c].amt
<1>1. m \in Nat
    BY CallerTypes, AffiliateAssumption DEF PayoutWrite
<1>2. /\ \A x \in Payouts \ {p} : payouts'[x] = payouts[x]
      /\ payouts[p].st = "none" /\ payouts'[p].st = "REQUESTED" /\ payouts'[p].amt = m
      /\ acct' = [acct EXCEPT !.available = acct.available - m]
      /\ UNCHANGED <<ref, adm>> /\ call[c].pc = "request" /\ Overtakes(c)
    BY DEF PayoutWrite, AffiliateTypeOK
<1> HIDE DEF m
<1>3. RowsInUse'
    BY <1>2, PayoutsStayFinite
<1>4. AskedSum \in Nat
    BY SumsAreNumbers
<1>5. AskedSum' = AskedSum + m - 0
    BY <1>2, AskedChanges
<1>6. Moves(0, -m, 0, 0)
    BY <1>1, <1>2, BalanceTypes DEF Moves, Accounts
<1> QED
    BY <1>1, <1>2, <1>3, <1>4, <1>5, <1>6, OvertakenRequests DEF m

\* A payout that was open until it is decided is paid out or given back.
LEMMA DecisionBooks ==
    ASSUME AffiliateTypeOK, AffiliateTypeOK', RowsInUse, NEW a \in Admins, ProcessWrite(a), "decision" \notin overtaken'
    PROVE  /\ RowsInUse' /\ UNCHANGED <<ref, call>>
           /\ \E m \in Nat : /\ AskedSum' = AskedSum - m
                             /\ Moves(0, 0, m, 0) \/ Moves(0, m, 0, 0)
<1> DEFINE p == adm[a].payout
           m == payouts[p].amt
           to == adm[a].to
<1>1. p \in Payouts /\ to \in {"COMPLETED", "REJECTED"} /\ payouts[p].st = "REQUESTED"
  <2>1. p \in Payouts /\ to \in {"COMPLETED", "REJECTED"} /\ payouts[p] \in PayoutRows
    BY DecisionTypes, PayoutTypes DEF ProcessWrite
  <2>2. <<payouts[p].st, to>> \in PayoutTransitions
    BY DEF ProcessWrite, DecidedBefore
  <2>3. payouts[p].st \in {"REQUESTED", "PROCESSING"}
    BY <2>2 DEF PayoutTransitions
  <2> QED
    BY <2>1, <2>3 DEF PayoutRows
<1>2. m \in Nat /\ payouts[p] \in PayoutRows
    BY <1>1, PayoutTypes
<1>3. /\ payouts' = [payouts EXCEPT ![p] = [payouts[p] EXCEPT !.st = to]] /\ acct' = Settle(to, m) /\ UNCHANGED <<ref, call>>
    BY <1>1 DEF ProcessWrite, AffiliateTypeOK
<1> HIDE DEF p, to
<1>4. /\ \A x \in Payouts \ {p} : payouts'[x] = payouts[x]
      /\ payouts'[p].st = to
  <2>1. payouts'[p] = [payouts[p] EXCEPT !.st = to] /\ \A x \in Payouts \ {p} : payouts'[x] = payouts[x]
    BY <1>1, <1>3 DEF AffiliateTypeOK
  <2> QED
    BY <1>2, <2>1 DEF PayoutRows
<1>5. RowsInUse'
    BY <1>1, <1>3, <1>4, PayoutsStayFinite
<1>6. AskedSum \in Nat
    BY SumsAreNumbers
<1>7. AskedSum' = AskedSum + 0 - m
    BY <1>1, <1>4, AskedChanges
<1> HIDE DEF m
<1>8. Moves(0, 0, m, 0) \/ Moves(0, m, 0, 0)
    BY <1>1, <1>2, <1>3, BalanceTypes DEF Settle, Moves, Accounts
<1> QED
    BY <1>2, <1>3, <1>5, <1>6, <1>7, <1>8

\* Every other step leaves the rows and the balances alone.
Quiet ==
    /\ UNCHANGED <<ref, payouts, overtaken>> /\ Moves(0, 0, 0, 0)
    /\ call' = call \/ \E c \in Callers, amt \in PayoutAmounts : PayoutRead(c, amt)

LEMMA StepsOfTheBooks ==
    ASSUME AffiliateTypeOK, [AffiliateNext]_affiliateVars
    PROVE  \/ Quiet
           \/ \E w \in Workers : CreditWrite(w) \/ ClawbackWrite(w) \/ \E o \in ReferredOrders : MatureOne(w, o)
           \/ \E o \in ReferredOrders : HoldElapses(o)
           \/ \E c \in Callers, p \in Payouts : PayoutWrite(c, p)
           \/ \E a \in Admins : ProcessWrite(a)
<1>1. ASSUME UNCHANGED <<acct, ref, payouts, call, overtaken>> PROVE Quiet
    BY <1>1, BalanceTypes DEF Quiet, Moves
<1>2. ASSUME NEW w \in Workers, MatureRead(w) \/ Fault(w) PROVE Quiet
    BY <1>1, <1>2 DEF MatureRead, Fault
<1>3. ASSUME NEW w \in Workers, NEW o \in ReferredOrders, CreditRead(w, o) \/ ClawbackRead(w, o) \/ MatureFails(w, o) PROVE Quiet
    BY <1>1, <1>3 DEF CreditRead, ClawbackRead, MatureFails
<1>4. ASSUME NEW c \in Callers, NEW amt \in PayoutAmounts, PayoutRead(c, amt) PROVE Quiet
  <2>1. UNCHANGED <<acct, ref, payouts, overtaken>>
    BY <1>4 DEF PayoutRead
  <2>2. Moves(0, 0, 0, 0)
    BY <2>1, BalanceTypes DEF Moves
  <2> QED
    BY <1>4, <2>1, <2>2 DEF Quiet
<1>5. ASSUME NEW a \in Admins, NEW p \in Payouts, NEW to \in {"COMPLETED", "REJECTED"}, ProcessRead(a, p, to) PROVE Quiet
    BY <1>1, <1>5 DEF ProcessRead
<1>6. ASSUME NEW b \in BOOLEAN, UpdateAdminAffiliateStatus(b) PROVE Quiet
  <2>1. acct' = [acct EXCEPT !.active = b] /\ UNCHANGED <<ref, payouts, call, overtaken>>
    BY <1>6 DEF UpdateAdminAffiliateStatus
  <2>2. Moves(0, 0, 0, 0)
    BY <2>1, BalanceTypes DEF Moves, Accounts
  <2> QED
    BY <2>1, <2>2 DEF Quiet
<1>7. ASSUME NEW r \in Rates, UpdateAdminAffiliateCommission(r) PROVE Quiet
  <2>1. acct' = [acct EXCEPT !.rate = r] /\ UNCHANGED <<ref, payouts, call, overtaken>>
    BY <1>7 DEF UpdateAdminAffiliateCommission
  <2>2. Moves(0, 0, 0, 0)
    BY <2>1, BalanceTypes DEF Moves, Accounts
  <2> QED
    BY <2>1, <2>2 DEF Quiet
<1>8. UNCHANGED affiliateVars => Quiet
    BY <1>1 DEF affiliateVars
<1> QED
    BY <1>2, <1>3, <1>4, <1>5, <1>6, <1>7, <1>8 DEF AffiliateNext, Work

\* What was overtaken once stays so.
LEMMA HistoryStays ==
    ASSUME AffiliateTypeOK, [AffiliateNext]_affiliateVars
    PROVE  overtaken \subseteq overtaken'
<1>1. Quiet => overtaken' = overtaken
    BY DEF Quiet
<1> QED
    BY <1>1, StepsOfTheBooks DEF CreditWrite, ClawbackWrite, MatureOne, HoldElapses, PayoutWrite, ProcessWrite

LEMMA SumsOfTheSame ==
    ASSUME AffiliateTypeOK, RowsInUse
    PROVE  /\ UNCHANGED ref => Adds(0, 0, 0)
           /\ UNCHANGED payouts => AskedSum' = AskedSum
           /\ UNCHANGED <<ref, payouts>> => RowsInUse'
<1>1. UNCHANGED ref => Adds(0, 0, 0)
    BY SumsAreNumbers DEF Adds, PendingSum, EarnedSum, MaturedSum, CommissionOf, ReferralsIn, Matured
<1>2. UNCHANGED payouts => AskedSum' = AskedSum
    BY DEF AskedSum, PayoutsOf, PayoutsIn
<1> QED
    BY <1>1, <1>2 DEF RowsInUse

\* Only a stale claw-back drives the balances and the sums apart.
LEMMA ReferralBooks ==
    ASSUME AffiliateTypeOK, AffiliateTypeOK', RowsInUse, [AffiliateNext]_affiliateVars
    PROVE  RowsInUse' /\ ((PendingBooks' = PendingBooks /\ EarnedBooks' = EarnedBooks) \/ StaleClawback)
<1>0. /\ PendingBooks = acct.pending - PendingSum /\ PendingBooks' = acct'.pending - PendingSum'
      /\ EarnedBooks = acct.earned - EarnedSum /\ EarnedBooks' = acct'.earned - EarnedSum'
    BY DEF PendingBooks, EarnedBooks, PendingSum, EarnedSum
<1>1. PendingSum \in Nat /\ EarnedSum \in Nat /\ MaturedSum \in Nat /\ acct.pending \in Int /\ acct.earned \in Int
    BY SumsAreNumbers, BalanceTypes
<1> DEFINE Same == PendingBooks' = PendingBooks /\ EarnedBooks' = EarnedBooks
<1>2. ASSUME NEW c \in Int, NEW d \in Int, NEW e \in Int, NEW f \in Int, NEW m \in Int, Moves(c, d, e, f), Adds(c, f, m)
      PROVE  Same
    BY <1>0, <1>1, <1>2 DEF Moves, Adds
<1> HIDE DEF Same
<1>3. Quiet => Same /\ RowsInUse'
    BY <1>2, SumsOfTheSame DEF Quiet
<1>4. ASSUME NEW w \in Workers, CreditWrite(w) PROVE Same /\ RowsInUse'
  <2>1. PICK c \in Nat : Moves(c, 0, 0, c) /\ Adds(c, c, 0)
    BY <1>4, CreditBooks
  <2> QED
    BY <1>2, <1>4, <2>1, CreditBooks
<1>5. ASSUME NEW w \in Workers, ClawbackWrite(w) PROVE (Same \/ StaleClawback) /\ RowsInUse'
  <2>1. PICK c \in Nat : \/ Moves(-c, 0, 0, -c) /\ (Adds(-c, -c, 0) \/ StaleClawback)
                         \/ Moves(0, -c, 0, -c) /\ (Adds(0, -c, 0) \/ StaleClawback)
    BY <1>5, ClawbackBooks
  <2>2. -c \in Int
    OBVIOUS
  <2> QED
    BY <1>2, <1>5, <2>1, <2>2, ClawbackBooks
<1>6. ASSUME NEW w \in Workers, NEW o \in ReferredOrders, MatureOne(w, o) PROVE Same /\ RowsInUse'
  <2>1. PICK c \in Nat : Moves(-c, c, 0, 0) /\ Adds(-c, 0, c)
    BY <1>6, MatureBooks
  <2>2. -c \in Int
    OBVIOUS
  <2> QED
    BY <1>2, <1>6, <2>1, <2>2, MatureBooks
<1>7. ASSUME NEW o \in ReferredOrders, HoldElapses(o) PROVE Same /\ RowsInUse'
  <2>1. RowsInUse' /\ Adds(0, 0, 0) /\ UNCHANGED acct
    BY <1>7, HoldBooks
  <2>2. Moves(0, 0, 0, 0)
    BY <2>1, BalanceTypes DEF Moves
  <2> QED
    BY <1>2, <2>1, <2>2
<1>8. ASSUME NEW c \in Callers, NEW p \in Payouts, PayoutWrite(c, p) PROVE Same /\ RowsInUse'
  <2>1. RowsInUse' /\ UNCHANGED ref /\ Moves(0, -call[c].amt, 0, 0) /\ call[c].amt \in Nat
    BY <1>8, RequestBooks
  <2>2. Adds(0, 0, 0)
    BY <2>1, SumsOfTheSame
  <2>3. -call[c].amt \in Int
    BY <2>1
  <2> QED
    BY <1>2, <2>1, <2>2, <2>3
<1>9. ASSUME NEW a \in Admins, ProcessWrite(a) PROVE Same /\ RowsInUse'
  <2> DEFINE p == adm[a].payout
             m == payouts[p].amt
             to == adm[a].to
  <2>1. p \in Payouts /\ m \in Nat
    BY <1>9, DecisionTypes, PayoutTypes DEF ProcessWrite
  <2>2. UNCHANGED ref /\ acct' = Settle(to, m) /\ \A x \in Payouts \ {p} : payouts'[x] = payouts[x]
    BY <1>9 DEF ProcessWrite, AffiliateTypeOK
  <2> HIDE DEF p, m, to
  <2>3. Moves(0, 0, m, 0) \/ Moves(0, m, 0, 0)
    BY <2>1, <2>2, BalanceTypes DEF Settle, Moves, Accounts
  <2>4. RowsInUse'
    BY <2>1, <2>2, PayoutsStayFinite
  <2>5. Adds(0, 0, 0)
    BY <2>2, SumsOfTheSame
  <2> QED
    BY <1>2, <2>1, <2>3, <2>4, <2>5
<1> QED
    BY <1>3, <1>4, <1>5, <1>6, <1>7, <1>8, <1>9, StepsOfTheBooks DEF Same

\* Only a decision that was overtaken moves what was earned to where the account does not
\* say it is.
LEMMA EarnedStep ==
    ASSUME AffiliateTypeOK, AffiliateTypeOK', RowsInUse, EarnedIsAccountedFor, [AffiliateNext]_affiliateVars, "decision" \notin overtaken'
    PROVE  EarnedIsAccountedFor'
<1>1. /\ acct.earned = acct.pending + acct.available + acct.withdrawn + AskedSum
      /\ acct'.earned = acct'.pending + acct'.available + acct'.withdrawn + AskedSum' => EarnedIsAccountedFor'
    BY DEF EarnedIsAccountedFor, AskedSum
<1>2. AskedSum \in Nat
    BY SumsAreNumbers
<1>3. ASSUME NEW a \in Int, NEW b \in Int, NEW d \in Int, NEW m \in Int,
             Moves(a, b, d, a + b + d + m), AskedSum' = AskedSum + m
      PROVE  EarnedIsAccountedFor'
    BY <1>1, <1>2, <1>3, BalanceTypes DEF Moves
<1>4. ASSUME NEW a \in Int, NEW b \in Int, NEW e \in Int, e = a + b, Moves(a, b, 0, e), UNCHANGED payouts
      PROVE  EarnedIsAccountedFor'
  <2>1. AskedSum' = AskedSum + 0
    BY <1>2, <1>4, SumsOfTheSame
  <2>2. Moves(a, b, 0, a + b + 0 + 0)
    BY <1>4
  <2> QED
    BY <1>3, <2>1, <2>2
<1>5. Quiet => EarnedIsAccountedFor'
    BY <1>4 DEF Quiet
<1>6. ASSUME NEW w \in Workers, CreditWrite(w) PROVE EarnedIsAccountedFor'
  <2>1. PICK c \in Nat : Moves(c, 0, 0, c)
    BY <1>6, CreditBooks
  <2>2. c = c + 0
    OBVIOUS
  <2> QED
    BY <1>4, <1>6, <2>1, <2>2, CreditBooks
<1>7. ASSUME NEW w \in Workers, ClawbackWrite(w) PROVE EarnedIsAccountedFor'
  <2>1. PICK c \in Nat : Moves(-c, 0, 0, -c) \/ Moves(0, -c, 0, -c)
    BY <1>7, ClawbackBooks
  <2>2. -c \in Int /\ -c = -c + 0 /\ -c = 0 + (-c)
    OBVIOUS
  <2>3. UNCHANGED payouts
    BY <1>7 DEF ClawbackWrite
  <2>4. Moves(-c, 0, 0, -c) => EarnedIsAccountedFor'
    BY <1>4, <2>2, <2>3
  <2>5. Moves(0, -c, 0, -c) => EarnedIsAccountedFor'
    BY <1>4, <2>2, <2>3
  <2> QED
    BY <2>1, <2>4, <2>5
<1>8. ASSUME NEW w \in Workers, NEW o \in ReferredOrders, MatureOne(w, o) PROVE EarnedIsAccountedFor'
  <2>1. PICK c \in Nat : Moves(-c, c, 0, 0)
    BY <1>8, MatureBooks
  <2>2. -c \in Int /\ c \in Int /\ 0 = -c + c
    OBVIOUS
  <2>3. UNCHANGED payouts
    BY <1>8 DEF MatureOne
  <2> QED
    BY <1>4, <2>1, <2>2, <2>3
<1>9. ASSUME NEW o \in ReferredOrders, HoldElapses(o) PROVE EarnedIsAccountedFor'
    BY <1>9 DEF HoldElapses, EarnedIsAccountedFor, PayoutsOf, PayoutsIn
<1>10. ASSUME NEW c \in Callers, NEW p \in Payouts, PayoutWrite(c, p) PROVE EarnedIsAccountedFor'
  <2> DEFINE m == call[c].amt
  <2>1. m \in Nat /\ Moves(0, -m, 0, 0) /\ AskedSum' = AskedSum + m
    BY <1>10, RequestBooks
  <2> HIDE DEF m
  <2>2. -m \in Int /\ 0 = 0 + (-m) + 0 + m
    BY <2>1
  <2>3. Moves(0, -m, 0, 0 + (-m) + 0 + m)
    BY <2>1, <2>2
  <2> QED
    BY <1>3, <2>1, <2>2, <2>3
<1>11. ASSUME NEW a \in Admins, ProcessWrite(a) PROVE EarnedIsAccountedFor'
  <2>1. PICK m \in Nat : AskedSum' = AskedSum - m /\ (Moves(0, 0, m, 0) \/ Moves(0, m, 0, 0))
    BY <1>11, DecisionBooks
  <2>2. -m \in Int /\ AskedSum' = AskedSum + (-m) /\ 0 = 0 + 0 + m + (-m) /\ 0 = 0 + m + 0 + (-m)
    BY <1>2, <2>1
  <2>3. ASSUME Moves(0, 0, m, 0) PROVE EarnedIsAccountedFor'
    <3>1. Moves(0, 0, m, 0 + 0 + m + (-m))
      BY <2>2, <2>3
    <3> QED
      BY <1>3, <2>2, <3>1
  <2>4. ASSUME Moves(0, m, 0, 0) PROVE EarnedIsAccountedFor'
    <3>1. Moves(0, m, 0, 0 + m + 0 + (-m))
      BY <2>2, <2>4
    <3> QED
      BY <1>3, <2>2, <3>1
  <2> QED
    BY <2>1, <2>3, <2>4
<1> QED
    BY <1>5, <1>6, <1>7, <1>8, <1>9, <1>10, <1>11, StepsOfTheBooks

\* What is available, with what was paid out or asked for, has matured, and so has what a
\* request that is not late asks for, until a decision was overtaken; what was paid out or
\* asked for has matured until any transaction was.
Covered ==
    /\ "decision" \notin overtaken =>
         /\ acct.available + acct.withdrawn + AskedSum <= MaturedSum
         /\ \A c \in Callers : call[c].pc = "request" /\ ~call[c].late
                                 => acct.withdrawn + AskedSum + call[c].amt <= MaturedSum
    /\ overtaken = {} => acct.withdrawn + AskedSum <= MaturedSum

LEMMA CoveredStep ==
    ASSUME AffiliateTypeOK, AffiliateTypeOK', RowsInUse, Covered, [AffiliateNext]_affiliateVars
    PROVE  Covered'
<1>1. AskedSum \in Nat /\ MaturedSum \in Nat /\ acct.available \in Int /\ acct.withdrawn \in Int
    BY SumsAreNumbers, BalanceTypes
<1>2. \A c \in Callers : call[c].pc = "request" => call[c].amt \in Nat
    BY CallerTypes, AffiliateAssumption
<1>3. ASSUME NEW a \in Int, NEW m \in Nat, a <= m, acct'.available = acct.available + a,
             UNCHANGED <<call, payouts, overtaken>>, acct'.withdrawn = acct.withdrawn, MaturedSum' = MaturedSum + m
      PROVE  Covered'
  <2>1. AskedSum' = AskedSum
    BY <1>3, SumsOfTheSame
  <2> QED
    BY <1>1, <1>2, <1>3, <2>1 DEF Covered
<1>4. ASSUME Quiet PROVE Covered'
  <2>1. /\ MaturedSum' = MaturedSum /\ AskedSum' = AskedSum /\ overtaken' = overtaken
        /\ acct'.available = acct.available /\ acct'.withdrawn = acct.withdrawn
    BY <1>1, <1>4, SumsOfTheSame DEF Quiet, Adds, Moves
  <2>2. CASE call' = call
    BY <2>1, <2>2 DEF Covered
  <2>3. ASSUME NEW c \in Callers, NEW amt \in PayoutAmounts, PayoutRead(c, amt) PROVE Covered'
    <3>1. acct.available >= amt /\ call'[c].amt = amt /\ amt \in Nat /\ \A d \in Callers \ {c} : call'[d] = call[d]
      BY <2>3, AffiliateAssumption DEF PayoutRead, AffiliateTypeOK
    <3>2. "decision" \notin overtaken => acct.withdrawn + AskedSum + amt <= MaturedSum
      BY <1>1, <3>1 DEF Covered
    <3> QED
      BY <2>1, <3>1, <3>2 DEF Covered
  <2> QED
    BY <1>4, <2>2, <2>3 DEF Quiet
<1>5. ASSUME NEW w \in Workers, CreditWrite(w) PROVE Covered'
  <2>1. PICK c \in Nat : Moves(c, 0, 0, c) /\ Adds(c, c, 0)
    BY <1>5, CreditBooks
  <2>2. acct'.available = acct.available + 0 /\ acct'.withdrawn = acct.withdrawn /\ MaturedSum' = MaturedSum + 0
    BY <1>1, <2>1 DEF Moves, Adds
  <2> QED
    BY <1>3, <1>5, <2>2, CreditBooks
<1>6. ASSUME NEW w \in Workers, ClawbackWrite(w) PROVE Covered'
  <2>1. UNCHANGED <<payouts, call, overtaken>> /\ MaturedSum' = MaturedSum + 0
    BY <1>1, <1>6, ClawbackBooks
  <2>2. PICK c \in Nat : Moves(-c, 0, 0, -c) \/ Moves(0, -c, 0, -c)
    BY <1>6, ClawbackBooks
  <2>3. /\ -c \in Int /\ -c <= 0 /\ acct'.withdrawn = acct.withdrawn
        /\ acct'.available = acct.available + 0 \/ acct'.available = acct.available + (-c)
    BY <1>1, <2>2 DEF Moves
  <2> QED
    BY <1>3, <2>1, <2>3
<1>7. ASSUME NEW w \in Workers, NEW o \in ReferredOrders, MatureOne(w, o) PROVE Covered'
  <2>1. PICK c \in Nat : Moves(-c, c, 0, 0) /\ Adds(-c, 0, c)
    BY <1>7, MatureBooks
  <2>2. acct'.available = acct.available + c /\ acct'.withdrawn = acct.withdrawn /\ MaturedSum' = MaturedSum + c
    BY <1>1, <2>1 DEF Moves, Adds
  <2>3. c \in Int /\ c <= c /\ UNCHANGED <<payouts, call, overtaken>>
    BY <1>7, MatureBooks
  <2> QED
    BY <1>3, <2>2, <2>3
<1>8. ASSUME NEW o \in ReferredOrders, HoldElapses(o) PROVE Covered'
  <2>1. UNCHANGED <<acct, payouts, call, overtaken>> /\ MaturedSum' = MaturedSum + 0
    BY <1>8, HoldBooks DEF Adds
  <2>2. acct'.available = acct.available + 0
    BY <1>1, <2>1
  <2> QED
    BY <1>3, <2>1, <2>2
<1>9. ASSUME NEW c \in Callers, NEW p \in Payouts, PayoutWrite(c, p) PROVE Covered'
  <2> DEFINE m == call[c].amt
  <2>1. /\ m \in Nat /\ call[c].pc = "request" /\ Moves(0, -m, 0, 0) /\ AskedSum' = AskedSum + m /\ UNCHANGED ref
        /\ \A d \in Callers : call'[d].pc = "request" => call'[d].late
    BY <1>9, RequestBooks
  <2>2. MaturedSum' = MaturedSum
    BY <1>1, <2>1, SumsOfTheSame DEF Adds
  <2>3. /\ "decision" \notin overtaken' => "decision" \notin overtaken
        /\ overtaken' = {} => overtaken = {} /\ ~call[c].late
    BY <1>9 DEF PayoutWrite
  <2>4. overtaken' = {} => acct.withdrawn + AskedSum + m <= MaturedSum
    BY <2>1, <2>3 DEF Covered
  <2> HIDE DEF m
  <2>5. acct'.available = acct.available - m /\ acct'.withdrawn = acct.withdrawn
    BY <1>1, <2>1 DEF Moves
  <2>6. /\ "decision" \notin overtaken' => acct'.available + acct'.withdrawn + AskedSum' <= MaturedSum'
        /\ overtaken' = {} => acct'.withdrawn + AskedSum' <= MaturedSum'
    BY <1>1, <2>1, <2>2, <2>3, <2>4, <2>5 DEF Covered
  <2> QED
    BY <2>1, <2>6 DEF Covered
<1>10. ASSUME NEW a \in Admins, ProcessWrite(a) PROVE Covered'
  <2>0. SUFFICES ASSUME "decision" \notin overtaken' PROVE Covered'
    BY DEF Covered
  <2>1. PICK m \in Nat : AskedSum' = AskedSum - m /\ (Moves(0, 0, m, 0) \/ Moves(0, m, 0, 0))
    BY <1>10, <2>0, DecisionBooks
  <2>2. UNCHANGED <<ref, call>> /\ "decision" \notin overtaken /\ (overtaken' = {} => overtaken = {})
    BY <1>10, <2>0, DecisionBooks DEF ProcessWrite
  <2>3. MaturedSum' = MaturedSum
    BY <1>1, <2>2, SumsOfTheSame DEF Adds
  <2>4. \/ acct'.available = acct.available /\ acct'.withdrawn = acct.withdrawn + m
        \/ acct'.available = acct.available + m /\ acct'.withdrawn = acct.withdrawn
    BY <1>1, <2>1 DEF Moves
  <2>5. /\ acct'.available + acct'.withdrawn + AskedSum' = acct.available + acct.withdrawn + AskedSum
        /\ acct'.withdrawn + AskedSum' <= acct.withdrawn + AskedSum
    BY <1>1, <2>1, <2>4
  <2>6. AskedSum' \in Int /\ acct'.withdrawn \in Int
    BY <1>1, <2>1, <2>4
  <2> QED
    BY <1>1, <1>2, <2>2, <2>3, <2>5, <2>6 DEF Covered
<1> QED
    BY <1>4, <1>5, <1>6, <1>7, <1>8, <1>9, <1>10, StepsOfTheBooks

-----------------------------------------------------------------------------
\* At first nothing was written and nothing is owed.
LEMMA BooksInitially ==
    ASSUME AffiliateInit
    PROVE  RowsInUse /\ EarnedIsAccountedFor /\ Covered
<1>1. /\ {o \in ReferredOrders : ref[o].st # "none"} = {} /\ {p \in Payouts : payouts[p].st # "none"} = {}
      /\ \A o \in ReferredOrders : ref[o].approved = FALSE
    BY DEF AffiliateInit, NoReferral, NoPayout
<1>2. RowsInUse
    BY <1>1, FS_EmptySet DEF RowsInUse
<1>3. Matured = {} /\ PayoutsIn({"REQUESTED"}) = {}
    BY <1>1 DEF Matured, PayoutsIn
<1>4. MaturedSum = 0 /\ AskedSum = 0
    BY <1>3, FS_EmptySet, SumStarts DEF MaturedSum, AskedSum, CommissionOf, PayoutsOf
<1>5. acct.pending = 0 /\ acct.available = 0 /\ acct.withdrawn = 0 /\ acct.earned = 0
    BY DEF AffiliateInit
<1>6. EarnedIsAccountedFor
    BY <1>4, <1>5 DEF EarnedIsAccountedFor, AskedSum
<1>7. \A c \in Callers : call[c].pc = "idle"
    BY DEF AffiliateInit, Idle
<1>8. Covered
    BY <1>4, <1>5, <1>7 DEF Covered
<1> QED
    BY <1>2, <1>6, <1>7, <1>8

LEMMA RowsInUseAlways == AffiliateSpec => []RowsInUse
<1>1. AffiliateTypeOK /\ AffiliateTypeOK' /\ RowsInUse /\ [AffiliateNext]_affiliateVars => RowsInUse'
    BY ReferralBooks
<1> QED
    BY <1>1, BooksInitially, AffiliateTypeCorrect, PTL DEF AffiliateSpec

\* With any number of workers, callers and administrators, only a claw-back that is stale
\* drives the pending or the earned balance away from the referrals it stands for.
THEOREM OnlyStaleClawbacks == AffiliateSpec => OnlyStaleClawbacksBreakTheBooks
<1>1. AffiliateTypeOK /\ AffiliateTypeOK' /\ RowsInUse /\ [AffiliateNext]_affiliateVars =>
        [(PendingBooks' = PendingBooks /\ EarnedBooks' = EarnedBooks) \/ StaleClawback]_affiliateVars
    BY ReferralBooks
<1> QED
    BY <1>1, RowsInUseAlways, AffiliateTypeCorrect, PTL DEF AffiliateSpec, OnlyStaleClawbacksBreakTheBooks

\* For any number of workers, requests and administrators the account keeps its shape; what
\* was earned is pending, available, asked for or withdrawn until one decision of a payout
\* overtakes another; and nothing is paid out that did not mature until a request does, too.
THEOREM BooksAlwaysHold == AffiliateSpec => []BooksHold
<1> DEFINE Accounted == "decision" \notin overtaken => EarnedIsAccountedFor
           I == Accounted /\ Covered
<1>1. AffiliateInit => I
    BY BooksInitially
<1>2. AffiliateTypeOK /\ AffiliateTypeOK' /\ RowsInUse /\ I /\ [AffiliateNext]_affiliateVars => I'
  <2> SUFFICES ASSUME AffiliateTypeOK, AffiliateTypeOK', RowsInUse, I, [AffiliateNext]_affiliateVars PROVE I'
    OBVIOUS
  <2>1. "decision" \notin overtaken' => "decision" \notin overtaken
    BY HistoryStays
  <2>2. Accounted'
    BY <2>1, EarnedStep
  <2> QED
    BY <2>2, CoveredStep
<1>3. AffiliateTypeOK /\ I => BooksHold
    BY DEF BooksHold, PaidOutOfEarnings, Covered, AskedSum, MaturedSum, Matured
<1> HIDE DEF I
<1> QED
    BY <1>1, <1>2, <1>3, RowsInUseAlways, AffiliateTypeCorrect, PTL DEF AffiliateSpec

-----------------------------------------------------------------------------
(***************************************************************************)
(* Memberships                                                             *)
(***************************************************************************)

\* A subscription that has been in force and is not: it never is again.
Over(u) == sub[u] \in {"PAST_DUE", "CANCELED"}

\* Whatever a checkout found when it began was over by then; and a canceled subscription
\* gives nothing.
MembersInv ==
    /\ \A s \in Subs : \A u \in before[s] : Over(u)
    /\ \A t \in MemberTasks : memberTask[t].op = "checkout" => \A u \in memberTask[t].seen : Over(u)
    /\ \A s \in Subs : sub[s] = "CANCELED" => member[s] # "ACTIVE"

MembershipsInv == MembershipsTypeOK /\ MembersInv

MemberTaskForms == [op : {"checkout"}, seen : SUBSET Subs] \cup [op : {"cancel"}, s : Subs]

LEMMA MembershipsInitially == MembershipsInit => MembershipsInv
<1> SUFFICES ASSUME MembershipsInit PROVE MembershipsInv
    OBVIOUS
<1>1. PICK imported \in SUBSET Subs :
         /\ sub = [s \in Subs |-> IF s \in imported THEN "ACTIVE" ELSE "none"]
         /\ member = sub
         /\ atEnd = [s \in Subs |-> s \in imported]
    BY DEF MembershipsInit
<1>2. sub \in [Subs -> {"none", "ACTIVE"}] /\ member \in [Subs -> {"none", "ACTIVE"}] /\ atEnd \in [Subs -> BOOLEAN]
    BY <1>1
<1>3. planActive \in BOOLEAN /\ past \in [Subs -> BOOLEAN]
    BY DEF MembershipsInit
<1>4. before \in [Subs -> SUBSET Subs] /\ batch \in [MemberWorkers -> SUBSET Subs]
      /\ memberTask \in [MemberTasks -> {NoMemberTask}] /\ \A s \in Subs : before[s] = {}
    BY DEF MembershipsInit
<1>5. memberFaults \in 0 .. MaxMemberFaults
    BY MembershipsAssumption DEF MembershipsInit
<1>6. MembershipsTypeOK
    BY <1>2, <1>3, <1>4, <1>5 DEF MembershipsTypeOK
<1>7. MembersInv
    BY <1>2, <1>4 DEF MembersInv, NoMemberTask
<1> QED
    BY <1>6, <1>7 DEF MembershipsInv

\* A subscription that is over stays so as long as only ACTIVE ones, or ones to cancel, are written.
LEMMA OverStaysOver ==
    ASSUME MembershipsInv, NEW s \in Subs, NEW st \in {"ACTIVE", "PAST_DUE", "CANCELED"},
           NEW m \in {"none", "ACTIVE", "EXPIRED", "REVOKED"},
           sub' = [sub EXCEPT ![s] = st], member' = [member EXCEPT ![s] = m],
           st = "ACTIVE" => sub[s] = "none", st = "CANCELED" => m # "ACTIVE",
           sub[s] = "CANCELED" => st = "CANCELED"
    PROVE  /\ sub' \in [Subs -> {"none", "ACTIVE", "PAST_DUE", "CANCELED"}]
           /\ member' \in [Subs -> {"none", "ACTIVE", "EXPIRED", "REVOKED"}]
           /\ \A u \in Subs : Over(u) => Over(u)'
           /\ \A u \in Subs : sub'[u] = "CANCELED" => member'[u] # "ACTIVE"
           /\ \A u \in Subs : sub[u] = "CANCELED" => sub'[u] = "CANCELED"
BY DEF MembershipsInv, MembershipsTypeOK, MembersInv, Over

\* What a step says of the statuses; a step is of one of these kinds.
StatusesKept ==
    /\ \A u \in Subs : Over(u) => Over(u)'
    /\ \A u \in Subs : sub[u] = "CANCELED" => sub'[u] = "CANCELED"
    /\ \A u \in Subs : sub'[u] = "CANCELED" => member'[u] # "ACTIVE"
    /\ sub' \in [Subs -> {"none", "ACTIVE", "PAST_DUE", "CANCELED"}]
    /\ member' \in [Subs -> {"none", "ACTIVE", "EXPIRED", "REVOKED"}]

LEMMA StatusSteps ==
    ASSUME MembershipsInv, [MembershipsNext]_memberVars
    PROVE  StatusesKept
<1>1. MembershipsTypeOK /\ MembersInv
    BY DEF MembershipsInv
<1>2. CASE UNCHANGED <<sub, member>>
    BY <1>1, <1>2 DEF StatusesKept, Over, MembershipsTypeOK, MembersInv
<1>3. ASSUME NEW s \in Subs, ExpireMember(s) \/ RevokeMember(s) PROVE StatusesKept
    BY <1>1, <1>3 DEF ExpireMember, RevokeMember, StatusesKept, Over, MembershipsTypeOK, MembersInv
<1>4. ASSUME NEW t \in MemberTasks, NEW s \in Subs, CreateSubscription(t, s) PROVE StatusesKept
    BY <1>4, OverStaysOver DEF CreateSubscription, StatusesKept
<1>5. ASSUME NEW t \in MemberTasks, CancelAdminSubscription(t) PROVE StatusesKept
  <2> DEFINE s == memberTask[t].s
  <2>1. s \in Subs
      BY <1>1, <1>5 DEF CancelAdminSubscription, MembershipsTypeOK, NoMemberTask
  <2>2. /\ sub' = [sub EXCEPT ![s] = "CANCELED"] /\ member' = [member EXCEPT ![s] = Revoked(s)]
        /\ Revoked(s) \in {"none", "EXPIRED", "REVOKED"}
      BY <1>1, <1>5, <2>1 DEF CancelAdminSubscription, Revoked, MembershipsTypeOK
  <2> HIDE DEF s
  <2> QED
      BY <2>1, <2>2, OverStaysOver DEF StatusesKept
<1>6. ASSUME NEW w \in MemberWorkers, NEW s \in Subs, ReconcileSub(w, s) PROVE StatusesKept
  <2>1. CASE sub[s] # "ACTIVE"
      BY <1>2, <1>6, <2>1 DEF ReconcileSub
  <2>2. CASE sub[s] = "ACTIVE" /\ atEnd[s]
    <3>1. /\ sub' = [sub EXCEPT ![s] = "CANCELED"] /\ member' = [member EXCEPT ![s] = Revoked(s)]
          /\ Revoked(s) \in {"none", "EXPIRED", "REVOKED"}
        BY <1>1, <1>6, <2>2 DEF ReconcileSub, TargetStatus, Revoked, MembershipsTypeOK
    <3> QED
        BY <3>1, OverStaysOver DEF StatusesKept
  <2>3. CASE sub[s] = "ACTIVE" /\ ~atEnd[s]
    <3>1. /\ sub' = [sub EXCEPT ![s] = "PAST_DUE"] /\ member' = [member EXCEPT ![s] = member[s]]
          /\ member[s] \in {"none", "ACTIVE", "EXPIRED", "REVOKED"}
        BY <1>1, <1>6, <2>3 DEF ReconcileSub, TargetStatus, MembershipsTypeOK
    <3> QED
        BY <2>3, <3>1, OverStaysOver DEF StatusesKept
  <2> QED
      BY <2>1, <2>2, <2>3
<1>7. CASE \/ UpdateAdminPlan \/ UNCHANGED memberVars \/ \E s \in Subs : PeriodEnds(s)
           \/ \E t \in MemberTasks : BeginCheckout(t) \/ RequestDies(t) \/ \E s \in Subs : BeginCancel(t, s)
           \/ \E w \in MemberWorkers : BeginReconcile(w) \/ ReconcilerDies(w) \/ \E s \in Subs : ReconcileFails(w, s)
    BY <1>2, <1>7 DEF UpdateAdminPlan, memberVars, PeriodEnds, BeginCheckout, RequestDies, BeginCancel, Reads,
                      BeginReconcile, ReconcilerDies, ReconcileFails
<1> QED
    BY <1>3, <1>4, <1>5, <1>6, <1>7 DEF MembershipsNext

\* The variables that hold no status of a subscription.
LEMMA RestSteps ==
    ASSUME MembershipsInv, [MembershipsNext]_memberVars, StatusesKept
    PROVE  /\ planActive' \in BOOLEAN /\ atEnd' \in [Subs -> BOOLEAN] /\ past' \in [Subs -> BOOLEAN]
           /\ batch' \in [MemberWorkers -> SUBSET Subs] /\ memberFaults' \in 0 .. MaxMemberFaults
           /\ before' \in [Subs -> SUBSET Subs]
           /\ memberTask' \in [MemberTasks -> {NoMemberTask} \cup MemberTaskForms]
           /\ \A s \in Subs : \A u \in before'[s] : Over(u)
           /\ \A t \in MemberTasks : memberTask'[t].op = "checkout" => \A u \in memberTask'[t].seen : Over(u)
<1> USE MembershipsAssumption
<1>1. MembershipsTypeOK /\ MembersInv
    BY DEF MembershipsInv
<1>2. planActive' \in BOOLEAN /\ atEnd' \in [Subs -> BOOLEAN] /\ past' \in [Subs -> BOOLEAN]
  <2>1. planActive' \in {planActive, ~planActive} /\ UNCHANGED atEnd
        /\ (UNCHANGED past \/ \E s \in Subs : past' = [past EXCEPT ![s] = TRUE])
      BY DEF MembershipsNext, memberVars, UpdateAdminPlan, PeriodEnds, ExpireMember, RevokeMember, BeginCheckout, Reads,
             CancelAdminSubscription, RequestDies, CreateSubscription, BeginCancel, BeginReconcile, ReconcilerDies,
             ReconcileSub, ReconcileFails, NextRow
  <2> QED
      BY <1>1, <2>1 DEF MembershipsTypeOK
<1>3. batch' \in [MemberWorkers -> SUBSET Subs] /\ memberFaults' \in 0 .. MaxMemberFaults
  <2>1. /\ UNCHANGED batch \/ \E w \in MemberWorkers, b \in SUBSET Subs : batch' = [batch EXCEPT ![w] = b]
        /\ memberFaults' = memberFaults \/ (memberFaults < MaxMemberFaults /\ memberFaults' = memberFaults + 1)
    <3>1. DueSubs \subseteq Subs /\ \A w \in MemberWorkers : batch[w] \subseteq Subs
        BY <1>1 DEF DueSubs, Current, MembershipsTypeOK
    <3>2. CASE UNCHANGED batch
        BY <3>2 DEF MembershipsNext, memberVars, UpdateAdminPlan, PeriodEnds, ExpireMember, RevokeMember, BeginCheckout, Reads,
             CancelAdminSubscription, RequestDies, CreateSubscription, BeginCancel, BeginReconcile, ReconcilerDies,
             ReconcileSub, ReconcileFails, NextRow
    <3>3. ASSUME NEW w \in MemberWorkers, BeginReconcile(w) \/ ReconcilerDies(w)
                                          \/ \E s \in Subs : ReconcileSub(w, s) \/ ReconcileFails(w, s)
          PROVE  /\ \E b \in SUBSET Subs : batch' = [batch EXCEPT ![w] = b]
                 /\ memberFaults' = memberFaults \/ (memberFaults < MaxMemberFaults /\ memberFaults' = memberFaults + 1)
        BY <3>1, <3>3 DEF BeginReconcile, ReconcilerDies, ReconcileSub, ReconcileFails, NextRow
    <3>4. UNCHANGED batch \/ \E w \in MemberWorkers : BeginReconcile(w) \/ ReconcilerDies(w)
                                          \/ \E s \in Subs : ReconcileSub(w, s) \/ ReconcileFails(w, s)
        BY DEF MembershipsNext, memberVars, UpdateAdminPlan, PeriodEnds, ExpireMember, RevokeMember, BeginCheckout, Reads,
             CancelAdminSubscription, RequestDies, CreateSubscription, BeginCancel
    <3> QED
        BY <3>2, <3>3, <3>4
  <2> QED
      BY <1>1, <2>1 DEF MembershipsTypeOK
<1>4. CASE UNCHANGED <<before, memberTask>>
    BY <1>1, <1>2, <1>3, <1>4 DEF MembershipsTypeOK, MembersInv, MemberTaskForms
<1>5. ASSUME NEW t \in MemberTasks, NEW task \in {NoMemberTask} \cup MemberTaskForms,
             memberTask' = [memberTask EXCEPT ![t] = task],
             task.op = "checkout" => \A u \in task.seen : Over(u)
      PROVE  /\ memberTask' \in [MemberTasks -> {NoMemberTask} \cup MemberTaskForms]
             /\ \A q \in MemberTasks : memberTask'[q].op = "checkout" => \A u \in memberTask'[q].seen : Over(u)
    BY <1>1, <1>5 DEF MembershipsTypeOK, MembersInv, MemberTaskForms
<1>6. NoMemberTask.op # "checkout" /\ (UNCHANGED before => before' \in [Subs -> SUBSET Subs]
                                                        /\ \A s \in Subs : \A u \in before'[s] : Over(u))
    BY <1>1 DEF NoMemberTask, MembershipsTypeOK, MembersInv
<1>7. ASSUME NEW t \in MemberTasks, CancelAdminSubscription(t) \/ RequestDies(t)
      PROVE  memberTask' = [memberTask EXCEPT ![t] = NoMemberTask] /\ UNCHANGED before
    BY <1>7 DEF CancelAdminSubscription, RequestDies
<1>8. ASSUME NEW t \in MemberTasks, BeginCheckout(t)
      PROVE  \E task \in MemberTaskForms : /\ memberTask' = [memberTask EXCEPT ![t] = task] /\ UNCHANGED before
                                           /\ task.op = "checkout" => \A u \in task.seen : Over(u)
  <2> DEFINE task == [op |-> "checkout", seen |-> Subscribed]
  <2>1. task \in MemberTaskForms /\ task.seen = Subscribed
      BY DEF MemberTaskForms, Subscribed
  <2>2. memberTask' = [memberTask EXCEPT ![t] = task] /\ UNCHANGED before /\ Current = {}
      BY <1>8 DEF BeginCheckout, Reads
  <2>3. \A u \in Subscribed : Over(u)
      BY <1>1, <2>2 DEF Subscribed, Current, Over, MembershipsTypeOK
  <2> HIDE DEF task
  <2> QED
      BY <2>1, <2>2, <2>3
<1>9. ASSUME NEW t \in MemberTasks, NEW s \in Subs, BeginCancel(t, s)
      PROVE  \E task \in MemberTaskForms : /\ memberTask' = [memberTask EXCEPT ![t] = task] /\ UNCHANGED before
                                           /\ task.op = "checkout" => \A u \in task.seen : Over(u)
  <2> DEFINE task == [op |-> "cancel", s |-> s]
  <2>1. task \in MemberTaskForms /\ task.op # "checkout"
      BY DEF MemberTaskForms
  <2>2. memberTask' = [memberTask EXCEPT ![t] = task] /\ UNCHANGED before
      BY <1>9 DEF BeginCancel, Reads
  <2> HIDE DEF task
  <2> QED
      BY <2>1, <2>2
<1>10. ASSUME NEW t \in MemberTasks, NEW s \in Subs, CreateSubscription(t, s)
       PROVE  /\ memberTask' = [memberTask EXCEPT ![t] = NoMemberTask]
              /\ before' \in [Subs -> SUBSET Subs] /\ \A u \in Subs : \A v \in before'[u] : Over(v)
  <2>1. /\ memberTask[t].op = "checkout" /\ memberTask' = [memberTask EXCEPT ![t] = NoMemberTask]
        /\ before' = [before EXCEPT ![s] = memberTask[t].seen]
      BY <1>10 DEF CreateSubscription
  <2>2. memberTask[t].seen \subseteq Subs /\ \A u \in memberTask[t].seen : Over(u)
      BY <1>1, <2>1 DEF MembershipsTypeOK, MembersInv, NoMemberTask
  <2> QED
      BY <1>1, <2>1, <2>2 DEF MembershipsTypeOK, MembersInv
<1>11. \/ UNCHANGED <<before, memberTask>>
       \/ \E t \in MemberTasks : \/ CancelAdminSubscription(t) \/ RequestDies(t) \/ BeginCheckout(t)
                                 \/ \E s \in Subs : BeginCancel(t, s) \/ CreateSubscription(t, s)
    BY DEF MembershipsNext, memberVars, UpdateAdminPlan, PeriodEnds, ExpireMember, RevokeMember,
           BeginReconcile, ReconcilerDies, ReconcileSub, ReconcileFails, NextRow
<1> QED
    BY <1>2, <1>3, <1>4, <1>5, <1>6, <1>7, <1>8, <1>9, <1>10, <1>11

LEMMA MembershipSteps == MembershipsInv /\ [MembershipsNext]_memberVars => MembershipsInv'
<1> SUFFICES ASSUME MembershipsInv, [MembershipsNext]_memberVars PROVE MembershipsInv'
    OBVIOUS
<1>1. StatusesKept
    BY StatusSteps
<1>2. MembershipsTypeOK'
    BY <1>1, RestSteps DEF MembershipsTypeOK, MemberTaskForms, StatusesKept
<1>3. \A s \in Subs : before'[s] \subseteq Subs
    BY <1>2 DEF MembershipsTypeOK
<1>4. \A t \in MemberTasks : memberTask'[t].op = "checkout" => memberTask'[t].seen \subseteq Subs
    BY <1>2 DEF MembershipsTypeOK, NoMemberTask
<1>5. MembersInv'
    BY <1>1, <1>3, <1>4, RestSteps DEF MembersInv, StatusesKept
<1> QED
    BY <1>2, <1>5 DEF MembershipsInv

\* For any number of subscriptions, requests and workers: a customer has two memberships in
\* force at once only if their checkouts overlapped, and a cancellation is never undone, nor
\* what the subscription gave left in force, although a reconciler read the row before.
THEOREM MembershipsAlwaysHold == MembershipsSpec => MembershipsHold
<1>1. MembershipsInv => NoSecondMembership
    BY DEF MembershipsInv, MembersInv, NoSecondMembership, Over
<1>2. MembershipsInv /\ [MembershipsNext]_memberVars => [CanceledStaysCanceled]_memberVars
    BY StatusSteps DEF StatusesKept, CanceledStaysCanceled
<1>3. MembershipsSpec => []NoSecondMembership /\ [][CanceledStaysCanceled]_memberVars
    BY <1>1, <1>2, MembershipsInitially, MembershipSteps, PTL DEF MembershipsSpec
<1> QED
    BY <1>3 DEF MembershipsHold
=============================================================================
