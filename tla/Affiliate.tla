----------------------------- MODULE Affiliate -----------------------------
(***************************************************************************)
(* The account of one affiliate: referrals credited, matured and clawed    *)
(* back by workers (apps/worker/src/affiliate-processor.ts), payouts       *)
(* requested by the affiliate and decided by administrators                *)
(* (apps/api/src/modules/affiliates/affiliates.service.ts).                *)
(*                                                                         *)
(* Every operation reads outside of its transaction and decides there; the *)
(* transaction then increments or decrements balances.  Only the           *)
(* maturation checks again, by a compare-and-set, what it has read.        *)
(* Accounts share no state, so one is enough; an order here is one that    *)
(* names the affiliate.  The delivery of ORDER_PAID and ORDER_REFUNDED may *)
(* repeat and overlap (see Outbox), so a handler may start at any time.    *)
(***************************************************************************)
EXTENDS Integers, Functions

CONSTANTS
    ReferredOrders, \* orders whose customer an affiliate referred
    OwnOrders,      \* those the affiliate placed, which earn nothing
    OrderTotal,     \* OrderTotal[o]: totalAmount of order o
    Rates,          \* commission rates, in basis points
    PayoutAmounts,  \* amounts a payout request may ask for
    MinPayout,      \* 5000 in the code
    Payouts,        \* bound: ids of the payouts that may be requested
    Workers,        \* worker processes
    Callers,        \* concurrent payout requests of the affiliate
    Admins,         \* concurrent payout decisions of administrators
    MaxFaults       \* bound: crashes and failed transactions of workers

ASSUME AffiliateAssumption ==
    /\ OwnOrders \subseteq ReferredOrders
    /\ OrderTotal \in [ReferredOrders -> Nat]
    /\ Rates \subseteq Nat /\ PayoutAmounts \subseteq Nat /\ MinPayout \in Nat /\ MaxFaults \in Nat

VARIABLES
    acct,      \* the row of affiliate_accounts
    ref,       \* ref[o]: the row of affiliate_referrals of order o (order_id is unique)
    payouts,   \* payouts[p]: rows of affiliate_payouts
    wk,        \* wk[w]: what worker w holds between its read and its transaction
    call,      \* call[c]: the same for a payout request
    adm,       \* adm[a]: the same for the decision of a payout
    faults,    \* how many faults have happened
    overtaken  \* history: the kinds of payout transaction that another of their kind overtook
               \* between their read and their write; nothing in the code reads it

affiliateVars == <<acct, ref, payouts, wk, call, adm, faults, overtaken>>

Idle == [pc |-> "idle"]
NoReferral == [st |-> "none", comm |-> 0, due |-> FALSE, approved |-> FALSE]
NoPayout == [st |-> "none", amt |-> 0]

\* registerAffiliate creates the account active, with zero balances.
AffiliateInit ==
    /\ \E r \in Rates : acct = [active |-> TRUE, rate |-> r, pending |-> 0, available |-> 0,
                             withdrawn |-> 0, earned |-> 0]
    /\ ref = [o \in ReferredOrders |-> NoReferral]
    /\ payouts = [p \in Payouts |-> NoPayout]
    /\ wk = [w \in Workers |-> Idle]
    /\ call = [c \in Callers |-> Idle]
    /\ adm = [a \in Admins |-> Idle]
    /\ faults = 0
    /\ overtaken = {}

-----------------------------------------------------------------------------
(***************************************************************************)
(* Pure functions of the domain engine                                     *)
(***************************************************************************)
\* Half-up rounding of total * rate / 10000, never more than the total.
Commission(total, rate) ==
    LET raw == (2 * total * rate + 10000) \div 20000
    IN  IF total <= 0 \/ rate <= 0 THEN 0 ELSE IF raw <= total THEN raw ELSE total

\* No code path sets PAID.
ReferralTransitions ==
    {<<"PENDING", "APPROVED">>, <<"PENDING", "REJECTED">>, <<"APPROVED", "PAID">>, <<"APPROVED", "REJECTED">>}

\* No code path sets PROCESSING.
PayoutTransitions ==
    {"REQUESTED", "PROCESSING"} \X {"COMPLETED", "REJECTED"} \cup {<<"REQUESTED", "PROCESSING">>}

-----------------------------------------------------------------------------
(***************************************************************************)
(* Workers                                                                 *)
(***************************************************************************)
\* The reads before the transaction: the account is active, the buyer is somebody
\* else, no referral exists yet.  The rate is the one of this moment.
CreditRead(w, o) ==
    /\ wk[w].pc = "idle"
    /\ acct.active /\ o \notin OwnOrders /\ ref[o].st = "none"
    /\ wk' = [wk EXCEPT ![w] = [pc |-> "credit", order |-> o, rate |-> acct.rate]]
    /\ UNCHANGED <<acct, ref, payouts, call, adm, faults, overtaken>>

\* The transaction.  If another worker has inserted the referral in between, the
\* unique index on order_id makes it fail as a whole.
CreditWrite(w) ==
    LET o == wk[w].order
        c == Commission(OrderTotal[o], wk[w].rate)
    IN  /\ wk[w].pc = "credit"
        /\ IF ref[o].st = "none"
           THEN /\ ref' = [ref EXCEPT ![o] = [NoReferral EXCEPT !.st = "PENDING", !.comm = c]]
                /\ acct' = [acct EXCEPT !.pending = @ + c, !.earned = @ + c]
           ELSE UNCHANGED <<ref, acct>>
        /\ wk' = [wk EXCEPT ![w] = Idle]
        /\ UNCHANGED <<payouts, call, adm, faults, overtaken>>

ClawbackRead(w, o) ==
    /\ wk[w].pc = "idle"
    /\ <<ref[o].st, "REJECTED">> \in ReferralTransitions
    /\ wk' = [wk EXCEPT ![w] = [pc |-> "clawback", order |-> o, seen |-> ref[o].st]]
    /\ UNCHANGED <<acct, ref, payouts, call, adm, faults, overtaken>>

\* Mutant: the commission is always taken from the pending balance.
TakeBackPending(seen, c) == [acct EXCEPT !.pending = @ - c, !.earned = @ - c]

\* The account after a claw-back: which balance pays depends on the status read.
TakeBack(seen, c) ==
    IF seen = "PENDING" THEN [acct EXCEPT !.pending = @ - c, !.earned = @ - c]
                        ELSE [acct EXCEPT !.available = @ - c, !.earned = @ - c]

\* The transaction: an unconditional update, decided by the status read before it.
ClawbackWrite(w) ==
    LET o == wk[w].order IN
    /\ wk[w].pc = "clawback"
    /\ ref' = [ref EXCEPT ![o].st = "REJECTED"]
    /\ acct' = TakeBack(wk[w].seen, ref[o].comm)
    /\ wk' = [wk EXCEPT ![w] = Idle]
    /\ UNCHANGED <<payouts, call, adm, faults, overtaken>>

\* reconcileMatureAffiliateReferrals reads a batch (up to 100, more than Orders has).
MatureRead(w) ==
    LET ready == {o \in ReferredOrders : ref[o].st = "PENDING" /\ ref[o].due} IN
    /\ wk[w].pc = "idle"
    /\ ready # {}
    /\ wk' = [wk EXCEPT ![w] = [pc |-> "mature", batch |-> ready]]
    /\ UNCHANGED <<acct, ref, payouts, call, adm, faults, overtaken>>

\* The loop goes on to the next referral, or is done.
NextReferral(w, o) ==
    wk' = [wk EXCEPT ![w] = IF wk[w].batch = {o} THEN Idle ELSE [wk[w] EXCEPT !.batch = @ \ {o}]]

\* Mutant: the maturation does not check the status again.
MatureBlindly(w, o) ==
    /\ wk[w].pc = "mature" /\ o \in wk[w].batch
    /\ ref' = [ref EXCEPT ![o].st = "APPROVED", ![o].approved = TRUE]
    /\ acct' = [acct EXCEPT !.pending = @ - ref[o].comm, !.available = @ + ref[o].comm]
    /\ NextReferral(w, o)
    /\ UNCHANGED <<payouts, call, adm, faults, overtaken>>

\* Mutant: the maturation gives up the whole run without approving anything.
MatureNothing(w, o) ==
    /\ wk[w].pc = "mature" /\ o \in wk[w].batch
    /\ NextReferral(w, o)
    /\ UNCHANGED <<acct, ref, payouts, call, adm, faults, overtaken>>

\* One transaction: the compare-and-set on PENDING and the move between balances.
MatureOne(w, o) ==
    /\ wk[w].pc = "mature" /\ o \in wk[w].batch
    /\ IF ref[o].st = "PENDING"
       THEN /\ ref' = [ref EXCEPT ![o].st = "APPROVED", ![o].approved = TRUE]
            /\ acct' = [acct EXCEPT !.pending = @ - ref[o].comm, !.available = @ + ref[o].comm]
       ELSE UNCHANGED <<ref, acct>>
    /\ NextReferral(w, o)
    /\ UNCHANGED <<payouts, call, adm, faults, overtaken>>

\* An error of one referral is logged, and the loop goes on.
MatureFails(w, o) ==
    /\ wk[w].pc = "mature" /\ o \in wk[w].batch
    /\ faults < MaxFaults
    /\ faults' = faults + 1
    /\ NextReferral(w, o)
    /\ UNCHANGED <<acct, ref, payouts, call, adm, overtaken>>

\* The process dies, or a transaction fails and the event is left to the outbox.
Fault(w) ==
    /\ wk[w].pc # "idle"
    /\ faults < MaxFaults
    /\ faults' = faults + 1
    /\ wk' = [wk EXCEPT ![w] = Idle]
    /\ UNCHANGED <<acct, ref, payouts, call, adm, overtaken>>

\* The 30 days of the hold pass.
HoldElapses(o) ==
    /\ ref[o].st = "PENDING" /\ ~ref[o].due
    /\ ref' = [ref EXCEPT ![o].due = TRUE]
    /\ UNCHANGED <<acct, payouts, wk, call, adm, faults, overtaken>>

-----------------------------------------------------------------------------
(***************************************************************************)
(* Payouts                                                                 *)
(***************************************************************************)
\* Mutant: the available balance is not looked at.
PayoutReadUnchecked(c, amt) ==
    /\ call[c].pc = "idle"
    /\ acct.active /\ amt >= MinPayout
    /\ call' = [call EXCEPT ![c] = [pc |-> "request", amt |-> amt, late |-> FALSE]]
    /\ UNCHANGED <<acct, ref, payouts, wk, adm, faults, overtaken>>

PayoutRead(c, amt) ==
    /\ call[c].pc = "idle"
    /\ acct.active /\ amt >= MinPayout /\ acct.available >= amt
    /\ call' = [call EXCEPT ![c] = [pc |-> "request", amt |-> amt, late |-> FALSE]]
    /\ UNCHANGED <<acct, ref, payouts, wk, adm, faults, overtaken>>

\* The request of c has been written, and every other that was read before is late now;
\* late is history as well.
Overtakes(c) ==
    call' = [d \in Callers |-> IF d = c \/ call[d].pc = "idle" THEN Idle ELSE [call[d] EXCEPT !.late = TRUE]]

\* The transaction deducts without checking again.
PayoutWrite(c, p) ==
    /\ call[c].pc = "request"
    /\ payouts[p].st = "none"
    /\ payouts' = [payouts EXCEPT ![p] = [st |-> "REQUESTED", amt |-> call[c].amt]]
    /\ acct' = [acct EXCEPT !.available = @ - call[c].amt]
    /\ Overtakes(c)
    /\ overtaken' = overtaken \cup {k \in {"request"} : call[c].late}
    /\ UNCHANGED <<ref, wk, adm, faults>>

ProcessRead(a, p, to) ==
    /\ adm[a].pc = "idle"
    /\ <<payouts[p].st, to>> \in PayoutTransitions
    /\ adm' = [adm EXCEPT ![a] = [pc |-> "process", payout |-> p, to |-> to]]
    /\ UNCHANGED <<acct, ref, payouts, wk, call, faults, overtaken>>

Settle(to, amt) == IF to = "COMPLETED" THEN [acct EXCEPT !.withdrawn = @ + amt]
                                       ELSE [acct EXCEPT !.available = @ + amt]

\* The payout that a is about to decide has been decided since it was read.
DecidedBefore(a) == <<payouts[adm[a].payout].st, adm[a].to>> \notin PayoutTransitions

\* The transaction of processAdminPayout: again an unconditional update.
ProcessWrite(a) ==
    LET p == adm[a].payout IN
    /\ adm[a].pc = "process"
    /\ payouts' = [payouts EXCEPT ![p].st = adm[a].to]
    /\ acct' = Settle(adm[a].to, payouts[p].amt)
    /\ adm' = [adm EXCEPT ![a] = Idle]
    /\ overtaken' = overtaken \cup {k \in {"decision"} : DecidedBefore(a)}
    /\ UNCHANGED <<ref, wk, call, faults>>

UpdateAdminAffiliateStatus(active) ==
    /\ acct' = [acct EXCEPT !.active = active]
    /\ UNCHANGED <<ref, payouts, wk, call, adm, faults, overtaken>>

UpdateAdminAffiliateCommission(rate) ==
    /\ acct' = [acct EXCEPT !.rate = rate]
    /\ UNCHANGED <<ref, payouts, wk, call, adm, faults, overtaken>>

-----------------------------------------------------------------------------
Work(w) == CreditWrite(w) \/ ClawbackWrite(w) \/ \E o \in ReferredOrders : MatureOne(w, o)

AffiliateNext ==
    \/ \E w \in Workers : \/ Work(w) \/ MatureRead(w) \/ Fault(w)
                          \/ \E o \in ReferredOrders : CreditRead(w, o) \/ ClawbackRead(w, o) \/ MatureFails(w, o)
    \/ \E o \in ReferredOrders : HoldElapses(o)
    \/ \E c \in Callers : \/ \E amt \in PayoutAmounts : PayoutRead(c, amt)
                          \/ \E p \in Payouts : PayoutWrite(c, p)
    \/ \E a \in Admins : \/ \E p \in Payouts, to \in {"COMPLETED", "REJECTED"} : ProcessRead(a, p, to)
                         \/ ProcessWrite(a)
    \/ \E b \in BOOLEAN : UpdateAdminAffiliateStatus(b)
    \/ \E r \in Rates : UpdateAdminAffiliateCommission(r)

AffiliateSpec == AffiliateInit /\ [][AffiliateNext]_affiliateVars

\* A started transaction ends; every tick of a worker reaches the maturation, in
\* between whatever else it does; time passes.
AffiliateFairness ==
    /\ \A w \in Workers : WF_affiliateVars(Work(w)) /\ SF_affiliateVars(MatureRead(w))
    /\ \A o \in ReferredOrders : WF_affiliateVars(HoldElapses(o))

-----------------------------------------------------------------------------
(***************************************************************************)
(* Properties                                                              *)
(***************************************************************************)
Accounts == [active : BOOLEAN, rate : Rates, pending : Int, available : Int, withdrawn : Int, earned : Int]
Referrals == [st : {"none", "PENDING", "APPROVED", "REJECTED"}, comm : Nat, due : BOOLEAN, approved : BOOLEAN]
PayoutRows == [st : {"none", "REQUESTED", "COMPLETED", "REJECTED"}, amt : Nat]
WorkerStates ==
    {Idle} \cup [pc : {"credit"}, order : ReferredOrders \ OwnOrders, rate : Rates]
           \cup [pc : {"clawback"}, order : ReferredOrders \ OwnOrders, seen : {"PENDING", "APPROVED"}]
           \cup [pc : {"mature"}, batch : SUBSET (ReferredOrders \ OwnOrders)]

\* Rows and local states keep their shape; the affiliate's own orders earn nothing.
AffiliateTypeOK ==
    /\ acct \in Accounts
    /\ ref \in [ReferredOrders -> Referrals]
    /\ \A o \in OwnOrders : ref[o] = NoReferral
    /\ payouts \in [Payouts -> PayoutRows]
    /\ wk \in [Workers -> WorkerStates]
    /\ call \in [Callers -> {Idle} \cup [pc : {"request"}, amt : PayoutAmounts, late : BOOLEAN]]
    /\ adm \in [Admins -> {Idle} \cup [pc : {"process"}, payout : Payouts, to : {"COMPLETED", "REJECTED"}]]
    /\ faults \in 0 .. MaxFaults
    /\ overtaken \subseteq {"request", "decision"}

CommissionOf(S) == SumFunctionOnSet([o \in ReferredOrders |-> ref[o].comm], S)
PayoutsOf(S) == SumFunctionOnSet([p \in Payouts |-> payouts[p].amt], S)
ReferralsIn(sts) == {o \in ReferredOrders : ref[o].st \in sts}
PayoutsIn(sts) == {p \in Payouts : payouts[p].st \in sts}

\* What the account says was earned is where the account says it is: pending,
\* available, asked for, or withdrawn.
EarnedIsAccountedFor ==
    acct.earned = acct.pending + acct.available + acct.withdrawn + PayoutsOf(PayoutsIn({"REQUESTED"}))

\* No more is paid out, or about to be, than the referrals that ever matured have earned,
\* whatever is clawed back meanwhile.
PaidOutOfEarnings ==
    acct.withdrawn + PayoutsOf(PayoutsIn({"REQUESTED"})) <= CommissionOf({o \in ReferredOrders : ref[o].approved})

\* The account keeps its shape.  It is in balance until the decision of a payout overtakes
\* another one of the same payout, whatever claw-backs repeat or race a maturation and
\* however many requests there are; and it is not paid out beyond what was earned until
\* such a decision, or a payout request that overtook another, has happened.
BooksHold ==
    /\ AffiliateTypeOK
    /\ "decision" \notin overtaken => EarnedIsAccountedFor
    /\ overtaken = {} => PaidOutOfEarnings

PendingBooks == acct.pending - CommissionOf(ReferralsIn({"PENDING"}))
EarnedBooks == acct.earned - CommissionOf(ReferralsIn({"PENDING", "APPROVED"}))

\* The transaction of a claw-back whose referral has changed since it was read.
StaleClawback ==
    \E w \in Workers : /\ wk[w].pc = "clawback" /\ wk'[w] = Idle
                      /\ ref[wk[w].order].st # wk[w].seen

\* The pending and the earned balance are the sums of the referrals they stand for
\* (initially all are 0), and only a stale claw-back drives them apart: crashes,
\* repeated events and other overlaps of the workers do not.
OnlyStaleClawbacksBreakTheBooks ==
    [][(PendingBooks' = PendingBooks /\ EarnedBooks' = EarnedBooks) \/ StaleClawback]_affiliateVars

Rank(st) == CASE st = "none" -> 0 [] st = "PENDING" -> 1 [] st = "APPROVED" -> 2 [] st = "REJECTED" -> 3

\* A referral never goes back: no maturation revives a rejected one, and no repeated
\* event credits an order a second time or changes its commission.
ReferralsMoveForward ==
    [][\A o \in ReferredOrders : /\ Rank(ref[o].st) <= Rank(ref'[o].st)
                                 /\ ref[o].st # "none" => ref'[o].comm = ref[o].comm]_affiliateVars

\* "Payout state machine strictly enforces one-way finality": the outcome of a payout
\* is final, and so is its amount.
PayoutsAreFinal ==
    [][\A p \in Payouts : /\ payouts[p].st # "none" => payouts'[p].amt = payouts[p].amt
                          /\ payouts[p].st \in {"COMPLETED", "REJECTED"} => payouts'[p] = payouts[p]]_affiliateVars

\* Every referral is released or rejected after its hold, although workers crash in
\* the middle of a batch.
HoldsEnd == \A o \in ReferredOrders : ref[o].st = "PENDING" ~> ref[o].st # "PENDING"

\* "Payout request exceeding available balance strictly rejected": what a new payout
\* asks for is available when it is created.
PayoutIsCovered ==
    [][\A p \in Payouts : payouts[p].st = "none" /\ payouts'[p].st = "REQUESTED"
                              => payouts'[p].amt <= acct.available]_affiliateVars
=============================================================================
