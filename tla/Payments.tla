------------------------------ MODULE Payments ------------------------------
(***************************************************************************)
(* Payment attempts of an order: sessions opened with a payment provider,  *)
(* provider webhooks, active reconciliation and the local test callback    *)
(* (apps/api/src/modules/payments).                                        *)
(*                                                                         *)
(* The database is the shared state.  A request is a process that keeps    *)
(* what it read in local variables between two round trips, so other       *)
(* requests run in between.  A database transaction that locks its rows    *)
(* first (or is a single compare-and-set) is one action.  An exception     *)
(* rolls the transaction back: it changes nothing in the database.         *)
(*                                                                         *)
(* A provider reference is a function of the provider and of the payment:  *)
(* SePay derives its transfer code from the payment id, Stripe is called   *)
(* with an idempotency key derived from it.  So a reference is modelled by *)
(* the name of the provider that issued it, for the payment of its row.    *)
(***************************************************************************)
EXTENDS Integers, FiniteSets

CONSTANTS
    Orders,         \* orders a checkout has created
    PaymentIds,     \* ids of rows of table payments
    Requests,       \* concurrent POST /orders/:id/payment-session calls
    Reconcilers,    \* concurrent reconcilePayment / refreshOwnPayment calls
    TransferIds,    \* bank transfers SePay may ever report (a bound)
    TestEventIds,   \* externalEventIds of the local test callback (a bound)
    Amounts,        \* amounts a transfer may carry
    Total,          \* Total[o]: orders.total_amount, immutable
    First,          \* First[o]: the payment row the checkout of o created
    TestProviderEnabled  \* ENABLE_TEST_PAYMENT_PROVIDER outside production

Providers == {"sepay", "stripe"}
Null == "null"
NoPayment == "no payment"
NoOrder == "no order"
Terminal == {"SUCCEEDED", "FAILED", "CANCELLED"}
StripeKinds == {"completed_paid", "completed_unpaid", "async_succeeded", "async_failed", "expired"}

ASSUME PaymentsAssumption ==
    /\ Amounts \subseteq Nat \ {0}
    /\ Total \in [Orders -> Amounts]
    /\ First \in [Orders -> PaymentIds]
    /\ \A o, q \in Orders : First[o] = First[q] => o = q
    /\ NoPayment \notin PaymentIds /\ NoOrder \notin Orders
    /\ TestProviderEnabled \in BOOLEAN

VARIABLES
    order,      \* order[o]: orders.status
    pay,        \* pay[p]: the row of table payments, or unused
    events,     \* rows of payment_events, unique on <<provider, externalEventId>>
    outbox,     \* ORDER_PAID rows of outbox_events
    anomalies,  \* payments with a DUPLICATE_PAYMENT_DETECTED audit row
    stripe,     \* stripe[p]: Stripe's checkout session for payment p
    emitted,    \* webhook events Stripe has produced, delivered any number of times
    transfers,  \* transfers[t]: an incoming bank transfer, or none yet
    shown,      \* <<payment, provider>>: sessions a customer was given
    req,        \* local state of the session requests
    rec         \* local state of the reconciliations

dbVars  == <<order, pay, events, outbox, anomalies>>
extVars == <<stripe, emitted, transfers>>
vars    == <<order, pay, events, outbox, anomalies, stripe, emitted, transfers, shown, req, rec>>

Unused == [st |-> "UNUSED", ord |-> NoOrder, prov |-> Null, ref |-> Null]
Row(o, prov) == [st |-> "PENDING", ord |-> o, prov |-> prov, ref |-> Null]
Used(p) == pay[p] # Unused
PendingOf(o) == {p \in PaymentIds : Used(p) /\ pay[p].ord = o /\ pay[p].st = "PENDING"}

NoTransfer == [code |-> NoPayment, amt |-> 0]
Evidence(prov, id, p, amt, type) ==
    [prov |-> prov, id |-> id, pay |-> p, amt |-> amt, type |-> type]
NoEvidence == Evidence(Null, <<Null, Null>>, NoPayment, 0, Null)
IdleReq == [pc |-> "idle", ord |-> NoOrder, prov |-> Null, pay |-> NoPayment, ref |-> Null]
IdleRec == [pc |-> "idle", pay |-> NoPayment, ev |-> NoEvidence]

\* The checkout transaction inserts the order and its first payment attempt.
Init ==
    /\ order = [o \in Orders |-> "PENDING_PAYMENT"]
    /\ pay = [p \in PaymentIds |->
                IF \E o \in Orders : First[o] = p
                THEN Row(CHOOSE o \in Orders : First[o] = p,
                         IF TestProviderEnabled THEN "test" ELSE "unassigned")
                ELSE Unused]
    /\ events = {} /\ outbox = {} /\ anomalies = {}
    /\ stripe = [p \in PaymentIds |-> "none"]
    /\ emitted = {}
    /\ transfers = [t \in TransferIds |-> NoTransfer]
    /\ shown = {}
    /\ req = [r \in Requests |-> IdleReq]
    /\ rec = [c \in Reconcilers |-> IdleRec]

-----------------------------------------------------------------------------
(***************************************************************************)
(* createPaymentSession                                                    *)
(***************************************************************************)

\* The order and its payments are read; the pending attempt found there, with
\* its provider and reference, is what the rest of the request works with.
SessionRead(r, o, prov) ==
    /\ req[r].pc = "idle"
    /\ order[o] = "PENDING_PAYMENT"
    /\ \/ /\ PendingOf(o) = {}
          /\ req' = [req EXCEPT ![r] = [IdleReq EXCEPT !.pc = "insert", !.ord = o, !.prov = prov]]
       \/ \E p \in PendingOf(o) :
            req' = [req EXCEPT ![r] = [pc |-> "open", ord |-> o, prov |-> prov,
                                       pay |-> p, ref |-> pay[p].ref]]
    /\ UNCHANGED <<dbVars, extVars, shown, rec>>

\* No pending attempt was read: insert one, without looking at the order again.
\* The partial unique index unique_pending_payment_per_order makes a second
\* insert fail; the request then adopts the row that is there, if it still is.
SessionInsert(r) ==
    /\ req[r].pc = "insert"
    /\ LET o == req[r].ord IN
       \/ /\ PendingOf(o) = {}
          /\ \E p \in PaymentIds :
               /\ pay[p] = Unused
               /\ pay' = [pay EXCEPT ![p] = Row(o, req[r].prov)]
               /\ req' = [req EXCEPT ![r] = [pc |-> "open", ord |-> o, prov |-> req[r].prov,
                                             pay |-> p, ref |-> Null]]
       \/ \E p \in PendingOf(o) :
               /\ req' = [req EXCEPT ![r] = [pc |-> "open", ord |-> o, prov |-> req[r].prov,
                                             pay |-> p, ref |-> pay[p].ref]]
               /\ UNCHANGED pay
    /\ UNCHANGED <<order, events, outbox, anomalies, extVars, shown, rec>>

\* getPaymentSession of the adapter: SePay rebuilds the instructions of a
\* pending payment, Stripe has a URL while its session is open.
SessionAvailable(prov, p) ==
    \/ prov = "sepay" /\ pay[p].prov = "sepay" /\ pay[p].ref = "sepay" /\ pay[p].st = "PENDING"
    \/ prov = "stripe" /\ stripe[p] = "open"

\* The attempt already had a reference: another provider's is a conflict, the
\* same provider's session is looked up and returned, or the call fails.
SessionReuse(r) ==
    /\ req[r].pc = "open"
    /\ req[r].ref # Null
    /\ shown' = IF req[r].ref = req[r].prov /\ SessionAvailable(req[r].prov, req[r].pay)
                THEN shown \cup {<<req[r].pay, req[r].prov>>}
                ELSE shown
    /\ req' = [req EXCEPT ![r] = IdleReq]
    /\ UNCHANGED <<dbVars, extVars, rec>>

\* createPaymentSession of the adapter.  SePay computes the code locally.  Stripe
\* creates a session, or returns the one of an earlier call with the same key.
SessionOpen(r) ==
    /\ req[r].pc = "open"
    /\ req[r].ref = Null
    /\ stripe' = IF req[r].prov = "stripe" /\ stripe[req[r].pay] = "none"
                 THEN [stripe EXCEPT ![req[r].pay] = "open"]
                 ELSE stripe
    /\ req' = [req EXCEPT ![r].pc = "claim"]
    /\ UNCHANGED <<dbVars, emitted, transfers, shown, rec>>

\* Mutant: the claim that lost is not compared with the row that won.
SessionClaimUnchecked(r) ==
    /\ req[r].pc = "claim"
    /\ LET p == req[r].pay
           prov == req[r].prov
           claims == pay[p].st = "PENDING" /\ pay[p].ref = Null
       IN /\ pay' = IF claims THEN [pay EXCEPT ![p].prov = prov, ![p].ref = prov] ELSE pay
          /\ shown' = shown \cup {<<p, prov>>}
    /\ req' = [req EXCEPT ![r] = IdleReq]
    /\ UNCHANGED <<order, events, outbox, anomalies, extVars, rec>>

\* Mutant: the claim does not require an unbound row.
SessionClaimRebinds(r) ==
    /\ req[r].pc = "claim"
    /\ LET p == req[r].pay
           prov == req[r].prov
           claims == pay[p].st = "PENDING"
       IN /\ pay' = IF claims THEN [pay EXCEPT ![p].prov = prov, ![p].ref = prov] ELSE pay
          /\ shown' = IF claims THEN shown \cup {<<p, prov>>} ELSE shown
    /\ req' = [req EXCEPT ![r] = IdleReq]
    /\ UNCHANGED <<order, events, outbox, anomalies, extVars, rec>>

\* The claim binds provider and reference with a compare-and-set on a pending,
\* unbound row.  When it finds another state, the request succeeds only if the
\* row is pending and bound to the very session this request opened.
SessionClaim(r) ==
    /\ req[r].pc = "claim"
    /\ LET p == req[r].pay
           prov == req[r].prov
           claims == pay[p].st = "PENDING" /\ pay[p].ref = Null
           same == pay[p].st = "PENDING" /\ pay[p].prov = prov /\ pay[p].ref = prov
       IN /\ pay' = IF claims THEN [pay EXCEPT ![p].prov = prov, ![p].ref = prov] ELSE pay
          /\ shown' = IF claims \/ same THEN shown \cup {<<p, prov>>} ELSE shown
    /\ req' = [req EXCEPT ![r] = IdleReq]
    /\ UNCHANGED <<order, events, outbox, anomalies, extVars, rec>>

\* The API process dies, the provider call fails or the client goes away.
SessionAbort(r) ==
    /\ req[r].pc # "idle"
    /\ req' = [req EXCEPT ![r] = IdleReq]
    /\ UNCHANGED <<dbVars, extVars, shown, rec>>

-----------------------------------------------------------------------------
(***************************************************************************)
(* processAuthoritativePaymentEvent: one transaction that locks the        *)
(* payment, then the order.  e is the evidence.                            *)
(***************************************************************************)

Accepts(e) ==
    /\ Used(e.pay)
    /\ pay[e.pay].prov = e.prov
    /\ pay[e.pay].ref = e.prov
    /\ Total[pay[e.pay].ord] = e.amt

AlreadyRecorded(e) == \E x \in events : x.prov = e.prov /\ x.id = e.id

\* The insert of the payment_events row common to every outcome below.
Record(e) ==
    /\ Accepts(e)
    /\ ~AlreadyRecorded(e)
    /\ events' = events \cup {[prov |-> e.prov, id |-> e.id, pay |-> e.pay, type |-> e.type]}

LateEvent(e) ==
    /\ Record(e)
    /\ pay[e.pay].st # "PENDING"
    /\ UNCHANGED <<order, pay, outbox, anomalies>>

\* Mutant: the order is opened again for another attempt.
AttemptEndsReopens(e) ==
    /\ Record(e)
    /\ pay[e.pay].st = "PENDING"
    /\ e.type \in {"FAILED", "CANCELLED"}
    /\ pay' = [pay EXCEPT ![e.pay].st = e.type]
    /\ order' = [order EXCEPT ![pay[e.pay].ord] = "PENDING_PAYMENT"]
    /\ UNCHANGED <<outbox, anomalies>>

\* A failed or expired attempt leaves the order open for another attempt.
AttemptEnds(e) ==
    /\ Record(e)
    /\ pay[e.pay].st = "PENDING"
    /\ e.type \in {"FAILED", "CANCELLED"}
    /\ pay' = [pay EXCEPT ![e.pay].st = e.type]
    /\ UNCHANGED <<order, outbox, anomalies>>

\* Mutant: a payment of an order that is already PAID announces it once more.
AttemptSucceedsTwice(e) ==
    /\ Record(e)
    /\ pay[e.pay].st = "PENDING"
    /\ e.type = "SUCCEEDED"
    /\ LET o == pay[e.pay].ord IN
       /\ order[o] \in {"PENDING_PAYMENT", "PAID"}
       /\ pay' = [pay EXCEPT ![e.pay].st = "SUCCEEDED"]
       /\ order' = [order EXCEPT ![o] = "PAID"]
       /\ outbox' = outbox \cup {[ord |-> o, pay |-> e.pay]}
       /\ UNCHANGED anomalies

\* Mutant: a payment of an order that is already PAID leaves no audit row.
AttemptSucceedsSilently(e) ==
    /\ Record(e)
    /\ pay[e.pay].st = "PENDING"
    /\ e.type = "SUCCEEDED"
    /\ LET o == pay[e.pay].ord IN
       /\ order[o] \in {"PENDING_PAYMENT", "PAID"}
       /\ pay' = [pay EXCEPT ![e.pay].st = "SUCCEEDED"]
       /\ \/ order[o] = "PAID" /\ UNCHANGED <<order, outbox>>
          \/ /\ order[o] = "PENDING_PAYMENT"
             /\ order' = [order EXCEPT ![o] = "PAID"]
             /\ outbox' = outbox \cup {[ord |-> o, pay |-> e.pay]}
       /\ UNCHANGED anomalies

\* The payment of an order that is already PAID is kept and flagged; the first
\* one marks the order and inserts its ORDER_PAID event.
AttemptSucceeds(e) ==
    /\ Record(e)
    /\ pay[e.pay].st = "PENDING"
    /\ e.type = "SUCCEEDED"
    /\ LET o == pay[e.pay].ord IN
       /\ order[o] \in {"PENDING_PAYMENT", "PAID"}
       /\ pay' = [pay EXCEPT ![e.pay].st = "SUCCEEDED"]
       /\ \/ /\ order[o] = "PAID"
             /\ anomalies' = anomalies \cup {e.pay}
             /\ UNCHANGED <<order, outbox>>
          \/ /\ order[o] = "PENDING_PAYMENT"
             /\ order' = [order EXCEPT ![o] = "PAID"]
             /\ outbox' = outbox \cup {[ord |-> o, pay |-> e.pay]}
             /\ UNCHANGED anomalies

ProcessAuthoritativePaymentEvent(e) == LateEvent(e) \/ AttemptEnds(e) \/ AttemptSucceeds(e)

\* The transaction returns early (a duplicate) or throws: nothing is written.
NoMutation(e) ==
    \/ ~Accepts(e)
    \/ AlreadyRecorded(e)
    \/ /\ pay[e.pay].st = "PENDING" /\ e.type = "SUCCEEDED"
       /\ order[pay[e.pay].ord] \notin {"PENDING_PAYMENT", "PAID"}

\* Mutant: the settlement of a delayed payment method is not recognised.
StripeEvidenceNoAsync(m) ==
    Evidence("stripe", <<m.pay, m.kind>>, m.pay, Total[pay[m.pay].ord],
             CASE m.kind = "completed_paid" -> "SUCCEEDED"
               [] m.kind = "async_failed" -> "FAILED"
               [] m.kind = "expired" -> "CANCELLED"
               [] OTHER -> "ignored")

\* Mutant: a completed session counts as paid whatever its payment_status.
StripeEvidenceUnpaid(m) ==
    Evidence("stripe", <<m.pay, m.kind>>, m.pay, Total[pay[m.pay].ord],
             CASE m.kind \in {"completed_paid", "completed_unpaid", "async_succeeded"} -> "SUCCEEDED"
               [] m.kind = "async_failed" -> "FAILED"
               [] m.kind = "expired" -> "CANCELLED")

\* parseWebhookEvent: the session names its payment, its order and the amount.  A
\* session completed with a delayed method is unpaid, and its event is ignored.
StripeEvidence(m) ==
    Evidence("stripe", <<m.pay, m.kind>>, m.pay, Total[pay[m.pay].ord],
             CASE m.kind \in {"completed_paid", "async_succeeded"} -> "SUCCEEDED"
               [] m.kind = "async_failed" -> "FAILED"
               [] m.kind = "expired" -> "CANCELLED"
               [] m.kind = "completed_unpaid" -> "ignored")

\* SePay's verifyWebhook: a transfer is matched by code to a payment bound to
\* SePay and its amount must be that payment's; anything else is ignored.
SepayMatch(t, p) ==
    /\ transfers[t].code = p
    /\ Used(p)
    /\ pay[p].prov = "sepay" /\ pay[p].ref = "sepay"
    /\ transfers[t].amt = Total[pay[p].ord]

HandleStripeWebhook(m) ==
    /\ m \in emitted
    /\ StripeEvidence(m).type # "ignored"
    /\ ProcessAuthoritativePaymentEvent(StripeEvidence(m))
    /\ UNCHANGED <<extVars, shown, req, rec>>

HandleSepayWebhook(t) ==
    /\ \E p \in PaymentIds :
         /\ SepayMatch(t, p)
         /\ ProcessAuthoritativePaymentEvent(Evidence("sepay", <<"tx", t>>, p, transfers[t].amt, "SUCCEEDED"))
    /\ UNCHANGED <<extVars, shown, req, rec>>

-----------------------------------------------------------------------------
(***************************************************************************)
(* reconcilePayment (also what a customer's throttled refresh calls)       *)
(***************************************************************************)

ReconcileRead(c, p) ==
    /\ rec[c].pc = "idle"
    /\ Used(p) /\ pay[p].st = "PENDING" /\ pay[p].ref # Null
    /\ rec' = [rec EXCEPT ![c] = [IdleRec EXCEPT !.pc = "query", !.pay = p]]
    /\ UNCHANGED <<dbVars, extVars, shown, req>>

\* What queryPaymentStatus can return for payment p now, as evidence.
QueryResults(p) ==
    IF pay[p].ref = "stripe"
    THEN {Evidence("stripe", <<p, x>>, p, Total[pay[p].ord],
                   IF x = "paid" THEN "SUCCEEDED" ELSE "CANCELLED") :
            x \in {stripe[p]} \cap {"paid", "expired"}}
    ELSE {Evidence("sepay", <<"tx", t>>, p, Total[pay[p].ord], "SUCCEEDED") :
            t \in {u \in TransferIds : SepayMatch(u, p)}}

\* The provider answers with a final status, or with nothing to apply.
ReconcileQuery(c) ==
    /\ rec[c].pc = "query"
    /\ \/ \E e \in QueryResults(rec[c].pay) :
             rec' = [rec EXCEPT ![c].pc = "apply", ![c].ev = e]
       \/ rec' = [rec EXCEPT ![c] = IdleRec]
    /\ UNCHANGED <<dbVars, extVars, shown, req>>

ReconcileApply(c) ==
    /\ rec[c].pc = "apply"
    /\ \/ ProcessAuthoritativePaymentEvent(rec[c].ev)
       \/ NoMutation(rec[c].ev) /\ UNCHANGED dbVars
    /\ rec' = [rec EXCEPT ![c] = IdleRec]
    /\ UNCHANGED <<extVars, shown, req>>

-----------------------------------------------------------------------------
(***************************************************************************)
(* processTestCallback: the signed local callback, blocked in production.  *)
(* It looks at no provider binding and, unlike a webhook, cancels the      *)
(* order with the attempt.                                                 *)
(***************************************************************************)
\* What the end of attempt p does to its order.
TestOutcome(p, type) ==
    LET o == pay[p].ord IN
    \/ /\ type = "SUCCEEDED"
       /\ order[o] = "PENDING_PAYMENT"
       /\ order' = [order EXCEPT ![o] = "PAID"]
       /\ outbox' = outbox \cup {[ord |-> o, pay |-> p]}
    \/ /\ type = "FAILED"
       /\ UNCHANGED <<order, outbox>>
    \/ /\ type = "CANCELLED"
       /\ order' = IF order[o] = "PENDING_PAYMENT" THEN [order EXCEPT ![o] = "CANCELLED"] ELSE order
       /\ UNCHANGED outbox

ProcessTestCallback(id, p, type) ==
    LET e == Evidence("TEST", <<"test", id>>, p, 0, type) IN
    /\ TestProviderEnabled
    /\ Used(p)
    /\ ~AlreadyRecorded(e)
    /\ events' = events \cup {[prov |-> "TEST", id |-> e.id, pay |-> p, type |-> type]}
    /\ \/ /\ pay[p].st # "PENDING"
          /\ UNCHANGED <<order, pay, outbox>>
       \/ /\ pay[p].st = "PENDING"
          /\ pay' = [pay EXCEPT ![p].st = type]
          /\ TestOutcome(p, type)
    /\ UNCHANGED <<anomalies, extVars, shown, req, rec>>

-----------------------------------------------------------------------------
(***************************************************************************)
(* The outside world                                                       *)
(***************************************************************************)

\* A customer who was shown a Stripe session pays it, at once or through a
\* delayed method that later succeeds or fails.
StripePays(p) ==
    /\ <<p, "stripe">> \in shown
    /\ \/ stripe[p] = "open" /\ stripe' = [stripe EXCEPT ![p] = "paid"]
          /\ emitted' = emitted \cup {[pay |-> p, kind |-> "completed_paid"]}
       \/ stripe[p] = "open" /\ stripe' = [stripe EXCEPT ![p] = "processing"]
          /\ emitted' = emitted \cup {[pay |-> p, kind |-> "completed_unpaid"]}
       \/ stripe[p] = "processing" /\ stripe' = [stripe EXCEPT ![p] = "paid"]
          /\ emitted' = emitted \cup {[pay |-> p, kind |-> "async_succeeded"]}
       \/ stripe[p] = "processing" /\ stripe' = [stripe EXCEPT ![p] = "failed"]
          /\ emitted' = emitted \cup {[pay |-> p, kind |-> "async_failed"]}
    /\ UNCHANGED <<dbVars, transfers, shown, req, rec>>

StripeExpires(p) ==
    /\ stripe[p] = "open"
    /\ stripe' = [stripe EXCEPT ![p] = "expired"]
    /\ emitted' = emitted \cup {[pay |-> p, kind |-> "expired"]}
    /\ UNCHANGED <<dbVars, transfers, shown, req, rec>>

\* A bank transfer of some amount carrying a code the customer was shown.
BankTransfer(t, p, amt) ==
    /\ transfers[t] = NoTransfer
    /\ <<p, "sepay">> \in shown
    /\ transfers' = [transfers EXCEPT ![t] = [code |-> p, amt |-> amt]]
    /\ UNCHANGED <<dbVars, stripe, emitted, shown, req, rec>>

-----------------------------------------------------------------------------
Session(r) ==
    \/ \E o \in Orders, prov \in Providers : SessionRead(r, o, prov)
    \/ SessionInsert(r) \/ SessionReuse(r) \/ SessionOpen(r)
    \/ SessionClaim(r) \/ SessionAbort(r)

Reconcile(c) ==
    \/ \E p \in PaymentIds : ReconcileRead(c, p)
    \/ ReconcileQuery(c) \/ ReconcileApply(c)

Webhook ==
    \/ \E m \in emitted : HandleStripeWebhook(m)
    \/ \E t \in TransferIds : HandleSepayWebhook(t)

World ==
    \/ \E p \in PaymentIds : StripePays(p) \/ StripeExpires(p)
    \/ \E t \in TransferIds, p \in PaymentIds, amt \in Amounts : BankTransfer(t, p, amt)

TestCallback ==
    \E id \in TestEventIds, p \in PaymentIds, type \in Terminal : ProcessTestCallback(id, p, type)

Next ==
    \/ \E r \in Requests : Session(r)
    \/ \E c \in Reconcilers : Reconcile(c)
    \/ Webhook \/ World \/ TestCallback

Spec == Init /\ [][Next]_vars

\* A provider redelivers a webhook until the API acknowledges it.
Fairness ==
    /\ \A t \in TransferIds : WF_vars(HandleSepayWebhook(t))
    /\ \A m \in [pay : PaymentIds, kind : StripeKinds] : WF_vars(HandleStripeWebhook(m))

-----------------------------------------------------------------------------
(***************************************************************************)
(* Properties                                                              *)
(***************************************************************************)

EventIds == (PaymentIds \X (StripeKinds \cup {"paid"})) \cup ({"tx"} \X TransferIds) \cup ({"test"} \X TestEventIds)
EventRows == [prov : Providers \cup {"TEST"}, id : EventIds, pay : PaymentIds, type : Terminal]
PaymentRows == [st : {"PENDING"} \cup Terminal, ord : Orders,
                prov : Providers \cup {"test", "unassigned"}, ref : Providers \cup {Null}]
FinalEvidence == [prov : Providers, id : EventIds, pay : PaymentIds, amt : Amounts, type : Terminal]
InsertingReq == [pc : {"insert"}, ord : Orders, prov : Providers, pay : {NoPayment}, ref : {Null}]
OpeningReq == [pc : {"open", "claim"}, ord : Orders, prov : Providers, pay : PaymentIds, ref : Providers \cup {Null}]
QueryingRec == [pc : {"query"}, pay : PaymentIds, ev : {NoEvidence}]
ApplyingRec == [pc : {"apply"}, pay : PaymentIds, ev : FinalEvidence]

\* The tables, the local variables and the provider's state keep their shape: a
\* row, a request and a reconciliation are always in one of their few forms.
TypeOK ==
    /\ order \in [Orders -> {"PENDING_PAYMENT", "PAID", "CANCELLED"}]
    /\ pay \in [PaymentIds -> PaymentRows \cup {Unused}]
    /\ events \subseteq EventRows
    /\ outbox \subseteq [ord : Orders, pay : PaymentIds]
    /\ anomalies \subseteq PaymentIds
    /\ stripe \in [PaymentIds -> {"none", "open", "processing", "paid", "failed", "expired"}]
    /\ emitted \subseteq [pay : PaymentIds, kind : StripeKinds]
    /\ transfers \in [TransferIds -> [code : PaymentIds, amt : Amounts] \cup {NoTransfer}]
    /\ shown \subseteq PaymentIds \X Providers
    /\ req \in [Requests -> InsertingReq \cup OpeningReq \cup {IdleReq}]
    /\ rec \in [Reconcilers -> QueryingRec \cup ApplyingRec \cup {IdleRec}]

\* An order is PAID exactly when one ORDER_PAID event announces it: two webhooks,
\* a webhook and a reconciliation, or two attempts that both succeed never emit
\* a second one, and none is lost (unique_order_paid_outbox is never hit).
PaidOnceAnnouncedOnce ==
    /\ \A o \in Orders : order[o] = "PAID" <=> \E x \in outbox : x.ord = o
    /\ \A x, y \in outbox : x.ord = y.ord => x = y

\* Every successful attempt is either the one its order was announced with, or is
\* flagged by a DUPLICATE_PAYMENT_DETECTED audit row, never both: a customer who
\* pays a second attempt of an order is always visible to the staff.
SurplusPaymentsAreFlagged ==
    \A p \in PaymentIds :
        /\ pay[p].st = "SUCCEEDED" <=> (p \in anomalies \/ [ord |-> pay[p].ord, pay |-> p] \in outbox)
        /\ p \in anomalies => [ord |-> pay[p].ord, pay |-> p] \notin outbox

Captured(p) ==
    \/ pay[p].ref = "stripe" /\ stripe[p] = "paid"
    \/ pay[p].ref = "sepay" /\ [code |-> p, amt |-> Total[pay[p].ord]] \in {transfers[t] : t \in TransferIds}
TestConfirmed(p) == \E x \in events : x.prov = "TEST" /\ x.pay = p /\ x.type = "SUCCEEDED"

\* No attempt succeeds unless the provider it is bound to really received the
\* exact amount of the order under its reference (or the test callback said so).
NoSuccessWithoutCapture ==
    \A p \in PaymentIds : pay[p].st = "SUCCEEDED" => Captured(p) \/ TestConfirmed(p)

\* Whatever session a customer was handed is the one the attempt is bound to, so
\* money paid into it is accepted: two requests that open sessions of different
\* providers for one attempt never both hand theirs out.
ShownSessionIsBound ==
    \A x \in shown : pay[x[1]].prov = x[2] /\ pay[x[1]].ref = x[2]

\* What the invariants above rest on.  A row named by an ORDER_PAID event belongs
\* to that order; a row has a reference only of the provider it is bound to; and
\* what a request or a reconciliation has read of a bound row stays true while
\* other requests run, so using it later is safe.
StaleReadsAreSafe ==
    /\ \A x \in outbox : pay[x.pay].ord = x.ord
    /\ \A p \in PaymentIds : pay[p].ref # Null => pay[p].prov = pay[p].ref
    /\ \A r \in Requests : req[r].ref # Null => pay[req[r].pay].ref = req[r].ref
    /\ \A c \in Reconcilers : rec[c].pc # "idle" => pay[rec[c].pay].ref # Null

\* The strengthening of the invariants above: nothing is out of shape, and nothing that
\* was read and will be used has changed.
WellFormed == TypeOK /\ StaleReadsAreSafe

\* A bound provider reference is never replaced, by any interleaving of claims.
BoundReferenceIsFinal ==
    [][\A p \in PaymentIds : pay[p].ref # Null =>
          pay'[p].ref = pay[p].ref /\ pay'[p].prov = pay[p].prov]_vars

\* An attempt that ended and an order that left PENDING_PAYMENT never change
\* again, whatever late, duplicated or reordered event arrives.
FinalStatusIsFinal ==
    [][/\ \A p \in PaymentIds : pay[p].st \in Terminal => pay'[p].st = pay[p].st
       /\ \A o \in Orders : order[o] # "PENDING_PAYMENT" => order'[o] = order[o]]_vars

\* No late, duplicated or reordered claim, webhook or reconciliation takes back a binding
\* or an outcome.
AttemptsMoveForward == BoundReferenceIsFinal /\ FinalStatusIsFinal

\* Money captured for an attempt ends up in a successful attempt of a PAID order.
CaptureIsApplied ==
    \A p \in PaymentIds :
        Captured(p) ~> (pay[p].st = "SUCCEEDED" /\ order[pay[p].ord] = "PAID")
=============================================================================
