------------------------------ MODULE Finance ------------------------------
(***************************************************************************)
(* Invoices and the double-entry ledger: the ORDER_PAID and ORDER_REFUNDED *)
(* handlers of apps/worker/src/ledger-processor.ts, the entries they build *)
(* (packages/database/src/domain/ledger-engine.ts), and the manual         *)
(* invoices of apps/api/src/modules/finance/finance.service.ts.            *)
(*                                                                         *)
(* A handler reads, then writes: one invoice per order is enforced by a    *)
(* unique index, one booking per order only by a read before the insert.   *)
(* Every order here has been paid; its events may be delivered in either   *)
(* order, again, and by several workers (see Outbox).                      *)
(***************************************************************************)
EXTENDS Integers, Sequences, Functions

CONSTANTS
    Orders,
    Amount,     \* Amount[o]: subtotal and total of order o, which checkout sets equal
    Taxes,      \* taxes a manual invoice may state
    Workers,
    MaxFaults   \* bound: crashes of workers and failed transactions

ASSUME FinanceAssumption ==
    /\ Amount \in [Orders -> Nat]
    /\ Taxes \subseteq Nat /\ MaxFaults \in Nat

NoInvoice == -1

VARIABLES
    inv,     \* inv[o]: the tax of the invoice of o, or NoInvoice (order_id is unique)
    ledger,  \* the booked transactions, in order; the lines of each are a function of it
    wk,      \* wk[w]: the handler that worker w runs
    faults

vars == <<inv, ledger, wk, faults>>

Idle == [pc |-> "idle"]
Down == [pc |-> "down"]

\* A deployment runs one worker process or several.
Init ==
    /\ inv = [o \in Orders |-> NoInvoice]
    /\ ledger = <<>>
    /\ \E up \in SUBSET Workers : wk = [w \in Workers |-> IF w \in up THEN Idle ELSE Down]
    /\ faults = 0

-----------------------------------------------------------------------------
(***************************************************************************)
(* The ledger engine: the balances the lines of a transaction add up to.   *)
(* Receivables, refunds and fees grow on the debit side, revenue and tax   *)
(* on the credit side.  No caller passes a gateway fee.                    *)
(***************************************************************************)
PaymentLines(o, tax) == [ACCOUNTS_RECEIVABLE |-> Amount[o] + tax, SALES_REVENUE |-> Amount[o],
                         TAX_LIABILITY |-> tax, REFUND_EXPENSE |-> 0]

RefundLines(o, tax) == [ACCOUNTS_RECEIVABLE |-> - (Amount[o] + tax), SALES_REVENUE |-> 0,
                        TAX_LIABILITY |-> - tax, REFUND_EXPENSE |-> Amount[o]]

Lines(t) == IF t.kind = "payment" THEN PaymentLines(t.order, t.tax) ELSE RefundLines(t.order, t.tax)

\* calculateLedgerBalances over the transactions of one order.
Balance(o, account) ==
    SumFunctionOnSet([i \in 1 .. Len(ledger) |-> Lines(ledger[i])[account]], {i \in 1 .. Len(ledger) : ledger[i].order = o})

Booked(kind, o) == \E i \in 1 .. Len(ledger) : ledger[i].kind = kind /\ ledger[i].order = o

-----------------------------------------------------------------------------
\* processFinancialLedgerForOrder: the order and its invoice are read.
InvoiceRead(w, o) ==
    /\ wk[w].pc = "idle"
    /\ wk' = [wk EXCEPT ![w] = IF inv[o] = NoInvoice
                               THEN [pc |-> "invoice", order |-> o, tax |-> 0]
                               ELSE [pc |-> "paid", order |-> o, tax |-> inv[o]]]
    /\ UNCHANGED <<inv, ledger, faults>>

\* Mutant: a conflict on the invoice is ignored, and the handler goes on untaxed.
InvoiceCreateIgnoring(w) ==
    /\ wk[w].pc = "invoice"
    /\ inv' = [inv EXCEPT ![wk[w].order] = IF @ = NoInvoice THEN 0 ELSE @]
    /\ wk' = [wk EXCEPT ![w].pc = "paid"]
    /\ UNCHANGED <<ledger, faults>>

\* The invoice of the handler bears no tax.  If somebody else's has come first, the
\* unique index makes the handler throw, and the outbox tries again.
InvoiceCreate(w) ==
    LET o == wk[w].order IN
    /\ wk[w].pc = "invoice"
    /\ IF inv[o] = NoInvoice
       THEN /\ inv' = [inv EXCEPT ![o] = 0]
            /\ wk' = [wk EXCEPT ![w].pc = "paid"]
       ELSE /\ UNCHANGED inv
            /\ wk' = [wk EXCEPT ![w] = Idle]
    /\ UNCHANGED <<ledger, faults>>

\* The read that looks for an entry of the order on SALES_REVENUE, or REFUND_EXPENSE.
Check(w, kind, next) ==
    LET sought == IF kind = "paid" THEN "payment" ELSE "refund" IN
    /\ wk[w].pc = kind
    /\ wk' = [wk EXCEPT ![w] = IF Booked(sought, wk[w].order) THEN Idle ELSE [wk[w] EXCEPT !.pc = next]]
    /\ UNCHANGED <<inv, ledger, faults>>

\* The transaction that inserts the lines.
Book(w, pc, kind) ==
    /\ wk[w].pc = pc
    /\ ledger' = Append(ledger, [kind |-> kind, order |-> wk[w].order, tax |-> wk[w].tax])
    /\ wk' = [wk EXCEPT ![w] = Idle]
    /\ UNCHANGED <<inv, faults>>

\* Mutant: the refund ignores the tax of the invoice.
RefundReadUntaxed(w, o) ==
    /\ wk[w].pc = "idle"
    /\ wk' = [wk EXCEPT ![w] = [pc |-> "refunded", order |-> o, tax |-> 0]]
    /\ UNCHANGED <<inv, ledger, faults>>

\* Mutant: a missing invoice is not taken for no tax.
RefundReadMissing(w, o) ==
    /\ wk[w].pc = "idle"
    /\ wk' = [wk EXCEPT ![w] = [pc |-> "refunded", order |-> o, tax |-> inv[o]]]
    /\ UNCHANGED <<inv, ledger, faults>>

\* processFinancialLedgerForOrderRefund: the order and its invoice are read.
RefundRead(w, o) ==
    /\ wk[w].pc = "idle"
    /\ wk' = [wk EXCEPT ![w] = [pc |-> "refunded", order |-> o,
                                tax |-> IF inv[o] = NoInvoice THEN 0 ELSE inv[o]]]
    /\ UNCHANGED <<inv, ledger, faults>>

Fault(w) ==
    /\ wk[w].pc \notin {"idle", "down"}
    /\ faults < MaxFaults
    /\ faults' = faults + 1
    /\ wk' = [wk EXCEPT ![w] = Idle]
    /\ UNCHANGED <<inv, ledger>>

\* An administrator writes the invoice of an order that has none.
CreateManualInvoice(o, tax) ==
    /\ inv[o] = NoInvoice
    /\ inv' = [inv EXCEPT ![o] = tax]
    /\ UNCHANGED <<ledger, wk, faults>>

-----------------------------------------------------------------------------
OrderPaid(w) ==
    \/ \E o \in Orders : InvoiceRead(w, o)
    \/ InvoiceCreate(w) \/ Check(w, "paid", "bookPayment") \/ Book(w, "bookPayment", "payment")

OrderRefunded(w) ==
    \/ \E o \in Orders : RefundRead(w, o)
    \/ Check(w, "refunded", "bookRefund") \/ Book(w, "bookRefund", "refund")

Next ==
    \/ \E w \in Workers : OrderPaid(w) \/ OrderRefunded(w) \/ Fault(w)
    \/ \E o \in Orders, tax \in Taxes : CreateManualInvoice(o, tax)

Spec == Init /\ [][Next]_vars

-----------------------------------------------------------------------------
(***************************************************************************)
(* Properties                                                              *)
(***************************************************************************)
Tax == Taxes \cup {0}
Transactions == [kind : {"payment", "refund"}, order : Orders, tax : Tax]
Handlers == [pc : {"invoice", "paid", "refunded", "bookPayment", "bookRefund"}, order : Orders, tax : Tax]

\* The ledger, the invoices and what the workers hold keep their shape.
TypeOK ==
    /\ inv \in [Orders -> Tax \cup {NoInvoice}]
    /\ ledger \in Seq(Transactions)
    /\ wk \in [Workers -> {Idle, Down} \cup Handlers]
    /\ faults \in 0 .. MaxFaults

\* A payment is booked with the tax its order is invoiced with, whoever wrote the
\* invoice, when, and however many workers run the handler at once.
BookedAsInvoiced ==
    \A i \in 1 .. Len(ledger) : ledger[i].kind = "payment" => ledger[i].tax = inv[ledger[i].order]

OneWorker == \A v, w \in Workers : wk[v] # Down /\ wk[w] # Down => v = w

\* With one worker, a refund that follows its payment leaves nothing of the order on
\* receivables and tax, and refunds exactly its revenue, after any crashes and retries.
RefundReversesPayment ==
    OneWorker =>
    \A i, j \in 1 .. Len(ledger) :
        i < j /\ ledger[i].order = ledger[j].order /\ ledger[i].kind = "payment" /\ ledger[j].kind = "refund"
            => LET o == ledger[i].order IN
               /\ Balance(o, "ACCOUNTS_RECEIVABLE") = 0 /\ Balance(o, "TAX_LIABILITY") = 0
               /\ Balance(o, "SALES_REVENUE") = Balance(o, "REFUND_EXPENSE")
=============================================================================
