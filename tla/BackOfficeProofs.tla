-------------------------- MODULE BackOfficeProofs --------------------------
(***************************************************************************)
(* Proofs about the back office: Finance, for any orders, amounts, taxes   *)
(* and workers; Projects and Inquiries, for any number of requests of      *)
(* staff and customers.                                                    *)
(***************************************************************************)
EXTENDS Finance, Projects, Inquiries, SumLemmas, TLAPS

-----------------------------------------------------------------------------
(***************************************************************************)
(* Ledger and invoices                                                     *)
(***************************************************************************)

\* A handler that is past the invoice works with the tax of the invoice, and one
\* about to write it with none.
TaxIsInvoiced ==
    \A w \in Workers :
        /\ wk[w].pc \in {"paid", "bookPayment"} => wk[w].tax = inv[wk[w].order]
        /\ wk[w].pc = "invoice" => wk[w].tax = 0

FinanceInv == TypeOK /\ BookedAsInvoiced /\ TaxIsInvoiced

\* What the types say of one row and one handler.
LEMMA FinanceParts ==
    ASSUME TypeOK
    PROVE  /\ ledger \in Seq(Transactions) /\ inv \in [Orders -> Tax \cup {NoInvoice}]
           /\ wk \in [Workers -> {Idle, Down} \cup Handlers]
           /\ \A w \in Workers : wk[w].pc \notin {"idle", "down"}
                  => wk[w] \in Handlers /\ wk[w].order \in Orders /\ wk[w].tax \in Tax
           /\ \A i \in 1 .. Len(ledger) : ledger[i] \in Transactions /\ ledger[i].order \in Orders
<1>1. wk \in [Workers -> {Idle, Down} \cup Handlers] /\ ledger \in Seq(Transactions)
    BY DEF TypeOK, Handlers
<1>2. \A i \in 1 .. Len(ledger) : ledger[i] \in Transactions
    BY <1>1
<1>3. \A i \in 1 .. Len(ledger) : ledger[i].order \in Orders
    BY <1>2 DEF Transactions
<1>4. ASSUME NEW w \in Workers, wk[w].pc \notin {"idle", "down"}
      PROVE  wk[w] \in Handlers /\ wk[w].order \in Orders /\ wk[w].tax \in Tax
  <2>1. wk[w] \in Handlers
    BY <1>1, <1>4 DEF Idle, Down
  <2> QED
    BY <2>1 DEF Handlers
<1>5. inv \in [Orders -> Tax \cup {NoInvoice}]
    BY DEF TypeOK
<1> QED
    BY <1>1, <1>2, <1>3, <1>4, <1>5

\* No invoice is one that a handler or a booking could name.
LEMMA NoInvoiceIsNoTax == NoInvoice \notin Tax
BY FinanceAssumption DEF NoInvoice, Tax

LEMMA FinanceInitially == Init => FinanceInv
<1> SUFFICES ASSUME Init PROVE FinanceInv
    OBVIOUS
<1>1. TypeOK
    BY FinanceAssumption DEF Init, TypeOK
<1>2. ledger = <<>> /\ Len(<<>>) = 0
    BY DEF Init
<1>3. BookedAsInvoiced
    BY <1>2 DEF BookedAsInvoiced
<1>4. \A w \in Workers : wk[w].pc \in {"idle", "down"}
    BY DEF Init, Idle, Down
<1>5. TaxIsInvoiced
    BY <1>4 DEF TaxIsInvoiced
<1> QED
    BY <1>1, <1>3, <1>5 DEF FinanceInv

\* A step of a handler that neither books nor writes an invoice.
LEMMA HandlerStep ==
    ASSUME FinanceInv, NEW w \in Workers, NEW s \in {Idle, Down} \cup Handlers, wk' = [wk EXCEPT ![w] = s],
           s.pc \in {"paid", "bookPayment"} => s.tax = inv[s.order],
           s.pc = "invoice" => s.tax = 0,
           UNCHANGED <<inv, ledger>>, faults' \in 0 .. MaxFaults
    PROVE  FinanceInv'
<1> USE DEF FinanceInv
<1>1. wk' \in [Workers -> {Idle, Down} \cup Handlers]
    BY FinanceParts
<1>2. TypeOK'
    BY <1>1 DEF TypeOK, Handlers
<1>3. BookedAsInvoiced'
    BY DEF BookedAsInvoiced
<1>4. TaxIsInvoiced'
    BY FinanceParts DEF TaxIsInvoiced
<1> QED
    BY <1>2, <1>3, <1>4

\* An invoice is written where there was none: no handler past the invoice and no
\* booking is about its order.
LEMMA InvoiceStep ==
    ASSUME FinanceInv, NEW o \in Orders, NEW tax \in Tax, inv[o] = NoInvoice, inv' = [inv EXCEPT ![o] = tax],
           UNCHANGED <<ledger, faults>>, wk' \in [Workers -> {Idle, Down} \cup Handlers],
           \A v \in Workers : wk'[v] = wk[v] \/ (wk'[v].pc = "paid" /\ wk'[v].order = o /\ wk'[v].tax = tax)
    PROVE  FinanceInv'
<1> USE DEF FinanceInv
<1>1. TypeOK'
    BY DEF TypeOK, Handlers
<1>2. BookedAsInvoiced'
  <2> SUFFICES ASSUME NEW i \in 1 .. Len(ledger), ledger[i].kind = "payment"
               PROVE  ledger[i].tax = inv'[ledger[i].order]
    BY DEF BookedAsInvoiced
  <2>1. ledger[i].tax = inv[ledger[i].order] /\ ledger[i].tax \in Tax
    BY FinanceParts DEF BookedAsInvoiced, Transactions
  <2>2. ledger[i].order # o
    BY <2>1, NoInvoiceIsNoTax
  <2> QED
    BY <2>1, <2>2, FinanceParts
<1>3. TaxIsInvoiced'
  <2> SUFFICES ASSUME NEW v \in Workers
               PROVE  /\ wk'[v].pc \in {"paid", "bookPayment"} => wk'[v].tax = inv'[wk'[v].order]
                      /\ wk'[v].pc = "invoice" => wk'[v].tax = 0
    BY DEF TaxIsInvoiced
  <2>1. CASE wk'[v] = wk[v] /\ wk[v].pc \in {"paid", "bookPayment"}
    <3>1. wk[v].tax = inv[wk[v].order] /\ wk[v].tax \in Tax /\ wk[v].order \in Orders
      BY <2>1, FinanceParts DEF TaxIsInvoiced
    <3>2. wk[v].order # o
      BY <3>1, NoInvoiceIsNoTax
    <3> QED
      BY <2>1, <3>1, <3>2, FinanceParts
  <2>2. CASE wk'[v] = wk[v] /\ wk[v].pc \notin {"paid", "bookPayment"}
    BY <2>2 DEF TaxIsInvoiced
  <2>3. CASE wk'[v].pc = "paid" /\ wk'[v].order = o /\ wk'[v].tax = tax
    BY <2>3, FinanceParts
  <2> QED
    BY <2>1, <2>2, <2>3
<1> QED
    BY <1>1, <1>2, <1>3

\* The positions of a sequence that has grown by one.
LEMMA Positions ==
    ASSUME NEW n \in Nat, NEW i \in 1 .. n + 1
    PROVE  i \in 1 .. n \/ i = n + 1
OBVIOUS

\* A transaction is booked, a payment with the tax of its invoice.
LEMMA BookStep ==
    ASSUME FinanceInv, NEW w \in Workers, NEW pc, NEW kind, Book(w, pc, kind),
           <<pc, kind>> \in {<<"bookPayment", "payment">>, <<"bookRefund", "refund">>}
    PROVE  FinanceInv'
<1> USE DEF FinanceInv
<1> DEFINE t == [kind |-> kind, order |-> wk[w].order, tax |-> wk[w].tax]
<1>1. pc \in {"bookPayment", "bookRefund"} /\ kind \in {"payment", "refund"}
      /\ (kind = "payment" => pc = "bookPayment")
    OBVIOUS
<1>2. t \in Transactions
    BY <1>1, FinanceParts DEF Book, Transactions
<1>3. t.kind = "payment" => t.tax = inv[t.order]
    BY <1>1 DEF Book, TaxIsInvoiced
<1>4. ledger' = Append(ledger, t) /\ wk' = [wk EXCEPT ![w] = Idle] /\ UNCHANGED <<inv, faults>>
    BY DEF Book
<1> HIDE DEF t
<1>5. ledger \in Seq(Transactions) /\ wk \in [Workers -> {Idle, Down} \cup Handlers]
    BY FinanceParts
<1>a. /\ ledger' \in Seq(Transactions) /\ Len(ledger') = Len(ledger) + 1 /\ Len(ledger) \in Nat
      /\ ledger'[Len(ledger) + 1] = t
      /\ \A i \in 1 .. Len(ledger) : ledger'[i] = ledger[i]
  <2>1. ledger \in Seq(Transactions) /\ t \in Transactions
    BY <1>2, <1>5
  <2>2. ledger' = Append(ledger, t)
    BY <1>4
  <2> HIDE DEF FinanceInv
  <2>3. ledger' \in Seq(Transactions)
    BY ONLY <2>1, <2>2
  <2>4. Len(ledger') = Len(ledger) + 1 /\ Len(ledger) \in Nat
    BY ONLY <2>1, <2>2
  <2>5. ledger'[Len(ledger) + 1] = t
    BY ONLY <2>1, <2>2
  <2>6. \A i \in 1 .. Len(ledger) : ledger'[i] = ledger[i]
    BY ONLY <2>1, <2>2
  <2> QED
    BY <2>3, <2>4, <2>5, <2>6
<1>6. TypeOK'
    BY <1>4, <1>5, <1>a DEF TypeOK, Handlers
<1>7. BookedAsInvoiced'
  <2>1. \A i \in 1 .. Len(ledger') : i \in 1 .. Len(ledger) \/ i = Len(ledger) + 1
    BY ONLY <1>a, Positions
  <2>2. ASSUME NEW i \in 1 .. Len(ledger'), ledger'[i].kind = "payment"
        PROVE  ledger'[i].tax = inv'[ledger'[i].order]
    <3>1. CASE i \in 1 .. Len(ledger)
      BY <1>4, <1>a, <2>2, <3>1 DEF BookedAsInvoiced
    <3>2. CASE i = Len(ledger) + 1
      BY <1>3, <1>4, <1>a, <2>2, <3>2
    <3> QED
      BY <2>1, <2>2, <3>1, <3>2
  <2> QED
    BY <2>2 DEF BookedAsInvoiced
<1>8. TaxIsInvoiced'
    BY <1>4, FinanceParts DEF TaxIsInvoiced, Idle
<1> QED
    BY <1>6, <1>7, <1>8

LEMMA FinanceSteps == FinanceInv /\ [Next]_vars => FinanceInv'
<1> SUFFICES ASSUME FinanceInv, [Next]_vars PROVE FinanceInv'
    OBVIOUS
<1> USE DEF FinanceInv
<1>0. faults \in 0 .. MaxFaults /\ MaxFaults \in Nat
    BY FinanceAssumption DEF TypeOK
<1>1. ASSUME NEW w \in Workers, NEW o \in Orders, InvoiceRead(w, o) PROVE FinanceInv'
  <2> DEFINE s == IF inv[o] = NoInvoice THEN [pc |-> "invoice", order |-> o, tax |-> 0]
                                        ELSE [pc |-> "paid", order |-> o, tax |-> inv[o]]
  <2>1. /\ s \in Handlers
        /\ s.pc \in {"paid", "bookPayment"} => s.tax = inv[s.order]
        /\ s.pc = "invoice" => s.tax = 0
    BY FinanceParts DEF Handlers, Tax
  <2>2. wk' = [wk EXCEPT ![w] = s] /\ UNCHANGED <<inv, ledger, faults>>
    BY <1>1 DEF InvoiceRead
  <2> HIDE DEF s
  <2> QED
    BY <1>0, <2>1, <2>2, HandlerStep
<1>2. ASSUME NEW w \in Workers, InvoiceCreate(w) PROVE FinanceInv'
  <2> DEFINE o == wk[w].order
             s == [wk[w] EXCEPT !.pc = "paid"]
  <2>1. o \in Orders /\ wk[w] \in Handlers /\ wk[w].tax = 0
    BY <1>2, FinanceParts DEF InvoiceCreate, TaxIsInvoiced
  <2>2. CASE inv[o] # NoInvoice
    <3>1. wk' = [wk EXCEPT ![w] = Idle] /\ UNCHANGED <<inv, ledger, faults>>
      BY <1>2, <2>2 DEF InvoiceCreate
    <3> QED
      BY <1>0, <3>1, HandlerStep DEF Idle
  <2>3. CASE inv[o] = NoInvoice
    <3>1. inv' = [inv EXCEPT ![o] = 0] /\ wk' = [wk EXCEPT ![w] = s] /\ UNCHANGED <<ledger, faults>>
      BY <1>2, <2>3 DEF InvoiceCreate
    <3>2. s \in Handlers /\ s.pc = "paid" /\ s.order = o /\ s.tax = 0
      BY <2>1 DEF Handlers
    <3>3. wk \in [Workers -> {Idle, Down} \cup Handlers] /\ 0 \in Tax
      BY FinanceParts DEF Tax
    <3> HIDE DEF s, o
    <3>4. wk' \in [Workers -> {Idle, Down} \cup Handlers]
      BY ONLY <3>1, <3>2, <3>3
    <3>5. \A v \in Workers : wk'[v] = wk[v] \/ wk'[v] = s
      BY <3>1, <3>3
    <3>6. \A v \in Workers : wk'[v] = wk[v] \/ (wk'[v].pc = "paid" /\ wk'[v].order = o /\ wk'[v].tax = 0)
      BY <3>2, <3>5
    <3> QED
      BY <2>1, <2>3, <3>1, <3>3, <3>4, <3>6, InvoiceStep
  <2> QED
    BY <2>2, <2>3
<1>3. ASSUME NEW w \in Workers, NEW kind, NEW next, Check(w, kind, next),
             <<kind, next>> \in {<<"paid", "bookPayment">>, <<"refunded", "bookRefund">>}
      PROVE  FinanceInv'
  <2> DEFINE s == [wk[w] EXCEPT !.pc = next]
  <2>1. wk' = [wk EXCEPT ![w] = Idle] \/ wk' = [wk EXCEPT ![w] = s]
    BY <1>3 DEF Check
  <2>2. /\ s \in Handlers
        /\ s.pc \in {"paid", "bookPayment"} => s.tax = inv[s.order]
        /\ s.pc # "invoice"
    BY <1>3, FinanceParts DEF Check, Handlers, TaxIsInvoiced
  <2>3. UNCHANGED <<inv, ledger, faults>>
    BY <1>3 DEF Check
  <2> HIDE DEF s
  <2> QED
    BY <1>0, <2>1, <2>2, <2>3, HandlerStep DEF Idle
<1>4. ASSUME NEW w \in Workers, NEW o \in Orders, RefundRead(w, o) PROVE FinanceInv'
  <2> DEFINE s == [pc |-> "refunded", order |-> o, tax |-> IF inv[o] = NoInvoice THEN 0 ELSE inv[o]]
  <2>1. s \in Handlers /\ s.pc = "refunded"
    BY FinanceParts DEF Handlers, Tax
  <2>2. wk' = [wk EXCEPT ![w] = s] /\ UNCHANGED <<inv, ledger, faults>>
    BY <1>4 DEF RefundRead
  <2> HIDE DEF s
  <2> QED
    BY <1>0, <2>1, <2>2, HandlerStep
<1>5. ASSUME NEW w \in Workers, Fault(w) PROVE FinanceInv'
  <2>1. wk' = [wk EXCEPT ![w] = Idle] /\ UNCHANGED <<inv, ledger>> /\ faults' \in 0 .. MaxFaults
    BY <1>0, <1>5 DEF Fault
  <2> QED
    BY <2>1, HandlerStep DEF Idle
<1>6. ASSUME NEW o \in Orders, NEW tax \in Taxes, CreateManualInvoice(o, tax) PROVE FinanceInv'
  <2>1. tax \in Tax /\ inv[o] = NoInvoice /\ inv' = [inv EXCEPT ![o] = tax] /\ UNCHANGED <<ledger, wk, faults>>
    BY <1>6 DEF CreateManualInvoice, Tax
  <2>2. wk' \in [Workers -> {Idle, Down} \cup Handlers] /\ \A v \in Workers : wk'[v] = wk[v]
    BY <2>1, FinanceParts
  <2> QED
    BY <2>1, <2>2, InvoiceStep
<1>7. CASE UNCHANGED vars
    BY <1>7 DEF vars, TypeOK, BookedAsInvoiced, TaxIsInvoiced
<1>8. ASSUME NEW w \in Workers, OrderPaid(w) PROVE FinanceInv'
    BY <1>1, <1>2, <1>3, <1>8, BookStep DEF OrderPaid
<1>9. ASSUME NEW w \in Workers, OrderRefunded(w) PROVE FinanceInv'
    BY <1>3, <1>4, <1>9, BookStep DEF OrderRefunded
<1> QED
    BY <1>5, <1>6, <1>7, <1>8, <1>9 DEF Next

-----------------------------------------------------------------------------
\* The tables hold well-typed rows, and at most one handler runs in a worker.
THEOREM FinanceTypeCorrect == Spec => []TypeOK
<1>1. FinanceInv => TypeOK
    BY DEF FinanceInv
<1> QED
    BY <1>1, FinanceInitially, FinanceSteps, PTL DEF Spec

\* Every payment is booked with the tax its order is invoiced with, in any
\* interleaving of handlers, crashes and manual invoices.
THEOREM PaymentsBookedAsInvoiced == Spec => []BookedAsInvoiced
<1>1. FinanceInv => BookedAsInvoiced
    BY DEF FinanceInv
<1> QED
    BY <1>1, FinanceInitially, FinanceSteps, PTL DEF Spec

-----------------------------------------------------------------------------
\* What one worker does once: no order is booked twice in the same way, a handler about to
\* book has found nothing booked, and a refund that follows a payment has read its tax.
Once ==
    /\ \A i, j \in 1 .. Len(ledger) : ledger[i].kind = ledger[j].kind /\ ledger[i].order = ledger[j].order => i = j
    /\ \A i, j \in 1 .. Len(ledger) :
         i < j /\ ledger[i].kind = "payment" /\ ledger[j].kind = "refund" /\ ledger[i].order = ledger[j].order
             => ledger[i].tax = ledger[j].tax
    /\ \A w \in Workers :
         /\ wk[w].pc = "bookPayment" => ~Booked("payment", wk[w].order)
         /\ wk[w].pc = "bookRefund" => ~Booked("refund", wk[w].order)
         /\ wk[w].pc \in {"refunded", "bookRefund"} =>
              \A i \in 1 .. Len(ledger) :
                ledger[i].kind = "payment" /\ ledger[i].order = wk[w].order => ledger[i].tax = wk[w].tax

\* The handler that worker w runs changes, and nothing else.
LEMMA OnceHandler ==
    ASSUME TypeOK, Once, NEW w \in Workers, NEW s, wk' = [wk EXCEPT ![w] = s], UNCHANGED ledger,
           s.pc = "bookPayment" => ~Booked("payment", s.order),
           s.pc = "bookRefund" => ~Booked("refund", s.order),
           s.pc \in {"refunded", "bookRefund"} =>
              \A i \in 1 .. Len(ledger) : ledger[i].kind = "payment" /\ ledger[i].order = s.order => ledger[i].tax = s.tax
    PROVE  Once'
<1>1. \A v \in Workers : wk'[v] = IF v = w THEN s ELSE wk[v]
    BY DEF TypeOK
<1> QED
    BY <1>1 DEF Once, Booked

LEMMA Appended ==
    ASSUME NEW T, NEW s \in Seq(T), NEW t \in T
    PROVE  /\ Len(s) \in Nat /\ Len(Append(s, t)) = Len(s) + 1
           /\ Append(s, t)[Len(s) + 1] = t
           /\ \A i \in 1 .. Len(s) : Append(s, t)[i] = s[i]
OBVIOUS

\* What is booked is new; the other workers are down.
LEMMA OnceBooked ==
    ASSUME FinanceInv, OneWorker, Once, NEW w \in Workers, NEW pc, NEW kind, Book(w, pc, kind),
           <<pc, kind>> \in {<<"bookPayment", "payment">>, <<"bookRefund", "refund">>}
    PROVE  Once'
<1> DEFINE t == [kind |-> kind, order |-> wk[w].order, tax |-> wk[w].tax]
           n == Len(ledger)
<1>0. (pc = "bookPayment" /\ kind = "payment") \/ (pc = "bookRefund" /\ kind = "refund")
    OBVIOUS
<1>1. /\ (pc = "bookPayment" /\ kind = "payment") \/ (pc = "bookRefund" /\ kind = "refund")
      /\ wk[w].pc = pc /\ ledger' = Append(ledger, t) /\ wk' = [wk EXCEPT ![w] = Idle]
    BY <1>0 DEF Book
<1>2. TypeOK /\ wk[w] \in Handlers /\ wk[w].order \in Orders /\ wk[w].tax \in Tax
    BY <1>1, FinanceParts DEF FinanceInv
<1>3. t \in Transactions /\ ledger \in Seq(Transactions)
    BY <1>1, <1>2, FinanceParts DEF Transactions
<1>4. t.kind = kind /\ t.order = wk[w].order /\ t.tax = wk[w].tax
    OBVIOUS
<1> HIDE DEF t
<1>5. /\ n \in Nat /\ Len(ledger') = n + 1 /\ ledger'[n + 1] = t
      /\ \A i \in 1 .. n : ledger'[i] = ledger[i]
    BY <1>1, <1>3, Appended
<1>6. \A i \in 1 .. n : ~(ledger[i].kind = kind /\ ledger[i].order = t.order)
    BY <1>1, <1>4 DEF Once, Booked
<1>7. kind = "refund" => \A i \in 1 .. n : ledger[i].kind = "payment" /\ ledger[i].order = t.order => ledger[i].tax = t.tax
    BY <1>1, <1>4 DEF Once
<1>8. \A v \in Workers : wk'[v].pc \in {"idle", "down"}
  <2>1. wk[w].pc \notin {"idle", "down"}
    BY <1>1
  <2>2. wk[w] # Down
    BY <2>1 DEF Down
  <2>3. \A v \in Workers : v # w => wk[v] = Down
    BY <2>2 DEF OneWorker
  <2>4. \A v \in Workers : wk'[v] = IF v = w THEN Idle ELSE wk[v]
    BY <1>1, <1>2 DEF TypeOK
  <2> QED
    BY <2>3, <2>4 DEF Idle, Down
<1>9. \A i \in 1 .. Len(ledger') : i \in 1 .. n \/ i = n + 1
    BY ONLY <1>5, Positions
<1> HIDE DEF n
<1>10. \A i, j \in 1 .. Len(ledger') :
         ledger'[i].kind = ledger'[j].kind /\ ledger'[i].order = ledger'[j].order => i = j
    BY <1>4, <1>5, <1>6, <1>9 DEF Once, n
<1>11. \A i, j \in 1 .. Len(ledger') :
         i < j /\ ledger'[i].kind = "payment" /\ ledger'[j].kind = "refund" /\ ledger'[i].order = ledger'[j].order
             => ledger'[i].tax = ledger'[j].tax
  <2> SUFFICES ASSUME NEW i \in 1 .. Len(ledger'), NEW j \in 1 .. Len(ledger'), i < j,
                      ledger'[i].kind = "payment", ledger'[j].kind = "refund", ledger'[i].order = ledger'[j].order
               PROVE  ledger'[i].tax = ledger'[j].tax
    OBVIOUS
  <2>1. i \in 1 .. n
    BY <1>5, <1>9
  <2>2. CASE j \in 1 .. n
    BY <1>5, <2>1, <2>2 DEF Once, n
  <2>3. CASE j = n + 1
    BY <1>4, <1>5, <1>7, <2>1, <2>3
  <2> QED
    BY <1>9, <2>2, <2>3
<1> QED
    BY <1>8, <1>10, <1>11 DEF Once

\* Worker processes neither start nor stop for good.
LEMMA SameWorkers ==
    ASSUME TypeOK, [Next]_vars, OneWorker'
    PROVE  OneWorker
<1>1. ASSUME NEW w \in Workers, NEW s, wk[w].pc # "down", wk' = [wk EXCEPT ![w] = s], s.pc # "down"
      PROVE  OneWorker
  <2>1. \A v \in Workers : wk'[v] = IF v = w THEN s ELSE wk[v]
    BY <1>1 DEF TypeOK
  <2>2. \A v \in Workers : wk[v] # Down => wk'[v] # Down
    BY <1>1, <2>1 DEF Down
  <2> QED
    BY <2>2 DEF OneWorker
<1>2. ASSUME NEW w \in Workers, NEW o \in Orders, InvoiceRead(w, o) \/ RefundRead(w, o)
      PROVE  OneWorker
  <2>1. CASE InvoiceRead(w, o) /\ inv[o] = NoInvoice
    <3> DEFINE s == [pc |-> "invoice", order |-> o, tax |-> 0]
    <3>1. wk' = [wk EXCEPT ![w] = s] /\ wk[w].pc = "idle" /\ s.pc # "down"
      BY <2>1 DEF InvoiceRead
    <3> HIDE DEF s
    <3> QED
      BY <1>1, <3>1
  <2>2. CASE InvoiceRead(w, o) /\ inv[o] # NoInvoice
    <3> DEFINE s == [pc |-> "paid", order |-> o, tax |-> inv[o]]
    <3>1. wk' = [wk EXCEPT ![w] = s] /\ wk[w].pc = "idle" /\ s.pc # "down"
      BY <2>2 DEF InvoiceRead
    <3> HIDE DEF s
    <3> QED
      BY <1>1, <3>1
  <2>3. CASE RefundRead(w, o)
    <3> DEFINE s == [pc |-> "refunded", order |-> o, tax |-> IF inv[o] = NoInvoice THEN 0 ELSE inv[o]]
    <3>1. wk' = [wk EXCEPT ![w] = s] /\ wk[w].pc = "idle" /\ s.pc = "refunded"
      BY <2>3 DEF RefundRead
    <3> HIDE DEF s
    <3> QED
      BY <1>1, <3>1
  <2> QED
    BY <1>2, <2>1, <2>2, <2>3
<1>3. ASSUME NEW w \in Workers, InvoiceCreate(w) PROVE OneWorker
  <2>1. wk[w].pc = "invoice" /\ (wk' = [wk EXCEPT ![w] = Idle] \/ wk' = [wk EXCEPT ![w] = [wk[w] EXCEPT !.pc = "paid"]])
    BY <1>3 DEF InvoiceCreate
  <2>2. Idle.pc # "down" /\ [wk[w] EXCEPT !.pc = "paid"].pc # "down"
    BY <2>1, FinanceParts DEF Idle, Handlers
  <2> QED
    BY <1>1, <2>1, <2>2
<1>4. ASSUME NEW w \in Workers, NEW kind \in {"paid", "refunded"}, NEW next \in {"bookPayment", "bookRefund"}, Check(w, kind, next)
      PROVE  OneWorker
  <2>1. wk[w].pc = kind /\ (wk' = [wk EXCEPT ![w] = Idle] \/ wk' = [wk EXCEPT ![w] = [wk[w] EXCEPT !.pc = next]])
    BY <1>4 DEF Check
  <2>2. Idle.pc # "down" /\ [wk[w] EXCEPT !.pc = next].pc # "down"
    BY <2>1, FinanceParts DEF Idle, Handlers
  <2> QED
    BY <1>1, <2>1, <2>2
<1>5. ASSUME NEW w \in Workers, Book(w, "bookPayment", "payment") \/ Book(w, "bookRefund", "refund") \/ Fault(w)
      PROVE  OneWorker
  <2>1. wk[w].pc # "down" /\ wk' = [wk EXCEPT ![w] = Idle]
    BY <1>5 DEF Book, Fault
  <2>2. Idle.pc # "down"
    BY DEF Idle
  <2> QED
    BY <1>1, <2>1, <2>2
<1>6. ASSUME NEW o \in Orders, NEW tax \in Taxes, CreateManualInvoice(o, tax) PROVE OneWorker
    BY <1>6 DEF CreateManualInvoice, OneWorker
<1>7. UNCHANGED vars => OneWorker
    BY DEF vars, OneWorker
<1> QED
    BY <1>2, <1>3, <1>4, <1>5, <1>6, <1>7 DEF Next, OrderPaid, OrderRefunded

LEMMA OnceStep ==
    ASSUME FinanceInv, OneWorker, Once, [Next]_vars
    PROVE  Once'
<1>0. TypeOK
    BY DEF FinanceInv
<1>1. ASSUME NEW w \in Workers, NEW s, wk' = [wk EXCEPT ![w] = s], UNCHANGED ledger,
             s.pc \in {"idle", "invoice", "paid"}
      PROVE  Once'
    BY <1>0, <1>1, OnceHandler
<1>2. ASSUME NEW w \in Workers, NEW o \in Orders, InvoiceRead(w, o) PROVE Once'
  <2> DEFINE s == IF inv[o] = NoInvoice THEN [pc |-> "invoice", order |-> o, tax |-> 0]
                                        ELSE [pc |-> "paid", order |-> o, tax |-> inv[o]]
  <2>1. wk' = [wk EXCEPT ![w] = s] /\ UNCHANGED ledger /\ s.pc \in {"idle", "invoice", "paid"}
    BY <1>2 DEF InvoiceRead
  <2> HIDE DEF s
  <2> QED
    BY <1>1, <2>1
<1>3. ASSUME NEW w \in Workers, InvoiceCreate(w) PROVE Once'
  <2>1. UNCHANGED ledger /\ (wk' = [wk EXCEPT ![w] = Idle] \/ wk' = [wk EXCEPT ![w] = [wk[w] EXCEPT !.pc = "paid"]])
    BY <1>3 DEF InvoiceCreate
  <2>2. Idle.pc = "idle" /\ [wk[w] EXCEPT !.pc = "paid"].pc = "paid"
    BY <1>0, <1>3, FinanceParts DEF InvoiceCreate, Idle, Handlers
  <2> QED
    BY <1>1, <2>1, <2>2
<1>4. ASSUME NEW w \in Workers, Check(w, "paid", "bookPayment") PROVE Once'
  <2> DEFINE s == [wk[w] EXCEPT !.pc = "bookPayment"]
  <2>1. s.pc = "bookPayment" /\ s.order = wk[w].order /\ UNCHANGED ledger
    BY <1>0, <1>4, FinanceParts DEF Check, Handlers
  <2>2. \/ wk' = [wk EXCEPT ![w] = Idle]
        \/ wk' = [wk EXCEPT ![w] = s] /\ ~Booked("payment", wk[w].order)
    BY <1>4 DEF Check
  <2> HIDE DEF s
  <2>3. CASE wk' = [wk EXCEPT ![w] = Idle]
    BY <1>1, <2>1, <2>3 DEF Idle
  <2>4. CASE wk' = [wk EXCEPT ![w] = s] /\ ~Booked("payment", wk[w].order)
    BY <1>0, <2>1, <2>4, OnceHandler
  <2> QED
    BY <2>2, <2>3, <2>4
<1>5. ASSUME NEW w \in Workers, Check(w, "refunded", "bookRefund") PROVE Once'
  <2> DEFINE s == [wk[w] EXCEPT !.pc = "bookRefund"]
  <2>1. s.pc = "bookRefund" /\ s.order = wk[w].order /\ s.tax = wk[w].tax /\ UNCHANGED ledger /\ wk[w].pc = "refunded"
    BY <1>0, <1>5, FinanceParts DEF Check, Handlers
  <2>2. \/ wk' = [wk EXCEPT ![w] = Idle]
        \/ wk' = [wk EXCEPT ![w] = s] /\ ~Booked("refund", wk[w].order)
    BY <1>5 DEF Check
  <2>3. \A i \in 1 .. Len(ledger) :
          ledger[i].kind = "payment" /\ ledger[i].order = wk[w].order => ledger[i].tax = wk[w].tax
    BY <2>1 DEF Once
  <2> HIDE DEF s
  <2>4. CASE wk' = [wk EXCEPT ![w] = Idle]
    BY <1>1, <2>1, <2>4 DEF Idle
  <2>5. CASE wk' = [wk EXCEPT ![w] = s] /\ ~Booked("refund", wk[w].order)
    BY <1>0, <2>1, <2>3, <2>5, OnceHandler
  <2> QED
    BY <2>2, <2>4, <2>5
<1>6. ASSUME NEW w \in Workers, NEW o \in Orders, RefundRead(w, o) PROVE Once'
  <2> DEFINE s == [pc |-> "refunded", order |-> o, tax |-> IF inv[o] = NoInvoice THEN 0 ELSE inv[o]]
  <2>1. wk' = [wk EXCEPT ![w] = s] /\ UNCHANGED ledger
    BY <1>6 DEF RefundRead
  <2>2. s.pc = "refunded" /\ s.order = o /\ (inv[o] # NoInvoice => s.tax = inv[o])
    OBVIOUS
  <2>3. ASSUME NEW i \in 1 .. Len(ledger), ledger[i].kind = "payment", ledger[i].order = o
        PROVE  ledger[i].tax = s.tax
    <3>1. ledger[i].tax = inv[o] /\ ledger[i].tax \in Tax
      BY <1>0, <2>3, FinanceParts DEF FinanceInv, BookedAsInvoiced, Transactions
    <3> QED
      BY <2>2, <3>1, NoInvoiceIsNoTax
  <2> HIDE DEF s
  <2> QED
    BY <1>0, <2>1, <2>2, <2>3, OnceHandler
<1>7. ASSUME NEW w \in Workers, Fault(w) PROVE Once'
    BY <1>1, <1>7 DEF Fault, Idle
<1>8. ASSUME NEW o \in Orders, NEW tax \in Taxes, CreateManualInvoice(o, tax) PROVE Once'
    BY <1>8 DEF CreateManualInvoice, Once, Booked
<1>9. UNCHANGED vars => Once'
    BY DEF vars, Once, Booked
<1>10. ASSUME NEW w \in Workers, Book(w, "bookPayment", "payment") \/ Book(w, "bookRefund", "refund") PROVE Once'
    BY <1>10, OnceBooked
<1> QED
    BY <1>2, <1>3, <1>4, <1>5, <1>6, <1>7, <1>8, <1>9, <1>10 DEF Next, OrderPaid, OrderRefunded

\* The transactions of an order that was paid and refunded once are those two.
LEMMA TwoTransactions ==
    ASSUME TypeOK, Once, NEW i \in 1 .. Len(ledger), NEW j \in 1 .. Len(ledger), i < j,
           ledger[i].order = ledger[j].order, ledger[i].kind = "payment", ledger[j].kind = "refund"
    PROVE  LET o == ledger[i].order
           IN  /\ Balance(o, "ACCOUNTS_RECEIVABLE") = 0 /\ Balance(o, "TAX_LIABILITY") = 0
               /\ Balance(o, "SALES_REVENUE") = Balance(o, "REFUND_EXPENSE")
<1> DEFINE o == ledger[i].order
           tax == ledger[i].tax
           a == Amount[o]
<1>0. o \in Orders /\ tax \in Tax
    BY FinanceParts DEF Transactions
<1>1. o \in Orders /\ tax \in Nat /\ a \in Nat
  <2>1. Tax \subseteq Nat
    BY FinanceAssumption DEF Tax
  <2>2. \A x \in Orders : Amount[x] \in Nat
    BY FinanceAssumption
  <2> QED
    BY <1>0, <2>1, <2>2
<1>2. {k \in 1 .. Len(ledger) : ledger[k].order = o} = {i, j}
  <2>1. ASSUME NEW k \in 1 .. Len(ledger), ledger[k].order = o PROVE k \in {i, j}
    <3>1. ledger[k].kind \in {"payment", "refund"}
      BY FinanceParts DEF Transactions
    <3> QED
      BY <2>1, <3>1 DEF Once
  <2> QED
    BY <2>1
<1>3. ledger[j].tax = tax /\ ledger[j].order = o
    BY DEF Once
<1>4. Lines(ledger[i]) = PaymentLines(o, tax) /\ Lines(ledger[j]) = RefundLines(o, tax)
    BY <1>3 DEF Lines
<1> HIDE DEF o, tax
<1>5. ASSUME NEW account, PaymentLines(o, tax)[account] \in Int, RefundLines(o, tax)[account] \in Int
      PROVE  Balance(o, account) = PaymentLines(o, tax)[account] + RefundLines(o, tax)[account]
  <2> DEFINE f == [k \in 1 .. Len(ledger) |-> Lines(ledger[k])[account]]
  <2>1. f[i] = PaymentLines(o, tax)[account] /\ f[j] = RefundLines(o, tax)[account]
    BY <1>4
  <2>2. Balance(o, account) = SumFunctionOnSet(f, {i, j})
    BY <1>2 DEF Balance
  <2> HIDE DEF f
  <2>3. i # j /\ f[i] \in Int /\ f[j] \in Int
    BY <1>5, <2>1
  <2>4. SumFunctionOnSet(f, {i, j}) = f[i] + f[j]
    BY <2>3, SumOfTwo
  <2> QED
    BY <2>1, <2>2, <2>4
<1>6. /\ PaymentLines(o, tax)["ACCOUNTS_RECEIVABLE"] = a + tax /\ RefundLines(o, tax)["ACCOUNTS_RECEIVABLE"] = -(a + tax)
      /\ PaymentLines(o, tax)["TAX_LIABILITY"] = tax /\ RefundLines(o, tax)["TAX_LIABILITY"] = -tax
      /\ PaymentLines(o, tax)["SALES_REVENUE"] = a /\ RefundLines(o, tax)["SALES_REVENUE"] = 0
      /\ PaymentLines(o, tax)["REFUND_EXPENSE"] = 0 /\ RefundLines(o, tax)["REFUND_EXPENSE"] = a
    BY DEF PaymentLines, RefundLines
<1> HIDE DEF a
<1>7. Balance(o, "ACCOUNTS_RECEIVABLE") = (a + tax) + -(a + tax)
    BY <1>1, <1>5, <1>6
<1>8. Balance(o, "TAX_LIABILITY") = tax + -tax
    BY <1>1, <1>5, <1>6
<1>9. Balance(o, "SALES_REVENUE") = a + 0 /\ Balance(o, "REFUND_EXPENSE") = 0 + a
    BY <1>1, <1>5, <1>6
<1> QED
    BY <1>1, <1>7, <1>8, <1>9 DEF o

\* With one worker process a refund that follows its payment reverses it exactly, for any
\* amounts and taxes, whatever crashes, is repeated or is invoiced by hand in between.
THEOREM RefundsReverse == Spec => []RefundReversesPayment
<1> DEFINE I == OneWorker => Once
<1>1. Init => I
  <2> SUFFICES ASSUME Init PROVE Once
    OBVIOUS
  <2>1. Len(ledger) = 0 /\ \A w \in Workers : wk[w].pc \in {"idle", "down"}
    BY DEF Init, Idle, Down
  <2> QED
    BY <2>1 DEF Once
<1>2. FinanceInv /\ I /\ [Next]_vars => I'
    BY OnceStep, SameWorkers DEF FinanceInv
<1>3. FinanceInv /\ I => RefundReversesPayment
    BY TwoTransactions DEF RefundReversesPayment, FinanceInv
<1> HIDE DEF I
<1> QED
    BY <1>1, <1>2, <1>3, FinanceInitially, FinanceSteps, PTL DEF Spec

-----------------------------------------------------------------------------
(***************************************************************************)
(* Projects                                                                *)
(***************************************************************************)

Found == ProjectStatus \cup {NoProject}
FoundOpen == {status \in ProjectStatus : ~ProjectClosed(status)}

Requests == [op : {"inquiry"}, read : LeadStatus \ {"CONVERTED"}, to : LeadStatus \ {"CONVERTED"}, found : Found]
              \cup [op : {"convert"}, read : {"QUALIFIED"}, to : {"CONVERTED"}, found : Found]
              \cup {r \in [op : {"project"}, read : ProjectStatus, to : ProjectStatus, found : Found] :
                      ValidProjectTransition(r.read, r.to)}
              \cup [op : {"create", "milestone"}, read : MilestoneStatus \cup {NoMilestone}, to : MilestoneStatus,
                    found : FoundOpen]
              \cup [op : {"post"}, read : ProjectStatus, to : ProjectStatus, found : FoundOpen]

\* What was read and decided in an earlier transaction: a manual change neither leads from
\* CONVERTED nor to it, a change of a project is one its life cycle has, and what adds to
\* a project has found it open.
ProjectsInv ==
    /\ ConvertedMeansProject
    /\ lead \in LeadStatus /\ project \in ProjectStatus \cup {NoProject}
    /\ milestone \in MilestoneStatus \cup {NoMilestone} /\ entries \in Nat
    /\ projectTasks \in 0 .. MaxProjectTasks
    /\ projectTask \in [ProjectTasks -> Requests \cup {NoProjectTask}]

\* Nothing moves CONVERTED by hand, and nothing leaves a closed project.
LEMMA ManualIsNoConversion ==
    ASSUME NEW from \in LeadStatus, NEW to \in LeadStatus, ManualLeadTransition(from, to)
    PROVE  from # "CONVERTED" /\ to # "CONVERTED"
BY DEF ManualLeadTransition, LeadStatus

LEMMA ClosedIsFinal ==
    ASSUME NEW from, NEW to, ProjectClosed(from), ValidProjectTransition(from, to)
    PROVE  to = from
BY DEF ProjectClosed, ValidProjectTransition

\* The request of a task, by what it does.
LEMMA RequestForms ==
    ASSUME NEW r \in Requests \cup {NoProjectTask}
    PROVE  /\ r.op = "inquiry" => r.read \in LeadStatus \ {"CONVERTED"} /\ r.to \in LeadStatus \ {"CONVERTED"}
           /\ r.op = "project" => r.read \in ProjectStatus /\ r.to \in ProjectStatus
                                    /\ ValidProjectTransition(r.read, r.to)
           /\ r.op \in {"create", "milestone"} => r.to \in MilestoneStatus
           /\ r.op \in {"create", "milestone", "post"} => r.found # NoProject /\ ~ProjectClosed(r.found)
<1>1. CASE r = NoProjectTask
    BY <1>1 DEF NoProjectTask
<1>2. CASE r \in Requests
  <2>1. \A status \in FoundOpen : status # NoProject /\ ~ProjectClosed(status)
    BY DEF FoundOpen, ProjectStatus, NoProject
  <2> QED
    BY <1>2, <2>1 DEF Requests
<1> QED
    BY <1>1, <1>2

LEMMA ProjectsInitially == ProjectsInit => ProjectsInv
<1> SUFFICES ASSUME ProjectsInit PROVE ProjectsInv
    OBVIOUS
<1>1. ConvertedMeansProject
    BY DEF ProjectsInit, ConvertedMeansProject
<1>2. projectTask \in [ProjectTasks -> Requests \cup {NoProjectTask}]
    BY DEF ProjectsInit
<1>3. /\ lead \in LeadStatus /\ project \in ProjectStatus \cup {NoProject}
      /\ milestone \in MilestoneStatus \cup {NoMilestone} /\ entries \in Nat
      /\ projectTasks \in 0 .. MaxProjectTasks
    BY ProjectsAssumption DEF ProjectsInit, LeadStatus
<1> QED
    BY <1>1, <1>2, <1>3 DEF ProjectsInv

\* A request that reads and decides.
LEMMA ReadStep ==
    ASSUME ProjectsInv, NEW t \in ProjectTasks, NEW op, NEW read, NEW to, ReadForProject(t, op, read, to),
           [op |-> op, read |-> read, to |-> to, found |-> project] \in Requests
    PROVE  ProjectsInv'
<1>1. ConvertedMeansProject'
    BY DEF ProjectsInv, ReadForProject, ConvertedMeansProject
<1>2. projectTask' \in [ProjectTasks -> Requests \cup {NoProjectTask}]
    BY DEF ProjectsInv, ReadForProject
<1>3. /\ (lead \in LeadStatus /\ project \in ProjectStatus \cup {NoProject})'
      /\ (milestone \in MilestoneStatus \cup {NoMilestone} /\ entries \in Nat)'
    BY DEF ProjectsInv, ReadForProject
<1>4. projectTasks' \in 0 .. MaxProjectTasks
    BY ProjectsAssumption DEF ProjectsInv, ReadForProject
<1> QED
    BY <1>1, <1>2, <1>3, <1>4 DEF ProjectsInv

\* A request that ends leaves the other tasks alone.
LEMMA TaskEnds ==
    ASSUME ProjectsInv, NEW t \in ProjectTasks, ProjectTaskEnds(t)
    PROVE  /\ projectTask' \in [ProjectTasks -> Requests \cup {NoProjectTask}]
           /\ projectTask'[t] = NoProjectTask
BY DEF ProjectsInv, ProjectTaskEnds

LEMMA WriteStep ==
    ASSUME ProjectsInv, NEW t \in ProjectTasks,
           \/ WriteInquiry(t) \/ WriteConversion(t) \/ WriteProject(t) \/ WriteMilestone(t)
           \/ WritePost(t) \/ ProjectTaskDies(t)
    PROVE  ProjectsInv'
<1> DEFINE r == projectTask[t]
<1>0. r \in Requests \cup {NoProjectTask}
    BY DEF ProjectsInv
<1>1. CASE WriteInquiry(t)
  <2>1. r.read \in LeadStatus \ {"CONVERTED"} /\ r.to \in LeadStatus \ {"CONVERTED"}
    BY <1>0, <1>1, RequestForms DEF WriteInquiry, Does
  <2>2. lead' \in LeadStatus /\ (lead' = "CONVERTED" <=> lead = "CONVERTED")
    BY <1>1, <2>1 DEF WriteInquiry, ProjectsInv
  <2>3. projectTask' \in [ProjectTasks -> Requests \cup {NoProjectTask}]
    BY <1>1, TaskEnds DEF WriteInquiry
  <2> QED
    BY <1>1, <2>2, <2>3 DEF WriteInquiry, ProjectsInv, ConvertedMeansProject
<1>2. CASE WriteConversion(t)
  <2>1. projectTask' \in [ProjectTasks -> Requests \cup {NoProjectTask}]
    BY <1>2, TaskEnds DEF WriteConversion
  <2> QED
    BY <1>2, <2>1 DEF WriteConversion, ProjectsInv, ConvertedMeansProject, LeadStatus, ProjectStatus, NoProject
<1>3. CASE WriteProject(t)
  <2>1. r.read \in ProjectStatus /\ r.to \in ProjectStatus
    BY <1>0, <1>3, RequestForms DEF WriteProject, Does
  <2>2. /\ project' \in ProjectStatus \cup {NoProject}
        /\ project' = NoProject <=> project = NoProject
    BY <1>3, <2>1 DEF WriteProject, ProjectsInv, ProjectStatus, NoProject
  <2>3. projectTask' \in [ProjectTasks -> Requests \cup {NoProjectTask}]
    BY <1>3, TaskEnds DEF WriteProject
  <2> QED
    BY <1>3, <2>2, <2>3 DEF WriteProject, ProjectsInv, ConvertedMeansProject
<1>4. CASE WriteMilestone(t)
  <2>1. r.to \in MilestoneStatus
    BY <1>0, <1>4, RequestForms DEF WriteMilestone, Does
  <2>2. projectTask' \in [ProjectTasks -> Requests \cup {NoProjectTask}]
    BY <1>4, TaskEnds DEF WriteMilestone
  <2> QED
    BY <1>4, <2>1, <2>2 DEF WriteMilestone, ProjectsInv, ConvertedMeansProject
<1>5. CASE WritePost(t) \/ ProjectTaskDies(t)
  <2>1. projectTask' \in [ProjectTasks -> Requests \cup {NoProjectTask}]
    BY <1>5, TaskEnds DEF WritePost, ProjectTaskDies
  <2> QED
    BY <1>5, <2>1 DEF WritePost, ProjectTaskDies, ProjectsInv, ConvertedMeansProject
<1> QED
    BY <1>1, <1>2, <1>3, <1>4, <1>5

LEMMA ProjectsSteps == ProjectsInv /\ [ProjectsNext]_projectVars => ProjectsInv'
<1> SUFFICES ASSUME ProjectsInv, [ProjectsNext]_projectVars PROVE ProjectsInv'
    OBVIOUS
<1>1. CASE UNCHANGED projectVars
    BY <1>1 DEF projectVars, ProjectsInv, ConvertedMeansProject
<1>2. CASE ProjectsNext
  <2> SUFFICES ASSUME NEW t \in ProjectTasks,
                  \/ \E to \in LeadStatus : AdminUpdateInquiry(t, to)
                  \/ \E to \in ProjectStatus : AdminUpdateProject(t, to)
                  \/ \E to \in MilestoneStatus : UpdateMilestone(t, to)
                  \/ Convert(t) \/ CreateMilestone(t) \/ Post(t)
                  \/ WriteInquiry(t) \/ WriteConversion(t) \/ WriteProject(t) \/ WriteMilestone(t)
                  \/ WritePost(t) \/ ProjectTaskDies(t)
               PROVE  ProjectsInv'
    BY <1>2 DEF ProjectsNext
  <2>1. ASSUME NEW to \in LeadStatus, AdminUpdateInquiry(t, to) PROVE ProjectsInv'
    <3>1. [op |-> "inquiry", read |-> lead, to |-> to, found |-> project] \in Requests
      BY <2>1, ManualIsNoConversion DEF AdminUpdateInquiry, ProjectsInv, Requests, Found
    <3> QED
      BY <2>1, <3>1, ReadStep DEF AdminUpdateInquiry
  <2>2. ASSUME NEW to \in ProjectStatus, AdminUpdateProject(t, to) PROVE ProjectsInv'
    <3>1. [op |-> "project", read |-> project, to |-> to, found |-> project] \in Requests
      BY <2>2 DEF AdminUpdateProject, ProjectsInv, Requests, Found
    <3> QED
      BY <2>2, <3>1, ReadStep DEF AdminUpdateProject
  <2>3. ASSUME NEW to \in MilestoneStatus, UpdateMilestone(t, to) PROVE ProjectsInv'
    <3>1. [op |-> "milestone", read |-> milestone, to |-> to, found |-> project] \in Requests
      BY <2>3 DEF UpdateMilestone, Open, ProjectsInv, Requests, FoundOpen
    <3> QED
      BY <2>3, <3>1, ReadStep DEF UpdateMilestone
  <2>4. ASSUME Convert(t) PROVE ProjectsInv'
    <3>1. [op |-> "convert", read |-> lead, to |-> "CONVERTED", found |-> project] \in Requests
      BY <2>4 DEF Convert, ProjectsInv, Requests, Found
    <3> QED
      BY <2>4, <3>1, ReadStep DEF Convert
  <2>5. ASSUME CreateMilestone(t) PROVE ProjectsInv'
    <3>1. [op |-> "create", read |-> NoMilestone, to |-> "PENDING", found |-> project] \in Requests
      BY <2>5 DEF CreateMilestone, Open, ProjectsInv, Requests, FoundOpen, MilestoneStatus
    <3> QED
      BY <2>5, <3>1, ReadStep DEF CreateMilestone
  <2>6. ASSUME Post(t) PROVE ProjectsInv'
    <3>1. [op |-> "post", read |-> project, to |-> project, found |-> project] \in Requests
      BY <2>6 DEF Post, Open, ProjectsInv, Requests, FoundOpen
    <3> QED
      BY <2>6, <3>1, ReadStep DEF Post
  <2> QED
    BY <2>1, <2>2, <2>3, <2>4, <2>5, <2>6, WriteStep
<1> QED
    BY <1>1, <1>2

\* An inquiry is CONVERTED exactly if there is a project, whoever else decides about it
\* meanwhile.
THEOREM ConvertedHasProject == ProjectsSpec => []ConvertedMeansProject
<1>1. ProjectsInv => ConvertedMeansProject
    BY DEF ProjectsInv
<1> QED
    BY <1>1, ProjectsInitially, ProjectsSteps, PTL DEF ProjectsSpec

\* Nothing but a conversion or a change of its life cycle moves a project, and none of them
\* moves a closed one.
LEMMA ClosedStays ==
    ASSUME ProjectsInv, [ProjectsNext]_projectVars, ProjectClosed(project)
    PROVE  project' = project
<1>1. CASE UNCHANGED projectVars
    BY <1>1 DEF projectVars
<1>2. ASSUME NEW t \in ProjectTasks, WriteProject(t) PROVE project' = project
  <2>1. projectTask[t] \in Requests \cup {NoProjectTask}
    BY DEF ProjectsInv
  <2>2. ValidProjectTransition(projectTask[t].read, projectTask[t].to)
    BY <1>2, <2>1, RequestForms DEF WriteProject, Does
  <2> QED
    BY <1>2, <2>2, ClosedIsFinal DEF WriteProject
<1>3. ASSUME NEW t \in ProjectTasks, WriteConversion(t) PROVE project' = project
  <2>1. project # NoProject
    BY DEF ProjectClosed, NoProject
  <2>2. lead # "QUALIFIED"
    BY <2>1 DEF ProjectsInv, ConvertedMeansProject
  <2> QED
    BY <1>3, <2>2 DEF WriteConversion
<1>4. ASSUME NEW t \in ProjectTasks,
             \/ WriteInquiry(t) \/ WriteMilestone(t) \/ WritePost(t) \/ ProjectTaskDies(t)
             \/ \E op, read, to : ReadForProject(t, op, read, to)
      PROVE  project' = project
    BY <1>4 DEF WriteInquiry, WriteMilestone, WritePost, ProjectTaskDies, ReadForProject
<1>5. CASE ProjectsNext
    BY <1>2, <1>3, <1>4, <1>5
       DEF ProjectsNext, AdminUpdateInquiry, AdminUpdateProject, UpdateMilestone, Convert, CreateMilestone, Post
<1> QED
    BY <1>1, <1>5

\* What is added to a project is added by a request that had found it open.
LEMMA AddedByARequest ==
    ASSUME ProjectsInv, [ProjectsNext]_projectVars, <<entries, milestone>>' # <<entries, milestone>>
    PROVE  \E t \in ProjectTasks : /\ projectTask[t].op \in {"create", "milestone", "post"}
                                   /\ projectTask'[t] = NoProjectTask
                                   /\ projectTask[t].found # NoProject
                                   /\ ~ProjectClosed(projectTask[t].found)
<1>1. ProjectsNext
    BY DEF projectVars
<1>2. PICK t \in ProjectTasks : WriteMilestone(t) \/ WritePost(t)
    BY <1>1 DEF ProjectsNext, AdminUpdateInquiry, AdminUpdateProject, UpdateMilestone, Convert, CreateMilestone, Post,
                ReadForProject, WriteInquiry, WriteConversion, WriteProject, ProjectTaskDies
<1>3. projectTask[t].op \in {"create", "milestone", "post"} /\ projectTask'[t] = NoProjectTask
    BY <1>2, TaskEnds DEF WriteMilestone, WritePost, Does
<1>4. projectTask[t] \in Requests \cup {NoProjectTask}
    BY DEF ProjectsInv
<1>5. projectTask[t].found # NoProject /\ ~ProjectClosed(projectTask[t].found)
    BY <1>3, <1>4, RequestForms
<1> QED
    BY <1>3, <1>5

\* The status of a closed project never changes, and only a request that found it open
\* adds to it.
THEOREM ClosedStaysClosed == ProjectsSpec => ClosedProjectsStayClosed
<1> DEFINE A == /\ ProjectClosed(project) => project' = project
                /\ <<entries, milestone>>' # <<entries, milestone>> =>
                     \E t \in ProjectTasks : /\ projectTask[t].op \in {"create", "milestone", "post"}
                                             /\ projectTask'[t] = NoProjectTask
                                             /\ projectTask[t].found # NoProject
                                             /\ ~ProjectClosed(projectTask[t].found)
<1>1. ProjectsInv /\ [ProjectsNext]_projectVars => [A]_projectVars
    BY ClosedStays, AddedByARequest
<1>2. ProjectsSpec => []ProjectsInv
    BY ProjectsInitially, ProjectsSteps, PTL DEF ProjectsSpec
<1> HIDE DEF A
<1>3. ProjectsSpec => [][A]_projectVars
    BY <1>1, <1>2, PTL DEF ProjectsSpec
<1> QED
    BY <1>3 DEF ClosedProjectsStayClosed, A

-----------------------------------------------------------------------------
(***************************************************************************)
(* Inquiries                                                               *)
(***************************************************************************)

\* A submission that has not tried its insert has not written the inquiry, and one that
\* comes to its insert has stored its attachments.
SubmissionsInv ==
    /\ \A r \in Submissions : submission[r].at \in {"new", "unknown", "uploaded"} => inquiry # r
    /\ \A r \in Submissions : submission[r].at = "uploaded" => r \in objects

InquiriesInv == InquiriesTypeOK /\ SubmissionsInv /\ InquiryKeepsItsFiles

LEMMA InquiriesInitially == InquiriesInit => InquiriesInv
<1> SUFFICES ASSUME InquiriesInit PROVE InquiriesInv
    OBVIOUS
<1>1. lostAnswer \in BOOLEAN /\ inquiryFaults \in 0 .. MaxInquiryFaults
  <2>1. lostAnswer = FALSE /\ inquiryFaults = 0
      BY DEF InquiriesInit
  <2>2. lostAnswer \in BOOLEAN
      BY <2>1
  <2>3. inquiryFaults \in 0 .. MaxInquiryFaults
      BY <2>1, InquiriesAssumption
  <2> QED
      BY <2>2, <2>3
<1>2. /\ notifier \in [Notifiers -> [at : {"idle"}, seen : SUBSET Staff]]
      /\ submission \in [Submissions -> [at : {"new"}, answer : {NoSubmission}]]
      /\ notices \in [Staff -> Nat]
    BY DEF InquiriesInit, NewSubmission, IdleNotifier
<1>3. /\ inquiry = NoSubmission /\ objects = {} /\ notifyEvent = "none" /\ lease = NoNotifier
      /\ emailJob = 0 /\ audits = 0
      /\ \A r \in Submissions : submission[r].at = "new" /\ submission[r].answer = NoSubmission
    BY DEF InquiriesInit, NewSubmission
<1>4. InquiriesTypeOK
    BY <1>1, <1>2, <1>3 DEF InquiriesTypeOK
<1>5. SubmissionsInv /\ InquiryKeepsItsFiles
    BY <1>3, NoSubmissionAssumption DEF SubmissionsInv, InquiryKeepsItsFiles
<1> QED
    BY <1>4, <1>5 DEF InquiriesInv

\* A step of a submission: how far it is and what it was answered, at the variables of the store.
LEMMA SubmitSteps ==
    ASSUME InquiriesInv, NEW r \in Submissions, Submit(r) \/ InsertThrows(r) \/ SubmissionDies(r)
    PROVE  InquiriesInv'
<1> USE InquiriesAssumption, NoSubmissionAssumption
<1> USE DEF InquiriesInv, InquiriesTypeOK, SubmissionsInv, InquiryKeepsItsFiles, noticeVars, SubmissionAt,
            SubmissionIsAnswered
<1>1. CASE FindBySubmissionKey(r)
    BY <1>1 DEF FindBySubmissionKey
<1>2. CASE RefuseSubmission(r)
    BY <1>2 DEF RefuseSubmission
<1>3. CASE UploadAll(r)
    BY <1>3 DEF UploadAll
<1>4. CASE CreateInquiry(r)
    BY <1>4 DEF CreateInquiry, Stored
<1>5. CASE LoseTheRace(r)
    BY <1>5 DEF LoseTheRace, InquiryFault
<1>6. CASE AnswerWithWinner(r)
    BY <1>6 DEF AnswerWithWinner
<1>7. CASE InsertThrows(r)
  <2>1. /\ submission[r].at = "uploaded" /\ inquiry = NoSubmission
        /\ inquiryFaults' \in 0 .. MaxInquiryFaults /\ objects' \subseteq objects /\ objects \subseteq objects' \cup {r}
        /\ submission' = [submission EXCEPT ![r].at = "over"]
        /\ UNCHANGED <<lease, notifier, notices, emailJob, audits>>
        /\ \/ UNCHANGED <<inquiry, notifyEvent, lostAnswer>>
           \/ inquiry' = r /\ notifyEvent' = "DUE" /\ lostAnswer' = TRUE
      BY <1>7 DEF InsertThrows, InquiryFault, Stored
  <2>2. InquiriesTypeOK'
    <3>1. inquiry' \in Submissions \cup {NoSubmission} /\ objects' \subseteq Submissions
        BY <2>1
    <3>2. lostAnswer' \in BOOLEAN
        BY <2>1
    <3>3. submission' \in [Submissions -> [at : {"new", "unknown", "uploaded", "lost", "over"},
                                          answer : Submissions \cup {NoSubmission}]]
        BY <2>1
    <3>4. notifyEvent' \in {"none", "DUE", "PROCESSED"}
        BY <2>1
    <3> QED
        BY <2>1, <3>1, <3>2, <3>3, <3>4
  <2>3. SubmissionsInv'
      BY <2>1
  <2>4. InquiryKeepsItsFiles'
      BY <2>1
  <2> QED
      BY <2>2, <2>3, <2>4
<1>8. CASE SubmissionDies(r)
    BY <1>8 DEF SubmissionDies, InquiryFault
<1> QED
    BY <1>1, <1>2, <1>3, <1>4, <1>5, <1>6, <1>7, <1>8 DEF Submit

\* The notifiers read the inquiry and write what is theirs.
LEMMA NotifySteps ==
    ASSUME InquiriesInv,
           \/ \E w \in Notifiers : Notify(w) \/ NotifierThrows(w) \/ NotifierDies(w)
           \/ NotifierLeaseRunsOut
    PROVE  InquiriesInv'
<1> USE InquiriesAssumption
<1>1. InquiriesTypeOK
    BY DEF InquiriesInv
<1>2. UNCHANGED storeVars
    BY DEF Notify, TakeEvent, ReadNotices, NotifyStaff, QueueEmails, FindAudit, CreateAudit, FinishEvent,
           NotifierThrows, NotifierDies, NotifierLeaseRunsOut
<1>3. ASSUME NEW w \in Notifiers, NEW at \in {"idle", "staff", "notices", "emails", "audit", "unaudited", "finish"},
             NEW seen \in SUBSET Staff, NotifierAt(w, at, seen),
             notifyEvent' \in {notifyEvent, "PROCESSED"}, lease' \in {lease, w, NoNotifier},
             notices' \in [Staff -> Nat], emailJob' \in {0, 1}, audits' \in {audits, audits + 1},
             inquiryFaults' \in 0 .. MaxInquiryFaults
      PROVE  InquiriesTypeOK'
    BY <1>1, <1>2, <1>3 DEF InquiriesTypeOK, NotifierAt, storeVars
<1>4. notices \in [Staff -> Nat] /\ emailJob \in {0, 1} /\ inquiryFaults \in 0 .. MaxInquiryFaults
    BY <1>1 DEF InquiriesTypeOK
<1>5. ASSUME NEW w \in Notifiers, TakeEvent(w) \/ ReadNotices(w) PROVE InquiriesTypeOK'
    BY <1>3, <1>4, <1>5 DEF TakeEvent, ReadNotices
<1>6. ASSUME NEW w \in Notifiers, NotifyStaff(w) PROVE InquiriesTypeOK'
  <2>1. notices' \in [Staff -> Nat]
      BY <1>4, <1>6 DEF NotifyStaff
  <2> QED
      BY <1>3, <1>4, <1>6, <2>1 DEF NotifyStaff
<1>7. ASSUME NEW w \in Notifiers, QueueEmails(w) \/ FindAudit(w) \/ CreateAudit(w) \/ FinishEvent(w)
      PROVE InquiriesTypeOK'
  <2>1. CASE QueueEmails(w)
      BY <1>3, <1>4, <2>1 DEF QueueEmails
  <2>2. CASE FindAudit(w)
      BY <1>3, <1>4, <2>2 DEF FindAudit
  <2>3. CASE CreateAudit(w)
      BY <1>3, <1>4, <2>3 DEF CreateAudit
  <2>4. CASE FinishEvent(w)
      BY <1>3, <1>4, <2>4 DEF FinishEvent
  <2> QED
      BY <1>7, <2>1, <2>2, <2>3, <2>4
<1>8. ASSUME NEW w \in Notifiers, NotifierThrows(w) \/ NotifierDies(w) PROVE InquiriesTypeOK'
  <2>1. inquiryFaults' \in 0 .. MaxInquiryFaults
      BY <1>4, <1>8 DEF NotifierThrows, NotifierDies, InquiryFault
  <2> QED
      BY <1>3, <1>4, <1>8, <2>1 DEF NotifierThrows, NotifierDies
<1>9. ASSUME NotifierLeaseRunsOut PROVE InquiriesTypeOK'
  <2>1. inquiryFaults' \in 0 .. MaxInquiryFaults
      BY <1>4, <1>9 DEF NotifierLeaseRunsOut, InquiryFault
  <2>2. lease' = NoNotifier /\ UNCHANGED <<notifyEvent, notifier, notices, emailJob, audits>>
      BY <1>9 DEF NotifierLeaseRunsOut
  <2> QED
      BY <1>1, <1>2, <2>1, <2>2 DEF InquiriesTypeOK, storeVars
<1>10. InquiriesTypeOK'
  <2>1. ASSUME NEW w \in Notifiers, Notify(w) \/ NotifierThrows(w) \/ NotifierDies(w) PROVE InquiriesTypeOK'
      BY <1>5, <1>6, <1>7, <1>8, <2>1 DEF Notify
  <2> QED
      BY <1>9, <2>1
<1> QED
    BY <1>2, <1>10 DEF InquiriesInv, SubmissionsInv, InquiryKeepsItsFiles, storeVars

LEMMA InquirySteps == InquiriesInv /\ [InquiriesNext]_inquiryVars => InquiriesInv'
<1> SUFFICES ASSUME InquiriesInv, [InquiriesNext]_inquiryVars PROVE InquiriesInv'
    OBVIOUS
<1>1. CASE UNCHANGED inquiryVars
    BY <1>1 DEF inquiryVars, storeVars, noticeVars, InquiriesInv, InquiriesTypeOK, SubmissionsInv, InquiryKeepsItsFiles
<1> QED
    BY <1>1, SubmitSteps, NotifySteps DEF InquiriesNext

\* For any number of submissions with one key: whoever is answered is told the number of the
\* one inquiry that is stored, and the clean-up of those who lost the race, of failed inserts
\* and of dead requests leaves its attachments alone, unless a commit was not heard of.
THEOREM FilesStayWithTheInquiry == InquiriesSpec => []InquiryKeepsItsFiles
<1>1. InquiriesInv => InquiryKeepsItsFiles
    BY DEF InquiriesInv
<1> QED
    BY <1>1, InquiriesInitially, InquirySteps, PTL DEF InquiriesSpec
=============================================================================
