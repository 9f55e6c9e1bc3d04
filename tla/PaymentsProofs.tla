--------------------------- MODULE PaymentsProofs ---------------------------
(***************************************************************************)
(* Proofs about Payments, for any set of orders, payments, requests,       *)
(* reconciliations, transfers and amounts.  The inductive invariant adds   *)
(* StaleReadsAreSafe to the invariants to be shown: without it a request   *)
(* that read a reference long ago could hand out a session that the row is *)
(* no longer bound to.  That a success means money received rests on a     *)
(* second invariant, about the evidence in flight.                        *)
(***************************************************************************)
EXTENDS Payments, TLAPS

IInv ==
    /\ TypeOK
    /\ PaidOnceAnnouncedOnce
    /\ SurplusPaymentsAreFlagged
    /\ ShownSessionIsBound
    /\ StaleReadsAreSafe

\* The state a checkout leaves behind satisfies the invariant.
LEMMA InitIInv == Init => IInv
<1> SUFFICES ASSUME Init PROVE IInv
    OBVIOUS
<1> USE PaymentsAssumption
<1>1. pay \in [PaymentIds -> PaymentRows \cup {Unused}]
  <2> SUFFICES ASSUME NEW p \in PaymentIds PROVE pay[p] \in PaymentRows \cup {Unused}
      BY DEF Init
  <2>1. CASE \E o \in Orders : First[o] = p
    <3>1. (CHOOSE o \in Orders : First[o] = p) \in Orders
        BY <2>1
    <3> QED
        BY <2>1, <3>1 DEF Init, Row, PaymentRows
  <2>2. CASE ~\E o \in Orders : First[o] = p
      BY <2>2 DEF Init
  <2> QED
      BY <2>1, <2>2
<1>2. TypeOK
    BY <1>1 DEF Init, TypeOK
<1>3. \A p \in PaymentIds : pay[p].st # "SUCCEEDED" /\ pay[p].ref = Null
    BY DEF Init, Row, Unused
<1> QED
    BY <1>2, <1>3 DEF IInv, Init, PaidOnceAnnouncedOnce, SurplusPaymentsAreFlagged, ShownSessionIsBound,
                      StaleReadsAreSafe, IdleReq, IdleRec

\* A row that is bound belongs to an order, and a used row is a payment row.
LEMMA RowForms ==
    ASSUME TypeOK, NEW p \in PaymentIds
    PROVE  /\ pay[p] # Unused => pay[p] \in PaymentRows
           /\ pay[p] = Unused => pay[p].ref = Null /\ pay[p].ord = NoOrder /\ pay[p].st = "UNUSED"
           /\ pay[p].ref # Null => pay[p] \in PaymentRows
BY DEF TypeOK, Unused

\* Requests and reconciliations that are not idle are in one of their forms.
LEMMA LocalForms ==
    ASSUME TypeOK
    PROVE  /\ \A r \in Requests : req[r].pc \in {"open", "claim"} => req[r] \in OpeningReq
           /\ \A r \in Requests : req[r].pc = "insert" => req[r] \in InsertingReq
           /\ \A r \in Requests : req[r].ref # Null => req[r] \in OpeningReq
           /\ \A c \in Reconcilers : rec[c].pc = "query" => rec[c] \in QueryingRec
           /\ \A c \in Reconcilers : rec[c].pc = "apply" => rec[c] \in ApplyingRec
           /\ \A c \in Reconcilers : rec[c].pc # "idle" => rec[c].pay \in PaymentIds
BY DEF TypeOK, OpeningReq, InsertingReq, QueryingRec, ApplyingRec, IdleReq, IdleRec

\* Steps that only change statuses keep what was read of bound rows true.
LEMMA BindingsKept ==
    ASSUME IInv, shown' = shown, req' = req,
           \A c \in Reconcilers : rec'[c] = rec[c] \/ rec'[c].pc = "idle",
           \A q \in PaymentIds : pay'[q].ord = pay[q].ord /\ pay'[q].ref = pay[q].ref /\ pay'[q].prov = pay[q].prov,
           \A x \in outbox' : pay'[x.pay].ord = x.ord
    PROVE  ShownSessionIsBound' /\ StaleReadsAreSafe'
<1>1. TypeOK /\ ShownSessionIsBound /\ StaleReadsAreSafe
    BY DEF IInv
<1>2. \A x \in shown : x[1] \in PaymentIds
    BY <1>1 DEF TypeOK
<1>3. ShownSessionIsBound'
    BY <1>1, <1>2 DEF ShownSessionIsBound
<1>4. \A r \in Requests : req[r].ref # Null => req[r].pay \in PaymentIds
    BY <1>1, LocalForms DEF OpeningReq
<1>5. \A c \in Reconcilers : rec[c].pc # "idle" => rec[c].pay \in PaymentIds
    BY <1>1, LocalForms
<1>6. \A c \in Reconcilers : rec'[c].pc # "idle" => pay'[rec'[c].pay].ref # Null
    BY <1>1, <1>5 DEF StaleReadsAreSafe
<1>7. \A r \in Requests : req'[r].ref # Null => pay'[req'[r].pay].ref = req'[r].ref
    BY <1>1, <1>4 DEF StaleReadsAreSafe
<1> QED
    BY <1>1, <1>3, <1>6, <1>7 DEF StaleReadsAreSafe

\* The end of a pending attempt keeps the invariant in each of the ways the code
\* ends one: no success, a surplus success, the success that pays the order.
LEMMA StatusStep ==
    ASSUME IInv, NEW p \in PaymentIds, NEW st \in Terminal, NEW o, o = pay[p].ord,
           pay[p] # Unused, pay[p].st = "PENDING",
           pay' = [pay EXCEPT ![p].st = st],
           events' \subseteq EventRows,
           UNCHANGED <<stripe, emitted, transfers, shown, req>>,
           rec' \in [Reconcilers -> QueryingRec \cup ApplyingRec \cup {IdleRec}],
           \A c \in Reconcilers : rec'[c] = rec[c] \/ rec'[c].pc = "idle",
           \/ /\ st # "SUCCEEDED"
              /\ \/ UNCHANGED order
                 \/ order[o] = "PENDING_PAYMENT" /\ order' = [order EXCEPT ![o] = "CANCELLED"]
              /\ UNCHANGED <<outbox, anomalies>>
           \/ /\ st = "SUCCEEDED"
              /\ order[o] = "PAID"
              /\ anomalies' = anomalies \cup {p}
              /\ UNCHANGED <<order, outbox>>
           \/ /\ st = "SUCCEEDED"
              /\ order[o] = "PENDING_PAYMENT"
              /\ order' = [order EXCEPT ![o] = "PAID"]
              /\ outbox' = outbox \cup {[ord |-> o, pay |-> p]}
              /\ UNCHANGED anomalies
    PROVE  IInv'
<1>1. TypeOK /\ PaidOnceAnnouncedOnce /\ SurplusPaymentsAreFlagged /\ StaleReadsAreSafe
    BY DEF IInv
<1>2. pay[p] \in PaymentRows /\ o \in Orders
    BY <1>1, RowForms DEF PaymentRows
<1>3. /\ pay' \in [PaymentIds -> PaymentRows \cup {Unused}]
      /\ \A q \in PaymentIds : /\ pay'[q].ord = pay[q].ord
                                /\ pay'[q].ref = pay[q].ref
                                /\ pay'[q].prov = pay[q].prov
                                /\ q # p => pay'[q].st = pay[q].st
      /\ pay'[p].st = st
    BY <1>1, <1>2 DEF TypeOK, PaymentRows
<1>4. p \notin anomalies /\ [ord |-> o, pay |-> p] \notin outbox
    BY <1>1 DEF SurplusPaymentsAreFlagged
<1>5. /\ order \in [Orders -> {"PENDING_PAYMENT", "PAID", "CANCELLED"}]
      /\ outbox \subseteq [ord : Orders, pay : PaymentIds]
      /\ anomalies \subseteq PaymentIds
    BY <1>1 DEF TypeOK
<1>6. TypeOK'
    BY <1>1, <1>2, <1>3, <1>5 DEF TypeOK
<1>7. PaidOnceAnnouncedOnce'
  <2>1. CASE UNCHANGED <<order, outbox>>
      BY <1>1, <2>1 DEF PaidOnceAnnouncedOnce
  <2>2. CASE /\ order[o] = "PENDING_PAYMENT"
             /\ order' = [order EXCEPT ![o] = "CANCELLED"]
             /\ UNCHANGED outbox
      BY <1>1, <1>2, <1>5, <2>2 DEF PaidOnceAnnouncedOnce
  <2>3. CASE /\ order[o] = "PENDING_PAYMENT"
             /\ order' = [order EXCEPT ![o] = "PAID"]
             /\ outbox' = outbox \cup {[ord |-> o, pay |-> p]}
    <3>1. \A x \in outbox : x.ord # o
        BY <1>1, <1>2, <2>3 DEF PaidOnceAnnouncedOnce
    <3>2. \A x \in outbox' : x.ord = o <=> x = [ord |-> o, pay |-> p]
        BY <2>3, <3>1
    <3>3. \A q \in Orders : order'[q] = "PAID" <=> (q = o \/ order[q] = "PAID")
        BY <1>5, <2>3
    <3>4. \A q \in Orders : (\E x \in outbox' : x.ord = q) <=> (q = o \/ \E x \in outbox : x.ord = q)
      <4>1. [ord |-> o, pay |-> p] \in outbox' /\ [ord |-> o, pay |-> p].ord = o
          BY <2>3
      <4>2. \A x \in outbox' : x.ord = o \/ x \in outbox
          BY <2>3
      <4> QED
          BY <2>3, <4>1, <4>2
    <3>5. \A x, y \in outbox' : x.ord = y.ord => x = y
        BY <1>1, <2>3, <3>1, <3>2 DEF PaidOnceAnnouncedOnce
    <3> QED
        BY <1>1, <3>3, <3>4, <3>5 DEF PaidOnceAnnouncedOnce
  <2> QED
      BY <2>1, <2>2, <2>3
<1>8. SurplusPaymentsAreFlagged'
    BY <1>1, <1>2, <1>3, <1>4, <1>5 DEF SurplusPaymentsAreFlagged
<1>9. \A x \in outbox' : pay'[x.pay].ord = x.ord
    BY <1>1, <1>3, <1>5 DEF StaleReadsAreSafe
<1>10. ShownSessionIsBound' /\ StaleReadsAreSafe'
    BY <1>3, <1>9, BindingsKept
<1> QED
    BY <1>6, <1>7, <1>8, <1>10 DEF IInv

\* A step that records an event and changes no other table keeps the invariant.
LEMMA RecordStep ==
    ASSUME IInv, UNCHANGED <<order, pay, outbox, anomalies, stripe, emitted, transfers, shown, req>>,
           events' \subseteq EventRows,
           rec' \in [Reconcilers -> QueryingRec \cup ApplyingRec \cup {IdleRec}],
           \A c \in Reconcilers : rec'[c] = rec[c] \/ rec'[c].pc = "idle"
    PROVE  IInv'
<1>1. TypeOK' /\ PaidOnceAnnouncedOnce' /\ SurplusPaymentsAreFlagged'
    BY DEF IInv, TypeOK, PaidOnceAnnouncedOnce, SurplusPaymentsAreFlagged
<1>2. ShownSessionIsBound' /\ StaleReadsAreSafe'
    BY BindingsKept DEF IInv, StaleReadsAreSafe
<1> QED
    BY <1>1, <1>2 DEF IInv

\* The transaction of processAuthoritativePaymentEvent keeps the invariant for any
\* evidence of the right form, whoever calls it.
LEMMA EventStep ==
    ASSUME IInv, NEW e, e.prov \in Providers, e.id \in EventIds, e.pay \in PaymentIds, e.type \in Terminal,
           ProcessAuthoritativePaymentEvent(e),
           UNCHANGED <<stripe, emitted, transfers, shown, req>>,
           rec' \in [Reconcilers -> QueryingRec \cup ApplyingRec \cup {IdleRec}],
           \A c \in Reconcilers : rec'[c] = rec[c] \/ rec'[c].pc = "idle"
    PROVE  IInv'
<1>1. Record(e)
    BY DEF ProcessAuthoritativePaymentEvent, LateEvent, AttemptEnds, AttemptSucceeds
<1>2. events' \subseteq EventRows
  <2>1. [prov |-> e.prov, id |-> e.id, pay |-> e.pay, type |-> e.type] \in EventRows
      BY DEF EventRows
  <2> QED
      BY <1>1, <2>1 DEF Record, IInv, TypeOK
<1>3. pay[e.pay] # Unused
    BY <1>1 DEF Record, Accepts, Used
<1>4. CASE LateEvent(e)
    BY <1>2, <1>4, RecordStep DEF LateEvent
<1>5. CASE AttemptEnds(e)
  <2>1. e.type # "SUCCEEDED" /\ pay[e.pay].st = "PENDING" /\ pay' = [pay EXCEPT ![e.pay].st = e.type]
        /\ UNCHANGED <<order, outbox, anomalies>>
      BY <1>5 DEF AttemptEnds
  <2> QED
      BY <1>2, <1>3, <2>1, StatusStep
<1>6. CASE AttemptSucceeds(e)
  <2>1. /\ pay[e.pay].st = "PENDING" /\ pay' = [pay EXCEPT ![e.pay].st = "SUCCEEDED"]
        /\ \/ /\ order[pay[e.pay].ord] = "PAID"
              /\ anomalies' = anomalies \cup {e.pay}
              /\ UNCHANGED <<order, outbox>>
           \/ /\ order[pay[e.pay].ord] = "PENDING_PAYMENT"
              /\ order' = [order EXCEPT ![pay[e.pay].ord] = "PAID"]
              /\ outbox' = outbox \cup {[ord |-> pay[e.pay].ord, pay |-> e.pay]}
              /\ UNCHANGED anomalies
      BY <1>6 DEF AttemptSucceeds
  <2>2. "SUCCEEDED" \in Terminal
      BY DEF Terminal
  <2> QED
      BY <1>2, <1>3, <2>1, <2>2, StatusStep
<1> QED
    BY <1>4, <1>5, <1>6 DEF ProcessAuthoritativePaymentEvent

\* Steps of requests and of the world that touch none of the tables.
LEMMA LocalStep ==
    ASSUME IInv, UNCHANGED dbVars,
           stripe' \in [PaymentIds -> {"none", "open", "processing", "paid", "failed", "expired"}],
           emitted' \subseteq [pay : PaymentIds, kind : StripeKinds],
           transfers' \in [TransferIds -> [code : PaymentIds, amt : Amounts] \cup {NoTransfer}],
           shown' \subseteq PaymentIds \X Providers,
           req' \in [Requests -> InsertingReq \cup OpeningReq \cup {IdleReq}],
           rec' \in [Reconcilers -> QueryingRec \cup ApplyingRec \cup {IdleRec}],
           \A x \in shown' : x \in shown \/ (pay[x[1]].prov = x[2] /\ pay[x[1]].ref = x[2]),
           \A r \in Requests : req'[r].ref # Null => pay[req'[r].pay].ref = req'[r].ref,
           \A c \in Reconcilers : rec'[c].pc # "idle" => pay[rec'[c].pay].ref # Null
    PROVE  IInv'
<1>1. TypeOK'
    BY DEF IInv, TypeOK, dbVars
<1>2. PaidOnceAnnouncedOnce' /\ SurplusPaymentsAreFlagged'
    BY DEF IInv, PaidOnceAnnouncedOnce, SurplusPaymentsAreFlagged, dbVars
<1>3. ShownSessionIsBound'
    BY DEF IInv, ShownSessionIsBound, dbVars
<1>4. StaleReadsAreSafe'
    BY DEF IInv, StaleReadsAreSafe, dbVars
<1> QED
    BY <1>1, <1>2, <1>3, <1>4 DEF IInv

\* An insert, or the claim of an unbound pending row, keeps the invariant: nobody
\* relies on a row without a reference.
LEMMA RowStep ==
    ASSUME IInv, NEW p \in PaymentIds, NEW row \in PaymentRows,
           pay' = [pay EXCEPT ![p] = row],
           pay[p].ref = Null, pay[p].st # "SUCCEEDED", pay[p].ord \in {row.ord, NoOrder},
           row.st = "PENDING", row.ref # Null => row.prov = row.ref,
           UNCHANGED <<order, events, outbox, anomalies, stripe, emitted, transfers, rec>>,
           shown' \subseteq PaymentIds \X Providers,
           req' \in [Requests -> InsertingReq \cup OpeningReq \cup {IdleReq}],
           \A x \in shown' : x \in shown \/ (x[1] = p /\ row.prov = x[2] /\ row.ref = x[2]),
           \A r \in Requests : req'[r] = req[r] \/ req'[r].ref = Null
    PROVE  IInv'
<1>1. /\ TypeOK /\ PaidOnceAnnouncedOnce /\ SurplusPaymentsAreFlagged
      /\ ShownSessionIsBound /\ StaleReadsAreSafe
    BY DEF IInv
<1>2. /\ pay' \in [PaymentIds -> PaymentRows \cup {Unused}]
      /\ pay'[p] = row
      /\ \A q \in PaymentIds : q # p => pay'[q] = pay[q]
    BY <1>1 DEF TypeOK
<1>3. TypeOK'
    BY <1>1, <1>2 DEF TypeOK
<1>4. PaidOnceAnnouncedOnce'
    BY <1>1 DEF PaidOnceAnnouncedOnce
<1>5. \A x \in outbox : x.pay \in PaymentIds /\ x.ord \in Orders
    BY <1>1 DEF TypeOK
<1>6. \A x \in outbox : x.pay # p
  <2> SUFFICES ASSUME NEW x \in outbox, x.pay = p PROVE FALSE
      OBVIOUS
  <2>1. pay[p].ord = x.ord
      BY <1>1 DEF StaleReadsAreSafe
  <2>2. x = [ord |-> x.ord, pay |-> x.pay]
      BY <1>1 DEF TypeOK
  <2> QED
      BY <1>1, <2>1, <2>2 DEF SurplusPaymentsAreFlagged
<1>7. \A y : [ord |-> y, pay |-> p] \notin outbox
    BY <1>6
<1>8. SurplusPaymentsAreFlagged'
    BY <1>1, <1>2, <1>7 DEF SurplusPaymentsAreFlagged
<1>9. \A x \in shown : x[1] \in PaymentIds /\ x[2] \in Providers
    BY <1>1 DEF TypeOK
<1>10. \A x \in shown : x[1] # p
    BY <1>1, <1>9 DEF ShownSessionIsBound, Providers, Null
<1>11. ShownSessionIsBound'
    BY <1>1, <1>2, <1>9, <1>10 DEF ShownSessionIsBound
<1>12. \A r \in Requests : req[r].ref # Null => req[r].pay \in PaymentIds
    BY <1>1, LocalForms DEF OpeningReq
<1>13. \A r \in Requests : req'[r].ref # Null => pay'[req'[r].pay].ref = req'[r].ref
    BY <1>1, <1>2, <1>12 DEF StaleReadsAreSafe
<1>14. \A c \in Reconcilers : rec'[c].pc # "idle" => pay'[rec'[c].pay].ref # Null
    BY <1>1, <1>2, LocalForms DEF StaleReadsAreSafe
<1>15. StaleReadsAreSafe'
    BY <1>1, <1>2, <1>5, <1>6, <1>13, <1>14 DEF StaleReadsAreSafe
<1> QED
    BY <1>3, <1>4, <1>8, <1>11, <1>15 DEF IInv

\* Every step of a payment-session request keeps the invariant.
LEMMA SessionStep ==
    ASSUME IInv, NEW r \in Requests, Session(r)
    PROVE  IInv'
<1>0. TypeOK /\ StaleReadsAreSafe
    BY DEF IInv
<1>1. /\ req \in [Requests -> InsertingReq \cup OpeningReq \cup {IdleReq}]
      /\ rec \in [Reconcilers -> QueryingRec \cup ApplyingRec \cup {IdleRec}]
      /\ stripe \in [PaymentIds -> {"none", "open", "processing", "paid", "failed", "expired"}]
      /\ emitted \subseteq [pay : PaymentIds, kind : StripeKinds]
      /\ transfers \in [TransferIds -> [code : PaymentIds, amt : Amounts] \cup {NoTransfer}]
      /\ shown \subseteq PaymentIds \X Providers
    BY <1>0 DEF TypeOK
<1>2. /\ \A s \in Requests : req[s].ref # Null => pay[req[s].pay].ref = req[s].ref
      /\ \A c \in Reconcilers : rec[c].pc # "idle" => pay[rec[c].pay].ref # Null
    BY <1>0 DEF StaleReadsAreSafe
<1>3. IdleReq.ref = Null
    BY DEF IdleReq
<1>4. ASSUME NEW o \in Orders, NEW prov \in Providers, SessionRead(r, o, prov)
      PROVE  IInv'
  <2>1. PICK q \in InsertingReq \cup OpeningReq :
            req' = [req EXCEPT ![r] = q] /\ (q.ref # Null => pay[q.pay].ref = q.ref)
    <3>1. CASE req' = [req EXCEPT ![r] = [IdleReq EXCEPT !.pc = "insert", !.ord = o, !.prov = prov]]
      <4> DEFINE q == [IdleReq EXCEPT !.pc = "insert", !.ord = o, !.prov = prov]
      <4>1. q \in InsertingReq /\ q.ref = Null
          BY DEF InsertingReq, IdleReq
      <4> HIDE DEF q
      <4> QED
          BY <3>1, <4>1 DEF q
    <3>2. CASE \E p \in PendingOf(o) : req' = [req EXCEPT ![r] = [pc |-> "open", ord |-> o, prov |-> prov,
                                                                 pay |-> p, ref |-> pay[p].ref]]
      <4>1. PICK p \in PendingOf(o) : req' = [req EXCEPT ![r] = [pc |-> "open", ord |-> o, prov |-> prov,
                                                                 pay |-> p, ref |-> pay[p].ref]]
          BY <3>2
      <4>2. p \in PaymentIds /\ pay[p] \in PaymentRows
          BY <1>0, RowForms DEF PendingOf, Used
      <4> DEFINE q == [pc |-> "open", ord |-> o, prov |-> prov, pay |-> p, ref |-> pay[p].ref]
      <4>3. q \in OpeningReq /\ q.ref = pay[p].ref /\ q.pay = p
          BY <4>2 DEF OpeningReq, PaymentRows
      <4>4. req' = [req EXCEPT ![r] = q]
          BY <4>1
      <4> HIDE DEF q
      <4> QED
          BY <4>3, <4>4
    <3> QED
        BY <1>4, <3>1, <3>2 DEF SessionRead
  <2>2. UNCHANGED <<dbVars, stripe, emitted, transfers, shown, rec>>
      BY <1>4 DEF SessionRead, extVars
  <2> QED
      BY <1>1, <1>2, <2>1, <2>2, LocalStep
<1>5. CASE SessionReuse(r)
  <2>1. req[r] \in OpeningReq
      BY <1>0, <1>5, LocalForms DEF SessionReuse
  <2>2. shown' = shown \/ (shown' = shown \cup {<<req[r].pay, req[r].prov>>} /\ req[r].ref = req[r].prov)
      BY <1>5 DEF SessionReuse
  <2>3. shown' \subseteq PaymentIds \X Providers
      BY <1>1, <2>1, <2>2 DEF OpeningReq
  <2>4. \A x \in shown' : x \in shown \/ (pay[x[1]].prov = x[2] /\ pay[x[1]].ref = x[2])
      BY <1>0, <1>2, <1>5, <2>1, <2>2 DEF StaleReadsAreSafe, OpeningReq, SessionReuse
  <2>5. req' = [req EXCEPT ![r] = IdleReq] /\ UNCHANGED <<dbVars, stripe, emitted, transfers, rec>>
      BY <1>5 DEF SessionReuse, extVars
  <2> QED
      BY <1>1, <1>2, <1>3, <2>3, <2>4, <2>5, LocalStep
<1>6. CASE SessionOpen(r)
  <2>1. req[r] \in OpeningReq
      BY <1>0, <1>6, LocalForms DEF SessionOpen
  <2>2. stripe' \in [PaymentIds -> {"none", "open", "processing", "paid", "failed", "expired"}]
      BY <1>1, <1>6 DEF SessionOpen
  <2>3. /\ req' \in [Requests -> InsertingReq \cup OpeningReq \cup {IdleReq}]
        /\ \A s \in Requests : req'[s].ref = req[s].ref /\ req'[s].pay = req[s].pay
      BY <1>1, <1>6, <2>1 DEF SessionOpen, OpeningReq
  <2>4. UNCHANGED <<dbVars, emitted, transfers, shown, rec>>
      BY <1>6 DEF SessionOpen
  <2> QED
      BY <1>1, <1>2, <2>2, <2>3, <2>4, LocalStep
<1>7. CASE SessionAbort(r)
  <2>1. req' = [req EXCEPT ![r] = IdleReq] /\ UNCHANGED <<dbVars, stripe, emitted, transfers, shown, rec>>
      BY <1>7 DEF SessionAbort, extVars
  <2> QED
      BY <1>1, <1>2, <1>3, <2>1, LocalStep
<1>8. CASE SessionInsert(r)
  <2>1. req[r] \in InsertingReq
      BY <1>0, <1>8, LocalForms DEF SessionInsert
  <2> DEFINE o == req[r].ord
             opening(p, ref) == [pc |-> "open", ord |-> o, prov |-> req[r].prov, pay |-> p, ref |-> ref]
  <2>2. o \in Orders /\ req[r].prov \in Providers
      BY <2>1 DEF InsertingReq
  <2>3. UNCHANGED <<order, events, outbox, anomalies, stripe, emitted, transfers, shown, rec>>
      BY <1>8 DEF SessionInsert, extVars
  <2>4. ASSUME NEW p \in PaymentIds, pay[p] = Unused,
               pay' = [pay EXCEPT ![p] = Row(o, req[r].prov)],
               req' = [req EXCEPT ![r] = opening(p, Null)]
        PROVE  IInv'
    <3>1. opening(p, Null) \in OpeningReq /\ opening(p, Null).ref = Null
        BY <2>2 DEF OpeningReq
    <3>2. /\ Row(o, req[r].prov) \in PaymentRows
          /\ Row(o, req[r].prov).ref = Null /\ Row(o, req[r].prov).st = "PENDING"
        BY <2>2 DEF Row, PaymentRows
    <3>3. pay[p].ref = Null /\ pay[p].st # "SUCCEEDED" /\ pay[p].ord = NoOrder
        BY <2>4 DEF Unused
    <3>4. /\ req' \in [Requests -> InsertingReq \cup OpeningReq \cup {IdleReq}]
          /\ \A s \in Requests : req'[s] = req[s] \/ req'[s].ref = Null
        BY <1>1, <2>4, <3>1
    <3> QED
        BY <1>1, <2>3, <2>4, <3>2, <3>3, <3>4, RowStep
  <2>5. ASSUME NEW p \in PendingOf(o), req' = [req EXCEPT ![r] = opening(p, pay[p].ref)], UNCHANGED pay
        PROVE  IInv'
    <3>1. p \in PaymentIds /\ pay[p] \in PaymentRows
        BY <1>0, RowForms DEF PendingOf, Used
    <3>2. opening(p, pay[p].ref) \in OpeningReq
        BY <2>2, <3>1 DEF OpeningReq, PaymentRows
    <3>3. /\ req' \in [Requests -> InsertingReq \cup OpeningReq \cup {IdleReq}]
          /\ \A s \in Requests : req'[s].ref # Null => pay[req'[s].pay].ref = req'[s].ref
        BY <1>1, <1>2, <2>5, <3>2
    <3>4. UNCHANGED dbVars
        BY <2>3, <2>5 DEF dbVars
    <3> QED
        BY <1>1, <1>2, <2>3, <3>3, <3>4, LocalStep
  <2> QED
      BY <1>8, <2>4, <2>5 DEF SessionInsert
<1>9. CASE SessionClaim(r)
  <2>1. req[r] \in OpeningReq
      BY <1>0, <1>9, LocalForms DEF SessionClaim
  <2> DEFINE p == req[r].pay
             prov == req[r].prov
  <2>2. p \in PaymentIds /\ prov \in Providers
      BY <2>1 DEF OpeningReq
  <2>3. /\ UNCHANGED <<order, events, outbox, anomalies, stripe, emitted, transfers, rec>>
        /\ req' = [req EXCEPT ![r] = IdleReq]
      BY <1>9 DEF SessionClaim, extVars
  <2>4. /\ req' \in [Requests -> InsertingReq \cup OpeningReq \cup {IdleReq}]
        /\ \A s \in Requests : req'[s] = req[s] \/ req'[s].ref = Null
      BY <1>1, <1>3, <2>3
  <2>5. CASE pay[p].st = "PENDING" /\ pay[p].ref = Null
    <3> DEFINE row == [pay[p] EXCEPT !.prov = prov, !.ref = prov]
    <3>1. pay[p] \in PaymentRows
        BY <1>0, <2>2, <2>5, RowForms
    <3>2. row \in PaymentRows /\ row.st = "PENDING" /\ row.ord = pay[p].ord /\ row.prov = prov /\ row.ref = prov
        BY <2>2, <2>5, <3>1 DEF PaymentRows
    <3>3. pay' = [pay EXCEPT ![p] = row] /\ shown' = shown \cup {<<p, prov>>}
      <4>1. pay' = [pay EXCEPT ![p].prov = prov, ![p].ref = prov] /\ shown' = shown \cup {<<p, prov>>}
          BY <1>9, <2>5 DEF SessionClaim
      <4> QED
          BY <1>0, <2>2, <3>1, <4>1 DEF TypeOK, PaymentRows
    <3>4. shown' \subseteq PaymentIds \X Providers
        BY <1>1, <2>2, <3>3
    <3>5. \A x \in shown' : x \in shown \/ (x[1] = p /\ row.prov = x[2] /\ row.ref = x[2])
        BY <3>2, <3>3
    <3>6. pay[p].st # "SUCCEEDED" /\ pay[p].ref = Null /\ pay[p].ord \in {row.ord, NoOrder}
        BY <2>5, <3>2
    <3>7. row.ref # Null => row.prov = row.ref
        BY <3>2
    <3> HIDE DEF row, p
    <3> QED
        BY <2>2, <2>3, <2>4, <3>2, <3>3, <3>4, <3>5, <3>6, <3>7, RowStep
  <2>6. CASE ~(pay[p].st = "PENDING" /\ pay[p].ref = Null)
    <3>1. pay' = pay
        BY <1>9, <2>6 DEF SessionClaim
    <3>2. shown' = shown \/ (shown' = shown \cup {<<p, prov>>} /\ pay[p].prov = prov /\ pay[p].ref = prov)
        BY <1>9, <2>6 DEF SessionClaim
    <3>3. shown' \subseteq PaymentIds \X Providers
        BY <1>1, <2>2, <3>2
    <3>4. \A x \in shown' : x \in shown \/ (pay[x[1]].prov = x[2] /\ pay[x[1]].ref = x[2])
        BY <3>2
    <3>5. UNCHANGED dbVars
        BY <2>3, <3>1 DEF dbVars
    <3> QED
        BY <1>1, <1>2, <2>3, <2>4, <3>3, <3>4, <3>5, LocalStep
  <2> QED
      BY <2>5, <2>6
<1> QED
    BY <1>4, <1>5, <1>6, <1>7, <1>8, <1>9 DEF Session

\* A delivered webhook, of either provider, keeps the invariant.
LEMMA WebhookStep ==
    ASSUME IInv, Webhook
    PROVE  IInv'
<1>0. TypeOK
    BY DEF IInv
<1>1. /\ UNCHANGED <<stripe, emitted, transfers, shown, req, rec>>
      /\ rec \in [Reconcilers -> QueryingRec \cup ApplyingRec \cup {IdleRec}]
    BY <1>0 DEF Webhook, HandleStripeWebhook, HandleSepayWebhook, extVars, TypeOK
<1>2. ASSUME NEW m \in emitted, HandleStripeWebhook(m)
      PROVE  IInv'
  <2> DEFINE e == StripeEvidence(m)
  <2>1. m.pay \in PaymentIds /\ m.kind \in StripeKinds
      BY <1>0 DEF TypeOK
  <2>2. e.prov = "stripe" /\ e.id = <<m.pay, m.kind>> /\ e.pay = m.pay
      BY DEF StripeEvidence, Evidence
  <2>3. e.type \in Terminal
      BY <1>2, <2>1 DEF HandleStripeWebhook, StripeEvidence, Evidence, StripeKinds, Terminal
  <2>4. e.prov \in Providers /\ e.id \in EventIds /\ e.pay \in PaymentIds
      BY <2>1, <2>2 DEF Providers, EventIds
  <2>5. ProcessAuthoritativePaymentEvent(e)
      BY <1>2 DEF HandleStripeWebhook
  <2> HIDE DEF e
  <2> QED
      BY <1>1, <2>3, <2>4, <2>5, EventStep
<1>3. ASSUME NEW t \in TransferIds, HandleSepayWebhook(t)
      PROVE  IInv'
  <2>1. PICK p \in PaymentIds :
            ProcessAuthoritativePaymentEvent(Evidence("sepay", <<"tx", t>>, p, transfers[t].amt, "SUCCEEDED"))
      BY <1>3 DEF HandleSepayWebhook
  <2> DEFINE e == Evidence("sepay", <<"tx", t>>, p, transfers[t].amt, "SUCCEEDED")
  <2>2. e.prov \in Providers /\ e.id \in EventIds /\ e.pay \in PaymentIds /\ e.type \in Terminal
      BY DEF Evidence, Providers, EventIds, Terminal
  <2>3. ProcessAuthoritativePaymentEvent(e)
      BY <2>1
  <2> HIDE DEF e
  <2> QED
      BY <1>1, <2>2, <2>3, EventStep
<1> QED
    BY <1>2, <1>3 DEF Webhook

\* Every step of a reconciliation keeps the invariant.
LEMMA ReconcileStep ==
    ASSUME IInv, NEW c \in Reconcilers, Reconcile(c)
    PROVE  IInv'
<1>0. TypeOK /\ StaleReadsAreSafe
    BY DEF IInv
<1>1. /\ req \in [Requests -> InsertingReq \cup OpeningReq \cup {IdleReq}]
      /\ rec \in [Reconcilers -> QueryingRec \cup ApplyingRec \cup {IdleRec}]
      /\ stripe \in [PaymentIds -> {"none", "open", "processing", "paid", "failed", "expired"}]
      /\ emitted \subseteq [pay : PaymentIds, kind : StripeKinds]
      /\ transfers \in [TransferIds -> [code : PaymentIds, amt : Amounts] \cup {NoTransfer}]
      /\ shown \subseteq PaymentIds \X Providers
    BY <1>0 DEF TypeOK
<1>2. /\ \A s \in Requests : req[s].ref # Null => pay[req[s].pay].ref = req[s].ref
      /\ \A d \in Reconcilers : rec[d].pc # "idle" => pay[rec[d].pay].ref # Null
    BY <1>0 DEF StaleReadsAreSafe
<1>3. IdleRec.pc = "idle"
    BY DEF IdleRec
<1>4. ASSUME NEW p \in PaymentIds, ReconcileRead(c, p)
      PROVE  IInv'
  <2> DEFINE row == [IdleRec EXCEPT !.pc = "query", !.pay = p]
  <2>1. row \in QueryingRec /\ row.pay = p
      BY DEF IdleRec, QueryingRec
  <2>2. /\ pay[p].ref # Null /\ rec' = [rec EXCEPT ![c] = row]
        /\ UNCHANGED <<dbVars, stripe, emitted, transfers, shown, req>>
      BY <1>4 DEF ReconcileRead, extVars
  <2> HIDE DEF row
  <2>3. /\ rec' \in [Reconcilers -> QueryingRec \cup ApplyingRec \cup {IdleRec}]
        /\ \A d \in Reconcilers : rec'[d].pc # "idle" => pay[rec'[d].pay].ref # Null
      BY <1>1, <1>2, <2>1, <2>2
  <2> QED
      BY <1>1, <1>2, <2>2, <2>3, LocalStep
<1>5. CASE ReconcileQuery(c)
  <2>1. rec[c] \in QueryingRec /\ rec[c].pc = "query"
      BY <1>0, <1>5, LocalForms DEF ReconcileQuery
  <2>2. rec[c].pay \in PaymentIds /\ pay[rec[c].pay].ref # Null /\ pay[rec[c].pay] \in PaymentRows
      BY <1>0, <1>2, <2>1, RowForms DEF QueryingRec
  <2>3. Total[pay[rec[c].pay].ord] \in Amounts
      BY <2>2, PaymentsAssumption DEF PaymentRows
  <2>4. \A e \in QueryResults(rec[c].pay) : e \in FinalEvidence
      BY <2>2, <2>3 DEF QueryResults, Evidence, FinalEvidence, Providers, EventIds, StripeKinds, Terminal
  <2>5. /\ \/ \E e \in FinalEvidence : rec' = [rec EXCEPT ![c].pc = "apply", ![c].ev = e]
           \/ rec' = [rec EXCEPT ![c] = IdleRec]
        /\ UNCHANGED <<dbVars, stripe, emitted, transfers, shown, req>>
      BY <1>5, <2>4 DEF ReconcileQuery, extVars
  <2>6. CASE rec' = [rec EXCEPT ![c] = IdleRec]
      BY <1>1, <1>2, <1>3, <2>5, <2>6, LocalStep
  <2>7. ASSUME NEW e \in FinalEvidence, rec' = [rec EXCEPT ![c].pc = "apply", ![c].ev = e]
        PROVE  IInv'
    <3> DEFINE row == [rec[c] EXCEPT !.pc = "apply", !.ev = e]
    <3>1. rec' = [rec EXCEPT ![c] = row]
        BY <1>1, <2>1, <2>7 DEF QueryingRec
    <3>2. row \in ApplyingRec /\ row.pay = rec[c].pay
        BY <2>1, <2>2 DEF QueryingRec, ApplyingRec
    <3> HIDE DEF row
    <3>3. /\ rec' \in [Reconcilers -> QueryingRec \cup ApplyingRec \cup {IdleRec}]
          /\ \A d \in Reconcilers : rec'[d].pc # "idle" => pay[rec'[d].pay].ref # Null
        BY <1>1, <1>2, <2>2, <3>1, <3>2
    <3> QED
        BY <1>1, <1>2, <2>5, <3>3, LocalStep
  <2> QED
      BY <2>5, <2>6, <2>7
<1>6. CASE ReconcileApply(c)
  <2> DEFINE e == rec[c].ev
  <2>1. rec[c] \in ApplyingRec
      BY <1>0, <1>6, LocalForms DEF ReconcileApply
  <2>2. e.prov \in Providers /\ e.id \in EventIds /\ e.pay \in PaymentIds /\ e.type \in Terminal
      BY <2>1 DEF ApplyingRec, FinalEvidence
  <2>3. /\ rec' = [rec EXCEPT ![c] = IdleRec]
        /\ UNCHANGED <<stripe, emitted, transfers, shown, req>>
        /\ ProcessAuthoritativePaymentEvent(e) \/ UNCHANGED dbVars
      BY <1>6 DEF ReconcileApply, extVars
  <2>4. /\ rec' \in [Reconcilers -> QueryingRec \cup ApplyingRec \cup {IdleRec}]
        /\ \A d \in Reconcilers : rec'[d] = rec[d] \/ rec'[d].pc = "idle"
        /\ \A d \in Reconcilers : rec'[d].pc # "idle" => pay[rec'[d].pay].ref # Null
      BY <1>1, <1>2, <1>3, <2>3
  <2> HIDE DEF e
  <2>5. CASE ProcessAuthoritativePaymentEvent(e)
      BY <2>2, <2>3, <2>4, <2>5, EventStep
  <2>6. CASE UNCHANGED dbVars
      BY <1>1, <1>2, <2>3, <2>4, <2>6, LocalStep
  <2> QED
      BY <2>3, <2>5, <2>6
<1> QED
    BY <1>4, <1>5, <1>6 DEF Reconcile

\* Customers, banks, Stripe and the local test callback keep the invariant.
LEMMA WorldStep ==
    ASSUME IInv, World \/ TestCallback
    PROVE  IInv'
<1>0. TypeOK /\ StaleReadsAreSafe
    BY DEF IInv
<1>1. /\ req \in [Requests -> InsertingReq \cup OpeningReq \cup {IdleReq}]
      /\ rec \in [Reconcilers -> QueryingRec \cup ApplyingRec \cup {IdleRec}]
      /\ stripe \in [PaymentIds -> {"none", "open", "processing", "paid", "failed", "expired"}]
      /\ emitted \subseteq [pay : PaymentIds, kind : StripeKinds]
      /\ transfers \in [TransferIds -> [code : PaymentIds, amt : Amounts] \cup {NoTransfer}]
      /\ shown \subseteq PaymentIds \X Providers
    BY <1>0 DEF TypeOK
<1>2. /\ \A s \in Requests : req[s].ref # Null => pay[req[s].pay].ref = req[s].ref
      /\ \A d \in Reconcilers : rec[d].pc # "idle" => pay[rec[d].pay].ref # Null
    BY <1>0 DEF StaleReadsAreSafe
<1>3. ASSUME NEW p \in PaymentIds, StripePays(p) \/ StripeExpires(p)
      PROVE  IInv'
  <2>1. UNCHANGED <<dbVars, transfers, shown, req, rec>>
      BY <1>3 DEF StripePays, StripeExpires
  <2>2. stripe' \in [PaymentIds -> {"none", "open", "processing", "paid", "failed", "expired"}]
      BY <1>1, <1>3 DEF StripePays, StripeExpires
  <2>3. emitted' \subseteq [pay : PaymentIds, kind : StripeKinds]
      BY <1>1, <1>3 DEF StripePays, StripeExpires, StripeKinds
  <2> QED
      BY <1>1, <1>2, <2>1, <2>2, <2>3, LocalStep
<1>4. ASSUME NEW t \in TransferIds, NEW p \in PaymentIds, NEW amt \in Amounts, BankTransfer(t, p, amt)
      PROVE  IInv'
  <2>1. UNCHANGED <<dbVars, stripe, emitted, shown, req, rec>>
      BY <1>4 DEF BankTransfer
  <2>2. transfers' \in [TransferIds -> [code : PaymentIds, amt : Amounts] \cup {NoTransfer}]
      BY <1>1, <1>4 DEF BankTransfer
  <2> QED
      BY <1>1, <1>2, <2>1, <2>2, LocalStep
<1>5. ASSUME NEW id \in TestEventIds, NEW p \in PaymentIds, NEW type \in Terminal, ProcessTestCallback(id, p, type)
      PROVE  IInv'
  <2>1. /\ UNCHANGED <<anomalies, stripe, emitted, transfers, shown, req, rec>>
        /\ pay[p] # Unused
      BY <1>5 DEF ProcessTestCallback, TestOutcome, extVars, Used
  <2>2. events' \subseteq EventRows
    <3>1. [prov |-> "TEST", id |-> <<"test", id>>, pay |-> p, type |-> type] \in EventRows
        BY DEF EventRows, EventIds
    <3>2. events' = events \cup {[prov |-> "TEST", id |-> <<"test", id>>, pay |-> p, type |-> type]}
        BY <1>5 DEF ProcessTestCallback, TestOutcome, Evidence
    <3> QED
        BY <1>0, <3>1, <3>2 DEF TypeOK
  <2>3. CASE pay[p].st # "PENDING"
    <3>1. UNCHANGED <<order, pay, outbox>>
        BY <1>5, <2>3 DEF ProcessTestCallback
    <3> QED
        BY <1>1, <2>1, <2>2, <3>1, RecordStep
  <2>4. CASE pay[p].st = "PENDING"
    <3>1. /\ pay' = [pay EXCEPT ![p].st = type]
          /\ \/ /\ type # "SUCCEEDED"
                /\ \/ UNCHANGED order
                   \/ order[pay[p].ord] = "PENDING_PAYMENT" /\ order' = [order EXCEPT ![pay[p].ord] = "CANCELLED"]
                /\ UNCHANGED outbox
             \/ /\ type = "SUCCEEDED"
                /\ order[pay[p].ord] = "PENDING_PAYMENT"
                /\ order' = [order EXCEPT ![pay[p].ord] = "PAID"]
                /\ outbox' = outbox \cup {[ord |-> pay[p].ord, pay |-> p]}
        BY <1>5, <2>4 DEF ProcessTestCallback, TestOutcome
    <3> QED
        BY <1>1, <2>1, <2>2, <2>4, <3>1, StatusStep
  <2> QED
      BY <2>3, <2>4
<1> QED
    BY <1>3, <1>4, <1>5 DEF World, TestCallback

\* Every step of the system keeps the invariant.
LEMMA NextIInv == IInv /\ [Next]_vars => IInv'
<1> SUFFICES ASSUME IInv, [Next]_vars PROVE IInv'
    OBVIOUS
<1>1. CASE \E r \in Requests : Session(r)
    BY <1>1, SessionStep
<1>2. CASE \E c \in Reconcilers : Reconcile(c)
    BY <1>2, ReconcileStep
<1>3. CASE Webhook
    BY <1>3, WebhookStep
<1>4. CASE World \/ TestCallback
    BY <1>4, WorldStep
<1>5. CASE UNCHANGED vars
    BY <1>5 DEF vars, IInv, TypeOK, PaidOnceAnnouncedOnce, SurplusPaymentsAreFlagged,
                ShownSessionIsBound, StaleReadsAreSafe
<1> QED
    BY <1>1, <1>2, <1>3, <1>4, <1>5 DEF Next

\* The inductive invariant holds in every reachable state.
LEMMA Invariance == Spec => []IInv
<1> QED
    BY InitIInv, NextIInv, PTL DEF Spec

-----------------------------------------------------------------------------

\* Every row, request and reconciliation keeps one of its forms.
THEOREM TypeCorrect == Spec => []TypeOK
<1>1. IInv => TypeOK
    BY DEF IInv
<1> QED
    BY <1>1, Invariance, PTL

\* processAuthoritativePaymentEvent and the test callback mark an order PAID and
\* insert its ORDER_PAID event together, once, for any number of attempts,
\* webhooks and reconciliations.
THEOREM AnnouncedOnce == Spec => []PaidOnceAnnouncedOnce
<1>1. IInv => PaidOnceAnnouncedOnce
    BY DEF IInv
<1> QED
    BY <1>1, Invariance, PTL

\* Every successful attempt is the announced one or is flagged as a duplicate.
THEOREM SurplusFlagged == Spec => []SurplusPaymentsAreFlagged
<1>1. IInv => SurplusPaymentsAreFlagged
    BY DEF IInv
<1> QED
    BY <1>1, Invariance, PTL

\* createPaymentSession only hands out the session its attempt is bound to.
THEOREM ShownIsBound == Spec => []ShownSessionIsBound
<1>1. IInv => ShownSessionIsBound
    BY DEF IInv
<1> QED
    BY <1>1, Invariance, PTL

\* What a session request or a reconciliation read of a bound row is still true when
\* it is used, however many transactions ran in between.
THEOREM StaleReadsSafe == Spec => []StaleReadsAreSafe
<1>1. IInv => StaleReadsAreSafe
    BY DEF IInv
<1> QED
    BY <1>1, Invariance, PTL

\* Rows are in shape and what was read of them stays true, always.
THEOREM WellFormedAlways == Spec => []WellFormed
<1>1. IInv => WellFormed
    BY DEF IInv, WellFormed
<1> QED
    BY <1>1, Invariance, PTL

-----------------------------------------------------------------------------
\* What a step may not do to an attempt and to an order.
Forward ==
    /\ \A p \in PaymentIds : pay[p].ref # Null => pay'[p].ref = pay[p].ref /\ pay'[p].prov = pay[p].prov
    /\ \A p \in PaymentIds : pay[p].st \in Terminal => pay'[p].st = pay[p].st
    /\ \A o \in Orders : order[o] # "PENDING_PAYMENT" => order'[o] = order[o]

\* The end of a pending attempt, however it comes, moves its row and its order forward.
LEMMA EndMovesForward ==
    ASSUME TypeOK, NEW p \in PaymentIds, pay[p].st = "PENDING", NEW st,
           pay' = [pay EXCEPT ![p].st = st],
           \/ UNCHANGED order
           \/ \E o \in Orders, to \in {"PAID", "CANCELLED"} :
                order[o] = "PENDING_PAYMENT" /\ order' = [order EXCEPT ![o] = to]
    PROVE  Forward
<1>1. \A q \in PaymentIds : /\ pay'[q].ref = pay[q].ref /\ pay'[q].prov = pay[q].prov
                            /\ q # p => pay'[q].st = pay[q].st
    BY RowForms DEF TypeOK, PaymentRows, Unused
<1>2. \A o \in Orders : order[o] # "PENDING_PAYMENT" => order'[o] = order[o]
    BY DEF TypeOK
<1> QED
    BY <1>1, <1>2 DEF Forward, Terminal

LEMMA EventMovesForward ==
    ASSUME TypeOK, NEW e, e.pay \in PaymentIds, ProcessAuthoritativePaymentEvent(e)
    PROVE  Forward
<1>1. CASE LateEvent(e)
    BY <1>1 DEF LateEvent, Forward
<1>2. CASE AttemptEnds(e)
    BY <1>2, EndMovesForward DEF AttemptEnds
<1>3. CASE AttemptSucceeds(e)
  <2>1. pay[e.pay].ord \in Orders /\ pay[e.pay].st = "PENDING"
    BY <1>3, RowForms DEF AttemptSucceeds, Record, Accepts, Used, PaymentRows
  <2> QED
    BY <1>3, <2>1, EndMovesForward DEF AttemptSucceeds
<1> QED
    BY <1>1, <1>2, <1>3 DEF ProcessAuthoritativePaymentEvent

LEMMA StepMovesForward == ASSUME IInv, [Next]_vars PROVE Forward
<1>1. TypeOK
    BY DEF IInv
<1>2. CASE UNCHANGED <<order, pay>>
    BY <1>2 DEF Forward
<1>3. ASSUME NEW r \in Requests, SessionInsert(r) PROVE Forward
  <2>1. UNCHANGED order /\ (UNCHANGED pay \/ \E p \in PaymentIds : pay[p] = Unused /\ pay' = [pay EXCEPT ![p] = Row(req[r].ord, req[r].prov)])
    BY <1>3 DEF SessionInsert
  <2>2. \A p \in PaymentIds : pay[p] # Unused => pay'[p] = pay[p]
    BY <1>1, <2>1 DEF TypeOK
  <2> QED
    BY <2>1, <2>2 DEF Forward, Unused, Terminal
<1>4. ASSUME NEW r \in Requests, SessionClaim(r) PROVE Forward
  <2> DEFINE p == req[r].pay
             row == [pay[p] EXCEPT !.prov = req[r].prov, !.ref = req[r].prov]
  <2>1. UNCHANGED order /\ (UNCHANGED pay \/ (pay[p].st = "PENDING" /\ pay[p].ref = Null /\ pay' = [pay EXCEPT ![p] = row]))
    BY <1>4 DEF SessionClaim
  <2>2. p \in PaymentIds
    BY <1>1, <1>4, LocalForms DEF SessionClaim, OpeningReq
  <2>3. pay[p].st = "PENDING" => row.st = "PENDING"
    BY <1>1, <2>2, RowForms DEF PaymentRows, Unused
  <2> HIDE DEF row, p
  <2>4. \A q \in PaymentIds : pay'[q] = pay[q] \/ (q = p /\ pay[p].st = "PENDING" /\ pay[p].ref = Null)
    BY <1>1, <2>1, <2>2 DEF TypeOK
  <2> QED
    BY <2>1, <2>4 DEF Forward, Terminal
<1>5. ASSUME NEW m \in emitted, HandleStripeWebhook(m) PROVE Forward
  <2>1. StripeEvidence(m).pay \in PaymentIds
    BY <1>1 DEF StripeEvidence, Evidence, TypeOK
  <2> QED
    BY <1>1, <1>5, <2>1, EventMovesForward DEF HandleStripeWebhook
<1>6. ASSUME NEW t \in TransferIds, HandleSepayWebhook(t) PROVE Forward
    BY <1>1, <1>6, EventMovesForward DEF HandleSepayWebhook, Evidence
<1>7. ASSUME NEW c \in Reconcilers, ReconcileApply(c) PROVE Forward
  <2>1. rec[c].ev.pay \in PaymentIds
    BY <1>1, <1>7, LocalForms DEF ReconcileApply, ApplyingRec, FinalEvidence
  <2>2. CASE ProcessAuthoritativePaymentEvent(rec[c].ev)
    BY <1>1, <2>1, <2>2, EventMovesForward
  <2> QED
    BY <1>2, <1>7, <2>2 DEF ReconcileApply, dbVars
<1>8. ASSUME NEW id \in TestEventIds, NEW p \in PaymentIds, NEW type \in Terminal, ProcessTestCallback(id, p, type)
      PROVE  Forward
  <2>1. CASE UNCHANGED <<order, pay>>
    BY <1>2, <2>1
  <2>2. CASE pay[p].st = "PENDING" /\ pay' = [pay EXCEPT ![p].st = type] /\ TestOutcome(p, type)
    <3>1. pay[p].ord \in Orders
      BY <1>1, <1>8, RowForms DEF ProcessTestCallback, Used, PaymentRows
    <3>2. \/ UNCHANGED order
          \/ \E to \in {"PAID", "CANCELLED"} :
               order[pay[p].ord] = "PENDING_PAYMENT" /\ order' = [order EXCEPT ![pay[p].ord] = to]
      BY <2>2 DEF TestOutcome
    <3> QED
      BY <1>1, <2>2, <3>1, <3>2, EndMovesForward
  <2> QED
    BY <1>8, <2>1, <2>2 DEF ProcessTestCallback
<1>9. \/ UNCHANGED <<order, pay>>
      \/ \E r \in Requests : SessionInsert(r) \/ SessionClaim(r)
      \/ \E m \in emitted : HandleStripeWebhook(m)
      \/ \E t \in TransferIds : HandleSepayWebhook(t)
      \/ \E c \in Reconcilers : ReconcileApply(c)
      \/ \E id \in TestEventIds, p \in PaymentIds, type \in Terminal : ProcessTestCallback(id, p, type)
    BY DEF Next, vars, dbVars, Session, Reconcile, Webhook, World, TestCallback, SessionRead, SessionReuse, SessionOpen,
           SessionAbort, ReconcileRead, ReconcileQuery, StripePays, StripeExpires, BankTransfer
<1> QED
    BY <1>2, <1>3, <1>4, <1>5, <1>6, <1>7, <1>8, <1>9

\* No claim, webhook, reconciliation or test callback takes back a binding or an outcome,
\* for any number of orders, attempts and requests.
THEOREM MovesForward == Spec => AttemptsMoveForward
<1>1. IInv /\ [Next]_vars =>
        /\ [\A p \in PaymentIds : pay[p].ref # Null =>
              pay'[p].ref = pay[p].ref /\ pay'[p].prov = pay[p].prov]_vars
        /\ [/\ \A p \in PaymentIds : pay[p].st \in Terminal => pay'[p].st = pay[p].st
            /\ \A o \in Orders : order[o] # "PENDING_PAYMENT" => order'[o] = order[o]]_vars
    BY StepMovesForward DEF Forward
<1> QED
    BY <1>1, Invariance, PTL DEF Spec, AttemptsMoveForward, BoundReferenceIsFinal, FinalStatusIsFinal

-----------------------------------------------------------------------------
(***************************************************************************)
(* Success only with money received.  What connects an attempt with its    *)
(* provider are pieces of evidence in flight: a webhook on its way, or the *)
(* answer a reconciliation holds while other transactions run.  They stay  *)
(* true because a provider never takes a capture back.                     *)
(***************************************************************************)

\* The provider named by e really holds the amount e speaks of.
Received(e) ==
    /\ e.prov = "stripe" => stripe[e.pay] = "paid"
    /\ e.prov = "sepay" => \E t \in TransferIds : transfers[t] = [code |-> e.pay, amt |-> e.amt]

\* Every success in flight reports money that was received.
EvidenceIsReal ==
    /\ \A m \in emitted : m.kind \in {"completed_paid", "async_succeeded"} => stripe[m.pay] = "paid"
    /\ \A c \in Reconcilers : rec[c].pc = "apply" /\ rec[c].ev.type = "SUCCEEDED" => Received(rec[c].ev)

CaptureInv == NoSuccessWithoutCapture /\ EvidenceIsReal

\* What no step takes back: a capture, a transfer, an event, the order of a used row, and
\* the reference of a bound one.
FactsKept ==
    /\ \A p \in PaymentIds : stripe[p] = "paid" => stripe'[p] = "paid"
    /\ \A t \in TransferIds : transfers[t] # NoTransfer => transfers'[t] = transfers[t]
    /\ events \subseteq events'
    /\ \A p \in PaymentIds : pay[p].ref # Null => pay'[p].ref = pay[p].ref /\ pay'[p].ord = pay[p].ord

\* Setting the status of a row leaves its order and its binding alone.
LEMMA StatusKeepsBinding ==
    ASSUME TypeOK, NEW p \in PaymentIds, NEW st, pay' = [pay EXCEPT ![p].st = st]
    PROVE  /\ pay'[p].st = st
           /\ \A q \in PaymentIds : /\ pay'[q].ref = pay[q].ref /\ pay'[q].ord = pay[q].ord
                                    /\ q # p => pay'[q].st = pay[q].st
<1>1. \A q \in PaymentIds : q # p => pay'[q] = pay[q]
    BY DEF TypeOK
<1>2. pay'[p] = [pay[p] EXCEPT !.st = st]
    BY DEF TypeOK
<1>3. pay'[p].ref = pay[p].ref /\ pay'[p].ord = pay[p].ord /\ pay'[p].st = st
    BY <1>2, RowForms DEF PaymentRows, Unused
<1> QED
    BY <1>1, <1>3

\* The transaction of a payment event keeps every fact, and an attempt it makes successful
\* is the one its evidence speaks of, bound to that provider for that amount.
LEMMA EventKeepsFacts ==
    ASSUME TypeOK, NEW e, e.pay \in PaymentIds, ProcessAuthoritativePaymentEvent(e), UNCHANGED <<stripe, transfers>>
    PROVE  /\ FactsKept
           /\ \A p \in PaymentIds : pay'[p].st = "SUCCEEDED" =>
                 \/ pay[p].st = "SUCCEEDED"
                 \/ p = e.pay /\ e.type = "SUCCEEDED" /\ pay[p].ref = e.prov /\ Total[pay[p].ord] = e.amt
<1>1. pay[e.pay].ref = e.prov /\ Total[pay[e.pay].ord] = e.amt /\ events \subseteq events'
    BY DEF ProcessAuthoritativePaymentEvent, LateEvent, AttemptEnds, AttemptSucceeds, Record, Accepts
<1>2. CASE UNCHANGED pay
    BY <1>1, <1>2 DEF FactsKept
<1>3. CASE pay' = [pay EXCEPT ![e.pay].st = e.type]
  <2>1. /\ pay'[e.pay].st = e.type
        /\ \A q \in PaymentIds : /\ pay'[q].ref = pay[q].ref /\ pay'[q].ord = pay[q].ord
                                 /\ q # e.pay => pay'[q].st = pay[q].st
      BY <1>3, StatusKeepsBinding
  <2> QED
      BY <1>1, <2>1 DEF FactsKept
<1> QED
    BY <1>2, <1>3 DEF ProcessAuthoritativePaymentEvent, LateEvent, AttemptEnds, AttemptSucceeds

\* A transfer that arrived keeps its code and its amount.
LEMMA TransfersKept ==
    ASSUME FactsKept, NEW t \in TransferIds, NEW p \in PaymentIds, NEW a, transfers[t] = [code |-> p, amt |-> a]
    PROVE  transfers'[t] = [code |-> p, amt |-> a]
<1>1. transfers[t].code # NoPayment
    BY PaymentsAssumption
<1> QED
    BY <1>1 DEF FactsKept, NoTransfer

\* Money an attempt's provider received for it stays received, and so does what is in flight.
LEMMA CaptureKept ==
    ASSUME TypeOK, FactsKept
    PROVE  /\ \A p \in PaymentIds : Captured(p) => Captured(p)'
           /\ \A p \in PaymentIds : TestConfirmed(p) => TestConfirmed(p)'
           /\ \A e : e.pay \in PaymentIds /\ Received(e) => Received(e)'
<1>1. ASSUME NEW p \in PaymentIds, Captured(p) PROVE Captured(p)'
  <2>1. pay[p].ref # Null
      BY <1>1 DEF Captured, Null
  <2>2. pay'[p].ref = pay[p].ref /\ pay'[p].ord = pay[p].ord
      BY <2>1 DEF FactsKept
  <2>3. CASE pay[p].ref = "stripe" /\ stripe[p] = "paid"
      BY <2>2, <2>3 DEF FactsKept, Captured
  <2>4. CASE pay[p].ref = "sepay" /\ [code |-> p, amt |-> Total[pay[p].ord]] \in {transfers[t] : t \in TransferIds}
    <3>1. PICK t \in TransferIds : transfers[t] = [code |-> p, amt |-> Total[pay[p].ord]]
        BY <2>4
    <3>2. transfers'[t] = [code |-> p, amt |-> Total[pay'[p].ord]]
        BY <2>2, <3>1, TransfersKept
    <3> QED
        BY <2>2, <2>4, <3>2 DEF Captured
  <2> QED
      BY <1>1, <2>3, <2>4 DEF Captured
<1>2. \A p \in PaymentIds : TestConfirmed(p) => TestConfirmed(p)'
    BY DEF TestConfirmed, FactsKept
<1>3. ASSUME NEW e, e.pay \in PaymentIds, Received(e) PROVE Received(e)'
    BY <1>3, TransfersKept DEF Received, FactsKept
<1> QED
    BY <1>1, <1>2, <1>3

\* A bound attempt whose evidence is real has captured its money.
LEMMA RealEvidenceIsCapture ==
    ASSUME NEW e, e.prov \in Providers, e.pay \in PaymentIds, Received(e),
           pay[e.pay].ref = e.prov, Total[pay[e.pay].ord] = e.amt
    PROVE  Captured(e.pay)
BY DEF Providers, Received, Captured

\* No step takes back what a provider, a bank or an event said, or moves a bound row.
LEMMA StepKeepsFacts == ASSUME IInv, [Next]_vars PROVE FactsKept
<1>1. TypeOK
    BY DEF IInv
<1>2. CASE UNCHANGED <<pay, events, stripe, transfers>>
    BY <1>2 DEF FactsKept
<1>3. ASSUME NEW r \in Requests, SessionOpen(r) PROVE FactsKept
    BY <1>1, <1>3 DEF SessionOpen, FactsKept, TypeOK, dbVars
<1>4. ASSUME NEW r \in Requests, SessionInsert(r) PROVE FactsKept
  <2>1. UNCHANGED pay \/ \E p \in PaymentIds : pay[p] = Unused /\ pay' = [pay EXCEPT ![p] = Row(req[r].ord, req[r].prov)]
      BY <1>4 DEF SessionInsert
  <2>2. \A p \in PaymentIds : pay[p] # Unused => pay'[p] = pay[p]
      BY <1>1, <2>1 DEF TypeOK
  <2> QED
      BY <1>4, <2>2 DEF SessionInsert, extVars, FactsKept, Unused
<1>5. ASSUME NEW r \in Requests, SessionClaim(r) PROVE FactsKept
  <2> DEFINE p == req[r].pay
  <2>1. /\ UNCHANGED <<events, stripe, transfers>>
        /\ UNCHANGED pay \/ (pay[p].ref = Null /\ pay' = [pay EXCEPT ![p] = [pay[p] EXCEPT !.prov = req[r].prov, !.ref = req[r].prov]])
      BY <1>5 DEF SessionClaim, extVars
  <2>2. p \in PaymentIds
      BY <1>1, <1>5, LocalForms DEF SessionClaim, OpeningReq
  <2> HIDE DEF p
  <2>3. \A q \in PaymentIds : pay'[q] = pay[q] \/ (q = p /\ pay[p].ref = Null)
      BY <1>1, <2>1, <2>2 DEF TypeOK
  <2> QED
      BY <2>1, <2>3 DEF FactsKept
<1>6. ASSUME NEW m \in emitted, HandleStripeWebhook(m) PROVE FactsKept
  <2>1. StripeEvidence(m).pay \in PaymentIds
      BY <1>1 DEF StripeEvidence, Evidence, TypeOK
  <2> QED
      BY <1>1, <1>6, <2>1, EventKeepsFacts DEF HandleStripeWebhook, extVars
<1>7. ASSUME NEW t \in TransferIds, HandleSepayWebhook(t) PROVE FactsKept
    BY <1>1, <1>7, EventKeepsFacts DEF HandleSepayWebhook, Evidence, extVars
<1>8. ASSUME NEW c \in Reconcilers, ReconcileApply(c) PROVE FactsKept
  <2>1. rec[c].ev.pay \in PaymentIds
      BY <1>1, <1>8, LocalForms DEF ReconcileApply, ApplyingRec, FinalEvidence
  <2>2. CASE ProcessAuthoritativePaymentEvent(rec[c].ev)
      BY <1>1, <1>8, <2>1, <2>2, EventKeepsFacts DEF ReconcileApply, extVars
  <2> QED
      BY <1>2, <1>8, <2>2 DEF ReconcileApply, dbVars, extVars
<1>9. ASSUME NEW id \in TestEventIds, NEW p \in PaymentIds, NEW type \in Terminal, ProcessTestCallback(id, p, type)
      PROVE  FactsKept
  <2>1. UNCHANGED <<stripe, transfers>> /\ events \subseteq events'
      BY <1>9 DEF ProcessTestCallback, extVars
  <2>2. UNCHANGED pay \/ pay' = [pay EXCEPT ![p].st = type]
      BY <1>9 DEF ProcessTestCallback
  <2> QED
      BY <1>1, <2>1, <2>2, StatusKeepsBinding DEF FactsKept
<1>10. ASSUME NEW p \in PaymentIds, StripePays(p) \/ StripeExpires(p) PROVE FactsKept
    BY <1>1, <1>10 DEF StripePays, StripeExpires, FactsKept, TypeOK, dbVars
<1>11. ASSUME NEW t \in TransferIds, NEW p \in PaymentIds, NEW amt \in Amounts, BankTransfer(t, p, amt) PROVE FactsKept
    BY <1>1, <1>11 DEF BankTransfer, FactsKept, TypeOK, dbVars
<1>12. \/ UNCHANGED <<pay, events, stripe, transfers>>
       \/ \E r \in Requests : SessionInsert(r) \/ SessionClaim(r) \/ SessionOpen(r)
       \/ \E m \in emitted : HandleStripeWebhook(m)
       \/ \E t \in TransferIds : HandleSepayWebhook(t)
       \/ \E c \in Reconcilers : ReconcileApply(c)
       \/ \E id \in TestEventIds, p \in PaymentIds, type \in Terminal : ProcessTestCallback(id, p, type)
       \/ \E p \in PaymentIds : StripePays(p) \/ StripeExpires(p)
       \/ \E t \in TransferIds, p \in PaymentIds, amt \in Amounts : BankTransfer(t, p, amt)
    BY DEF Next, vars, dbVars, extVars, Session, Reconcile, Webhook, World, TestCallback, SessionRead, SessionReuse,
           SessionAbort, ReconcileRead, ReconcileQuery
<1> QED
    BY <1>2, <1>3, <1>4, <1>5, <1>6, <1>7, <1>8, <1>9, <1>10, <1>11, <1>12

\* The transaction of an event whose success is real makes no attempt successful without its
\* money; nothing else it touches is about captures.
LEMMA EventCaptures ==
    ASSUME IInv, CaptureInv, FactsKept, NEW e, e.prov \in Providers, e.pay \in PaymentIds,
           e.type = "SUCCEEDED" => Received(e),
           ProcessAuthoritativePaymentEvent(e), UNCHANGED <<stripe, transfers>>
    PROVE  NoSuccessWithoutCapture'
<1>1. TypeOK
    BY DEF IInv
<1> SUFFICES ASSUME NEW p \in PaymentIds, pay'[p].st = "SUCCEEDED"
             PROVE  Captured(p)' \/ TestConfirmed(p)'
    BY DEF NoSuccessWithoutCapture
<1>2. \/ pay[p].st = "SUCCEEDED"
      \/ p = e.pay /\ e.type = "SUCCEEDED" /\ pay[p].ref = e.prov /\ Total[pay[p].ord] = e.amt
    BY <1>1, EventKeepsFacts
<1>3. Captured(p) \/ TestConfirmed(p)
    BY <1>2, RealEvidenceIsCapture DEF CaptureInv, NoSuccessWithoutCapture
<1> QED
    BY <1>1, <1>3, CaptureKept

\* A step that makes no attempt successful keeps the successes it finds covered.
LEMMA QuietStepCaptures ==
    ASSUME TypeOK, CaptureInv, FactsKept,
           \A p \in PaymentIds : pay'[p].st = "SUCCEEDED" => pay[p].st = "SUCCEEDED"
    PROVE  NoSuccessWithoutCapture'
BY CaptureKept DEF CaptureInv, NoSuccessWithoutCapture

\* Evidence in flight stays real when a step adds none.
LEMMA FlightKept ==
    ASSUME TypeOK, CaptureInv, FactsKept, UNCHANGED emitted,
           \A c \in Reconcilers : rec'[c] = rec[c] \/ rec'[c].pc # "apply"
    PROVE  EvidenceIsReal'
<1>1. \A m \in emitted : m.pay \in PaymentIds
    BY DEF TypeOK
<1>2. ASSUME NEW c \in Reconcilers, rec'[c].pc = "apply", rec'[c].ev.type = "SUCCEEDED" PROVE Received(rec[c].ev)'
  <2>1. rec'[c] = rec[c] /\ rec[c].ev.pay \in PaymentIds
      BY <1>2, LocalForms DEF ApplyingRec, FinalEvidence
  <2>2. Received(rec[c].ev)
      BY <1>2, <2>1 DEF CaptureInv, EvidenceIsReal
  <2> QED
      BY <2>1, <2>2, TransfersKept DEF Received, FactsKept
<1>3. \A c \in Reconcilers : rec'[c].pc = "apply" => rec'[c] = rec[c]
    OBVIOUS
<1> QED
    BY <1>1, <1>2, <1>3 DEF CaptureInv, EvidenceIsReal, FactsKept, Received

\* What a provider answers a reconciliation is evidence of money received.
LEMMA AnswerIsReal ==
    ASSUME TypeOK, NEW p \in PaymentIds, pay[p] \in PaymentRows, NEW e \in QueryResults(p), e.type = "SUCCEEDED"
    PROVE  Received(e)
<1>1. CASE pay[p].ref = "stripe"
    BY <1>1 DEF QueryResults, Evidence, Received
<1>2. CASE pay[p].ref # "stripe"
  <2>1. PICK t \in TransferIds : SepayMatch(t, p) /\ e = Evidence("sepay", <<"tx", t>>, p, Total[pay[p].ord], "SUCCEEDED")
      BY <1>2 DEF QueryResults
  <2>2. transfers[t] = [code |-> p, amt |-> Total[pay[p].ord]]
      BY <2>1, PaymentsAssumption DEF SepayMatch, TypeOK, NoTransfer
  <2> QED
      BY <2>1, <2>2 DEF Evidence, Received
<1> QED
    BY <1>1, <1>2

\* Every step keeps the captures: a success comes from evidence in flight or from the test
\* callback, and evidence in flight comes from a provider that holds the money.
LEMMA CaptureStep == ASSUME IInv, CaptureInv, [Next]_vars PROVE CaptureInv'
<1>0. TypeOK /\ FactsKept /\ IInv'
    BY StepKeepsFacts, NextIInv DEF IInv
<1>1. CASE UNCHANGED <<pay, emitted, rec>>
    BY <1>0, <1>1, QuietStepCaptures, FlightKept DEF CaptureInv
<1>2. ASSUME NEW r \in Requests, SessionInsert(r) \/ SessionClaim(r) PROVE CaptureInv'
  <2>1. \A p \in PaymentIds : pay'[p].st = "SUCCEEDED" => pay[p].st = "SUCCEEDED"
    <3>1. CASE SessionInsert(r)
        BY <1>0, <3>1 DEF SessionInsert, Row, TypeOK
    <3>2. CASE SessionClaim(r)
      <4>1. req[r].pay \in PaymentIds
          BY <1>0, <3>2, LocalForms DEF SessionClaim, OpeningReq
      <4> QED
          BY <1>0, <3>2, <4>1, RowForms DEF SessionClaim, TypeOK, PaymentRows
    <3> QED
        BY <1>2, <3>1, <3>2
  <2>2. UNCHANGED <<emitted, rec>>
      BY <1>2 DEF SessionInsert, SessionClaim, extVars
  <2> QED
      BY <1>0, <2>1, <2>2, QuietStepCaptures, FlightKept DEF CaptureInv
<1>3. ASSUME NEW m \in emitted, HandleStripeWebhook(m) PROVE CaptureInv'
  <2> DEFINE e == StripeEvidence(m)
  <2>1. m.pay \in PaymentIds /\ m.kind \in StripeKinds
      BY <1>0 DEF TypeOK
  <2>2. e.prov = "stripe" /\ e.pay = m.pay /\ (e.type = "SUCCEEDED" => m.kind \in {"completed_paid", "async_succeeded"})
      BY <2>1 DEF StripeEvidence, Evidence, StripeKinds
  <2>3. e.type = "SUCCEEDED" => Received(e)
      BY <2>2 DEF Received, CaptureInv, EvidenceIsReal
  <2>4. ProcessAuthoritativePaymentEvent(e) /\ UNCHANGED <<stripe, emitted, transfers, rec>>
      BY <1>3 DEF HandleStripeWebhook, extVars
  <2> HIDE DEF e
  <2>5. NoSuccessWithoutCapture'
      BY <1>0, <2>1, <2>2, <2>3, <2>4, EventCaptures DEF Providers
  <2> QED
      BY <1>0, <2>4, <2>5, FlightKept DEF CaptureInv
<1>4. ASSUME NEW t \in TransferIds, HandleSepayWebhook(t) PROVE CaptureInv'
  <2>1. PICK p \in PaymentIds :
            /\ SepayMatch(t, p)
            /\ ProcessAuthoritativePaymentEvent(Evidence("sepay", <<"tx", t>>, p, transfers[t].amt, "SUCCEEDED"))
      BY <1>4 DEF HandleSepayWebhook
  <2> DEFINE e == Evidence("sepay", <<"tx", t>>, p, transfers[t].amt, "SUCCEEDED")
  <2>2. transfers[t] = [code |-> p, amt |-> transfers[t].amt]
      BY <1>0, <2>1, PaymentsAssumption DEF SepayMatch, TypeOK, NoTransfer
  <2>3. e.prov = "sepay" /\ e.pay = p /\ Received(e)
      BY <2>2 DEF Evidence, Received
  <2>4. ProcessAuthoritativePaymentEvent(e) /\ UNCHANGED <<stripe, emitted, transfers, rec>>
      BY <1>4, <2>1 DEF HandleSepayWebhook, extVars
  <2> HIDE DEF e
  <2>5. NoSuccessWithoutCapture'
      BY <1>0, <2>3, <2>4, EventCaptures DEF Providers
  <2> QED
      BY <1>0, <2>4, <2>5, FlightKept DEF CaptureInv
<1>5. ASSUME NEW c \in Reconcilers, NEW p \in PaymentIds, ReconcileRead(c, p) PROVE CaptureInv'
  <2>1. UNCHANGED <<pay, emitted>> /\ \A d \in Reconcilers : rec'[d] = rec[d] \/ rec'[d].pc # "apply"
      BY <1>0, <1>5 DEF ReconcileRead, dbVars, extVars, TypeOK, IdleRec
  <2> QED
      BY <1>0, <2>1, QuietStepCaptures, FlightKept DEF CaptureInv
<1>6. ASSUME NEW c \in Reconcilers, ReconcileQuery(c) PROVE CaptureInv'
  <2> DEFINE p == rec[c].pay
  <2>1. UNCHANGED <<pay, emitted, stripe, transfers>> /\ rec[c].pc = "query" /\ rec[c] \in QueryingRec
      BY <1>0, <1>6, LocalForms DEF ReconcileQuery, dbVars, extVars
  <2>2. p \in PaymentIds /\ pay[p] \in PaymentRows
      BY <1>0, <2>1, RowForms DEF QueryingRec, IInv, StaleReadsAreSafe
  <2>3. NoSuccessWithoutCapture'
      BY <1>0, <2>1, QuietStepCaptures
  <2>4. CASE \E e \in QueryResults(p) : rec' = [rec EXCEPT ![c].pc = "apply", ![c].ev = e]
    <3>1. PICK e \in QueryResults(p) : rec' = [rec EXCEPT ![c].pc = "apply", ![c].ev = e]
        BY <2>4
    <3>2. e.type = "SUCCEEDED" => Received(e)
        BY <1>0, <2>2, AnswerIsReal
    <3>3. rec'[c].ev = e /\ \A d \in Reconcilers : d # c => rec'[d] = rec[d]
        BY <1>0, <2>1, <3>1 DEF TypeOK, QueryingRec
    <3>4. \A d \in Reconcilers : rec'[d].pc = "apply" /\ rec'[d].ev.type = "SUCCEEDED" => Received(rec'[d].ev)
        BY <3>2, <3>3 DEF CaptureInv, EvidenceIsReal
    <3>5. EvidenceIsReal'
        BY <2>1, <3>4 DEF CaptureInv, EvidenceIsReal, Received
    <3> QED
        BY <2>3, <3>5 DEF CaptureInv
  <2>5. CASE rec' = [rec EXCEPT ![c] = IdleRec]
    <3>1. \A d \in Reconcilers : rec'[d] = rec[d] \/ rec'[d].pc # "apply"
        BY <1>0, <2>5 DEF TypeOK, IdleRec
    <3> QED
        BY <1>0, <2>1, <2>3, <3>1, FlightKept DEF CaptureInv
  <2> QED
      BY <1>6, <2>4, <2>5 DEF ReconcileQuery
<1>7. ASSUME NEW c \in Reconcilers, ReconcileApply(c) PROVE CaptureInv'
  <2> DEFINE e == rec[c].ev
  <2>1. /\ UNCHANGED <<stripe, emitted, transfers>>
        /\ \A d \in Reconcilers : rec'[d] = rec[d] \/ rec'[d].pc # "apply"
      BY <1>0, <1>7 DEF ReconcileApply, extVars, TypeOK, IdleRec
  <2>2. e.prov \in Providers /\ e.pay \in PaymentIds /\ (e.type = "SUCCEEDED" => Received(e))
      BY <1>0, <1>7, LocalForms DEF ReconcileApply, ApplyingRec, FinalEvidence, CaptureInv, EvidenceIsReal
  <2>3. ProcessAuthoritativePaymentEvent(e) \/ UNCHANGED pay
      BY <1>7 DEF ReconcileApply, dbVars
  <2> HIDE DEF e
  <2>4. NoSuccessWithoutCapture'
      BY <1>0, <2>1, <2>2, <2>3, EventCaptures, QuietStepCaptures
  <2> QED
      BY <1>0, <2>1, <2>4, FlightKept DEF CaptureInv
<1>8. ASSUME NEW id \in TestEventIds, NEW p \in PaymentIds, NEW type \in Terminal, ProcessTestCallback(id, p, type)
      PROVE  CaptureInv'
  <2>1. UNCHANGED <<emitted, rec>>
      BY <1>8 DEF ProcessTestCallback, extVars
  <2>2. TestConfirmed(p)' \/ type # "SUCCEEDED"
    <3>1. events' = events \cup {[prov |-> "TEST", id |-> <<"test", id>>, pay |-> p, type |-> type]}
        BY <1>8 DEF ProcessTestCallback, Evidence
    <3>2. [prov |-> "TEST", id |-> <<"test", id>>, pay |-> p, type |-> type] \in events'
        BY <3>1
    <3> QED
        BY <3>2 DEF TestConfirmed
  <2>3. \A q \in PaymentIds : pay'[q].st = "SUCCEEDED" => pay[q].st = "SUCCEEDED" \/ (q = p /\ type = "SUCCEEDED")
    <3>1. UNCHANGED pay \/ pay' = [pay EXCEPT ![p].st = type]
        BY <1>8 DEF ProcessTestCallback
    <3> QED
        BY <1>0, <3>1, StatusKeepsBinding
  <2>4. NoSuccessWithoutCapture'
      BY <1>0, <2>2, <2>3, CaptureKept DEF CaptureInv, NoSuccessWithoutCapture
  <2> QED
      BY <1>0, <2>1, <2>4, FlightKept DEF CaptureInv
<1>9. ASSUME NEW p \in PaymentIds, StripePays(p) \/ StripeExpires(p) PROVE CaptureInv'
  <2>1. UNCHANGED <<pay, transfers, rec>>
      BY <1>9 DEF StripePays, StripeExpires, dbVars
  <2>2. \A m \in emitted : m \in [pay : PaymentIds, kind : StripeKinds]
      BY <1>0 DEF TypeOK
  <2>3. \A m \in emitted' : m.kind \in {"completed_paid", "async_succeeded"} => stripe'[m.pay] = "paid"
    <3> SUFFICES ASSUME NEW m \in emitted', m.kind \in {"completed_paid", "async_succeeded"} PROVE stripe'[m.pay] = "paid"
        OBVIOUS
    <3>1. CASE m \in emitted
        BY <1>0, <2>2, <3>1 DEF CaptureInv, EvidenceIsReal, FactsKept
    <3>2. CASE m \notin emitted
        BY <1>0, <1>9, <3>2 DEF StripePays, StripeExpires, TypeOK
    <3> QED
        BY <3>1, <3>2
  <2>4. \A d \in Reconcilers : rec[d].pc = "apply" /\ rec[d].ev.type = "SUCCEEDED" => Received(rec[d].ev)'
    <3> SUFFICES ASSUME NEW d \in Reconcilers, rec[d].pc = "apply", rec[d].ev.type = "SUCCEEDED" PROVE Received(rec[d].ev)'
        OBVIOUS
    <3>1. rec[d].ev.pay \in PaymentIds /\ Received(rec[d].ev)
        BY <1>0, LocalForms DEF ApplyingRec, FinalEvidence, CaptureInv, EvidenceIsReal
    <3> QED
        BY <1>0, <2>1, <3>1 DEF Received, FactsKept
  <2>5. EvidenceIsReal'
      BY <2>1, <2>3, <2>4 DEF EvidenceIsReal, Received
  <2> QED
      BY <1>0, <2>1, <2>5, QuietStepCaptures DEF CaptureInv
<1>10. \/ UNCHANGED <<pay, emitted, rec>>
       \/ \E r \in Requests : SessionInsert(r) \/ SessionClaim(r)
       \/ \E m \in emitted : HandleStripeWebhook(m)
       \/ \E t \in TransferIds : HandleSepayWebhook(t)
       \/ \E c \in Reconcilers : ReconcileQuery(c) \/ ReconcileApply(c)
       \/ \E c \in Reconcilers, p \in PaymentIds : ReconcileRead(c, p)
       \/ \E id \in TestEventIds, p \in PaymentIds, type \in Terminal : ProcessTestCallback(id, p, type)
       \/ \E p \in PaymentIds : StripePays(p) \/ StripeExpires(p)
    BY DEF Next, vars, dbVars, extVars, Session, Reconcile, Webhook, World, TestCallback, SessionRead, SessionReuse,
           SessionOpen, SessionAbort, BankTransfer
<1> QED
    BY <1>1, <1>2, <1>3, <1>4, <1>5, <1>6, <1>7, <1>8, <1>9, <1>10

\* No attempt is ever SUCCEEDED unless the provider it is bound to received the order's exact
\* amount under its reference, or the signed test callback said so: for any number of
\* webhooks and reconciliations, delivered and answered in any order.
THEOREM SuccessIsCaptured == Spec => []NoSuccessWithoutCapture
<1>1. Init => CaptureInv
    BY DEF Init, CaptureInv, NoSuccessWithoutCapture, EvidenceIsReal, Row, Unused, IdleRec
<1>2. CaptureInv => NoSuccessWithoutCapture
    BY DEF CaptureInv
<1> QED
    BY <1>1, <1>2, CaptureStep, Invariance, PTL DEF Spec
=============================================================================
