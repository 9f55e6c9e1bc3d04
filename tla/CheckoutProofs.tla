--------------------------- MODULE CheckoutProofs ---------------------------
(***************************************************************************)
(* Proofs about Checkout, for any users, carts, prices, keys, calls and    *)
(* quantities.                                                             *)
(***************************************************************************)
EXTENDS Checkout, SumLemmas, TLAPS

CartRows == [usr : Users, st : {"ACTIVE", "CONVERTED"}, cur : Currencies, qty : Quantities]
KeyRows == [st : {"IN_PROGRESS"}, cur : Currencies, age : {"fresh", "stale", "expired"}, cart : {NoCart}]
             \cup [st : {"COMMITTED"}, cur : Currencies, age : {"fresh", "stale", "expired"}, cart : CartIds]
             \cup {Absent}
CheckoutCalls == [pc : {"reserve", "reclaim", "poll", "cleanup"}, usr : Users, key : Keys, cur : Currencies]
                   \cup [pc : {"tx"}, usr : Users, key : Keys \cup {NoKey}, cur : Currencies]
CartCalls == [pc : {"target", "add", "view"}, usr : Users, item : Prices \cup {NoCart}, qty : 0 .. MaxQty,
              cur : Currencies \cup {"none"}, cart : CartIds \cup {NoCart}]
UserKeys == Users \X Keys

\* The tables and the calls keep their shape; what an order charges is left out.
Shape ==
    /\ price \in [Prices -> [cur : Currencies, amt : Amounts, on : BOOLEAN]]
    /\ cart \in [CartIds -> CartRows \cup {NoRow}]
    /\ keys \in [UserKeys -> KeyRows]
    /\ co \in [Checkouts -> CheckoutCalls \cup {IdleCo}]
    /\ wr \in [Writers -> CartCalls \cup {IdleWr}]
    /\ \A w \in Writers :
         /\ wr[w].pc \in {"target", "add"} => wr[w].item \in Prices /\ wr[w].cur \in Currencies
         /\ wr[w].pc = "add" => wr[w].cart \in CartIds
    /\ \A o \in orders : o.cart \in CartIds /\ o.usr \in Users /\ o.key \in Keys \cup {NoKey}

\* Call r takes itself for the leader of key uk, or is about to take it over.
Leader(r, uk) == co[r].pc \in {"tx", "cleanup"} /\ uk = <<co[r].usr, co[r].key>>
Reclaims(r, uk) == co[r].pc = "reclaim" /\ uk = <<co[r].usr, co[r].key>>

\* Until a leader outlives its lease, the reservation of a key is that of its one leader, and
\* whoever takes a stale one over sent the same request.
OneLeader ==
    \A uk \in UserKeys \ overran, r \in Checkouts :
      /\ Leader(r, uk) => keys[uk].st = "IN_PROGRESS" /\ keys[uk].age = "fresh" /\ keys[uk].cur = co[r].cur
      /\ \A s \in Checkouts : Leader(r, uk) /\ Leader(s, uk) => r = s
      /\ Reclaims(r, uk) /\ keys[uk].st = "IN_PROGRESS" /\ keys[uk].age # "fresh" => keys[uk].cur = co[r].cur

Promises == OrderIsItsCart /\ CommittedKeysHold /\ OneOrderWithinLease

IInv == Shape /\ OneLeader /\ Promises

LEMMA CallForms ==
    ASSUME Shape, NEW r \in Checkouts, co[r].pc # "idle"
    PROVE  /\ co[r] \in CheckoutCalls /\ co[r].usr \in Users /\ co[r].cur \in Currencies /\ co[r].key \in Keys \cup {NoKey}
           /\ co[r].pc # "tx" => co[r].key \in Keys
<1>1. co[r] \in CheckoutCalls
    BY DEF Shape, IdleCo
<1> QED
    BY <1>1 DEF CheckoutCalls

LEMMA InitIInv == Init => IInv
<1> SUFFICES ASSUME Init PROVE IInv
    OBVIOUS
<1>1. Shape
    BY DEF Init, Shape, KeyRows, IdleWr, UserKeys
<1>2. OneLeader
    BY DEF Init, OneLeader, Leader, Reclaims, IdleCo
<1>3. orders = {} /\ \A c \in CartIds : cart[c].st = "none"
    BY DEF Init, NoRow
<1>4. \A uk \in UserKeys : keys[uk].st = "ABSENT"
    BY DEF Init, Absent, UserKeys
<1>5. Promises
    BY <1>3, <1>4 DEF Promises, OrderIsItsCart, CommittedKeysHold, CommittedKeyNamesItsOrder, KeyAnswersItsRequest,
                      OneOrderWithinLease, UserKeys
<1> QED
    BY <1>1, <1>2, <1>5 DEF IInv

-----------------------------------------------------------------------------
\* A step that makes no order and leaves the carts that were checked out and the keys that
\* were committed as they are.
LEMMA PromisesStay ==
    ASSUME IInv, orders' = orders, overran \subseteq overran',
           \A c \in CartIds : cart[c].st = "CONVERTED" \/ cart'[c].st = "CONVERTED" => cart'[c] = cart[c],
           \A uk \in UserKeys :
             keys[uk].st = "COMMITTED" \/ keys'[uk].st = "COMMITTED" =>
               /\ keys'[uk].st = keys[uk].st /\ keys'[uk].cart = keys[uk].cart /\ keys'[uk].cur = keys[uk].cur
    PROVE  Promises'
<1>1. \A o \in orders : o.cart \in CartIds /\ o.usr \in Users /\ o.key \in Keys \cup {NoKey}
    BY DEF IInv, Shape
<1>2. OrderIsItsCart'
    BY <1>1 DEF IInv, Promises, OrderIsItsCart
<1>3. CommittedKeyNamesItsOrder'
    BY <1>1 DEF IInv, Promises, CommittedKeysHold, CommittedKeyNamesItsOrder, UserKeys
<1>4. KeyAnswersItsRequest'
  <2> SUFFICES ASSUME NEW u \in Users, NEW k \in Keys, keys'[<<u, k>>].st = "COMMITTED", <<u, k>> \notin overran'
               PROVE  cart'[keys'[<<u, k>>].cart].cur = keys'[<<u, k>>].cur
    BY DEF KeyAnswersItsRequest
  <2>1. /\ keys[<<u, k>>].st = "COMMITTED" /\ keys'[<<u, k>>].cart = keys[<<u, k>>].cart /\ keys'[<<u, k>>].cur = keys[<<u, k>>].cur
        /\ <<u, k>> \notin overran
    BY DEF UserKeys
  <2>2. cart[keys[<<u, k>>].cart].cur = keys[<<u, k>>].cur
    BY <2>1 DEF IInv, Promises, CommittedKeysHold, KeyAnswersItsRequest
  <2>3. PICK o \in orders : o.cart = keys[<<u, k>>].cart
    BY <2>1 DEF IInv, Promises, CommittedKeysHold, CommittedKeyNamesItsOrder
  <2>4. o.cart \in CartIds /\ cart[o.cart].st = "CONVERTED"
    BY <1>1 DEF IInv, Promises, OrderIsItsCart
  <2> QED
    BY <2>1, <2>2, <2>3, <2>4
<1>5. OneOrderWithinLease'
    BY DEF IInv, Promises, OneOrderWithinLease
<1> QED
    BY <1>2, <1>3, <1>4, <1>5 DEF Promises, CommittedKeysHold

\* Cart calls and the catalogue touch no cart that was checked out.
LEMMA CartsStep ==
    ASSUME IInv, UNCHANGED <<keys, orders, co, overran>>, Shape',
           \A c \in CartIds : cart'[c] = cart[c] \/ (cart[c].st # "CONVERTED" /\ cart'[c].st # "CONVERTED")
    PROVE  IInv'
<1>1. OneLeader'
    BY DEF IInv, OneLeader, Leader, Reclaims
<1>2. Promises'
    BY PromisesStay
<1> QED
    BY <1>1, <1>2 DEF IInv

\* A cart is found or created for its user.
LEMMA GetOrCreate ==
    ASSUME IInv, NEW u \in Users, NEW cur \in Currencies, NEW c \in CartIds, GetOrCreateActiveCart(u, cur, c)
    PROVE  /\ cart' \in [CartIds -> CartRows \cup {NoRow}]
           /\ \A d \in CartIds : cart'[d] = cart[d] \/ (cart[d].st # "CONVERTED" /\ cart'[d].st # "CONVERTED")
<1>1. CASE UNCHANGED cart
    BY <1>1 DEF IInv, Shape
<1>2. CASE cart[c] = NoRow /\ cart' = [cart EXCEPT ![c] = [NoRow EXCEPT !.usr = u, !.st = "ACTIVE", !.cur = cur]]
  <2>1. NoItems \in Quantities
    BY CheckoutAssumption DEF NoItems, Quantities
  <2>2. [NoRow EXCEPT !.usr = u, !.st = "ACTIVE", !.cur = cur] \in CartRows
    BY <2>1 DEF NoRow, CartRows
  <2>3. cart[c].st = "none" /\ [NoRow EXCEPT !.usr = u, !.st = "ACTIVE", !.cur = cur].st = "ACTIVE"
    BY <1>2 DEF NoRow
  <2> QED
    BY <1>2, <2>2, <2>3 DEF IInv, Shape
<1> QED
    BY <1>1, <1>2 DEF GetOrCreateActiveCart

LEMMA CartCallStep ==
    ASSUME IInv, NEW w \in Writers, CartCall(w)
    PROVE  IInv'
<1> DEFINE Untouched == \A c \in CartIds : cart'[c] = cart[c] \/ (cart[c].st # "CONVERTED" /\ cart'[c].st # "CONVERTED")
<1>1. UNCHANGED <<keys, orders, co, overran, price>>
    BY DEF CartCall, AddItemRead, AddItemTarget, AddItem, CartCallDies, SetItem, GetCart
<1>2. ASSUME cart' \in [CartIds -> CartRows \cup {NoRow}], wr' \in [Writers -> CartCalls \cup {IdleWr}], Untouched,
             wr'[w].pc \in {"target", "add"} => wr'[w].item \in Prices /\ wr'[w].cur \in Currencies,
             wr'[w].pc = "add" => wr'[w].cart \in CartIds,
             \A v \in Writers : v # w => wr'[v] = wr[v]
      PROVE  IInv'
  <2>1. Shape'
    BY <1>1, <1>2 DEF IInv, Shape
  <2> QED
    BY <1>1, <1>2, <2>1, CartsStep
<1>3. ASSUME NEW u \in Users, NEW x \in Prices, NEW q \in 1 .. MaxQty, AddItemRead(w, u, x, q) PROVE IInv'
  <2> DEFINE v == [IdleWr EXCEPT !.pc = "target", !.usr = u, !.item = x, !.qty = q, !.cur = price[x].cur]
  <2>1. price[x].cur \in Currencies /\ q \in 0 .. MaxQty
    BY CheckoutAssumption DEF IInv, Shape
  <2>2. v \in CartCalls /\ v.pc = "target" /\ v.item = x /\ v.cur = price[x].cur
    BY <2>1 DEF IdleWr, CartCalls
  <2>3. wr' = [wr EXCEPT ![w] = v] /\ cart' = cart
    BY <1>3 DEF AddItemRead
  <2> HIDE DEF v
  <2>4. wr' \in [Writers -> CartCalls \cup {IdleWr}] /\ wr'[w] = v /\ \A y \in Writers : y # w => wr'[y] = wr[y]
    BY <2>2, <2>3 DEF IInv, Shape
  <2>5. cart' \in [CartIds -> CartRows \cup {NoRow}]
    BY <2>3 DEF IInv, Shape
  <2> QED
    BY <1>2, <2>1, <2>2, <2>3, <2>4, <2>5
<1>4. ASSUME AddItemTarget(w) PROVE IInv'
  <2>1. PICK c \in CartIds : /\ GetOrCreateActiveCart(wr[w].usr, wr[w].cur, c)
                             /\ wr' = [wr EXCEPT ![w].pc = "add", ![w].cart = c]
    BY <1>4 DEF AddItemTarget
  <2>2. wr[w] \in CartCalls /\ wr[w].item \in Prices /\ wr[w].cur \in Currencies /\ wr[w].usr \in Users
    BY <1>4 DEF AddItemTarget, IInv, Shape, IdleWr, CartCalls
  <2>3. cart' \in [CartIds -> CartRows \cup {NoRow}] /\ Untouched
    BY <2>1, <2>2, GetOrCreate
  <2>4. /\ wr' \in [Writers -> CartCalls \cup {IdleWr}]
        /\ wr'[w].item = wr[w].item /\ wr'[w].cur = wr[w].cur /\ wr'[w].cart = c
        /\ \A y \in Writers : y # w => wr'[y] = wr[y]
    BY <2>1, <2>2 DEF IInv, Shape, CartCalls
  <2> QED
    BY <1>2, <2>2, <2>3, <2>4
<1>5. ASSUME wr' = [wr EXCEPT ![w] = IdleWr], cart' \in [CartIds -> CartRows \cup {NoRow}], Untouched PROVE IInv'
  <2>1. wr' \in [Writers -> CartCalls \cup {IdleWr}] /\ wr'[w].pc = "idle" /\ \A y \in Writers : y # w => wr'[y] = wr[y]
    BY <1>5 DEF IInv, Shape, IdleWr
  <2> QED
    BY <1>2, <1>5, <2>1
<1>6. ASSUME AddItem(w) PROVE IInv'
  <2>1. CASE ~TakesItem(w)
    <3>1. wr' = [wr EXCEPT ![w] = IdleWr] /\ cart' = cart
      BY <1>6, <2>1 DEF AddItem
    <3>2. cart' \in [CartIds -> CartRows \cup {NoRow}] /\ Untouched
      BY <3>1 DEF IInv, Shape
    <3> QED
      BY <1>5, <3>1, <3>2
  <2>2. CASE TakesItem(w)
    <3>1. PICK c \in CartIds, x \in Prices, cur \in Currencies :
            c = wr[w].cart /\ x = wr[w].item /\ cur = wr[w].cur
      BY <1>6 DEF AddItem, IInv, Shape
    <3>2. wr[w] \in CartCalls /\ wr[w].qty \in 0 .. MaxQty
      BY <1>6 DEF AddItem, IInv, Shape, IdleWr, CartCalls
    <3>3. cart[c] \in CartRows /\ cart[c].st = "ACTIVE"
      BY <2>2, <3>1 DEF TakesItem, IInv, Shape, NoRow
    <3>4. cart[c].qty \in Quantities /\ cart[c].qty[x] \in 0 .. MaxQty
      BY <3>1, <3>3 DEF CartRows, Quantities
    <3>5. PICK n \in 0 .. MaxQty : n = NewQty(w)
      BY <2>2, <3>1, <3>2, <3>4, CheckoutAssumption DEF TakesItem, NewQty
    <3>6. /\ cart' = [cart EXCEPT ![c].cur = cur, ![c].qty[x] = n]
          /\ wr' = [wr EXCEPT ![w].pc = "view"]
      BY <1>6, <2>2, <3>1, <3>5 DEF AddItem
    <3>7. [cart[c].qty EXCEPT ![x] = n] \in Quantities
      BY <3>4, <3>5 DEF Quantities
    <3>8. cart' = [cart EXCEPT ![c] = [cart[c] EXCEPT !.cur = cur, !.qty = [cart[c].qty EXCEPT ![x] = n]]]
      BY <3>3, <3>6 DEF IInv, Shape, CartRows
    <3>9. /\ [cart[c] EXCEPT !.cur = cur, !.qty = [cart[c].qty EXCEPT ![x] = n]] \in CartRows
          /\ [cart[c] EXCEPT !.cur = cur, !.qty = [cart[c].qty EXCEPT ![x] = n]].st = "ACTIVE"
      BY <3>3, <3>7 DEF CartRows
    <3>10. cart' \in [CartIds -> CartRows \cup {NoRow}] /\ Untouched
      BY <3>3, <3>8, <3>9 DEF IInv, Shape
    <3>11. /\ wr' \in [Writers -> CartCalls \cup {IdleWr}] /\ wr'[w].pc = "view"
           /\ \A y \in Writers : y # w => wr'[y] = wr[y]
      BY <3>2, <3>6 DEF IInv, Shape, CartCalls
    <3> QED
      BY <1>2, <3>10, <3>11
  <2> QED
    BY <2>1, <2>2
<1>7. ASSUME NEW u \in Users, NEW x \in Prices, NEW q \in 0 .. MaxQty, SetItem(w, u, x, q) PROVE IInv'
  <2>1. PICK c \in ActiveCarts(u) : cart' = [cart EXCEPT ![c].qty[x] = q]
    BY <1>7 DEF SetItem
  <2>2. c \in CartIds /\ cart[c] \in CartRows /\ cart[c].st = "ACTIVE" /\ cart[c].qty \in Quantities
    BY <2>1 DEF ActiveCarts, IInv, Shape, NoRow, CartRows
  <2>3. [cart[c].qty EXCEPT ![x] = q] \in Quantities
    BY <2>2 DEF Quantities
  <2>4. cart' = [cart EXCEPT ![c] = [cart[c] EXCEPT !.qty = [cart[c].qty EXCEPT ![x] = q]]]
    BY <2>1, <2>2 DEF IInv, Shape, CartRows
  <2>5. /\ [cart[c] EXCEPT !.qty = [cart[c].qty EXCEPT ![x] = q]] \in CartRows
        /\ [cart[c] EXCEPT !.qty = [cart[c].qty EXCEPT ![x] = q]].st = "ACTIVE"
    BY <2>2, <2>3 DEF CartRows
  <2>6. cart' \in [CartIds -> CartRows \cup {NoRow}] /\ Untouched
    BY <2>2, <2>4, <2>5 DEF IInv, Shape
  <2> DEFINE v == [IdleWr EXCEPT !.pc = "view", !.usr = u]
  <2>7. v \in CartCalls /\ v.pc = "view"
    <3>1. 0 \in 0 .. MaxQty
      BY CheckoutAssumption
    <3> QED
      BY <3>1 DEF IdleWr, CartCalls
  <2>8. wr' = [wr EXCEPT ![w] = v]
    BY <1>7 DEF SetItem
  <2> HIDE DEF v
  <2>9. /\ wr' \in [Writers -> CartCalls \cup {IdleWr}] /\ wr'[w].pc = "view"
        /\ \A y \in Writers : y # w => wr'[y] = wr[y]
    BY <2>7, <2>8 DEF IInv, Shape
  <2> QED
    BY <1>2, <2>6, <2>9
<1>8. ASSUME NEW u \in Users, NEW cur \in Currencies, GetCart(w, u, cur) PROVE IInv'
  <2>1. PICK c \in CartIds : GetOrCreateActiveCart(u, cur, c)
    BY <1>8 DEF GetCart
  <2>2. wr' = [wr EXCEPT ![w] = IdleWr]
    BY <1>8 DEF GetCart
  <2> QED
    BY <1>5, <2>1, <2>2, GetOrCreate
<1>9. ASSUME CartCallDies(w) PROVE IInv'
  <2>1. cart' = cart /\ wr' = [wr EXCEPT ![w] = IdleWr]
    BY <1>9 DEF CartCallDies
  <2>2. cart' \in [CartIds -> CartRows \cup {NoRow}] /\ Untouched
    BY <2>1 DEF IInv, Shape
  <2> QED
    BY <1>5, <2>1, <2>2
<1> QED
  <2> HIDE DEF Untouched
  <2> QED
    BY <1>3, <1>4, <1>6, <1>7, <1>8, <1>9 DEF CartCall

-----------------------------------------------------------------------------
\* A step of checkout call r that makes no order: it changes its own local record, and the
\* row of a key only if no other leader has it.
LEMMA OwnStep ==
    ASSUME IInv, NEW r \in Checkouts, UNCHANGED <<price, cart, orders, wr, overran>>,
           NEW v \in CheckoutCalls \cup {IdleCo}, co' = [co EXCEPT ![r] = v],
           keys' \in [UserKeys -> KeyRows],
           \A uk \in UserKeys :
             \/ keys'[uk] = keys[uk]
             \/ /\ keys[uk].st # "COMMITTED" /\ keys'[uk].st # "COMMITTED"
                /\ keys'[uk].st = "IN_PROGRESS" => keys'[uk].age = "fresh"
                /\ uk \notin overran => \A s \in Checkouts : s # r => ~Leader(s, uk),
           \A uk \in UserKeys \ overran :
             /\ v.pc \in {"tx", "cleanup"} /\ uk = <<v.usr, v.key>> =>
                  /\ keys'[uk].st = "IN_PROGRESS" /\ keys'[uk].age = "fresh" /\ keys'[uk].cur = v.cur
                  /\ \A s \in Checkouts : s # r => ~Leader(s, uk)
             /\ v.pc = "reclaim" /\ uk = <<v.usr, v.key>> /\ keys'[uk].st = "IN_PROGRESS" /\ keys'[uk].age # "fresh" =>
                  keys'[uk].cur = v.cur
    PROVE  IInv'
<1>1. /\ co' \in [Checkouts -> CheckoutCalls \cup {IdleCo}] /\ co'[r] = v
      /\ \A s \in Checkouts : s # r => co'[s] = co[s]
    BY DEF IInv, Shape
<1>2. Shape'
    BY <1>1 DEF IInv, Shape
<1>3. OneLeader'
  <2> SUFFICES ASSUME NEW uk \in UserKeys \ overran, NEW s \in Checkouts
               PROVE  /\ Leader(s, uk)' => keys'[uk].st = "IN_PROGRESS" /\ keys'[uk].age = "fresh" /\ keys'[uk].cur = co'[s].cur
                      /\ \A t \in Checkouts : Leader(s, uk)' /\ Leader(t, uk)' => s = t
                      /\ Reclaims(s, uk)' /\ keys'[uk].st = "IN_PROGRESS" /\ keys'[uk].age # "fresh" =>
                           keys'[uk].cur = co'[s].cur
    BY DEF OneLeader
  <2>1. /\ Leader(s, uk) => keys[uk].st = "IN_PROGRESS" /\ keys[uk].age = "fresh" /\ keys[uk].cur = co[s].cur
        /\ \A t \in Checkouts : Leader(s, uk) /\ Leader(t, uk) => s = t
        /\ Reclaims(s, uk) /\ keys[uk].st = "IN_PROGRESS" /\ keys[uk].age # "fresh" => keys[uk].cur = co[s].cur
    BY DEF IInv, OneLeader
  <2>2. \A t \in Checkouts : t # r => (Leader(t, uk)' <=> Leader(t, uk)) /\ (Reclaims(t, uk)' <=> Reclaims(t, uk))
    BY <1>1 DEF Leader, Reclaims
  <2>3. /\ Leader(r, uk)' <=> v.pc \in {"tx", "cleanup"} /\ uk = <<v.usr, v.key>>
        /\ Reclaims(r, uk)' <=> v.pc = "reclaim" /\ uk = <<v.usr, v.key>>
    BY <1>1 DEF Leader, Reclaims
  <2>4. CASE s = r
    BY <1>1, <2>2, <2>3, <2>4
  <2>5. CASE s # r
    <3>1. \A t \in Checkouts : Leader(s, uk)' /\ Leader(t, uk)' => s = t
      BY <2>1, <2>2, <2>3, <2>5
    <3> QED
      BY <1>1, <2>1, <2>2, <2>5, <3>1
  <2> QED
    BY <2>4, <2>5
<1>4. Promises'
  <2>1. \A uk \in UserKeys :
          keys[uk].st = "COMMITTED" \/ keys'[uk].st = "COMMITTED" =>
            keys'[uk].st = keys[uk].st /\ keys'[uk].cart = keys[uk].cart /\ keys'[uk].cur = keys[uk].cur
    OBVIOUS
  <2> QED
    BY <2>1, PromisesStay
<1> QED
    BY <1>2, <1>3, <1>4 DEF IInv

\* A step of call r that leaves the keys alone and makes it neither leader nor reclaimer.
LEMMA OnlyGoes ==
    ASSUME IInv, NEW r \in Checkouts, UNCHANGED <<price, cart, keys, orders, wr, overran>>,
           NEW v \in CheckoutCalls \cup {IdleCo}, co' = [co EXCEPT ![r] = v],
           v.pc \in {"idle", "poll", "reserve"} \/ v.key = NoKey
    PROVE  IInv'
<1>1. \A uk \in UserKeys : ~(v.key = NoKey /\ uk = <<v.usr, v.key>>)
    BY CheckoutAssumption DEF UserKeys
<1>2. keys' \in [UserKeys -> KeyRows]
    BY DEF IInv, Shape
<1>3. \A uk \in UserKeys :
        ~(v.pc \in {"tx", "cleanup"} /\ uk = <<v.usr, v.key>>) /\ ~(v.pc = "reclaim" /\ uk = <<v.usr, v.key>>)
    BY <1>1
<1>4. \A uk \in UserKeys \ overran :
        /\ v.pc \in {"tx", "cleanup"} /\ uk = <<v.usr, v.key>> =>
             /\ keys'[uk].st = "IN_PROGRESS" /\ keys'[uk].age = "fresh" /\ keys'[uk].cur = v.cur
             /\ \A s \in Checkouts : s # r => ~Leader(s, uk)
        /\ v.pc = "reclaim" /\ uk = <<v.usr, v.key>> /\ keys'[uk].st = "IN_PROGRESS" /\ keys'[uk].age # "fresh" =>
             keys'[uk].cur = v.cur
    BY <1>3
<1>5. \A uk \in UserKeys : keys'[uk] = keys[uk]
    OBVIOUS
<1> QED
    BY <1>2, <1>4, <1>5, OwnStep

LEMMA StartStep ==
    ASSUME IInv, NEW r \in Checkouts, NEW u \in Users, NEW k \in Keys \cup {NoKey}, NEW cur \in Currencies,
           CheckoutStart(r, u, k, cur)
    PROVE  IInv'
<1> DEFINE V(pc) == [pc |-> pc, usr |-> u, key |-> k, cur |-> cur]
<1>1. UNCHANGED <<price, cart, keys, orders, wr, overran>>
    BY DEF CheckoutStart
<1>2. CASE k = NoKey /\ co' = [co EXCEPT ![r] = V("tx")]
  <2>1. V("tx") \in CheckoutCalls /\ V("tx").key = NoKey
    BY <1>2 DEF CheckoutCalls
  <2> QED
    BY <1>1, <1>2, <2>1, OnlyGoes
<1>3. CASE k # NoKey /\ \E pc \in {"reserve", "poll"} : co' = [co EXCEPT ![r] = V(pc)]
  <2>1. PICK pc \in {"reserve", "poll"} : co' = [co EXCEPT ![r] = V(pc)]
    BY <1>3
  <2>2. V(pc) \in CheckoutCalls /\ V(pc).pc \in {"poll", "reserve"}
    BY <1>3 DEF CheckoutCalls
  <2> QED
    BY <1>1, <2>1, <2>2, OnlyGoes
<1>4. CASE k # NoKey /\ co' = [co EXCEPT ![r] = V("reclaim")] /\ keys[<<u, k>>].cur = cur
  <2> DEFINE v == V("reclaim")
  <2>1. v \in CheckoutCalls /\ v.pc = "reclaim" /\ v.usr = u /\ v.key = k /\ v.cur = cur
    BY <1>4 DEF CheckoutCalls
  <2>2. co' = [co EXCEPT ![r] = v]
    BY <1>4
  <2>3. keys' \in [UserKeys -> KeyRows] /\ keys' = keys
    BY <1>1 DEF IInv, Shape
  <2> HIDE DEF v
  <2>4. \A uk \in UserKeys \ overran :
          /\ v.pc \in {"tx", "cleanup"} /\ uk = <<v.usr, v.key>> =>
               /\ keys'[uk].st = "IN_PROGRESS" /\ keys'[uk].age = "fresh" /\ keys'[uk].cur = v.cur
               /\ \A s \in Checkouts : s # r => ~Leader(s, uk)
          /\ v.pc = "reclaim" /\ uk = <<v.usr, v.key>> /\ keys'[uk].st = "IN_PROGRESS" /\ keys'[uk].age # "fresh" =>
               keys'[uk].cur = v.cur
    BY <1>4, <2>1, <2>3
  <2>5. \A uk \in UserKeys : keys'[uk] = keys[uk]
    BY <2>3
  <2> QED
    BY <1>1, <2>1, <2>2, <2>3, <2>4, <2>5, OwnStep
<1> QED
    BY <1>2, <1>3, <1>4 DEF CheckoutStart

\* What a step to another place leaves of a call whose request is named.
LEMMA Gone ==
    ASSUME Shape, NEW r \in Checkouts, NEW old, NEW pc, NEW u, NEW k, NEW cur,
           co[r] = [pc |-> old, usr |-> u, key |-> k, cur |-> cur], Goto(r, pc)
    PROVE  co' = [co EXCEPT ![r] = [pc |-> pc, usr |-> u, key |-> k, cur |-> cur]]
<1>1. co' = [co EXCEPT ![r] = [co[r] EXCEPT !.pc = pc]]
    BY DEF Goto, Shape
<1>2. [co[r] EXCEPT !.pc = pc] = [pc |-> pc, usr |-> u, key |-> k, cur |-> cur]
    OBVIOUS
<1> QED
    BY <1>1, <1>2

\* Where a call stands, with its request named.
LEMMA Named ==
    ASSUME IInv, NEW r \in Checkouts, NEW pc \in {"reserve", "reclaim", "poll", "cleanup"}, co[r].pc = pc
    PROVE  /\ co[r].usr \in Users /\ co[r].key \in Keys /\ co[r].cur \in Currencies /\ co[r] \in CheckoutCalls
           /\ co[r] = [pc |-> pc, usr |-> co[r].usr, key |-> co[r].key, cur |-> co[r].cur]
           /\ <<co[r].usr, co[r].key>> \in UserKeys /\ Row(r) = keys[<<co[r].usr, co[r].key>>]
<1>1. co[r] \in [pc : {"reserve", "reclaim", "poll", "cleanup"}, usr : Users, key : Keys, cur : Currencies]
    BY DEF IInv, Shape, CheckoutCalls, IdleCo
<1>2. co[r].usr \in Users /\ co[r].key \in Keys /\ co[r].cur \in Currencies
    BY <1>1
<1>3. co[r] = [pc |-> pc, usr |-> co[r].usr, key |-> co[r].key, cur |-> co[r].cur]
    BY <1>1
<1>4. co[r] \in CheckoutCalls
    BY <1>1 DEF CheckoutCalls
<1>5. <<co[r].usr, co[r].key>> \in UserKeys /\ Row(r) = keys[<<co[r].usr, co[r].key>>]
    BY <1>2 DEF Row, UserKeys
<1> QED
    BY <1>2, <1>3, <1>4, <1>5

\* Nobody else leads a key whose row is not a fresh reservation.
LEMMA NoLeader ==
    ASSUME IInv, NEW uk \in UserKeys \ overran, NEW s \in Checkouts,
           keys[uk].st # "IN_PROGRESS" \/ keys[uk].age # "fresh"
    PROVE  ~Leader(s, uk)
BY DEF IInv, OneLeader

\* A call becomes the leader of a key whose row nobody leads.
LEMMA TakesTheLead ==
    ASSUME IInv, NEW r \in Checkouts, NEW u \in Users, NEW k \in Keys, NEW cur \in Currencies, NEW row \in KeyRows,
           UNCHANGED <<price, cart, orders, wr, overran>>,
           co' = [co EXCEPT ![r] = [pc |-> "tx", usr |-> u, key |-> k, cur |-> cur]],
           keys' = [keys EXCEPT ![<<u, k>>] = row],
           keys[<<u, k>>].st = "ABSENT" \/ (keys[<<u, k>>].st = "IN_PROGRESS" /\ keys[<<u, k>>].age # "fresh"),
           row.st = "IN_PROGRESS", row.age = "fresh", <<u, k>> \notin overran => row.cur = cur
    PROVE  IInv'
<1> DEFINE v == [pc |-> "tx", usr |-> u, key |-> k, cur |-> cur]
<1>1. v \in CheckoutCalls /\ v.pc = "tx" /\ v.usr = u /\ v.key = k /\ v.cur = cur
    BY DEF CheckoutCalls
<1>2. co' = [co EXCEPT ![r] = v]
    OBVIOUS
<1> HIDE DEF v
<1>3. <<u, k>> \in UserKeys
    BY DEF UserKeys
<1>4. /\ keys' \in [UserKeys -> KeyRows] /\ keys'[<<u, k>>] = row
      /\ \A uk \in UserKeys : uk # <<u, k>> => keys'[uk] = keys[uk]
    BY <1>3 DEF IInv, Shape
<1>5. <<u, k>> \notin overran => \A s \in Checkouts : ~Leader(s, <<u, k>>)
    BY <1>3, NoLeader
<1>6. \A uk \in UserKeys :
        \/ keys'[uk] = keys[uk]
        \/ /\ keys[uk].st # "COMMITTED" /\ keys'[uk].st # "COMMITTED"
           /\ keys'[uk].st = "IN_PROGRESS" => keys'[uk].age = "fresh"
           /\ uk \notin overran => \A s \in Checkouts : s # r => ~Leader(s, uk)
    BY <1>4, <1>5
<1>7. \A uk \in UserKeys \ overran :
        /\ v.pc \in {"tx", "cleanup"} /\ uk = <<v.usr, v.key>> =>
             /\ keys'[uk].st = "IN_PROGRESS" /\ keys'[uk].age = "fresh" /\ keys'[uk].cur = v.cur
             /\ \A s \in Checkouts : s # r => ~Leader(s, uk)
        /\ v.pc # "reclaim"
    BY <1>1, <1>4, <1>5
<1> QED
    BY <1>1, <1>2, <1>4, <1>6, <1>7, OwnStep

LEMMA ReserveStep ==
    ASSUME IInv, NEW r \in Checkouts, Reserve(r)
    PROVE  IInv'
<1>a. co[r].pc = "reserve"
    BY DEF Reserve
<1>b. PICK u \in Users, k \in Keys, cur \in Currencies : u = co[r].usr /\ k = co[r].key /\ cur = co[r].cur
    BY <1>a, Named
<1>1. /\ co[r] \in CheckoutCalls /\ co[r] = [pc |-> "reserve", usr |-> u, key |-> k, cur |-> cur]
      /\ <<u, k>> \in UserKeys /\ Row(r) = keys[<<u, k>>]
    BY <1>a, <1>b, Named
<1>2. co[r].usr = u /\ co[r].key = k /\ co[r].cur = cur
    BY <1>1
<1>3. UNCHANGED <<price, cart, orders, wr, overran>>
    BY DEF Reserve
<1>4. CASE Row(r).st = "ABSENT" /\ Goto(r, "tx")
  <2> DEFINE row == [Absent EXCEPT !.st = "IN_PROGRESS", !.cur = cur]
  <2>1. row \in KeyRows /\ row.st = "IN_PROGRESS" /\ row.age = "fresh" /\ row.cur = cur
    BY DEF Absent, KeyRows
  <2>2. keys' = [keys EXCEPT ![<<u, k>>] = row]
    BY <1>2, <1>4 DEF Reserve, SetRow
  <2>3. co' = [co EXCEPT ![r] = [pc |-> "tx", usr |-> u, key |-> k, cur |-> cur]]
    BY <1>1, <1>4, Gone DEF IInv
  <2> HIDE DEF row
  <2>4. keys[<<u, k>>].st = "ABSENT"
    BY <1>1, <1>4
  <2> QED
    BY <1>3, <2>1, <2>2, <2>3, <2>4, TakesTheLead
<1>5. CASE Row(r).st # "ABSENT" /\ Goto(r, "poll") /\ UNCHANGED keys
  <2>1. co' = [co EXCEPT ![r] = [pc |-> "poll", usr |-> u, key |-> k, cur |-> cur]]
    BY <1>1, <1>5, Gone DEF IInv
  <2>2. [pc |-> "poll", usr |-> u, key |-> k, cur |-> cur] \in CheckoutCalls
    BY DEF CheckoutCalls
  <2> QED
    BY <1>3, <1>5, <2>1, <2>2, OnlyGoes
<1> QED
    BY <1>4, <1>5 DEF Reserve

LEMMA ReclaimStep ==
    ASSUME IInv, NEW r \in Checkouts, Reclaim(r)
    PROVE  IInv'
<1>a. co[r].pc = "reclaim"
    BY DEF Reclaim
<1>b. PICK u \in Users, k \in Keys, cur \in Currencies : u = co[r].usr /\ k = co[r].key /\ cur = co[r].cur
    BY <1>a, Named
<1>1. /\ co[r] \in CheckoutCalls /\ co[r] = [pc |-> "reclaim", usr |-> u, key |-> k, cur |-> cur]
      /\ <<u, k>> \in UserKeys /\ Row(r) = keys[<<u, k>>]
    BY <1>a, <1>b, Named
<1>2. co[r].usr = u /\ co[r].key = k /\ co[r].cur = cur
    BY <1>1
<1>3. UNCHANGED <<price, cart, orders, wr, overran>>
    BY DEF Reclaim
<1>4. CASE Reclaimable(r) /\ Goto(r, "tx")
  <2> DEFINE row == [keys[<<u, k>>] EXCEPT !.age = "fresh"]
  <2>1. keys[<<u, k>>] \in KeyRows /\ keys[<<u, k>>].st = "IN_PROGRESS" /\ keys[<<u, k>>].age # "fresh"
    BY <1>1, <1>4 DEF Reclaimable, IInv, Shape
  <2>2. /\ row \in KeyRows /\ row.st = "IN_PROGRESS" /\ row.age = "fresh"
        /\ row.cur = keys[<<u, k>>].cur
    BY <2>1 DEF Absent, KeyRows
  <2>3. <<u, k>> \notin overran => keys[<<u, k>>].cur = cur
    BY <1>1, <1>2, <2>1 DEF IInv, OneLeader, Reclaims
  <2>4. keys' = [keys EXCEPT ![<<u, k>>] = row]
    BY <1>1, <1>2, <1>4 DEF Reclaim, SetRow
  <2>5. co' = [co EXCEPT ![r] = [pc |-> "tx", usr |-> u, key |-> k, cur |-> cur]]
    BY <1>1, <1>4, Gone DEF IInv
  <2> HIDE DEF row
  <2> QED
    BY <1>3, <2>1, <2>2, <2>3, <2>4, <2>5, TakesTheLead
<1>5. CASE Goto(r, "poll") /\ UNCHANGED keys
  <2>1. co' = [co EXCEPT ![r] = [pc |-> "poll", usr |-> u, key |-> k, cur |-> cur]]
    BY <1>1, <1>5, Gone DEF IInv
  <2>2. [pc |-> "poll", usr |-> u, key |-> k, cur |-> cur] \in CheckoutCalls
    BY DEF CheckoutCalls
  <2> QED
    BY <1>3, <1>5, <2>1, <2>2, OnlyGoes
<1> QED
    BY <1>4, <1>5 DEF Reclaim

\* A call that returns, or dies.
LEMMA ReturnStep ==
    ASSUME IInv, NEW r \in Checkouts, Return(r), UNCHANGED <<price, cart, keys, orders, wr, overran>>
    PROVE  IInv'
<1>1. IdleCo.pc = "idle" /\ co' = [co EXCEPT ![r] = IdleCo]
    BY DEF Return, IdleCo
<1> QED
    BY <1>1, OnlyGoes

LEMMA FailsStep ==
    ASSUME IInv, NEW r \in Checkouts, CheckoutFails(r)
    PROVE  IInv'
<1>1. UNCHANGED <<price, cart, keys, orders, wr, overran>> /\ co[r].pc = "tx"
    BY DEF CheckoutFails
<1>2. CASE co[r].key = NoKey
    BY <1>1, <1>2, ReturnStep DEF CheckoutFails
<1>3. CASE co[r].key # NoKey
  <2>1. PICK u \in Users, k \in Keys, cur \in Currencies :
          co[r] = [pc |-> "tx", usr |-> u, key |-> k, cur |-> cur]
    <3>1. co[r] \in [pc : {"tx"}, usr : Users, key : Keys \cup {NoKey}, cur : Currencies]
      BY <1>1 DEF IInv, Shape, CheckoutCalls, IdleCo
    <3>2. co[r].usr \in Users /\ co[r].key \in Keys /\ co[r].cur \in Currencies
      BY <1>3, <3>1
    <3>3. co[r] = [pc |-> "tx", usr |-> co[r].usr, key |-> co[r].key, cur |-> co[r].cur]
      BY <3>1
    <3> QED
      BY <3>2, <3>3
  <2> DEFINE v == [pc |-> "cleanup", usr |-> u, key |-> k, cur |-> cur]
  <2>2. co' = [co EXCEPT ![r] = v]
    BY <1>3, <2>1 DEF CheckoutFails, Goto, IInv, Shape
  <2>3. v \in CheckoutCalls /\ v.pc = "cleanup" /\ v.usr = u /\ v.key = k /\ v.cur = cur
    BY DEF CheckoutCalls
  <2> HIDE DEF v
  <2>4. <<u, k>> \in UserKeys /\ Leader(r, <<u, k>>) /\ co[r].cur = cur
    BY <2>1 DEF UserKeys, Leader
  <2>5. <<u, k>> \notin overran =>
          /\ keys[<<u, k>>].st = "IN_PROGRESS" /\ keys[<<u, k>>].age = "fresh" /\ keys[<<u, k>>].cur = cur
          /\ \A s \in Checkouts : s # r => ~Leader(s, <<u, k>>)
    BY <2>4 DEF IInv, OneLeader
  <2>6. keys' \in [UserKeys -> KeyRows] /\ keys' = keys
    BY <1>1 DEF IInv, Shape
  <2>7. \A uk \in UserKeys \ overran :
          /\ v.pc \in {"tx", "cleanup"} /\ uk = <<v.usr, v.key>> =>
               /\ keys'[uk].st = "IN_PROGRESS" /\ keys'[uk].age = "fresh" /\ keys'[uk].cur = v.cur
               /\ \A s \in Checkouts : s # r => ~Leader(s, uk)
          /\ v.pc # "reclaim"
    BY <2>3, <2>5, <2>6
  <2> QED
    BY <1>1, <2>2, <2>3, <2>6, <2>7, OwnStep
<1> QED
    BY <1>2, <1>3

LEMMA CleanupStep ==
    ASSUME IInv, NEW r \in Checkouts, Cleanup(r)
    PROVE  IInv'
<1>a. co[r].pc = "cleanup"
    BY DEF Cleanup
<1>b. PICK u \in Users, k \in Keys, cur \in Currencies : u = co[r].usr /\ k = co[r].key /\ cur = co[r].cur
    BY <1>a, Named
<1>1. /\ co[r] \in CheckoutCalls /\ co[r] = [pc |-> "cleanup", usr |-> u, key |-> k, cur |-> cur]
      /\ <<u, k>> \in UserKeys /\ Row(r) = keys[<<u, k>>]
    BY <1>a, <1>b, Named
<1>2. co[r].usr = u /\ co[r].key = k /\ Leader(r, <<u, k>>)
    BY <1>1 DEF Leader
<1>3. UNCHANGED <<price, cart, orders, wr, overran>> /\ Return(r)
    BY DEF Cleanup
<1>4. CASE Row(r).st # "IN_PROGRESS"
    BY <1>3, <1>4, ReturnStep DEF Cleanup
<1>5. CASE Row(r).st = "IN_PROGRESS"
  <2>1. keys' = [keys EXCEPT ![<<u, k>>] = Absent]
    BY <1>2, <1>5 DEF Cleanup, SetRow
  <2>2. /\ keys' \in [UserKeys -> KeyRows] /\ keys'[<<u, k>>] = Absent /\ Absent.st = "ABSENT"
        /\ \A uk \in UserKeys : uk # <<u, k>> => keys'[uk] = keys[uk]
    BY <1>1, <2>1 DEF IInv, Shape, KeyRows, Absent
  <2>3. <<u, k>> \notin overran => \A s \in Checkouts : s # r => ~Leader(s, <<u, k>>)
    BY <1>1, <1>2 DEF IInv, OneLeader
  <2>4. \A uk \in UserKeys :
          \/ keys'[uk] = keys[uk]
          \/ /\ keys[uk].st # "COMMITTED" /\ keys'[uk].st # "COMMITTED"
             /\ keys'[uk].st = "IN_PROGRESS" => keys'[uk].age = "fresh"
             /\ uk \notin overran => \A s \in Checkouts : s # r => ~Leader(s, uk)
    BY <1>1, <1>5, <2>2, <2>3
  <2>5. IdleCo.pc = "idle" /\ co' = [co EXCEPT ![r] = IdleCo]
    BY <1>3 DEF Return, IdleCo
  <2> QED
    BY <1>3, <2>2, <2>4, <2>5, OwnStep
<1> QED
    BY <1>4, <1>5

\* The transaction turns a cart into an order and commits the key it leads.
LEMMA TxStep ==
    ASSUME IInv, NEW r \in Checkouts, CheckoutTx(r)
    PROVE  IInv'
<1>1. PICK u \in Users, k \in Keys \cup {NoKey}, cur \in Currencies :
        co[r].pc = "tx" /\ co[r].usr = u /\ co[r].key = k /\ co[r].cur = cur
    BY CallForms DEF CheckoutTx, IInv
<1>2. PICK c \in CartIds :
        /\ Orderable(r, c)
        /\ cart' = [cart EXCEPT ![c].st = "CONVERTED"]
        /\ orders' = orders \cup {[cart |-> c, usr |-> co[r].usr, key |-> co[r].key, cur |-> co[r].cur,
                                   qty |-> cart[c].qty, line |-> LineTotals(cart[c].qty),
                                   total |-> SumFunction(LineTotals(cart[c].qty))]}
        /\ IF co[r].key = NoKey THEN UNCHANGED keys
           ELSE SetRow(r, [Row(r) EXCEPT !.st = "COMMITTED", !.cart = c])
    BY DEF CheckoutTx
<1>3. PICK n : /\ orders' = orders \cup {n}
               /\ n.cart = c /\ n.usr = u /\ n.key = k /\ n.cur = cur /\ n.qty = cart[c].qty
  <2> DEFINE m == [cart |-> c, usr |-> co[r].usr, key |-> co[r].key, cur |-> co[r].cur,
                   qty |-> cart[c].qty, line |-> LineTotals(cart[c].qty), total |-> SumFunction(LineTotals(cart[c].qty))]
  <2>1. m.cart = c /\ m.usr = u /\ m.key = k /\ m.cur = cur /\ m.qty = cart[c].qty
    BY <1>1
  <2>2. orders' = orders \cup {m}
    BY <1>2
  <2> HIDE DEF m
  <2> QED
    BY <2>1, <2>2
<1>4. cart[c] \in CartRows /\ cart[c].st = "ACTIVE" /\ cart[c].usr = u /\ cart[c].cur = cur
    BY <1>1, <1>2 DEF Orderable, ActiveCarts, IInv, Shape, NoRow
<1>5. /\ cart' \in [CartIds -> CartRows \cup {NoRow}]
      /\ cart'[c].st = "CONVERTED" /\ cart'[c].usr = u /\ cart'[c].cur = cur /\ cart'[c].qty = cart[c].qty
      /\ \A d \in CartIds : d # c => cart'[d] = cart[d]
  <2>1. cart' = [cart EXCEPT ![c] = [cart[c] EXCEPT !.st = "CONVERTED"]]
    BY <1>2 DEF IInv, Shape
  <2>2. /\ [cart[c] EXCEPT !.st = "CONVERTED"] \in CartRows /\ [cart[c] EXCEPT !.st = "CONVERTED"].st = "CONVERTED"
        /\ [cart[c] EXCEPT !.st = "CONVERTED"].usr = u /\ [cart[c] EXCEPT !.st = "CONVERTED"].cur = cur
        /\ [cart[c] EXCEPT !.st = "CONVERTED"].qty = cart[c].qty
    BY <1>4 DEF CartRows
  <2> QED
    BY <2>1, <2>2 DEF IInv, Shape
<1>6. UNCHANGED <<price, wr, overran>> /\ co' = [co EXCEPT ![r] = IdleCo] /\ IdleCo.pc = "idle"
    BY DEF CheckoutTx, Return, IdleCo
<1>7. /\ co' \in [Checkouts -> CheckoutCalls \cup {IdleCo}] /\ co'[r].pc = "idle"
      /\ \A s \in Checkouts : s # r => co'[s] = co[s]
    BY <1>6 DEF IInv, Shape
<1>8. k # NoKey => k \in Keys /\ <<u, k>> \in UserKeys /\ keys[<<u, k>>].st # "ABSENT"
    BY <1>1 DEF CheckoutTx, Row, UserKeys
<1>9. /\ keys' \in [UserKeys -> KeyRows]
      /\ \A uk \in UserKeys : uk # <<u, k>> => keys'[uk] = keys[uk]
      /\ k # NoKey => /\ keys'[<<u, k>>].st = "COMMITTED" /\ keys'[<<u, k>>].cart = c
                      /\ keys'[<<u, k>>].cur = keys[<<u, k>>].cur
  <2>1. CASE k = NoKey
    BY <1>1, <1>2, <2>1 DEF IInv, Shape
  <2>2. CASE k # NoKey
    <3> DEFINE row == [keys[<<u, k>>] EXCEPT !.st = "COMMITTED", !.cart = c]
    <3>1. keys' = [keys EXCEPT ![<<u, k>>] = row]
      <4>1. SetRow(r, [Row(r) EXCEPT !.st = "COMMITTED", !.cart = c])
        BY <1>1, <1>2, <2>2
      <4>2. Row(r) = keys[<<u, k>>]
        BY <1>1 DEF Row
      <4> QED
        BY <1>1, <4>1, <4>2 DEF SetRow
    <3>2. keys[<<u, k>>] \in KeyRows /\ keys[<<u, k>>].st # "ABSENT"
      BY <1>8, <2>2 DEF IInv, Shape
    <3>3. row \in KeyRows /\ row.st = "COMMITTED" /\ row.cart = c /\ row.cur = keys[<<u, k>>].cur
      <4> DEFINE A == [st : {"IN_PROGRESS"}, cur : Currencies, age : {"fresh", "stale", "expired"}, cart : {NoCart}]
                 B == [st : {"COMMITTED"}, cur : Currencies, age : {"fresh", "stale", "expired"}, cart : CartIds]
      <4>1. keys[<<u, k>>] \in A \/ keys[<<u, k>>] \in B
        BY <3>2 DEF KeyRows, Absent
      <4>2. CASE keys[<<u, k>>] \in A
        BY <4>2 DEF KeyRows
      <4>3. CASE keys[<<u, k>>] \in B
        BY <4>3 DEF KeyRows
      <4> QED
        BY <4>1, <4>2, <4>3
    <3> HIDE DEF row
    <3> QED
      BY <1>8, <2>2, <3>1, <3>3 DEF IInv, Shape
  <2> QED
    BY <2>1, <2>2
<1>10. <<u, k>> \in UserKeys => k # NoKey
    BY CheckoutAssumption DEF UserKeys
<1>11. k # NoKey /\ <<u, k>> \notin overran =>
         /\ keys[<<u, k>>].st = "IN_PROGRESS" /\ keys[<<u, k>>].cur = cur
         /\ \A s \in Checkouts : s # r => ~Leader(s, <<u, k>>)
  <2>1. Leader(r, <<u, k>>)
    BY <1>1 DEF Leader
  <2> QED
    BY <1>1, <1>8, <2>1 DEF IInv, OneLeader
<1>12. \A o \in orders : o.cart \in CartIds /\ o.usr \in Users /\ o.key \in Keys \cup {NoKey}
    BY DEF IInv, Shape
<1>13. \A o \in orders : o.cart # c
    BY <1>4 DEF IInv, Promises, OrderIsItsCart
<1>14. Shape'
    BY <1>3, <1>5, <1>6, <1>7, <1>9, <1>12 DEF IInv, Shape
<1>15. OneLeader'
  <2> SUFFICES ASSUME NEW uk \in UserKeys \ overran, NEW s \in Checkouts
               PROVE  /\ Leader(s, uk)' => keys'[uk].st = "IN_PROGRESS" /\ keys'[uk].age = "fresh" /\ keys'[uk].cur = co'[s].cur
                      /\ \A t \in Checkouts : Leader(s, uk)' /\ Leader(t, uk)' => s = t
                      /\ Reclaims(s, uk)' /\ keys'[uk].st = "IN_PROGRESS" /\ keys'[uk].age # "fresh" =>
                           keys'[uk].cur = co'[s].cur
    BY <1>6 DEF OneLeader
  <2>1. ~Leader(r, uk)' /\ ~Reclaims(r, uk)'
    BY <1>7 DEF Leader, Reclaims
  <2>2. \A t \in Checkouts : t # r => (Leader(t, uk)' <=> Leader(t, uk)) /\ (Reclaims(t, uk)' <=> Reclaims(t, uk))
    BY <1>7 DEF Leader, Reclaims
  <2>3. CASE uk = <<u, k>>
    BY <1>9, <1>10, <1>11, <2>1, <2>2, <2>3
  <2>4. CASE uk # <<u, k>>
    <3>1. /\ Leader(s, uk) => keys[uk].st = "IN_PROGRESS" /\ keys[uk].age = "fresh" /\ keys[uk].cur = co[s].cur
          /\ \A t \in Checkouts : Leader(s, uk) /\ Leader(t, uk) => s = t
          /\ Reclaims(s, uk) /\ keys[uk].st = "IN_PROGRESS" /\ keys[uk].age # "fresh" => keys[uk].cur = co[s].cur
      BY DEF IInv, OneLeader
    <3>2. keys'[uk] = keys[uk]
      BY <1>9, <2>4
    <3>3. CASE s = r
      BY <2>1, <3>3
    <3>4. CASE s # r
      <4>1. \A t \in Checkouts : Leader(s, uk)' /\ Leader(t, uk)' => s = t
        BY <2>1, <2>2, <3>1, <3>4
      <4> QED
        BY <1>7, <2>2, <3>1, <3>2, <3>4, <4>1
    <3> QED
      BY <3>3, <3>4
  <2> QED
    BY <2>3, <2>4
<1>16. OrderIsItsCart'
  <2>1. \A o \in orders' : /\ cart'[o.cart].st = "CONVERTED"
                           /\ cart'[o.cart].usr = o.usr /\ cart'[o.cart].cur = o.cur /\ cart'[o.cart].qty = o.qty
    BY <1>3, <1>5, <1>12, <1>13 DEF IInv, Promises, OrderIsItsCart
  <2>2. \A o, q \in orders' : o.cart = q.cart => o = q
    BY <1>3, <1>13 DEF IInv, Promises, OrderIsItsCart
  <2>3. \A d \in CartIds : cart'[d].st = "CONVERTED" => \E o \in orders' : o.cart = d
    BY <1>3, <1>5 DEF IInv, Promises, OrderIsItsCart
  <2> QED
    BY <2>1, <2>2, <2>3 DEF OrderIsItsCart
<1>17. CommittedKeyNamesItsOrder'
  <2>1. ASSUME NEW x \in Users, NEW y \in Keys, keys'[<<x, y>>].st = "COMMITTED"
        PROVE  \E o \in orders' : o.cart = keys'[<<x, y>>].cart /\ o.usr = x /\ o.key = y
    <3>0. <<x, y>> \in UserKeys
      BY DEF UserKeys
    <3>1. CASE <<x, y>> = <<u, k>>
      BY <1>3, <1>9, <1>10, <3>0, <3>1
    <3>2. CASE <<x, y>> # <<u, k>>
      <4>1. keys'[<<x, y>>] = keys[<<x, y>>]
        BY <1>9, <3>0, <3>2
      <4> QED
        BY <1>3, <2>1, <4>1 DEF IInv, Promises, CommittedKeysHold, CommittedKeyNamesItsOrder
    <3> QED
      BY <3>1, <3>2
  <2>2. ASSUME NEW o \in orders', o.key # NoKey
        PROVE  keys'[<<o.usr, o.key>>].st = "COMMITTED"
    <3>1. CASE o = n
      BY <1>3, <1>9, <2>2, <3>1
    <3>2. CASE o \in orders
      <4>1. keys[<<o.usr, o.key>>].st = "COMMITTED" /\ <<o.usr, o.key>> \in UserKeys
        BY <1>12, <2>2, <3>2 DEF IInv, Promises, CommittedKeysHold, CommittedKeyNamesItsOrder, UserKeys
      <4> QED
        BY <1>9, <1>10, <4>1
    <3> QED
      BY <1>3, <3>1, <3>2
  <2> QED
    BY <2>1, <2>2 DEF CommittedKeyNamesItsOrder
<1>18. KeyAnswersItsRequest'
  <2> SUFFICES ASSUME NEW x \in Users, NEW y \in Keys, keys'[<<x, y>>].st = "COMMITTED", <<x, y>> \notin overran
               PROVE  cart'[keys'[<<x, y>>].cart].cur = keys'[<<x, y>>].cur
    BY <1>6 DEF KeyAnswersItsRequest
  <2>0. <<x, y>> \in UserKeys
    BY DEF UserKeys
  <2>1. CASE <<x, y>> = <<u, k>>
    BY <1>5, <1>9, <1>10, <1>11, <2>0, <2>1
  <2>2. CASE <<x, y>> # <<u, k>>
    <3>1. keys'[<<x, y>>] = keys[<<x, y>>]
      BY <1>9, <2>0, <2>2
    <3>2. cart[keys[<<x, y>>].cart].cur = keys[<<x, y>>].cur
      BY <3>1 DEF IInv, Promises, CommittedKeysHold, KeyAnswersItsRequest
    <3>3. PICK o \in orders : o.cart = keys[<<x, y>>].cart
      BY <3>1 DEF IInv, Promises, CommittedKeysHold, CommittedKeyNamesItsOrder
    <3> QED
      BY <1>5, <1>12, <1>13, <3>1, <3>2, <3>3
  <2> QED
    BY <2>1, <2>2
<1>19. OneOrderWithinLease'
  <2>1. k # NoKey /\ <<u, k>> \notin overran => \A o \in orders : ~(o.usr = u /\ o.key = k)
    BY <1>11 DEF IInv, Promises, CommittedKeysHold, CommittedKeyNamesItsOrder
  <2> QED
    BY <1>3, <1>6, <2>1 DEF IInv, Promises, OneOrderWithinLease
<1> QED
    BY <1>14, <1>15, <1>16, <1>17, <1>18, <1>19 DEF IInv, Promises, CommittedKeysHold

LEMMA CheckoutCallStep ==
    ASSUME IInv, NEW r \in Checkouts, CheckoutCall(r)
    PROVE  IInv'
<1>1. CASE Poll(r) \/ CheckoutDies(r)
    BY <1>1, ReturnStep DEF Poll, CheckoutDies
<1> QED
    BY <1>1, StartStep, ReserveStep, ReclaimStep, TxStep, FailsStep, CleanupStep DEF CheckoutCall

-----------------------------------------------------------------------------
\* A key grows older under no leader, or its leader has outlived its lease.
LEMMA Ages ==
    ASSUME IInv, NEW u \in Users, NEW k \in Keys, NEW age \in {"stale", "expired"},
           keys' = [keys EXCEPT ![<<u, k>>].age = age], keys[<<u, k>>].st # "ABSENT",
           UNCHANGED <<price, cart, orders, co, wr>>, overran \subseteq overran', overran' \subseteq UserKeys \cup overran,
           <<u, k>> \notin overran' => \A r \in Checkouts : ~Leads(r, u, k)
    PROVE  IInv'
<1>1. <<u, k>> \in UserKeys /\ keys[<<u, k>>] \in KeyRows
    BY DEF UserKeys, IInv, Shape
<1> DEFINE row == [keys[<<u, k>>] EXCEPT !.age = age]
<1>2. keys' = [keys EXCEPT ![<<u, k>>] = row]
    BY <1>1 DEF IInv, Shape
<1>3. /\ row \in KeyRows
      /\ row.st = keys[<<u, k>>].st /\ row.cart = keys[<<u, k>>].cart /\ row.cur = keys[<<u, k>>].cur
    BY <1>1 DEF KeyRows, Absent
<1> HIDE DEF row
<1>4. /\ keys' \in [UserKeys -> KeyRows] /\ keys'[<<u, k>>] = row
      /\ \A uk \in UserKeys : uk # <<u, k>> => keys'[uk] = keys[uk]
    BY <1>1, <1>2, <1>3 DEF IInv, Shape
<1>5. Shape'
    BY <1>4 DEF IInv, Shape
<1>6. Promises'
    BY <1>3, <1>4, PromisesStay
<1>7. <<u, k>> \notin overran' => \A r \in Checkouts : ~Leader(r, <<u, k>>) /\ ~Reclaims(r, <<u, k>>)
    BY DEF Leads, Leader, Reclaims
<1>8. OneLeader'
  <2> SUFFICES ASSUME NEW uk \in UserKeys \ overran', NEW s \in Checkouts
               PROVE  /\ Leader(s, uk)' => keys'[uk].st = "IN_PROGRESS" /\ keys'[uk].age = "fresh" /\ keys'[uk].cur = co'[s].cur
                      /\ \A t \in Checkouts : Leader(s, uk)' /\ Leader(t, uk)' => s = t
                      /\ Reclaims(s, uk)' /\ keys'[uk].st = "IN_PROGRESS" /\ keys'[uk].age # "fresh" =>
                           keys'[uk].cur = co'[s].cur
    BY DEF OneLeader
  <2>1. /\ Leader(s, uk) => keys[uk].st = "IN_PROGRESS" /\ keys[uk].age = "fresh" /\ keys[uk].cur = co[s].cur
        /\ \A t \in Checkouts : Leader(s, uk) /\ Leader(t, uk) => s = t
        /\ Reclaims(s, uk) /\ keys[uk].st = "IN_PROGRESS" /\ keys[uk].age # "fresh" => keys[uk].cur = co[s].cur
    BY DEF IInv, OneLeader
  <2>2. \A t \in Checkouts : (Leader(t, uk)' <=> Leader(t, uk)) /\ (Reclaims(t, uk)' <=> Reclaims(t, uk))
    BY DEF Leader, Reclaims
  <2>3. CASE uk = <<u, k>>
    BY <1>7, <2>2, <2>3
  <2>4. CASE uk # <<u, k>>
    BY <1>4, <2>1, <2>2, <2>4
  <2> QED
    BY <2>3, <2>4
<1> QED
    BY <1>5, <1>6, <1>8 DEF IInv

LEMMA TimeStep == IInv /\ Time => IInv'
<1>1. ASSUME IInv, NEW u \in Users, NEW k \in Keys, LeaseExpires(u, k) PROVE IInv'
  <2>1. /\ keys' = [keys EXCEPT ![<<u, k>>].age = "stale"] /\ keys[<<u, k>>].st # "ABSENT"
        /\ UNCHANGED <<price, cart, orders, co, wr>>
    BY <1>1 DEF LeaseExpires
  <2>2. overran \subseteq overran' /\ overran' \subseteq UserKeys \cup overran
    BY <1>1 DEF LeaseExpires, UserKeys
  <2>3. <<u, k>> \notin overran' => \A r \in Checkouts : ~Leads(r, u, k)
    BY <1>1 DEF LeaseExpires
  <2> QED
    BY <1>1, <2>1, <2>2, <2>3, Ages
<1>2. ASSUME IInv, NEW u \in Users, NEW k \in Keys, KeyExpires(u, k) PROVE IInv'
  <2>1. \A r \in Checkouts : ~Leads(r, u, k)
    BY <1>2 DEF KeyExpires, Leads
  <2> QED
    BY <1>2, <2>1, Ages DEF KeyExpires
<1> QED
    BY <1>1, <1>2 DEF Time

LEMMA ClearStep ==
    ASSUME IInv, NEW u \in Users, ClearCart(u)
    PROVE  IInv'
<1>1. PICK c \in ActiveCarts(u) : cart' = [cart EXCEPT ![c].qty = NoItems]
    BY DEF ClearCart
<1>2. c \in CartIds /\ cart[c] \in CartRows /\ cart[c].st = "ACTIVE"
    BY DEF ActiveCarts, IInv, Shape, NoRow
<1>3. NoItems \in Quantities
    BY CheckoutAssumption DEF NoItems, Quantities
<1>4. cart' = [cart EXCEPT ![c] = [cart[c] EXCEPT !.qty = NoItems]]
    BY <1>1, <1>2 DEF IInv, Shape
<1>5. [cart[c] EXCEPT !.qty = NoItems] \in CartRows /\ [cart[c] EXCEPT !.qty = NoItems].st = "ACTIVE"
    BY <1>2, <1>3 DEF CartRows
<1>6. /\ cart' \in [CartIds -> CartRows \cup {NoRow}]
      /\ \A d \in CartIds : cart'[d] = cart[d] \/ (cart[d].st # "CONVERTED" /\ cart'[d].st # "CONVERTED")
    BY <1>2, <1>4, <1>5 DEF IInv, Shape
<1>7. UNCHANGED <<price, keys, orders, co, wr, overran>>
    BY DEF ClearCart
<1>8. Shape'
    BY <1>6, <1>7 DEF IInv, Shape
<1> QED
    BY <1>6, <1>7, <1>8, CartsStep

LEMMA CatalogueStep == IInv /\ Catalogue => IInv'
<1> SUFFICES ASSUME IInv, NEW x \in Prices, NEW cur \in Currencies, NEW amt \in Amounts, NEW on \in BOOLEAN,
                    UpdatePrice(x, cur, amt, on)
             PROVE  IInv'
    BY DEF Catalogue
<1>1. UNCHANGED <<cart, keys, orders, co, wr, overran>>
    BY DEF UpdatePrice
<1>2. price' \in [Prices -> [cur : Currencies, amt : Amounts, on : BOOLEAN]]
    BY DEF UpdatePrice, IInv, Shape
<1>3. Shape'
    BY <1>1, <1>2 DEF IInv, Shape
<1> QED
    BY <1>1, <1>3, CartsStep

LEMMA NextIInv == IInv /\ [Next]_vars => IInv'
<1>1. IInv /\ UNCHANGED vars => IInv'
    BY CartsStep DEF vars, IInv, Shape
<1> QED
    BY <1>1, CheckoutCallStep, CartCallStep, ClearStep, TimeStep, CatalogueStep DEF Next

LEMMA Inductive == Spec => []IInv
BY InitIInv, NextIInv, PTL DEF Spec

-----------------------------------------------------------------------------
\* Carts and orders correspond one to one, whatever calls interleave with the checkout:
\* a cart that was checked out is never changed and never ordered twice.
THEOREM OneCartOneOrder == Spec => []OrderIsItsCart
<1>1. IInv => OrderIsItsCart
    BY DEF IInv, Promises
<1> QED
    BY <1>1, Inductive, PTL

\* What an idempotency key replays is the user's own order made under it, and no failed
\* call's cleanup takes the key away from its order.
THEOREM KeysTellTheTruth == Spec => []CommittedKeysHold
<1>1. IInv => CommittedKeysHold
    BY DEF IInv, Promises
<1> QED
    BY <1>1, Inductive, PTL

\* Retries, takeovers, failures and deaths of the calls that share a key make at most one
\* order, as long as no leader outlived its lease.
THEOREM KeyMakesOneOrder == Spec => []OneOrderWithinLease
<1>1. IInv => OneOrderWithinLease
    BY DEF IInv, Promises
<1> QED
    BY <1>1, Inductive, PTL

-----------------------------------------------------------------------------
OrderRows == [cart : CartIds, usr : Users, key : Keys \cup {NoKey}, cur : Currencies, qty : Quantities,
              line : [Prices -> Nat], total : Nat]

\* The rest of the types, and what the orders charge.
Charges == overran \subseteq UserKeys /\ orders \subseteq OrderRows /\ OrderTotalsFit

\* The lines of a cart are natural numbers, and so is their sum.
LEMMA LinesAdd ==
    ASSUME Shape, NEW qty \in Quantities
    PROVE  LineTotals(qty) \in [Prices -> Nat] /\ SumFunction(LineTotals(qty)) \in Nat
<1> DEFINE lines == LineTotals(qty)
<1>1. ASSUME NEW x \in Prices PROVE price[x].amt * qty[x] \in Nat
  <2>1. price[x].amt \in Nat
      BY CheckoutAssumption DEF Shape
  <2>2. qty[x] \in Nat
      BY CheckoutAssumption DEF Quantities
  <2> QED
      BY <2>1, <2>2
<1>2. lines \in [Prices -> Nat]
    BY <1>1 DEF LineTotals
<1> HIDE DEF lines
<1>3. DOMAIN lines = Prices /\ \A x \in Prices : lines[x] \in Int /\ lines[x] >= 0
    BY <1>2
<1>4. IsFiniteSet(Prices)
    BY CheckoutAssumption
<1>5. SumFunctionOnSet(lines, Prices) \in Int /\ SumFunctionOnSet(lines, Prices) >= 0
    BY <1>3, <1>4, SumIsNumber
<1>6. SumFunction(lines) = SumFunctionOnSet(lines, Prices)
    BY <1>3 DEF SumFunction
<1> QED
    BY <1>2, <1>5, <1>6 DEF lines

\* The order a checkout makes is in shape, and charges something that fits.
LEMMA TxCharges ==
    ASSUME Shape, Charges, NEW r \in Checkouts, CheckoutTx(r)
    PROVE  Charges'
<1>1. PICK c \in CartIds :
         /\ Orderable(r, c)
         /\ orders' = orders \cup {[cart |-> c, usr |-> co[r].usr, key |-> co[r].key, cur |-> co[r].cur,
                                    qty |-> cart[c].qty, line |-> LineTotals(cart[c].qty),
                                    total |-> SumFunction(LineTotals(cart[c].qty))]}
    BY DEF CheckoutTx
<1> DEFINE o == [cart |-> c, usr |-> co[r].usr, key |-> co[r].key, cur |-> co[r].cur,
                 qty |-> cart[c].qty, line |-> LineTotals(cart[c].qty), total |-> SumFunction(LineTotals(cart[c].qty))]
<1>2. co[r].usr \in Users /\ co[r].cur \in Currencies /\ co[r].key \in Keys \cup {NoKey}
    BY CallForms DEF CheckoutTx
<1>3. cart[c].st = "ACTIVE"
    BY <1>1 DEF Orderable, ActiveCarts
<1>4. cart[c].qty \in Quantities
    BY <1>3 DEF Shape, CartRows, NoRow
<1>5. LineTotals(cart[c].qty) \in [Prices -> Nat] /\ SumFunction(LineTotals(cart[c].qty)) \in Nat
    BY <1>4, LinesAdd
<1>6. o \in OrderRows
    BY <1>2, <1>4, <1>5 DEF OrderRows
<1>7. o.qty # NoItems /\ o.total = SumFunction(o.line) /\ o.total <= MaxAmount
    BY <1>1 DEF Orderable, Buyable
<1>8. orders' = orders \cup {o}
    BY <1>1
<1>9. overran' = overran
    BY DEF CheckoutTx
<1> HIDE DEF o
<1> QED
    BY <1>6, <1>7, <1>8, <1>9 DEF Charges, OrderTotalsFit

\* No other step makes an order.
LEMMA ChargesStep == IInv /\ Charges /\ [Next]_vars => Charges'
<1> SUFFICES ASSUME IInv, Charges, [Next]_vars PROVE Charges'
    OBVIOUS
<1>1. Shape
    BY DEF IInv
<1>2. CASE UNCHANGED orders /\ overran' \subseteq UserKeys
    BY <1>2 DEF Charges, OrderTotalsFit
<1>3. CASE \E r \in Checkouts : CheckoutTx(r)
    BY <1>1, <1>3, TxCharges
<1>4. ASSUME NEW u \in Users, NEW k \in Keys, LeaseExpires(u, k) \/ KeyExpires(u, k)
      PROVE  UNCHANGED orders /\ overran' \subseteq UserKeys
    BY <1>4 DEF LeaseExpires, KeyExpires, Charges, UserKeys
<1>5. ASSUME NEW r \in Checkouts, CheckoutCall(r), ~CheckoutTx(r)
      PROVE  UNCHANGED <<orders, overran>>
  <2>1. ASSUME NEW u \in Users, NEW k \in Keys \cup {NoKey}, NEW cur \in Currencies, CheckoutStart(r, u, k, cur)
        PROVE  UNCHANGED <<orders, overran>>
      BY <2>1 DEF CheckoutStart
  <2>2. Reserve(r) \/ Reclaim(r) \/ Poll(r) => UNCHANGED <<orders, overran>>
      BY DEF Reserve, Reclaim, Poll
  <2>3. CheckoutFails(r) \/ Cleanup(r) \/ CheckoutDies(r) => UNCHANGED <<orders, overran>>
      BY DEF CheckoutFails, Cleanup, CheckoutDies
  <2> QED
      BY <1>5, <2>1, <2>2, <2>3 DEF CheckoutCall
<1>6. ASSUME NEW w \in Writers, CartCall(w)
      PROVE  UNCHANGED <<orders, overran>>
  <2>1. ASSUME NEW u \in Users, NEW x \in Prices, NEW q, AddItemRead(w, u, x, q) \/ SetItem(w, u, x, q)
        PROVE  UNCHANGED <<orders, overran>>
      BY <2>1 DEF AddItemRead, SetItem
  <2>2. AddItemTarget(w) \/ AddItem(w) \/ CartCallDies(w) => UNCHANGED <<orders, overran>>
      BY DEF AddItemTarget, AddItem, CartCallDies
  <2>3. ASSUME NEW u \in Users, NEW cur \in Currencies, GetCart(w, u, cur)
        PROVE  UNCHANGED <<orders, overran>>
      BY <2>3 DEF GetCart
  <2> QED
      BY <1>6, <2>1, <2>2, <2>3 DEF CartCall
<1>7. ASSUME (\E u \in Users : ClearCart(u)) \/ Catalogue \/ UNCHANGED vars
      PROVE  UNCHANGED <<orders, overran>>
    BY <1>7 DEF ClearCart, Catalogue, UpdatePrice, vars
<1>8. UNCHANGED <<orders, overran>> => UNCHANGED orders /\ overran' \subseteq UserKeys
    BY DEF Charges
<1> QED
    BY <1>2, <1>3, <1>4, <1>5, <1>6, <1>7, <1>8 DEF Next, Time

\* An order charges something, the sum of its lines, within 32 bits, for any catalogue,
\* whatever happens to the prices while checkouts run; and every row keeps its shape.
THEOREM OrdersChargeTheirLines == Spec => []OrdersAreSound
<1>1. Init => Charges
    BY DEF Init, Charges, OrderTotalsFit
<1>2. IInv /\ Charges => OrdersAreSound
  <2> SUFFICES ASSUME IInv, Charges PROVE OrdersAreSound
      OBVIOUS
  <2>1. TypeOK
      BY DEF IInv, Shape, Charges, TypeOK, CartRows, KeyRows, CheckoutCalls, CartCalls, UserKeys, OrderRows
  <2> QED
      BY <2>1 DEF OrdersAreSound, Charges
<1> QED
    BY <1>1, <1>2, ChargesStep, Inductive, PTL DEF Spec
=============================================================================
