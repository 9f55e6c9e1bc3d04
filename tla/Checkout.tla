------------------------------ MODULE Checkout ------------------------------
(***************************************************************************)
(* Carts and the checkout that turns one into an order                     *)
(* (apps/api/src/modules/cart and orders), with the catalogue prices they  *)
(* read and the idempotency keys that protect a retried checkout.          *)
(*                                                                         *)
(* A transaction that locks the cart row first is one action; what a call  *)
(* reads outside it is kept in the call's local record and may be stale.   *)
(* Any call may stop between two steps: the API process died.              *)
(*                                                                         *)
(* A variant is modelled by its price: "on" stands for an active price of  *)
(* an active variant of an active product.  Time is modelled by the age of *)
(* an idempotency row: fresh, stale (10 s) or expired (24 h).              *)
(***************************************************************************)
EXTENDS Integers, FiniteSets, Functions

CONSTANTS
    Users, CartIds, Prices, Currencies,
    Keys,             \* idempotency keys clients send; NoKey: none was sent
    Checkouts,        \* concurrent POST /checkout calls
    Writers,          \* concurrent cart calls
    Amounts,          \* unit amounts an administrator may set
    MaxQty,           \* 999 in the code
    MaxAmount         \* 2^31 - 1 in the code (MAX_SAFE_AMOUNT)

NoKey == "no key"
NoCart == "no cart"
NoUser == "no user"

ASSUME CheckoutAssumption ==
    /\ Amounts \subseteq Nat /\ MaxQty \in Nat \ {0} /\ MaxAmount \in Nat
    /\ NoKey \notin Keys /\ NoCart \notin CartIds /\ NoUser \notin Users
    /\ IsFiniteSet(Prices)

VARIABLES
    price,   \* price[x]: currency, amount, and whether it can be bought
    cart,    \* cart[c]: the row of table carts and its cart_items
    keys,    \* keys[<<u, k>>]: the row of idempotency_keys in scope "checkout"
    orders,  \* rows of orders with their order_items
    co,      \* local state of the checkout calls
    wr,      \* local state of the cart calls
    overran  \* history: the keys whose lease ran out under a live leader

vars == <<price, cart, keys, orders, co, wr, overran>>

NoItems == [x \in Prices |-> 0]
NoRow == [usr |-> NoUser, st |-> "none", cur |-> "none", qty |-> NoItems]
Absent == [st |-> "ABSENT", cur |-> "none", age |-> "fresh", cart |-> NoCart]
IdleCo == [pc |-> "idle", usr |-> NoUser, key |-> NoKey, cur |-> "none"]
IdleWr == [pc |-> "idle", usr |-> NoUser, item |-> NoCart, qty |-> 0, cur |-> "none", cart |-> NoCart]

ActiveCarts(u) == {c \in CartIds : cart[c].st = "ACTIVE" /\ cart[c].usr = u}

Init ==
    /\ price \in [Prices -> [cur : Currencies, amt : Amounts, on : {TRUE}]]
    /\ cart = [c \in CartIds |-> NoRow]
    /\ keys = [uk \in Users \X Keys |-> Absent]
    /\ orders = {}
    /\ co = [r \in Checkouts |-> IdleCo]
    /\ wr = [w \in Writers |-> IdleWr]
    /\ overran = {}

-----------------------------------------------------------------------------
(***************************************************************************)
(* The catalogue: an administrator edits a price, or the status of the     *)
(* variant or the product it belongs to.                                   *)
(***************************************************************************)
UpdatePrice(x, cur, amt, on) ==
    /\ price' = [price EXCEPT ![x] = [cur |-> cur, amt |-> amt, on |-> on]]
    /\ UNCHANGED <<cart, keys, orders, co, wr, overran>>

-----------------------------------------------------------------------------
(***************************************************************************)
(* Carts                                                                   *)
(***************************************************************************)

\* getOrCreateActiveCart: the active cart, or a new empty one.  The partial unique
\* index cart_user_active_unique makes the loser of two inserts adopt the winner's.
GetOrCreateActiveCart(u, cur, c) ==
    \/ /\ c \in ActiveCarts(u)
       /\ UNCHANGED cart
    \/ /\ ActiveCarts(u) = {}
       /\ cart[c] = NoRow
       /\ cart' = [cart EXCEPT ![c] = [NoRow EXCEPT !.usr = u, !.st = "ACTIVE", !.cur = cur]]

\* addItem reads the variant and resolves its price before any lock.
AddItemRead(w, u, x, q) ==
    /\ wr[w].pc = "idle"
    /\ q \in 1 .. MaxQty
    /\ price[x].on
    /\ wr' = [wr EXCEPT ![w] = [IdleWr EXCEPT !.pc = "target", !.usr = u, !.item = x, !.qty = q,
                                              !.cur = price[x].cur]]
    /\ UNCHANGED <<price, cart, keys, orders, co, overran>>

AddItemTarget(w) ==
    /\ wr[w].pc = "target"
    /\ \E c \in CartIds :
         /\ GetOrCreateActiveCart(wr[w].usr, wr[w].cur, c)
         /\ wr' = [wr EXCEPT ![w].pc = "add", ![w].cart = c]
    /\ UNCHANGED <<price, keys, orders, co, overran>>

SameCurrency(w) ==
    LET c == wr[w].cart IN cart[c].qty = NoItems \/ cart[c].cur = wr[w].cur
NewQty(w) == cart[wr[w].cart].qty[wr[w].item] + wr[w].qty

\* Mutant: the status of the cart is not looked at again under the lock.
TakesItemAnyStatus(w) == SameCurrency(w) /\ NewQty(w) <= MaxQty

\* Only an active cart takes the item; the first item sets the currency, later ones
\* must match it; the quantities of one price add up.
TakesItem(w) == cart[wr[w].cart].st = "ACTIVE" /\ SameCurrency(w) /\ NewQty(w) <= MaxQty

AddItem(w) ==
    /\ wr[w].pc = "add"
    /\ \/ /\ TakesItem(w)
          /\ cart' = [cart EXCEPT ![wr[w].cart].cur = wr[w].cur, ![wr[w].cart].qty[wr[w].item] = NewQty(w)]
          /\ wr' = [wr EXCEPT ![w].pc = "view"]
       \/ /\ ~TakesItem(w)
          /\ wr' = [wr EXCEPT ![w] = IdleWr]
          /\ UNCHANGED cart
    /\ UNCHANGED <<price, keys, orders, co, overran>>

\* updateItem and removeItem lock the cart of the item: 0 deletes the item.
SetItem(w, u, x, q) ==
    /\ wr[w].pc = "idle"
    /\ \E c \in ActiveCarts(u) :
         /\ cart[c].qty[x] > 0
         /\ cart' = [cart EXCEPT ![c].qty[x] = q]
    /\ wr' = [wr EXCEPT ![w] = [IdleWr EXCEPT !.pc = "view", !.usr = u]]
    /\ UNCHANGED <<price, keys, orders, co, overran>>

ClearCart(u) ==
    /\ \E c \in ActiveCarts(u) : cart' = [cart EXCEPT ![c].qty = NoItems]
    /\ UNCHANGED <<price, keys, orders, co, wr, overran>>

\* Every change ends by returning getCart, which creates a cart when a checkout
\* has taken the one that was changed; it is also a call of its own.
GetCart(w, u, cur) ==
    /\ \/ wr[w].pc = "idle"
       \/ wr[w].pc = "view" /\ wr[w].usr = u
    /\ \E c \in CartIds : GetOrCreateActiveCart(u, cur, c)
    /\ wr' = [wr EXCEPT ![w] = IdleWr]
    /\ UNCHANGED <<price, keys, orders, co, overran>>

CartCallDies(w) ==
    /\ wr[w].pc # "idle"
    /\ wr' = [wr EXCEPT ![w] = IdleWr]
    /\ UNCHANGED <<price, cart, keys, orders, co, overran>>

-----------------------------------------------------------------------------
(***************************************************************************)
(* checkout.  A call without a key goes straight to the transaction.       *)
(***************************************************************************)
Row(r) == keys[<<co[r].usr, co[r].key>>]
SetRow(r, row) == keys' = [keys EXCEPT ![<<co[r].usr, co[r].key>>] = row]
Goto(r, pc) == co' = [co EXCEPT ![r].pc = pc]
Return(r) == co' = [co EXCEPT ![r] = IdleCo]

\* The key is looked up.  An expired key, a key of another request (the
\* fingerprint is the user and the currency) and a committed one end the call.
CheckoutStart(r, u, k, cur) ==
    LET row == keys[<<u, k>>]
        call(pc) == co' = [co EXCEPT ![r] = [pc |-> pc, usr |-> u, key |-> k, cur |-> cur]]
    IN /\ co[r].pc = "idle"
       /\ \/ k = NoKey /\ call("tx")
          \/ /\ k # NoKey
             /\ \/ row.st = "ABSENT" /\ call("reserve")
                \/ /\ row.st = "IN_PROGRESS" /\ row.age # "expired" /\ row.cur = cur
                   /\ call(IF row.age = "stale" THEN "reclaim" ELSE "poll")
       /\ UNCHANGED <<price, cart, keys, orders, wr, overran>>

\* The insert of the reservation; the loser of two inserts polls.
Reserve(r) ==
    /\ co[r].pc = "reserve"
    /\ \/ /\ Row(r).st = "ABSENT"
          /\ SetRow(r, [Absent EXCEPT !.st = "IN_PROGRESS", !.cur = co[r].cur])
          /\ Goto(r, "tx")
       \/ /\ Row(r).st # "ABSENT"
          /\ Goto(r, "poll")
          /\ UNCHANGED keys
    /\ UNCHANGED <<price, cart, orders, wr, overran>>

\* Mutant: the takeover does not look at the row again.
ReclaimableAlways(r) == Row(r).st # "ABSENT"

\* A reservation older than 10 s.
Reclaimable(r) == Row(r).st = "IN_PROGRESS" /\ Row(r).age # "fresh"

\* The compare-and-set that takes a stale reservation over.
Reclaim(r) ==
    /\ co[r].pc = "reclaim"
    /\ \/ /\ Reclaimable(r)
          /\ SetRow(r, [Row(r) EXCEPT !.age = "fresh"])
          /\ Goto(r, "tx")
       \/ /\ ~Reclaimable(r)
          /\ Goto(r, "poll")
          /\ UNCHANGED keys
    /\ UNCHANGED <<price, cart, orders, wr, overran>>

\* pollIdempotencyResponse ends when the row is gone, committed or another
\* request's, or after 8 s; until then it does nothing.
Poll(r) ==
    /\ co[r].pc = "poll"
    /\ Return(r)
    /\ UNCHANGED <<price, cart, keys, orders, wr, overran>>

\* Mutant: only the lines are checked against the bounds, not their sum.
BuyableLines(qty, cur) ==
    \A x \in Prices : qty[x] > 0 =>
        /\ price[x].on
        /\ price[x].cur = cur
        /\ price[x].amt * qty[x] <= MaxAmount

LineTotals(qty) == [x \in Prices |-> price[x].amt * qty[x]]

\* The validation of every item: nothing is repriced or dropped, one bad item
\* refuses the whole cart.
Buyable(qty, cur) ==
    /\ BuyableLines(qty, cur)
    /\ SumFunction(LineTotals(qty)) <= MaxAmount

\* Cart c passes every check of the transaction that locked and claimed it.
Orderable(r, c) ==
    /\ c \in ActiveCarts(co[r].usr)
    /\ cart[c].cur = co[r].cur
    /\ cart[c].qty # NoItems
    /\ Buyable(cart[c].qty, co[r].cur)

\* The transaction: lock the active cart, claim it, create the order, its lines
\* and its payment, and store the response in the key's row, whoever holds it now.
\* The update of a row that is gone throws, which rolls everything back.
CheckoutTx(r) ==
    /\ co[r].pc = "tx"
    /\ co[r].key # NoKey => Row(r).st # "ABSENT"
    /\ \E c \in CartIds :
         /\ Orderable(r, c)
         /\ cart' = [cart EXCEPT ![c].st = "CONVERTED"]
         /\ orders' = orders \cup {[cart |-> c, usr |-> co[r].usr, key |-> co[r].key, cur |-> co[r].cur,
                                    qty |-> cart[c].qty, line |-> LineTotals(cart[c].qty),
                                    total |-> SumFunction(LineTotals(cart[c].qty))]}
         /\ IF co[r].key = NoKey THEN UNCHANGED keys
            ELSE SetRow(r, [Row(r) EXCEPT !.st = "COMMITTED", !.cart = c])
    /\ Return(r)
    /\ UNCHANGED <<price, wr, overran>>

\* Any refusal, lost row, conflict or timeout rolls the transaction back.
CheckoutFails(r) ==
    /\ co[r].pc = "tx"
    /\ IF co[r].key = NoKey THEN Return(r) ELSE Goto(r, "cleanup")
    /\ UNCHANGED <<price, cart, keys, orders, wr, overran>>

\* Mutant: the cleanup of a failed checkout deletes the key whatever its status.
CleanupAnyStatus(r) ==
    /\ co[r].pc = "cleanup"
    /\ SetRow(r, Absent)
    /\ Return(r)
    /\ UNCHANGED <<price, cart, orders, wr, overran>>

\* The cleanup of a failed checkout deletes the reservation, if it is still one.
Cleanup(r) ==
    /\ co[r].pc = "cleanup"
    /\ IF Row(r).st = "IN_PROGRESS" THEN SetRow(r, Absent) ELSE UNCHANGED keys
    /\ Return(r)
    /\ UNCHANGED <<price, cart, orders, wr, overran>>

CheckoutDies(r) ==
    /\ co[r].pc # "idle"
    /\ Return(r)
    /\ UNCHANGED <<price, cart, keys, orders, wr, overran>>

-----------------------------------------------------------------------------
(***************************************************************************)
(* Time                                                                    *)
(***************************************************************************)
\* Call r took itself for the leader of key k, or is about to.
Leads(r, u, k) == co[r].pc \in {"reclaim", "tx", "cleanup"} /\ co[r].usr = u /\ co[r].key = k

\* Ten seconds pass.  The transaction may wait 10 s for a connection and run for
\* 20 s, so a live leader can be older than its lease.
LeaseExpires(u, k) ==
    /\ keys[<<u, k>>].st = "IN_PROGRESS" /\ keys[<<u, k>>].age = "fresh"
    /\ keys' = [keys EXCEPT ![<<u, k>>].age = "stale"]
    /\ overran' = IF \E r \in Checkouts : Leads(r, u, k) THEN overran \cup {<<u, k>>} ELSE overran
    /\ UNCHANGED <<price, cart, orders, co, wr>>

\* A day passes: an expired key refuses every call from then on.
KeyExpires(u, k) ==
    /\ keys[<<u, k>>].st # "ABSENT" /\ keys[<<u, k>>].age # "expired"
    /\ \A r \in Checkouts : ~(co[r].usr = u /\ co[r].key = k)
    /\ keys' = [keys EXCEPT ![<<u, k>>].age = "expired"]
    /\ UNCHANGED <<price, cart, orders, co, wr, overran>>

-----------------------------------------------------------------------------
CheckoutCall(r) ==
    \/ \E u \in Users, k \in Keys \cup {NoKey}, cur \in Currencies : CheckoutStart(r, u, k, cur)
    \/ Reserve(r) \/ Reclaim(r) \/ Poll(r)
    \/ CheckoutTx(r) \/ CheckoutFails(r) \/ Cleanup(r) \/ CheckoutDies(r)

CartCall(w) ==
    \/ \E u \in Users, x \in Prices, q \in 1 .. MaxQty : AddItemRead(w, u, x, q)
    \/ AddItemTarget(w) \/ AddItem(w) \/ CartCallDies(w)
    \/ \E u \in Users, x \in Prices, q \in 0 .. MaxQty : SetItem(w, u, x, q)
    \/ \E u \in Users, cur \in Currencies : GetCart(w, u, cur)

Time == \E u \in Users, k \in Keys : LeaseExpires(u, k) \/ KeyExpires(u, k)

Catalogue ==
    \E x \in Prices, cur \in Currencies, amt \in Amounts, on \in BOOLEAN : UpdatePrice(x, cur, amt, on)

Next ==
    \/ \E r \in Checkouts : CheckoutCall(r)
    \/ \E w \in Writers : CartCall(w)
    \/ \E u \in Users : ClearCart(u)
    \/ Time \/ Catalogue

Spec == Init /\ [][Next]_vars

-----------------------------------------------------------------------------
(***************************************************************************)
(* Properties                                                              *)
(***************************************************************************)
Quantities == [Prices -> 0 .. MaxQty]

\* The tables and the local records keep their shape.
TypeOK ==
    /\ price \in [Prices -> [cur : Currencies, amt : Amounts, on : BOOLEAN]]
    /\ cart \in [CartIds -> [usr : Users, st : {"ACTIVE", "CONVERTED"}, cur : Currencies, qty : Quantities]
                            \cup {NoRow}]
    /\ keys \in [Users \X Keys ->
                   [st : {"IN_PROGRESS"}, cur : Currencies, age : {"fresh", "stale", "expired"}, cart : {NoCart}]
                   \cup [st : {"COMMITTED"}, cur : Currencies, age : {"fresh", "stale", "expired"}, cart : CartIds]
                   \cup {Absent}]
    /\ orders \subseteq [cart : CartIds, usr : Users, key : Keys \cup {NoKey}, cur : Currencies, qty : Quantities,
                         line : [Prices -> Nat], total : Nat]
    /\ co \in [Checkouts -> [pc : {"reserve", "reclaim", "poll", "cleanup"}, usr : Users, key : Keys, cur : Currencies]
                            \cup [pc : {"tx"}, usr : Users, key : Keys \cup {NoKey}, cur : Currencies]
                            \cup {IdleCo}]
    /\ wr \in [Writers -> [pc : {"target", "add", "view"}, usr : Users, item : Prices \cup {NoCart}, qty : 0 .. MaxQty,
                           cur : Currencies \cup {"none"}, cart : CartIds \cup {NoCart}]
                          \cup {IdleWr}]
    /\ overran \subseteq Users \X Keys

\* A cart becomes exactly one order, with exactly the quantities the cart holds:
\* no cart call, however late, changes a cart that was checked out.
OrderIsItsCart ==
    /\ \A o \in orders : /\ cart[o.cart].st = "CONVERTED"
                         /\ cart[o.cart].usr = o.usr /\ cart[o.cart].cur = o.cur /\ cart[o.cart].qty = o.qty
    /\ \A o, q \in orders : o.cart = q.cart => o = q
    /\ \A c \in CartIds : cart[c].st = "CONVERTED" => \E o \in orders : o.cart = c

\* An order charges something that is in it, within 32 bits, and its total is the
\* sum of its lines, whatever happens to prices while the checkout runs.
OrderTotalsFit ==
    \A o \in orders : /\ o.qty # NoItems
                      /\ o.total = SumFunction(o.line)
                      /\ o.total <= MaxAmount

\* Tables and calls in shape, and orders charged what their lines say.
OrdersAreSound == TypeOK /\ OrderTotalsFit

\* The response a key replays is an order that really exists, of the user who sent
\* it and made under that key, also when two calls took themselves for the leader;
\* and an order made under a key is never left behind a reservation that is gone.
CommittedKeyNamesItsOrder ==
    /\ \A u \in Users, k \in Keys : keys[<<u, k>>].st = "COMMITTED" =>
          \E o \in orders : o.cart = keys[<<u, k>>].cart /\ o.usr = u /\ o.key = k
    /\ \A o \in orders : o.key # NoKey => keys[<<o.usr, o.key>>].st = "COMMITTED"

\* As long as no leader outlived its lease, a replayed response answers the request
\* it was stored for: its currency is the one in the key's fingerprint.  (A late
\* leader may store its order under a reservation made for another currency.)
KeyAnswersItsRequest ==
    \A u \in Users, k \in Keys :
        keys[<<u, k>>].st = "COMMITTED" /\ <<u, k>> \notin overran => cart[keys[<<u, k>>].cart].cur = keys[<<u, k>>].cur

\* What a key replays is true: the order exists, is the user's, was made under the key and,
\* unless a leader outlived its lease, answers the request the key was reserved for; and
\* no cleanup of a failed call takes a key away from its order (checkout, lines 187-320).
CommittedKeysHold == CommittedKeyNamesItsOrder /\ KeyAnswersItsRequest

\* As long as no leader outlived its 10 s lease, a key makes at most one order,
\* however often the checkout is sent again, dies, fails or is taken over.
OneOrderWithinLease ==
    \A o, q \in orders :
        o.key # NoKey /\ o.key = q.key /\ o.usr = q.usr /\ <<o.usr, o.key>> \notin overran => o = q

\* "Scoped idempotency reservation (status: IN_PROGRESS) to serialize concurrent
\* requests": a key makes at most one order.
OneOrderPerKey ==
    \A o, q \in orders : o.key # NoKey /\ o.key = q.key /\ o.usr = q.usr => o = q
=============================================================================
