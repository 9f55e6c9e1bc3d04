----------------------------- MODULE MCCheckout -----------------------------
\* Checkouts of one user: of carts with two variants and no key, or twice with one key.
EXTENDS Checkout, TLC

VARIABLE focus

\* The variant that is sold where only one is.
OneVariant == CHOOSE x \in Prices : TRUE
Others == Prices \ {OneVariant}

\* Bounds: one checkout at a time, without a key, at unit prices.
CartsBound ==
    /\ Cardinality({r \in Checkouts : co[r] # IdleCo}) <= 1
    /\ \A r \in Checkouts : co[r].key = NoKey
    /\ \A x \in Prices : price[x].amt = 1

\* Bounds: one piece of one variant at a price of two.
KeysBound ==
    /\ \A x \in Others : price[x] = [cur |-> CHOOSE cur \in Currencies : TRUE, amt |-> 2, on |-> TRUE]
    /\ \A x \in Prices : price[x].amt = 2
    /\ \A c \in CartIds : cart[c].qty[OneVariant] <= 1 /\ \A x \in Others : cart[c].qty[x] = 0
    /\ \A w \in Writers : wr[w].item \notin Others /\ wr[w].qty <= 1

MCInit == Init /\ \/ focus = "carts" /\ CartsBound
                  \/ focus = "keys" /\ KeysBound

Carts == focus = "carts" /\ Next /\ CartsBound' /\ UNCHANGED focus
KeysOnly == focus = "keys" /\ Next /\ KeysBound' /\ UNCHANGED focus

MCNext == Carts \/ KeysOnly

MCSpec == MCInit /\ [][MCNext]_<<vars, focus>>

Symm == Permutations(Checkouts) \cup Permutations(Writers) \cup Permutations(CartIds)
=============================================================================
