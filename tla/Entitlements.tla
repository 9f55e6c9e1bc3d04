---------------------------- MODULE Entitlements ----------------------------
(***************************************************************************)
(* Entitlements: packages/database/src/domain/entitlement-engine.ts and    *)
(* entitlements.service.ts.  The items of one paid order are turned into   *)
(* rights, which a license, an allocation or a download is checked against *)
(* while a transaction holds the lock of the entitlement's row.            *)
(*                                                                         *)
(* Time is what happens to one date: the term of an entitlement runs out   *)
(* at any moment, long before a worker writes EXPIRED into the row.        *)
(***************************************************************************)
EXTENDS Integers, FiniteSets

CONSTANTS
    Items,           \* the places of the order, each with at most one item and entitlement
    Sold,            \* what the items may be: records of a kind and a snapshot
    Calls,           \* requests of customers and administrators that may run at once
    Nobody           \* the holder of a lock that is free

NoItem == [kind |-> "none", snapshot |-> "none"]

ASSUME EntitlementsAssumption ==
    /\ Sold \subseteq {NoItem} \cup [kind : {"INTERNAL_LICENSE", "EXTERNAL_MANAGED", "DIGITAL_DOWNLOAD"},
                                      snapshot : {"lifetime", "finite", "noplan", "malformed"}]
    /\ Nobody \notin Calls

VARIABLES
    orderStatus,     \* of the order when its ORDER_PAID event is handled
    item,            \* item[e]: the kind and the policy snapshot of the order item
    ent,             \* ent[e]: the status of the entitlement row
    over,            \* over[e]: expires_at has passed
    entLock          \* entLock[e]: the request whose transaction has locked the row

entVars == <<orderStatus, item, ent, over, entLock>>

EntitlementsInit ==
    /\ orderStatus \in {"PAID", "REFUNDED"}
    /\ item \in [Items -> Sold]
    /\ ent = [e \in Items |-> "none"]
    /\ over = [e \in Items |-> FALSE]
    /\ entLock = [e \in Items |-> Nobody]

InForce(e) == ent[e] = "ACTIVE" /\ ~over[e]
Ended(e) == ent[e] \in {"EXPIRED", "REVOKED"}

Unissued == {e \in Items : item[e] # NoItem /\ ent[e] = "none"}

\* issueEntitlementsForOrder: all the items in one transaction; one snapshot that is not
\* well formed undoes them all.  Rows that are there already are left alone.
IssueEntitlementsForOrder ==
    /\ orderStatus = "PAID"
    /\ \A e \in Items : item[e].snapshot # "malformed"
    /\ Unissued # {}
    /\ ent' = [e \in Items |-> IF e \in Unissued THEN "ACTIVE" ELSE ent[e]]
    /\ UNCHANGED <<orderStatus, item, over, entLock>>

\* calculateExpirationDate gives a date to a plan with a duration only.
TermRunsOut(e) ==
    /\ ent[e] = "ACTIVE" /\ item[e].snapshot = "finite" /\ ~over[e]
    /\ over' = [over EXCEPT ![e] = TRUE]
    /\ UNCHANGED <<orderStatus, item, ent, entLock>>

Due == {e \in Items : ent[e] = "ACTIVE" /\ over[e] /\ entLock[e] = Nobody}

\* expireDueEntitlements, FOR UPDATE SKIP LOCKED.
ExpireDueEntitlements ==
    /\ Due # {}
    /\ ent' = [e \in Items |-> IF e \in Due THEN "EXPIRED" ELSE ent[e]]
    /\ UNCHANGED <<orderStatus, item, over, entLock>>

\* Mutant: the conditional update does not wait for the lock of the row.
RevokeEntitlementAtOnce(e) ==
    /\ ent[e] = "ACTIVE"
    /\ ent' = [ent EXCEPT ![e] = "REVOKED"]
    /\ UNCHANGED <<orderStatus, item, over, entLock>>

RevokeEntitlement(e) ==
    /\ ent[e] = "ACTIVE" /\ entLock[e] = Nobody
    /\ ent' = [ent EXCEPT ![e] = "REVOKED"]
    /\ UNCHANGED <<orderStatus, item, over, entLock>>

EntitlementsNext ==
    \/ IssueEntitlementsForOrder
    \/ ExpireDueEntitlements
    \/ \E e \in Items : TermRunsOut(e) \/ RevokeEntitlement(e)

EntitlementsTypeOK ==
    /\ orderStatus \in {"PAID", "REFUNDED"} /\ item \in [Items -> Sold]
    /\ ent \in [Items -> {"none", "ACTIVE", "EXPIRED", "REVOKED"}]
    /\ over \in [Items -> BOOLEAN]
    /\ entLock \in [Items -> Calls \cup {Nobody}]
=============================================================================
