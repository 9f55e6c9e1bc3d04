----------------------------- MODULE Allocation -----------------------------
(***************************************************************************)
(* External licenses: packages/database/src/domain/allocation-engine.ts,   *)
(* beside the entitlements of Entitlements.tla.                            *)
(*                                                                         *)
(* A customer asks for a domain; an administrator, who activates it by     *)
(* hand at the provider, books it on one of the provider's accounts.  The  *)
(* activation locks the allocation, its entitlement and the account, in    *)
(* this order; the confirmation of a deactivation locks the allocation     *)
(* and its account.  The domain is checked across all accounts, which no   *)
(* lock covers: there the unique index of the table decides.               *)
(***************************************************************************)
EXTENDS Entitlements

CONSTANTS
    Rows,         \* the rows of license_allocations a behaviour may create
    Sites,        \* normalized domains
    Accounts,     \* the accounts of the provider
    Totals,       \* what total_capacity may be set to
    MaxSites,     \* max_activations of the entitlements
    MaxBookings,  \* bound: activations and confirmations begun
    MaxEdits      \* bound: accounts created or changed

ASSUME AllocationAssumption ==
    Totals \subseteq Nat \ {0} /\ MaxSites \in Nat \ {0} /\ MaxBookings \in Nat /\ MaxEdits \in Nat

VARIABLES
    alloc,      \* alloc[r]: the row, or NoRow
    rowLock,    \* rowLock[r]: the request that has locked it
    account,    \* account[p]: status and capacity of the account, or NoAccount
    acctLock,   \* acctLock[p]: the request that has locked it
    booking,    \* booking[c]: an activation or a confirmation under way
    bookings, edits

allocVars == <<alloc, rowLock, account, acctLock, booking, bookings, edits>>
allocationVars == <<entVars, allocVars>>

NoRow == [st |-> "none"]
NoAccount == [status |-> "none", total |-> 0]
NoBooking == [pc |-> "idle"]

AllocationInit ==
    /\ EntitlementsInit
    /\ alloc = [r \in Rows |-> NoRow]
    /\ rowLock = [r \in Rows |-> Nobody]
    /\ account = [p \in Accounts |-> NoAccount]
    /\ acctLock = [p \in Accounts |-> Nobody]
    /\ booking = [c \in Calls |-> NoBooking]
    /\ bookings = 0 /\ edits = 0

Rowed(st) == {r \in Rows : alloc[r].st \in st}
Open == Rowed({"PENDING", "ACTIVE", "DEACTIVATION_PENDING"})
Consumed(p) == Cardinality({r \in Rowed({"ACTIVE", "DEACTIVATION_PENDING"}) : alloc[r].account = p})

-----------------------------------------------------------------------------
\* Customers.

\* requestDomainAllocation: the count and the insert are under the lock of the entitlement.
RequestDomainAllocation(r, e, d) ==
    /\ alloc[r] = NoRow
    /\ entLock[e] = Nobody /\ InForce(e) /\ item[e].kind = "EXTERNAL_MANAGED" /\ item[e].snapshot # "noplan"
    /\ Cardinality({o \in Open : alloc[o].e = e}) < MaxSites
    /\ ~\E o \in Open : alloc[o].e = e /\ alloc[o].domain = d
    /\ ~\E o \in Rowed({"ACTIVE"}) : alloc[o].domain = d
    /\ alloc' = [alloc EXCEPT ![r] = [st |-> "PENDING", e |-> e, domain |-> d, account |-> "none"]]
    /\ UNCHANGED <<entVars, rowLock, account, acctLock, booking, bookings, edits>>

Move(r, from, to) ==
    /\ alloc[r].st = from /\ rowLock[r] = Nobody
    /\ alloc' = [alloc EXCEPT ![r].st = to]
    /\ UNCHANGED <<entVars, rowLock, account, acctLock, booking, bookings, edits>>

RequestAllocationDeactivation(r) == Move(r, "ACTIVE", "DEACTIVATION_PENDING")
AdminRejectAllocation(r) == Move(r, "PENDING", "REJECTED")

-----------------------------------------------------------------------------
\* Bookings.
BeginBooking(c, r, p, pc) ==
    /\ booking[c] = NoBooking /\ bookings < MaxBookings
    /\ rowLock[r] = Nobody
    /\ rowLock' = [rowLock EXCEPT ![r] = c]
    /\ bookings' = bookings + 1
    /\ booking' = [booking EXCEPT ![c] = [pc |-> pc, r |-> r, p |-> p]]
    /\ UNCHANGED <<entVars, alloc, account, acctLock, edits>>

AdminActivateAllocation(c, r, p) ==
    alloc[r].st = "PENDING" /\ account[p] # NoAccount /\ BeginBooking(c, r, p, "activate")

\* Mutant: an allocation that was never activated can be confirmed as deactivated.
ConfirmAnyOpen(c, r) ==
    alloc[r].st \in {"PENDING", "DEACTIVATION_PENDING"} /\ BeginBooking(c, r, alloc[r].account, "confirm")

AdminConfirmDeactivated(c, r) ==
    alloc[r].st = "DEACTIVATION_PENDING" /\ BeginBooking(c, r, alloc[r].account, "confirm")

BookedEntitlement(c) == alloc[booking[c].r].e

\* Step 2 of the activation.
LockParent(c) ==
    LET e == BookedEntitlement(c)
    IN  /\ booking[c].pc = "activate"
        /\ entLock[e] = Nobody /\ InForce(e)
        /\ entLock' = [entLock EXCEPT ![e] = c]
        /\ booking' = [booking EXCEPT ![c].pc = "parent"]
        /\ UNCHANGED <<orderStatus, item, ent, over, alloc, rowLock, account, acctLock, bookings, edits>>

\* Mutant: the account is read without FOR UPDATE.
ReadAccount(c) ==
    /\ booking[c].pc \in {"parent", "confirm"}
    /\ booking' = [booking EXCEPT ![c].pc = IF @ = "parent" THEN "account" ELSE "release"]
    /\ UNCHANGED <<entVars, alloc, rowLock, account, acctLock, bookings, edits>>

LockAccount(c) ==
    /\ booking[c].pc \in {"parent", "confirm"} /\ acctLock[booking[c].p] = Nobody
    /\ acctLock' = [acctLock EXCEPT ![booking[c].p] = c]
    /\ booking' = [booking EXCEPT ![c].pc = IF @ = "parent" THEN "account" ELSE "release"]
    /\ UNCHANGED <<entVars, alloc, rowLock, account, bookings, edits>>

OthersActiveOnDomain(r) == {o \in Rowed({"ACTIVE"}) \ {r} : alloc[o].domain = alloc[r].domain}

\* Steps 3 to 5 of the activation.
CountConsumed(c) ==
    LET p == booking[c].p
    IN  /\ booking[c].pc = "account"
        /\ account[p].status = "ACTIVE" /\ Consumed(p) < account[p].total
        /\ OthersActiveOnDomain(booking[c].r) = {}
        /\ booking' = [booking EXCEPT ![c].pc = "counted"]
        /\ UNCHANGED <<entVars, alloc, rowLock, account, acctLock, bookings, edits>>

\* Commit or rollback: a refusal, a lost connection or a violated index undoes it all.
EndBooking(c) ==
    /\ booking' = [booking EXCEPT ![c] = NoBooking]
    /\ rowLock' = [r \in Rows |-> IF rowLock[r] = c THEN Nobody ELSE rowLock[r]]
    /\ entLock' = [e \in Items |-> IF entLock[e] = c THEN Nobody ELSE entLock[e]]
    /\ acctLock' = [p \in Accounts |-> IF acctLock[p] = c THEN Nobody ELSE acctLock[p]]
    /\ UNCHANGED <<orderStatus, item, ent, over, bookings, edits>>

RollBack(c) == booking[c] # NoBooking /\ EndBooking(c) /\ UNCHANGED <<alloc, account>>

\* Step 6: unique_active_provider_domain lets one activation of the domain through.
Book(c) ==
    LET r == booking[c].r
        p == booking[c].p
    IN  /\ booking[c].pc = "counted"
        /\ OthersActiveOnDomain(r) = {}
        /\ alloc' = [alloc EXCEPT ![r].st = "ACTIVE", ![r].account = p]
        /\ account' = [account EXCEPT ![p].status = IF Consumed(p) + 1 >= account[p].total THEN "EXHAUSTED" ELSE @]
        /\ EndBooking(c)

Release(c) ==
    LET p == booking[c].p
    IN  /\ booking[c].pc = "release"
        /\ alloc' = [alloc EXCEPT ![booking[c].r].st = "DEACTIVATED"]
        /\ account' = [account EXCEPT ![p].status =
                         IF @ = "SUSPENDED" THEN @
                         ELSE IF Consumed(p) - 1 >= account[p].total THEN "EXHAUSTED" ELSE "ACTIVE"]
        /\ EndBooking(c)

-----------------------------------------------------------------------------
\* Accounts and the worker.
AdminCreateProviderAccount(p, total, status) ==
    /\ account[p] = NoAccount /\ status # "EXHAUSTED" /\ edits < MaxEdits
    /\ account' = [account EXCEPT ![p] = [status |-> status, total |-> total]]
    /\ edits' = edits + 1
    /\ UNCHANGED <<entVars, alloc, rowLock, acctLock, booking, bookings>>

\* The status that is asked for counts as a suspension or as none.
ResolvedStatus(p, total, asked) ==
    IF asked = "SUSPENDED" \/ (account[p].status = "SUSPENDED" /\ asked = "unchanged") THEN "SUSPENDED"
    ELSE IF Consumed(p) >= total THEN "EXHAUSTED" ELSE "ACTIVE"

AdminUpdateProviderAccount(p, total, asked) ==
    /\ account[p] # NoAccount /\ acctLock[p] = Nobody /\ edits < MaxEdits
    /\ total >= Consumed(p)
    /\ account' = [account EXCEPT ![p] = [status |-> ResolvedStatus(p, total, asked), total |-> total]]
    /\ edits' = edits + 1
    /\ UNCHANGED <<entVars, alloc, rowLock, acctLock, booking, bookings>>

\* Mutant: only the entitlements whose term ran out are looked at.
StrandedByExpiry == {r \in Rowed({"ACTIVE"}) : ent[alloc[r].e] = "EXPIRED" /\ rowLock[r] = Nobody}

Stranded == {r \in Rowed({"ACTIVE"}) : Ended(alloc[r].e) /\ rowLock[r] = Nobody}

ReconcileExternalAllocations ==
    /\ Stranded # {}
    /\ alloc' = [r \in Rows |-> IF r \in Stranded THEN [alloc[r] EXCEPT !.st = "DEACTIVATION_PENDING"] ELSE alloc[r]]
    /\ UNCHANGED <<entVars, rowLock, account, acctLock, booking, bookings, edits>>

-----------------------------------------------------------------------------
BookingStep(c) ==
    LockParent(c) \/ LockAccount(c) \/ CountConsumed(c) \/ Book(c) \/ Release(c) \/ RollBack(c)

AllocationNext ==
    \/ EntitlementsNext /\ UNCHANGED allocVars
    \/ ReconcileExternalAllocations
    \/ \E r \in Rows, e \in Items, d \in Sites : RequestDomainAllocation(r, e, d)
    \/ \E r \in Rows : RequestAllocationDeactivation(r) \/ AdminRejectAllocation(r)
    \/ \E c \in Calls : BookingStep(c)
    \/ \E c \in Calls, r \in Rows : AdminConfirmDeactivated(c, r)
    \/ \E c \in Calls, r \in Rows, p \in Accounts : AdminActivateAllocation(c, r, p)
    \/ \E p \in Accounts, total \in Totals :
         \/ \E status \in {"ACTIVE", "SUSPENDED"} : AdminCreateProviderAccount(p, total, status)
         \/ \E asked \in {"unchanged", "ACTIVE", "SUSPENDED"} : AdminUpdateProviderAccount(p, total, asked)

\* The worker polls for ever, and every transaction ends.
AllocationFairness ==
    /\ WF_allocationVars(ExpireDueEntitlements /\ UNCHANGED allocVars)
    /\ WF_allocationVars(ReconcileExternalAllocations)
    /\ \A c \in Calls : WF_allocationVars(BookingStep(c))

AllocationSpec == AllocationInit /\ [][AllocationNext]_allocationVars
AllocationFairSpec == AllocationSpec /\ AllocationFairness

-----------------------------------------------------------------------------
AllocationTypeOK ==
    /\ EntitlementsTypeOK
    /\ alloc \in [Rows -> {NoRow} \cup [st : {"PENDING", "ACTIVE", "DEACTIVATION_PENDING", "DEACTIVATED", "REJECTED"},
                                        e : Items, domain : Sites, account : Accounts \cup {"none"}]]
    /\ rowLock \in [Rows -> Calls \cup {Nobody}] /\ acctLock \in [Accounts -> Calls \cup {Nobody}]
    /\ account \in [Accounts -> {NoAccount} \cup [status : {"ACTIVE", "EXHAUSTED", "SUSPENDED"}, total : Totals]]
    /\ booking \in [Calls -> {NoBooking} \cup [pc : {"activate", "confirm", "parent", "account", "counted", "release"},
                                               r : Rows, p : Accounts]]
    /\ bookings \in 0 .. MaxBookings /\ edits \in 0 .. MaxEdits

\* Activations, deactivations and changes of the capacity that compete for an account never
\* fill it beyond its capacity, and unless it is suspended its status says whether it has
\* room (adminActivateAllocation, adminConfirmDeactivated and adminUpdateProviderAccount).
AccountsTellTheirRoom ==
    \A p \in Accounts :
      /\ Consumed(p) <= account[p].total
      /\ account[p].status = "ACTIVE" => Consumed(p) < account[p].total
      /\ account[p].status = "EXHAUSTED" => Consumed(p) = account[p].total

\* However activations on several accounts interleave, a domain is active once at the
\* provider, and an entitlement never has more allocations open than its plan has sites
\* (requestDomainAllocation, lines 209 to 232, and step 5 of adminActivateAllocation).
OneActiveAllocationPerDomain ==
    /\ \A r, o \in Rowed({"ACTIVE"}) : alloc[r].domain = alloc[o].domain => r = o
    /\ \A e \in Items : Cardinality({r \in Open : alloc[r].e = e}) <= MaxSites

\* The books of the provider's accounts: capacity, status, one active row per domain.
RoomHolds == AccountsTellTheirRoom /\ OneActiveAllocationPerDomain

\* An allocation of an entitlement that has ended does not stay active, also when it was
\* being activated at that moment: it is handed to an administrator for deactivation
\* (reconcileExternalAllocations).
AllocationsEndWithTheirEntitlement ==
    \A r \in Rows : (alloc[r].st = "ACTIVE" /\ Ended(alloc[r].e)) ~> alloc[r].st # "ACTIVE"
=============================================================================
