------------------------------ MODULE MCAccess ------------------------------
\* What a customer gets for a paid order, one part per behaviour: the licenses and the
\* provider allocations beside the entitlements both are derived from, the release of a
\* version, the download limit, and the calendar of all terms.  The other parts stay in their
\* initial state.
EXTENDS Licensing, Allocation, Downloads, Calendar

VARIABLE part

accessVars == <<entVars, licVars, allocVars, releaseVars, limitVars, activatedOn, part>>

Sale(kind, snapshot) == [kind |-> kind, snapshot |-> snapshot]

MCSold ==
    {NoItem, Sale("DIGITAL_DOWNLOAD", "lifetime"), Sale("EXTERNAL_MANAGED", "lifetime")}
      \cup [kind : {"INTERNAL_LICENSE"}, snapshot : {"lifetime", "finite", "noplan", "malformed"}]

\* One item with a license of its own, or two whose licenses the provider gives.
OrderIn(p) ==
    CASE p = "licensing" -> item["e2"] = NoItem /\ item["e1"].kind \in {"INTERNAL_LICENSE", "DIGITAL_DOWNLOAD"}
      [] p = "allocation" -> item["e2"] = Sale("EXTERNAL_MANAGED", "lifetime") /\ item["e1"].kind = "EXTERNAL_MANAGED"
      [] OTHER -> orderStatus = "PAID" /\ \A e \in Items : item[e] = NoItem

MCInit ==
    /\ part \in {"licensing", "allocation", "releases", "limit", "calendar"}
    /\ LicensingInit /\ AllocationInit /\ ReleasesInit /\ LimitInit /\ CalendarInit
    /\ OrderIn(part)
    /\ part # "releases" => licensed

Licenses == part = "licensing" /\ LicensingNext /\ UNCHANGED <<allocVars, releaseVars, limitVars, activatedOn, part>>
Allocations == part = "allocation" /\ AllocationNext /\ UNCHANGED <<licVars, releaseVars, limitVars, activatedOn, part>>
OneRelease == part = "releases" /\ ReleasesNext /\ UNCHANGED <<entVars, licVars, allocVars, limitVars, activatedOn, part>>
OneLimit == part = "limit" /\ LimitNext /\ UNCHANGED <<entVars, licVars, allocVars, releaseVars, activatedOn, part>>
EveryDay == part = "calendar" /\ Activate /\ UNCHANGED <<entVars, licVars, allocVars, releaseVars, limitVars, part>>

MCNext == Licenses \/ Allocations \/ OneRelease \/ OneLimit \/ EveryDay

MCSpec == MCInit /\ [][MCNext]_accessVars /\ LicensingFairness /\ AllocationFairness

\* Every variable of the five parts stays in its type.
AccessTypeOK == LicensingTypeOK /\ AllocationTypeOK /\ ReleasesTypeOK /\ LimitTypeOK /\ CalendarTypeOK

\* Whatever was derived from an entitlement ends with it: its license, the seats of the
\* license and its allocations at a provider (the two reconciliations of the worker).
DerivedRightsEnd == LicensesEndWithTheirEntitlement /\ AllocationsEndWithTheirEntitlement
=============================================================================
