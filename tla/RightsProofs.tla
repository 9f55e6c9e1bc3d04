---------------------------- MODULE RightsProofs ----------------------------
(***************************************************************************)
(* Proofs about what an entitlement gives: Licensing, for any items,       *)
(* domains, requests, workers and seats; Allocation, for any rows,         *)
(* domains, accounts, capacities and requests; Calendar, for any years and *)
(* terms; and Downloads: the versions of Releases, for any uploads and     *)
(* publishers, and the window of DownloadLimit, for any limit and clock.   *)
(* Last, their composition MCAccess.                                       *)
(***************************************************************************)
EXTENDS MCAccess, FiniteSetTheorems, TLAPS

-----------------------------------------------------------------------------
(***************************************************************************)
(* Internal licenses                                                       *)
(***************************************************************************)

Under(c) == call[c].pc \in {"locked", "checked"}
OnLicense(c) == call[c].pc # "idle" /\ call[c].op \in {"activate", "update"}

\* A transaction that has locked a row holds it until it ends.
LocksAreHeld ==
    \A c \in Calls :
      /\ Under(c) => entLock[call[c].e] = c
      /\ OnLicense(c) => licLock[call[c].e] = c

\* What a transaction has seen under its locks is still so when it writes: the entitlement
\* is not ended, the license is active and a seat is free.
ChecksStillHold ==
    \A c \in Calls : call[c].pc = "checked" =>
      /\ ent[call[c].e] = "ACTIVE"
      /\ call[c].op = "activate" =>
           license[call[c].e] = "ACTIVE" /\ Cardinality(seats[call[c].e]) < MaxActivations

FiniteSeats == \A e \in Items : IsFiniteSet(seats[e])

LicensingInv == LicensingTypeOK /\ LocksAreHeld /\ ChecksStillHold /\ FiniteSeats /\ SeatsHold

LEMMA LicenseCalls ==
    ASSUME LicensingTypeOK, NEW c \in Calls, call[c].pc # "idle"
    PROVE  /\ call[c].pc \in {"license", "locked", "checked"} /\ call[c].e \in Items
           /\ call[c].op \in {"download", "activate", "update"}
           /\ call[c].op \in {"activate", "update"} => call[c].d \in Domains
<1>1. call[c] \in {AtRest} \cup [pc : {"license", "locked", "checked"}, op : {"download"}, e : Items]
                    \cup [pc : {"license", "locked", "checked"}, op : {"activate", "update"}, e : Items, d : Domains]
    BY DEF LicensingTypeOK
<1> QED
    BY <1>1 DEF AtRest

LEMMA NobodyIsNoCall == Nobody \notin Calls
BY EntitlementsAssumption

LEMMA LicensingInitially == LicensingInit => LicensingInv
<1> SUFFICES ASSUME LicensingInit PROVE LicensingInv
    OBVIOUS
<1>1. LicensingTypeOK
    BY LicensingAssumption DEF LicensingInit, EntitlementsInit, LicensingTypeOK, EntitlementsTypeOK
<1>2. \A c \in Calls : call[c].pc = "idle"
    BY DEF LicensingInit, AtRest
<1>3. LocksAreHeld /\ ChecksStillHold
    BY <1>2 DEF LocksAreHeld, ChecksStillHold, Under, OnLicense
<1>4. \A e \in Items : seats[e] = {}
    BY DEF LicensingInit
<1>5. FiniteSeats /\ SeatsHold
    BY <1>4, FS_EmptySet, LicensingAssumption DEF FiniteSeats, SeatsHold, SeatsWithinCapacity, OnlyActiveLicensesHaveSeats
<1> QED
    BY <1>1, <1>3, <1>5 DEF LicensingInv

-----------------------------------------------------------------------------
\* Entitlements are issued, run out, expire and are revoked: a row that is locked is left
\* as it is.
LEMMA EntitlementsLeaveLicenses ==
    ASSUME LicensingInv, EntitlementsNext, UNCHANGED licVars
    PROVE  LicensingInv'
<1>1. entLock' = entLock /\ orderStatus' = orderStatus /\ item' = item
    BY DEF EntitlementsNext, IssueEntitlementsForOrder, ExpireDueEntitlements, TermRunsOut, RevokeEntitlement
<1>2. /\ ent' \in [Items -> {"none", "ACTIVE", "EXPIRED", "REVOKED"}] /\ over' \in [Items -> BOOLEAN]
      /\ \A e \in Items : ent[e] = "ACTIVE" /\ entLock[e] # Nobody => ent'[e] = "ACTIVE"
  <2> USE DEF LicensingInv, LicensingTypeOK, EntitlementsTypeOK
  <2>1. CASE IssueEntitlementsForOrder
    BY <2>1 DEF IssueEntitlementsForOrder
  <2>2. CASE ExpireDueEntitlements
    BY <2>2 DEF ExpireDueEntitlements, Due
  <2>3. ASSUME NEW e \in Items, TermRunsOut(e)
        PROVE  ent' = ent /\ over' \in [Items -> BOOLEAN]
    BY <2>3 DEF TermRunsOut
  <2>4. ASSUME NEW e \in Items, RevokeEntitlement(e)
        PROVE  /\ ent' \in [Items -> {"none", "ACTIVE", "EXPIRED", "REVOKED"}] /\ over' = over
               /\ \A f \in Items : ent[f] = "ACTIVE" /\ entLock[f] # Nobody => ent'[f] = "ACTIVE"
    BY <2>4 DEF RevokeEntitlement
  <2> QED
    BY <2>1, <2>2, <2>3, <2>4 DEF EntitlementsNext
<1>3. LicensingTypeOK'
    BY <1>1, <1>2 DEF LicensingInv, LicensingTypeOK, EntitlementsTypeOK, licVars
<1>4. LocksAreHeld'
    BY <1>1 DEF LicensingInv, LocksAreHeld, Under, OnLicense, licVars
<1>5. ChecksStillHold'
  <2> SUFFICES ASSUME NEW c \in Calls, call[c].pc = "checked" PROVE ent'[call[c].e] = "ACTIVE"
    BY DEF ChecksStillHold, licVars, LicensingInv
  <2>1. call[c].e \in Items /\ entLock[call[c].e] = c /\ ent[call[c].e] = "ACTIVE"
    BY LicenseCalls DEF LicensingInv, LocksAreHeld, ChecksStillHold, Under
  <2> QED
    BY <1>2, <2>1, NobodyIsNoCall
<1>6. FiniteSeats' /\ SeatsHold'
    BY DEF LicensingInv, FiniteSeats, SeatsHold, SeatsWithinCapacity, OnlyActiveLicensesHaveSeats, licVars
<1> QED
    BY <1>3, <1>4, <1>5, <1>6 DEF LicensingInv

\* A license is revoked while no transaction holds it, and frees its seats.
LEMMA RevokeStep ==
    ASSUME LicensingInv, NEW dead \in SUBSET Items, \A e \in dead : licLock[e] = Nobody, Revoke(dead)
    PROVE  LicensingInv'
<1> USE DEF Revoke, entVars
<1>1. LicensingTypeOK'
    BY DEF LicensingInv, LicensingTypeOK, EntitlementsTypeOK
<1>2. LocksAreHeld'
    BY DEF LicensingInv, LocksAreHeld, Under, OnLicense
<1>3. ChecksStillHold'
  <2> SUFFICES ASSUME NEW c \in Calls, call[c].pc = "checked", call[c].op = "activate"
               PROVE  /\ license'[call[c].e] = license[call[c].e]
                      /\ seats'[call[c].e] = seats[call[c].e]
    BY DEF LicensingInv, ChecksStillHold
  <2>1. call[c].e \in Items /\ licLock[call[c].e] = c
    BY LicenseCalls DEF LicensingInv, LocksAreHeld, OnLicense
  <2> QED
    BY <2>1, NobodyIsNoCall
<1>4. \A e \in Items : seats'[e] = {} \/ (seats'[e] = seats[e] /\ license'[e] = license[e])
    BY DEF LicensingInv, LicensingTypeOK
<1>5. FiniteSeats' /\ SeatsHold'
    BY <1>4, FS_EmptySet, LicensingAssumption
       DEF LicensingInv, FiniteSeats, SeatsHold, SeatsWithinCapacity, OnlyActiveLicensesHaveSeats
<1> QED
    BY <1>1, <1>2, <1>3, <1>5 DEF LicensingInv

\* A worker makes licenses and announces them; it never touches one that exists.
LEMMA WorkerLeavesRequests ==
    ASSUME LicensingInv, NEW w \in Workers, WorkerStep(w) \/ ProvisionerDies(w)
    PROVE  LicensingInv'
<1>1. LicensingTypeOK'
  <2> USE DEF LicensingInv, LicensingTypeOK, EntitlementsTypeOK, entVars
  <2>1. CASE ProvisionInternalLicenses(w)
    BY <2>1 DEF ProvisionInternalLicenses, Unlicensed
  <2>2. CASE EnqueueLicenseEmail(w)
    BY <2>2 DEF EnqueueLicenseEmail
  <2>3. CASE ReconcileMissingEmails(w)
    BY <2>3 DEF ReconcileMissingEmails, Unannounced
  <2>4. CASE ProvisionerDies(w)
    BY <2>4, LicensingAssumption DEF ProvisionerDies
  <2> QED
    BY <2>1, <2>2, <2>3, <2>4 DEF WorkerStep
<1>2. /\ UNCHANGED <<entVars, licLock, seats, granted, call>>
      /\ \A e \in Items : license[e] = "ACTIVE" => license'[e] = "ACTIVE"
  <2> USE DEF LicensingInv, LicensingTypeOK
  <2>1. CASE ProvisionInternalLicenses(w)
    BY <2>1 DEF ProvisionInternalLicenses
  <2>2. CASE EnqueueLicenseEmail(w) \/ ReconcileMissingEmails(w) \/ ProvisionerDies(w)
    BY <2>2 DEF EnqueueLicenseEmail, ReconcileMissingEmails, ProvisionerDies
  <2> QED
    BY <2>1, <2>2 DEF WorkerStep
<1>3. LocksAreHeld'
    BY <1>2 DEF LicensingInv, LocksAreHeld, Under, OnLicense, entVars
<1>4. ChecksStillHold'
    BY <1>2, LicenseCalls DEF LicensingInv, ChecksStillHold, entVars
<1>5. FiniteSeats' /\ SeatsHold'
    BY <1>2 DEF LicensingInv, FiniteSeats, SeatsHold, SeatsWithinCapacity, OnlyActiveLicensesHaveSeats
<1> QED
    BY <1>1, <1>3, <1>4, <1>5 DEF LicensingInv

\* A deactivation holds no lock; it only gives a seat back.
LEMMA DeactivateStep ==
    ASSUME LicensingInv, NEW e \in Items, NEW d \in Domains, DeactivateInternalLicense(e, d)
    PROVE  LicensingInv'
<1>1. LicensingTypeOK'
    BY DEF DeactivateInternalLicense, LicensingInv, LicensingTypeOK, EntitlementsTypeOK, entVars
<1>2. \A f \in Items : /\ IsFiniteSet(seats'[f]) /\ seats'[f] \subseteq seats[f]
                       /\ Cardinality(seats'[f]) \in Nat /\ Cardinality(seats[f]) \in Nat
                       /\ Cardinality(seats'[f]) <= Cardinality(seats[f])
  <2> TAKE f \in Items
  <2>1. IsFiniteSet(seats[f]) /\ seats'[f] \in SUBSET seats[f]
    BY DEF DeactivateInternalLicense, LicensingInv, LicensingTypeOK, FiniteSeats
  <2> QED
    BY <2>1, FS_Subset, FS_CardinalityType
<1>3. LocksAreHeld'
    BY DEF DeactivateInternalLicense, LicensingInv, LocksAreHeld, Under, OnLicense, entVars
<1>4. ChecksStillHold'
  <2> SUFFICES ASSUME NEW c \in Calls, call[c].pc = "checked", call[c].op = "activate"
               PROVE  Cardinality(seats'[call[c].e]) < MaxActivations
    BY DEF DeactivateInternalLicense, LicensingInv, ChecksStillHold, entVars
  <2>1. call[c].e \in Items /\ Cardinality(seats[call[c].e]) < MaxActivations
    BY LicenseCalls DEF LicensingInv, ChecksStillHold
  <2> QED
    BY <1>2, <2>1, LicensingAssumption
<1>5. license' = license
    BY DEF DeactivateInternalLicense
<1>6. FiniteSeats' /\ SeatsWithinCapacity'
    BY <1>2, LicensingAssumption DEF LicensingInv, FiniteSeats, SeatsHold, SeatsWithinCapacity
<1>7. OnlyActiveLicensesHaveSeats'
    BY <1>2, <1>5 DEF LicensingInv, SeatsHold, OnlyActiveLicensesHaveSeats
<1> QED
    BY <1>1, <1>3, <1>4, <1>6, <1>7 DEF LicensingInv, SeatsHold

-----------------------------------------------------------------------------
\* Requests.  Each changes its own transaction, and its locks go from nobody to it or from
\* it to nobody.
LEMMA LicenseBegins ==
    ASSUME LicensingInv, NEW c \in Calls, NEW e \in Items, NEW d, NEW op \in {"activate", "update"},
           RequestDownload(c, e) \/ (d \in Domains /\ LockLicense(c, op, e, d))
    PROVE  LicensingInv'
<1> DEFINE down == [pc |-> "license", op |-> "download", e |-> e]
           lic == [pc |-> "license", op |-> op, e |-> e, d |-> d]
<1>1. /\ call[c] = AtRest /\ made' \in 0 .. MaxCalls
      /\ UNCHANGED <<entVars, license, seats, granted, emailed, toEmail, deaths>>
    BY LicensingAssumption DEF LicensingInv, LicensingTypeOK, RequestDownload, LockLicense, BeginCall
<1>2. \/ call' = [call EXCEPT ![c] = down] /\ licLock' = licLock
      \/ call' = [call EXCEPT ![c] = lic] /\ d \in Domains /\ licLock[e] = Nobody /\ licLock' = [licLock EXCEPT ![e] = c]
    BY DEF RequestDownload, LockLicense, BeginCall
<1>3. \A x \in Calls : x # c => call'[x] = call[x]
    BY <1>2 DEF LicensingInv, LicensingTypeOK
<1>4. \/ call'[c] = down /\ licLock' = licLock
      \/ call'[c] = lic /\ licLock[e] = Nobody /\ licLock' = [licLock EXCEPT ![e] = c]
    BY <1>2 DEF LicensingInv, LicensingTypeOK
<1>5. LicensingTypeOK'
  <2>1. licLock' \in [Items -> Calls \cup {Nobody}]
    BY <1>2 DEF LicensingInv, LicensingTypeOK
  <2>2. /\ down \in [pc : {"license", "locked", "checked"}, op : {"download"}, e : Items]
        /\ d \in Domains => lic \in [pc : {"license", "locked", "checked"}, op : {"activate", "update"}, e : Items, d : Domains]
    OBVIOUS
  <2>3. call' \in [Calls -> {AtRest} \cup [pc : {"license", "locked", "checked"}, op : {"download"}, e : Items]
                      \cup [pc : {"license", "locked", "checked"}, op : {"activate", "update"}, e : Items, d : Domains]]
    BY <1>2, <2>2 DEF LicensingInv, LicensingTypeOK
  <2> QED
    BY <1>1, <2>1, <2>3 DEF LicensingInv, LicensingTypeOK, EntitlementsTypeOK, entVars
<1>6. LocksAreHeld'
  <2> SUFFICES ASSUME NEW x \in Calls
               PROVE  /\ Under(x)' => entLock[call'[x].e] = x
                      /\ OnLicense(x)' => licLock'[call'[x].e] = x
    BY <1>1 DEF LocksAreHeld, entVars
  <2>1. CASE x = c
    BY <1>4, <2>1 DEF Under, OnLicense, LicensingInv, LicensingTypeOK
  <2>2. CASE x # c
    <3>1. /\ call'[x] = call[x]
          /\ Under(x) => entLock[call[x].e] = x
          /\ OnLicense(x) => licLock[call[x].e] = x /\ call[x].e \in Items
      BY <1>3, <2>2, LicenseCalls DEF LicensingInv, LocksAreHeld, OnLicense
    <3>2. OnLicense(x) => licLock'[call[x].e] = x
      BY <3>1, <1>4, NobodyIsNoCall DEF LicensingInv, LicensingTypeOK
    <3> QED
      BY <3>1, <3>2 DEF Under, OnLicense
  <2> QED
    BY <2>1, <2>2
<1>7. ChecksStillHold'
    BY <1>1, <1>3, <1>4 DEF LicensingInv, ChecksStillHold, entVars
<1>8. FiniteSeats' /\ SeatsHold'
    BY <1>1 DEF LicensingInv, FiniteSeats, SeatsHold, SeatsWithinCapacity, OnlyActiveLicensesHaveSeats
<1> QED
    BY <1>5, <1>6, <1>7, <1>8 DEF LicensingInv

LEMMA LockEntitlementStep ==
    ASSUME LicensingInv, NEW c \in Calls, LockEntitlement(c)
    PROVE  LicensingInv'
<1> DEFINE e == call[c].e
<1>1. call[c].pc = "license" /\ e \in Items /\ entLock[e] = Nobody
    BY LicenseCalls DEF LicensingInv, LockEntitlement
<1>2. entLock' = [entLock EXCEPT ![e] = c] /\ entLock' \in [Items -> Calls \cup {Nobody}]
    BY <1>1 DEF LockEntitlement, LicensingInv, LicensingTypeOK, EntitlementsTypeOK
<1>3. /\ call' \in [Calls -> {AtRest} \cup [pc : {"license", "locked", "checked"}, op : {"download"}, e : Items]
                      \cup [pc : {"license", "locked", "checked"}, op : {"activate", "update"}, e : Items, d : Domains]]
      /\ call'[c].pc = "locked" /\ call'[c].e = e /\ call'[c].op = call[c].op
      /\ \A x \in Calls : x # c => call'[x] = call[x]
    BY <1>1 DEF LockEntitlement, LicensingInv, LicensingTypeOK, AtRest
<1>4. LicensingTypeOK'
    BY <1>2, <1>3 DEF LockEntitlement, LicensingInv, LicensingTypeOK, EntitlementsTypeOK
<1>5. LocksAreHeld'
  <2> SUFFICES ASSUME NEW x \in Calls
               PROVE  /\ Under(x)' => entLock'[call'[x].e] = x
                      /\ OnLicense(x)' => licLock[call'[x].e] = x
    BY DEF LocksAreHeld, LockEntitlement
  <2>1. CASE x = c
    BY <1>1, <1>2, <1>3, <2>1 DEF Under, OnLicense, LicensingInv, LocksAreHeld, LicensingTypeOK, EntitlementsTypeOK
  <2>2. CASE x # c
    <3>1. /\ call'[x] = call[x]
          /\ Under(x) => entLock[call[x].e] = x /\ call[x].e \in Items
          /\ OnLicense(x) => licLock[call[x].e] = x
      BY <1>3, <2>2, LicenseCalls DEF LicensingInv, LocksAreHeld, Under
    <3>2. Under(x) => entLock'[call[x].e] = x
      BY <3>1, <1>1, <1>2, NobodyIsNoCall DEF LicensingInv, LicensingTypeOK, EntitlementsTypeOK
    <3> QED
      BY <3>1, <3>2 DEF Under, OnLicense
  <2> QED
    BY <2>1, <2>2
<1>6. ChecksStillHold'
    BY <1>3 DEF LicensingInv, ChecksStillHold, LockEntitlement
<1>7. FiniteSeats' /\ SeatsHold'
    BY DEF LicensingInv, FiniteSeats, SeatsHold, SeatsWithinCapacity, OnlyActiveLicensesHaveSeats, LockEntitlement
<1> QED
    BY <1>4, <1>5, <1>6, <1>7 DEF LicensingInv

LEMMA CheckedStep ==
    ASSUME LicensingInv, NEW c \in Calls, Checked(c)
    PROVE  LicensingInv'
<1>1. call[c].pc = "locked" /\ call[c].e \in Items
    BY LicenseCalls DEF LicensingInv, Checked
<1>2. /\ call' \in [Calls -> {AtRest} \cup [pc : {"license", "locked", "checked"}, op : {"download"}, e : Items]
                      \cup [pc : {"license", "locked", "checked"}, op : {"activate", "update"}, e : Items, d : Domains]]
      /\ call'[c].pc = "checked" /\ call'[c].e = call[c].e /\ call'[c].op = call[c].op
      /\ \A x \in Calls : x # c => call'[x] = call[x]
    BY <1>1 DEF Checked, LicensingInv, LicensingTypeOK, AtRest
<1>3. LicensingTypeOK'
    BY <1>2 DEF Checked, LicensingInv, LicensingTypeOK, EntitlementsTypeOK, entVars
<1>4. LocksAreHeld'
    BY <1>1, <1>2 DEF LicensingInv, LocksAreHeld, Under, OnLicense, Checked, entVars
<1>5. ChecksStillHold'
  <2>1. ent[call[c].e] = "ACTIVE"
    BY DEF Checked, MayGoOn, InForce
  <2>2. ASSUME call[c].op = "activate"
        PROVE  license[call[c].e] = "ACTIVE" /\ Cardinality(seats[call[c].e]) < MaxActivations
    BY <2>2 DEF Checked, MayGoOn, SeatFree
  <2> QED
    BY <1>2, <2>1, <2>2 DEF LicensingInv, ChecksStillHold, Checked, entVars
<1>6. FiniteSeats' /\ SeatsHold'
    BY DEF LicensingInv, FiniteSeats, SeatsHold, SeatsWithinCapacity, OnlyActiveLicensesHaveSeats, Checked
<1> QED
    BY <1>3, <1>4, <1>5, <1>6 DEF LicensingInv

\* A transaction that ends frees its own locks and no other's; what it wrote leaves the
\* seats of the licenses others hold alone.
LEMMA LicenseCallEnds ==
    ASSUME LicensingInv, NEW c \in Calls, EndTransaction(c),
           seats' \in [Items -> SUBSET Domains], granted' \in [Items -> SUBSET {"update", "download"}],
           \A e \in Items : seats'[e] # seats[e] => licLock[e] = c,
           FiniteSeats', SeatsHold'
    PROVE  LicensingInv'
<1>1. /\ call' = [call EXCEPT ![c] = AtRest]
      /\ call'[c] = AtRest /\ \A x \in Calls : x # c => call'[x] = call[x]
      /\ \A e \in Items : licLock[e] # c => licLock'[e] = licLock[e]
      /\ \A e \in Items : entLock[e] # c => entLock'[e] = entLock[e]
    BY DEF EndTransaction, LicensingInv, LicensingTypeOK
<1>2. LicensingTypeOK'
  <2>1. call' \in [Calls -> {AtRest} \cup [pc : {"license", "locked", "checked"}, op : {"download"}, e : Items]
                      \cup [pc : {"license", "locked", "checked"}, op : {"activate", "update"}, e : Items, d : Domains]]
    BY <1>1 DEF LicensingInv, LicensingTypeOK
  <2>2. licLock' \in [Items -> Calls \cup {Nobody}] /\ entLock' \in [Items -> Calls \cup {Nobody}]
    BY DEF EndTransaction, LicensingInv, LicensingTypeOK, EntitlementsTypeOK
  <2> QED
    BY <2>1, <2>2 DEF EndTransaction, LicensingInv, LicensingTypeOK, EntitlementsTypeOK
<1>3. ASSUME NEW x \in Calls, call'[x].pc # "idle"
      PROVE  x # c /\ call'[x] = call[x] /\ call[x].e \in Items
    BY <1>1, <1>3, LicenseCalls DEF AtRest, LicensingInv
<1>4. LocksAreHeld'
    BY <1>1, <1>3 DEF LicensingInv, LocksAreHeld, Under, OnLicense
<1>5. ChecksStillHold'
  <2> SUFFICES ASSUME NEW x \in Calls, call'[x].pc = "checked"
               PROVE  /\ ent'[call'[x].e] = "ACTIVE"
                      /\ call'[x].op = "activate" =>
                           license'[call'[x].e] = "ACTIVE" /\ Cardinality(seats'[call'[x].e]) < MaxActivations
    BY DEF ChecksStillHold
  <2>1. x # c /\ call'[x] = call[x] /\ call[x].e \in Items
    BY <1>3
  <2>2. /\ ent[call[x].e] = "ACTIVE"
        /\ call[x].op = "activate" =>
             license[call[x].e] = "ACTIVE" /\ Cardinality(seats[call[x].e]) < MaxActivations
    BY <2>1 DEF LicensingInv, ChecksStillHold
  <2>3. call[x].op = "activate" => seats'[call[x].e] = seats[call[x].e]
    BY <2>1 DEF LicensingInv, LocksAreHeld, OnLicense
  <2> QED
    BY <2>1, <2>2, <2>3 DEF EndTransaction
<1> QED
    BY <1>2, <1>4, <1>5 DEF LicensingInv

LEMMA LicenseRequests ==
    ASSUME LicensingInv, NEW c \in Calls, CallStep(c) \/ CallDies(c)
    PROVE  LicensingInv'
<1>1. CASE LockEntitlement(c)
    BY <1>1, LockEntitlementStep
<1>2. CASE Checked(c)
    BY <1>2, CheckedStep
<1>3. CASE AnswerWithoutWriting(c) \/ CallDies(c)
  <2>1. EndTransaction(c) /\ UNCHANGED <<seats, granted, license>>
    BY <1>3 DEF AnswerWithoutWriting, CallDies, EndTransaction
  <2>2. FiniteSeats' /\ SeatsHold'
    BY <2>1 DEF LicensingInv, FiniteSeats, SeatsHold, SeatsWithinCapacity, OnlyActiveLicensesHaveSeats
  <2>3. seats' \in [Items -> SUBSET Domains] /\ granted' \in [Items -> SUBSET {"update", "download"}]
    BY <2>1 DEF LicensingInv, LicensingTypeOK
  <2> QED
    BY <2>1, <2>2, <2>3, LicenseCallEnds
<1>4. CASE TakeSeat(c)
  <2> DEFINE e == call[c].e
             d == call[c].d
  <2>1. /\ e \in Items /\ d \in Domains /\ licLock[e] = c
        /\ license[e] = "ACTIVE" /\ Cardinality(seats[e]) < MaxActivations
    BY <1>4, LicenseCalls DEF TakeSeat, LicensingInv, LocksAreHeld, ChecksStillHold, OnLicense
  <2>2. /\ seats' = [seats EXCEPT ![e] = seats[e] \cup {d}]
        /\ license' = license /\ EndTransaction(c) /\ granted' = granted
    BY <1>4 DEF TakeSeat, EndTransaction
  <2>3. seats' \in [Items -> SUBSET Domains] /\ granted' \in [Items -> SUBSET {"update", "download"}]
    BY <2>1, <2>2 DEF LicensingInv, LicensingTypeOK
  <2>4. seats'[e] = seats[e] \cup {d} /\ \A f \in Items : f # e => seats'[f] = seats[f]
    BY <2>1, <2>2 DEF LicensingInv, LicensingTypeOK
  <2>5. IsFiniteSet(seats'[e]) /\ Cardinality(seats'[e]) <= MaxActivations
    <3>1. IsFiniteSet(seats[e])
      BY <2>1 DEF LicensingInv, FiniteSeats
    <3>2. Cardinality(seats[e]) \in Nat
      BY <3>1, FS_CardinalityType
    <3>3. /\ IsFiniteSet(seats[e] \cup {d})
          /\ Cardinality(seats[e] \cup {d}) = IF d \in seats[e] THEN Cardinality(seats[e]) ELSE Cardinality(seats[e]) + 1
      BY <3>1, FS_AddElement
    <3> QED
      BY <3>2, <3>3, <2>1, <2>4, LicensingAssumption
  <2>6. FiniteSeats' /\ SeatsHold'
    BY <2>1, <2>2, <2>4, <2>5
       DEF LicensingInv, FiniteSeats, SeatsHold, SeatsWithinCapacity, OnlyActiveLicensesHaveSeats
  <2>7. \A f \in Items : seats'[f] # seats[f] => licLock[f] = c
    BY <2>1, <2>4
  <2> QED
    BY <2>2, <2>3, <2>6, <2>7, LicenseCallEnds
<1>5. CASE CreateGrant(c)
  <2>1. EndTransaction(c) /\ UNCHANGED <<seats, license>>
    BY <1>5 DEF CreateGrant, EndTransaction
  <2>2. call[c].op \in {"update", "download"}
    BY <1>5, LicenseCalls DEF CreateGrant, LicensingInv
  <2>3. seats' \in [Items -> SUBSET Domains] /\ granted' \in [Items -> SUBSET {"update", "download"}]
    BY <1>5, <2>1, <2>2 DEF CreateGrant, LicensingInv, LicensingTypeOK
  <2>4. FiniteSeats' /\ SeatsHold'
    BY <2>1 DEF LicensingInv, FiniteSeats, SeatsHold, SeatsWithinCapacity, OnlyActiveLicensesHaveSeats
  <2> QED
    BY <2>1, <2>3, <2>4, LicenseCallEnds
<1> QED
    BY <1>1, <1>2, <1>3, <1>4, <1>5 DEF CallStep

LEMMA LicensingSteps == LicensingInv /\ [LicensingNext]_licensingVars => LicensingInv'
<1> SUFFICES ASSUME LicensingInv, [LicensingNext]_licensingVars PROVE LicensingInv'
    OBVIOUS
<1>1. CASE UNCHANGED licensingVars
    BY <1>1 DEF LicensingInv, LicensingTypeOK, EntitlementsTypeOK, LocksAreHeld, ChecksStillHold, FiniteSeats, SeatsHold,
                SeatsWithinCapacity, OnlyActiveLicensesHaveSeats, Under, OnLicense, licensingVars, entVars, licVars
<1>2. CASE EntitlementsNext /\ UNCHANGED licVars
    BY <1>2, EntitlementsLeaveLicenses
<1>3. CASE ReconcileInternalLicenses
    BY <1>3, RevokeStep DEF ReconcileInternalLicenses, Orphaned
<1>4. ASSUME NEW w \in Workers, WorkerStep(w) \/ ProvisionerDies(w) PROVE LicensingInv'
    BY <1>4, WorkerLeavesRequests
<1>5. ASSUME NEW e \in Items, AdminRevokeLicense(e) PROVE LicensingInv'
  <2>1. {e} \in SUBSET Items /\ \A f \in {e} : licLock[f] = Nobody
    BY <1>5 DEF AdminRevokeLicense
  <2> QED
    BY <1>5, <2>1, RevokeStep DEF AdminRevokeLicense
<1>6. ASSUME NEW e \in Items, NEW d \in Domains, DeactivateInternalLicense(e, d) \/ CustomerDeactivateDomain(e, d)
      PROVE  LicensingInv'
    BY <1>6, DeactivateStep DEF CustomerDeactivateDomain
<1>7. ASSUME NEW c \in Calls, CallStep(c) \/ CallDies(c) PROVE LicensingInv'
    BY <1>7, LicenseRequests
<1>8. ASSUME NEW c \in Calls, NEW e \in Items, RequestDownload(c, e) PROVE LicensingInv'
    BY <1>8, LicenseBegins
<1>9. ASSUME NEW c \in Calls, NEW e \in Items, NEW d \in Domains, NEW op \in {"activate", "update"},
             LockLicense(c, op, e, d)
      PROVE  LicensingInv'
    BY <1>9, LicenseBegins
<1> QED
    BY <1>1, <1>2, <1>3, <1>4, <1>5, <1>6, <1>7, <1>8, <1>9 DEF LicensingNext

\* Activations that compete for the last seat never take more seats than the plan has, and
\* a revoked license keeps none.
THEOREM SeatsAlwaysHold == LicensingSpec => []SeatsHold
<1>1. LicensingInv => SeatsHold
    BY DEF LicensingInv
<1> QED
    BY <1>1, LicensingInitially, LicensingSteps, PTL DEF LicensingSpec

-----------------------------------------------------------------------------
\* What is written is written for an entitlement that has not ended.
LEMMA WritesAreInTime ==
    ASSUME LicensingInv, [LicensingNext]_licensingVars, NEW e \in Items, Ended(e)
    PROVE  seats'[e] \subseteq seats[e] /\ granted'[e] = granted[e]
<1>1. ASSUME NEW c \in Calls, TakeSeat(c) \/ CreateGrant(c)
      PROVE  seats'[e] = seats[e] /\ granted'[e] = granted[e]
  <2>1. ent[call[c].e] = "ACTIVE"
    BY <1>1 DEF TakeSeat, CreateGrant, LicensingInv, ChecksStillHold
  <2>2. call[c].e # e
    BY <2>1 DEF Ended
  <2> QED
    BY <1>1, <2>2 DEF TakeSeat, CreateGrant, LicensingInv, LicensingTypeOK
<1>2. ASSUME NEW dead \in SUBSET Items, Revoke(dead)
      PROVE  seats'[e] \subseteq seats[e] /\ granted'[e] = granted[e]
    BY <1>2 DEF Revoke, LicensingInv, LicensingTypeOK
<1>3. ASSUME NEW f \in Items, NEW d \in Domains, DeactivateInternalLicense(f, d)
      PROVE  seats'[e] \subseteq seats[e] /\ granted'[e] = granted[e]
    BY <1>3 DEF DeactivateInternalLicense, LicensingInv, LicensingTypeOK
<1>4. ASSUME UNCHANGED <<seats, granted>>
      PROVE  seats'[e] \subseteq seats[e] /\ granted'[e] = granted[e]
    BY <1>4
<1>5. CASE UNCHANGED licensingVars \/ (EntitlementsNext /\ UNCHANGED licVars)
    BY <1>4, <1>5 DEF licensingVars, licVars
<1>6. CASE ReconcileInternalLicenses \/ \E f \in Items : AdminRevokeLicense(f)
    BY <1>2, <1>6 DEF ReconcileInternalLicenses, Orphaned, AdminRevokeLicense
<1>7. CASE \E w \in Workers : WorkerStep(w) \/ ProvisionerDies(w)
    BY <1>4, <1>7 DEF WorkerStep, ProvisionInternalLicenses, EnqueueLicenseEmail, ReconcileMissingEmails, ProvisionerDies
<1>8. CASE \E f \in Items, d \in Domains : DeactivateInternalLicense(f, d) \/ CustomerDeactivateDomain(f, d)
    BY <1>3, <1>8 DEF CustomerDeactivateDomain
<1>9. CASE \E c \in Calls : CallStep(c) \/ CallDies(c)
    BY <1>1, <1>4, <1>9 DEF CallStep, LockEntitlement, Checked, AnswerWithoutWriting, CallDies
<1>10. CASE \/ \E c \in Calls, f \in Items : RequestDownload(c, f)
            \/ \E c \in Calls, f \in Items, d \in Domains, op \in {"activate", "update"} : LockLicense(c, op, f, d)
    BY <1>4, <1>10 DEF RequestDownload, LockLicense, BeginCall
<1> QED
    BY <1>5, <1>6, <1>7, <1>8, <1>9, <1>10 DEF LicensingNext

\* No seat and no download is given for an entitlement that has ended by then.
THEOREM NothingAfterTheEnd == LicensingSpec => NothingIsGivenAfterTheEnd
<1> DEFINE A == \A e \in Items : Ended(e) => seats'[e] \subseteq seats[e] /\ granted'[e] = granted[e]
<1>1. LicensingInv /\ [LicensingNext]_licensingVars => [A]_licensingVars
    BY WritesAreInTime
<1>2. LicensingSpec => []LicensingInv
    BY LicensingInitially, LicensingSteps, PTL DEF LicensingSpec
<1> HIDE DEF A
<1>3. LicensingSpec => [][A]_licensingVars
    BY <1>1, <1>2, PTL DEF LicensingSpec
<1> QED
    BY <1>3 DEF NothingIsGivenAfterTheEnd, A

-----------------------------------------------------------------------------
(***************************************************************************)
(* External license allocations                                            *)
(***************************************************************************)

AllocRow == [st : {"PENDING", "ACTIVE", "DEACTIVATION_PENDING", "DEACTIVATED", "REJECTED"},
             e : Items, domain : Sites, account : Accounts \cup {"none"}]
Account == [status : {"ACTIVE", "EXHAUSTED", "SUSPENDED"}, total : Totals]
Booking == [pc : {"activate", "confirm", "parent", "account", "counted", "release"}, r : Rows, p : Accounts]

TakesCapacity(r) == alloc[r].st \in {"ACTIVE", "DEACTIVATION_PENDING"}
IsOpen(r) == alloc[r].st \in {"PENDING", "ACTIVE", "DEACTIVATION_PENDING"}

Used == {r \in Rows : alloc[r] # NoRow}
Taken(p) == {r \in Rowed({"ACTIVE", "DEACTIVATION_PENDING"}) : alloc[r].account = p}
OpenOf(e) == {r \in Open : alloc[r].e = e}

\* However many rows there may be, finitely many are in use.
RowsAreUsed ==
    /\ IsFiniteSet(Used)
    /\ \A r \in Rows : TakesCapacity(r) => alloc[r].account \in Accounts

\* A transaction that has locked a row or an account holds it until it ends, and what it
\* has seen of them is still so when it writes.
BookingHolds(c) ==
    LET b == booking[c]
    IN  /\ rowLock[b.r] = c
        /\ b.pc \in {"activate", "parent", "account", "counted"} => alloc[b.r].st = "PENDING"
        /\ b.pc \in {"confirm", "release"} => alloc[b.r].st = "DEACTIVATION_PENDING" /\ alloc[b.r].account = b.p
        /\ b.pc \in {"account", "counted", "release"} => acctLock[b.p] = c
        /\ b.pc = "counted" => account[b.p].status = "ACTIVE" /\ Consumed(b.p) < account[b.p].total

BookingsHold == \A c \in Calls : booking[c].pc # "idle" => BookingHolds(c)

AllocationInv == AllocationTypeOK /\ RowsAreUsed /\ BookingsHold /\ RoomHolds

LEMMA AllocationParts ==
    ASSUME AllocationTypeOK
    PROVE  /\ alloc \in [Rows -> {NoRow} \cup AllocRow] /\ account \in [Accounts -> {NoAccount} \cup Account]
           /\ booking \in [Calls -> {NoBooking} \cup Booking]
           /\ rowLock \in [Rows -> Calls \cup {Nobody}] /\ acctLock \in [Accounts -> Calls \cup {Nobody}]
           /\ \A c \in Calls : booking[c].pc # "idle" =>
                booking[c] \in Booking /\ booking[c].r \in Rows /\ booking[c].p \in Accounts
           /\ \A r \in Rows : alloc[r].st # "none" => alloc[r] \in AllocRow /\ alloc[r] # NoRow
<1>1. /\ alloc \in [Rows -> {NoRow} \cup AllocRow] /\ account \in [Accounts -> {NoAccount} \cup Account]
      /\ booking \in [Calls -> {NoBooking} \cup Booking]
      /\ rowLock \in [Rows -> Calls \cup {Nobody}] /\ acctLock \in [Accounts -> Calls \cup {Nobody}]
    BY DEF AllocationTypeOK, AllocRow, Account, Booking
<1>2. ASSUME NEW c \in Calls, booking[c].pc # "idle"
      PROVE  booking[c] \in Booking /\ booking[c].r \in Rows /\ booking[c].p \in Accounts
  <2>1. booking[c] \in Booking
    BY <1>1, <1>2 DEF NoBooking
  <2> QED
    BY <2>1 DEF Booking
<1>3. \A r \in Rows : alloc[r].st # "none" => alloc[r] \in AllocRow /\ alloc[r] # NoRow
    BY <1>1 DEF NoRow
<1> QED
    BY <1>1, <1>2, <1>3

\* What an account has taken and what an entitlement has open can be counted.
LEMMA Countable ==
    ASSUME AllocationTypeOK, RowsAreUsed
    PROVE  /\ \A p \in Accounts : IsFiniteSet(Taken(p)) /\ Cardinality(Taken(p)) \in Nat /\ Consumed(p) = Cardinality(Taken(p))
           /\ \A e \in Items : IsFiniteSet(OpenOf(e)) /\ Cardinality(OpenOf(e)) \in Nat
<1>1. \A p \in Accounts : Taken(p) \in SUBSET Used
    BY AllocationParts DEF Taken, Rowed, Used
<1>2. \A e \in Items : OpenOf(e) \in SUBSET Used
    BY AllocationParts DEF OpenOf, Open, Rowed, Used
<1>3. \A p \in Accounts : IsFiniteSet(Taken(p)) /\ Cardinality(Taken(p)) \in Nat
    BY <1>1, FS_Subset, FS_CardinalityType DEF RowsAreUsed
<1>4. \A e \in Items : IsFiniteSet(OpenOf(e)) /\ Cardinality(OpenOf(e)) \in Nat
    BY <1>2, FS_Subset, FS_CardinalityType DEF RowsAreUsed
<1>5. \A p \in Accounts : Consumed(p) = Cardinality(Taken(p))
    BY DEF Consumed, Taken
<1> QED
    BY <1>3, <1>4, <1>5

\* When one row changes, the counts of the accounts and entitlements change by that row.
LEMMA OneRow ==
    ASSUME AllocationTypeOK, RowsAreUsed, NEW r \in Rows,
           alloc' \in [Rows -> {NoRow} \cup AllocRow], \A o \in Rows : o # r => alloc'[o] = alloc[o]
    PROVE  /\ IsFiniteSet(Used)'
           /\ \A p \in Accounts :
                Taken(p)' = IF TakesCapacity(r)' /\ alloc'[r].account = p THEN Taken(p) \cup {r} ELSE Taken(p) \ {r}
           /\ \A e \in Items :
                OpenOf(e)' = IF IsOpen(r)' /\ alloc'[r].e = e THEN OpenOf(e) \cup {r} ELSE OpenOf(e) \ {r}
<1>1. IsFiniteSet(Used)'
  <2>1. IsFiniteSet(Used \cup {r})
    BY FS_AddElement DEF RowsAreUsed
  <2>2. Used' \in SUBSET (Used \cup {r})
    BY DEF Used
  <2> QED
    BY <2>1, <2>2, FS_Subset
<1>2. ASSUME NEW p \in Accounts
      PROVE  Taken(p)' = IF TakesCapacity(r)' /\ alloc'[r].account = p THEN Taken(p) \cup {r} ELSE Taken(p) \ {r}
    BY DEF Taken, Rowed, TakesCapacity
<1>3. ASSUME NEW e \in Items
      PROVE  OpenOf(e)' = IF IsOpen(r)' /\ alloc'[r].e = e THEN OpenOf(e) \cup {r} ELSE OpenOf(e) \ {r}
    BY DEF OpenOf, Open, Rowed, IsOpen
<1> QED
    BY <1>1, <1>2, <1>3

LEMMA AllocationInitially == AllocationInit => AllocationInv
<1> SUFFICES ASSUME AllocationInit PROVE AllocationInv
    OBVIOUS
<1>1. AllocationTypeOK
    BY AllocationAssumption DEF AllocationInit, EntitlementsInit, AllocationTypeOK, EntitlementsTypeOK
<1>2. \A r \in Rows : alloc[r] = NoRow /\ alloc[r].st = "none"
    BY DEF AllocationInit, NoRow
<1>3. Used = {} /\ (\A p \in Accounts : Taken(p) = {}) /\ (\A e \in Items : OpenOf(e) = {}) /\ Rowed({"ACTIVE"}) = {}
    BY <1>2 DEF Used, Taken, OpenOf, Open, Rowed
<1>4. RowsAreUsed
    BY <1>2, <1>3, FS_EmptySet DEF RowsAreUsed, TakesCapacity
<1>5. BookingsHold
    BY DEF BookingsHold, AllocationInit, NoBooking
<1>6. \A p \in Accounts : account[p].status = "none" /\ account[p].total = 0 /\ Consumed(p) = 0
    BY <1>3, FS_EmptySet DEF AllocationInit, NoAccount, Consumed, Taken
<1>7. AccountsTellTheirRoom
    BY <1>6 DEF AccountsTellTheirRoom
<1>8. OneActiveAllocationPerDomain
  <2>1. \A e \in Items : Cardinality({r \in Open : alloc[r].e = e}) = 0
    BY <1>3, FS_EmptySet DEF OpenOf
  <2> QED
    BY <1>3, <2>1, AllocationAssumption DEF OneActiveAllocationPerDomain
<1> QED
    BY <1>1, <1>4, <1>5, <1>7, <1>8 DEF AllocationInv, RoomHolds

-----------------------------------------------------------------------------
\* Steps that write neither a row nor an account leave the books as they are.
LEMMA SameBooks ==
    ASSUME AllocationInv, UNCHANGED <<alloc, account>>
    PROVE  RowsAreUsed' /\ RoomHolds' /\ \A p \in Accounts : Consumed(p)' = Consumed(p)
<1>1. Rowed({"ACTIVE"})' = Rowed({"ACTIVE"}) /\ Open' = Open /\ Used' = Used
    BY DEF Rowed, Open, Used
<1>2. \A p \in Accounts : Taken(p)' = Taken(p)
    BY DEF Taken, Rowed
<1>3. \A e \in Items : OpenOf(e)' = OpenOf(e)
    BY DEF OpenOf, Open, Rowed
<1>4. \A p \in Accounts : Consumed(p)' = Consumed(p)
    BY <1>2 DEF Consumed, Taken
<1>5. RowsAreUsed'
    BY <1>1 DEF AllocationInv, RowsAreUsed, TakesCapacity
<1>6. AccountsTellTheirRoom'
    BY <1>4 DEF AllocationInv, RoomHolds, AccountsTellTheirRoom
<1>7. OneActiveAllocationPerDomain'
    BY <1>1, <1>3 DEF AllocationInv, RoomHolds, OneActiveAllocationPerDomain, OpenOf
<1> QED
    BY <1>4, <1>5, <1>6, <1>7 DEF RoomHolds

LEMMA EntitlementsLeaveRooms ==
    ASSUME AllocationInv, EntitlementsNext, UNCHANGED allocVars
    PROVE  AllocationInv'
<1>1. EntitlementsTypeOK'
  <2> USE DEF AllocationInv, AllocationTypeOK, EntitlementsTypeOK
  <2>1. CASE IssueEntitlementsForOrder
    BY <2>1 DEF IssueEntitlementsForOrder
  <2>2. CASE ExpireDueEntitlements
    BY <2>2 DEF ExpireDueEntitlements
  <2>3. ASSUME NEW e \in Items, TermRunsOut(e) PROVE EntitlementsTypeOK'
    BY <2>3 DEF TermRunsOut
  <2>4. ASSUME NEW e \in Items, RevokeEntitlement(e) PROVE EntitlementsTypeOK'
    BY <2>4 DEF RevokeEntitlement
  <2> QED
    BY <2>1, <2>2, <2>3, <2>4 DEF EntitlementsNext
<1>2. UNCHANGED <<alloc, rowLock, account, acctLock, booking, bookings, edits>>
    BY DEF allocVars
<1>3. AllocationTypeOK'
    BY <1>1, <1>2 DEF AllocationInv, AllocationTypeOK
<1>4. BookingsHold'
    BY <1>2, SameBooks, AllocationParts DEF AllocationInv, BookingsHold, BookingHolds
<1> QED
    BY <1>2, <1>3, <1>4, SameBooks DEF AllocationInv

\* A transaction begins with the lock of a row that nobody held.
LEMMA BookingBegins ==
    ASSUME AllocationInv, NEW c \in Calls, NEW r \in Rows, NEW p \in Accounts, NEW pc \in {"activate", "confirm"},
           BeginBooking(c, r, p, pc),
           pc = "activate" => alloc[r].st = "PENDING",
           pc = "confirm" => alloc[r].st = "DEACTIVATION_PENDING" /\ alloc[r].account = p
    PROVE  AllocationInv'
<1> DEFINE b == [pc |-> pc, r |-> r, p |-> p]
<1>1. /\ booking' = [booking EXCEPT ![c] = b] /\ b \in Booking
      /\ rowLock' = [rowLock EXCEPT ![r] = c] /\ rowLock[r] = Nobody /\ booking[c] = NoBooking
      /\ UNCHANGED <<alloc, account, acctLock, edits, entVars>> /\ bookings' \in 0 .. MaxBookings
    BY AllocationAssumption DEF BeginBooking, Booking, AllocationInv, AllocationTypeOK
<1>2. /\ booking' \in [Calls -> {NoBooking} \cup Booking] /\ rowLock' \in [Rows -> Calls \cup {Nobody}]
      /\ booking'[c] = b /\ rowLock'[r] = c
      /\ \A x \in Calls : x # c => booking'[x] = booking[x]
      /\ \A o \in Rows : o # r => rowLock'[o] = rowLock[o]
    BY <1>1, AllocationParts DEF AllocationInv
<1>3. AllocationTypeOK'
    BY <1>1, <1>2 DEF AllocationInv, AllocationTypeOK, Booking, EntitlementsTypeOK, entVars
<1>4. BookingsHold'
  <2> SUFFICES ASSUME NEW x \in Calls, booking'[x].pc # "idle" PROVE BookingHolds(x)'
    BY DEF BookingsHold
  <2>1. CASE x = c
    <3>1. booking'[x].r = r /\ booking'[x].p = p /\ booking'[x].pc = pc
      BY <1>2, <2>1
    <3> QED
      BY <1>1, <1>2, <2>1, <3>1 DEF BookingHolds
  <2>2. CASE x # c
    <3>1. booking'[x] = booking[x] /\ booking[x].r \in Rows /\ booking[x].p \in Accounts /\ rowLock[booking[x].r] = x
      BY <1>2, <2>2, AllocationParts DEF AllocationInv, BookingsHold, BookingHolds
    <3>2. rowLock'[booking[x].r] = x
      BY <1>1, <1>2, <3>1, NobodyIsNoCall
    <3>3. Consumed(booking[x].p)' = Consumed(booking[x].p)
      BY <1>1, <3>1, SameBooks
    <3> QED
      BY <1>1, <3>1, <3>2, <3>3 DEF AllocationInv, BookingsHold, BookingHolds
  <2> QED
    BY <2>1, <2>2
<1> QED
    BY <1>1, <1>3, <1>4, SameBooks DEF AllocationInv

\* A step of a booking that only takes up a lock or looks: no row and no account changes.
LEMMA LookStep ==
    ASSUME AllocationInv, NEW c \in Calls, LockParent(c) \/ LockAccount(c) \/ CountConsumed(c)
    PROVE  AllocationInv'
<1> DEFINE b == booking[c]
<1>1. b.pc \in {"activate", "parent", "confirm", "account"} /\ b \in Booking /\ b.r \in Rows /\ b.p \in Accounts
  <2>1. b.pc \in {"activate", "parent", "confirm", "account"}
    BY DEF LockParent, LockAccount, CountConsumed
  <2> QED
    BY <2>1, AllocationParts DEF AllocationInv
<1>0. PICK p \in Accounts : p = b.p
    BY <1>1
<1>2. PICK pc \in {"parent", "account", "counted", "release"} :
        /\ booking' = [booking EXCEPT ![c].pc = pc]
        /\ \/ LockParent(c) /\ b.pc = "activate" /\ pc = "parent"
           \/ LockAccount(c) /\ b.pc = "parent" /\ pc = "account"
           \/ LockAccount(c) /\ b.pc = "confirm" /\ pc = "release"
           \/ CountConsumed(c) /\ b.pc = "account" /\ pc = "counted"
  <2>1. CASE LockParent(c)
    BY <2>1 DEF LockParent
  <2>2. CASE LockAccount(c)
    <3>1. booking' = [booking EXCEPT ![c].pc = IF b.pc = "parent" THEN "account" ELSE "release"]
      BY <2>2, AllocationParts DEF LockAccount, AllocationInv
    <3> QED
      BY <2>2, <3>1 DEF LockAccount
  <2>3. CASE CountConsumed(c)
    BY <2>3 DEF CountConsumed
  <2> QED
    BY <2>1, <2>2, <2>3
<1>3. /\ booking' \in [Calls -> {NoBooking} \cup Booking]
      /\ booking'[c].pc = pc /\ booking'[c].r = b.r /\ booking'[c].p = p
      /\ \A x \in Calls : x # c => booking'[x] = booking[x]
  <2>1. [b EXCEPT !.pc = pc] \in Booking
    BY <1>1, <1>2 DEF Booking
  <2> QED
    BY <1>0, <1>1, <1>2, <2>1, AllocationParts DEF AllocationInv, Booking
<1>4. /\ UNCHANGED <<alloc, account, rowLock, bookings, edits, orderStatus, item, ent, over>>
      /\ entLock' \in [Items -> Calls \cup {Nobody}]
      /\ acctLock' \in [Accounts -> Calls \cup {Nobody}]
      /\ \A q \in Accounts : acctLock[q] # Nobody => acctLock'[q] = acctLock[q]
      /\ pc \in {"account", "release"} => acctLock'[p] = c
      /\ pc = "counted" => UNCHANGED acctLock /\ account[p].status = "ACTIVE" /\ Consumed(p) < account[p].total
  <2> USE <1>0, <1>1, AllocationParts DEF AllocationInv, AllocationTypeOK, EntitlementsTypeOK, entVars
  <2>1. CASE LockParent(c) /\ pc = "parent"
    BY <2>1 DEF LockParent
  <2>2. CASE LockAccount(c) /\ pc \in {"account", "release"}
    BY <2>2 DEF LockAccount
  <2>3. CASE CountConsumed(c) /\ pc = "counted"
    BY <2>3 DEF CountConsumed
  <2> QED
    BY <1>2, <2>1, <2>2, <2>3
<1>5. AllocationTypeOK'
    BY <1>3, <1>4 DEF AllocationInv, AllocationTypeOK, EntitlementsTypeOK, Booking
<1>6. BookingsHold'
  <2> SUFFICES ASSUME NEW x \in Calls, booking'[x].pc # "idle" PROVE BookingHolds(x)'
    BY DEF BookingsHold
  <2>1. CASE x = c
    <3>1. BookingHolds(c)
      BY <1>1 DEF AllocationInv, BookingsHold
    <3>2. Consumed(p)' = Consumed(p)
      BY <1>4, SameBooks
    <3>3. acctLock[p] = c => acctLock'[p] = c
      BY <1>4, NobodyIsNoCall
    <3> QED
      BY <1>0, <1>2, <1>3, <1>4, <2>1, <3>1, <3>2, <3>3 DEF BookingHolds
  <2>2. CASE x # c
    <3>1. booking'[x] = booking[x] /\ booking[x].r \in Rows /\ booking[x].p \in Accounts /\ BookingHolds(x)
      BY <1>3, <2>2, AllocationParts DEF AllocationInv, BookingsHold
    <3>2. acctLock[booking[x].p] = x => acctLock'[booking[x].p] = x
      BY <1>4, <3>1, NobodyIsNoCall
    <3>3. Consumed(booking[x].p)' = Consumed(booking[x].p)
      BY <1>4, <3>1, SameBooks
    <3> QED
      BY <1>4, <3>1, <3>2, <3>3 DEF BookingHolds
  <2> QED
    BY <2>1, <2>2
<1> QED
    BY <1>4, <1>5, <1>6, SameBooks DEF AllocationInv

-----------------------------------------------------------------------------
\* A row that is closed leaves an entitlement with no more open rows than before.
LEMMA FewerOpen ==
    ASSUME AllocationInv, NEW e \in Items, NEW r
    PROVE  Cardinality(OpenOf(e) \ {r}) <= MaxSites
<1>1. IsFiniteSet(OpenOf(e)) /\ Cardinality(OpenOf(e)) \in Nat
    BY Countable DEF AllocationInv
<1>2. Cardinality(OpenOf(e) \ {r}) = IF r \in OpenOf(e) THEN Cardinality(OpenOf(e)) - 1 ELSE Cardinality(OpenOf(e))
    BY <1>1, FS_RemoveElement
<1>3. Cardinality(OpenOf(e)) <= MaxSites
    BY DEF AllocationInv, RoomHolds, OneActiveAllocationPerDomain, OpenOf
<1> QED
    BY <1>1, <1>2, <1>3, AllocationAssumption

\* A booking that ends frees its own locks and no other's.  The rows others have locked and
\* the accounts others have locked are as they were.
LEMMA BookingEnds ==
    ASSUME AllocationInv, NEW c \in Calls, EndBooking(c),
           alloc' \in [Rows -> {NoRow} \cup AllocRow], account' \in [Accounts -> {NoAccount} \cup Account],
           \A r \in Rows : rowLock[r] # c => alloc'[r] = alloc[r],
           \A p \in Accounts : acctLock[p] # c => account'[p] = account[p] /\ Consumed(p)' = Consumed(p),
           RowsAreUsed', RoomHolds'
    PROVE  AllocationInv'
<1>1. /\ booking' \in [Calls -> {NoBooking} \cup Booking] /\ rowLock' \in [Rows -> Calls \cup {Nobody}]
      /\ acctLock' \in [Accounts -> Calls \cup {Nobody}] /\ entLock' \in [Items -> Calls \cup {Nobody}]
      /\ booking'[c] = NoBooking /\ \A x \in Calls : x # c => booking'[x] = booking[x]
      /\ \A r \in Rows : rowLock[r] # c => rowLock'[r] = rowLock[r]
      /\ \A p \in Accounts : acctLock[p] # c => acctLock'[p] = acctLock[p]
    BY AllocationParts DEF EndBooking, AllocationInv, AllocationTypeOK, EntitlementsTypeOK
<1>2. AllocationTypeOK'
    BY <1>1 DEF EndBooking, AllocationInv, AllocationTypeOK, EntitlementsTypeOK, AllocRow, Account, Booking
<1>3. BookingsHold'
  <2> SUFFICES ASSUME NEW x \in Calls, booking'[x].pc # "idle" PROVE BookingHolds(x)'
    BY DEF BookingsHold
  <2>1. x # c /\ booking'[x] = booking[x]
    BY <1>1 DEF NoBooking
  <2>2. booking[x].r \in Rows /\ booking[x].p \in Accounts /\ BookingHolds(x)
    BY <2>1, AllocationParts DEF AllocationInv, BookingsHold
  <2>3. rowLock'[booking[x].r] = x /\ alloc'[booking[x].r] = alloc[booking[x].r]
    BY <1>1, <2>1, <2>2 DEF BookingHolds
  <2>4. acctLock[booking[x].p] = x =>
          /\ acctLock'[booking[x].p] = x /\ account'[booking[x].p] = account[booking[x].p]
          /\ Consumed(booking[x].p)' = Consumed(booking[x].p)
    BY <1>1, <2>1, <2>2
  <2> QED
    BY <2>1, <2>2, <2>3, <2>4 DEF BookingHolds
<1> QED
    BY <1>2, <1>3 DEF AllocationInv

LEMMA RollBackStep ==
    ASSUME AllocationInv, NEW c \in Calls, RollBack(c)
    PROVE  AllocationInv'
<1>1. EndBooking(c) /\ UNCHANGED <<alloc, account>>
    BY DEF RollBack
<1>2. RowsAreUsed' /\ RoomHolds' /\ \A p \in Accounts : Consumed(p)' = Consumed(p)
    BY <1>1, SameBooks
<1> QED
    BY <1>1, <1>2, BookingEnds, AllocationParts DEF AllocationInv

\* An allocation that becomes active takes one unit of its account, which had room, and a
\* domain that no other active row has.
LEMMA BookStep ==
    ASSUME AllocationInv, NEW c \in Calls, Book(c)
    PROVE  AllocationInv'
<1>1. PICK r \in Rows, p \in Accounts :
        /\ r = booking[c].r /\ p = booking[c].p /\ alloc[r].st = "PENDING"
        /\ rowLock[r] = c /\ acctLock[p] = c
        /\ account[p].status = "ACTIVE" /\ Consumed(p) < account[p].total
    BY AllocationParts DEF Book, AllocationInv, BookingsHold, BookingHolds
<1>2. alloc[r] \in AllocRow /\ account[p] \in Account
    BY <1>1, AllocationParts DEF AllocationInv, NoAccount
<1>3. /\ alloc' \in [Rows -> {NoRow} \cup AllocRow]
      /\ alloc'[r].st = "ACTIVE" /\ alloc'[r].account = p /\ alloc'[r].e = alloc[r].e /\ alloc'[r].domain = alloc[r].domain
      /\ \A o \in Rows : o # r => alloc'[o] = alloc[o]
    BY <1>1, <1>2, AllocationParts DEF Book, AllocationInv, AllocRow
<1>4. /\ account' \in [Accounts -> {NoAccount} \cup Account]
      /\ account'[p].total = account[p].total
      /\ account'[p].status = IF Consumed(p) + 1 >= account[p].total THEN "EXHAUSTED" ELSE "ACTIVE"
      /\ \A q \in Accounts : q # p => account'[q] = account[q]
    BY <1>1, <1>2, AllocationParts DEF Book, AllocationInv, Account
<1>5. RowsAreUsed'
  <2>1. IsFiniteSet(Used)'
    BY <1>1, <1>3, OneRow DEF AllocationInv
  <2> QED
    BY <1>1, <1>3, <2>1 DEF AllocationInv, RowsAreUsed, TakesCapacity
<1>6. /\ Consumed(p)' = Consumed(p) + 1
      /\ \A q \in Accounts : q # p => Consumed(q)' = Consumed(q)
  <2>1. r \notin Taken(p) /\ \A q \in Accounts : r \notin Taken(q)
    BY <1>1 DEF Taken, Rowed
  <2>2. Taken(p)' = Taken(p) \cup {r} /\ \A q \in Accounts : q # p => Taken(q)' = Taken(q) \ {r}
    BY <1>1, <1>3, OneRow DEF AllocationInv, TakesCapacity
  <2>3. Cardinality(Taken(p) \cup {r}) = Cardinality(Taken(p)) + 1
    BY <1>1, <2>1, Countable, FS_AddElement DEF AllocationInv
  <2>4. \A q \in Accounts : q # p => Taken(q)' = Taken(q)
    BY <2>1, <2>2
  <2> QED
    BY <1>1, <2>2, <2>3, <2>4 DEF Consumed, Taken
<1>7. AccountsTellTheirRoom'
  <2>1. Consumed(p) \in Nat /\ account[p].total \in Nat
    BY <1>1, <1>2, Countable, AllocationAssumption DEF AllocationInv, Account
  <2> QED
    BY <1>1, <1>4, <1>6, <2>1 DEF AllocationInv, RoomHolds, AccountsTellTheirRoom
<1>8. OneActiveAllocationPerDomain'
  <2>1. Rowed({"ACTIVE"})' = Rowed({"ACTIVE"}) \cup {r}
    BY <1>1, <1>3 DEF Rowed
  <2>2. \A o \in Rowed({"ACTIVE"}) : o # r => alloc[o].domain # alloc[r].domain
    BY <1>1 DEF Book, OthersActiveOnDomain
  <2>3. \A o \in Rowed({"ACTIVE"})' : alloc'[o].domain = alloc[o].domain
    BY <1>3 DEF Rowed
  <2>4. \A e \in Items : OpenOf(e)' = OpenOf(e)
    <3> TAKE e \in Items
    <3>1. OpenOf(e)' = IF alloc[r].e = e THEN OpenOf(e) \cup {r} ELSE OpenOf(e) \ {r}
      BY <1>1, <1>3, OneRow DEF AllocationInv, IsOpen
    <3>2. r \in OpenOf(e) <=> alloc[r].e = e
      BY <1>1 DEF OpenOf, Open, Rowed
    <3> QED
      BY <3>1, <3>2
  <2>5. \A o, q \in Rowed({"ACTIVE"})' : alloc'[o].domain = alloc'[q].domain => o = q
    BY <2>1, <2>2, <2>3 DEF AllocationInv, RoomHolds, OneActiveAllocationPerDomain
  <2> QED
    BY <2>4, <2>5 DEF AllocationInv, RoomHolds, OneActiveAllocationPerDomain, OpenOf
<1>9. \A o \in Rows : rowLock[o] # c => alloc'[o] = alloc[o]
    BY <1>1, <1>3
<1>10. \A q \in Accounts : acctLock[q] # c => account'[q] = account[q] /\ Consumed(q)' = Consumed(q)
    BY <1>1, <1>4, <1>6
<1>11. EndBooking(c) /\ RoomHolds'
    BY <1>7, <1>8 DEF Book, RoomHolds
<1> QED
    BY <1>3, <1>4, <1>5, <1>9, <1>10, <1>11, BookingEnds

\* A confirmed deactivation gives the unit back.
LEMMA ReleaseStep ==
    ASSUME AllocationInv, NEW c \in Calls, Release(c)
    PROVE  AllocationInv'
<1>1. PICK r \in Rows, p \in Accounts :
        /\ r = booking[c].r /\ p = booking[c].p
        /\ alloc[r].st = "DEACTIVATION_PENDING" /\ alloc[r].account = p
        /\ rowLock[r] = c /\ acctLock[p] = c
    BY AllocationParts DEF Release, AllocationInv, BookingsHold, BookingHolds
<1>2. alloc[r] \in AllocRow /\ r \in Taken(p)
    BY <1>1, AllocationParts DEF AllocationInv, Taken, Rowed
<1>3. /\ alloc' \in [Rows -> {NoRow} \cup AllocRow]
      /\ alloc'[r].st = "DEACTIVATED" /\ alloc'[r].e = alloc[r].e
      /\ \A o \in Rows : o # r => alloc'[o] = alloc[o]
    BY <1>1, <1>2, AllocationParts DEF Release, AllocationInv, AllocRow
<1>4. /\ Consumed(p)' = Consumed(p) - 1 /\ Consumed(p) \in Nat
      /\ \A q \in Accounts : q # p => Consumed(q)' = Consumed(q)
  <2>1. Taken(p)' = Taken(p) \ {r} /\ \A q \in Accounts : q # p => Taken(q)' = Taken(q) \ {r}
    BY <1>1, <1>3, OneRow DEF AllocationInv, TakesCapacity
  <2>2. \A q \in Accounts : q # p => Taken(q)' = Taken(q)
    BY <1>1, <2>1 DEF Taken
  <2>3. Cardinality(Taken(p) \ {r}) = Cardinality(Taken(p)) - 1 /\ Cardinality(Taken(p)) \in Nat
    BY <1>1, <1>2, Countable, FS_RemoveElement DEF AllocationInv
  <2> QED
    BY <1>1, <2>1, <2>2, <2>3 DEF Consumed, Taken
<1>5. Consumed(p) <= account[p].total /\ account[p] \in Account /\ account[p].total \in Nat
  <2>1. Consumed(p) >= 1
    BY <1>1, <1>2, Countable, FS_EmptySet DEF AllocationInv
  <2>2. Consumed(p) <= account[p].total
    BY <1>1 DEF AllocationInv, RoomHolds, AccountsTellTheirRoom
  <2>3. account[p] # NoAccount
    BY <1>4, <2>1, <2>2 DEF NoAccount
  <2> QED
    BY <2>2, <2>3, AllocationParts, AllocationAssumption DEF AllocationInv, Account
<1>6. /\ account' \in [Accounts -> {NoAccount} \cup Account]
      /\ account'[p].total = account[p].total
      /\ account'[p].status \in {"SUSPENDED", "ACTIVE"}
      /\ \A q \in Accounts : q # p => account'[q] = account[q]
  <2>1. ~(Consumed(p) - 1 >= account[p].total)
    BY <1>4, <1>5
  <2>2. account' = [account EXCEPT ![p].status = IF account[p].status = "SUSPENDED" THEN account[p].status ELSE "ACTIVE"]
    BY <1>1, <2>1, AllocationParts DEF Release, AllocationInv
  <2> QED
    BY <1>5, <2>2, AllocationParts DEF AllocationInv, Account
<1>7. RowsAreUsed'
  <2>1. IsFiniteSet(Used)'
    BY <1>1, <1>3, OneRow DEF AllocationInv
  <2> QED
    BY <1>1, <1>3, <2>1 DEF AllocationInv, RowsAreUsed, TakesCapacity
<1>8. AccountsTellTheirRoom'
    BY <1>4, <1>5, <1>6 DEF AllocationInv, RoomHolds, AccountsTellTheirRoom
<1>9. OneActiveAllocationPerDomain'
  <2>1. Rowed({"ACTIVE"})' = Rowed({"ACTIVE"}) /\ \A o \in Rowed({"ACTIVE"}) : alloc'[o] = alloc[o]
    BY <1>1, <1>3 DEF Rowed
  <2>2. \A e \in Items : OpenOf(e)' = OpenOf(e) \ {r}
    BY <1>1, <1>3, OneRow DEF AllocationInv, IsOpen
  <2>3. \A e \in Items : Cardinality(OpenOf(e)') <= MaxSites
    BY <2>2, FewerOpen DEF AllocationInv
  <2> QED
    BY <2>1, <2>3 DEF AllocationInv, RoomHolds, OneActiveAllocationPerDomain, OpenOf
<1>10. \A o \in Rows : rowLock[o] # c => alloc'[o] = alloc[o]
    BY <1>1, <1>3
<1>11. \A q \in Accounts : acctLock[q] # c => account'[q] = account[q] /\ Consumed(q)' = Consumed(q)
    BY <1>1, <1>4, <1>6
<1>12. EndBooking(c) /\ RoomHolds'
    BY <1>8, <1>9 DEF Release, RoomHolds
<1> QED
    BY <1>3, <1>6, <1>7, <1>10, <1>11, <1>12, BookingEnds

-----------------------------------------------------------------------------
\* Steps that hold no lock: what is locked is as it was.
LEMMA QuietStep ==
    ASSUME AllocationInv, AllocationTypeOK', UNCHANGED <<booking, rowLock, acctLock>>,
           \A r \in Rows : rowLock[r] # Nobody /\ alloc[r].st # "none" => alloc'[r] = alloc[r],
           \A p \in Accounts : Consumed(p)' = Consumed(p),
           \A p \in Accounts : acctLock[p] # Nobody /\ account[p].status # "none" => account'[p] = account[p],
           RowsAreUsed', RoomHolds'
    PROVE  AllocationInv'
<1>1. BookingsHold'
  <2> SUFFICES ASSUME NEW x \in Calls, booking'[x].pc # "idle" PROVE BookingHolds(x)'
    BY DEF BookingsHold
  <2>1. PICK r \in Rows, p \in Accounts : r = booking[x].r /\ p = booking[x].p
    BY AllocationParts DEF AllocationInv
  <2>2. BookingHolds(x) /\ booking' = booking
    BY DEF AllocationInv, BookingsHold
  <2>3. alloc[r].st # "none" /\ rowLock[r] = x /\ rowLock'[r] = x
    BY <2>1, <2>2, AllocationParts DEF BookingHolds, AllocationInv, Booking
  <2>4. alloc'[r] = alloc[r]
    BY <2>3, NobodyIsNoCall
  <2>5. acctLock[p] = x /\ account[p].status = "ACTIVE" => account'[p] = account[p]
    BY NobodyIsNoCall
  <2>6. acctLock' = acctLock /\ Consumed(p)' = Consumed(p)
    OBVIOUS
  <2> QED
    BY <2>1, <2>2, <2>3, <2>4, <2>5, <2>6 DEF BookingHolds
<1> QED
    BY <1>1 DEF AllocationInv

\* A request for a domain is one more open row of an entitlement that had room.
LEMMA AllocationRequests ==
    ASSUME AllocationInv, NEW r \in Rows, NEW e \in Items, NEW d \in Sites, RequestDomainAllocation(r, e, d)
    PROVE  AllocationInv'
<1> DEFINE row == [st |-> "PENDING", e |-> e, domain |-> d, account |-> "none"]
<1>1. /\ alloc[r] = NoRow /\ alloc[r].st = "none" /\ alloc' = [alloc EXCEPT ![r] = row] /\ row \in AllocRow
      /\ Cardinality({o \in Open : alloc[o].e = e}) < MaxSites
      /\ UNCHANGED <<entVars, rowLock, account, acctLock, booking, bookings, edits>>
    BY DEF RequestDomainAllocation, AllocRow, NoRow
<1>2. /\ alloc' \in [Rows -> {NoRow} \cup AllocRow]
      /\ alloc'[r].st = "PENDING" /\ alloc'[r].e = e /\ \A o \in Rows : o # r => alloc'[o] = alloc[o]
    BY <1>1, AllocationParts DEF AllocationInv
<1>3. AllocationTypeOK'
    BY <1>1, <1>2 DEF AllocationInv, AllocationTypeOK, EntitlementsTypeOK, entVars, AllocRow
<1>4. \A p \in Accounts : Taken(p)' = Taken(p)
  <2>1. \A p \in Accounts : Taken(p)' = Taken(p) \ {r}
    BY <1>2, OneRow DEF AllocationInv, TakesCapacity
  <2>2. \A p \in Accounts : r \notin Taken(p)
    BY <1>1 DEF Taken, Rowed
  <2> QED
    BY <2>1, <2>2
<1>5. \A p \in Accounts : Consumed(p)' = Consumed(p)
    BY <1>4 DEF Consumed, Taken
<1>6. RowsAreUsed'
  <2>1. IsFiniteSet(Used)'
    BY <1>2, OneRow DEF AllocationInv
  <2> QED
    BY <1>2, <2>1 DEF AllocationInv, RowsAreUsed, TakesCapacity
<1>7. AccountsTellTheirRoom'
    BY <1>1, <1>5 DEF AllocationInv, RoomHolds, AccountsTellTheirRoom
<1>8. OneActiveAllocationPerDomain'
  <2>1. Rowed({"ACTIVE"})' = Rowed({"ACTIVE"}) /\ \A o \in Rowed({"ACTIVE"}) : alloc'[o] = alloc[o]
    BY <1>1, <1>2 DEF Rowed
  <2>2. Cardinality(OpenOf(e)) < MaxSites /\ Cardinality(OpenOf(e)) \in Nat
    BY <1>1, Countable DEF OpenOf, AllocationInv
  <2>3. OpenOf(e)' = OpenOf(e) \cup {r} /\ \A f \in Items : f # e => OpenOf(f)' = OpenOf(f) \ {r}
    BY <1>2, OneRow DEF AllocationInv, IsOpen
  <2>4. IsFiniteSet(OpenOf(e)) /\ r \notin OpenOf(e)
    BY <1>1, Countable DEF AllocationInv, OpenOf, Open, Rowed
  <2>5. Cardinality(OpenOf(e) \cup {r}) = Cardinality(OpenOf(e)) + 1
    BY <2>4, FS_AddElement
  <2>6. Cardinality(OpenOf(e)') <= MaxSites
    BY <2>2, <2>3, <2>5, AllocationAssumption
  <2>7. \A f \in Items : f # e => Cardinality(OpenOf(f)') <= MaxSites
    BY <2>3, FewerOpen DEF AllocationInv
  <2> QED
    BY <2>1, <2>6, <2>7 DEF AllocationInv, RoomHolds, OneActiveAllocationPerDomain, OpenOf
<1>9. \A o \in Rows : alloc[o].st # "none" => alloc'[o] = alloc[o]
    BY <1>1, <1>2
<1> QED
    BY <1>1, <1>3, <1>5, <1>6, <1>7, <1>8, <1>9, QuietStep DEF RoomHolds

\* Rows that nobody has locked move on; those that take capacity go on taking it, or the
\* others never took any.
LEMMA RowsMoveStep ==
    ASSUME AllocationInv, alloc' \in [Rows -> {NoRow} \cup AllocRow],
           UNCHANGED <<entVars, rowLock, account, acctLock, booking, bookings, edits>>,
           \A r \in Rows :
             \/ alloc'[r] = alloc[r]
             \/ /\ rowLock[r] = Nobody /\ alloc[r].st = "ACTIVE" /\ alloc'[r].st = "DEACTIVATION_PENDING"
                /\ alloc'[r].account = alloc[r].account /\ alloc'[r].e = alloc[r].e
             \/ rowLock[r] = Nobody /\ alloc[r].st = "PENDING" /\ alloc'[r].st = "REJECTED"
    PROVE  AllocationInv'
<1>1. AllocationTypeOK'
    BY DEF AllocationInv, AllocationTypeOK, EntitlementsTypeOK, entVars, AllocRow
<1>2. Used' \in SUBSET Used
    BY DEF Used, NoRow
<1>3. \A p \in Accounts : Taken(p)' = Taken(p)
    BY DEF Taken, Rowed
<1>4. \A p \in Accounts : Consumed(p)' = Consumed(p)
    BY <1>3 DEF Consumed, Taken
<1>5. RowsAreUsed'
  <2>1. IsFiniteSet(Used)'
    BY <1>2, FS_Subset DEF AllocationInv, RowsAreUsed
  <2> QED
    BY <2>1 DEF AllocationInv, RowsAreUsed, TakesCapacity
<1>6. AccountsTellTheirRoom'
    BY <1>4 DEF AllocationInv, RoomHolds, AccountsTellTheirRoom
<1>7. OneActiveAllocationPerDomain'
  <2>1. Rowed({"ACTIVE"})' \subseteq Rowed({"ACTIVE"}) /\ \A o \in Rowed({"ACTIVE"})' : alloc'[o] = alloc[o]
    BY DEF Rowed
  <2>2. ASSUME NEW e \in Items PROVE Cardinality(OpenOf(e)') <= MaxSites
    <3>1. OpenOf(e)' \in SUBSET OpenOf(e)
      BY DEF OpenOf, Open, Rowed
    <3>2. IsFiniteSet(OpenOf(e)) /\ Cardinality(OpenOf(e)) \in Nat
      BY Countable DEF AllocationInv
    <3>3. Cardinality(OpenOf(e)') \in Nat /\ Cardinality(OpenOf(e)') <= Cardinality(OpenOf(e))
      BY <3>1, <3>2, FS_Subset, FS_CardinalityType
    <3>4. Cardinality(OpenOf(e)) <= MaxSites
      BY DEF AllocationInv, RoomHolds, OneActiveAllocationPerDomain, OpenOf
    <3> QED
      BY <3>2, <3>3, <3>4, AllocationAssumption
  <2> QED
    BY <2>1, <2>2 DEF AllocationInv, RoomHolds, OneActiveAllocationPerDomain, OpenOf
<1> QED
    BY <1>1, <1>4, <1>5, <1>6, <1>7, QuietStep DEF RoomHolds

\* An administrator creates an account, or changes one nobody has locked.
LEMMA AccountStep ==
    ASSUME AllocationInv, NEW p \in Accounts, NEW total \in Totals,
           \/ \E status \in {"ACTIVE", "SUSPENDED"} : AdminCreateProviderAccount(p, total, status)
           \/ \E asked \in {"unchanged", "ACTIVE", "SUSPENDED"} : AdminUpdateProviderAccount(p, total, asked)
    PROVE  AllocationInv'
<1>1. Consumed(p) \in Nat /\ total \in Nat \ {0}
    BY Countable, AllocationAssumption DEF AllocationInv
<1>2. PICK status \in {"ACTIVE", "EXHAUSTED", "SUSPENDED"} :
        /\ account' = [account EXCEPT ![p] = [status |-> status, total |-> total]]
        /\ Consumed(p) <= total
        /\ status = "ACTIVE" => Consumed(p) < total
        /\ status = "EXHAUSTED" => Consumed(p) = total
        /\ account[p].status = "none" \/ acctLock[p] = Nobody
  <2>1. ASSUME NEW status \in {"ACTIVE", "SUSPENDED"}, AdminCreateProviderAccount(p, total, status)
        PROVE  /\ account' = [account EXCEPT ![p] = [status |-> status, total |-> total]]
               /\ Consumed(p) <= total /\ Consumed(p) < total /\ status # "EXHAUSTED"
               /\ account[p].status = "none"
    <3>1. account[p] = NoAccount
      BY <2>1 DEF AdminCreateProviderAccount
    <3>2. Consumed(p) <= 0
      BY <3>1 DEF AllocationInv, RoomHolds, AccountsTellTheirRoom, NoAccount
    <3>3. Consumed(p) < total /\ Consumed(p) <= total
      BY <1>1, <3>2
    <3> QED
      BY <2>1, <3>1, <3>3 DEF AdminCreateProviderAccount, NoAccount
  <2>2. ASSUME NEW asked \in {"unchanged", "ACTIVE", "SUSPENDED"}, AdminUpdateProviderAccount(p, total, asked)
        PROVE  LET status == ResolvedStatus(p, total, asked)
               IN  /\ status \in {"ACTIVE", "EXHAUSTED", "SUSPENDED"}
                   /\ account' = [account EXCEPT ![p] = [status |-> status, total |-> total]]
                   /\ Consumed(p) <= total
                   /\ status = "ACTIVE" => Consumed(p) < total
                   /\ status = "EXHAUSTED" => Consumed(p) = total
                   /\ acctLock[p] = Nobody
    <3>1. Consumed(p) <= total /\ acctLock[p] = Nobody
      BY <1>1, <2>2 DEF AdminUpdateProviderAccount
    <3>2. account' = [account EXCEPT ![p] = [status |-> ResolvedStatus(p, total, asked), total |-> total]]
      BY <2>2 DEF AdminUpdateProviderAccount
    <3> QED
      BY <1>1, <3>1, <3>2 DEF ResolvedStatus
  <2> QED
    BY <2>1, <2>2
<1>3. /\ UNCHANGED <<entVars, alloc, rowLock, acctLock, booking, bookings>> /\ edits' \in 0 .. MaxEdits
    BY AllocationAssumption DEF AdminCreateProviderAccount, AdminUpdateProviderAccount, AllocationInv, AllocationTypeOK
<1>4. /\ account' \in [Accounts -> {NoAccount} \cup Account]
      /\ account'[p].status = status /\ account'[p].total = total
      /\ \A q \in Accounts : q # p => account'[q] = account[q]
    BY <1>2, AllocationParts DEF AllocationInv, Account
<1>5. AllocationTypeOK'
    BY <1>3, <1>4 DEF AllocationInv, AllocationTypeOK, EntitlementsTypeOK, entVars, Account
<1>6. \A q \in Accounts : Consumed(q)' = Consumed(q)
  <2>1. \A q \in Accounts : Taken(q)' = Taken(q)
    BY <1>3 DEF Taken, Rowed
  <2> QED
    BY <2>1 DEF Consumed, Taken
<1>7. RowsAreUsed'
    BY <1>3 DEF AllocationInv, RowsAreUsed, Used, TakesCapacity
<1>8. AccountsTellTheirRoom'
    BY <1>2, <1>4, <1>6 DEF AllocationInv, RoomHolds, AccountsTellTheirRoom
<1>9. OneActiveAllocationPerDomain'
  <2>1. Rowed({"ACTIVE"})' = Rowed({"ACTIVE"}) /\ \A e \in Items : OpenOf(e)' = OpenOf(e)
    BY <1>3 DEF Rowed, OpenOf, Open
  <2> QED
    BY <1>3, <2>1 DEF AllocationInv, RoomHolds, OneActiveAllocationPerDomain, OpenOf
<1> QED
    BY <1>2, <1>3, <1>4, <1>5, <1>6, <1>7, <1>8, <1>9, QuietStep DEF RoomHolds

-----------------------------------------------------------------------------
LEMMA AllocationSteps == AllocationInv /\ [AllocationNext]_allocationVars => AllocationInv'
<1> SUFFICES ASSUME AllocationInv, [AllocationNext]_allocationVars PROVE AllocationInv'
    OBVIOUS
<1>1. CASE UNCHANGED allocationVars
  <2>1. UNCHANGED <<entVars, alloc, rowLock, account, acctLock, booking, bookings, edits>>
    BY <1>1 DEF allocationVars, allocVars
  <2>2. AllocationTypeOK'
    BY <2>1 DEF AllocationInv, AllocationTypeOK, EntitlementsTypeOK, entVars
  <2> QED
    BY <2>1, <2>2, SameBooks, QuietStep DEF AllocationInv
<1>2. CASE EntitlementsNext /\ UNCHANGED allocVars
    BY <1>2, EntitlementsLeaveRooms
<1>3. CASE ReconcileExternalAllocations
  <2>1. alloc' = [r \in Rows |-> IF r \in Stranded THEN [alloc[r] EXCEPT !.st = "DEACTIVATION_PENDING"] ELSE alloc[r]]
    BY <1>3 DEF ReconcileExternalAllocations
  <2>2. \A r \in Stranded : r \in Rows /\ alloc[r].st = "ACTIVE" /\ rowLock[r] = Nobody /\ alloc[r] \in AllocRow
    BY AllocationParts DEF Stranded, Rowed, AllocationInv
  <2>3. \A r \in Stranded : [alloc[r] EXCEPT !.st = "DEACTIVATION_PENDING"] \in AllocRow
    BY <2>2 DEF AllocRow
  <2>4. alloc' \in [Rows -> {NoRow} \cup AllocRow]
    BY <2>1, <2>3, AllocationParts DEF AllocationInv
  <2>5. \A r \in Rows :
          \/ alloc'[r] = alloc[r]
          \/ /\ rowLock[r] = Nobody /\ alloc[r].st = "ACTIVE" /\ alloc'[r].st = "DEACTIVATION_PENDING"
             /\ alloc'[r].account = alloc[r].account /\ alloc'[r].e = alloc[r].e
    BY <2>1, <2>2 DEF AllocRow
  <2> QED
    BY <1>3, <2>4, <2>5, RowsMoveStep DEF ReconcileExternalAllocations
<1>4. ASSUME NEW r \in Rows, NEW e \in Items, NEW d \in Sites, RequestDomainAllocation(r, e, d) PROVE AllocationInv'
    BY <1>4, AllocationRequests
<1>5. ASSUME NEW r \in Rows, RequestAllocationDeactivation(r) \/ AdminRejectAllocation(r) PROVE AllocationInv'
  <2>1. PICK from, to : /\ Move(r, from, to)
                        /\ <<from, to>> \in {<<"ACTIVE", "DEACTIVATION_PENDING">>, <<"PENDING", "REJECTED">>}
    BY <1>5 DEF RequestAllocationDeactivation, AdminRejectAllocation
  <2>2. alloc[r] \in AllocRow /\ alloc[r].st = from /\ rowLock[r] = Nobody
    BY <2>1, AllocationParts DEF Move, AllocationInv
  <2>3. [alloc[r] EXCEPT !.st = to] \in AllocRow
    BY <2>1, <2>2 DEF AllocRow
  <2>4. /\ alloc' \in [Rows -> {NoRow} \cup AllocRow]
        /\ alloc'[r].st = to /\ alloc'[r].account = alloc[r].account /\ alloc'[r].e = alloc[r].e
        /\ \A o \in Rows : o # r => alloc'[o] = alloc[o]
    BY <2>1, <2>2, <2>3, AllocationParts DEF Move, AllocationInv, AllocRow
  <2>5. UNCHANGED <<entVars, rowLock, account, acctLock, booking, bookings, edits>>
    BY <2>1 DEF Move
  <2> QED
    BY <2>1, <2>2, <2>4, <2>5, RowsMoveStep
<1>6. ASSUME NEW c \in Calls, BookingStep(c) PROVE AllocationInv'
    BY <1>6, LookStep, BookStep, ReleaseStep, RollBackStep DEF BookingStep
<1>7. ASSUME NEW c \in Calls, NEW r \in Rows, AdminConfirmDeactivated(c, r) PROVE AllocationInv'
  <2>1. /\ alloc[r].st = "DEACTIVATION_PENDING" /\ alloc[r].account \in Accounts
        /\ BeginBooking(c, r, alloc[r].account, "confirm")
    BY <1>7 DEF AdminConfirmDeactivated, AllocationInv, RowsAreUsed, TakesCapacity
  <2>2. PICK p \in Accounts : p = alloc[r].account
    BY <2>1
  <2> QED
    BY <2>1, <2>2, BookingBegins
<1>8. ASSUME NEW c \in Calls, NEW r \in Rows, NEW p \in Accounts, AdminActivateAllocation(c, r, p) PROVE AllocationInv'
    BY <1>8, BookingBegins DEF AdminActivateAllocation
<1>9. ASSUME NEW p \in Accounts, NEW total \in Totals,
             \/ \E status \in {"ACTIVE", "SUSPENDED"} : AdminCreateProviderAccount(p, total, status)
             \/ \E asked \in {"unchanged", "ACTIVE", "SUSPENDED"} : AdminUpdateProviderAccount(p, total, asked)
      PROVE  AllocationInv'
    BY <1>9, AccountStep
<1> QED
    BY <1>1, <1>2, <1>3, <1>4, <1>5, <1>6, <1>7, <1>8, <1>9 DEF AllocationNext

\* No provider account is filled beyond its capacity, its status says whether it has room,
\* and a domain is active once.
THEOREM RoomAlwaysHolds == AllocationSpec => []RoomHolds
<1>1. AllocationInv => RoomHolds
    BY DEF AllocationInv
<1> QED
    BY <1>1, AllocationInitially, AllocationSteps, PTL DEF AllocationSpec

-----------------------------------------------------------------------------
(***************************************************************************)
(* Terms                                                                   *)
(***************************************************************************)

\* A day of the calendar, of any year.
IsDay(date) ==
    /\ date \in [y : Nat \ {0}, mo : 0 .. 11, d : Nat \ {0}]
    /\ date.d <= DaysIn(date.y, date.mo)

\* What the two tables say of each other.
LEMMA TableOfMonths ==
    /\ \A mo \in 0 .. 11 : MonthDays[mo + 1] \in 28 .. 31 /\ DaysBefore[mo + 1] \in Nat
    /\ \A mo \in 0 .. 10 : DaysBefore[mo + 2] = DaysBefore[mo + 1] + MonthDays[mo + 1]
    /\ DaysBefore[1] = 0 /\ DaysBefore[12] = 334 /\ MonthDays[12] = 31
BY DEF MonthDays, DaysBefore

\* A year has one day more than 365 exactly when the count of leap days grows with it.
LeapDays(y) == (y - 1) \div 4 - (y - 1) \div 100 + (y - 1) \div 400

LEMMA LeapYearsAreCounted ==
    ASSUME NEW y \in Nat \ {0}
    PROVE  /\ LeapDays(y) \in Int
           /\ LeapDays(y + 1) = LeapDays(y) + (IF Leap(y) THEN 1 ELSE 0)
BY DEF LeapDays, Leap

LEMMA MonthsAreLong ==
    ASSUME NEW y \in Nat, NEW mo \in 0 .. 11
    PROVE  DaysIn(y, mo) \in 28 .. 31 /\ DaysIn(y, mo) = MonthDays[mo + 1] + (IF Leap(y) /\ mo = 1 THEN 1 ELSE 0)
<1>1. MonthDays[mo + 1] \in 28 .. 31 /\ (mo = 1 => MonthDays[mo + 1] = 28)
    BY TableOfMonths DEF MonthDays
<1> QED
    BY <1>1 DEF DaysIn

\* The number of a day of a month of the year, as the sum it is.
DaysOfYear(y, mo) == 365 * (y - 1) + LeapDays(y) + DaysBefore[mo + 1] + (IF Leap(y) /\ mo > 1 THEN 1 ELSE 0)

LEMMA NumberInMonth ==
    ASSUME NEW y \in Nat \ {0}, NEW mo \in 0 .. 11, NEW d \in Int
    PROVE  DayNumber(y, mo, d) = DaysOfYear(y, mo) + d - 1 /\ DaysOfYear(y, mo) \in Int
<1>1. mo \div 12 = 0 /\ mo % 12 = mo
    OBVIOUS
<1>2. LeapDays(y) \in Int /\ DaysBefore[mo + 1] \in Nat
    BY LeapYearsAreCounted, TableOfMonths
<1> QED
    BY <1>1, <1>2 DEF DayNumber, DaysOfYear, LeapDays

\* Months make years.
LEMMA YearsAndMonths ==
    ASSUME NEW m \in Nat
    PROVE  \E q \in Nat, r \in 0 .. 11 : q = m \div 12 /\ r = m % 12 /\ m = 12 * q + r
OBVIOUS

\* The year and the month that so many months after a day's month are.
YearOf(date, months) == date.y + (date.mo + months) \div 12
MonthOf(date, months) == (date.mo + months) % 12

\* They are the only year and month with the right number of months before them.
LEMMA MonthsCarryOver ==
    ASSUME NEW date, IsDay(date), NEW months \in Nat
    PROVE  /\ YearOf(date, months) \in Nat \ {0} /\ MonthOf(date, months) \in 0 .. 11
           /\ 12 * YearOf(date, months) + MonthOf(date, months) = 12 * date.y + date.mo + months
<1>1. date.y \in Nat \ {0} /\ date.mo \in 0 .. 11
    BY DEF IsDay
<1>2. PICK q \in Nat, r \in 0 .. 11 :
          /\ q = (date.mo + months) \div 12 /\ r = (date.mo + months) % 12
          /\ date.mo + months = 12 * q + r
  <2>1. date.mo + months \in Nat
      BY <1>1
  <2> QED
      BY <2>1, YearsAndMonths
<1>3. YearOf(date, months) = date.y + q /\ MonthOf(date, months) = r
    BY <1>2 DEF YearOf, MonthOf
<1>4. PICK y \in Nat \ {0}, mo \in 0 .. 11 : y = date.y /\ mo = date.mo
    BY <1>1
<1>5. mo + months = 12 * q + r
    BY <1>2, <1>4
<1>6. 12 * (y + q) + r = 12 * y + mo + months
    BY <1>5
<1>7. YearOf(date, months) = y + q
    BY <1>3, <1>4
<1>8. y + q \in Nat \ {0} /\ 12 * YearOf(date, months) + MonthOf(date, months) = 12 * (y + q) + r
    BY <1>3, <1>7
<1>9. 12 * date.y + date.mo + months = 12 * y + mo + months
    BY <1>4
<1> QED
    BY <1>3, <1>6, <1>7, <1>8, <1>9

LEMMA MonthsHaveNumbers ==
    ASSUME NEW y \in Nat \ {0}, NEW mo \in 0 .. 11
    PROVE  DaysOfYear(y, mo) \in Int /\ DaysIn(y, mo) \in 28 .. 31
<1>1. 0 \in Int /\ y \in Nat
    OBVIOUS
<1> QED
    BY <1>1, NumberInMonth, MonthsAreLong

LEMMA OneYearOneMonth ==
    ASSUME NEW y1 \in Nat, NEW y2 \in Nat, NEW m1 \in 0 .. 11, NEW m2 \in 0 .. 11, 12 * y1 + m1 = 12 * y2 + m2
    PROVE  y1 = y2 /\ m1 = m2
OBVIOUS

LEMMA NumberCarriesOver ==
    ASSUME NEW date, IsDay(date), NEW months \in Nat
    PROVE  DayNumber(date.y, date.mo + months, date.d)
               = DaysOfYear(YearOf(date, months), MonthOf(date, months)) + date.d - 1
<1> DEFINE y == YearOf(date, months)
           mo == MonthOf(date, months)
<1>1. DayNumber(date.y, date.mo + months, date.d)
          = 365 * (y - 1) + ((y - 1) \div 4 - (y - 1) \div 100 + (y - 1) \div 400)
            + DaysBefore[mo + 1] + (IF Leap(y) /\ mo > 1 THEN 1 ELSE 0) + date.d - 1
    BY DEF DayNumber, YearOf, MonthOf
<1> HIDE DEF y, mo
<1>2. DayNumber(date.y, date.mo + months, date.d) = DaysOfYear(y, mo) + date.d - 1
    BY <1>1 DEF DaysOfYear, LeapDays
<1> QED
    BY <1>2 DEF y, mo

\* The first day of a month follows the last one of the month before.
LEMMA MonthsFollowEachOther ==
    ASSUME NEW y \in Nat \ {0}, NEW mo \in 0 .. 11
    PROVE  /\ mo < 11 => DaysOfYear(y, mo + 1) = DaysOfYear(y, mo) + DaysIn(y, mo)
           /\ mo = 11 => DaysOfYear(y + 1, 0) = DaysOfYear(y, mo) + DaysIn(y, mo)
<1>1. LeapDays(y) \in Int /\ LeapDays(y + 1) = LeapDays(y) + (IF Leap(y) THEN 1 ELSE 0)
    BY LeapYearsAreCounted
<1>2. DaysIn(y, mo) = MonthDays[mo + 1] + (IF Leap(y) /\ mo = 1 THEN 1 ELSE 0)
    BY MonthsAreLong
<1>3. CASE mo < 11
  <2>1. DaysBefore[mo + 2] = DaysBefore[mo + 1] + MonthDays[mo + 1] /\ MonthDays[mo + 1] \in Int /\ DaysBefore[mo + 1] \in Int
      BY <1>3, TableOfMonths
  <2>2. (mo + 1) + 1 = mo + 2
      OBVIOUS
  <2> QED
      BY <1>1, <1>2, <1>3, <2>1, <2>2 DEF DaysOfYear
<1>4. CASE mo = 11
    BY <1>1, <1>2, <1>4, TableOfMonths DEF DaysOfYear
<1> QED
    BY <1>3, <1>4

\* What a term of some months ends on: a day of the month it lands in, the one it started on
\* or the last of the month.
Shorter(m, n) == IF m < n THEN m ELSE n

LEMMA ShorterKeepsOrder ==
    ASSUME NEW m \in Nat \ {0}, NEW n \in 28 .. 31
    PROVE  /\ Shorter(m, n) \in Nat \ {0} /\ Shorter(m, n) <= n /\ Shorter(m, n) <= m
           /\ m <= 31 => m - Shorter(m, n) \in 0 .. 3
BY DEF Shorter

LEMMA ShorterIsMonotone ==
    ASSUME NEW k \in Nat \ {0}, NEW m \in Nat \ {0}, k <= m, NEW n \in 28 .. 31
    PROVE  Shorter(k, n) \in Nat /\ Shorter(m, n) \in Nat /\ Shorter(k, n) <= Shorter(m, n)
BY DEF Shorter

LEMMA TermLandsInMonth ==
    ASSUME NEW date, IsDay(date), NEW months \in Nat,
           NEW y, y = YearOf(date, months), NEW mo, mo = MonthOf(date, months),
           NEW end, end = AddUtcMonths(date, months)
    PROVE  /\ y \in Nat \ {0} /\ mo \in 0 .. 11 /\ IsDay(end)
           /\ end.y = y /\ end.mo = mo /\ end.d = Shorter(date.d, DaysIn(y, mo))
           /\ NumberOf(end) = DaysOfYear(y, mo) + Shorter(date.d, DaysIn(y, mo)) - 1
<1>1. date.d \in Nat \ {0} /\ y \in Nat \ {0} /\ mo \in 0 .. 11
    BY MonthsCarryOver DEF IsDay
<1>2. end = [y |-> y, mo |-> mo, d |-> Shorter(date.d, DaysIn(y, mo))]
    BY DEF AddUtcMonths, YearOf, MonthOf, Shorter
<1>3. DaysIn(y, mo) \in 28 .. 31
    BY <1>1, MonthsAreLong
<1>4. Shorter(date.d, DaysIn(y, mo)) \in Nat \ {0} /\ Shorter(date.d, DaysIn(y, mo)) <= DaysIn(y, mo)
    BY <1>1, <1>3, ShorterKeepsOrder
<1>5. IsDay(end)
    BY <1>1, <1>2, <1>4 DEF IsDay
<1>6. NumberOf(end) = DayNumber(y, mo, Shorter(date.d, DaysIn(y, mo)))
    BY <1>2 DEF NumberOf
<1>7. NumberOf(end) = DaysOfYear(y, mo) + Shorter(date.d, DaysIn(y, mo)) - 1
  <2>1. PICK d \in Int : d = Shorter(date.d, DaysIn(y, mo))
      BY <1>4
  <2> QED
      BY <1>1, <1>6, <2>1, NumberInMonth
<1> QED
    BY <1>1, <1>2, <1>5, <1>7

\* Tomorrow is the next day of the month, or the first of the next one.
LEMMA TomorrowFollows ==
    ASSUME NEW date, IsDay(date)
    PROVE  /\ IsDay(Tomorrow(date))
           /\ NumberOf(date) \in Int
           /\ NumberOf(Tomorrow(date)) = NumberOf(date) + 1
<1>1. date.y \in Nat \ {0} /\ date.mo \in 0 .. 11 /\ date.d \in Nat \ {0} /\ date.d <= DaysIn(date.y, date.mo)
      /\ date = [y |-> date.y, mo |-> date.mo, d |-> date.d]
    BY DEF IsDay
<1>2. NumberOf(date) = DaysOfYear(date.y, date.mo) + date.d - 1 /\ DaysOfYear(date.y, date.mo) \in Int
    BY <1>1, NumberInMonth DEF NumberOf
<1>3. DaysIn(date.y, date.mo) \in 28 .. 31
    BY <1>1, MonthsAreLong
<1>4. CASE date.d < DaysIn(date.y, date.mo)
  <2>1. Tomorrow(date) = [y |-> date.y, mo |-> date.mo, d |-> date.d + 1]
      BY <1>1, <1>4 DEF Tomorrow
  <2>2. NumberOf(Tomorrow(date)) = DaysOfYear(date.y, date.mo) + (date.d + 1) - 1
      BY <1>1, <2>1, NumberInMonth DEF NumberOf
  <2> QED
      BY <1>1, <1>2, <1>3, <1>4, <2>1, <2>2 DEF IsDay
<1>5. CASE date.d = DaysIn(date.y, date.mo) /\ date.mo < 11
  <2>1. Tomorrow(date) = [y |-> date.y, mo |-> date.mo + 1, d |-> 1]
    <3>1. Tomorrow(date) = [date EXCEPT !.mo = @ + 1, !.d = 1]
        BY <1>1, <1>3, <1>5 DEF Tomorrow
    <3> QED
        BY <1>1, <3>1
  <2>2. date.mo + 1 \in 0 .. 11
      BY <1>1, <1>5
  <2>3. NumberOf(Tomorrow(date)) = DaysOfYear(date.y, date.mo + 1) + 1 - 1
      BY <1>1, <2>1, <2>2, NumberInMonth DEF NumberOf
  <2>4. DaysIn(date.y, date.mo + 1) \in 28 .. 31
      BY <1>1, <2>2, MonthsAreLong
  <2>5. DaysOfYear(date.y, date.mo + 1) = DaysOfYear(date.y, date.mo) + DaysIn(date.y, date.mo)
      BY <1>1, <1>5, MonthsFollowEachOther
  <2> QED
      BY <1>1, <1>2, <1>3, <1>5, <2>1, <2>2, <2>3, <2>4, <2>5 DEF IsDay
<1>6. CASE date.d = DaysIn(date.y, date.mo) /\ date.mo = 11
  <2>1. Tomorrow(date) = [y |-> date.y + 1, mo |-> 0, d |-> 1]
      BY <1>1, <1>3, <1>6 DEF Tomorrow
  <2>2. NumberOf(Tomorrow(date)) = DaysOfYear(date.y + 1, 0) + 1 - 1
      BY <1>1, <2>1, NumberInMonth DEF NumberOf
  <2>3. DaysIn(date.y + 1, 0) \in 28 .. 31
      BY <1>1, MonthsAreLong
  <2>4. DaysOfYear(date.y + 1, 0) = DaysOfYear(date.y, date.mo) + DaysIn(date.y, date.mo)
      BY <1>1, <1>6, MonthsFollowEachOther
  <2> QED
      BY <1>1, <1>2, <1>3, <1>6, <2>1, <2>2, <2>3, <2>4 DEF IsDay
<1> QED
    BY <1>1, <1>3, <1>4, <1>5, <1>6

\* A term that is counted from a day later ends no earlier: in the same month the days keep
\* their order, and every day of a month comes before every day of the next.
LEMMA TermsKeepOrder ==
    ASSUME NEW date, IsDay(date), NEW months \in Nat
    PROVE  NumberOf(AddUtcMonths(date, months)) <= NumberOf(AddUtcMonths(Tomorrow(date), months))
<1> DEFINE next == Tomorrow(date)
<1>1. PICK y, mo : y = YearOf(date, months) /\ mo = MonthOf(date, months)
    OBVIOUS
<1>2. PICK ny, nmo : ny = YearOf(next, months) /\ nmo = MonthOf(next, months)
    OBVIOUS
<1>3. date.y \in Nat \ {0} /\ date.mo \in 0 .. 11 /\ date.d \in Nat \ {0} /\ date.d <= DaysIn(date.y, date.mo)
    BY DEF IsDay
<1>4. IsDay(next) /\ next.d \in Nat \ {0}
    BY TomorrowFollows DEF IsDay
<1>5. /\ y \in Nat \ {0} /\ mo \in 0 .. 11
      /\ NumberOf(AddUtcMonths(date, months)) = DaysOfYear(y, mo) + Shorter(date.d, DaysIn(y, mo)) - 1
    BY <1>1, TermLandsInMonth
<1>6. /\ ny \in Nat \ {0} /\ nmo \in 0 .. 11
      /\ NumberOf(AddUtcMonths(next, months)) = DaysOfYear(ny, nmo) + Shorter(next.d, DaysIn(ny, nmo)) - 1
    BY <1>2, <1>4, TermLandsInMonth
<1>7. /\ DaysOfYear(y, mo) \in Int /\ DaysIn(y, mo) \in 28 .. 31 /\ DaysIn(date.y, date.mo) \in 28 .. 31
      /\ DaysOfYear(ny, nmo) \in Int /\ DaysIn(ny, nmo) \in 28 .. 31
    BY <1>3, <1>5, <1>6, MonthsHaveNumbers
<1>8. /\ 12 * y + mo = 12 * date.y + date.mo + months
      /\ 12 * ny + nmo = 12 * next.y + next.mo + months
    BY <1>1, <1>2, <1>4, MonthsCarryOver
<1>9. CASE date.d < DaysIn(date.y, date.mo)
  <2>1. next.y = date.y /\ next.mo = date.mo /\ next.d = date.d + 1
      BY <1>3, <1>9 DEF Tomorrow, IsDay
  <2>2. y = ny /\ mo = nmo
    <3>1. 12 * y + mo = 12 * ny + nmo
        BY <1>8, <2>1
    <3> QED
        BY <1>5, <1>6, <3>1, OneYearOneMonth
  <2>3. PICK m \in Nat \ {0} : m = date.d /\ next.d = m + 1
      BY <1>3, <2>1
  <2>4. PICK s \in Nat, t \in Nat : s = Shorter(m, DaysIn(y, mo)) /\ t = Shorter(m + 1, DaysIn(y, mo)) /\ s <= t
    <3>1. PICK n \in 28 .. 31 : n = DaysIn(y, mo)
        BY <1>7
    <3>2. Shorter(m, n) \in Nat /\ Shorter(m + 1, n) \in Nat /\ Shorter(m, n) <= Shorter(m + 1, n)
        BY ShorterIsMonotone
    <3> QED
        BY <3>1, <3>2
  <2>5. NumberOf(AddUtcMonths(date, months)) = DaysOfYear(y, mo) + s - 1
      BY <1>5, <2>3, <2>4
  <2> HIDE DEF next
  <2>6. NumberOf(AddUtcMonths(next, months)) = DaysOfYear(y, mo) + t - 1
      BY <1>6, <2>2, <2>3, <2>4
  <2>7. NumberOf(AddUtcMonths(date, months)) <= NumberOf(AddUtcMonths(next, months))
      BY <1>7, <2>4, <2>5, <2>6
  <2> QED
      BY <2>7 DEF next
<1>10. CASE date.d = DaysIn(date.y, date.mo)
  <2>1. \/ next.y = date.y /\ next.mo = date.mo + 1
        \/ date.mo = 11 /\ next.y = date.y + 1 /\ next.mo = 0
    <3>1. CASE date.mo < 11
      <4>1. next = [date EXCEPT !.mo = @ + 1, !.d = 1]
          BY <1>3, <1>7, <1>10, <3>1 DEF Tomorrow
      <4> QED
          BY <1>3, <4>1 DEF IsDay
    <3>2. CASE date.mo = 11
        BY <1>3, <1>7, <1>10, <3>2 DEF Tomorrow
    <3> QED
        BY <1>3, <3>1, <3>2
  <2> HIDE DEF next
  <2>2. 12 * ny + nmo = 12 * y + mo + 1
      BY <1>3, <1>8, <2>1
  <2>3. DaysOfYear(ny, nmo) = DaysOfYear(y, mo) + DaysIn(y, mo)
    <3>1. CASE mo < 11
      <4>1. ny = y /\ nmo = mo + 1
          BY <1>5, <1>6, <2>2, <3>1
      <4> QED
          BY <1>5, <3>1, <4>1, MonthsFollowEachOther
    <3>2. CASE mo = 11
      <4>1. ny = y + 1 /\ nmo = 0
          BY <1>5, <1>6, <2>2, <3>2
      <4> QED
          BY <1>5, <3>2, <4>1, MonthsFollowEachOther
    <3> QED
        BY <1>5, <3>1, <3>2
  <2>4. PICK m \in Nat \ {0}, n \in Nat \ {0} : m = date.d /\ n = next.d
      BY <1>3, <1>4
  <2>5. PICK s \in Nat \ {0} : s = Shorter(m, DaysIn(y, mo)) /\ s <= DaysIn(y, mo)
      BY <1>7, ShorterKeepsOrder
  <2>6. PICK t \in Nat \ {0} : t = Shorter(n, DaysIn(ny, nmo))
      BY <1>7, ShorterKeepsOrder
  <2>7. NumberOf(AddUtcMonths(date, months)) = DaysOfYear(y, mo) + s - 1
      BY <1>5, <2>4, <2>5
  <2>8. NumberOf(AddUtcMonths(next, months)) = DaysOfYear(y, mo) + DaysIn(y, mo) + t - 1
      BY <1>6, <2>3, <2>4, <2>6
  <2>9. NumberOf(AddUtcMonths(date, months)) <= NumberOf(AddUtcMonths(next, months))
      BY <1>7, <2>5, <2>7, <2>8
  <2> QED
      BY <2>9 DEF next
<1> QED
    BY <1>3, <1>7, <1>9, <1>10

\* Two terms one after the other land in the month that both together land in, and the first of
\* them may have lost days.
LEMMA TermsSplit ==
    ASSUME NEW date, IsDay(date), NEW j \in Nat, NEW k \in Nat
    PROVE  NumberOf(AddUtcMonths(AddUtcMonths(date, j), k)) <= NumberOf(AddUtcMonths(date, j + k))
<1> DEFINE mid == AddUtcMonths(date, j)
<1>1. PICK y, mo : y = YearOf(date, j + k) /\ mo = MonthOf(date, j + k)
    OBVIOUS
<1>2. PICK my, mmo : my = YearOf(date, j) /\ mmo = MonthOf(date, j)
    OBVIOUS
<1>3. date.y \in Nat \ {0} /\ date.mo \in 0 .. 11 /\ date.d \in Nat \ {0}
    BY DEF IsDay
<1>4. /\ my \in Nat \ {0} /\ mmo \in 0 .. 11 /\ IsDay(mid) /\ mid.y = my /\ mid.mo = mmo
      /\ mid.d \in Nat \ {0} /\ mid.d <= date.d
  <2>1. /\ my \in Nat \ {0} /\ mmo \in 0 .. 11 /\ IsDay(mid)
        /\ mid.y = my /\ mid.mo = mmo /\ mid.d = Shorter(date.d, DaysIn(my, mmo))
    <3>1. my \in Nat \ {0} /\ mmo \in 0 .. 11
        BY <1>2, MonthsCarryOver
    <3>2. IsDay(AddUtcMonths(date, j))
        BY TermLandsInMonth
    <3>3. AddUtcMonths(date, j).y = YearOf(date, j)
        BY TermLandsInMonth
    <3>4. AddUtcMonths(date, j).mo = MonthOf(date, j)
        BY TermLandsInMonth
    <3>5. AddUtcMonths(date, j).d = Shorter(date.d, DaysIn(YearOf(date, j), MonthOf(date, j)))
        BY TermLandsInMonth
    <3> QED
        BY <1>2, <3>1, <3>2, <3>3, <3>4, <3>5
  <2>2. DaysIn(my, mmo) \in 28 .. 31
      BY <2>1, MonthsHaveNumbers
  <2>3. Shorter(date.d, DaysIn(my, mmo)) \in Nat \ {0} /\ Shorter(date.d, DaysIn(my, mmo)) <= date.d
      BY <1>3, <2>2, ShorterKeepsOrder
  <2> QED
      BY <2>1, <2>3
<1>5. j + k \in Nat
    OBVIOUS
<1>6. /\ y \in Nat \ {0} /\ mo \in 0 .. 11
      /\ NumberOf(AddUtcMonths(date, j + k)) = DaysOfYear(y, mo) + Shorter(date.d, DaysIn(y, mo)) - 1
    BY <1>1, <1>5, TermLandsInMonth
<1> HIDE DEF mid
<1>7. YearOf(mid, k) = y /\ MonthOf(mid, k) = mo
  <2>1. PICK ey, emo : ey = YearOf(mid, k) /\ emo = MonthOf(mid, k)
      OBVIOUS
  <2>2. ey \in Nat \ {0} /\ emo \in 0 .. 11 /\ 12 * ey + emo = 12 * mid.y + mid.mo + k
      BY <1>4, <2>1, MonthsCarryOver
  <2>3. 12 * my + mmo = 12 * date.y + date.mo + j
      BY <1>2, MonthsCarryOver
  <2>4. 12 * y + mo = 12 * date.y + date.mo + (j + k)
      BY <1>1, <1>5, MonthsCarryOver
  <2>5. 12 * ey + emo = 12 * y + mo
    <3>1. 12 * ey + emo = 12 * my + mmo + k
        BY <1>4, <2>2
    <3>2. PICK m \in Nat : m = 12 * date.y + date.mo
        BY <1>3
    <3>3. 12 * my + mmo = m + j /\ 12 * y + mo = m + (j + k)
        BY <2>3, <2>4, <3>2
    <3> QED
        BY <3>1, <3>3
  <2> QED
      BY <1>6, <2>1, <2>2, <2>5, OneYearOneMonth
<1>8. NumberOf(AddUtcMonths(mid, k)) = DaysOfYear(y, mo) + Shorter(mid.d, DaysIn(y, mo)) - 1
    BY <1>4, <1>7, TermLandsInMonth
<1>9. DaysOfYear(y, mo) \in Int /\ DaysIn(y, mo) \in 28 .. 31
    BY <1>6, MonthsHaveNumbers
<1>10. NumberOf(AddUtcMonths(mid, k)) <= NumberOf(AddUtcMonths(date, j + k))
  <2>1. PICK m \in Nat \ {0}, n \in Nat \ {0} : m = date.d /\ n = mid.d /\ n <= m
      BY <1>3, <1>4
  <2>2. /\ Shorter(n, DaysIn(y, mo)) \in Int /\ Shorter(m, DaysIn(y, mo)) \in Int
        /\ Shorter(n, DaysIn(y, mo)) <= Shorter(m, DaysIn(y, mo))
    <3>1. PICK last \in 28 .. 31 : last = DaysIn(y, mo)
        BY <1>9
    <3>2. Shorter(n, last) \in Nat /\ Shorter(m, last) \in Nat /\ Shorter(n, last) <= Shorter(m, last)
        BY <2>1, ShorterIsMonotone
    <3> QED
        BY <3>1, <3>2
  <2> QED
      BY <1>6, <1>8, <1>9, <2>1, <2>2
<1> QED
    BY <1>10 DEF mid

\* A period that runs over the end of a month ends at most three days after the term that stops there.
LEMMA PeriodsAgree ==
    ASSUME NEW date, IsDay(date), NEW k \in Nat
    PROVE  DayNumber(date.y, date.mo + k, date.d) - NumberOf(AddUtcMonths(date, k)) \in 0 .. 3
<1>1. PICK y, mo : y = YearOf(date, k) /\ mo = MonthOf(date, k)
    OBVIOUS
<1>2. date.d \in Nat \ {0} /\ date.d <= 31
  <2>1. date.y \in Nat \ {0} /\ date.mo \in 0 .. 11 /\ date.d \in Nat \ {0} /\ date.d <= DaysIn(date.y, date.mo)
      BY DEF IsDay
  <2>2. DaysIn(date.y, date.mo) \in 28 .. 31
      BY <2>1, MonthsAreLong
  <2> QED
      BY <2>1, <2>2
<1>3. /\ y \in Nat \ {0} /\ mo \in 0 .. 11
      /\ NumberOf(AddUtcMonths(date, k)) = DaysOfYear(y, mo) + Shorter(date.d, DaysIn(y, mo)) - 1
    BY <1>1, TermLandsInMonth
<1>4. DayNumber(date.y, date.mo + k, date.d) = DaysOfYear(y, mo) + date.d - 1
    BY <1>1, NumberCarriesOver
<1>5. DaysOfYear(y, mo) \in Int /\ DaysIn(y, mo) \in 28 .. 31
    BY <1>3, MonthsHaveNumbers
<1>6. date.d - Shorter(date.d, DaysIn(y, mo)) \in 0 .. 3 /\ Shorter(date.d, DaysIn(y, mo)) \in Int
    BY <1>2, <1>5, ShorterKeepsOrder
<1> QED
    BY <1>2, <1>3, <1>4, <1>5, <1>6

\* What follows from a day being one of the calendar.
LEMMA TermsOfADay == CalendarTypeOK => TermsHold
<1> USE CalendarAssumption
<1> SUFFICES ASSUME CalendarTypeOK, activatedOn # NotActivated
             PROVE  DaysFollowEachOther /\ LaterEndsNoEarlier /\ SplittingGainsNothing /\ EnginesAgree
    BY DEF TermsHold
<1>1. IsDay(activatedOn)
    BY DEF CalendarTypeOK, Days, IsDay
<1>2. DaysFollowEachOther
    BY <1>1, TomorrowFollows DEF DaysFollowEachOther
<1>3. LaterEndsNoEarlier
  <2> SUFFICES ASSUME NEW p \in Policies
               PROVE  CalculateExpirationDate(activatedOn, p) <= CalculateExpirationDate(Tomorrow(activatedOn), p)
      BY DEF LaterEndsNoEarlier
  <2>1. p.isLifetime \in BOOLEAN /\ p.days \in {0, 30} /\ p.months \in Nat
      BY DEF Policies
  <2>2. /\ NumberOf(activatedOn) \in Int /\ NumberOf(Tomorrow(activatedOn)) = NumberOf(activatedOn) + 1
        /\ NumberOf(AddUtcMonths(activatedOn, p.months)) <= NumberOf(AddUtcMonths(Tomorrow(activatedOn), p.months))
      BY <1>1, <2>1, TomorrowFollows, TermsKeepOrder
  <2> QED
      BY <2>1, <2>2 DEF CalculateExpirationDate, Never
<1>4. SplittingGainsNothing
    BY <1>1, TermsSplit DEF SplittingGainsNothing, Months
<1>5. EnginesAgree
  <2>1. /\ CalculateNextPeriodEnd(activatedOn, "MONTHLY") = DayNumber(activatedOn.y, activatedOn.mo + 1, activatedOn.d)
        /\ CalculateNextPeriodEnd(activatedOn, "QUARTERLY") = DayNumber(activatedOn.y, activatedOn.mo + 3, activatedOn.d)
        /\ CalculateNextPeriodEnd(activatedOn, "YEARLY") = DayNumber(activatedOn.y + 1, activatedOn.mo, activatedOn.d)
      BY DEF CalculateNextPeriodEnd
  <2>2. DayNumber(activatedOn.y + 1, activatedOn.mo, activatedOn.d) = DayNumber(activatedOn.y, activatedOn.mo + 12, activatedOn.d)
    <3>1. activatedOn.y \in Nat \ {0} /\ activatedOn.mo \in 0 .. 11 /\ activatedOn.d \in Int
        BY <1>1 DEF IsDay
    <3>2. PICK y, mo : y = YearOf(activatedOn, 12) /\ mo = MonthOf(activatedOn, 12)
        OBVIOUS
    <3>3. y \in Nat \ {0} /\ mo \in 0 .. 11 /\ 12 * y + mo = 12 * activatedOn.y + activatedOn.mo + 12
        BY <1>1, <3>2, MonthsCarryOver
    <3>4. y = activatedOn.y + 1 /\ mo = activatedOn.mo
      <4>1. 12 * y + mo = 12 * (activatedOn.y + 1) + activatedOn.mo /\ activatedOn.y + 1 \in Nat
          BY <3>1, <3>3
      <4>2. PICK y1 \in Nat, y2 \in Nat, m1 \in 0 .. 11, m2 \in 0 .. 11 :
                y1 = y /\ m1 = mo /\ y2 = activatedOn.y + 1 /\ m2 = activatedOn.mo
          BY <3>1, <3>3, <4>1
      <4>3. 12 * y1 + m1 = 12 * y2 + m2
          BY <4>1, <4>2
      <4> QED
          BY <4>2, <4>3, OneYearOneMonth
    <3>5. DayNumber(activatedOn.y, activatedOn.mo + 12, activatedOn.d) = DaysOfYear(y, mo) + activatedOn.d - 1
        BY <1>1, <3>2, NumberCarriesOver
    <3>6. DayNumber(y, mo, activatedOn.d) = DaysOfYear(y, mo) + activatedOn.d - 1
        BY <3>1, <3>3, NumberInMonth
    <3> QED
        BY <3>4, <3>5, <3>6
  <2>3. \A k \in Nat : DayNumber(activatedOn.y, activatedOn.mo + k, activatedOn.d)
                       - NumberOf(AddUtcMonths(activatedOn, k)) \in 0 .. 3
      BY <1>1, PeriodsAgree
  <2> QED
      BY <2>1, <2>2, <2>3 DEF EnginesAgree
<1> QED
    BY <1>2, <1>3, <1>4, <1>5

\* On every day of every year and for terms of any length: who is issued an entitlement a day
\* later keeps it at least as long, terms that are split gain nothing, and a period of a
\* membership is the term of as many months, or up to three days longer.
THEOREM TermsAlwaysHold == CalendarSpec => []TermsHold
<1> USE CalendarAssumption
<1>1. CalendarInit => CalendarTypeOK
    BY DEF CalendarInit, CalendarTypeOK
<1>2. CalendarTypeOK /\ [Activate]_activatedOn => CalendarTypeOK'
    BY DEF CalendarTypeOK, Activate
<1> QED
    BY <1>1, <1>2, TermsOfADay, PTL DEF CalendarSpec

-----------------------------------------------------------------------------
(***************************************************************************)
(* Releases                                                                *)
(***************************************************************************)
InSnapshot(p) == {o \in Uploads : publish[p].snapshot[o] # "none"}

\* An object that is registered is cleaned up only by an upload that lost the answer.
UploadsInv ==
    \A o \in Registered : /\ upload[o].pc \in {"failed", "done"}
                          /\ upload[o].pc = "failed" => o \in lost

\* What a publication has read and checked: files that are still registered, that may be
\* published, and of which those it has checked are in storage, or were lost since.
SnapshotsInv ==
    \A p \in Publishers : publish[p] # NotPublishing =>
      /\ InSnapshot(p) # {} /\ InSnapshot(p) \subseteq Registered
      /\ licensed => Cardinality({o \in Uploads : publish[p].snapshot[o] = "primary"}) = 1
      /\ InSnapshot(p) \ publish[p].left \subseteq stored \cup lost
      /\ publish[p].pc = "verified" => publish[p].left = {}

ReleasesInv == ReleasesTypeOK /\ UploadsInv /\ SnapshotsInv /\ PublishedVersionIsWhole

PublishRows == [pc : {"check", "verified"}, left : SUBSET Uploads,
                snapshot : [Uploads -> {"none", "primary", "extra"}]]
UploadRows == [pc : {"start", "stored", "failed", "done"}, place : {"none", "primary", "extra"}]

LEMMA ReleasesInitially == ReleasesInit => ReleasesInv
BY DEF ReleasesInit, ReleasesInv, ReleasesTypeOK, UploadsInv, SnapshotsInv, PublishedVersionIsWhole,
       NotStarted, Registered

\* An upload moves on without a registration: an object that is registered and not lost stays.
LEMMA UploadMoves ==
    ASSUME ReleasesInv, NEW u \in Uploads, NEW row \in UploadRows,
           upload' = [upload EXCEPT ![u] = row],
           stored' \subseteq Uploads,
           UNCHANGED <<licensed, version, files, publish, vouched, lost>>,
           upload[u].pc \in {"start", "stored"} \/ (upload[u].pc = "failed" /\ row.pc = "done"),
           stored \subseteq stored' \/ (upload[u].pc = "failed" /\ stored \subseteq stored' \cup {u})
    PROVE  ReleasesInv'
<1>1. ReleasesTypeOK /\ UploadsInv /\ SnapshotsInv /\ PublishedVersionIsWhole
    BY DEF ReleasesInv
<1>2. ReleasesTypeOK'
    BY <1>1 DEF ReleasesTypeOK, UploadRows
<1>3. Registered' = Registered /\ Primary' = Primary /\ \A p \in Publishers : InSnapshot(p)' = InSnapshot(p)
    BY DEF Registered, Primary, InSnapshot
<1>4. Registered \subseteq Uploads /\ (u \in Registered => upload[u].pc = "failed" /\ row.pc = "done" /\ u \in lost)
    BY <1>1 DEF UploadsInv, Registered
<1>5. \A o \in Registered : o \in stored \cup lost => o \in stored' \cup lost'
    BY <1>1, <1>4 DEF UploadsInv
<1>6. UploadsInv'
    BY <1>1, <1>3, <1>4 DEF UploadsInv, ReleasesTypeOK
<1>7. SnapshotsInv'
    BY <1>1, <1>3, <1>5 DEF SnapshotsInv
<1>8. PublishedVersionIsWhole'
    BY <1>1, <1>3, <1>5 DEF PublishedVersionIsWhole
<1> QED
    BY <1>2, <1>6, <1>7, <1>8 DEF ReleasesInv

\* A registration gives the version a file more, which it may only while it is not published.
LEMMA RegisterStep ==
    ASSUME ReleasesInv, NEW u \in Uploads, NEW next \in {"done", "failed"}, Register(u, next),
           lost' = lost \cup {u} \/ (lost' = lost /\ next = "done"),
           UNCHANGED <<licensed, version, stored, publish, vouched>>
    PROVE  ReleasesInv'
<1>1. ReleasesTypeOK /\ UploadsInv /\ SnapshotsInv /\ PublishedVersionIsWhole
    BY DEF ReleasesInv
<1> DEFINE row == [upload[u] EXCEPT !.pc = next]
<1>2. /\ upload[u] \in UploadRows /\ row \in UploadRows /\ row.pc = next
      /\ upload' = [upload EXCEPT ![u] = row] /\ files' = [files EXCEPT ![u] = upload[u].place]
      /\ version # "PUBLISHED"
    BY <1>1 DEF Register, At, Registrable, ReleasesTypeOK, UploadRows
<1> HIDE DEF row
<1>3. ReleasesTypeOK'
    BY <1>1, <1>2 DEF ReleasesTypeOK, UploadRows
<1>4. u \notin Registered
    BY <1>1 DEF UploadsInv, Register
<1>5. Registered \subseteq Registered' /\ Registered' \subseteq Registered \cup {u}
    BY <1>1, <1>2, <1>4 DEF Registered, ReleasesTypeOK
<1>6. UploadsInv'
    BY <1>1, <1>2, <1>5 DEF UploadsInv, ReleasesTypeOK, Registered
<1>7. SnapshotsInv'
  <2>1. \A p \in Publishers : InSnapshot(p)' = InSnapshot(p)
      BY DEF InSnapshot
  <2> QED
      BY <1>1, <1>5, <2>1 DEF SnapshotsInv
<1>8. PublishedVersionIsWhole'
    BY <1>2 DEF PublishedVersionIsWhole
<1> QED
    BY <1>3, <1>6, <1>7, <1>8 DEF ReleasesInv

\* A publication reads, checks one file, gives up or publishes.
LEMMA PublisherSteps ==
    ASSUME ReleasesInv, NEW p \in Publishers, ReadFiles(p) \/ VerifyFileIntegrity(p) \/ PublishVersion(p)
    PROVE  ReleasesInv'
<1>1. ReleasesTypeOK /\ UploadsInv /\ SnapshotsInv /\ PublishedVersionIsWhole
    BY DEF ReleasesInv
<1>2. UNCHANGED <<licensed, files, stored, upload, lost>>
    BY DEF ReadFiles, VerifyFileIntegrity, PublishVersion
<1>3. Registered' = Registered /\ Primary' = Primary /\ UploadsInv'
    BY <1>1, <1>2 DEF Registered, Primary, UploadsInv
\* What has to be said of the publication that moved.
<1>4. ASSUME NEW row \in PublishRows \cup {NotPublishing}, publish' = [publish EXCEPT ![p] = row],
             row # NotPublishing => LET snapshot == row.snapshot
                                        in == {o \in Uploads : snapshot[o] # "none"}
                                    IN  /\ in # {} /\ in \subseteq Registered
                                        /\ licensed => Cardinality({o \in Uploads : snapshot[o] = "primary"}) = 1
                                        /\ in \ row.left \subseteq stored \cup lost
                                        /\ row.pc = "verified" => row.left = {}
      PROVE  SnapshotsInv' /\ publish' \in [Publishers -> {NotPublishing} \cup PublishRows]
  <2>1. publish' \in [Publishers -> {NotPublishing} \cup PublishRows]
      BY <1>1, <1>4 DEF ReleasesTypeOK, PublishRows
  <2>2. \A q \in Publishers : publish'[q] = IF q = p THEN row ELSE publish[q]
      BY <1>1, <1>4 DEF ReleasesTypeOK
  <2> SUFFICES ASSUME NEW q \in Publishers, publish'[q] # NotPublishing
               PROVE  /\ InSnapshot(q)' # {} /\ InSnapshot(q)' \subseteq Registered'
                      /\ licensed' => Cardinality({o \in Uploads : publish'[q].snapshot[o] = "primary"}) = 1
                      /\ InSnapshot(q)' \ publish'[q].left \subseteq stored' \cup lost'
                      /\ publish'[q].pc = "verified" => publish'[q].left = {}
      BY <2>1 DEF SnapshotsInv
  <2>3. CASE q = p
      BY <1>2, <1>3, <1>4, <2>2, <2>3 DEF InSnapshot
  <2>4. CASE q # p
      BY <1>1, <1>2, <1>3, <2>2, <2>4 DEF InSnapshot, SnapshotsInv
  <2> QED
      BY <2>3, <2>4
<1>5. CASE ReadFiles(p)
  <2> DEFINE row == [pc |-> "check", snapshot |-> files, left |-> Registered]
  <2>1. row \in PublishRows /\ row.pc = "check" /\ row.snapshot = files /\ row.left = Registered
      BY <1>1 DEF PublishRows, ReleasesTypeOK, Registered
  <2>2. publish' = [publish EXCEPT ![p] = row] /\ Registered # {} /\ (licensed => Cardinality(Primary) = 1)
        /\ UNCHANGED <<version, vouched>>
      BY <1>5 DEF ReadFiles
  <2>3. Registered = {o \in Uploads : files[o] # "none"} /\ Primary = {o \in Uploads : files[o] = "primary"}
      BY DEF Registered, Primary
  <2> HIDE DEF row
  <2>4. SnapshotsInv' /\ publish' \in [Publishers -> {NotPublishing} \cup PublishRows]
      BY <1>4, <2>1, <2>2, <2>3
  <2>5. ReleasesTypeOK'
      BY <1>1, <1>2, <2>2, <2>4 DEF ReleasesTypeOK, PublishRows
  <2>6. PublishedVersionIsWhole'
      BY <1>1, <1>2, <1>3, <2>2 DEF PublishedVersionIsWhole
  <2> QED
      BY <1>3, <2>4, <2>5, <2>6 DEF ReleasesInv
<1>6. CASE VerifyFileIntegrity(p)
  <2>1. publish[p].pc = "check" /\ UNCHANGED <<version, vouched>>
      BY <1>6 DEF VerifyFileIntegrity
  <2>2. publish[p] \in PublishRows /\ publish[p] # NotPublishing
      BY <1>1, <2>1 DEF ReleasesTypeOK, NotPublishing, PublishRows
  <2>3. SnapshotsInv' /\ publish' \in [Publishers -> {NotPublishing} \cup PublishRows]
    <3>1. PICK o \in publish[p].left :
             IF o \in stored
             THEN publish' = [publish EXCEPT ![p].left = @ \ {o},
                                             ![p].pc = IF publish[p].left = {o} THEN "verified" ELSE "check"]
             ELSE StopPublishing(p)
        BY <1>6 DEF VerifyFileIntegrity
    <3>2. CASE o \in stored
      <4> DEFINE row == [publish[p] EXCEPT !.left = @ \ {o}, !.pc = IF publish[p].left = {o} THEN "verified" ELSE "check"]
      <4>1. /\ row \in PublishRows /\ row.left = publish[p].left \ {o} /\ row.snapshot = publish[p].snapshot
            /\ row.pc = "verified" => publish[p].left = {o}
          BY <2>2 DEF PublishRows
      <4>2. publish' = [publish EXCEPT ![p] = row]
          BY <1>1, <3>1, <3>2 DEF ReleasesTypeOK
      <4> HIDE DEF row
      <4>3. LET in == {i \in Uploads : row.snapshot[i] # "none"}
            IN  /\ in # {} /\ in \subseteq Registered
                /\ licensed => Cardinality({i \in Uploads : row.snapshot[i] = "primary"}) = 1
                /\ in \ row.left \subseteq stored \cup lost
                /\ row.pc = "verified" => row.left = {}
          BY <1>1, <2>2, <3>2, <4>1 DEF SnapshotsInv, InSnapshot
      <4> QED
          BY <1>4, <4>1, <4>2, <4>3
    <3>3. CASE o \notin stored
        BY <1>4, <3>1, <3>3 DEF StopPublishing
    <3> QED
        BY <3>2, <3>3
  <2>5. ReleasesTypeOK'
      BY <1>1, <1>2, <2>1, <2>3 DEF ReleasesTypeOK, PublishRows
  <2>6. PublishedVersionIsWhole'
      BY <1>1, <1>2, <1>3, <2>1 DEF PublishedVersionIsWhole
  <2> QED
      BY <1>3, <2>3, <2>5, <2>6 DEF ReleasesInv
<1>7. CASE PublishVersion(p)
  <2>1. publish[p].pc = "verified" /\ publish' = [publish EXCEPT ![p] = NotPublishing]
      BY <1>7 DEF PublishVersion, StopPublishing
  <2>2. publish[p] \in PublishRows /\ publish[p] # NotPublishing
      BY <1>1, <2>1 DEF ReleasesTypeOK, NotPublishing, PublishRows
  <2>3. SnapshotsInv' /\ publish' \in [Publishers -> {NotPublishing} \cup PublishRows]
      BY <1>4, <2>1
  <2>4. CASE version # "PUBLISHED" /\ files = publish[p].snapshot
    <3>1. version' = "PUBLISHED" /\ vouched' = Registered
        BY <1>7, <2>4 DEF PublishVersion, Registered
    <3>2. InSnapshot(p) = Registered /\ {o \in Uploads : publish[p].snapshot[o] = "primary"} = Primary
        BY <2>4 DEF InSnapshot, Registered, Primary
    <3>3. Registered # {} /\ Registered \subseteq stored \cup lost /\ (licensed => Cardinality(Primary) = 1)
        BY <1>1, <2>1, <2>2, <3>2 DEF SnapshotsInv
    <3>4. ReleasesTypeOK'
        BY <1>1, <1>2, <2>3, <3>1 DEF ReleasesTypeOK, PublishRows, Registered
    <3>5. PublishedVersionIsWhole'
        BY <1>2, <1>3, <3>1, <3>3 DEF PublishedVersionIsWhole
    <3> QED
        BY <1>3, <2>3, <3>4, <3>5 DEF ReleasesInv
  <2>5. CASE ~(version # "PUBLISHED" /\ files = publish[p].snapshot)
    <3>1. UNCHANGED <<version, vouched>>
        BY <1>7, <2>5 DEF PublishVersion
    <3>4. ReleasesTypeOK'
        BY <1>1, <1>2, <2>3, <3>1 DEF ReleasesTypeOK, PublishRows
    <3>5. PublishedVersionIsWhole'
        BY <1>1, <1>2, <1>3, <3>1 DEF PublishedVersionIsWhole
    <3> QED
        BY <1>3, <2>3, <3>4, <3>5 DEF ReleasesInv
  <2> QED
      BY <2>4, <2>5
<1> QED
    BY <1>5, <1>6, <1>7

LEMMA ReleasesSteps == ReleasesInv /\ [ReleasesNext]_releaseVars => ReleasesInv'
<1> SUFFICES ASSUME ReleasesInv, [ReleasesNext]_releaseVars PROVE ReleasesInv'
    OBVIOUS
<1>1. ReleasesTypeOK
    BY DEF ReleasesInv
<1>2. ASSUME NEW u \in Uploads, NEW place \in {"primary", "extra"}, PutObject(u, place) PROVE ReleasesInv'
  <2>1. [pc |-> "stored", place |-> place] \in UploadRows /\ upload[u].pc = "start"
      BY <1>2 DEF UploadRows, PutObject, NotStarted
  <2>2. stored' \subseteq Uploads
      BY <1>1, <1>2 DEF ReleasesTypeOK, PutObject
  <2> QED
      BY <1>2, <2>1, <2>2, UploadMoves DEF PutObject
<1>3. ASSUME NEW u \in Uploads, RegisterVerifiedUploadedFile(u) \/ RegistrationAnswerLost(u) PROVE ReleasesInv'
    BY <1>3, RegisterStep DEF RegisterVerifiedUploadedFile, RegistrationAnswerLost
<1>4. ASSUME NEW u \in Uploads, RegistrationFails(u) \/ \E done \in BOOLEAN : DeleteObject(u, done) PROVE ReleasesInv'
  <2>1. PICK pc \in {"failed", "done"} : At(u, pc) /\ (upload[u].pc = "stored" \/ (upload[u].pc = "failed" /\ pc = "done"))
      BY <1>4 DEF RegistrationFails, DeleteObject
  <2> DEFINE row == [upload[u] EXCEPT !.pc = pc]
  <2>2. row \in UploadRows /\ row.pc = pc /\ upload' = [upload EXCEPT ![u] = row]
      BY <1>1, <2>1 DEF UploadRows, ReleasesTypeOK, At
  <2> HIDE DEF row
  <2>3. /\ stored' \subseteq Uploads /\ UNCHANGED <<licensed, version, files, publish, vouched, lost>>
        /\ stored \subseteq stored' \/ (upload[u].pc = "failed" /\ stored \subseteq stored' \cup {u})
      BY <1>1, <1>4 DEF RegistrationFails, DeleteObject, ReleasesTypeOK
  <2> QED
      BY <2>1, <2>2, <2>3, UploadMoves
<1>5. CASE UNCHANGED releaseVars
  <2>1. /\ Registered' = Registered /\ Primary' = Primary /\ \A p \in Publishers : InSnapshot(p)' = InSnapshot(p)
        /\ UNCHANGED <<licensed, version, files, stored, upload, publish, vouched, lost>>
      BY <1>5 DEF releaseVars, Registered, Primary, InSnapshot
  <2>2. ReleasesTypeOK' /\ UploadsInv' /\ PublishedVersionIsWhole'
      BY <2>1 DEF ReleasesInv, ReleasesTypeOK, UploadsInv, PublishedVersionIsWhole
  <2>3. SnapshotsInv'
      BY <2>1 DEF ReleasesInv, SnapshotsInv
  <2> QED
      BY <2>2, <2>3 DEF ReleasesInv
<1> QED
    BY <1>2, <1>3, <1>4, <1>5, PublisherSteps DEF ReleasesNext

-----------------------------------------------------------------------------
(***************************************************************************)
(* The limit                                                               *)
(***************************************************************************)

\* Requests were let through in the order of time, and the sorted set holds every one that
\* is younger than the window, also after the key expired.
WindowInv ==
    /\ \A i \in 1 .. Len(admitted) : admitted[i] <= tick
    /\ \A i, j \in 1 .. Len(admitted) : i <= j => admitted[i] <= admitted[j]
    /\ \A i \in 1 .. Len(admitted) : admitted[i] > tick - Window => i \in members

LimitInv == LimitTypeOK /\ WindowInv /\ NoWindowIsOverrun

\* The requests of a stretch of time as long as the window.
Within(from) == {i \in 1 .. Len(admitted) : admitted[i] \in from .. (from + Window - 1)}

LEMMA LimitInitially == LimitInit => LimitInv
<1> USE DownloadLimitAssumption
<1> SUFFICES ASSUME LimitInit PROVE LimitInv
    OBVIOUS
<1>1. LimitTypeOK /\ WindowInv
    BY DEF LimitInit, LimitTypeOK, WindowInv
<1>2. \A from \in 0 .. LastTick : {i \in 1 .. Len(admitted) : admitted[i] \in from .. (from + Window - 1)} = {}
    BY DEF LimitInit
<1>3. NoWindowIsOverrun
  <2>1. Cardinality({}) = 0
      BY FS_EmptySet
  <2>2. 0 <= MaxDownloads
      OBVIOUS
  <2> QED
      BY <1>2, <2>1, <2>2 DEF NoWindowIsOverrun
<1> QED
    BY <1>1, <1>3 DEF LimitInv

\* A step that lets no request through.
LEMMA NobodyAdmitted ==
    ASSUME LimitInv, UNCHANGED admitted, tick' \in {tick, tick + 1}, tick' \in 0 .. LastTick,
           members' \subseteq members,
           \A i \in members : admitted[i] > tick - Window => i \in members'
    PROVE  LimitInv'
<1> USE DownloadLimitAssumption
<1>1. LimitTypeOK'
    BY DEF LimitInv, LimitTypeOK
<1>2. WindowInv'
  <2>1. \A i \in 1 .. Len(admitted) : admitted[i] \in Int
      BY DEF LimitInv, LimitTypeOK
  <2>2. \A i \in 1 .. Len(admitted) : admitted[i] <= tick' /\ (admitted[i] > tick' - Window => admitted[i] > tick - Window)
    <3>1. tick \in Int /\ tick <= tick'
        BY DEF LimitInv, LimitTypeOK
    <3>2. \A i \in 1 .. Len(admitted) : admitted[i] <= tick
        BY DEF LimitInv, WindowInv
    <3> QED
        BY <2>1, <3>1, <3>2
  <2> QED
      BY <2>2 DEF LimitInv, WindowInv
<1>3. NoWindowIsOverrun'
    BY DEF LimitInv, NoWindowIsOverrun
<1> QED
    BY <1>1, <1>2, <1>3 DEF LimitInv

\* A request that is let through: with it, every window that ends now or later holds only
\* what the script counted, and itself.
LEMMA AdmitStep ==
    ASSUME LimitInv, Admit
    PROVE  LimitInv'
<1> USE DownloadLimitAssumption
<1> DEFINE n == Len(admitted)
<1>1. /\ tick \in 0 .. LastTick /\ admitted \in Seq(0 .. LastTick) /\ n \in Nat /\ members \subseteq 1 .. n
      /\ \A i \in 1 .. n : admitted[i] \in 0 .. LastTick
    BY DEF LimitInv, LimitTypeOK
<1>2. /\ admitted' = Append(admitted, tick) /\ tick' = tick /\ n < MaxRequests
      /\ members' = Recent \cup {n + 1} /\ Cardinality(Recent) < MaxDownloads
    BY DEF Admit
<1>3. /\ Len(admitted') = n + 1 /\ admitted'[n + 1] = tick /\ admitted' \in Seq(0 .. LastTick)
      /\ \A i \in 1 .. n : admitted'[i] = admitted[i]
    BY <1>1, <1>2
<1>4. Recent \subseteq 1 .. n /\ \A i \in 1 .. n : admitted[i] > tick - Window => i \in Recent
    BY <1>1 DEF Recent, LimitInv, WindowInv
<1>5. IsFiniteSet(Recent) /\ Cardinality(Recent) \in Nat
  <2>1. IsFiniteSet(1 .. n)
      BY <1>1, FS_Interval
  <2>2. IsFiniteSet(Recent)
      BY <1>4, <2>1, FS_Subset
  <2> QED
      BY <2>2, FS_CardinalityType
<1>6. LimitTypeOK'
  <2>1. Len(admitted') <= MaxRequests
      BY <1>1, <1>2, <1>3
  <2>2. members' \subseteq 1 .. Len(admitted')
    <3> HIDE DEF n
    <3> QED
        BY <1>1, <1>2, <1>3, <1>4
  <2> QED
      BY <1>1, <1>2, <1>3, <2>1, <2>2 DEF LimitTypeOK
<1>7. WindowInv'
  <2>1. \A i \in 1 .. n : admitted[i] <= tick /\ \A j \in 1 .. n : i <= j => admitted[i] <= admitted[j]
      BY DEF LimitInv, WindowInv
  <2> HIDE DEF n
  <2>2. \A i \in 1 .. n + 1 : i \in 1 .. n \/ i = n + 1
      BY <1>1
  <2>3. \A i \in 1 .. n + 1 : admitted'[i] <= tick' /\ (admitted'[i] > tick' - Window => i \in members')
      BY <1>1, <1>2, <1>3, <1>4, <2>1, <2>2
  <2>4. \A i, j \in 1 .. n + 1 : i <= j => admitted'[i] <= admitted'[j]
      BY <1>1, <1>2, <1>3, <2>1, <2>2
  <2> QED
      BY <1>3, <2>3, <2>4 DEF WindowInv
<1>8. ASSUME NEW from \in 0 .. LastTick
      PROVE  Cardinality(Within(from)') <= MaxDownloads
  <2>1. CASE tick \in from .. (from + Window - 1)
    <3>1. Within(from)' \subseteq Recent \cup {n + 1}
      <4> SUFFICES ASSUME NEW i \in 1 .. n + 1, admitted'[i] \in from .. (from + Window - 1), i # n + 1
                   PROVE  i \in Recent
          BY <1>1, <1>3 DEF Within
      <4>1. i \in 1 .. n
          BY <1>1
      <4>a. admitted[i] \in Int /\ admitted[i] >= from
        <5>1. admitted'[i] = admitted[i] /\ admitted[i] \in 0 .. LastTick
            BY <1>1, <1>3, <4>1
        <5> QED
            BY <5>1
      <4>2. admitted[i] >= from /\ from > tick - Window
          BY <1>1, <2>1, <4>a
      <4> QED
          BY <1>1, <1>4, <4>1, <4>2
    <3>2. IsFiniteSet(Recent \cup {n + 1}) /\ Cardinality(Recent \cup {n + 1}) <= Cardinality(Recent) + 1
      <4> HIDE DEF n
      <4>1. Cardinality(Recent \cup {n + 1}) = IF n + 1 \in Recent THEN Cardinality(Recent) ELSE Cardinality(Recent) + 1
          BY <1>5, FS_AddElement
      <4>2. IsFiniteSet(Recent \cup {n + 1})
          BY <1>5, FS_AddElement
      <4> QED
          BY <1>5, <4>1, <4>2
    <3>3. Cardinality(Within(from)') <= Cardinality(Recent \cup {n + 1})
          /\ Cardinality(Within(from)') \in Nat /\ Cardinality(Recent \cup {n + 1}) \in Nat
        BY <3>1, <3>2, FS_Subset, FS_CardinalityType
    <3> QED
        BY <1>2, <1>5, <3>2, <3>3
  <2>2. CASE tick \notin from .. (from + Window - 1)
    <3>1. Within(from)' = Within(from)
      <4> HIDE DEF n
      <4>1. Within(from)' = {i \in 1 .. n + 1 : admitted'[i] \in from .. (from + Window - 1)}
          BY <1>3 DEF Within, n
      <4>2. admitted'[n + 1] \notin from .. (from + Window - 1)
          BY <1>3, <2>2
      <4>3. \A i \in 1 .. n + 1 : i \in 1 .. n \/ i = n + 1
          BY <1>1
      <4>4. 1 .. n \subseteq 1 .. n + 1
          BY <1>1
      <4>5. Within(from)' = {i \in 1 .. n : admitted'[i] \in from .. (from + Window - 1)}
          BY <4>1, <4>2, <4>3, <4>4
      <4>6. {i \in 1 .. n : admitted'[i] \in from .. (from + Window - 1)} = {i \in 1 .. n : admitted[i] \in from .. (from + Window - 1)}
          BY <1>3
      <4> QED
          BY <4>5, <4>6 DEF Within, n
    <3> QED
        BY <3>1 DEF Within, LimitInv, NoWindowIsOverrun
  <2> QED
      BY <2>1, <2>2
<1>9. NoWindowIsOverrun'
    BY <1>8 DEF NoWindowIsOverrun, Within
<1> QED
    BY <1>6, <1>7, <1>9 DEF LimitInv

LEMMA LimitSteps == LimitInv /\ [LimitNext]_limitVars => LimitInv'
<1> USE DownloadLimitAssumption
<1> SUFFICES ASSUME LimitInv, [LimitNext]_limitVars PROVE LimitInv'
    OBVIOUS
<1>1. /\ tick \in 0 .. LastTick /\ members \subseteq 1 .. Len(admitted) /\ Len(admitted) \in Nat
      /\ \A i \in 1 .. Len(admitted) : admitted[i] \in 0 .. LastTick
    BY DEF LimitInv, LimitTypeOK
<1>2. CASE TimeGoesOn
    BY <1>1, <1>2, NobodyAdmitted DEF TimeGoesOn
<1>3. CASE Admit
    BY <1>3, AdmitStep
<1>4. CASE Reject
    BY <1>1, <1>4, NobodyAdmitted DEF Reject, Recent
<1>5. CASE KeyExpires
  <2>1. \A i \in members : ~(admitted[i] > tick - Window)
    <3>1. Len(admitted) \in 1 .. Len(admitted) /\ tick >= admitted[Len(admitted)] + Window
      <4>1. PICK i \in members : TRUE
          BY <1>5 DEF KeyExpires
      <4>2. i \in 1 .. Len(admitted)
          BY <1>1
      <4> QED
          BY <1>1, <1>5, <4>2 DEF KeyExpires
    <3>2. \A i \in members : admitted[i] <= admitted[Len(admitted)]
        BY <1>1, <3>1 DEF LimitInv, WindowInv
    <3> QED
        BY <1>1, <3>1, <3>2
  <2> QED
      BY <1>1, <1>5, <2>1, NobodyAdmitted DEF KeyExpires
<1>6. CASE UNCHANGED limitVars
    BY <1>1, <1>6, NobodyAdmitted DEF limitVars
<1> QED
    BY <1>2, <1>3, <1>4, <1>5, <1>6 DEF LimitNext

\* For any number of uploads, publishers and requests: the files of a published version are
\* the ones its publication checked, one of them is the primary one where the product is
\* licensed, and each is in storage unless the answer of its registration was lost; and no
\* stretch of time as long as the window sees more downloads than the limit.
THEOREM DownloadsAlwaysHold == DownloadsSpec => []DownloadsHold
<1>1. ReleasesSpec => []PublishedVersionIsWhole
  <2>1. ReleasesInv => PublishedVersionIsWhole
      BY DEF ReleasesInv
  <2> QED
      BY <2>1, ReleasesInitially, ReleasesSteps, PTL DEF ReleasesSpec
<1>2. LimitSpec => []NoWindowIsOverrun
  <2>1. LimitInv => NoWindowIsOverrun
      BY DEF LimitInv
  <2> QED
      BY <2>1, LimitInitially, LimitSteps, PTL DEF LimitSpec
<1> QED
    BY <1>1, <1>2, PTL DEF DownloadsSpec, DownloadsHold

-----------------------------------------------------------------------------
(***************************************************************************)
(* What a customer gets, side by side                                      *)
(***************************************************************************)
SideInv ==
    /\ LicensingTypeOK /\ SeatsHold /\ (part = "licensing" => LicensingInv)
    /\ AllocationTypeOK /\ RoomHolds /\ (part = "allocation" => AllocationInv)
    /\ ReleasesInv /\ LimitInv /\ CalendarTypeOK

LEMMA SideInitially == MCInit => SideInv
<1> SUFFICES ASSUME MCInit PROVE SideInv
    OBVIOUS
<1>1. LicensingInv /\ AllocationInv /\ ReleasesInv /\ LimitInv
    BY LicensingInitially, AllocationInitially, ReleasesInitially, LimitInitially DEF MCInit
<1>2. CalendarTypeOK
    BY DEF MCInit, CalendarInit, CalendarTypeOK
<1> QED
    BY <1>1, <1>2 DEF SideInv, LicensingInv, AllocationInv

\* A step of one part leaves the others as they were.
LEMMA LicensesStayAsTheyWere ==
    ASSUME LicensingTypeOK, SeatsHold, UNCHANGED licVars, EntitlementsTypeOK'
    PROVE  LicensingTypeOK' /\ SeatsHold'
BY DEF LicensingTypeOK, SeatsHold, SeatsWithinCapacity, OnlyActiveLicensesHaveSeats, licVars

LEMMA RoomsStayAsTheyWere ==
    ASSUME AllocationTypeOK, RoomHolds, UNCHANGED allocVars, EntitlementsTypeOK'
    PROVE  AllocationTypeOK' /\ RoomHolds'
<1>1. AllocationTypeOK'
    BY DEF AllocationTypeOK, allocVars
<1>2. RoomHolds'
    BY DEF RoomHolds, AccountsTellTheirRoom, OneActiveAllocationPerDomain, allocVars, Consumed, TakesCapacity, Rowed, Open
<1> QED
    BY <1>1, <1>2

LEMMA SideSteps == SideInv /\ [MCNext]_accessVars => SideInv'
<1> SUFFICES ASSUME SideInv, [MCNext]_accessVars PROVE SideInv'
    OBVIOUS
<1>0. EntitlementsTypeOK /\ LicensingTypeOK /\ AllocationTypeOK
    BY DEF SideInv, LicensingTypeOK
<1>1. ASSUME UNCHANGED <<releaseVars, limitVars, activatedOn>>
      PROVE  ReleasesInv' /\ LimitInv' /\ CalendarTypeOK'
    BY <1>1, ReleasesSteps, LimitSteps DEF SideInv, CalendarTypeOK
<1>2. ASSUME UNCHANGED <<entVars, licVars, allocVars, part>>
      PROVE  /\ LicensingTypeOK' /\ SeatsHold' /\ (part' = "licensing" => LicensingInv')
             /\ AllocationTypeOK' /\ RoomHolds' /\ (part' = "allocation" => AllocationInv')
  <2>1. EntitlementsTypeOK'
      BY <1>0, <1>2 DEF EntitlementsTypeOK, entVars
  <2>2. part = "licensing" => LicensingInv'
      BY <1>2, LicensingSteps DEF SideInv, licensingVars
  <2>3. part = "allocation" => AllocationInv'
      BY <1>2, AllocationSteps DEF SideInv, allocationVars
  <2> QED
      BY <1>2, <2>1, <2>2, <2>3, LicensesStayAsTheyWere, RoomsStayAsTheyWere DEF SideInv
<1>3. CASE Licenses
  <2>1. LicensingInv'
      BY <1>3, LicensingSteps DEF Licenses, SideInv
  <2>2. part' = "licensing" /\ UNCHANGED allocVars /\ UNCHANGED <<releaseVars, limitVars, activatedOn>>
      BY <1>3 DEF Licenses
  <2>3. EntitlementsTypeOK' /\ LicensingTypeOK' /\ SeatsHold'
      BY <2>1 DEF LicensingInv, LicensingTypeOK
  <2>4. AllocationTypeOK' /\ RoomHolds'
      BY <2>2, <2>3, RoomsStayAsTheyWere DEF SideInv
  <2> QED
      BY <1>1, <2>1, <2>2, <2>3, <2>4 DEF SideInv
<1>4. CASE Allocations
  <2>1. AllocationInv'
      BY <1>4, AllocationSteps DEF Allocations, SideInv
  <2>2. part' = "allocation" /\ UNCHANGED licVars /\ UNCHANGED <<releaseVars, limitVars, activatedOn>>
      BY <1>4 DEF Allocations
  <2>3. EntitlementsTypeOK' /\ AllocationTypeOK' /\ RoomHolds'
      BY <2>1 DEF AllocationInv, AllocationTypeOK
  <2>4. LicensingTypeOK' /\ SeatsHold'
      BY <2>2, <2>3, LicensesStayAsTheyWere DEF SideInv
  <2> QED
      BY <1>1, <2>1, <2>2, <2>3, <2>4 DEF SideInv
<1>5. CASE OneRelease
  <2>1. ReleasesInv'
      BY <1>5, ReleasesSteps DEF OneRelease, SideInv
  <2>2. LimitInv' /\ CalendarTypeOK'
      BY <1>5, LimitSteps DEF OneRelease, SideInv, CalendarTypeOK
  <2> QED
      BY <1>2, <1>5, <2>1, <2>2 DEF OneRelease, SideInv
<1>6. CASE OneLimit
  <2>1. LimitInv'
      BY <1>6, LimitSteps DEF OneLimit, SideInv
  <2>2. ReleasesInv' /\ CalendarTypeOK'
      BY <1>6, ReleasesSteps DEF OneLimit, SideInv, CalendarTypeOK
  <2> QED
      BY <1>2, <1>6, <2>1, <2>2 DEF OneLimit, SideInv
<1>7. CASE EveryDay
  <2>1. CalendarTypeOK'
      BY <1>7 DEF EveryDay, Activate, CalendarTypeOK
  <2>2. ReleasesInv' /\ LimitInv'
      BY <1>7, ReleasesSteps, LimitSteps DEF EveryDay, SideInv
  <2> QED
      BY <1>2, <1>7, <2>1, <2>2 DEF EveryDay, SideInv
<1>8. CASE UNCHANGED accessVars
  <2>1. UNCHANGED <<entVars, licVars, allocVars, part>> /\ UNCHANGED <<releaseVars, limitVars, activatedOn>>
      BY <1>8 DEF accessVars
  <2> QED
      BY <1>1, <1>2, <2>1 DEF SideInv
<1> QED
    BY <1>3, <1>4, <1>5, <1>6, <1>7, <1>8 DEF MCNext

\* The composition the run explores, for any constants: everything a paid order gives keeps
\* its shape, licenses and provider allocations beside the entitlements they share.
THEOREM AccessKeepsItsShape == MCSpec => []AccessTypeOK
<1>1. SideInv => AccessTypeOK
    BY DEF SideInv, AccessTypeOK, ReleasesInv, LimitInv
<1> QED
    BY <1>1, SideInitially, SideSteps, PTL DEF MCSpec

\* What is proved of the parts holds in the composition: seats, rooms, downloads and terms
\* hold, and nothing is given to an entitlement that has ended, also where licenses and
\* allocations share it.
THEOREM AccessKeepsItsPromises ==
    MCSpec => /\ []SeatsHold /\ []RoomHolds /\ []DownloadsHold /\ []TermsHold
              /\ NothingIsGivenAfterTheEnd
<1> DEFINE A == \A e \in Items : Ended(e) => seats'[e] \subseteq seats[e] /\ granted'[e] = granted[e]
<1>1. SideInv => SeatsHold /\ RoomHolds /\ DownloadsHold /\ TermsHold
    BY TermsOfADay DEF SideInv, ReleasesInv, LimitInv, DownloadsHold
<1>2. SideInv /\ [MCNext]_accessVars => [A]_licensingVars
  <2> SUFFICES ASSUME SideInv, [MCNext]_accessVars PROVE [A]_licensingVars
      OBVIOUS
  <2>1. CASE Licenses
      BY <2>1, WritesAreInTime DEF SideInv, Licenses
  <2>2. CASE ~Licenses
    <3>1. UNCHANGED licVars
        BY <2>2 DEF MCNext, Allocations, OneRelease, OneLimit, EveryDay, accessVars
    <3> QED
        BY <3>1 DEF licVars
  <2> QED
      BY <2>1, <2>2
<1>3. MCSpec => []SideInv
    BY SideInitially, SideSteps, PTL DEF MCSpec
<1> HIDE DEF A
<1>4. MCSpec => [][A]_licensingVars
    BY <1>2, <1>3, PTL DEF MCSpec
<1>5. MCSpec => []SeatsHold /\ []RoomHolds /\ []DownloadsHold /\ []TermsHold
    BY <1>1, <1>3, PTL
<1> QED
    BY <1>4, <1>5 DEF NothingIsGivenAfterTheEnd, A
=============================================================================
