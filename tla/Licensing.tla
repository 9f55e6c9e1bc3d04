----------------------------- MODULE Licensing ------------------------------
(***************************************************************************)
(* Internal licenses: packages/database/src/domain/                        *)
(* internal-license-engine.ts and license-provisioner.ts of the worker,    *)
(* and the download grants of download-version-engine.ts, beside the       *)
(* entitlements they are derived from.                                     *)
(*                                                                         *)
(* An activation and an update check lock the license, then the            *)
(* entitlement, and look at the activations, which a deactivation changes  *)
(* without any of the two locks; a download locks the entitlement only.    *)
(* The worker provisions and revokes licenses in transactions of           *)
(* one statement each that skip locked rows, and enqueues the e-mail of a  *)
(* new license in a transaction of its own.                                *)
(***************************************************************************)
EXTENDS Entitlements

CONSTANTS
    Domains,         \* the sites a license may be activated for
    MaxActivations,  \* max_activations of a plan; an item without plan has none
    Workers,         \* the worker processes
    MaxCalls,        \* bound: activations, update checks and downloads in a behaviour
    MaxDeaths        \* bound: how often a worker dies with e-mails to enqueue

ASSUME LicensingAssumption ==
    MaxActivations \in Nat \ {0} /\ MaxCalls \in Nat /\ MaxDeaths \in Nat

VARIABLES
    license,    \* license[e]: the status of the license of entitlement e
    licLock,    \* licLock[e]: the request that has locked its row
    seats,      \* seats[e]: the domains with an ACTIVE activation
    granted,    \* granted[e]: the channels a DownloadGrant was created for
    call,       \* call[c]: the transaction of a request
    made,       \* how many of them were begun
    emailed,    \* the licenses with a LICENSE_PROVISIONED_EMAIL job
    toEmail,    \* toEmail[w]: the licenses worker w is about to enqueue an e-mail for
    deaths

licVars == <<license, licLock, seats, granted, call, made, emailed, toEmail, deaths>>
licensingVars == <<entVars, licVars>>

AtRest == [pc |-> "idle"]

LicensingInit ==
    /\ EntitlementsInit
    /\ license = [e \in Items |-> "none"]
    /\ licLock = [e \in Items |-> Nobody]
    /\ seats = [e \in Items |-> {}]
    /\ granted = [e \in Items |-> {}]
    /\ call = [c \in Calls |-> AtRest]
    /\ made = 0 /\ emailed = {} /\ deaths = 0
    /\ toEmail = [w \in Workers |-> {}]

-----------------------------------------------------------------------------
\* The worker.
Unlicensed ==
    {e \in Items : item[e].kind = "INTERNAL_LICENSE" /\ InForce(e) /\ license[e] = "none" /\ entLock[e] = Nobody}

ProvisionInternalLicenses(w) ==
    /\ toEmail[w] = {}
    /\ Unlicensed # {}
    /\ license' = [e \in Items |-> IF e \in Unlicensed THEN "ACTIVE" ELSE license[e]]
    /\ toEmail' = [toEmail EXCEPT ![w] = Unlicensed]
    /\ UNCHANGED <<entVars, licLock, seats, granted, call, made, emailed, deaths>>

\* enqueueLicenseProvisionedEmailJob: the idempotency key is made of the license.
EnqueueLicenseEmail(w) ==
    \E e \in toEmail[w] :
      /\ toEmail' = [toEmail EXCEPT ![w] = @ \ {e}]
      /\ emailed' = emailed \cup {e}
      /\ UNCHANGED <<entVars, license, licLock, seats, granted, call, made, deaths>>

\* The worker dies, or the insert of the job fails and the rest of the batch with it.
ProvisionerDies(w) ==
    /\ toEmail[w] # {} /\ deaths < MaxDeaths
    /\ deaths' = deaths + 1
    /\ toEmail' = [toEmail EXCEPT ![w] = {}]
    /\ UNCHANGED <<entVars, license, licLock, seats, granted, call, made, emailed>>

Unannounced == {e \in Items : license[e] = "ACTIVE" /\ e \notin emailed}

\* Mutant: nothing looks for licenses whose e-mail was never enqueued.
NoMissingEmails(w) == FALSE /\ UNCHANGED <<entVars, licVars>>

ReconcileMissingEmails(w) ==
    /\ toEmail[w] = {}
    /\ Unannounced # {}
    /\ toEmail' = [toEmail EXCEPT ![w] = Unannounced]
    /\ UNCHANGED <<entVars, license, licLock, seats, granted, call, made, emailed, deaths>>

Revoke(dead) ==
    /\ license' = [e \in Items |-> IF e \in dead THEN "REVOKED" ELSE license[e]]
    /\ seats' = [e \in Items |-> IF e \in dead THEN {} ELSE seats[e]]
    /\ UNCHANGED <<entVars, licLock, granted, call, made, emailed, toEmail, deaths>>

Orphaned ==
    {e \in Items : license[e] = "ACTIVE" /\ (Ended(e) \/ over[e]) /\ licLock[e] = Nobody}

ReconcileInternalLicenses == Orphaned # {} /\ Revoke(Orphaned)

-----------------------------------------------------------------------------
\* Requests.
\* Mutant: the revocation does not wait for the activation that holds the license.
AdminRevokeAtOnce(e) == license[e] = "ACTIVE" /\ Revoke({e})

AdminRevokeLicense(e) == license[e] = "ACTIVE" /\ licLock[e] = Nobody /\ Revoke({e})

DeactivateInternalLicense(e, d) ==
    /\ license[e] # "none"
    /\ d \in seats[e]
    /\ seats' = [seats EXCEPT ![e] = @ \ {d}]
    /\ UNCHANGED <<entVars, license, licLock, granted, call, made, emailed, toEmail, deaths>>

CustomerDeactivateDomain(e, d) == license[e] # "REVOKED" /\ DeactivateInternalLicense(e, d)

BeginCall(c, request) ==
    /\ call[c] = AtRest /\ made < MaxCalls
    /\ made' = made + 1
    /\ call' = [call EXCEPT ![c] = request]
    /\ UNCHANGED <<entVars, license, seats, granted, emailed, toEmail, deaths>>

\* Step 3 of activateInternalLicense, and the first step of issueUpdaterDownloadGrant.
LockLicense(c, op, e, d) ==
    /\ license[e] # "none" /\ licLock[e] = Nobody
    /\ licLock' = [licLock EXCEPT ![e] = c]
    /\ BeginCall(c, [pc |-> "license", op |-> op, e |-> e, d |-> d])

\* issueCustomerDownloadGrant locks the entitlement alone.
RequestDownload(c, e) ==
    ent[e] # "none" /\ BeginCall(c, [pc |-> "license", op |-> "download", e |-> e]) /\ UNCHANGED licLock

LockEntitlement(c) ==
    /\ call[c].pc = "license" /\ entLock[call[c].e] = Nobody
    /\ entLock' = [entLock EXCEPT ![call[c].e] = c]
    /\ call' = [call EXCEPT ![c].pc = "locked"]
    /\ UNCHANGED <<orderStatus, item, ent, over, license, licLock, seats, granted, made, emailed, toEmail, deaths>>

\* Commit, rollback or a lost connection: the locks of the transaction are gone.
EndTransaction(c) ==
    /\ call' = [call EXCEPT ![c] = AtRest]
    /\ licLock' = [e \in Items |-> IF licLock[e] = c THEN Nobody ELSE licLock[e]]
    /\ entLock' = [e \in Items |-> IF entLock[e] = c THEN Nobody ELSE entLock[e]]
    /\ UNCHANGED <<orderStatus, item, ent, over, license, made, emailed, toEmail, deaths>>

\* Steps 6 and 7 of activateInternalLicense.
SeatFree(e, d) == d \notin seats[e] /\ Cardinality(seats[e]) < MaxActivations

\* What the three transactions go on for, once they hold their locks: a right in force and
\* a free seat, the seat of the domain, or the right to the files of the product.
MayGoOn(c) ==
    LET e == call[c].e
    IN  /\ InForce(e)
        /\ CASE call[c].op = "activate" ->
                  license[e] = "ACTIVE" /\ item[e].snapshot # "noplan" /\ SeatFree(e, call[c].d)
             [] call[c].op = "update" -> license[e] = "ACTIVE" /\ call[c].d \in seats[e]
             [] OTHER -> item[e].kind \in {"DIGITAL_DOWNLOAD", "INTERNAL_LICENSE"}

Checked(c) ==
    /\ call[c].pc = "locked"
    /\ MayGoOn(c)
    /\ call' = [call EXCEPT ![c].pc = "checked"]
    /\ UNCHANGED <<entVars, license, licLock, seats, granted, made, emailed, toEmail, deaths>>

\* The check fails, or there is nothing to write: the domain has its seat already, or no
\* published version inside the update window is newer.
AnswerWithoutWriting(c) ==
    /\ call[c].pc = "locked"
    /\ call[c].op = "activate" => ~MayGoOn(c)
    /\ EndTransaction(c)
    /\ UNCHANGED <<seats, granted>>

\* Step 8: the row of the domain is taken up again or created.
TakeSeat(c) ==
    /\ call[c].pc = "checked" /\ call[c].op = "activate"
    /\ seats' = [seats EXCEPT ![call[c].e] = @ \cup {call[c].d}]
    /\ EndTransaction(c)
    /\ UNCHANGED granted

CreateGrant(c) ==
    /\ call[c].pc = "checked" /\ call[c].op # "activate"
    /\ granted' = [granted EXCEPT ![call[c].e] = @ \cup {call[c].op}]
    /\ EndTransaction(c)
    /\ UNCHANGED seats

CallDies(c) == call[c] # AtRest /\ EndTransaction(c) /\ UNCHANGED <<seats, granted>>

-----------------------------------------------------------------------------
CallStep(c) ==
    LockEntitlement(c) \/ Checked(c) \/ AnswerWithoutWriting(c) \/ TakeSeat(c) \/ CreateGrant(c)

WorkerStep(w) ==
    ProvisionInternalLicenses(w) \/ EnqueueLicenseEmail(w) \/ ReconcileMissingEmails(w)

LicensingNext ==
    \/ EntitlementsNext /\ UNCHANGED licVars
    \/ ReconcileInternalLicenses
    \/ \E w \in Workers : WorkerStep(w) \/ ProvisionerDies(w)
    \/ \E e \in Items : AdminRevokeLicense(e)
    \/ \E e \in Items, d \in Domains : DeactivateInternalLicense(e, d) \/ CustomerDeactivateDomain(e, d)
    \/ \E c \in Calls : CallStep(c) \/ CallDies(c)
    \/ \E c \in Calls, e \in Items : RequestDownload(c, e)
    \/ \E c \in Calls, e \in Items, d \in Domains, op \in {"activate", "update"} : LockLicense(c, op, e, d)

\* The worker polls for ever (runPollingTick), and the database ends a transaction that
\* does not go on.
LicensingFairness ==
    /\ WF_licensingVars(ExpireDueEntitlements /\ UNCHANGED licVars)
    /\ WF_licensingVars(ReconcileInternalLicenses)
    /\ \A w \in Workers : WF_licensingVars(WorkerStep(w))
    /\ \A c \in Calls : WF_licensingVars(CallStep(c))

LicensingSpec == LicensingInit /\ [][LicensingNext]_licensingVars
LicensingFairSpec == LicensingSpec /\ LicensingFairness

-----------------------------------------------------------------------------
LicensingTypeOK ==
    /\ EntitlementsTypeOK
    /\ license \in [Items -> {"none", "ACTIVE", "REVOKED"}]
    /\ licLock \in [Items -> Calls \cup {Nobody}]
    /\ seats \in [Items -> SUBSET Domains]
    /\ granted \in [Items -> SUBSET {"update", "download"}]
    /\ call \in [Calls -> {AtRest} \cup [pc : {"license", "locked", "checked"}, op : {"download"}, e : Items]
                      \cup [pc : {"license", "locked", "checked"}, op : {"activate", "update"}, e : Items, d : Domains]]
    /\ made \in 0 .. MaxCalls /\ deaths \in 0 .. MaxDeaths /\ emailed \subseteq Items
    /\ toEmail \in [Workers -> SUBSET Items]

\* Activations of several domains that compete for the last seat of a license, beside
\* deactivations that hold no lock, never take more seats than its plan has
\* (activateInternalLicense, lines 255 to 271).
SeatsWithinCapacity == \A e \in Items : Cardinality(seats[e]) <= MaxActivations

\* A license that is revoked keeps no seat, and no activation that was under way when it
\* was revoked takes one afterwards (adminRevokeLicense and reconcileInternalLicenses).
OnlyActiveLicensesHaveSeats == \A e \in Items : seats[e] # {} => license[e] = "ACTIVE"

\* The seats of a license are within its plan and those of a license in force.
SeatsHold == SeatsWithinCapacity /\ OnlyActiveLicensesHaveSeats

\* No seat and no download is given for an entitlement that was revoked or has expired by
\* then, however long before the request looked at it (the locks of activateInternalLicense,
\* issueUpdaterDownloadGrant and issueCustomerDownloadGrant).
NothingIsGivenAfterTheEnd ==
    [][\A e \in Items : Ended(e) => seats'[e] \subseteq seats[e] /\ granted'[e] = granted[e]]_licensingVars

\* Once an entitlement has ended its license ends too and frees its seats, also when it
\* was provisioned or activated at that very moment (reconcileInternalLicenses).
LicensesEndWithTheirEntitlement ==
    \A e \in Items : Ended(e) ~> (license[e] # "ACTIVE" /\ seats[e] = {})

\* The customer is sent the key of every license that stays in force, although the worker
\* may die between provisioning it and enqueuing the e-mail
\* (reconcileMissingLicenseProvisionedEmailJobs).
EveryLicenseIsAnnounced ==
    \A e \in Items : license[e] = "ACTIVE" ~> (e \in emailed \/ license[e] = "REVOKED")
=============================================================================
