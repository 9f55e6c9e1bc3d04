----------------------------- MODULE Memberships -----------------------------
(***************************************************************************)
(* The memberships of one customer to one plan: subscriptions.service.ts   *)
(* with its simulated billing, the only one there is, and                  *)
(* apps/worker/src/subscription-reconciler.ts.                             *)
(*                                                                         *)
(* A checkout, a cancellation and the reconciler read before their         *)
(* transaction.  The checkout writes subscription, order and entitlement   *)
(* at once; no unique index keeps a customer from a second one.            *)
(***************************************************************************)
EXTENDS Integers, FiniteSets

CONSTANTS
    Subs,             \* bound: the subscriptions that may be created
    MemberTasks,      \* requests of the customer and of administrators
    MemberWorkers,    \* worker processes
    MaxMemberFaults   \* bound: transactions that fail, requests and ticks that die

ASSUME MembershipsAssumption == MaxMemberFaults \in Nat

VARIABLES
    planActive,    \* isActive of the plan
    sub,           \* sub[s]: the status of the subscription
    atEnd,         \* atEnd[s]: cancelAtPeriodEnd
    member,        \* member[s]: the status of its entitlement
    past,          \* past[s]: currentPeriodEnd has passed
    before,        \* before[s]: history: the subscriptions there were when the checkout of s began
    memberTask,    \* memberTask[t]: what the request has read
    batch,         \* batch[w]: the rows the tick has read and not handled
    memberFaults

memberVars == <<planActive, sub, atEnd, member, past, before, memberTask, batch, memberFaults>>

NoMemberTask == [op |-> "none"]
Subscribed == {s \in Subs : sub[s] # "none"}
Current == {s \in Subs : sub[s] = "ACTIVE"}

\* No call sets cancelAtPeriodEnd; rows that have it come from outside, as the one that
\* phase13-acceptance.ts writes.
MembershipsInit ==
    /\ planActive \in BOOLEAN
    /\ \E imported \in SUBSET Subs :
         /\ Cardinality(imported) <= 1
         /\ sub = [s \in Subs |-> IF s \in imported THEN "ACTIVE" ELSE "none"]
         /\ member = sub
         /\ atEnd = [s \in Subs |-> s \in imported]
    /\ past = [s \in Subs |-> FALSE]
    /\ before = [s \in Subs |-> {}]
    /\ memberTask = [t \in MemberTasks |-> NoMemberTask]
    /\ batch = [w \in MemberWorkers |-> {}]
    /\ memberFaults = 0

-----------------------------------------------------------------------------
UpdateAdminPlan ==
    /\ planActive' = ~planActive
    /\ UNCHANGED <<sub, atEnd, member, past, before, memberTask, batch, memberFaults>>

\* The end of the period; the entitlement made with the subscription has it as expiresAt.
PeriodEnds(s) ==
    /\ sub[s] # "none" /\ ~past[s]
    /\ past' = [past EXCEPT ![s] = TRUE]
    /\ UNCHANGED <<planActive, sub, atEnd, member, before, memberTask, batch, memberFaults>>

\* expireDueEntitlements and revokeEntitlement reach this entitlement like any other; the
\* imported one has no expiresAt.
ExpireMember(s) ==
    /\ member[s] = "ACTIVE" /\ past[s] /\ ~atEnd[s]
    /\ member' = [member EXCEPT ![s] = "EXPIRED"]
    /\ UNCHANGED <<planActive, sub, atEnd, past, before, memberTask, batch, memberFaults>>

RevokeMember(s) ==
    /\ member[s] = "ACTIVE"
    /\ member' = [member EXCEPT ![s] = "REVOKED"]
    /\ UNCHANGED <<planActive, sub, atEnd, past, before, memberTask, batch, memberFaults>>

Reads(t, task) ==
    /\ memberTask[t] = NoMemberTask
    /\ memberTask' = [memberTask EXCEPT ![t] = task]
    /\ UNCHANGED <<planActive, sub, atEnd, member, past, before, batch, memberFaults>>

\* createSubscriptionCheckoutSession up to its transaction: PAST_DUE does not count.
BeginCheckout(t) ==
    /\ planActive /\ Current = {}
    /\ Reads(t, [op |-> "checkout", seen |-> Subscribed])

\* Its transaction, which reads neither the plan nor the other subscriptions again.
CreateSubscription(t, s) ==
    /\ memberTask[t].op = "checkout" /\ sub[s] = "none"
    /\ sub' = [sub EXCEPT ![s] = "ACTIVE"]
    /\ member' = [member EXCEPT ![s] = "ACTIVE"]
    /\ before' = [before EXCEPT ![s] = memberTask[t].seen]
    /\ memberTask' = [memberTask EXCEPT ![t] = NoMemberTask]
    /\ UNCHANGED <<planActive, atEnd, past, batch, memberFaults>>

\* isValidSubscriptionTransition(from, CANCELED), of the statuses that occur.
Cancellable(status) == status \in {"ACTIVE", "PAST_DUE"}

BeginCancel(t, s) == Cancellable(sub[s]) /\ Reads(t, [op |-> "cancel", s |-> s])

Revoked(s) == IF member[s] = "ACTIVE" THEN "REVOKED" ELSE member[s]

\* cancelAdminSubscription updates by id alone.
CancelAdminSubscription(t) ==
    LET s == memberTask[t].s
    IN  /\ memberTask[t].op = "cancel"
        /\ sub' = [sub EXCEPT ![s] = "CANCELED"]
        /\ member' = [member EXCEPT ![s] = Revoked(s)]
        /\ memberTask' = [memberTask EXCEPT ![t] = NoMemberTask]
        /\ UNCHANGED <<planActive, atEnd, past, before, batch, memberFaults>>

DueSubs == {s \in Current : past[s]}

\* What the tick of a worker reads; isPolling keeps it from a second one.
BeginReconcile(w) ==
    /\ batch[w] = {} /\ DueSubs # {}
    /\ batch' = [batch EXCEPT ![w] = DueSubs]
    /\ UNCHANGED <<planActive, sub, atEnd, member, past, before, memberTask, memberFaults>>

NextRow(w, s) ==
    /\ s \in batch[w]
    /\ batch' = [batch EXCEPT ![w] = @ \ {s}]

TargetStatus(s) == IF atEnd[s] THEN "CANCELED" ELSE "PAST_DUE"

\* Mutant: the update finds the row by its id alone.
ReconcileSubBlindly(w, s) ==
    /\ NextRow(w, s)
    /\ sub' = [sub EXCEPT ![s] = TargetStatus(s)]
    /\ member' = IF atEnd[s] THEN [member EXCEPT ![s] = Revoked(s)] ELSE member
    /\ UNCHANGED <<planActive, atEnd, past, before, memberTask, memberFaults>>

\* The transaction of one row of reconcileExpiredSubscriptions: updateMany where ACTIVE.
ReconcileSub(w, s) ==
    /\ NextRow(w, s)
    /\ IF sub[s] = "ACTIVE"
       THEN /\ sub' = [sub EXCEPT ![s] = TargetStatus(s)]
            /\ member' = IF atEnd[s] THEN [member EXCEPT ![s] = Revoked(s)] ELSE member
       ELSE UNCHANGED <<sub, member>>
    /\ UNCHANGED <<planActive, atEnd, past, before, memberTask, memberFaults>>

\* The transaction of one row fails and is logged; the loop goes on.
ReconcileFails(w, s) ==
    /\ NextRow(w, s)
    /\ memberFaults < MaxMemberFaults
    /\ memberFaults' = memberFaults + 1
    /\ UNCHANGED <<planActive, sub, atEnd, member, past, before, memberTask>>

\* The connection is lost, or an insert meets a number of the same millisecond
\* (orderNumber and stripeSubscriptionId are unique).
RequestDies(t) ==
    /\ memberTask[t] # NoMemberTask /\ memberFaults < MaxMemberFaults
    /\ memberFaults' = memberFaults + 1
    /\ memberTask' = [memberTask EXCEPT ![t] = NoMemberTask]
    /\ UNCHANGED <<planActive, sub, atEnd, member, past, before, batch>>

ReconcilerDies(w) ==
    /\ batch[w] # {} /\ memberFaults < MaxMemberFaults
    /\ memberFaults' = memberFaults + 1
    /\ batch' = [batch EXCEPT ![w] = {}]
    /\ UNCHANGED <<planActive, sub, atEnd, member, past, before, memberTask>>

MembershipsNext ==
    \/ UpdateAdminPlan
    \/ \E s \in Subs : PeriodEnds(s) \/ ExpireMember(s) \/ RevokeMember(s)
    \/ \E t \in MemberTasks : BeginCheckout(t) \/ CancelAdminSubscription(t) \/ RequestDies(t)
    \/ \E t \in MemberTasks, s \in Subs : CreateSubscription(t, s) \/ BeginCancel(t, s)
    \/ \E w \in MemberWorkers : BeginReconcile(w) \/ ReconcilerDies(w)
    \/ \E w \in MemberWorkers, s \in Subs : ReconcileSub(w, s) \/ ReconcileFails(w, s)

\* The tick of the worker polls expiry and reconciler for ever, and its loop goes on to the
\* next row; requests are not fair.
MembershipsFairness ==
    /\ \A s \in Subs : WF_memberVars(ExpireMember(s))
    /\ \A w \in MemberWorkers : WF_memberVars(BeginReconcile(w) \/ \E s \in Subs : ReconcileSub(w, s))

MembershipsSpec == MembershipsInit /\ [][MembershipsNext]_memberVars

-----------------------------------------------------------------------------
MembershipsTypeOK ==
    /\ planActive \in BOOLEAN
    /\ sub \in [Subs -> {"none", "ACTIVE", "PAST_DUE", "CANCELED"}]
    /\ atEnd \in [Subs -> BOOLEAN] /\ past \in [Subs -> BOOLEAN]
    /\ member \in [Subs -> {"none", "ACTIVE", "EXPIRED", "REVOKED"}]
    /\ before \in [Subs -> SUBSET Subs]
    /\ memberTask \in [MemberTasks -> {NoMemberTask} \cup [op : {"checkout"}, seen : SUBSET Subs]
                          \cup [op : {"cancel"}, s : Subs]]
    /\ batch \in [MemberWorkers -> SUBSET Subs]
    /\ memberFaults \in 0 .. MaxMemberFaults

\* A customer has two memberships in force at once only if their checkouts overlapped: one
\* that was there when the other's checkout began is never in force beside it, whoever
\* cancels, whatever ends (createSubscriptionCheckoutSession, line 135).
NoSecondMembership == \A s \in Subs : \A u \in before[s] : ~(sub[s] = "ACTIVE" /\ sub[u] = "ACTIVE")

\* A canceled subscription stays canceled and gives nothing, although a reconciler that
\* read it before comes after the cancellation (subscription-reconciler.ts, line 29).
CanceledStaysCanceled ==
    \A s \in Subs : /\ sub[s] = "CANCELED" => sub'[s] = "CANCELED"
                    /\ sub'[s] = "CANCELED" => member'[s] # "ACTIVE"

\* A membership whose period has passed is in force no longer, and neither is its
\* entitlement, although transactions of the reconciler fail (runPollingTick).
MembershipsEndWithTheirPeriod ==
    \A s \in Subs : (sub[s] = "ACTIVE" /\ past[s]) ~> (sub[s] # "ACTIVE" /\ member[s] # "ACTIVE")

\* Memberships neither pile up nor come back (createSubscriptionCheckoutSession,
\* cancelAdminSubscription and the reconciler).
MembershipsHold == []NoSecondMembership /\ [][CanceledStaysCanceled]_memberVars
=============================================================================
