# Verification of the NexusTheme commerce core

TLA+ modules for the parts of NexusTheme (a NestJS API, a polling worker and
PostgreSQL through Prisma) whose correctness depends on what happens when
requests, webhooks, workers and crashes interleave. TLC checks each module on small
instances; the `*Proofs` modules prove, with TLAPS and for every value of the
constants, every safety property those runs check.

## 1. The system

PostgreSQL is the only shared state. The API and the worker are processes that read
and write it in transactions; between two transactions anything else may run. There
are no cross-process locks other than rows (`FOR UPDATE`, `SKIP LOCKED`), unique
indexes, advisory locks and compare-and-set updates (`updateMany` with the expected
state in its `where`).

| Component | State it keeps | Operations | Talks to |
|---|---|---|---|
| Cart (`apps/api/.../cart`) | `carts`, `cart_items` | get, add, update, remove, clear | catalogue prices, checkout |
| Orders and checkout (`orders`) | `orders`, `order_items`, `idempotency_keys` | checkout, polling of a key | cart, payments |
| Payments (`payments`) | `payments`, `payment_events`, audit rows | open a session, webhook, reconcile, refresh, test callback | Stripe, SePay, orders, outbox |
| Outbox (`worker/outbox-processor.ts`) | `outbox_events` | claim, load, handle, finalize, retry, give up | every emitter and handler |
| Fulfilment handlers (`worker/*-processor.ts`) | what each handler writes | ORDER_PAID, ORDER_REFUNDED, ENTITLEMENT_REVOKED, tickets, inquiries | all engines |
| Entitlements (`database/domain/entitlement-engine.ts`) | `entitlements` | issue, expire, revoke | allocations, licenses, hosting |
| External allocations (`allocation-engine.ts`) | `license_allocations`, provider accounts | reserve, activate, fail, replace, release | provider sites |
| Internal licenses (`internal-license-engine.ts`) | `internal_licenses`, `license_activations` | provision, activate a domain, deactivate, validate, revoke | entitlements, plugins |
| Downloads (`download-version-engine.ts`) | versions, grants, download events | publish, grant, consume | S3, entitlements |
| Automation (`automation-engine.ts`, dispatcher) | `automation_jobs`, deliveries | enqueue, dispatch, callback, replay | n8n |
| Affiliates | accounts, referrals, payouts | click, refer, mature, claw back, pay out | orders |
| Finance | ledger entries, invoices | post, refund, report | orders |
| Subscriptions | plans, subscriptions | subscribe, cancel, expire | entitlements |
| Hosting | servers, accounts, DNS | provision, suspend, terminate, sync | control panel |
| Tickets | tickets, messages | reply, change of status, idle closing | customers, staff |
| Services (`services`) | inquiries, attachments, projects, milestones | submit, notify the staff, decide, convert, work on a project | S3, outbox, staff |
| Content, catalogue | posts, products, prices | CRUD, scheduled publishing | checkout |
| Auth, users, queue, storage, health, audit, frontends | none of interest here | - | - |

What is hard in it: values read before a network call or a lock and used after it;
webhooks that are redelivered, reordered and race a reconciliation; leases that run
out under a live process; retries of requests whose first attempt may still be
running; a crash between two transactions; late events for rows that have ended. The
list with lines is in `PROJECT.json` (`hazards`).

## 2. Modules

| Module | Models | Detail |
|---|---|---|
| `Payments` | `payments.service.ts`, the Stripe and SePay adapters | one action per database round trip of a request; a transaction that locks first is one action |
| `Checkout` | `cart.service.ts`, `orders.service.ts` (checkout) | cart calls, catalogue edits, checkout with idempotency keys and their age |
| `Outbox` | `outbox-processor.ts`, the tick of `index.ts` | claim, load, per-event handler and outcome, leases, crashes |
| `AtLeastOnce` | what the outbox promises its emitters | the abstract specification `Outbox` implements |
| `Affiliate` | `affiliate-processor.ts`, payouts and administration of `affiliates.service.ts` | the reads before each transaction and the transaction as two actions |
| `Finance` | `ledger-processor.ts`, `ledger-engine.ts`, manual invoices of `finance.service.ts` | one action per database round trip of a handler; a transaction as its balances |
| `Entitlements` | `entitlement-engine.ts`, `entitlements.service.ts` | issue, term, expiry, revocation, and the row lock others take |
| `Licensing` (extends `Entitlements`) | `internal-license-engine.ts`, `license-provisioner.ts`, the grants of `download-version-engine.ts` | one action per lock, check and write of a transaction |
| `Allocation` (extends `Entitlements`) | `allocation-engine.ts`, `allocations.service.ts`, `allocation-reconciler.ts` | one action per lock, count and write of a booking |
| `Releases` | uploads of `downloads.service.ts`, publication of `download-version-engine.ts` | the steps between storage and database of an upload and a publication |
| `DownloadLimit` | the sliding window of the rate limiter | one request is one atomic script on Redis |
| `Downloads` (extends `Releases`, `DownloadLimit`) | what a customer downloads | the two side by side |
| `Memberships` | `subscriptions.service.ts`, `subscription-reconciler.ts` | the read and the transaction of a checkout, a cancellation and each row of the reconciler |
| `Calendar` | `addUtcMonths`, `calculateExpirationDate`, `calculateNextPeriodEnd` | pure functions, evaluated for every day on which an entitlement may be issued |
| `Automation` | `automation-engine.ts`, `automation-dispatcher.ts`, `automation.service.ts` | claim, post, settle of a batch; callbacks; administrators; the workflow engine as an actor |
| `Hosting` | `hosting.service.ts`, `hosting-processor.ts` | read, call of the control panel and write of every request |
| `Tickets` | `tickets.service.ts`, `ticket-engine.ts`, `ticket-processor.ts` | read and unconditional write of every request on one ticket |
| `Inquiries` | `submit` of `service-inquiries.service.ts`, `service-inquiry-notifier.ts` | storage, insert and clean-up of a submission; the reads and inserts of the notifier |
| `Projects` | decisions and conversion of `service-inquiries.service.ts`, `service-projects.service.ts`, `service-engine.ts` | read and conditional write of every request |
| `SumLemmas` | - | sums over finite sets and functions, for the proofs about money |
| `PaymentsProofs`, `OutboxProofs`, `CheckoutProofs` | - | inductive invariants and theorems about the module they are named after |
| `MembershipAffiliateProofs` | - | the same for `Affiliate` and `Memberships` |
| `RightsProofs` | - | the same for `Licensing`, `Allocation`, `Calendar`, `Downloads` and their composition `MCAccess` |
| `BackOfficeProofs` | - | the same for `Finance`, `Projects`, `Inquiries` |
| `OperationsProofs` | - | the same for `Automation`, `Hosting`, `Tickets`, and for the composition `MCBackOffice` |
| `MC*` | - | compositions and constant values for TLC |

### Payments

`order`, `pay`, `events`, `outbox`, `anomalies` are the tables. `req[r]` is what a
`createPaymentSession` call keeps in memory: `SessionRead` (order and its payments),
`SessionInsert` (the new attempt, or the row that won under
`unique_pending_payment_per_order`), `SessionReuse`, `SessionOpen` (the adapter),
`SessionClaim` (the compare-and-set and what follows when it loses). `rec[c]` is a
`reconcilePayment` call: read, ask the provider, apply. `ProcessAuthoritativePaymentEvent`
is the one transaction both webhooks and reconciliations end in; its outcomes are
`LateEvent`, `AttemptEnds`, `AttemptSucceeds`, and `NoMutation` when it returns early
or throws. `stripe`, `emitted`, `transfers` are the outside world: a Stripe session
(with delayed payment methods), its webhooks, bank transfers with a code. References
are a function of provider and payment in the code (SePay's code, Stripe's idempotency
key), so a reference is modelled by the name of its provider.

### Checkout

`AddItemRead`, `AddItemTarget`, `AddItem` are the three parts of `addItem` (price
resolution before any lock, choice of the cart, the locked transaction). A checkout
is `CheckoutStart`, then `Reserve` or `Reclaim` or `Poll`, then `CheckoutTx` or
`CheckoutFails` with `Cleanup`. The age of a key (fresh, stale after 10 s, expired
after 24 h) stands for time. A lease may run out under a live leader (the transaction
may wait 10 s for a connection and run 20 s, the lease lasts 10 s); the history variable
`overran` remembers for which keys that has happened. `OneOrderWithinLease` and
`KeyAnswersItsRequest` speak of the other keys, `CommittedKeyNamesItsOrder` of all;
`CommittedKeysHold` joins the last two.

### Outbox and AtLeastOnce

`row[e]` is the row of `outbox_events`; `wk[w]` is the tick of a worker (a worker runs
one tick at a time, `isPolling`). `Claim` is the single `UPDATE ... SKIP LOCKED`
statement, `Load` the `findMany` after it, whose retry counts are written back by
`Fail`. `Finalize` and `Fail` write only when status and owner are still the worker's.
`FinalizeThrows` is a database error while the outcome is written, with or without the
update having been committed; it is handled like an error of the handler. `handled` and
`throws` are history variables. Under the mapping `Status` (PENDING and PROCESSING are
"queued", PROCESSED "done", FAILED "dead") every step is a step of `AtLeastOnce` or a
stutter.

### Affiliate

One account: `acct`, its referrals `ref` (one per order), its payouts `payouts`. Each
operation reads, decides, and then runs a transaction that does not look again, so each
is a `...Read` and a `...Write` action with what was read in `wk[w]` (workers), `call[c]`
(payout requests) or `adm[a]` (administrators). Only the maturation compares and sets:
`MatureRead` takes a batch, `MatureOne` and `MatureFails` are its loop body. Handlers
start at any time, because `Outbox` shows that an event may be handled again and by two
workers at once. A referral's `approved` is a history variable (`approvedAt` is never
cleared); `due` says that its hold of 30 days is over.

What the module shows is where the missing second look matters. Any number of workers,
requests and decisions may overlap. A history variable, read by no guard, remembers which
kinds of payout transaction ever wrote on something another of their kind had changed since
it was read: `overtaken` holds "request" when another request deducted in between
(`Overtakes`), and "decision" when the payout had been decided in between
(`DecidedBefore`). `BooksHold` says what that costs: everything earned is accounted for
until a decision is overtaken, whatever requests do, and nothing is asked for or paid out
that did not mature until a request or a decision is. `OnlyStaleClawbacksBreakTheBooks` says
the same of workers: only a claw-back that acts on a status which has changed since it was
read (two workers on one refund, or a maturation in between) makes balances and referrals
disagree. What follows an overtaken transaction is in two violated runs:
`affiliate_overdraw` (two requests at once spend one balance) and `affiliate_redecide` (two
decisions at once complete and reject one payout, `PayoutsAreFinal`). Referrals never go
back under any overlap (`ReferralsMoveForward`), because the maturation compares and sets.

### Finance

`inv[o]` is the tax of the invoice of an order, `ledger` the booked transactions in
order; `Init` chooses which workers are up. `InvoiceRead` collapses the two reads of the
invoice that follow each other (an invoice is never changed or deleted). `Check` and
`Book` are the look for an earlier booking and the insert. A ledger transaction is kept as
its kind, order and tax; `Lines` gives the balances its rows add up to, and `Balance` sums
them over the ledger positions of an order. `subtotalAmount`
and `totalAmount` of an order are equal (`Checkout` sets both to the sum of the lines), so
every transaction balances by construction and no property claims it.

### Entitlements, Licensing, Allocation

`ent[e]` is the status of the entitlement that item `e` of a paid order gives; `over[e]`
says that `expires_at` has passed, which happens at any moment and long before a worker
writes EXPIRED. Both modules that extend it add what is derived from it.

`Licensing`: `license`, `seats` (the domains with an ACTIVE activation), `granted` (the
download grants), and `call[c]`, the transaction of an activation, an update check or a
download. `LockLicense`, `LockEntitlement`, `Checked` and then `TakeSeat` or `CreateGrant`
are its statements; `CallDies` ends it at any place and frees its locks. Deactivations
take no lock, the worker's provisioning and reconciliation skip locked rows.
`toEmail[w]` is what the provisioner holds between the transaction that makes licenses and
the one that enqueues their e-mails.

`Allocation`: `alloc`, `account` and `booking[c]`, an activation or a confirmation that
locks the allocation, its entitlement and the provider account in this order. The check
that a domain is nowhere else active reads rows no lock covers; the unique index decides
when it has become stale.

### Releases and DownloadLimit

One version: `files` (rows), `stored` (objects), `upload[u]` between put, insert and
clean-up, `publish[a]` between the read of the files, their check one by one, and the
transaction that compares what it read. `vouched` is what the publication checked, `lost`
the uploads whose commit succeeded without an answer. `DownloadLimit` keeps the sorted set
of the sliding window, the expiry of its key, and as history the moments of all requests
let through. `Downloads` puts the two beside each other: a download passes the limiter and
then serves a file of a published version. `DownloadsHold` says that the version is whole
and that no window admits more than the limit.

### Memberships and Calendar

`sub[s]` and `member[s]` are a subscription and its entitlement, `past[s]` says that its
period has ended, `memberTask[t]` is a checkout or a cancellation between its read and its
transaction, `batch[w]` the rows a tick of the reconciler has read and not handled. The
only billing there is is the simulated one (the feature is off in production), so nothing
renews a period. No call sets `cancelAtPeriodEnd`; the initial state may hold one row that
has it, as `phase13-acceptance.ts` writes one. Nothing but the read keeps a customer from a
second membership: `NoSecondMembership` says that only overlapping checkouts make one (the
history variable `before` knows what was there when a checkout began). The acceptance
script replays the reconciler with a loop of its own, which writes EXPIRED where the worker
writes REVOKED; the model is the worker. `MembershipsHold` joins `NoSecondMembership` with
`CanceledStaysCanceled` (a cancellation is final). That a membership ends with its
period is liveness, and part of `WhatIsDueEnds`.

`Calendar` compares the two ways the code adds months. Its only variable `activatedOn` is
the day on which an entitlement is issued, and `Activate` takes any day within the bounds;
everything else is a function of it. `TermsHold` joins four facts about that day:
`DaysFollowEachOther` (the day numbers all this is compared in have no gap),
`LaterEndsNoEarlier` (`addUtcMonths` stays in the target month, so a later purchase never
ends earlier), `SplittingGainsNothing` (two terms one after the other give no more than one
of both), and `EnginesAgree`: `calculateNextPeriodEnd` runs over the end of a short month
as `setUTCMonth` does, so a membership of a month that begins on 31 January ends after one
that begins on 1 February, and the two engines differ by at most three days. In
`Entitlements` and `Memberships` a term runs out at any moment.

### Automation

`job`, `delivery` and `disp[d]`, a dispatcher in the middle of its batch (`next`, `post`,
`settle`, `delivery`). `flows[j]` are the runs n8n has accepted and not ended; each may
call back, at any time. Callbacks and administrators lock the row and look at its status;
`SettleJob` writes without looking. `astray` are the jobs something went wrong with
between worker and n8n (a lost answer, an overrun lease), `reopened` those whose end was
overwritten; `JobsAgree` says that all the others agree with their deliveries and can
always be claimed (`UndisturbedJobsAgree`), and that a second article needs a reopened job
(`OneArticlePerJob`).

### Hosting

`hosting`, `place`, `activeAccounts` are the rows, `panel` what exists at the control
panel, `task[t]` a request between its read, its call of the panel and its write. Only
production is modelled (in development the panel is simulated in memory). `drifted` are
the servers one of four named steps touched: they are the only ones that make the count of
a server differ from its accounts (`OnlyTheseStepsMiscount`). In the violated run
`hosting_overfill` two requests pick a server before the account of either has become
active: the count a server is picked by goes up with the last step of a provisioning, so
both get its last place. A server that is named by the customer, or kept by a retry, is not
asked for room at all; the run leaves such requests out (`RoomIsLookedFor`), and servers
whose count is wrong as well (`drifted`).

### Tickets

One ticket: `old` (its `updated_at` is more than seven days ago), `quiet` (so is its last
public message), `unmarked` (a message is younger than `updated_at`, because
`adminReplyTicket` updates the ticket only when the status changes). The comment at
`ticket-processor.ts:71` says that the sweep closes tickets that have had no activity for
seven days; `ActiveTicketsAreSpared` is what the code keeps of it: an active ticket is
closed only if the activity came after the worker had looked, or was such a reply. Both
exceptions do close tickets that are in use: a customer who replies between the worker's
look and its write is closed over (`reconcileIdleTickets` updates without looking again).

### Inquiries and Projects

`Inquiries` is one form sent several times with one `submissionKey`: a submission stores
its files under an id of its own, inserts, and if it loses the race for the unique key
removes its files and answers with the winner's number. `notifier[w]` is a worker that
tells the staff: it reads which notices exist and creates the others. The audit row and
the notices have no unique index; the e-mail job has one. `Projects` is what follows: the
decisions about an inquiry, its conversion, and a project with one milestone. Its status
changes compare with the status read before; messages and documents do not: `found` is the
status a request has read, and what is added to a project was found open by the request
that adds it, though the project may have been closed since (`ClosedProjectsStayClosed`).

### Compositions

Components that share no variable are explored side by side instead of in product: the
initial state of `MCAccess`, `MCBackOffice` and `MCLive` chooses one of them (`part`,
`desk`, `side`), and the others stay as they are. `MCAccess` composes what shares state:
both `Licensing` and `Allocation` act on the entitlements of the same order. `MCMoney`
chooses between a shop, a development shop (whose test provider takes callbacks that ignore
bindings), the referrals of an affiliate and its payouts; `MCCheckout` between two
`focus`es. `MCAffiliate` and `MCHosting` are the small instances of the violated runs.

## 3. Runs

| Run | Question | Instance |
|---|---|---|
| `money` | do sessions, webhooks, reconciliation, test callbacks and several attempts ever pay, announce, bind or end wrongly; what do overlapping handlers, requests and decisions do to the books of an affiliate | 1 order, 3 attempts, 2 session requests, 1 reconciliation, 2 transfers of a right or a wrong amount, both providers; in development 2 attempts, 1 request at a time, 2 callbacks, 1 transfer in full; referrals: 2 workers, 3 orders (one the affiliate's own), 2 rates, 1 fault, 1 payout with 1 request and 1 decision at a time; payouts: 2 workers, 2 requests and 2 administrators at once, 2 payouts, 1 order that earns |
| `live` | is captured money always applied; does every hold end; do memberships end with their period, stay canceled and not pile up | 2 attempts, 2 requests, fair webhooks; 2 workers, 2 referrals, 2 faults; 2 memberships, 2 requests, 1 worker, 1 fault |
| `checkout` | does a late cart call or a price change corrupt an order; one order per key within the lease; does a key lose or misname its order | 1 writer and 1 checkout without key, 2 carts, 2 prices, 2 currencies; or 2 checkouts with one key, 2 currencies, takeovers, crashes |
| `checkout_overrun` | one order per key, also beyond the lease: **violated** | 2 checkouts, 2 carts |
| `outbox` | can a lost lease, a crash or a retry decide wrongly; refinement of `AtLeastOnce`; does every event end | 2 workers, 2 events, batches of 2, 2 retries, 2 faults |
| `outbox_duplicate` | does a claim prevent duplicate processing: **violated** | 2 workers |
| `affiliate_overdraw` | is a payout covered by the balance: **violated** | 2 payout requests |
| `affiliate_redecide` | is the outcome of a payout final: **violated** | 1 payout, 2 administrators |
| `access` | do seats, provider capacity, published files and the download limit hold; does what is derived from an entitlement end with it; is every license announced; do terms keep their order | 2 requests at once, 3 in all; 2 domains and 1 seat; 2 accounts, 2 allocations, 1 domain, 2 edits; 2 uploads, 2 publications; 6 requests in 8 ticks of which 3 are a window; every day of 2023 and 2024, terms to 13 months |
| `back_office` | ledger and invoices, jobs and articles, server counts, idle tickets, inquiries and projects (section 2) | 2 of everybody: workers, dispatchers, requests; 1 job, 2 attempts, 2 mishaps; 3 hosting, 5 ticket and 8 project requests begun |
| `hosting_overfill` | is a server picked for its room never overfilled: **violated** | 2 requests, 2 accounts, 1 server with one place |
| `inquiry_duplicate` | is the staff told once: **violated** | 2 notifiers, 1 member of the staff |

Two requests (or workers) are enough for every race of the modules, because each
compare-and-set, lock or index is between one reader and one other writer. Three attempts
are the fewest with which a surplus payment occurs: a first one that ends, one that pays,
and one inserted by a request that has not seen the payment. One seat, one place on a
server and capacities of one and two make every activation compete for the last one.
Eight ticks let a window begin, end and begin again, and let the key of the limiter expire.
Two years, one of them a leap year, and 13 months meet every end of a month, of a year and
of February.

Bounds: `MaxFaults`, `MaxMishaps`, `MaxDeaths`, `MaxInquiryFaults`, `MaxMemberFaults` bound crashes, lost
answers and lost leases; `MaxCalls`, `MaxBookings`, `MaxEdits`, `MaxJobs`, `MaxFlows`,
`MaxTasks`, `MaxTicketTasks`, `MaxProjectTasks`, `MaxEntries`, `MaxRequests`, `LastTick`,
`FirstYear`, `LastYear`, `MaxMonths` how much is begun; `TransferIds`, `TestEventIds`, `CartIds`, `PaymentIds`, `Rows`, `Subs` what may
be created. `FewInDevelopment`, `OnePayout` and `OneReferral` (`MCMoney`), `CartsBound` and `KeysBound` (`MCCheckout`)
and `FewHandlers` (`MCBackOffice`: two workers share one order, one worker handles both)
limit a composition. Actions stop at a bound, so deadlock is not checked: the systems
modelled here may come to rest.

The violated runs are differences between the code and what its comments, tests or
acceptance gates say; the details are in `PROJECT.json`. What `outbox_duplicate` shows (two
workers may run one handler at once) is the reason why every handler is let overlap with
itself elsewhere: they are safe to repeat, but not all of them are safe to overlap. Two
workers that handle one ORDER_PAID event may both find the order unbooked and book its
payment twice (`ledger-processor.ts:122`, no unique index); `RefundReversesPayment` is
therefore stated for one worker, `BookedAsInvoiced` for any.

Several passing properties say under which condition the code keeps its promise, and name
the overlap that ends it instead of denying it. Beyond that point they claim nothing:
`MembershipsHold` exempts overlapping checkouts (which do make a second membership),
`OnlyStaleClawbacksBreakTheBooks` and `BooksHold` stale claw-backs and overtaken payout
transactions, `RefundReversesPayment` two workers at once, `UndisturbedJobsAgree` jobs whose
answer was lost or whose lease ran out (`astray`, `reopened`), `JobsEndOrStrand` a job left
PENDING with no attempt, `OnlyTheseStepsMiscount` servers in `drifted`,
`PublishedVersionIsWhole` and `InquiryKeepsItsFiles` a commit whose answer is lost, and
`ActiveTicketsAreSpared` replies the sweep did not see.

Every property of a passing run has a mutant, an operator beside the definition it
replaces, that breaks the property the way a plausible slip in the code would.

### Fairness

* `Payments!Fairness`: a provider redelivers each webhook until the API has answered, so
  the handling of every emitted event is weakly fair. Customers, requests and
  reconciliations are not fair: nothing relies on them.
* `Outbox!Fairness`: the interval timer starts ticks for ever, a handler ends one way or
  the other, and time passes (backoff and leases). Nothing assumes that a handler succeeds.
* `AffiliateFairness`: a started transaction ends, a hold elapses, and every tick reaches
  the maturation, between whatever other handlers the worker runs; the maturation is
  therefore strongly fair (a worker that is always busy when the scheduler looks would not
  be weakly fair to it).
* `LicensingFairness`, `AllocationFairness`: the worker's tick reaches expiry,
  provisioning and the reconciliations for ever, and a transaction that was begun ends,
  one way or the other (the database ends one that does not go on). No customer or
  administrator is fair.
* `MembershipsFairness`: ticks reach expiry and reconciler for ever and the loop of the
  reconciler goes on to its next row; its failures are bounded, requests are not fair.
* `AutomationFairness`: dispatchers poll, a retry comes due, a lease runs out, and a run
  of n8n ends, by its callback or without one (`FlowDies`). That a callback arrives is not
  assumed.
* `InquiriesFairness`: the outbox dispatches the event again until a handler has come
  through. The outbox gives an event up after its retries; the model has no count of them
  and bounds the faults instead, so `EveryInquiryIsAnnounced` speaks of events whose
  handlers fail less often than the outbox retries.

## 4. Proofs

Assumptions: the named `ASSUME` of each module (amounts, capacities and bounds are
naturals, sentinels are no ids). Sets of workers, requests, orders and rows may be
infinite; only the catalogue of `Checkout` is assumed to be finite (`Prices`, over which a
cart is summed), and there is at least one hosting server. Where a count or a sum needs a
finite set, the invariant says that finitely many rows are in use. An instance of the runs
replaces constants only, so the theorems speak of the definitions TLC has checked.

* **Payments.** `IInv` is the type invariant, the three safety invariants and
  `StaleReadsAreSafe`. The last one is what makes them inductive: a request that read
  a reference before its provider call may hand it out only because a bound reference
  never changes. Each action reduces to one of a few shapes (a status ends, a row is
  inserted, a row is bound, only local state moves), proved once each as a lemma.
  `WellFormedAlways` states types and `StaleReadsAreSafe`; `MovesForward` is the action
  property that no binding and no outcome is ever taken back. `SuccessIsCaptured`
  (`NoSuccessWithoutCapture`) needs `EvidenceIsReal`: a webhook on its way, or the answer a
  reconciliation holds while others run, reports money that was received. It stays true
  because no step takes back what it rests on (`FactsKept`): a captured session, a
  transfer, an emitted event.
* **Checkout.** `OneOrderWithinLease`, `OrderIsItsCart` and `CommittedKeysHold` are
  proved together, because each needs the others: a key makes no second order because an
  order made under a key leaves the key COMMITTED. The strengthening is `OneLeader`: as
  long as no leader outlived its lease, the reservation of a key is fresh and belongs to
  exactly one call past the reservation, and whoever is about to take a stale one over
  sent the same request. Time destroys it only for keys that enter `overran`, so the
  theorems say exactly how far the 10 s lease protects. Steps fall into four shapes: a
  cart changes that was not checked out (`CartsStep`), a call moves and touches a row
  nobody else leads (`OwnStep`), a row ages (`Ages`), and the transaction itself (`TxStep`).
  `OrdersChargeTheirLines` (`OrdersAreSound`) rests on two lemmas about the sum: the lines
  of a cart add up to a natural number (`LinesAdd`), and the transaction that makes an
  order charges the sum of the lines that it checked against 32 bits (`TxCharges`).
* **Sums.** `SumFunctionOnSet` of the community modules picks an element with CHOOSE and
  recurs on the rest. `SumLemmas` shows that it does so on every finite set (`SumStarts`),
  that any element may be taken first (`SumOfTheRest`), and that the sum depends on the
  elements only and changes by what one element does (`SumOfEquals`, `SumChanges`). The
  argument is a smallest counterexample: the subsets of a finite set are well founded under
  strict inclusion, so a set of bad subsets would have a minimal one (`SmallestSubset`).
  Stated for a set `Bad`, this needs no operator as parameter.
* **Outbox.** `IInv` is the type invariant, `ProcessedWasHandled`, `RetriesAreEarned`
  and `LeasedIsCurrent`: while a worker still owns a row, the retry count it loaded is
  the row's, and if it is about to write a failure there is an uncounted exception.
  Without it the count written back by a slow worker could be anything. On top of it:
  `RowsHoldAlways`, the action property `OutcomesFinal` and the refinement
  `Spec => ALO!Spec`.
* **Affiliate.** `AffiliateTypeOK` says enough about the local states (a worker holds a credit or
  a claw-back only for an order of somebody else) to be inductive. `ReferralsForward`
  follows per action: only the maturation could take a referral back, and it compares and
  sets. The balances are sums over referrals and payouts, of which finitely many are in use
  (`RowsInUse`). `OnlyStaleClawbacks` and `BooksAlwaysHold` assume nothing about how many
  workers, callers and administrators there are or how they overlap. The invariant behind
  `BooksHold` is conditional in the same way as the property: until a decision is overtaken
  each decision settles a payout that still counts as requested (`DecisionBooks`), and until
  a request is overtaken too, whatever a request that is not late is about to ask for is
  still covered by what is available (`Covered`). That an overtaken transaction does break
  the books is what the runs `affiliate_overdraw` and `affiliate_redecide` show; nothing is
  proved or claimed of the books after one. `PayoutsAreFinal` is false of the code, so no
  theorem states it.
* **Memberships.** `MembersInv`: what a checkout found when it began was over by then and
  never comes back (`Over`), and a canceled subscription gives nothing.
* **Finance.** `BookedAsInvoiced` needs that a handler past the invoice holds the tax of
  the invoice (`TaxIsInvoiced`), and that an invoice is written only where none was:
  since no tax equals `NoInvoice`, the write cannot touch an order that was booked.
  `RefundsReverse` needs, for one worker, that each kind of transaction is booked `Once` per
  order and that a refund carries the tax of the payment before it; then the balance of an
  order is the sum over exactly two positions of the ledger (`TwoTransactions`).
* **Licensing.** Two facts carry everything: a transaction holds the locks it has taken
  (`LocksAreHeld`), and what it saw under them is still so when it writes
  (`ChecksStillHold`): the entitlement has not ended, the license is active, a seat is
  free. Whoever could falsify them waits for a lock or, like a deactivation, only frees
  seats. From them `SeatsHold` is inductive and `NothingAfterTheEnd` holds of every step.
* **Allocation.** The same argument per booking (`BookingHolds`), plus that finitely many
  rows are in use at any time (`RowsAreUsed`), without which the count of an account means
  nothing. A step changes at most one row, so each count grows or shrinks by one element.
* **Downloads.** `UploadsInv` (an object with a row is cleaned up only by an upload that
  lost the answer to its commit) and `SnapshotsInv` (what a publication has checked is in
  storage or was lost since) give `PublishedVersionIsWhole`. `WindowInv` says that requests
  were let through in the order of time and that the sorted set holds every one younger than
  the window, also after its key expired; then no stretch of time as long as the window
  holds more of them than the set.
* **Calendar.** All years and terms of any length. A date is counted in months since year 0
  (`12 * y + mo`), in which adding months is addition; the days before a month grow with it,
  and the last day of the month is what `addUtcMonths` stops at.
* **Automation.** `ArticlesInv` (an article stays with a job that SUCCEEDED unless that end
  was taken back) and, for every job that is not `astray`, `CalmJob` and `CalmDelivery`: what
  a dispatcher holds of it is what its row says, and a delivery follows its job but for the
  moment between the two statements of a dispatcher.
* **Hosting.** `CountsAreRight` says of every server that has not `drifted` that its accounts
  are finitely many and are what it counts; `WritesAreLegal` that a request under way may
  go from the status it read to the one it will write.
* **Tickets.** `IdleInv`: a message younger than `updated_at`, or than seven days when
  `updated_at` is not, was written by the staff, and so was the last one before a sweep that
  still holds a fresh read.
* **Inquiries.** `SubmissionsInv`: before its insert a submission has not written the
  inquiry, and when it inserts its files are stored; so whoever loses removes only its own.
* **Projects.** Status changes compare with the status read, so the invariant only has to
  remember what was read and decided: a manual change neither leads from CONVERTED nor to
  it, every change of a project is one its life cycle has, and a request that will add to a
  project has found it open (`FoundOpen`).
* **Compositions.** `DeskRunsItsParts`: the back office the run explores runs each part as
  the specification of that part allows (a step of one is a stutter of the others), so
  `DeskKeepsItsPromises` carries all results over. Licenses and allocations share the
  entitlements, so `MCAccess` has an invariant of its own, `SideInv`, in which a part is
  known in full while it is the one that runs, and by its types and safety otherwise
  (`AccessKeepsItsShape`, `AccessKeepsItsPromises`).

Every invariant and every action property of the passing runs is the statement of a
theorem, without hypotheses on who runs how often but for `RefundsReverse` (one worker). Only model-checked is liveness, which needs ENABLED and is out of the provers'
reach: `CaptureIsApplied`, `WhatIsDueEnds`, `EveryEventEnds`, `EveryLicenseIsAnnounced`,
`DerivedRightsEnd`, `JobsEndOrStrand`, `EveryInquiryIsAnnounced`.

## 5. Abstractions

Signatures, authentication, redirect URLs, logging, DTOs and listings are left out. An
exception inside a transaction rolls back, so it is "no step" unless local state moves.
`READ COMMITTED` transactions that lock their rows first, or consist of one
compare-and-set, are atomic actions; every read outside of them is a step of its own.
Where what happens between two locks matters (`Licensing`, `Allocation`) the locks are
variables. Audit rows are kept only where a property needs them. Time is what happens to
one date: a lease or a term runs out at any moment.

## 6. Not modelled

* **Fulfilment as a sequence.** Each handler of ORDER_PAID and ORDER_REFUNDED is modelled
  where it writes, repeated and overlapping. What a retry repeats of the handlers that had
  succeeded before one failed is covered by their repetition, not composed into one run.
* **Content, catalogue administration, users, queue, storage, health, audit.** CRUD, or
  wrappers of libraries; one conditional update for scheduled posts.
* **Frontends, SDK, acceptance scripts.** Presentation, a typed client without state, and
  scripts that drive the API from outside. Together with tests and generated clients they
  are about four fifths of the repository's lines; the domain code of API, worker and
  `packages/database/src` is about 18 000 lines, of which the listings, DTO mapping and
  CRUD have no behaviour of the kind modelled here.
* Within modelled components: clicks and attribution of affiliates, tax tables and
  reports, plans and quotas of memberships, license key generation and reveal, signed URLs, DNS and single sign-on of
  hosting, internal notes and assignment of tickets, membership of projects.
