# A verification project for the Athoor loyalty platform

This directory holds TLA+ modules that model the loyalty service of this
repository (`src/loyalty-service`), TLC configurations that check them on small
instances, and proofs that TLAPS checks for every value of the parameters.

The service keeps a points ledger for the customers of a Shopify shop. Points
come from webhooks (a customer is created, an order is paid), are spent on
discount codes through an HTTP API, are taken back when an order is refunded,
and expire. Everything authoritative is in PostgreSQL; work that must not hold
up a request goes through a job queue (pg-boss, in the same database) to
workers in the same Node.js process; Shopify is reached only from those workers.

## 1. Inventory

Paths are relative to `loyalty-service/src/`.

### 1.1 Ledger and lots: `ledger/`

* State: `ledger_entries` (append only, signed points), `point_lots` (one per
  credit, `remaining_points`, optional expiry), the cached columns of
  `customers` (`tier`, `lifetime_spend_gbp`, `lifetime_points`).
* Operations: append an entry, create a lot, sum the balance, sum the spendable
  balance (live lots only), consume lots oldest first.
* Used by: every other component, always inside that component's transaction.
* Hard: two representations of the same points, kept together by convention
  only; a database clock that moves lots from live to expired between steps;
  ties in the order of consumption.
* Correct when: every credit has its lot; lots and entries never drift apart; a
  debit draws the oldest live lots first and nothing goes below zero.

### 1.2 Earning, clawback, tiers, referrals: `earning/`, `tier/`, `referral/`

* State: rows of the ledger, `customers.tier`, `customers.lifetime_spend_gbp`,
  `referrals`.
* Operations: signup credit, paid order (order points by tier, first-purchase
  bonus, the referrer's second reward, spend and tier), claiming a referral
  code, refund, cancellation.
* Hard: each is driven by at-least-once webhooks in any order; what has been
  done before is found by searching the ledger; clawbacks round, clamp to what
  the member still has, and accumulate.
* Correct when: nothing is earned twice; an order never gives back more than it
  earned; the stored tier is the tier the stored spend earns.

### 1.3 Redemption and the discount code worker: `redemption/`, `shopify/adminGateway.ts`, `plugins/idempotency.ts`, `idempotency/`

* State: `redemptions`, `discount_codes`, `idempotency_keys`, the queue's jobs,
  the codes that exist at Shopify, and the local variables of running handlers.
* Operations: `POST /v1/redeem` behind the idempotency gate, the redeem
  transaction, the enqueue after it, the job handler (two reads, a loop of
  calls to Shopify with back-off, then either the transaction that saves the
  code or the one that gives the points back).
* Interaction: request -> transaction -> queue -> worker -> Shopify -> database.
* Hard: retries of the request racing the request; a delivery that expires
  while its handler still runs, so that two handlers work on one redemption; a
  crash between a call to Shopify and the database; an answer that never
  arrives.
* Correct when: one spend per key; one reversal at most; either a code or the
  points; a member is never left waiting by a job that was queued.

### 1.4 Expiry, adjustments, migration: `expiry/`, `admin/adjustments.ts`, `migration/`

* Operations: the daily scan that empties matured lots, an operator's signed
  adjustments, the backfill of the members of the old system (M1) and the
  script that reverses it.
* Hard: scans and backfills that run twice; adjustments that bypass lots; two
  operators, or an operator and the live service, at work on the same members,
  some of whose transactions the row lock of an upsert stops and some not.
* Correct when: a lot expires once, for what is left; a migrated balance is
  posted once; a reversal never takes away what members have done since.

### 1.5 Webhook receiver and worker: `plugins/webhooks.ts`, `webhooks/`, `worker.ts`

* State: `webhook_events` (the id of every delivery, a status), a queue.
* Operations: verify, record the id if new, enqueue, acknowledge; process,
  record the outcome.
* Hard: redeliveries, a crash between recording and enqueuing, deliveries out
  of order, retries of a job that was half done.
* Correct when: an event takes effect at most once, and eventually once.

### 1.6 Scheduler and sweeps: `scheduling/`, `expiry/preExpiryNotify.ts`

* State: `scheduled_runs`, `pre_expiry_notifications`, the queues of the daily
  run and of the mails.
* Operations: claim the jobs that are due (one UPDATE), send them; expire
  matured lots; notify about lots that will expire; send the mails.
* Hard: a host that sleeps and dies at any time; claim and send are not one
  step; a notice is published on another connection inside a transaction that
  may roll back; redemptions draw on the lots meanwhile.
* Correct when: missed work is only late; a lot is warned of before it expires,
  with the amount it holds; notices too many are those of sweeps that failed.

### 1.7 Caches and reconciliation: `shopify/metafieldCache.ts`, `shopify/coalescingCache.ts`, `reconciliation/`

* State: display values in Shopify metafields, an in-memory cache of reads, the
  cached columns of `customers` and `point_lots.remaining_points`.
* Operations: refresh one member, read through, reconcile everything with the
  ledger.
* Hard: refreshes that collapse or overtake each other; joining a read that
  began before one's own write; a reconciliation that writes absolute values it
  derived from reads that are no longer true.
* Correct when: the storefront comes to show the ledger; a repair does not undo
  what was committed meanwhile.

### 1.8 Bookings: `benefits/`, `admin/benefitRequests.ts`, `idempotency/`

* State: `benefit_requests`, `admin_audit_log`, `idempotency_keys`.
* Operations: a member asks for a benefit; an administrator confirms, fulfils,
  declines or cancels the request; a response is kept for a day.
* Hard: repeats of one HTTP request; two administrators who have read the same
  status; the change and its audit record must stand or fall together.
* Correct when: a repeat does not book again within the window; what was decided
  stays so; no change is unattributed.

### 1.9 The rest

Portal, profile and catalogue routes (reads, single-row writes), privacy exports
and deletions, authentication, markets, analytics and administration views,
backups, theme sources and scripts. They are listed with their status in
`PROJECT.json`.

## 2. The modules

| Module | What it is |
| --- | --- |
| `Tier` | the pure rules: thresholds, multipliers, points of an order and of a refund |
| `Account` | abstract: what the ledger promises its members about points |
| `Ledger` | the database: one action per committed transaction |
| `LedgerProofs` | theorems about `Ledger` |
| `MCLedger` | the instance of `Ledger` TLC checks |
| `Settlement` | abstract: what a redemption promises its customer |
| `Redemption` | one redemption from the HTTP request to the discount code |
| `RedemptionProofs` | theorems about `Redemption` |
| `MCRedemption` | the instance of `Redemption` TLC checks |
| `Webhook` | webhooks from the request to their effect and recorded outcome |
| `MCWebhook` | the instances of `Webhook` TLC checks |
| `WebhookProofs` | theorems about `Webhook` |
| `Isolation`, `MCIsolation`, `IsolationProofs` | the transactions of one member cut into statements, with their locks; its instances; theorems |
| `DueWork`, `MCDueWork`, `DueWorkProofs` | recurring jobs, the expiry run and its notices on a host that sleeps |
| `Metafields`, `MCMetafields`, `MetafieldsProofs` | the display cache of one member |
| `Migration`, `MCMigration`, `MigrationProofs` | the backfill and its reversal, beside the live service |
| `Booking`, `MCBooking`, `BookingProofs` | the booking of a benefit and what staff do with it |

### Ledger

Variables are the tables (`known` is the set of `customers` rows; `ledger` the
set of `ledger_entries`; `lots` maps the id of an entry to the lot that backs
it; `redemptions` and `referrals` as in the schema), the id sequence and the
clock. An action is a whole transaction as its handler commits it, all the
inserts and updates included; a transaction that rolls back or finds nothing to
do is a stutter.

| Action | Code |
| --- | --- |
| `EnrolWithoutAward` | `enrollment/ensureCustomerEnrollment.ts`, the row only |
| `EarnSignup` | `earning/signup.ts` `earnSignup` |
| `ClaimReferral` | `referral/referral.ts` `recordReferralOnSignup` |
| `OrdersPaid`, `EnrolByWorthlessOrder` | `earning/order.ts` `handleOrdersPaidJob`, `earnOrder`, with `awardReferralFirstPurchase` |
| `Refund`, `Cancel` | `earning/clawback.ts` |
| `Redeem` | `redemption/redeem.ts`, the transaction |
| `MarkIssued`, `ReverseSpend` | `redemption/generateDiscountCode.ts`, the two transactions |
| `Adjust` | `admin/adjustments.ts` |
| `ExpiryScan` | `expiry/expiryScan.ts` |
| `Migrate` | `migration/m1Backfill.ts` |
| `Tick` | the database clock |

Abstractions. Money is in pence and points are integers, as in the code. Time is
a small counter; lots created by one transaction share `earnedAt`, which is told
by the id sequence, so two lots tie exactly when one transaction wrote them.
`place` stands for a lot's ctid and changes, or not, when the lot is updated. The
entries' `order`, `event`, `key`, `lot` and `referred` are the columns and the
parts of `reason` the code searches by. Transactions are serial here: what the
missing row locks allow is the subject of `Isolation`. `ClaimReferral` does
not have the check for an earlier paid order as a guard, because the route makes
it before the transaction begins.

`Account` has no entries and no lots: a member has a balance and a purse, which
is what a debit can take. Its actions say how these may move. Points are received
or lapse; an order earns once (`Earn`) and gives back at most what it earned
(`GiveBack`); a redemption is paid out of the purse (`Redeem`) and repaid at most
once and in full (`Repay`); in all of these balance and purse move by the same
amount. The one action that moves a balance alone is an operator's `Withdraw`,
because a negative adjustment consumes no lot; and under the other policy for
clawbacks (`AllowNegative`) a `GiveBack` takes from the balance what the purse may
not hold. `Ledger!KeepsAccounts` is the refinement. The mapping reads what the
code computes from its tables:

| `Account` | `Ledger` |
| --- | --- |
| `balance` | `Balances`: the sum of a member's entries |
| `purse` | `Purses`: what is left in the lots, matured ones included until a scan |
| `earned`, `returned` | `EarnedOn`, `ReturnedOn`: sums over the entries that name the order |
| `paid`, `repaid` | `PaidFor`, `Repaid`: the cost on the redemption's row; whether the adjustment that reverses it is there |

`Earn`, `Redeem` and `Repay` also say what the properties of `Ledger` do not: that
all the points an order brings its payer are found again by a refund of it, and
that nobody else's points move when a member redeems, is repaid or gives back.

### Redemption

One redemption, that is, one customer and one idempotency key. `request` is how
far each HTTP request with that key has come, `stored` what the idempotency
store holds, `status`/`codeId`/`codes`/`spends`/`reversals` the rows, `live` the
codes at Shopify, `job` the queue's row for the job each request may enqueue,
and `handler` the state of each delivery. A handler is named by the request
whose job it works on and the number of the delivery, and so is the code it
makes up. Each step is one statement or one call; the redeem transaction, which
holds the customer's row lock, is a single step, and so is the transaction that
saves the code, which waits for the row lock (`rowLock`) of a reversal under way.

| Action | Code |
| --- | --- |
| `Arrive`, `Answer` | the two hooks of `plugins/idempotency.ts` |
| `Redeem`, `Replay`, `Refuse`, `RedeemFails` | `redeem` and the mapping of its errors in `routes/v1.ts` |
| `Enqueue`, `EnqueueFails` | the end of `redeem` |
| `Deliver`, `Expire`, `Report` | pg-boss, external: retry limit 2, expiry 15 minutes, the handler not told |
| `Load`, `Find` | the two reads of `processDiscountCodeJob` |
| `Mint`, `CallFails`, `Throttled` | the loop of `adminGateway.createSingleUseDiscount` |
| `Save` | the transaction that stores the code |
| `Fail`, `Check`, `GiveBack` | `reverseSpend`: update, look for a reversal, append and commit |
| `StatementFails`, `WorkerDies` | a database error; the end of the process |

`CallFails` covers every outcome that is not an answer: Shopify may or may not
have created the code. Waiting times are left out, so whether a streak of
failures fell within its window is a choice. The store's window of 24 hours is
in `Booking`, the cache refreshes in `Metafields`.

`Settlement` says what is promised: points are spent once, then either a code is
handed over or the points come back, and only a handler that outlived its
delivery may add the other outcome. `Redemption!KeepsPromise` is the refinement.

### Webhook

A few events, some about the same order, and the copies Shopify sends of each.
`request` is how far each copy has come through the receiver, `row` the status in
`webhook_events`, `job` and `handler` as in `Redemption`, `effects` the number of
transactions of an event that changed the member's rows. What such a transaction
writes is in `Ledger`; here an event is one of three kinds: `earn` (a signup, or
an order worth a point), `trifle` (an order worth less) and `clawback`.

| Action | Code |
| --- | --- |
| `Receive`, `ReceiveFails` | `handleVerifiedWebhook` up to the insert and its answer |
| `HandOff`, `HandOffFails` | the enqueue that follows, and the 5xx of the route |
| `Deliver`, `Expire`, `Report` | pg-boss, external, as in `Redemption` |
| `Earn` | the branches `customers/create` and `orders/paid` of `dispatchWebhookJob` |
| `LookUp`, `Claw` | `clawback`: the look-ups, then the rest up to the commit |
| `DispatchFails` | a payload that is refused, a statement that fails |
| `MarkProcessed`, `MarkFailed` | `dispatchWithOutcome` and `recordOutcome` |
| `WorkerDies` | the end of the process |

`Earn` is one step because both transactions begin with an upsert that locks the
member's row. `clawback` takes no such lock, so two handlers may both have looked
up before either commits. A commit may succeed and its answer be lost (`Commit`);
writing the outcome may fail, which the worker swallows. Signature checks, events
the service does not act on, and the refresh of the cache are left out; so is
the deletion of rows older than 30 days.

### Isolation

The transactions of `Ledger` again, for one member, cut into the statements
PostgreSQL runs at READ COMMITTED. Variables: the lots, the negative entries,
the columns `tier`, `lifetime_spend_gbp` and `lifetime_points`, a clock, and for
each transaction how far it has come (`step`), what it has read (`local`) and how
often it was tried. `rowLock` is who holds the member's row for an update,
`lotLock` who holds each lot. Writes appear with the commit; a statement that
meets a locked row waits and, as the server does, reads the row again.

| Action | Code |
| --- | --- |
| `Ask`, `Begin`, `LockCustomer`, `CheckRedeem` | `redeem` up to the sufficiency check, its `asOf` taken before the transaction |
| `ReadClawback`, `Measure` | `clawback`: the look-ups, then the clamp to the spendable balance |
| `SelectLots`, `CommitDebit` | `consumeLotsFifo` and the rest of a redemption or a clawback |
| `SelectMatured`, `CommitExpiry` | `runExpiryScan` |
| `CommitAdjustment`, `CommitOrder` | `applyAdjustment`, `earnOrder`, as one statement |
| `LoadCustomer` ... `CommitReconcile` | `reconcileCustomer`, with the replay of the debits over the lots (`Replay`: `LOAD_DEBITS_SQL`'s order by `created_at, id` is a fold that applies the `Latest` debit last) |
| `LockTimeout`, `DeadlockDetected`, `ConnectionLost` | `SET LOCAL lock_timeout`, PostgreSQL's victim, any error: roll back, and the queue may try again |

`RowRefusesShares` says that only `SELECT ... FOR UPDATE` keeps another
transaction from inserting an entry, which takes a key share of the member's row.
`Blockers` and `Free` are the waits that `DeadlockDetected` breaks.

### DueWork

`scheduled_runs` and one of its jobs, the daily expiry run, on a host that falls
asleep and is woken. `age` is how long ago each job was claimed, `left` how long
each lot has; both are relative, so that time needs no bound.

| Action | Code |
| --- | --- |
| `Boot`, `Listen` | the registration of the jobs, the pass before the service listens |
| `Claim`, `Publish`, `ClaimFails`, `PublishFails` | `runDueWork`: one UPDATE, then one `send` per job |
| `Deliver`, `TimeOut` | pg-boss, external |
| `Scan` | `runExpiryScan`, first in the handler |
| `Select`, `LockSelected`, `Notify`, `Finish` | `runPreExpiryNotify`: the query, the rows it locks as they now are, a notice and its record per lot, the commit |
| `HandlerFails` | the sweep's transaction rolls back, the notices stay published |
| `SendPreExpiryEmail` | `processPreExpiryEmailJob` |
| `Spend` | a redemption draws on a lot |

### Metafields

One member's `loyalty.*` metafields. What a value shows is the set of commits it
takes account of, so that staleness is a missing element. A commit owes a
refresh (`owing`) until it is enqueued or the enqueue fails; jobs waiting under
one singleton key are one (`Collapses`). A writer, the worker or a
reconciliation, reads the row and the sums in separate statements, then writes,
trying again with the snapshot it has. The expiry scan has no enqueuer
(`Silent`).

### Migration

Operators run `runM1Backfill` or `runM1Recovery`, each a transaction of many
statements, with the live service going on. `op` is how far each operator's
script has come and what it has seen; what it wrote is invisible until its
commit. A live transaction is one step, of one of two kinds:

| Action | Code | A backfill that holds the row |
| --- | --- | --- |
| `Earn`, `Redeem` | `earnOrder`, `redeem` | makes it wait: both lock or write the row first |
| `Adjust`, `Clawback`, `Expire` | `applyAdjustment`, `clawback` (downgrade off, as deployed), `runExpiryScan` | lets it by: an entry's foreign key takes a key share, and `ON CONFLICT DO UPDATE` changes no key |

`RefusesShares` says what does stop the second kind, a row that a reversal has
deleted and not committed. `Reconcile` is one statement for each member; `summed`
is what those statements saw, so that `Late` can name the entries that came
after. The foreign keys on `customers` are what a reversal runs into when a member
has become active after its inspection (`Referenced`). What a reversal has
deleted of the lots also holds up those who draw on them (`LotsDeleted`). The
bounds `MaxRuns` and `MaxLive` are in the guards. The environment and store checks
of the recovery and the validation of the export come before the transaction and
are left out. Live amounts are one point each.

### Booking

Left: the HTTP requests that carry one idempotency key, the store with its window
and the insert of `requestBenefit`, which has no key of its own. Right: operators
who read on the pool, update under a guard and record the audit in one
transaction. `moves` is a history of the changes of status that were committed,
against which the audit trail is compared; `excused` remembers whether anything
happened that takes a repeat out of the gate's scope.

## 3. The runs

| Run | Shows |
| --- | --- |
| `ledger` | the tables stay consistent and keep the accounts of `Account`, whatever order the transactions commit in |
| `redemption` | one spend, one reversal, codes that work, `Settlement` implemented, and a queued job that ends in a code, a reversal or a failed job |
| `webhook` | of racing copies one is accepted, an order earns once under any ids and retries, a refund takes back once, the outcome recorded is true, and a queued job is done or ends as failed |
| `isolation` | what survives READ COMMITTED: one spend per key, a repair that does not undo one debit; more than the earnings clawed back, or a tier lowered, only when a read was stale; every transaction ends |
| `duework` | notices are accounted for and say what remains; while nothing fails no lot expires unwarned; whatever fails, every lot expires and every notice is sent |
| `metafields` | when all is quiet the storefront is current unless something failed or overlapped; it converges to the ledger in any case |
| `migration` | one opening entry per member, a backfill that sums to the export but for what commits without the member's row, a reversal that loses nothing |
| `booking` | one booking per key within the gate's scope, decisions that stand, no change without its audit record |
| `full_refund` | violation: a full refund leaves points on the order |
| `redemption_codes` | violation: one redemption can have two live codes |
| `webhook_lost` | violation: a webhook is recorded and never handed off |
| `lot_expired_twice` | violation: a reconciliation beside two scans lets one lot be expired twice |

Bounds. `ledger` has two members (a friend and a referrer, the latter migrated),
three orders (one that jumps two tiers, one that is worth a point only after
that, one that is worth nothing), two webhook ids, one key, and up to five
entries and two ticks. That is enough for an order with its bonus and the
referrer's reward, two partial refunds and a cancellation of it, a redemption
with its reversal, lots that expire half drawn, and the migration twice. It
reaches about 464,000 states. All its properties are also proved, as are the
safety and action properties of the other modules, which takes the bounds out of
the question for them. `NothingTwice` is the conjunction of
`ExpiredOnce`, `RedeemedOnce` and `EarnedOnce`, and `PointsBacked` that of
`CreditsBacked` and `LotsBackBalance`.

`redemption` has a request and a retry, three deliveries of the job, up to two
calls per delivery with a streak of two: two handlers can overlap and a third
follow, and each way of ending the calls happens (the deployed values are 10
calls and a streak of 3, which add length and no new order of events).

`webhook` lets race, one pair per behaviour: two copies of one order's webhook,
two webhooks about one order, an order and its refund; and an order worth no
point by itself. Each job has two deliveries (the deployed retry limit of 2
would add a third): handlers of one job overlap, and handlers of two jobs about
one order do. `AppliedOnce` excuses a second clawback of an event only when a
handler has outlived its delivery (`overlapped`); Requirement 4.9 makes no such
exception.

`isolation` has a matured lot of three points, an order's lot of two, and the lot
an order may bring; two redemptions with one key, two clawbacks of one order, two
scans, an order, an adjustment and a reconciliation, of which the sets in
`MCScenario` run together: every pair that shares tables, the triples in which a
third changes what the others have read, and a reconciliation beside two scans,
beside a scan and a refund, and beside a scan and a redemption (the scheduler
claims the daily expiry and the reconciliation in one pass, and nothing keeps the
two apart). One retry each. 187,000 states. `lot_expired_twice` runs the set
`{rec, c1, e1, e2}`, a refund between the reads of a reconciliation and two scans
around its write, without retries; the violation is found after some 140,000
states. With retries that set has more than five million, too many for the
passing run. What the passing run checks of it, `EveryoneEnds` apart, is proved
for every scenario.

`duework` has two jobs, two passes and two handlers at a time, a lot that is
warned of in time and one that starts inside the window, an interval of two, a
window of three and up to two failures, enough for a run that is lost and a
sweep that rolls back after another has published. 677,000 states.

`metafields` has three changes (one of them silent), a worker and a
reconciliation, two attempts and one failure. The worker of one instance takes
one job at a time, so overlaps are those of the worker and a reconciliation; more
instances would add writers of the same kind.

`migration` has two members in the export and one outside, two operators, three
script runs and two live transactions: the order in which the members are
visited, a script that meets another half way, a live transaction of either kind
before, between and after the statements of each, a re-run and a re-run after a
reversal. An order that is refunded, or earned points that expire, while a
backfill is under way take the two live transactions. 1,338,000 states.

`booking` has three requests, two operators, three transitions and a window of
one tick, which lets a row pass the window and block the next one.

Symmetry is used where the values are interchangeable and no liveness is checked
(webhook ids, operators, requests).

Every property of a passing run has a mutant in `PROJECT.json`: a plausible bug,
written beside the definition it replaces under the heading "Fault", that the
run detects.

Deadlock is not checked: a shop where nothing more happens is a legal end, and
the bounds end every behaviour anyway. `Isolation` states the deadlocks of the
database itself as waits (`Blockers`) and checks `EveryoneEnds`.

### Fairness

`FairSpec` of `Redemption` assumes weak fairness of the enqueue that follows a
commit, of the queue's delivery and expiry, and of a handler that is running.
The first is the next line of the same request; the second are the queue's own
timers, persisted in the database, which go on after a restart; the third says
that an `await` that is pending ends, one way or another. Nothing makes requests
arrive or faults happen, and a crash at any point is allowed. `FairSpec` of
`Webhook` assumes the same of its enqueue, queue and handlers, and that Shopify
sends the copies; an enqueue or a handler may still fail.

`Isolation`: some transaction that can execute its next statement does, and
PostgreSQL looks for deadlocks; no lock timeout is assumed. `DueWork`: the
service does what it can and the clock goes on; the host is woken by requests,
and failures are limited by `MaxFaults`, without which nothing could be promised.
`Metafields`: every writer goes on, and the reconciliation comes round again,
which is `DueWork`'s `MissedWorkCatchesUp` for its job; nothing makes a refresh
be enqueued.

### What the violations say

* `full_refund`: `handleRefundJob` passes neither the order's eligible total nor
  the earning rate, so it takes back one point per refunded pound. An order that
  earned more (a tier above bronze, a first purchase) keeps the difference.
  Requirement 4.4 and the header of `clawback.ts` say its net is zero.
* `redemption_codes`: Shopify is called before anything of the new code is
  stored, and every delivery makes up a new code. Property 10 asks for one.
* `webhook_lost`: the id is recorded by one statement and the job enqueued by
  another call. When that call fails, the copies Shopify sends next are answered
  as duplicates, so the failure that should make it send again hides the loss.
  Requirement 12.4 wants exactly one copy handed off.
* `lot_expired_twice`: a reconciliation reads the lots, a refund draws on one of
  them and commits, the reconciliation reads the debits, so that the lot seems to
  differ from the ledger. The lot matures, a scan expires the rest of it, and then
  `reconciliation/reconcile.ts:458` writes that rest back, an absolute number; the
  next scan expires it a second time (21 states). `expiry/expiryScan.ts:144` says
  "no lot is ever expired twice", and Property 9 of the design asks for it. Every
  other transaction leaves an empty lot empty, which is what
  `IsolationProofs!ExpiresOnce` shows; a scan by itself does what it should
  (`IsolationProofs!ExpiresWhatRemains`).

### Noticed while modelling

Differences between text and code that no run is about:

* `ledger/balance.ts:270` relies on updates leaving a row where it is ("ctid
  preserves creation order"); PostgreSQL writes a new version elsewhere, so lots
  of one transaction that were drawn from lose their place. `Ledger` has it
  (`place`).
* `redemption/redeem.ts:518` lets the failure of the enqueue propagate for "the
  compensating-reversal path"; the route has none, and a retry is answered from
  the row. `Redemption` has it (`EnqueueFails`).
* `earning/order.ts:390` says a replay returns before the totals are written; an
  order of less than a point leaves no entry to be recognised by. `Webhook` has
  it (`trifle`).
* Property 8 and Requirement 4.3 bound the clawbacks of an order by its earnings
  without exception; two clawbacks that have both looked up before either
  commits exceed it. `ClawbackExceedsOnlyInRaces` is what is left. In the same
  way a reconciliation that read the spend before an order was paid lowers the
  tier the order has advanced (`TierLoweredOnlyByStaleReads`).
* `reconciliation/reconcile.ts:305` says the replay matches the live history; the
  live debits date expiry from `asOf`, taken before the transaction, the replay
  from the entry's `created_at`, and adjustments are replayed although live ones
  draw on no lot. `SingleDebitSurvives` leaves both cases out. It is about one
  debit: when two commit around a reconciliation's reads, the first on the lots it
  has read and the second on lots it has not, its absolute remainders can undo
  what they drew. That is also how a lot comes to be expired twice, above.
* `migration/m1Backfill.ts:598` compares each member's sum with the migrated
  points before the commit and reports success on the strength of it. What takes
  only a key share, an adjustment, a clawback or an expiry, is not held up by the
  upsert, and may commit after the sum: the report is then untrue by that entry.
  `BackfilledIsTrue` is what is left, with such entries (`Late`) set aside.
* The upsert of M1 (`migration/m1Backfill.ts:507`) sets tier, lifetime points and
  lifetime spend from the export before the script looks whether the member was
  migrated already. A re-run that finds its members' sums at the migrated points,
  though they were active in between, posts nothing and overwrites what they have
  earned in standing; one that finds other sums is refused. The runbook (546, 613)
  and `m1-backfill.mjs:88` call a re-run idempotent.
* `admin/adjustments.ts:255`: a negative adjustment writes an entry and draws on
  no lot, so the spendable balance may exceed the balance. `PointsBacked` and
  `ActivityKept` therefore count only the entries that lots stand behind
  (`Backed`); no document says the two amounts agree after one.
* `redemption/generateDiscountCode.ts:364` marks a redemption issued on the
  strength of a status read earlier. A handler that outlived its delivery may so
  issue a redemption which a later delivery has reversed: the member keeps the
  points and has a code. `Settlement` allows both only once a handler is late.
* `scheduling/dueWork.ts:221` stamps a job as run before it is sent. When the send
  fails for the expiry run, a lot may pass through its last window without a
  notice: `WarnedUnlessTrouble` is about hosts on which nothing has failed, and
  what `MissedWorkCatchesUp` promises after a failure is the expiry, and the mail
  of notices that were published.
* `scheduling/dueWorkScheduler.ts:105` says that after an error "the next tick
  simply retries"; a job that was claimed and not published waits for its next
  interval.
* `shopify/metafieldCache.ts:429` says a refresh is enqueued after any change of
  balance; the expiry scan has no enqueuer, and the reconciliation makes up for it.
* `admin/adjustments.ts:218` and `:299` say a failed enqueue of a refresh does
  not fail the adjustment; the call is not guarded, so the request fails after
  its commit.
* `admin/benefitRequests.ts:386` records as `fromStatus` the status read before
  the transaction, which another operator may have changed; `EveryMoveAttributed`
  therefore speaks of author and target.
* `idempotency/store.ts:85` says that entries older than the window are treated
  as absent; the look-up does ignore such a row, but it blocks the next insert
  (148), so its key is never deduplicated again; the in-memory store replaces it.
  `Booking` has the blocked insert, and `BookedOnceUnlessExcused` excuses what
  follows a request that came after the window: it checks the gate in the first
  window only.

## 4. The proofs

TLAPS checks every theorem for all values of the constants that satisfy the
named assumptions: any set of members, orders, keys, amounts and bounds in
`Ledger`; any set of requests and any limits in `Redemption`
(`RedemptionConstants`: the limits on calls are positive, the retry limit is a
natural number, and NULL is neither a handler nor a response).

### `LedgerProofs`

`Core == TypeOK /\ Numbered /\ RedemptionsCost` is the induction. `TypeOK` alone
is not inductive: that a new entry's id is fresh, and so that `lots` stays a
function whose domain is a set of entry ids, needs `Numbered` (ids in use are at
most `serial`); that a reversal credits a positive amount needs
`RedemptionsCost` (a redemption that exists has a cost).

All transactions are described by one formula, `Effect(new)`: the entries `new`
are added with fresh ids, every crediting one among them with its lot, and other
lots only shrink. One lemma per action (`SignupEffect`, `OrderEffect`,
`ClawbackEffect`, ...) says what `new` is, and `StepEffect` collects them. From
there each theorem is a statement about `Effect`:

| Theorem | Says | Strengthening |
| --- | --- | --- |
| `TypeCorrect`, `CoreHolds` | types, numbering, costs | `Core` |
| `CreditsAreBacked` | a credit has exactly the lot that backs it | with `Core` |
| `TierIsEarned` | the stored tier is the tier the stored spend earns | the ratchet is monotone (`AdvanceTierIs`) |
| `LotsExpireOnce` | a lot expires once, in time, and is emptied | an expired lot stays empty |
| `RedemptionsSpendOnce` | one spend of the cost, one reversal iff failed | `Redeemed`: a key marks only spends and reversals |
| `EarningsAreOnce` | no earning twice | `Earned`: entries in pairs (`PairOK`), and the referral row agrees with them |
| `NothingHappensTwice` | `NothingTwice`, the three before it together | |
| `OrdersNeverOverclawed` | no order gives back more than it earned (`ClawbackWithinEarnings`) | `OrdersCovered`: and only earnings and clawbacks name an order |
| `OldestLiveLotsGoFirst` | a debit takes the oldest live lots, each only when those before it are empty (`DrawsOldestLiveLots`) | `Core` |
| `LotsMatchBalance` | what is left in a member's lots is the sum of what they back (`LotsBackBalance`) | `LotsBacked`: and `Placed` |
| `PointsAreBacked` | `PointsBacked`, with `CreditsAreBacked` | |
| `ImplementsAccount` | every step is a step of `Account` or a stutter (`KeepsAccounts`) | `Placed`, `Earned`, `Attributed` |

`OrdersNeverOverclawed`, `OldestLiveLotsGoFirst`, `LotsMatchBalance` and
`ImplementsAccount` are about sums. The module has a theory of finite sums:
`Total(F, A)` with its value on a union, a part, a difference and a renamed set,
shown to be what the community module's folds compute (`SumPointsIs`,
`SumLeftIs`, `SumRemainingIs`). The library's induction theorems take an
operator as a parameter and cannot be used, so `SubsetInduction` is first-order:
"what holds of a set once it holds of its proper parts" is a set of sets, and a
least exception exists because strict inclusion is well-founded on the subsets
of a finite set. `DrawnInOrder` is the arithmetic of drawing lots one after
another: what is drawn adds up to what was asked, if it is there.

`StepShape` says that a transaction gives credits with lots, draws lots with one
debit, withdraws points as an operator (no lots), is an expiry scan, or leaves
both tables alone; the sums are followed through these five.

`Placed` is what makes `LotsBacked` inductive: two lots of a member that both
have points and were earned together differ in place. If they did not, neither
would come before the other and a draw would take from both what it needs once,
and the balance would be short. An update may move several lots behind all
others at once, in no order; it does no harm because every lot a draw touches
but the last is emptied (`EarlierIsDrained`), so at most one of them is ever
drawn on again. TLC finds `Placed` true on `MCLedger` as well.

`LotsBackBalance` is about the deployed policy, a clawback that stops at zero
(`~AllowNegative`), as is the hypothesis in its statement. The others hold under
either policy.

`ImplementsAccount` has a lemma for each action (`SignupReceives`, `OrderEarns`,
`ReturnGivesBack`, `RedeemPays`, `ReversalRepays`, `ScanLapses`, ...), which
`AccountStep` collects. They rest on what a transaction does to one member's sums:
`CreditFillsLots`, `DrawTakesFromLots` and `ScanEmptiesLots` say by how much the
lots of each member grow or shrink, and the invariant behind `LotsMatchBalance` is
kept by corollaries of the same three. `Placed` is needed here too, since a draw
must take exactly what was asked. `Attributed` says that an entry an order has
earned is its payer's, and comes with the order's own points. Without it
`OrdersPaid`, which looks among its customer's entries for the order's own, could
find none while a bonus for the same order is there, and earn on it twice;
`Earned` gives the rest. Where a reversal finds itself posted already, only the
row changes and the accounts stutter.

### `RedemptionProofs`

`Inv` adds to the properties what makes them inductive:

* `Ownership`: a spend exists exactly when the row does, and only the request
  that made it has, or will have, a job, so all handlers belong to one job.
  `SpentOnce` follows.
* `Locked`: the handler between the update and the commit of a reversal holds
  the row lock, so what it found when it looked for a reversal is still true
  when it commits. `ReversedOnce` would not be inductive without it: it is the
  lock, and not the look-up, that makes handlers reverse once.
* `Minted`: a handler about to save has created its code. `IssuedCodeWorks`
  follows.
* `Serial`, `Undecided`: as long as no handler outlived its delivery at most one
  is running, and one past its first read has seen no outcome. That is what the
  refinement needs.

One lemma per action shows that it keeps `Inv`; the steps that write no row
share `WritesNothing`, and those that move one handler share `HandlerMoves`.
`ImplementsSettlement` maps `Redeem` to `Spend`, `Save` to `HandOver`,
`GiveBack` to `GiveBack`, `Expire` to `Outlive` or a stutter, and everything
else to a stutter.

### `WebhookProofs`

No assumption but the types of the constants: any events, copies, retry limit.

* `Inserted`: of the copies of an event exactly one has passed the insert, if
  the event has a row, and only that one can have enqueued a job. `AcceptedOnce`
  follows (`AcceptsOnce`).
* `Numbered`, `Counted`: a handler has started only if its delivery was made, and
  an event has had no more effects than deliveries that have done their part.
  Without it `TypeOK`, which bounds the effects, is not inductive.
* `Serial`, `Truthful`: as long as no handler outlived its delivery an event has
  one at a time; and a handler that is about to record success, or to take back,
  has seen what is still on the ledger, because earnings are never removed.

`AppliesOnce` and `ProcessedWasDone` are conjuncts of the invariant: an order
earns once because the look-up and the insert are under the member's row lock; a
clawback has no such lock, and needs `Serial` for its share.

### `BookingProofs`

* `OneAtATime`: without an excuse one request is in the handler, none once an
  answer is kept, and the only booking is that request's. `BooksOnce` follows.
* `Guarded`, `Exclusive`: between its update and its commit an operator's
  transaction holds the booking's row alone, so the guard is still true at the
  commit. That gives `DecidesOnce`, an action property: no matter what both
  operators read, the update looks again.
* `Recorded`: no transaction comes to its commit without the audit record, hence
  `AttributesEveryMove`.

### `MigrationProofs`

`MigratesOnce` is about the order of statements: the upsert locks the member's
row before the look for an opening entry. `Checked` says that what the look found
is still true at the commit, for the member being checked and for all those that
will get an entry. `Inspected` and `Cleared` are needed because of reversals: a
member whose row is deleted has nothing left but what is in the plan, so a
reversal leaves no entry behind for a later backfill to duplicate.

A second induction, `Books`, is about sums, and the module has the finite sums it
needs: how a balance, and what is left in lots, changes with one row more.

* `RowsHeld`, `Agreed`: from its upsert on a backfill holds the row of each
  member, all of them when it reconciles. `Agreed` is about the members it has
  summed (`Summed`): what it counted then is what it would count now, an entry
  that needs only a key share being counted if it was there at the sum
  (`Counted`). An order or a redemption of such a member waits, and another
  script too; an adjustment, a clawback or an expiry adds an entry, which is not
  counted. `BackfillsTruly` (`BackfilledIsTrue`) follows.
* `Apart`: what a reversal plans to delete are migration entries, which only the
  cohort has, and their lots. Deletes are by id, so this needs `Numbered`: ids are
  never given again, and a lot belongs to one entry. With `Cleared`, the commit
  leaves the cohort with nothing and everybody else with everything.
* `Kept`, `Balanced`: live entries stay, and lots add up to the entries they stand
  behind (`Backed`), hence `KeepsActivity`. `LiveKeepsBooks` does the five live
  transactions at once: each adds one entry with a fresh id and changes at most
  one lot, by the points of that entry if it is backed.

### `MetafieldsProofs`

`CollapsingLosesNothing` (`QuietMeansCurrent`): `InHand` says of every change
whose refresh was asked for that a job is waiting that will read it, or a writer
is under way that has read it or has yet to, or the storefront shows it. The step
that makes it work is that a job leaves the queue's singleton slot when its
handler begins, before the first read; and `Alone` that nobody writes an older
snapshot later.

### `DueWorkProofs`

Assumes that `Handler` is finite (sweeps are counted) and that the window is
longer than the interval, as 30 days are than one. Two inductions. The first, of
all behaviours, is about locks and notices: a lot that a sweep notifies is locked
by it alone (`Held`) and holds what the sweep found, which gives
`NoticesTellTheTruth`; what an open sweep has notified is not on record yet
(`Unsettled`), which gives `NotifiesAccountably`. The second, `Timely`, is of
the behaviours without a failure: one expiry run exists at a time, no time passes
over it, whatever is within the window stays in its view until it is notified,
and between runs a lot without a notice has more than the rest of the window to
live. `WarnsInTime` follows; it is an invariant, and needs no fairness, because
time cannot pass a run that is due.

### `IsolationProofs`

`Inv` says what each transaction may rely on between its statements, and is shown
for every set of transactions and every scenario, with deadlocks, lock timeouts,
lost connections and retries in all places:

* `HoldsRow`, `MaySpend`: a redemption past its look-up holds the member's row,
  so that no spend has come since. `SpendsOnce` follows.
* `HoldsLots`, `HoldsDrifted`: who has selected lots, or is about to overwrite
  some, holds them, and selected lots still have points.
* `ReadSpend`, `TierEarned`: what a reconciliation read of the spend is no more
  than the spend, and no tier is above the one the spend earns. An order only
  raises the tier, so `LowersTierOnlyWhenStale` (`TierLoweredOnlyByStaleReads`)
  follows. The assumption is that an order adds to the spend.

`OthersStaySound` is the lemma all steps share: a transaction is sound as long as
its locks are its own and what they protect is untouched. The waits themselves
(`Free`) are used only to see that nobody takes a lock another has.

`ExpiresOnce` is the claim of the run `lot_expired_twice` with what it lacks as a
hypothesis, `NoneRefills`: no reconciliation's commit gives points to a lot that
is empty at that moment. It says nothing of which transactions run together:
reconciliations and scans do. So the one way to a second expiry is the one of the
counterexample; scans among themselves, redemptions, refunds, adjustments and
orders have no part in it. `ExpiresWhatRemains` has no hypothesis: the entry of a
scan is for what the lot holds at the scan's commit, and empties it, because the
scan's lock keeps debits and reconciliations away between its select and its
commit.

`TypeCorrect` is more than its name: no lot is drawn below nothing or grows
beyond its first size, though redemptions and clawbacks compute from reads that
others overtake and a reconciliation writes absolute values. `Typed` adds to
`Inv` what each transaction has noted on its way (`Note`): an amount that is
positive and, for a clawback, within the head-room it read; selected lots that are
still as they were seen, because they are locked; and remainders to write that
lie between nothing and the lot's size. The last is about `Replay`, a fold in the
order of the debits, so no two debits may tie in that order: `Placed` says that
debits differ in when their transaction began, or are expiries of different lots.
`ReplayIs` and the lemmas before it follow the fold. From the
same invariant `ClawsBackWithinWhatItRead` (`ClawbackExceedsOnlyInRaces`): what a
clawback takes is within what it read, so more than the order earned goes only if
another clawback of it committed since.

`OneDebitSurvives` (`SingleDebitSurvives`) is the reconciliation's correctness
where the code can have it: before any lot matures and until a second entry. Its
invariant, `Calm`, has two cases. While no debit is committed, whoever has read
the lots has read them whole (`ReadWhole`). With one debit, the lots are as that
debit left them (`Drawn`), and what a reconciliation is about to write is that, or
what it read (`ReadAround`). The order of the reads makes this work: lots before
debits, so that a debit whose mark on the lots was seen is also found among the
entries.

Assumed of the constants (`IsolationConstants`): there are finitely many lots, of
positive sizes; an order paid meanwhile brings the newest lot, since its
`earned_at` is `now()`; its points add to the spend; and NULL is no id.

### Model-checked only

* Liveness (`EnqueuedSettles`, `HandedOffSettles`, `EveryoneEnds`,
  `MissedWorkCatchesUp`, `CacheConverges`), because it needs fairness.

Of `Isolation`, the passing run has a scan and a reconciliation together in
triples; `EveryoneEnds` of larger sets is neither checked nor proved. All other
properties of the passing runs, invariants and action properties alike, are
theorems.

## 5. What is left out

All the modules planned are there, with proofs about each concrete one. What the
project leaves out, and why:

### Not modelled

* The theme and the storefront's scripts, the portal's pages, its read model and
  the other routes that read: most of the lines of the
  repository. They compute views of the state modelled here and have none of
  their own that outlives a request, except the coalescing read cache, about
  whose freshness no document says anything.
* Writes of a single row on behalf of one request (preferences, favourites,
  birthday, portal visits, tier history), and the exports and deletions for
  privacy: one statement or one transaction, no ordering of steps to get wrong.
* Configuration and stateless checks: authentication, signatures, markets,
  channels, validation of inputs, the definitions of benefits.
* Operator tooling that runs once, with the service stopped, on files and on
  Shopify: the export (M0), the rollback of the metafields and of the theme,
  backups. What it shares with the service is only read.
* The random codes of referrals and of discounts, beyond being different, and
  the amounts and wording of mails.

So the share of the repository's lines the models stand for stays small: what is
modelled is the part whose steps interleave, fail and repeat.
