# Renew API gateway: a TLA+ model of its billing core and its web console

Renew API (this repository, a fork of new-api) is a gateway in Go that forwards AI
requests to upstream channels and charges users for them, with a web console in
TypeScript. This directory holds TLA+ modules that model the parts of it in which
money, limited resources and identities are handled by several processes at once,
TLC configurations that check them on small instances, and proofs that TLAPS checks
for every size.

The model is written from the code under `src/`; `PROJECT.json` maps every
definition to the lines it stands for. Definitions keep the names of the code
where TLA+ allows it. A definition that stands just before another one and is
described as a faulty variant ("A query that counts processed rows ...") is not
used by the specification: it is a plausible bug, kept to show that a property
would notice it.

## 1. Inventory

| Component | Keeps | Operations | Hard part |
|---|---|---|---|
| billing ledger (`model/billing_ledger.go`) | one row per request: state, applied, target, counted quota, channel, version; balances of user, token, subscription; usage counters | reserve, reserve more, bind, acknowledge, settle, refund, mark for reconcile, stale refund/mark, replay, retry mark, task update with billing | operations repeat and arrive in any order; a row, its balances and its event must move together |
| billing outbox (`model/billing_outbox.go`) | outbox rows in the main database, audit events in the log database | enqueue, process a batch | two databases, two replicas, a crash in between |
| billing session (`service/billing_session.go`) | what one request has reserved and achieved | open, extend, prepare, settle (3 forms), refund, mark after an error | lost answers, marks that fail too, death of the process |
| billing reconciler (`service/billing_reconciler.go`) | lists read at the start of a phase | sweep stale reservations, replay intents, flush the outbox | acts on old lists beside live sessions and other replicas |
| task billing and polling (`service/task_billing.go`, `service/task_polling.go`, `model/task.go`, `controller/midjourney.go`, `relay/relay_task.go`) | copies of task rows | progress, finish with billing, mark, bulk failure, fetch by a user | compare-and-swap with stale copies, races with the session, writers that do not tell the ledger |
| subscriptions (`model/subscription.go`) | total, used, period, status; pre-consume records | reserve, reset, expire, invalidate, delete, clean | period ends while a reservation is open |
| API tokens (`model/token.go`) | remaining quota, unlimited flag | edit, delete | deleted or edited while requests are open |
| token limits (`service/token_limit.go`, `middleware/token_limit.go`) | leases in Redis, counters in memory | acquire, renew, release; per-minute windows | failing Redis, late scripts, timeouts |
| relay handlers (`controller/relay.go`, `relay/mjproxy_handler.go`) | one request | retry, settle, refund | which error leads to which billing call |
| channel selection, failover, stream staging | attempt state, staged output | choose, retry, commit | nothing may be retried after output was committed; a timer races the first frame |
| channel health | failure counters, status per channel and model, caches | record success or failure, disable, recover | caches written out of order |
| payments and top-ups (`controller/topup.go`, `topup_stripe.go`, `model/topup.go`, `payment_snapshot.go`; console `features/wallet`) | order rows, checkout sessions; the page's quotes, confirmation and payment window | quote, confirm, order, bind, webhook, manual completion, reconciliation, watch | quotes out of order, prices changed in between, payments before the binding or after the end, webhooks twice or failing, a page that is left or stops waiting |
| console account boundary (`stores/auth-store.ts`, `lib/api.ts`, `main.tsx`, route guard, sign-in, OAuth, sign-out; `middleware/auth.go`) | per tab: account, session version, query cache, requests; shared: cookie and localStorage | query, guard, sign in, sign out, storage event | any tab changes the account while requests of all tabs are on the wire |
| system settings forms (`features/system-settings/hooks`; `controller/option.go`, `model/option.go`) | form values, baseline, two remembered snapshots; the options, and their copy in each replica | edit, reset, save by field or in bulk, refetch; store, roll back, read, load | snapshots arrive during edits and saves, from replicas that are behind; half of a save fails or is stored late; other administrators |
| Responses WebSocket | sessions, lanes, pending turns and bytes | create, cancel, run, shut down | cancel and shutdown race running turns |
| batch updater and caches, adaptors, pricing, administration, rest of the console | | | data conversion, forms, presentation and statistics; outside the core |

How they interact: a handler opens a *session*, which reserves quota in the
*ledger* (user wallet or subscription, and token) and later settles or refunds
it. Each ledger transaction also inserts an event in the *outbox*. When a
transaction fails, the session *marks* the row with its intent
(`reconcile_required`); *reconcilers*, one per replica on a ticker, replay such
intents, refund reservations nobody has touched for the timeout, and copy the
outbox to the log database. Asynchronous requests end with an acknowledged
*task*; a *poller* follows it upstream and settles or refunds the ledger in the
same transaction that finishes the task. Before all this a middleware takes a
*concurrency slot* of the token and gives it back when the handler returns.

The console talks to the server over one axios instance. Its *auth store* says whose
tab it is; the session cookie and localStorage are shared by all tabs, so requests are
stamped with an account scope and answers of another scope are dropped. The *wallet page*
orders top-ups: the server writes the order, a payment *provider* is paid outside of it
and reports to a webhook, which credits the wallet the ledger later charges. *Settings
forms* edit options that any administrator may change.

What makes them correct:
- ledger: quota is neither created nor lost; a refund is final and never
  repeated; counters equal charges; a version identifies a row's content; each
  move of money leaves exactly one event;
- outbox: every event reaches the log database, once;
- sessions and reconcilers: a settlement stands; live requests are not swept;
  no row is forgotten;
- tasks: an accepted task is charged until its poller says otherwise;
- limits: the limit holds, slots come back;
- top-ups: an order is credited once, for what was paid and at the price the user confirmed; a
  payment arrives, early or late, or is kept for review;
- account boundary: no tab keeps data of another account than the one it asked for, and
  every tab follows the account the browser is signed in with;
- settings: a save changes what was edited and nothing else, a form that says it is saved shows
  what the server has had, and it does not lock out what the server says next.

The hazards, each at its line with the properties that watch it, are listed in
`PROJECT.json`.

## 2. Modules

| Module | Content |
|---|---|
| `BillingOutbox` | outbox and its workers |
| `Escrow` | abstract specification: what the ledger promises a user about the wallet |
| `BillingLedger` | all ledger transactions, the balances they touch, task rows, and administrative acts; every order of transactions is allowed |
| `MCBillingLedger` | symmetry for TLC |
| `BillingService` | extends `BillingLedger` by the processes that call it: sessions, reconcilers, pollers with what they remember between transactions |
| `TokenConcurrency` | the concurrency limit of a token |
| `Purchase` | abstract specification: what topping up promises the user and the operator about an order |
| `TopUp` | an order from the wallet page to the credit, with the provider and the administrator around it |
| `ConsoleAccount` | the tabs of a browser, their stores and requests, the shared cookie and storage |
| `SettingsForm` | one settings form, its query and its mutations |
| `BillingOutboxProofs`, `BillingLedgerProofs`, `BillingLedgerSteps`, `BillingServiceProofs`, `TokenConcurrencyProofs`, `TopUpProofs`, `ConsoleAccountProofs`, `SettingsFormProofs` | theorems |

### BillingOutbox
A row is its id. `List` is the query of `ProcessBillingOutboxContext`;
`WriteAudit` the insertion into the log database with `OnConflict DoNothing`,
`WriteAuditFails` its failure with backoff, `MarkProcessed` the update in the main
database, `Abort` every place where a pass ends early or its process dies. Ids
become visible out of order because they are drawn before the commit.

### BillingLedger
`ledger[r]` is the row of request `r` (`LedgerRow`): `applied` is what is charged
now, `target` and `desired` the intent, `counted` what statistics contain, `stale`
and `due` the two clocks (updated long ago; next retry reached). Every
transaction of the file is one action. The common core is `Transit`
(`mutateLockedBillingLedgerTx`): `Commits` are its guards and early returns,
`Finished` the new row, `AdjustBalances` and `UpdateCounters` the writes to wallet,
token, subscription, user and channel, `Emit` the outbox row. A transaction whose
guard fails is rolled back and is not a step; `SettleRejects` and `RefundRejects` in
`BillingService` tell the caller so. Task rows and midjourney rows are one
variable: they differ in columns, not in their life cycle. `task[r].upstream` says
whether the row still knows the upstream identifier, without which a poller cannot
ask. Administrative acts (credit a wallet, edit or delete a token, delete a
channel, end a period, end a subscription, clean records) are actions guarded by
the constant `Admin`, so a run switches on those it is about.

Modes: `off`, `shadow` and `enforce` differ in who moves balances and counters, as
in the code. Prices are arbitrary members of `0..MaxQuota`.

### BillingService
A session, a reconciler and a poller do one transaction per step and remember its
answer. A transaction can be rejected, rolled back, or committed with its answer
lost; processes can die. Rollbacks, lost answers and deaths are faults, bounded by
`MaxFaults`. `Open`, `Extend`, `Prepare`, `SessionSettle`, `AcknowledgeTask` followed by
`SettleTask`, `SettleMidjourney`, `SessionRefund`, `MarkSettle` and `MarkRefund` are the
methods of `BillingSession` and the calls its handlers make after errors; a synchronous
handler only logs a failed settlement, a midjourney handler refunds. A reconciler goes
through its phases (`NextPhase`), reads a list (`BeginPhase`) and works it off with
the version fences of the ledger (`Sweep`, `Reconcile`), marking what failed. A
poller loads a row (`LoadTask`), and later writes progress, finishes the task with
the ledger, marks an intent after an error, or fails it in bulk when its channel cannot be read
(`PollBulkFail`: `CacheGetChannel` fails for a deleted channel, for one that is not cached yet and for
a database that does not answer). A user who fetches a task of Gemini or Vertex makes the server ask
the upstream too (`FetchLoad`, `FetchWrite`: `tryRealtimeFetch`) and write the answer back with
`UpdateWithStatus`. Neither tells the ledger: a task failed by them keeps its charge, a task finished
by a fetch keeps the price of its submission. A midjourney row is inserted with the status the
upstream reports of a task it knows already, `FAILURE` included, and with its settlement.

### TokenConcurrency
`leases` is the Redis sorted set, `age[r]` the time since the lease was written (its
score), `keyAge` the time since the key's expiry was set. A Redis call is sent, runs,
and answers; the client may give up at any moment, and then the script is in
`late` and may still run at any later time. `slot[r].worker` is the renewal goroutine,
`since` its `time.Since(lastRenewed)`, `tick` the time to its next tick. `Tick` lets time
pass when no timeout or ticker is due, that is, local steps take no time. A crash
ends the requests of a replica and clears its memory counter; its leases remain.

### TopUp
`page` is the state of the wallet page and of `usePayment` (its refs and its React state,
read at the end of a render), `quotes` its quote requests on the wire. `req[o]` follows the payment
request of order `o` on the server: asked, row inserted, session open, created or refused; `waits` says
whether the page still awaits the answer, which ends with the answer, an error or the timeout of
the request while the server goes on (`GiveUp`). `row[o]` is the `top_ups` row with its payment snapshot.
`checkout[o]` is the provider: what it asks for, its receipt, the events that have happened (`sent`)
and those that are not acknowledged (`due`); `monitor[o]` is `monitorPaymentWindow`. A database
transaction of the server is one step (`CreateOrder`, `BindStripeCheckout`, `EpayPaid`, `StripePaid`,
`StripeEnded`, `ManualComplete`, `AdminBind` and `AdminResolve` of the reconciliation), and between any two of them
the page, the provider and the administrator act.

The provider is paid, ends the session, or both in either order, as soon as the session exists. So a paid
event comes before the binding (and is refused until then), after the order ended (and completes it, as
`payment_snapshot_test.go:84` has it), or after it was completed by hand. A receipt has a subtotal, a discount, a tax and a
total, as `stripeReceiptFromCheckout` reads it: the subtotal may fall short of the order, because the price kept at Stripe
is not the one configured here, and promotion codes and taxes apply. A session that needs no payment is one
with a discount of the whole price. `Validates` is `validate` on these four; what does not fit is
kept for review (`paid_review`) and acknowledged. `Webhook` delivers an event, also one that was acknowledged before; its answer may be lost, and
`WebhookFails` is a transaction that is rolled back. The quota of a Stripe order is fixed in its
snapshot; an Epay order is credited at the `QuotaPerUnit` of its completion. Money is counted in tenths of a cent,
because the two conversions of a price (two decimals for the gateway, the exact product in the Epay
row) differ there: `Cents` and `OrderMoney`. The Stripe fingerprint is the pair of amount and unit
price it is computed from. `Purchase` sees of all this the row's status, what it is worth, who completed it, whether it is
under review, the credit and whether the provider has the money.

### ConsoleAccount
`cookie` and `stored` belong to the browser, `user`, `version`, `cache` and `verified` to a tab. A
request is asked (`Query`, `Start`), passes the request interceptor and leaves with the cookie of that moment
(`Dispatch`), is answered (`Answer`: `authHelper` compares header and cookie; login and logout replace
the cookie when their answer reaches the browser, even for a page that is gone), and is delivered
through the response interceptor to its caller's continuation (`Deliver...`). Each continuation is one step up to its next await.
`Announce` raises the storage events of a write, `StorageEvent` is the listener of `main.tsx`; a reload
abandons the tab's requests.

### SettingsForm
`values` and `base` are the form, `applied` and `deferred` the two snapshots the hook remembers, `shown` the
snapshot in the query cache. The effect of the hook runs in the step that causes its render (`Effect`).
A save keeps what its closure holds (`save.seen`, the snapshot of the render it began in). An input may be
`Unset`, an emptied number, which the section's `onSubmit` skips while the hook moves the baseline over it, or `Rough`,
which the server stores in a normal form (`Stored`). The schemas refuse non-finite numbers, so the `'0'`
of `pricing-section.tsx:163` is not reached.

`server` stands for the database and the `OptionMap` of the replica that stores, which take the options of
a save one by one (`Store`) under `optionUpdateMutex` and are rolled back if one cannot be applied (`Fail`, `RolledBack`). A save
that is given up may be stored later (`late`, `StoreLate`). `replica` is the `OptionMap` of another replica, loaded now and
then (`Sync`); `GetOptions` reads either (`Read`). A confirmed mutation asks for the options again, unless a GET is on
its way: then `api.get` hands out that one (`Confirm`), whose answer may be older than the save. `held`,
`touched` and `saved` are history for the properties.

## 3. Runs

| Run | Shows |
|---|---|
| `outbox` | two workers, three rows, batch of two, two faults: no event twice (`AuditedAtMostOnce`), none marked but missing (`ProcessedIsAudited`), every row delivered (`Delivered`) |
| `ledger_pair` | two requests share wallet, token and channel in enforce mode: `WalletConserved`, `TokenUseExact`, `StatisticsExact`; a refund is never refused by the balances (`RefundNeverBlocked`); the ledger implements `Escrow` |
| `ledger_task` | one asynchronous request, two channels, token edited or deleted, channel deleted: the inductive invariant (types, coherent rows, counters, events), and what no transaction may do (`RefundIsFinal`, `VersionGrows`, `CountedChannelIsPinned`, `MoneyMovesArePublished`) |
| `ledger_subscription` | two requests over two subscriptions that are reset, expired and deleted: a record is refunded with its row (`RecordFollowsLedger`), and what a subscription has used is exactly what its requests are charged less what resets waived (`SubscriptionUseExact`) |
| `service_sync` | synchronous request, two reconcilers, two faults: `SettlementStands`, `OnlyOrphansAreSwept`, `Recovers` |
| `service_task` | asynchronous request with its poller, bulk failures and fetches by a user, a reconciler, two faults: once the upstream has accepted the task, only its poller turns the charge into a refund (`AcceptedTaskIsCharged`); `Recovers` |
| `service_midjourney` | `Recovers` for the midjourney handlers, with a deleted channel |
| `token_concurrency` | two requests, two replicas, one slot: `LimitHeld`, `HolderIsCounted`, `OverrunIsBounded`, `MemoryCountExact`, `SlotsReturn` |
| `top_up` | one order by Stripe or Epay, two prices, receipts that fall short, with a discount and a tax, two quotes, a fault: orders are completed with their credit once and for good, an ended order only by its payment, and one under review does not end (`PurchaseSpec`); for what was paid, less an allowed discount (`CreditIsPaid`), at the price confirmed (`StripeCostsWhatWasShown`, `DialogShowsItsQuote`); payments are credited or kept for review (`PaymentsArrive`) and the page stops waiting (`WatchEnds`) |
| `top_up_rounding` | the same order with a price of 6.934: a payment that never arrives, see section 6 |
| `console_account` | two tabs, two accounts, two requests at a time, three in all: switches are announced (`SwitchAnnounced`), requests are shared within a scope (`SharedWithinScope`), late answers are dropped (`LateAnswersDropped`), accounts are mixed only during a switch (`MixingNeedsASwitch`), tabs follow the stored account (`FollowsStoredAccount`) |
| `settings_form` | two options of two values, one of which may be emptied, two replicas, two edits, one foreign write, one failure: a form with nothing to save shows what the server has had, but for emptied fields (`CleanMeansSaved`); a save overwrites only what was edited (`SavesOnlyEdits`); after an undisturbed save the form shows what the server holds once the section does (`FreshIsShown`) |

`CHECK_DEADLOCK FALSE` is set in the outbox, ledger and console account runs, whose
specifications may come to rest when every row is finished or every user has left; the
service and the limiter always have time or a ticker left, a settings form can always be
refetched, and a wallet page can always be left and a price be changed.

### Bounds
- `MaxQuota` 1 or 2: two different non-zero prices are needed to tell a correction
  up from one down; one is enough where only "charged or not" matters.
- `MaxVersion` 3, 4 (ledger runs): every pair of consecutive transitions after a
  reservation, in every order; longer histories add nothing that the
  inductive invariant does not already cover. 7 to 14 (service runs): high enough
  that the bound is not reached in a behaviour with `MaxFaults` faults, so that liveness
  is not blocked by it.
- `InitialWallet`, `InitialRemain`, `MaxWallet`, `SubTotal`: so small that a second
  request, an extension or a settlement above the reservation meets the limit.
- `MaxFaults` 2 (3 for midjourney): a fault and a second one in the recovery from it.
- Two reconcilers for synchronous requests, so that their lists overlap; one for
  tasks, which have sessions and pollers besides. The proofs hold for any number.
- `TokenConcurrency`: the ratio of the code's durations (lease = 4 renewals, call timeout
  at most half a renewal) with the smallest numbers, 8, 2 and 1. No bound on time is needed.
- `TopUp`: one order, because orders share nothing but the page, which the proofs cover for any
  number; two quotes, so that one is late; two prices, so that the price changes and changes
  back; a shortfall of the whole higher price and a discount of the whole lower one, so that an order may cost nothing but its tax; one fault at any place.
  `GraceChecks` is 1, the code's is 2: the first check after the window closed and the last one still differ.
- `ConsoleAccount`: two tabs and two accounts are what a switch needs; three requests allow a
  query that overlaps a sign-in and one after it. `MaxAsks` bounds them because a
  session version grows with every switch.
- `SettingsForm`: two fields, so that a save can be half done; two values, so that a write can be undone;
  two edits, so that a save has two options to send or one edit comes during it. Longer histories are
  covered by the proofs of the two properties that have one.

### Fairness
- Outbox: listing, copying, marking and the end of a backoff are weakly fair: the
  ticker of `RunBillingReconciler` restarts passes, and time passes. Faults are
  bounded and not fair.
- Service: each reconciler step and the passing of time are weakly fair. Nothing is
  assumed of sessions, pollers or administrators, since a handler may hang and a
  process may die for good.
- Limiter: tickers, timeouts and time are weakly fair; nothing is assumed of Redis, of
  handlers or of clients.
- Top-ups: a provider repeats an event until it is acknowledged, and the page's timer runs while its
  watch is on. Nothing is assumed of users, administrators or the page's requests.
- Console account: browsers deliver storage events. Requests may stay unanswered.
- Settings form: none. Nothing says that a form settles on what was saved: its refetch may fail, join an older
  GET, or be answered by a replica that is behind.

## 4. Proofs

| Theorem | Says |
|---|---|
| `ProcessedEventsAreAudited`, `EventsAreAuditedAtMostOnce` | outbox, any number of rows, workers and faults |
| `LedgerInvariant` | `LedgerInv` is an invariant of the ledger |
| `RefundedStaysRefunded`, `VersionsFence`, `CountedChannelStays`, `EveryMoveIsPublished` | the four action properties |
| `WalletIsConserved`, `TokenUseIsExact`, `SubscriptionUseIsExact`, `StatisticsAreExact` (together `LedgerConserves`) | balances and counters are the sums over all requests, for any finite number of them |
| `RefundsAreNeverBlocked`, `RecordsFollow` | the invariant errors of the source are unreachable for a wallet request whose token and channel exist; records are refunded with their rows |
| `ImplementsEscrow` | the ledger implements `Escrow` |
| `ServiceTypes`, `ServiceImplementsLedger`, `ServiceKeepsLedger` | `ServiceSpec => Spec`: the processes do only what the ledger allows, so all of the above holds of the running service |
| `ServiceConserves`, `ServiceImplementsEscrow` | what follows for the user: no death, lost answer or retry creates or destroys quota or makes a refund impossible |
| `ReconcilersSweepOrphans`, `SettlementsStand`, `AcceptedTasksAreCharged` | the safety properties of the service |
| `LeaseInvariant`, `LimitIsHeld`, `HoldersAreCounted`, `HoldersAreLimited`, `OverrunBounded`, `MemoryCountIsExact` | the limiter, any number of requests and replicas, all durations |
| `TypeCorrect`, `ConfirmationIsCurrent`, `OrdersCreditedOnce`, `CreditsArePaid`, `StripePriceIsConfirmed`, `OnePaymentAtATime` | top-ups, any number of orders, amounts, prices, quotes and faults |
| `ImplementsPurchase` | `TopUp` implements `Purchase` |
| `AccountTypes`, `SwitchesAreAnnounced`, `SharingStaysInScope`, `LateAnswersAreDropped`, `MixingMeansASwitch` | account boundary, any number of tabs, accounts and requests |
| `FormInvariant`, `CleanFormIsSaved`, `OnlyEditsAreSaved` | settings forms, any number of options, values, refetches and failures |

All hold for every value of the constants that satisfies the named assumptions of the
modules: bounds are naturals, the set of request ids is finite (they are bounded strings, `varchar(64)`), `None` is not a
channel, and for the limiter the call timeout is positive and below the renewal
interval, and both together are below the lease; prices are at least a cent (`minPayMoney`) and
there is a tab; for the forms, an emptied input is not a value and the normal form is one.

**Ledger.** `LedgerInv` is a conjunction of statements about single rows. None of
them is inductive alone: that a counted quota equals the applied one needs that
reservations are uncounted; that a terminal row has its event needs that no event
is ahead of its row's version; that records follow the ledger needs that terminal
rows are at their target. The proof first shows, per transaction, what the new row and
the balances look like, then that a row so written is again coherent, and that
all other rows are untouched. For the action properties and the refinement every step
is classified once (`StepEffect`): it opens, adjusts, voids or leaves the hold of
one request. Each property then follows from the classification.

**Conservation.** The laws relate a balance to a sum over all rows (`SumFunction`), so they are not
statements about single rows. The classification says, of the one row a step writes, that wallet, token, subscription
and counters move by exactly what the row's part of them moves (`BalancesFollow`, `CountersFollow`); administrative
steps change none of those parts. What is left is that a finite sum changes by what one of its
terms changes. The library's sum is a fold, that is, a `CHOOSE` over a recursive function on subsets; the lemmas from
`SubsetInduction` to `SumZero` show that such a function exists, is unique, and may be unfolded at any element. The
provers cannot instantiate an induction scheme, so the induction is stated with sets: the subsets of the domain without
the property have a minimal element under the well-founded strict-subset order, which is refuted. `RefundNeverBlocked`
then follows: each term is at most its sum, so what a refund takes back is there.

**Service.** What processes remember is only ever used behind a fence. The
invariant is the ledger's, plus types, plus that a poller's remembered outcome is one
that its task can have. `AcceptedTaskIsCharged` needs one fact more (`ChargedInv`): once the row of a task knows its upstream
id, or a poller or a fetch holds a copy that does, the reservation is over and the session is past calling `Refund`. So a
sweep finds nothing, a refund that was intended before has been replaced by the acknowledgement and its replay is fenced by its version, and
what is left is the poller. `SettlementStands` needs to know in addition that snapshots
in the reconcilers' lists are not newer than the row, and that a snapshot with the
row's version has the row's intent; that is what `VersionGrows` is for.

**Limiter.** `LeaseInv` relates what a request waits for to where it is
(`CallFits`), its timers to each other (`TimerFits`: the next attempt comes before
lastRenewed is a lease ago; the lease was written at most one call timeout before
lastRenewed) and the sorted set to the holders (`LeaseFits`: an answered lease is in the
set; the key is never older than a lease in it, so its expiry drops only expired ones). `MemoryCountExact` is about a
cardinality: `Counted(n)` is the set of requests that hold a slot of replica `n`'s counter, and every step leaves
that set alone, adds one request to it with the increment, removes one with the decrement, or empties it with the
counter when the replica crashes.

**Top-ups.** `CreditedOnce` needs to know which rows and checkouts go with which stage of a
request. `StageFits` says that a checkout has events only once it is open, that nothing is open or paid before the request is
sent, that Epay's checkouts neither expire nor fail and have neither discount nor tax, and that a watch has one remaining
count. `OrderFits` adds, per order, that nothing exists before its row, that a Stripe row has a quota to credit and costs
the price the user confirmed, that the order is credited exactly when its status is success, that an order completed by its
payment was paid with a receipt that covers it, and that a request on the wire carries a fingerprint of the price confirmed.
`PageFits` carries the last link: a fingerprint on the page belongs to the price on display, the
price was quoted for what is entered, an open confirmation is not calculating, and the newest quote
on the wire asks for what is entered. For the refinement, each step of an order rests or is one of `Moves`: it places the order,
pays, completes, reviews or ends it, and other orders do not change. A completion by payment is possible from every status but success, as in the
code; that an order under review does not end is the guard of `EndStripeCheckout` on the payment state.

**Account boundary.** `AccountInv` joins the types and `SwitchAnnounced` with `RequestFits`: a
query's callers share its scope, a request that was sent carries the `uid` of its scope in its
header, and a positive answer to a query, a guard or a finalizing request is owned by the account
of its scope. The action properties follow: when an answer is accepted its scope is the current
one, hence its owner is the stored `uid`. That an account is mixed into a tab of another needs
`stored.uid` to differ from the tab's `user`, so either the two keys differ or, by
`SwitchAnnounced`, an event is on its way.

**Settings forms.** `FormInv` joins the types with three facts. `SnapshotsHeld`: the options of the server and of the replica, the
answer of a fetch under way, the snapshot on display and those a save keeps consist of values the server has had, and so does the
baseline, but for emptied fields and values that were normalized. `SaveFits`: a save lands only what it sent, sends only what it has to
do, and has to do only what was edited and is not empty; every submitted value that is not still to be stored is empty or one the server has had.
`EditsFit`: only edited fields differ from the baseline.
The middle one carries the proof: when the last mutation is confirmed nothing is left to be stored, so the submitted
values may become the baseline; after a failure they may not, and the code keeps the old one.

## 5. What is only model-checked, and what is left out

Every safety invariant and action property of the runs but `FreshIsShown` is also proved. Only by TLC: that one; all
liveness (`Delivered`, `Recovers`, `SlotsReturn`, `PaymentsArrive`, `WatchEnds`, `FollowsStoredAccount`), because fairness
and ENABLED are beyond the prover; and all violations.

Left out of the modelled components: the choice between wallet and subscription
(`NewBillingSession`; the model chooses freely), sessions and tasks without a ledger
(old rows), batch limits of the reconciler's lists, computation of prices, caches and
notifications (no ledger transaction reads them), purchase and plan management of
subscriptions, per-minute windows of the limiter, changes of a token's limit
while requests are open. The marks and refunds of a session run in goroutines in the code;
the model lets them happen at any time or, with a fault, never. Of the task pollers, tasks that
timed out before the ledger existed are left out, and rows without any identifier, which are failed in bulk too, are covered by `PollBulkFail`; a task is fetched by one user at a time, and an upstream does not take back a success.

Left out of `TopUp`: Creem, Waffo and Waffo Pancake (their completion follows the Epay
pattern), subscription orders, receipts in another currency or with shipping (a further reason for a review), an order
whose snapshot is missing, a second session for an order, the display of amounts in tokens, the default quote
before the user has typed an amount, the process-local `LockOrder` (the row lock makes the
transaction atomic without it) and the balance caches. The server also accepts a Stripe order without
a fingerprint; the page always sends one. An Epay order has none, so its price may change
between the confirmation and the order; `StripeCostsWhatWasShown` claims nothing of it.

Left out of `ConsoleAccount`: localStorage that refuses writes, account binding, passkeys and
two-factor sign-in (they end in `handleLoginSuccess` too), access tokens, roles and bans. A reload is one step.

Left out of `SettingsForm`: the rules of validation (a refused save is a failed one), the conversion of option strings, a
rollback that fails, a replica that loads the database while another one is between its database and its `OptionMap`, sections that do not use
the hook.

### Not modelled

`components` in `PROJECT.json` gives a reason for each. Most of the repository's TypeScript, some
230 000 lines, is presentation: form layout and editors (`features/channels`, `features/system-settings`),
tables and charts, shared components, generated files (`routeTree.gen.ts`), icon loaders and translations. Their state is local to a component and
changes by one event at a time, or is a copy of a query the server answers; there is no order of steps
to get wrong that a model would reach and a component test would not. What the console does across
awaits, tabs and requests is concentrated in the files that `ConsoleAccount`, `SettingsForm` and `TopUp` map, and in the
playground's stream, which is next in the plan. The map therefore covers a small share of those
lines, and grows by such files only. In Go, protocol adaptors and price computation are functions of
their input, covered by the repository's tests.

## 6. Findings and differences

**Epay rounding** (`top_up_rounding`, `controller/topup.go:268`): the order keeps the exact price, the gateway is asked for two
decimals. When rounding goes down, what the user paid does not cover the order, and every
notification is refused. Quoted in `PROJECT.json`. Waffo Pancake writes its order and formats its price the
same way (`controller/topup_waffo_pancake.go:395`, `:413`, `model/topup.go:638`).

The following formulas state what a document or a comment says; TLC refutes each with the
configuration named. They are kept in the modules, beside the properties that do hold.

1. `RefundsRecover` (`TokenDeleted.cfg`, `BillingService`): docs/ARCHITECTURE.md:73 says that failed requests and
   orphaned reservations are recovered by the reconciler. The refund of a request whose token was
   deleted matches no token row and fails as a whole, wallet leg included (`billing_ledger.go:1269`); it is
   retried for ever. The subscription leg behaves alike (`billing_ledger.go:1329`): a reservation that outlives
   its period cannot be returned (`Sources = {"subscription"}`, `Admin = {"reset subscription"}`).
2. `FailuresAreReturned` (`ChannelGone.cfg`, `BillingService`): docs/billing-ledger-enforce.md:13 says that refunds and
   terminal states of tasks share a durable transaction, and `model/task.go:444` says of the bulk update not to
   use it in billing flows. `task_polling.go:335` uses it for tasks whose channel cannot be read; they keep their charge. So do tasks whose failure a
   user's fetch writes first (`relay_task.go:475`), because no poller looks at a finished row.
3. `PriceIsFinal` (`TaskPrice.cfg`, `BillingService`): `task_polling.go:556` says the adaptor decides the final quota. The
   settlement after the acknowledgement (`billing_session.go:289`) carries no version and can overwrite the price at which the
   poller has finished the task in between.
4. `StopsBeforeExpiry` (`LeaseOverrun.cfg`, `TokenConcurrency`): `token_limit.go:216` says "Stop before the lease expires if
   Redis remains unavailable." The goroutine measures from the arrival of the last answer while the lease runs from
   its writing; an answer that took longer than a later failure makes it try once more, at the moment of
   expiry. `OverrunBounded` proves how late it can get.
5. `NeverMixed` (`AccountMixed.cfg`, `ConsoleAccount`): `main.tsx:68` says "Reload rather than mixing its identity with this tab's
   mounted components and private local state." One tab is between the login and the profile of account a when an OAuth
   login of another tab stores b; the first then stores a's `uid`, is reloaded as b, and queries with a's
   header. `MixingNeedsASwitch` says how far this goes: the two keys of localStorage must differ.
6. `SavedStaysShown` (`SettingsStale.cfg`, `SettingsForm`): `use-settings-form.ts:295` says the snapshot on display is marked as handled
   so that it does not overwrite the values just saved. A refetch caused by the first field of a save may
   arrive before the second field is stored; the save then marks the snapshot of its own render, not that one,
   and the effect shows the old value of the second field until a later refetch brings the new one (`FreshIsShown`). Relatedly,
   edits typed during a save are dropped by `form.reset(data)`, and after a save that failed half way the
   baseline is older than the server until a refetch.
7. `CleanShowsStored` (`SettingsUnset.cfg`, `SettingsForm`): `numeric-field.ts:54` says an emptied field is written as `undefined` "so
   optional settings can be unset", and `system-info-section.tsx:258` calls a form that "reported "saved" while displaying something the server
   never stored" a mistake. `pricing-section.tsx:155` skips what is `undefined`, and `handleSubmit` then moves the baseline over it: with another option
   changed in the same save, the form is clean with an empty field while the server keeps the old value. `CleanMeansSaved` therefore
   excepts emptied fields.

## 7. Plan

Done: outbox, ledger with conservation and refinement, service, concurrency limit, top-ups with refinement,
account boundary and settings forms, with their proofs.

Next, in this order:
1. `BillingOutbox` as an abstract log that each event enters once, with the events of `BillingLedger` as its input.
2. `TopUp`: subscription orders with their purchase limit, composition of
   the credit of `Purchase` with the wallet of `Escrow`.
3. `BillingService`: loss of the upstream identifier by a stale poller write
   (`UpdateWithStatus`); lists cut at the batch size and whether failing rows can starve
   others; the preference and fallback between subscription and wallet (`NewBillingSession`).
4. `StreamFailover`: attempts, candidates, staged output, the first-frame timer; abstract
   specification "output of at most one attempt reaches the client, and an attempt is
   repeated only if nothing was sent".
5. `Playground`: the stream of a conversation, stop and regenerate.
6. `ChannelHealth`: failure counters, status rows, caches with read-back; caches converge.
7. `TokenRate`: windows of requests and tokens per minute against a reference definition.
8. `ResponsesWebSocket`: lanes, cancellation, terminal events, shutdown; one terminal event per turn.

`service_midjourney` can be folded into `service_task` once the handler of an asynchronous request is chosen
when its session opens.
