# A formal model of micro-erp-saas

micro-erp-saas is a multi-tenant back office for shops that sell on credit: a
NestJS backend (`src/backend`) on PostgreSQL through TypeORM, and a Next.js
frontend (`src/frontend`). This directory holds TLA+ modules of its core logic,
the TLC configurations that check them on small instances, and TLAPS proofs of
what matters most for every instance. `PROJECT.json` maps every definition to
the source lines it models.

Run `tlc -config MCLedger_core.cfg MCLedger` for a run, `tlapm LedgerProofs.tla`
for the proofs of a module.

## The system

Paths are below `src/backend/src/`. All state of the backend is in PostgreSQL (READ
COMMITTED, row locks, unique indexes), one set of rows per tenant; a queue in Redis
carries reset mails. Handlers of concurrent HTTP requests interact only through the
tables: a row one handler has read may change before it writes. The browser keeps a
copy of what it was last shown, and a cookie with the token.

| component | state | operations | what makes it correct |
|---|---|---|---|
| `modules/transactions` | `transactions`, `idempotent_batch_operations`, `customers.balance_cents` | debt, payment, mixed payment, reversal, forgiveness, inflation batch | the balance is the sum of the transactions; one posting per idempotency key; rows are immutable; a row is annulled once |
| `modules/customers` | `customers` | create, update, credit limit, block toggle, promise, merge | a merge moves history and debt together; limits are in force when debts are judged; phone and dni are unique |
| `modules/cash-register` | `cash_register_logs`, `tenants.active_cash_shift_id`, `transactions.cash_register_log_id` | open, close, summary | one open shift; every payment counted in one shift; a close counts what it freezes |
| `modules/cron` (overdue) | `customers.is_overdue`, `is_active` | daily marking, automatic blocks | only who broke a promise is marked, and whoever stays late is; every mark is logged |
| `modules/cron` (SaaS) | `tenants.status`, and whatever else of the row its entity holds | daily expiration | a tenant whose period ended is suspended, and nothing else of it changes |
| `modules/billing` | `billing_events`, `tenants.status`, `subscription_expires_at` | webhook, status | one extension per payment, however often it is notified, and one in the end |
| `modules/tenants` | `tenants.settings` | merge settings | concurrent edits keep each other's keys |
| `modules/auth`, `modules/users` | `users` (`token_version`, password, active), reset links, mail queue | login, reset, deactivate, activate | a password change or a deactivation ends every session; every request is answered |
| `common/guards`, `jwt.strategy` | none | admit a request | nobody passes on a stale token, a suspended tenant loses access |
| `modules/audit` | `audit_logs` | subscriber, queries | a committed change has its log |
| frontend, page of a customer | React state, the session's cookie | load, post, mixed payment, reverse, block | buttons keep handlers apart; the page shows what the server holds; no dead end |
| `modules/dashboard`, `modules/notifications`, other pages | none of their own | reads, mails, links | not modelled |

Behaviours that are hard here: every balance is computed in JavaScript from a
row read earlier (lost updates); `save()` of an entity read without a lock
writes back every column that differs by then (stale writes); clients retry with
the same idempotency key, or with a fresh one, after a lost answer; several rows are
locked by one transaction (deadlocks, ended by `lock_timeout` or the detector);
batches touch every customer of a tenant; cron jobs run against live requests and
each other; webhooks are delivered more than once or late; tokens outlive what they
were signed for; audit rows are inserted on other connections than the
change they describe. `PROJECT.json` lists each of these as a hazard at its line.

## Modules

| module | what it is | EXTENDS |
|---|---|---|
| `Money` | rounding, the split of a mixed payment, the surcharge: pure operators | |
| `LedgerTypes` | constants, their assumptions, rows and requests of the ledger | `Money` |
| `AtomicLedger` | what the ledger promises: each request is one atomic operation on the tables | `LedgerTypes` |
| `Ledger` | what the code does: concurrent handlers, idempotency lookups, row locks, in-memory entities, unlocked saves, crashes, lost answers | `LedgerTypes`, with an `INSTANCE` of `AtomicLedger` |
| `CashRegister` | opening and closing shifts against payments and reversals: the tenant's semaphore and row lock, two clocks, the payments a close sums and freezes, the nightly job that saves an old semaphore | |
| `Subscription` | the tenant's row: webhook, settings and the SaaS cron, and the sessions that carry a copy of its status | |
| `Sessions` | an employee's row: UsersService, login, `JwtStrategy`, the reset by mail | |
| `OverdueCron` | the daily job, started twice, against movements and stale saves | |
| `CustomerRegistry` | creation and edition of customers, and the audit subscriber | |
| `CustomerPage` | the browser's page of one customer, its HTTP client, the login page | |
| `MC...` | the instances for TLC, with the symmetry of handlers, keys, customers where no liveness is checked | |
| `LedgerProofs`, `LedgerPromisesProofs` | the theorems of `Money` and `Ledger`: arithmetic, sums and the inductive invariant; then the promises | `Ledger`, `TLAPS` |
| `CashRegisterProofs`, `SubscriptionProofs`, `SessionsProofs`, `OverdueCronProofs`, `CustomerRegistryProofs`, `CustomerPageProofs` | the theorems of the module they are named for | that module, `TLAPS` |

The modules cut the tables along the columns that a property relates. A row that two
of them share appears in each with its own columns, and what the other does to it as an
action of its own where it matters: `save(original)` of a reversal is in `Ledger` (who
owes) and in `CashRegister` (what a shift counts); the unlocked `save()` of a customer is in `Ledger`
(its balance), in `OverdueCron` (its marks) and in `CustomerRegistry` (its phone); the nightly `save()` of a tenant
is in `Subscription` (status, period, settings) and in `CashRegister` (the semaphore). A movement, whose
locks `Ledger` is about, is one step of `OverdueCron` and one answer for `CustomerPage`.

### How `Ledger` corresponds to the code

State: `row` (the financial columns of `customers`), `txs` (`transactions`, named
by idempotency key and part), `batches` (`idempotent_batch_operations`), `lock`
(who holds `FOR UPDATE` on a customer). A handler `p` has the request `req`, the
statement it is about to execute `pc`, the customer entities it holds in memory
`entity`, the transaction a reversal has read `original`, and the columns an
unlocked `save()` is about to update `diff`.

One action is one `await` that the database can observe:

- `Begin`/`Replay`: `findByIdempotencyKey` (or the batch's lookup) and what
  follows from its answer; it runs before any lock, as in the code.
- `ReadOriginal`: a reversal's unlocked read of the original and its test of
  `is_reversed`.
- `Lock`, `LockTimeout`: `lockCustomer`, the two locks of a merge in ascending
  order of id, the locks of a batch in any order (its `SELECT` has no `ORDER BY`).
- `Reject`, `DuplicateKey`, `Overflow`: the business rules, the unique index and
  the int4 column that turn the write step into a rollback.
- `Post...`, `SetCreditLimit`, `MergeCustomers`: all inserts and updates of the
  transaction with its COMMIT. They are one step because the rows they update are
  the ones the transaction has locked and nothing of them is visible before the
  COMMIT. `outcome` "failed" after a COMMIT is an answer that is lost: the
  client cannot tell it from a rollback, and may retry.
- `Load`, `SaveSelect`, `SaveUpdate`: `toggleBlock` and `updatePromise`: read
  without a lock, edit, TypeORM's `SELECT` to find the columns that differ, and an
  `UPDATE` of exactly those columns that waits for a lock held by another.
- `Crash`: the handler or its connection dies; PostgreSQL rolls back.

Abstracted: one tenant (every query filters by `tenant_id`); descriptions, payment
methods, dates and authors of transactions; the wording of errors; the floating
point of `ratio`, taken as the exact quotient (a last-cent difference moves a cent
between the two parts of a mixed payment, whose sum is computed by subtraction and
does not change). Idempotency keys of batches and of single operations are
disjoint sets because they live in different tables. `MaxCents` stands for the
largest int4.

### How `CashRegister` corresponds to the code

State: `active` (`tenants.active_cash_shift_id`), `shift` (`cash_register_logs`),
`pay` (`transactions` of type `PAYMENT`, with `created_at`, `is_reversed`,
`cash_register_log_id` and whether the method is cash), `lock` (who holds
`FOR UPDATE` on the tenant's row), PostgreSQL's `clock`. A handler has its request,
the instant its transaction began, the semaphore in the tenant entity it has read (`seen`), what
a close has summed (`tally`) and the original a reversal has read. `counted` is
history: the code does not store it. `cron` is the nightly job: its next statement and the semaphore in its entity;
`undone` is history: it has written an old semaphore back.

- `Begin`: the transaction starts, which fixes the `now()` of all its rows.
- `Lock`: `SELECT ... FOR UPDATE` on the tenant, in `openTurn` and `closeTurn`.
- `Open`, `RefuseOpen`: the test of the semaphore, the new row, the semaphore. `opened_at` is
  `new Date()`, up to `MaxSkew` away from the database's clock.
- `Sum`, `Close`, `RefuseClose`: the load of the open shift and the `SUM`; then the note that a discrepancy
  needs, the int4 cast, the closed row, the `UPDATE` that freezes and the release. Between
  the two statements other handlers run.
- `Pay`, `ReadOriginal`, `Reverse`: the inserts that need the foreign key's `KEY SHARE`
  lock on the tenant (`Insertable`), and the `save()` of an original read earlier, which
  writes its `cash_register_log_id` back too. `Ledger` has their business rules; here
  any handler may stop at any statement (`Fail`), for whatever reason.

- `CronFind`, `CronSelect`, `CronUpdate`, `CronFail`: `SaasCronService` finds the tenant without a lock and
  `save()`s the entity: a `SELECT`, and an `UPDATE` of the columns that differ, `active_cash_shift_id` among
  them. Whether the tenant is overdue belongs to `Subscription`; here the job may find it at any time. The other
  two writers of the row, `BillingService` and `TenantsService`, lock it first and cannot bring an old semaphore back.

Abstracted: `closed_at`, notes, discrepancies and the two closed statuses (functions
of what is kept); who opened the shift. The lock is a single one because every handler belongs to
one tenant.

### How `Subscription` corresponds to the code

State: `tenant` (status, `subscription_expires_at`, whether `mp_subscription_id` is set, the
keys of `settings`; the semaphore of the shifts is in `CashRegister`), `events` (`billing_events` by payment id), `lock` (who holds the row
`FOR UPDATE`), each handler's statement, request and entity, the cron's stale entity and the columns its `save()`
will update, the login in progress and the token of each session with the status copied into it, and what
MercadoPago still has to notify (`notice`).

- `PayAtMercadoPago`, `Deliver`, `Redeliver`: MercadoPago, external: it notifies a payment
  once, again, or late, until it gets a 200 (`Acknowledge`, which a lost answer undoes).
- `LookUp`, `Lock`, `Unresolved`, `Credit`, `DuplicateEvent`: `processPayment` from its
  lookup of the event to the two saves and the COMMIT, or the unique violation.
- `RequestSettings`, `Lock`, `SaveSettings`: `updateSettings`; `undefined` fields are
  skipped, `null` ones cleared.
- `CronFind`, `CronSelect`, `CronUpdate`: `SaasCronService`: an unlocked `find`, then the
  `SELECT` and the `UPDATE` of `save()`.
- `LoginRead`, `LoginSign`, `Admits`: login reads user and tenant, awaits bcrypt, and refuses or signs by the status it
  has read; `SubscriptionGuard` looks at the token only. `read` in a login and a token is history.
- `Operator`: an edit of the table by hand, external: no code links a subscription
  or sets `PAST_DUE` or `CANCELLED`, which other code reads.

Abstracted: the signature of a notification, the amount, the tenant's other columns.

### How `Sessions` corresponds to the code

State: the employee's `user` row (`is_active`, `token_version`, `password_changed_at`), its
`lock`, each handler's entity and diff, logins in progress, the token of each
browser, the mail `job` and the `link` it delivers. Time is discrete, and a token's
`iat` is cut to `Second` instants, as `jsonwebtoken` cuts it.

- `Load`, `Hash`, `SaveSelect`, `SaveUpdate`: `deactivate`, `activate`, `resetPassword`, which read
  without a lock; a reset edits its entity after the `await` of bcrypt.
- `LoginRead`, `LoginSign`: the two ends of login's `await` of `bcrypt.compare`.
- `Accepted`: `JwtStrategy.validate`.
- `RequestReset`, `SendMail`: `requestPasswordReset` and the queue's worker with its three attempts.
- `Follow`, `Verify`, `LockUser`, `AuditTimeout`: `executePasswordReset`. Its audit row is
  inserted on another connection and has a foreign key to the user the transaction holds `FOR UPDATE`. The transaction therefore never commits, so its COMMIT
  is no action, and neither is the cache entry written after it.

A browser's token has a history field, the revocations before its login.

### How `OverdueCron` corresponds to the code

State: the rows `cust` (balance, active, promise, overdue), `today`; per run of
the job what its `SELECT` found, the logs and the blocks it has still to do, the logs it has inserted (`logged`)
and, as history, those it has failed to (`lost`); per saver its entity and diff.

- `FindNobody`, `Find`, `Mark`: the `SELECT`, the early return, the `UPDATE ... WHERE id IN`.
- `InsertLog`, `ProcessAutoBlocks`, `ProcessAutoBlockOnLimit`, `Return`: what runs in
  the background afterwards, each statement of which may fail without
  stopping the rest. A run starts again only after it has returned, but two runs (timer and webhook) overlap.
- `Crash`: the instance dies; what the run had in memory is lost.
- `Charge`, `Pay`, `Load`, `EditAndSelect`, `Save`, `NextDay`: the rest of the program. A debt may grow for a blocked
  customer too: batches, reversals and merges do not ask.

`AutoBlockDays` and `OnLimit` are settings that no code can set; the model takes
what an operator has stored. One tenant: the job treats tenants one after another.

### How `CustomerRegistry` corresponds to the code

State: the rows `cust` (phone, idempotency key, credit limit), row locks, each
handler's statement, entity and diff, and the audit rows under way and inserted.

- `FindKey`, `Check`, `Insert`, `DuplicateKey`: `create`: the lookup of the key, the test
  for duplicates, the insert and the unique index of the key.
- `Load`, `Lock`, `Check`, `SaveSelect`, `SaveNothing`, `SaveUpdate`, `Commit`: `updateCustomer`
  (no lock) and `updateCreditLimit` (`FOR UPDATE`) through TypeORM's `save()`.
- `SaveUpdate` with `Audits`, and `InsertLogs`: `CustomerAuditSubscriber.afterUpdate`,
  inside the transaction but on another connection, whose error is swallowed.

The phone stands for phone, dni and e-mail, which are tested alike and have no
unique index either. `Blank` is the empty string, whose duplicates `create` does not look for and `updateCustomer` does.

### How `CustomerPage` corresponds to the code

The source is `src/frontend/src/app/(app)/clientes/[id]/page.tsx` with `lib/api.ts`, `auth.service.ts`,
the login page and the layout. State: React's `customer`, `loading`, `error`, `actionLoading` (`busy`), the form and the modal;
one record per asynchronous handler at work (`task`); the cookie (`token`); and of the
server only what the page can see.

- `Type`, `OpenModal`, `CloseModal`, `Click`: the cashier. `Enabled`: a button is disabled while
  `actionLoading` names it.
- `Serve`, `ServeGet`, `ServeLate`: the server executes, refuses or answers 401, perhaps after
  the browser has given up.
- `Posted`, `Shown`, `Refused`, `Loaded`, `Ticket`, `TicketBarred`, `Timeout`, `LoadTimeout`: the
  continuations of the handlers after each `await`, with their `finally`.
- `Expelled`, `Logout`, `Mount`, `LoginClick`, `LoginAnswer`: the interceptor's 401, and the way
  between the two pages.

`crossed` and `unseen` are history: a button was used while the handler of another was at work, since the page was
mounted; the server executed a request whose answer the page did not await, since `loadData` last answered.

A cashier registers an intended movement one way and only while the page does not
show it as registered (`Wanted`): what the model blames on the code is not his
impatience. Markup, formatting and the other tabs of the page are left out.

## Runs

| run | shows |
|---|---|
| `core` | `TypeOK`; `LockedEntityIsCurrent`, `BalanceCoversLedger`, `ReversalsPaired`: no lost update, no double posting and no half reversal, whatever is retried or lost; `RowsAreImmutable`; `ImplementsAtomic`: debts, payments and reversals refine the serial ledger, although a reversal reads its original before the lock |
| `atomic` | `ImplementsAtomic`: debts, payments, forgiveness, limits, merges and batches under their locks refine the serial ledger; `BalanceIsLedgerSum`; `BatchIsAllOrNothing`; `NoDeadlock` among handlers that lock in order |
| `live` | `DebtWithinTerms`: a debt is posted only on the terms in force, although they change without a lock; `EveryRequestAnswered` although a batch and a merge may deadlock |
| `shifts` | `OneOpenShift` until the nightly job writes an old semaphore back; `CountedOnce` although the clocks differ, and after that too; `CloseCountsWhatItFreezes`: nothing slips between the `SUM` and the `UPDATE`, thanks to the foreign key; `ClosedShiftsAreFinal`; `OnlyReversalsThaw`: a stale `save(original)` unfreezes a payment only when it annuls it |
| `billing` | `OnePeriodPerPayment` under duplicated, late and concurrent notifications; `PaidIsCredited` although answers are lost; `SettingsAreMerged` with two forms of different keys, one of which clears the other's; `AccessEndsWithToken` although a login signs what it read before bcrypt |
| `killswitch` | `KillSwitch`: a revocation ends logins that were in progress too, unless two administrators' requests overlap; `FreshSessionWorks` although `iat` is cut to seconds |
| `overdue` | `OverdueHadReason` with overlapping runs and stale saves; `LateIsMarked`; `MarkIsLogged`: a run logs all it marks, except what its own death or its own failed insert lost |
| `registry` | `OneCustomerPerKey`; `SerialRequestsKeepPhonesApart`: only a race can duplicate a phone; `CommitIsLogged`: whichever save changes a limit |
| `page` | `OneHandlerAtATime` and `QuietPageIsCurrent` while no two different buttons cross, timeouts, refusals and rejected tokens included; `ActionsEnd`: no button or spinner stays, although handlers share one flag; `NoRedirectLoop` between the login page and a page whose token is rejected |
| `double_reversal`, `resubmit`, `stuck_reset` | the findings below |

Bounds, and why they suffice. Two handlers everywhere: every hazard listed is a race of two
statements sequences (a merge's deadlock included, since it locks two rows).

- Ledger. `core` has one customer, three keys (an operation, its retry or annulment, and a third in conflict), amounts
  of 1 and 2 cents with limit 3 and `MaxCents` 3: within and over the limit, less and more than the
  debt, overflow. `atomic` has two customers (a merge needs two; a batch treats them alike),
  two keys and one of a batch. `live` is the smallest instance in which a batch, merges, debts and saves block each other; it has one limit, and
  the terms change by unlocked saves: what changing limits add is in the theorem `DebtsStayWithinTerms`.
- Register. Two shifts and two payments: one handler closes what the other
  opens or pays into, and a payment of the first shift can be met by the second.
  `MaxCents` 1 makes two payments overflow a sum. Clocks differ by up to
  `MaxSkew` = 1, and from `MaxClock` = 2 on all events are simultaneous, the
  coarsest case for a strict `>`. Four million states.
- `billing`. Two payments and two handlers (duplicates of one meet the other), a period and a token's life
  of one instant and `MaxTime` 2, so that both end within the run; one fault
  is one lost answer or crash, repeated faults only repeat the delivery it causes.
  Two keys and two forms, one that sets a key and one that sets the second and clears the first. The action constraint `StepsApart`
  lets a session exist only while there is no form and at most one payment: a login reads neither the settings
  nor the number of payments, so the two halves of the row meet nothing of each other. It cuts no step that
  fairness is about, for only logins, forms and new payments at MercadoPago are held back.
- `killswitch`. Two administrators, one link, one browser, two revocations (one to be
  written back over); a second of two instants and three instants distinguish the same
  second, the next, and a cut `iat`.
- `overdue`. One customer (the statements treat each by himself), two runs, one
  saver, three days: promised, broken, blocked.
- `registry`. Two customers, a phone, the empty one and a key are what a clash needs; two
  limits are a change.
- `page`. Two tasks, one intent, one fault, one page and the login page. `resubmit` tells two postings apart.

Fairness. Only where a run checks liveness:

- `live`: weak fairness of a handler's next statement, strong of an unlocked
  `UPDATE`; a wait ends because PostgreSQL grants the lock, times out (5 s, 10 s for a
  batch) or detects the deadlock, and its queue of waiting statements is served in order.
- `billing`, `killswitch`, `stuck_reset`: strong fairness of a handler's next statement, for the same queue; and in `billing` of
  a redelivery, since MercadoPago repeats a notification until it is answered.
- `overdue`: strong fairness of each run: the timer or the external service starts it every day.
- `page`: weak fairness of each handler's continuation: the event loop runs it.

Nothing is assumed of users, of faults or of the operator.

## Where the code and its documents differ

Three disagreements have a run that TLC must find violated.

| run | finding |
|---|---|
| `double_reversal` | `reverseTransaction` tests `is_reversed` before the lock and not again: two concurrent annulments of one transaction both adjust the balance |
| `stuck_reset` | `executePasswordReset` awaits, inside its transaction, an audit row that needs the lock the transaction holds: the request is never answered, or fails when that connection happens to have a `lock_timeout`. With `Timed` the properties of `killswitch` are checked in the other case |
| `resubmit` | every submission makes a new idempotency key: a posting that timed out in the browser and was executed is posted again by the next click |

Others were met while modelling, are represented in the models, and are stated here.

Ledger and register:

- `toggleBlock` and `updatePromise` write the balance back that they read before a
  concurrent payment (`customer.entity.ts:90` says only transactions modify it), so `BalanceIsLedgerSum` is checked without them.
- A reversal can be reversed, with the wrong sign when it annulled a payment: the
  debt grows a second time.
- `save(original)` writes the `customer_id` back that it read before a merge.
- The key is tested before the lock, so a concurrent duplicate ends in a unique violation,
  not in the stored answer of the JSDoc (`transactions.service.ts:63`).
- The clamp at zero in a reversal forgets an amount when a debt is annulled after its payment
  (`BalanceCoversLedger` is the half of `BalanceIsLedgerSum` that survives). The
  cash part of a mixed payment scaled to a small debt may round to 0 cents.
- A close selects payments by `created_at > opened_at`, and `created_at` is the instant the payment's
  transaction began: one that began before the shift was opened and committed during it is
  frozen by no close (CU-CAJ-02 wants every payment of the shift frozen). Payments posted while no shift is open are collected by none.

Tenant:

- A notification whose tenant cannot be resolved is answered 200 and never
  delivered again: the payment is lost (`PaidIsCredited` excludes it).
- Nothing sets `PAST_DUE`, `CANCELLED` or `mp_subscription_id`, so the cron and part of the guard
  depend on an operator. A payment reactivates a cancelled tenant.
- A payment extends from the old end, which may be so old that the new one is past as well.
- The cron's stale `save()` can overwrite a period that has just been paid.
- It writes `active_cash_shift_id` back as well (`saas-cron.service.ts:47`). A close that commits in between is undone on the
  semaphore: it names a closed shift, `openTurn` refuses and `closeTurn` finds no open shift, and nothing in the code frees it again. An open
  that commits in between leaves a free semaphore beside an open shift, and a second shift can be opened, against `cash-register-log.entity.ts:32`
  ("Solo UN turno OPEN a la vez por tenant"). `OneOpenShift` holds until such a save (`undone`).
- A login that has read the tenant before a suspension signs a token after it, whose life begins then.
- Fields of the settings DTO (`auto_block_overdue_days` among them) are never merged.

Sessions: `save()` writes back columns read before a concurrent request: an `activate` that read
the user before a deactivation restores the old `token_version`, and old tokens
live again. `KillSwitch` therefore excludes overlapping requests of administrators (`overlapped`).

Overdue cron: a customer who pays between the `SELECT` and the `UPDATE` is marked overdue; `is_overdue` is never reset (`customer.entity.ts:125` says a payment does); the
early return on a day without new overdue customers skips the automatic blocks; overlapping
runs log a customer twice, and the promise in the log is always null; a blocked-by-setting
tenant cannot be configured; overdue customers may take debts, which `customer.entity.ts:133` denies.

Registry: phone, dni and e-mail have no unique index, although `customer.entity.ts:58` and `:66`
say so: two concurrent requests give two customers one phone. A retry that
races its original gets a 409 for its own phone. A log outlives the
rollback of the change it describes. A promise set as a string is not logged.

Page: the ticket prints the balance before the posting, which its closure has kept; a 401 on
wrong credentials runs the interceptor's reload and loses the message; `error` is never cleared by
`loadData`; one shared `actionLoading` enables the other buttons again. The
properties `OneHandlerAtATime` and `QuietPageIsCurrent` hold as long as no two different buttons are used at once (`crossed`). A page whose
request timed out and was executed later shows the old customer until it reloads (`unseen`).

## Proofs

Each theorem about a specification follows from an inductive invariant `Inv` of its
module: `Init => Inv`, one lemma per action for `Inv /\ [Next]_vars => Inv'`, and `Inv` implies the
property. `PROJECT.json` lists the theorems.

`LedgerProofs`, for all sets of customers, keys, amounts, handlers:

- `TypeCorrect`: `Spec => []TypeOK`. In particular balances stay in `0..MaxCents`.
- `LockedEntitiesAreCurrent`: `Spec => []LockedEntityIsCurrent`.

Neither is inductive alone. `Inv` adds `HandlerInv`: only a handler that is
locking or writing holds locks; one that writes holds its whole lock set; the
request and the original in its memory are well formed for the statement it is at;
an unlocked save carries a well-typed entity and holds no lock. With it, a write step finds in
`entity` the committed rows (`AtWriteHolds`), so the business rules bound the new
balance, and it changes only rows that it or nobody has locked
(`FinishPreservesInv`), so no other handler's copy goes stale.

`LedgerProofs` begins with the arithmetic of `Money`, for all amounts:

- `MixedPartsAddUp`: both rows of a mixed payment are non-negative and add up to the lesser of
  offer and debt; `MixedPartsAreProportional`: on a debt smaller than the offer each method pays its share to
  within half a cent, and the two errors cancel.
- `SurchargeIsNearest`: a surcharge is the percentage of the balance to within half a cent, halves upwards.

Lemmas say what `SumFunctionOnSet` of the community modules computes: `SumTakes` takes a term out of a sum,
`SumOfUnion` adds the sums of disjoint sets, `SumOfEqual` compares two. The library's induction theorems take
an operator and cannot be used, so each is proved by a smallest counterexample: a family of
subsets of a finite set has a minimal member (`MinimalSubset`, from `WFMin`).

`LedgerPromisesProofs`, the promises of the ledger, from the invariant of `LedgerProofs`:

| theorem | assumption on `Ops` | argument |
|---|---|---|
| `RowsStayAsPosted` (`RowsAreImmutable`) | none | every step keeps the posted rows (`Keeps`) and posts whole sets of new ones (`Inserts`); `OriginalInv`: the entity a reversal saves says what its row says |
| `DebtsStayWithinTerms` (`DebtWithinTerms`) | none | a debt is judged on a locked entity, which is the committed row |
| `BatchesAreWhole` (`BatchIsAllOrNothing`) | none | `Whole(k)` is kept by every step: rows of a batch are inserted by its own commit only, with their seal, and never change their amount |
| `BalancesAreLedgerSums` (`BalanceIsLedgerSum`) | no reversals, no unlocked saves | `Moves(c)`: each step moves a customer's balance and the sum of his rows by the same amount; a merge moves those of two customers |
| `BalancesCoverTheLedger` (`BalanceCoversLedger`) | no unlocked saves; not merges with reversals | the same, but the clamp of a reversal may lower the balance by less (`ReversalClamps`) |
| `NoDebtIsLost` (`TotalDebtCoversLedger`) | no unlocked saves | every posted row is in one ledger (`LedgersPartition`), so where all `Moves(c)` hold the totals move together (`SumsMove`); a reversal changes both as above, whichever customer its stale original names; a merge changes neither |
| `MarksAndAmountsPair` (`AnnulmentsMatch`) | none | a row inserted by any other operation is `Fresh`, it annuls nothing; a reversal inserts one that names the row it flags; a merge touches neither |
| `AnnulmentsPair` (`ReversalsPaired`) | not merges with reversals | the same, and without merges the rows keep their customer |
| `LocksDoNotDeadlock` (`NoDeadlock`) | none | `OrderInv`: whoever waits holds only rows below those it still wants, so a cycle would need an ever higher row |
| `HandlersImplementAtomic` (`ImplementsAtomic`) | no unlocked saves; not merges with reversals | a commit is an operation of `AtomicLedger` on the committed rows, every other step stutters; `OriginalInv` gives `AtomicLedger!Reversal` the original as it is, without merges |

The operations an assumption leaves out do break the property, as TLC shows on instances that add them: an
unlocked save writes a stale balance back; a reversal clamps at zero; and a merge moves an original that a
reversal has read and then saves, so that the row, and what its annulment does, stay with the customer
merged away. `NoDebtIsLost` and `MarksAndAmountsPair` say what survives of that last case: the
debt may be with the wrong customer, but it is not lost, and flags and amounts still pair.
`TotalDebtCoversLedger` and `AnnulmentsMatch` are stated in `LedgerPromisesProofs` and checked by no run.

`CashRegisterProofs`, for all sets of handlers, shifts and payments, all amounts and any distance of the
clocks: `RegisterTypeCorrect`, `SemaphoreNamesTheOpenShift` (`OneOpenShift`),
`NoPaymentCountedTwice` (`CountedOnce`), and three action properties, `ClosedShiftsStayClosed`,
`FrozenUntilAnnulled` and `ClosesCountWhatTheyFreeze`.
`Inv` adds that a handler at `act` or `freeze` holds the tenant's lock and has seen the current
semaphore, that what a close has summed still satisfies its WHERE clause when it closes, and
`CountedIsFrozen`: a payment counted by a closed shift carries its id or is annulled. The
last is what makes `CountedOnce` inductive: a later close matches neither. A stale
`save(original)` may take the id away, but only by annulling the payment; no
property of `opened_at` is needed, which is why the clocks may differ. `ClosesCountWhatTheyFreeze` needs
`CountsInv` besides: what a close has summed is all that its WHERE clause matches until it ends, and no
payment, and no entity a reversal is about to save, carries the id of a shift that is not closed.

`SubscriptionProofs`, for all sets of payments, settings, sessions and every length of period, grace and token:
`SubscriptionTypeCorrect`, `AccessEndsWithTokenHolds`, `OnePeriodPerPaymentHolds`, `SettingsAreMergedHolds`. `Inv` adds that a handler about to write
holds the lock and has the committed row in memory (`HandlersInv`), that the end in the cron's stale entity is not
later than the row's, so that its `save()` extends nothing (`CronInv`), and that no
login of a barred tenant, in progress or done, has read the tenant after the bar (`TokensInv`).

`SessionsProofs`, for all sets of handlers and browsers: `SessionsTypeCorrect`, `KillSwitchHolds`,
`FreshSessionsWork`. Without an overlap an
administrator's entity is the committed row with his edit, so each revocation raises the version above
that of every token and every login in progress. A fresh session works because a token of a later
whole second is younger than any change within an earlier one (`LaterSecond`).

`OverdueCronProofs`: `CronTypeCorrect`, `NobodyIsMarkedWithoutReason`. What a run
has found, what it has to log, and an overdue mark in a saver's stale entity all
belong to customers who have been late (`JobsInv`, `SaversInv`).

`CustomerRegistryProofs`: `RegistryTypeCorrect`, `OneCustomerPerKeyHolds`,
`SerialRequestsKeepPhones`, `CommitsAreLogged`. A stale entity still has its row's key (`KeysInv`), since no
operation edits a key; this is what makes the uniqueness survive a `save()`. While nobody
commits, a handler's test of the phone stays true (`PhonesInv`); the logs of a transaction are
under way, inserted, or lost (`LogsInv`).

`CustomerPageProofs`, for all sets of handlers and intents, and any number of postings and faults:
`PageTypesHold`, `HandlersExclude` (`OneHandlerAtATime`), `QuietPageShowsTheServer`
(`QuietPageIsCurrent`). The handlers of the page share one flag and one record of the customer, so neither of the last two is inductive.
`Inv` adds that no handler runs behind the login page (`NobodyWorksAtLogin`) and, as long as no two
buttons have crossed, `CleanPage`: at most one handler runs; what it shows when it ends is what the server has by then
(`AtWork`, one case per statement it may wait at); and when none runs the page shows the
server already. Beyond the types of the bounds, the only assumption is that the browser runs at least one handler (`Tasks # {}`).

The proofs rest on the named assumptions of the modules, which TLC evaluates in every run of
theirs: positive amounts and non-negative limits within an int4
(the DTOs' validators), positive percentages, a finite set of customers, distinct
key tables, and null values that are not values of their columns (`NoTxAssumption` and its like).

Only model-checked: liveness (`EveryRequestAnswered`, `PaidIsCredited`, `LateIsMarked`, `MarkIsLogged`,
`ActionsEnd`, `NoRedirectLoop`), which needs `ENABLED` and fairness, out of the prover's reach.
Every safety property that a passing run checks is proved, the refinement included.

## Not modelled, and what is left

- The other pages of the frontend (`caja`, `configuracion`, `clientes`, `dashboard`): their handlers
  have the two shapes that `CustomerPage` has, post and reload or post and show the answer, over a
  flag of their own; the rest is markup.
- Dashboards, CSV exports, history queries: reads. Notifications: mails and links, output.
- `register`, the creation of employees, the limit on the rate of requests, `RolesGuard`: a single statement or a
  comparison of constants.
- DTO validation beyond the ranges used as assumptions, module wiring, configuration and deployment
  files.
- More than one tenant: every query filters by `tenant_id`.
