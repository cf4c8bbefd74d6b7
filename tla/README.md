# HermesToken: TLA+ models of the parts where money and answers can get lost

HermesToken is an AI API gateway in Go with a React frontend. A client calls it with
an API token; the gateway picks an upstream channel, relays the request, streams the
answer and charges the client's quota. Users get quota by topping up a wallet or by
buying subscriptions, may withdraw it, and may sell and buy upstream capacity on a
marketplace. This directory holds TLA+ models of the parts where concurrency and
failure can lose or duplicate money or output, the TLC runs that check them on small
instances, and TLAPS proofs of the properties that matter most for instances of any
size.

Paths below are relative to the repository root (`src/` in `PROJECT.json`).

## 1. Inventory

| Component | State | Operations | Hard behaviour |
|---|---|---|---|
| Billing session (`service/billing_session.go`, `funding_source.go`, `billing.go`) | per request: hold, extra hold, token share, flags `settled`, `fundingSettled`, `refunded` | preConsume, Reserve, Settle, Refund | statements of concurrent requests interleave; each may fail; refund in a detached goroutine; retry of the refund |
| Subscription quota (`model/subscription.go`) | `user_subscriptions.amount_used`, status, reset date; `subscription_pre_consume_records` | pre-consume, delta, refund, reset, exhaustion | a period ends between hold and settlement; a transaction nested in another one |
| Relay loop (`controller/relay.go`) | retry counter, the attempt's outcome | attempt, retry, deferred refund and fee | a late attempt is settled, then retried |
| Violation fee (`service/violation_fee.go`, `quota.go`) | none | `PostConsumeQuota` | runs beside the refund |
| Stream scanner (`relay/helper/stream_scanner.go`, `stream_status.go`) | four goroutines, channel, write mutex, timers, end reason shared by attempts | scan, handle, ping, time out, clean up | first-chunk timeout against the first chunk; stop against the chunks still queued; goroutines of an abandoned attempt |
| Orders and stock (`model/subscription.go`, `controller/subscription*.go`, `service/subscription_reset_task.go`) | plan row (`stock_total`, `stock_locked`, `stock_sold`), orders, subscriptions | create, complete, expire, buy, bind, update, delete | last unit; repeated and late payment notices; limits switched while orders are open |
| Subscription groups (`model/subscription.go`) | `users.group`, `upgrade_group`, `prev_user_group` of subscriptions | buy, expire, exhaust, cancel, delete | overlapping terms; unlocked reads |
| Async tasks (`controller/relay.go`, `model/task.go`, `service/task_polling.go`, `task_billing.go`, `relay/relay_task.go`) | task rows with status and charged quota | submit, poll, sweep, fetch, refund, correct | pollers with old copies; compare-and-swap against plain save; crash between the row and the refund |
| Top-up and redemption (`controller/topup.go`, `model/topup.go`, `redemption.go`) | order rows, counted mutexes per order, code rows | callback, manual completion, redeem, edit | repeated callbacks on several paths; edits from old copies |
| Withdrawals (`model/user_withdrawal.go`) | withdrawal rows, frozen quota | create, approve, reject, pay | several administrators; two creations at once |
| Batch updater (`model/utils.go`) | in-memory deltas | add, flush | deltas in neither place; loss on a crash |
| Crypto top-up (`model/topup_crypto.go`, `service/crypto_payment`) | orders, transfers, scan position, Redis lock | create, scan, match, complete, expire | a lock that runs out; overlapping scans; a stale copy saved over a matched order |
| Marketplace (`service/marketplace_*.go`, `model/marketplace.go`) | fixed orders, escrow, settlements, concurrency counter | buy, prepare, reserve, settle, release, probe, refund, expire | a request settles while the order is expired or refunded |
| Playground (`web/default/src/features/playground`) | conversation, stream reference, complete flag, localStorage | send, regenerate, edit, delete, stop, leave, enter | handlers act on an older render; events of an old stream |
| Referral settlement, channel selection, rate limiting, authentication, pricing, adaptors, logs, the rest of the frontend | small or none | | see section 6 |

Interactions. The authentication middleware reads the token once; its remaining
quota is what the trust decision uses later. `controller.Relay` opens a billing
session, runs attempts until one answers (each attempt runs the stream scanner), and
on failure calls `Refund` and then the violation fee. The session charges the token row
and either the wallet row or a subscription row, each in a statement or transaction of
its own: nothing spans them. A task is charged through the same session when it is
submitted, and refunded or corrected later by whichever process polls it. A subscription
row is created by an order, lowered by the reset task, ended by the expiry task, by
exhaustion inside a pre-consume, or by an admin; each ending may change the user's
group. Relayed requests, top-ups, codes, withdrawals and marketplace orders share
`users.quota`.

What makes the parts correct:

* a request costs exactly what was served, or nothing when it failed, and no
  concurrent update of a shared balance is lost;
* no subscription is used beyond its total and no refund is paid twice;
* a plan is never sold beyond its stock, reservations never leak, an order is
  fulfilled exactly once, every pending order ends;
* a user who has paid for a group is in it;
* a task ends, is paid once when it succeeds and refunded once when it fails;
* money that comes in is credited once, money that goes out is frozen, then paid or
  returned once, and quota is conserved in between;
* what a buyer paid for a fixed order is used, refunded or settled, never two of these;
* a client sees one answer, whole, and every goroutine behind it ends.

## 2. Modules

| Module | Models | Role |
|---|---|---|
| `SubscriptionQuota` | the bodies of the quota transactions of `model/subscription.go` | operators on the table of subscription rows |
| `HoldLedger` | one balance and the holds of requests on it | abstract specification |
| `BillingSession` | session, funding sources, retry loop, violation fee, reset task | extends `SubscriptionQuota`; state machine; implements `HoldLedger` twice |
| `SubscriptionOrders` | orders, stock, purchases, administration of one plan | state machine |
| `SubscriptionGroups` | the group of one user and the subscriptions that change it | state machine |
| `AsyncTasks` | submission, polling, sweep and billing of tasks | state machine |
| `OrderMutex` | one mutex per order | abstract specification |
| `OrderLocks` | `LockOrder`, `UnlockOrder`: counted mutexes in a map | implements `OrderMutex` |
| `Wallet` | top-ups, codes, withdrawals, batch updater | extends `OrderLocks`; state machine |
| `CryptoTopUp` | crypto orders, scanners, completion | state machine |
| `Marketplace` | fixed orders, pool requests, settlements | state machine |
| `StreamScanner` | the goroutines of a streamed attempt under the retry loop | state machine |
| `Playground` | the chat page | state machine |
| `MC...` | | instances and symmetry |
| `Sums` | | lemmas about sums over finite sets |
| `BillingSessionProofs`, `SubscriptionOrdersProofs` (with `SubscriptionGroups`), `WalletProofs` (with `OrderLocks`), `AsyncTasksProofs`, `CryptoTopUpProofs`, `MarketplaceProofs`, `StreamScannerProofs` (with `Playground`) | | TLAPS proofs |

### BillingSession

Several requests of one user share one token, one wallet and the user's
subscriptions. `pc[r]` names the next database statement of request `r`; one action
is one statement or transaction together with the control flow up to the next one,
so two requests may interleave between any two statements. `sess[r]` has the fields
of `BillingSession` and its funding source; `info[r]` has what `RelayInfo` and the
locals of `Relay` carry. `moved[r]` is a history variable, the net quota the session
took from each balance, and appears in properties only.

| Code | Actions |
|---|---|
| `NewBillingSession`, `tryWallet`, `trySubscription`, `shouldTrust` | `NewBillingSession`, `TryWallet`, `TrySubscription` |
| `PreConsumeTokenQuota` (a read, then a write) | `PreConsumeTokenRead`, `PreConsumeTokenWrite` |
| `funding.PreConsume` and the rollback of the token | `WalletPreConsume`, `SubscriptionPreConsume`, `TokenRollback` |
| `Reserve` | `ReserveFunding`, the token actions, `ReserveRollback` |
| `Relay`'s loop | `AttemptFails`, `AttemptAnswers`, `AttemptEnds`, `RetryOrFail` |
| `Settle` | `SettleFunding`, `SettleToken` |
| `Refund`, `refundWithRetry`, `RefundSubscriptionPreConsume` | `RefundWallet`, `RefundSubscription`, `RefundMarkRecord`, `RefundExtraReserved`, `RefundToken` |
| `ChargeViolationFeeIfNeeded` | `FeeFunding`, `FeeToken` |
| `ResetDueSubscriptions`, the clock | `ResetDueSubscription`, `PeriodEnds` |

`RefundSubscription` and `RefundMarkRecord` are two actions because
`PostConsumeUserSubscriptionDelta` commits a transaction of its own inside the one
that marks the record. Every writing statement may fail (`StatementFails`); of the reading
ones the query of the subscriptions, because its error is reported as "no active
subscription" and sends a `subscription_first` request to the wallet
(`model/subscription.go:2002`). `Reserve` is part of the `BillingSettler` interface and has no
caller in the repository outside tests, except the wrapper of the marketplace, which has none
either; the model includes it as the interface allows it.

### SubscriptionOrders

The row of one plan, its orders, the number of subscriptions each user owns, and the
wallets. A transaction has two steps. The first takes the row locks the code asks
for, reads, and makes the checks; the second writes the values computed from what
was read and commits. In between any transaction that does not need the locked rows
may run, and the transaction itself may roll back, which stands for a failing
statement as well as for a crash. Stock counters are written as absolute values,
as in the code, and not at all for a soft-deleted plan, which the reads of a
completion or expiry find and the UPDATE does not. `CompleteSubscriptionOrder` may
happen at any time and any number of times, as payment notices do.

All locks of a transaction are taken in one step. The code takes them in the order
order, plan, user throughout, so taking them one by one would add waiting but no
deadlock. `PurchaseSubscriptionWithBalance` reads the plan through a cache; the model
lets the cached copy give either answer about `enabled` and `deleted`.

### Locking reads

The code asks for row locks with `tx.Set("gorm:query_option", "FOR UPDATE")`, which
GORM 2, the version `go.mod` requires, does not read. Whether the database makes the
transactions exclude each other is the constant `LockingReads` of `SubscriptionOrders`,
`Wallet` and `CryptoTopUp`, where it covers the row of a transfer as well, for which the code
asks no lock (`model/topup_crypto.go:483`). `TRUE` is what happens on SQLite, the default database,
whose writers run one after the other, and what the code asks for elsewhere; all runs
and the theorems that need it assume it. With `FALSE` the transactions read the same
rows and hold none, as on MySQL and PostgreSQL (section 5). The marketplace uses
`clause.Locking`, which works.

### SubscriptionGroups

The subscriptions of one user with their terms on a small clock, and the user's
group. Four ways of ending lead through `Downgrade`, the translation of
`downgradeUserGroupForSubscriptionTx`. With `Serialized` a transaction runs alone (as
on SQLite); without it another one may commit between its reads and its writes,
because the user row is not locked. `AfterEnding` is the loop over the subscriptions that
end together, latest term first, as a recursive function on their set; the names of
the definitions differ from those of `SubscriptionOrders` (`GroupInit`, `GroupNext`,
`BeginTx`, ...) because the proofs of both are in one module.

### AsyncTasks

The rows of the tasks table and the polling loop each process runs over a copy of
them. `poller[p]` is where a loop is: its phase (sweep of overdue tasks, then polling),
the tasks still to do, the copies, and the billing that follows a won
compare-and-swap. `Submit` is `RelayTask` from the settlement to the insert; the end
the provider reports (`Upstream`), the passing of the timeout (`TimePasses`) and a user's
realtime fetch of a Gemini task (`FetchByID`, `tryRealtimeFetch`) are others. Video tasks
are written with `UpdateWithStatus`, Suno tasks with a plain save, also when only their times
or data have changed (`taskNeedsUpdate`).

`complete` is progress 100%, which is not the same as a final status. `FetchTaskExtra` is an
answer that says more than the status: to a video task a progress of its own, which is copied
whatever the status is (`VideoComplete`); to a Suno task a reason of failure, which refunds the
task and sets 100% whatever the status is (`SunoComplete`), or new data. `MaxExtra` bounds these
answers (`extras`), `MaxTasks` the tasks that are under way together. `LegacyTasks` were made
before the cutoff of the sweep, which fails them without a refund; `TaskTimeout = FALSE` is a
timeout of zero minutes, which switches the sweep off. The constant
`Faults` selects which failures happen: crash of a poller, failing statement, failing
billing on either balance, deleted channel, unreadable answer, failing settlement or
insert at submission.

### OrderMutex, OrderLocks and Wallet

`OrderLocks` follows `controller/topup.go`: `LockOrder` finds or makes the counted mutex of
an order and raises its count, then waits for the mutex; `UnlockOrder` releases it, lowers
the count and drops the mutex from the map at zero. `OrderMutex` is the promise: a thread
enters an order only when nobody is in it. The refinement mapping `Inside` gives the
threads that are between the two calls on an order.

`Wallet` runs the payment handlers under these locks: the Epay completion is a read, a
save and a credit without a transaction, Stripe and Waffo use a transaction, and an
administrator may complete any pending order. A transaction is two steps, as in
`SubscriptionOrders`. Withdrawals freeze, return or consume quota; codes are redeemed,
and edited from the copy a form was opened with; requests spend through the batch
updater, whose deltas are in memory, then in the hands of the flush, then in the row. A
crash loses locks, deltas and every thread's place.

### CryptoTopUp

Block number and time are one number. A scanner takes the Redis lock (which may run out
at any moment), reads the confirmed blocks after the saved position, records each
transfer and matches it to an order of the same amount, saves the position and completes
the orders that are confirmed. A scan may fail or crash at every step. If there is no saved
position or reading it fails, the scan starts `Rewind` blocks before the confirmed ones (30 in
the code) and saves its end as the position; the history variable `gaps` collects the blocks it
has passed over. Recording a transfer is three steps, `ReadTransfer` (its row), `FindOrders`
(the orders of that amount) and `RecordCryptoTransfer` (the saves of both, from the copies);
with `LockingReads = FALSE` other transactions come in between. A status page
expires an order by saving the copy it read; an administrator completes one with a
transfer of their choice.

### Marketplace

The fixed orders and pool requests of one buyer on one credential of one seller. A
request's session is prepared (capacity taken), reserves, is charged or released, and
may be lost in a crash; the buyer's pages list orders, which expires the due ones from
copies, run a probe and ask for a refund. The wallet session of a pool request is used by
its promise, as `BillingSession` shows it. `rolledBack` marks the orders of a
settlement whose transaction failed after it had changed the session in memory;
`EscrowConserved` and `NeverSpentTwice` say nothing of them (section 5).

### StreamScanner

Per attempt: the main loop, the scanner of the body, the data handler and the pinger
with the goroutine of each ping, over a bounded channel, the write mutex and `stopChan`.
`RelayInfo` is shared by the attempts: the pointer to the current `StreamStatus` and the
number of chunks. Goroutines of an abandoned attempt stay in the model until they exit.
Around it the controller: the adaptor's final frames, the decision to fail over, and
the reset before the next attempt. Whether an adaptor writes closing frames (`tail`) when
nothing was received depends on the adaptor and the format of the client: `[DONE]` for
OpenAI clients, start and stop frames of two adaptors for Claude clients
(`relay/channel/openai/chat_via_responses.go:522`, `relay/channel/gemini/relay-gemini.go:1492`),
nothing from several others. `FinalResponse` leaves it open.

### Playground

Handlers of the page close over the messages of the last render; stream events update
the state and are rendered later. A click is rendered before the next event. Chunks are
recorded as the key of the stream they came from, so that a message shows whose chunks it
holds. The sequence operators the handlers use are recursive functions on the length of
the conversation (`Without`). `disturbed` becomes true when a control that is not guarded against a running
generation is used during one (section 5); the properties are stated for the pages where
it is not.

The page is a route of a single-page app. `Enter` mounts it and loads the saved conversation,
`Leave` unmounts it, and `CloseTab` ends everything. Nothing closes the stream when the page is
left (`use-stream-request.ts` has no cleanup): it becomes an orphan, whose events still reach
the handlers of the page that was left (`pages`). Those handlers no longer render, but the first
state update after the unmount is computed at once from the last render, and its updater saves
the conversation (`OrphanUpdates`, `OrphanEnds`, `LeftPageSaves`).

## 3. Runs

All runs pass.

| Run | Shows | Instance |
|---|---|---|
| `billing_mixed` | `TypeOK`; `SessionAccounts`: a settled request costs what was served, a failed one nothing, an unsettled one its hold; `UsedWithinTotal`; `SubscriptionUseExact`: the use of a subscription lies between what its settled requests used and what its sessions took; `RowsMatchSessions`: no update of a shared row is lost | 2 requests of 5 kinds, 2 subscriptions, 1 period end |
| `billing_faults` | two statements fail anywhere, with failover and a retry: the refinement `LedgersKept` (wallet and token are `HoldLedger`s), `SettledIsFinal` (subscriptions too), `RequestsFinish`, `RefundsArePaid` | 2 requests, 1 subscription, 2 faults |
| `orders_limited` | a stocked plan without balance pay: `NoOversell`, `PurchaseLimit`, `PendingOrdersEnd` | 2 users, 2 orders, 2 workers |
| `orders_mixed` | the limit is switched on and off, balance pay allowed: `StockWithinTotal`, `StockMatchesOrders`, `OrderFulfilledOnce`, `PurchaseLeavesNoDebt` | 1 user, 2 orders, 2 workers |
| `groups_serial` | three subscriptions with nested, overlapping and equal terms, ended in every way and order: `GroupInvariant` (types, and `PaidGroupKept`) | 3 subscriptions, clock 0 to 3 |
| `tasks_poll` | pollers with old copies, a provider that answers, fails, stays silent or once gives an answer with more than a status: `FinishedIsFinal`, `TasksEnd` (except the tasks of findings 21 and 22), `FailuresRefunded` | 1 video or 1 Suno task at a time, 3 pollers |
| `tasks_faults` | the same under crashes, failing statements and billing, deleted channels, unreadable answers, beside a Gemini task that is also fetched: `ChargesExact` (at most one refund, a success paid once) | 1 video task, 1 Gemini task from before the cutoff, 2 pollers, 1 fetch |
| `crypto_scan` | `CreditsExact` (credited once, and then shown as paid), `AutoCreditBacked` (by a transfer of its own, of the exact amount, in time), `ScannedIsRecorded` (no transfer is skipped, except by a scan that found no position) | 2 orders, 2 amounts, 1 transfer, 2 scanners, 1 admin, 1 page, 3 blocks |
| `wallet_funds` | `FrozenMatchesOpen`, `AccountsExact` (quota conserved, quota from codes never paid out), `TopUpCreditedOnce`, `RedeemedPerEnable`, `DecisionIsFinal`, and the refinement `MutexPerOrder` | 2 threads, 1 order of 3 providers, 2 withdrawals, 1 code, 1 crash |
| `market_funds` | `AccountsExact` (escrow and wallet conserved, income is the sum of the settlements), `NeverSpentTwice`, `CapacityMatchesSessions` | 2 orders, one expiring, 3 requests, 2 pages, 1 fault |
| `chat_guarded` | `AnswerIsWhole`, `StreamsTracked` (no stream of the mounted page runs without being the one Stop closes, and nothing is left loading, also after the page was left and entered again), `FailureIsShown` | 4 messages, 2 chunks |
| `stream_relay` | `FailoverHasNoChunks`, `DrainedIsComplete`, `StatusSound`, `StreamsEnd`, no deadlock | 2 attempts, 2 lines, channel of 1 |

Bounds and why they are enough:

* Two requests, workers, scanners or threads: every statement of the code
  touches at most one other party's row, and each hazard in `PROJECT.json` is a race of
  two. Three pollers in `tasks_poll`, on one task at a time: a poller holds its own copies
  and tasks share nothing, and two tasks together with the odd answers are too many states for
  the liveness properties. Two tasks together are in `tasks_faults`. Three requests in `market_funds`, because two of them may hold an order that a
  third one meets; three subscriptions in `groups_serial`, because a chain of remembered
  groups needs a middle one.
* Quotas 0 to 3 with totals 3 and 4: a hold of 2 can be settled below, at and above
  its amount, two holds do not fit into one subscription, and a subscription can be
  left with too little.
* `MaxFaults = 2` in `billing_faults` lets a fault hit a statement and its rollback;
  `MaxPeriods = 1` puts one reset or expiry between any two statements.
* `MaxIssued` and `MaxOwned` bound what is handed out. Where a property is about a
  limit they exceed that limit, so that a violation would be reachable. In
  `orders_mixed` the purchase limit is off and one user suffices: the properties are
  about the plan's counters, orders and a wallet.
* `crypto_scan`: two orders may have the same amount or different ones, so that the transfer
  is for one, for both (`ambiguous`) or for neither; one transfer is enough for it to be
  credited twice, given to the wrong order or skipped. A second one for the same order is
  covered by the theorems only. With a window of one block the transfer may be in time or late,
  and three blocks let a second scan overlap a first one and a start without a position pass
  blocks over.
* `stream_relay`: a channel of one chunk is full while a second chunk waits, which is
  every case the ten of the code can be in; two attempts are one that is abandoned and
  one that is disturbed by it.
* `chat_guarded`: four messages are two questions with their answers, enough for an old
  stream to meet a new answer.
* `CHECK_DEADLOCK FALSE` where used-up ids or a clock at its bound really stop the model.
  In the billing and stream runs the end is an explicit action (`Terminating`), so a
  deadlock would be found.

Fairness.

* `BillingSession`: weak fairness of each started request's own statements: a statement
  returns, an upstream attempt ends by an answer, an error or a timeout, and the goroutine
  pool runs what it was given. Nobody is obliged to start a request or to call `Reserve`.
  `RefundsArePaid` therefore speaks of a process that keeps running: a crash loses the
  refunds in the pool, and the code has nothing to recover them from.
* `SubscriptionOrders`: a transaction commits or rolls back (weak), and the sweep, which
  runs for ever, is not starved of the row locks nor rolled back for ever (strong):
  databases queue the waiters of a row.
* `AsyncTasks`: time passes and each polling loop goes on (weak). The provider need not
  answer: the sweep ends the task, if a timeout is configured (`TaskTimeout`, a premise of
  `TasksEnd`).
* `StreamScanner`: goroutines are scheduled, timers fire and a write to the client returns
  (weak, per goroutine). Neither the upstream nor the client has to do anything. The
  timer of the main loop is reset by every line: that it fires in the end assumes that an
  upstream does not send lines for ever, which the bound `MaxLines` also says.

Each property has a mutant in `PROJECT.json`: a small change of the model, as a bug in
that code would be, under which TLC finds the property violated.

## 4. Proofs

The theorems hold for any sets of requests, orders, users, transfers and rows, any finite set
of threads and any bounds. Where a property adds something up (withdrawals, codes and
orders of the wallet, requests of the billing session, orders of a plan and of the
marketplace) the sets that are summed over are finite, which the `ASSUME`s say. Each
inductive invariant was first checked by TLC on the run of its module.

Every property of a run that is an invariant, an action property or a refinement is
stated by a theorem; the six liveness properties are not. The theorems below that
have a condition on the constants need it: without it the property is false, by the
behaviour that section 5 or the entry names.

`Sums`. `SumFunctionOnSet` of the community modules is a fold, which is a recursive function
on the subsets of a finite set. The lemmas show that this function exists (`AddsUpTo`), that
any element may be taken out first (`SumRemove`), and hence what the change of one term does
to a sum (`SumChange`); sums of naturals are naturals, bound their terms, and are monotone.
Induction over the size of a set is written with a smallest counterexample.

`BillingSessionProofs`:

* `TypeCorrect`: `[]TypeOK`. The part with content is that `amount_used` stays a natural
  number although deltas are negative and repeated: the clamp in
  `PostConsumeUserSubscriptionDelta`. Lemmas about the row operators of `SubscriptionQuota`
  carry the arithmetic.
* `QuotaNeverExceeded`: `[]UsedWithinTotal`. `TypeOK /\ UsedWithinTotal` is inductive: a
  pre-consume chooses a row with enough left, a delta is refused when it would exceed the
  total, a reset and a clamp only lower.
* `SessionsConsistent`: `[]SessionInvariant`, which says of each request, for the place it
  is at, what its session has taken from the wallet and the token, which flags are set, and
  (without failovers, as long as nothing failed) that this is what the place is due. From it
  follow `NothingOverRefunded` (`NeverOverRefunded`) and `SettlementIsFinal`
  (`SettledIsFinal`) for all behaviours, failing statements and failovers included, and
  `SessionsAreCharged` (`SessionAccounts`) given `~FirstChunkFailover`.
* `NoUpdateIsLost`: `[]RowsMatchSessions`, without conditions. Each statement moves a shared
  row by what it moves in one session; the invariant adds that a fee is charged only
  after its request is over.
* `SubscriptionUseIsExact`: `[]SubscriptionUseExact`, given `~FirstChunkFailover`.
  `UseInvariant` adds that a session with a hold names its row (`SubIdOK`) and the two
  bounds of each row's use (`UseOK`), as long as no statement has failed; every step of a
  request is one of four moves of the rows (`UseMoves`).
* `BillingImplementsLedgers`: `LedgersKept`, without conditions: the wallet and the token each
  implement `HoldLedger` under a refinement mapping that reads the phase of a request from its
  flags (the wallet is captured by `fundingSettled` or `settled`, the token by `settled`) and
  the fine from the progress of `ChargeViolationFeeIfNeeded`. Each step of a request is one of
  six kinds (it opens, fails, answers, settles the funding, settles the token, refunds), which
  `OwnStepRefines` takes to a hold, a capture, a failure or a release; a step of the fee is a
  fine of one ledger and a stutter, or a fine, of the other. It needs `SessionInvariant`, for the amounts
  and flags, and `FeesOK`, so that no fine is due twice.

`SubscriptionOrdersProofs`, given `LockingReads`:

* `LocksProtectReads`: `[]IInv`, the inductive invariant. The properties alone are not
  inductive because a transaction writes what it computed in an earlier step. `IInv`
  consists of `TypeOK`, the properties, that a row is locked by one transaction at most
  (`LocksDisjoint`), that no two transactions work on one order (`OrdersDistinct`), and
  that what a transaction has read under its locks is still true (`TxOK`): its copy of
  the plan equals the row, its order is still pending with the same reservation, its
  stock check still holds, its wallet still covers the price.
* `StockNeverOversold` (`StockWithinTotal`), `OrdersFulfilledOnce` (`OrderFulfilledOnce`)
  and `PurchasesLeaveNoDebt` (the action property `PurchaseLeavesNoDebt`) follow.
* `StockIsExact`: `[]StockMatchesOrders`. `StockInvariant` adds what a change of the limit
  needs: a plan without a limit has no reservations, and a transaction that switches the
  limit on or off has seen that there are none and is still right.
* `LimitedPlanNotOversold` (`NoOversell`) and `PurchaseLimitKept` (`PurchaseLimit`), given
  `AlwaysLimited` (the stock limit is never off and balance pay is refused). Pending
  orders then have reservations, and what was given out is `stock_sold` until the plan is
  deleted. The purchase limit is counted without a lock; it holds because the lock on the
  stocked plan is held meanwhile.
* `PaidGroupIsKept`: `[]GroupInvariant` of `SubscriptionGroups`, given `Serialized` instead of
  `LockingReads`, for any plans, terms and finite set of subscriptions. `GroupsOK` adds that
  one transaction is open at most (`OneTransaction`) and what it will leave behind
  (`TransactionOK`): if a live subscription to a group remains, the user ends up in the group
  of an active one, whatever the clock does until the commit. The loop over subscriptions that
  end together is shown to exist as a function on their subsets (`EndingRuns`, by a smallest
  counterexample again), and each of its rounds keeps the claim (`RoundKeeps`): the live
  subscription that ends last, if one stays, names the group.

`WalletProofs`:

* `LocksConsistent`: `[]LockInvariant` of `OrderLocks`. A thread that uses a mutex finds it
  in the map, the count of a mutex is the number of its users (a cardinality, which the
  lemmas raise and lower one thread at a time), and a mutex has one holder. Without the
  count the step that drops a mutex could not be shown harmless.
* `LocksImplementMutex`: every behaviour of the counted mutexes is one of `OrderMutex`; a
  step is an entry, an exit, a restart or a stutter.
* `HandlersExcludeEachOther`: the whole wallet, crashes included, implements `OrderMutex`,
  because each of its steps is a step of `OrderLocks` or leaves the locks alone.
* `FrozenIsExact` (`FrozenMatchesOpen`) and `DecisionsAreFinal` (`DecisionIsFinal`), given
  `LockingReads`, from `WithdrawalInvariant`: a row has a user, a creation works on a fresh
  row, a decision on a current copy, and no two threads decide one row or create for one
  user.
* `TopUpsCreditedOnce` (`TopUpCreditedOnce`), given `LockingReads`, from `TopUpInvariant`:
  the invariant of the locks, a handler owns the order it works on, its copy is current,
  and no two handlers are at one order.
* `CodesRedeemedPerEnable` (`RedeemedPerEnable`), given `LockingReads`, from
  `CodeInvariant`: a redemption in progress sees an enabled code, is alone at it, and a
  usable code has been enabled more often than it was used.
* `WalletAccountsExact` (`AccountsExact`), given `LockingReads`, from `AccountInvariant`: the
  three invariants above, and what the second half needs, that quota from codes is never paid
  out. The batch updater only spends (`BatchOnlySpends`: the balance a withdrawal is
  checked against is too high by what is not yet written, never more than what was spent),
  used codes say what they gave until an administrator edits one (`CodesCounted`), and a
  withdrawal between its check and its row is covered (`CreatesCovered`), although requests
  spend and codes are redeemed in between. Steps are classified by what they do to three
  numbers of each user: the balance, the exposure and the gap of the codes (`BooksKept`).

`AsyncTasksProofs`, from `TaskInvariant`: a poller works on rows that were unfinished when
it read them, a copy of a video task is old in its status and progress only, only the process
that ended a task bills it, and an unbilled task is charged what its row says. Progress is not
tied to the status, so any answer is covered.

* `TasksChargedExactly` (`ChargesExact`), if the settlement at submission does not fail
  (`"settle" \notin Faults`; finding 12 otherwise).
* `TaskEndsAreFinal` (`FinishedIsFinal`), if no channel is deleted
  (`"channel" \notin Faults`): the tasks of a deleted channel are failed with an update that
  has no condition.

`CryptoTopUpProofs`, from two invariants. `CryptoInvariant` holds whatever the database does:
copies agree with their rows on amount and deadline, and a scan has recorded, is recording or
still has to do everything up to its last block except its gap (`ScansOK`). `LockInvariant` needs
`LockingReads`: a recording's copies of the transfer's row and of the orders it found are still
true when it saves them (`RecsHold`), a completion holds its order alone (`LocksOK`), and a
transfer is held for one order at most, by match, queue, completion or credit (`PairsOK`).

* `NoTransferIsSkipped` (`ScannedIsRecorded`), without conditions: overlapping scans, the lost
  Redis lock and unlocked saves do no harm, and only the blocks in `gaps` are passed over.
* `AutoCreditsAreBacked` (`AutoCreditBacked`) and `OrdersCreditedOnce` (`CreditsExact`), given
  `LockingReads`. Without it both are false (finding 4).

`MarketplaceProofs`, from `MarketInvariant` (`MarketIsConsistent`): an order not yet bought has
no user, copy or refund; a relayed request has its capacity; a sweep has copies of expiring
orders only; and the account of each order (`BookOK`), which covers expiring orders by an
inequality and the others by an equation.

* `MarketAccountsExact` (`AccountsExact`), `QuotaNeverSpentTwice` (`NeverSpentTwice`),
  `CapacityIsExact` (`CapacityMatchesSessions`), all without conditions.

`StreamScannerProofs`, from `StreamInvariant`: the chunks that were counted and not lost are
handled, being handled, queued or about to be sent (`Kept`); chunks are dropped only after a
stop, which has a reason; an abandoned attempt has handled no chunk and can handle none
(`Quiet`).

* `EndsAreExplained` (`StatusSound`), `FailoversSendNoChunk` (`FailoverHasNoChunks`) and
  `StreamsAreDrained` (`DrainedIsComplete`), for any number of attempts and lines, any
  capacity of the channel and every format of the client. Closing frames are not chunks
  (finding 16).

The same module proves the page (`ChatInvariantHolds`: `[]ChatInvariant`), for conversations,
streams and answers of any length. Pages where an unguarded control was used during a
generation are excepted, as in the properties (`disturbed`). On the others at most the last
message is unfinished, it is that of the stream that is referred to, and it holds all the chunks
which that stream has delivered (`Conversation`); the flag `isStreamCompleteRef` belongs to that
stream and no other one is open (`Referred`); controls are live on an up-to-date page only
(`PageCurrent`); what a mount finds has one unfinished message at most (`Stored`), also when a
stream of a page that was left has saved it, because the conversations such pages hold are like
that too (`LeftSettled`); and keys not given out have no stream (`FreshKeys`).

* `AnswersAreWhole` (`AnswerIsWhole`), `StreamsAreTracked` (`StreamsTracked`) and
  `FailuresAreShown` (`FailureIsShown`).

Assumptions: the named `ASSUME`s of the modules (types of the constants, distinct names,
finite sets), which TLC evaluates in the runs.

One attempt at a proof corrected the model: `FallsBackToWallet` did not ask which source had
refused, so a wallet that refuses could be tried again as a fallback; in the code the
fallback follows a refused subscription only (`service/billing_session.go:428`).

Only model-checked: liveness (`RequestsFinish`, `RefundsArePaid`, `PendingOrdersEnd`,
`TasksEnd`, `FailuresRefunded`, `StreamsEnd`), which needs fairness and `ENABLED` and is out of
the prover's reach. `billing_faults` has no violation fee, so that its state space stays
small; that fees are fined once and leave the holds alone is in the theorem, and
`RowsMatchSessions` of `billing_mixed` counts them.

## 5. What the models found

Each of these is a behaviour of the code that the model shows when the named property is
checked with the named change of a run. The passing runs are set up so that they claim
only what is true besides.

Billing and subscriptions

1. A subscription refund whose record cannot be saved is repeated and paid twice
   (`model/subscription.go:2102`; the comment at 2084 calls it idempotent).
   `SubscriptionRefundIdempotent` under `BillingFaults.cfg`.
2. A first-chunk failover leaves the session settled at the abandoned attempt's quota, and
   the answer of the next one is not charged (`controller/relay.go:258`).
   `SettledChargesServed` under `BillingMixed.cfg` with `FirstChunkFailover = TRUE` and
   `RetryTimes = 1`.
3. Buying with the balance ignores the stock (`model/subscription.go:1498`). `NoOversell`
   under `OrdersLimited.cfg` with `AllowBalancePay = TRUE`.
4. `gorm:query_option` is not a locking read in GORM 2 (`model/subscription.go:366` and
   wherever it is used). With `LockingReads = FALSE`, TLC refutes `StockWithinTotal`
   (`OrdersLimited.cfg`), `FrozenMatchesOpen`, `TopUpCreditedOnce` and `RedeemedPerEnable`
   (`WalletFunds.cfg`), and `CreditsExact` (`CryptoScan.cfg`). The row of a transfer is read
   without asking for a lock at all and saved whole (`model/topup_crypto.go:483` to 498), so its
   `matched_order_id` can be written back to none: from a start where the transfer is recorded
   and unmatched, two scanners read it, one matches and credits an order, a second order of
   the same amount is made, and the other scanner gives it the same transfer. That refutes
   `AutoCreditBacked`.
5. A plan bought again while the first subscription runs leaves the user upgraded for good
   (`model/subscription.go:802`): with no active subscription left, `group` need not be
   `InitGroup` under `GroupsSerial.cfg`.
6. A purchase that commits between the reads and the writes of an ending subscription
   loses its group (`model/subscription.go:789`). `PaidGroupKept` under `GroupsSerial.cfg`
   with `Serialized = FALSE` and two workers.
7. The violation fee runs beside the refund goroutine and not, as its comment says, after
   it (`service/violation_fee.go:126`); the model lets them interleave.
8. An order made while a plan had no stock limit is completed outside a limit set later
   (`model/subscription.go:1277`), and the purchase limit is a count without a lock
   (`model/subscription.go:950`) that only the lock on a stocked plan protects. `NoOversell`
   and `PurchaseLimit` are checked for plans whose limit is never off.
9. The downgrade group of a plan is copied into the subscription and read nowhere
   (`model/subscription.go:1003`).

Tasks

10. A user's fetch of a Gemini task saves what the provider says over a row the sweep has
    failed and refunded; the task comes back, and its next failure is refunded again
    (`relay/relay_task.go:479`). `charged[t] >= 0` for `GeminiTasks` under
    `TasksFaults.cfg`, also with `Faults = {}` and `LegacyTasks = {}`.
11. Suno tasks are refunded and then saved without a condition, so two pollers both refund
    (`service/task_polling.go:244`). `charged[t] >= 0` for `SunoTasks` under
    `TasksPoll.cfg`.
12. A task whose settlement failed still records the full quota, and a refund gives back
    more than was taken (`controller/relay.go:799`). `ChargesExact` under `TasksFaults.cfg`
    with `Faults = {"settle"}` and `Quotas = {1, 2}`.

Crypto top-up and marketplace

13. The status page saves the whole order it read as expired, over one that a scanner has
    meanwhile matched: a transfer that was made in time is then not credited
    (`model/topup_crypto.go:289`). That a `detected` order never becomes `expired` is
    refuted under `CryptoScan.cfg`.
14. Due fixed orders are read outside a transaction and expired from that copy
    (`service/marketplace_buyer.go:1246`): quota a request has used and paid is settled for
    the seller once more, although the design
    (`docs/superpowers/specs/2026-04-29-marketplace-key-order-pool-design.md:286`) speaks of
    "one final fixed-order settlement for the unused expired quota". That the settlements
    and refunds of an order stay within `Purchased` is refuted under `MarketFunds.cfg`,
    already with one order, one request and one page.
15. `Settle` of a fixed order lowers its in-memory hold inside the transaction; when that
    is rolled back, the next settlement starts from the wrong hold
    (`service/marketplace_fixed_order_relay.go:324`). `rolledBack` excludes these orders.

Streams and the page

16. Adaptors close the client's stream although nothing was received, before the controller
    fails over to the next channel, whose answer then follows the end: `[DONE]` for OpenAI
    clients (`relay/channel/openai/helper.go:157`), start and stop frames for Claude clients
    (`relay/channel/openai/chat_via_responses.go:522`,
    `relay/channel/gemini/relay-gemini.go:1492`). The comment at `controller/relay.go:254` says
    that only requests without any output are retried, but the code asks for the number of
    chunks. `FailoverHasNoChunks` with `~stream[a].tail` added, under `StreamRelay.cfg`.
17. The scanner of an abandoned attempt reads `info.StreamStatus` when it ends, which by
    then belongs to the next attempt, and may stamp `scanner_error` on it
    (`relay/helper/stream_scanner.go:323`, reset at `controller/relay.go:232`).
18. The goroutine of a ping is not in the `WaitGroup` of the cleanup and may write beside
    the final frames or the next attempt (`stream_scanner.go:197`; line 83: "Mutex to
    protect concurrent writes"). A panic of the data handler leaves the mutex locked and
    such a goroutine waiting for ever (line 251), which `StreamsEnd` allows for.
19. A line that is `[DONE]` without the `data:` prefix is cut like one that has it, and `]`
    is handled as a chunk (`stream_scanner.go:293`).
20. The suggestion buttons, and Save in an editor that was open before, work during a
    generation: a second stream starts and both write to the last message, one of them
    beyond the reach of Stop. `AnswerIsWhole` without `~disturbed`, under
    `ChatGuarded.cfg`.

Found while answers, scans and mounts were modelled in full

21. A Suno answer with a reason of failure and an unfinished status refunds the task and sets it
    to 100% (`service/task_polling.go:234`). Neither the loop nor the sweep selects it again, and
    it never ends. `TasksEnd` without `\/ tasks[t].complete`, under `TasksPoll.cfg`. Pollers with
    older copies save it again and may bring it back, also after the sweep has failed it, and
    each such answer is refunded once more (the unconditional save of finding 11).
22. The progress of a video provider is copied whatever the status is
    (`service/task_polling.go:469`): at 100% with an unfinished status the task never ends and is
    neither paid nor refunded. The same change of `TasksEnd`.
23. The cutoff of the older tasks, `1740182400`, is 22 February 2025; its comment says 2026
    (`service/task_polling.go:52`).
24. A scan that cannot read its saved position starts 30 blocks before the confirmed ones and
    saves its end (`service/crypto_payment/bsc.go:39` to 46 and 85): blocks between the old
    position and that start are never scanned, and their transfers are not credited without an
    administrator. `ScannedIsRecorded` without `gaps`, under `CryptoScan.cfg`.
25. Leaving the playground does not close its stream (`hooks/use-stream-request.ts`): after
    coming back it still runs, Stop cannot reach it (that `orphans` is empty on a mounted page is
    refuted under `ChatGuarded.cfg`), and its first event may save the conversation of the page
    that was left over the one the new page has saved (`saved = messages` on a page at rest is
    refuted).
26. A pool request whose wallet was settled and whose token update failed is charged, the seller
    is not paid, and nothing is refunded (`service/billing_session.go:61` to 79,
    `service/marketplace_pool_relay.go:178`; `SettlePoolFails` is also this path).

Further hazards that the models have and no property rules out: a crash loses the refunds
of the goroutine pool (`service/billing_session.go:107`) and strands the capacity of a
marketplace request (`service/marketplace_fixed_order_relay.go:242`); concurrent requests
overdraw a wallet (`billing_session.go:354`); a payment that comes after its order expired
is not completed (`model/subscription.go:1258`); a task whose insert fails is charged and
never polled (`controller/relay.go:822`); Epay is told "success" before the order is
completed, and not asked again when that fails (`controller/topup.go:352`); the mutexes of
`LockOrder` bind one process only; a failing settlement of the pool leaves the seller unpaid
(`service/marketplace_pool_relay.go:325`), and its credential is saved from an old copy
(line 127); a stream that ends without `[DONE]` leaves the page generating until Stop.

## 6. Not modelled

* Amounts of quota come from pricing formulas over floats and decimals, which TLC does not
  have; the models take them as constants.
* Balances are read from the database. The Redis copies are used for checks the code treats
  as estimates; the batch updater is in `Wallet` only, and with it on, writes of the other
  models reach the row later than these say.
* The subscription transactions of `BillingSession` are atomic, which takes their
  `FOR UPDATE` at its word as `LockingReads = TRUE` does elsewhere.
* The batch updater of `Wallet` takes the net of what requests spend; increases, which the code
  batches as well (`model/user.go:1175`: the refund or the lower settlement of an earlier hold),
  are part of that net. A row that lags behind by an increase is too low, not too high.
* An administrator's form that writes an old `enabled` over a used code counts as an enable in
  `RedeemedPerEnable` (`UpdateRedemption`): the property bounds redemptions by what administrators
  have written, and does not call such a write an error (`model/redemption.go:172`).
* What properties leave out of their hazard: `CapacityMatchesSessions` counts capacity that a
  crash or a failing release strands as taken; `NeverSpentTwice` is about the buyer, not about
  what the seller is paid (finding 14); `CreditsExact` and `AutoCreditBacked` say nothing of a
  detected order that is forgotten (finding 13); the sweep of pending orders is modelled order by
  order, so that one failing order keeps the later ones waiting is not in `PendingOrdersEnd`;
  `NoOversell` is claimed without balance pay only, which plans allow by default
  (`model/subscription.go:247`).
* A retry after an adaptor's own error when chunks have already been written (such as an error
  event inside a stream of the responses interface) is not the first-chunk failover of
  `StreamScanner`.
* The overdraft of a wallet or token by concurrent requests is possible in the model
  as in the code and is not called an error: the columns are signed and the next
  request is refused.
* Completing an order also writes a `top_ups` row and settles referrals, in tables no
  variable stands for.
* In `SubscriptionGroups` plans are not edited and nobody sets the group by hand.
* Midjourney tasks, which have a table and loop of their own; the scanners of networks
  other than BSC, which differ in how they read transfers; listing and editing of
  marketplace credentials, the release of pending settlements (no code creates one) and
  `Reserve` of marketplace sessions (no caller).
* A panic of the scanner goroutine itself; the ten slots of the channel beyond one.
* Rate limiting (atomic scripts in Redis), authentication, adaptors (stateless
  translation), logs and administration (reads and writes of single rows).
* The frontend apart from the playground: most of the repository's lines, forms and tables
  over the REST interface, whose state does not outlive a page.

## 7. Plan

What is left, in this order:

1. The subscription rows as a third ledger, with resets and the clamp in the abstract
   specification.
2. The Redis copies with the batch updater as one quota store and an abstract balance.
3. Channel selection and referral shares as operators checked against a reference
   definition.
