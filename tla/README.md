# TunexPay: a TLA+ model

TunexPay is a payment gateway: a business creates orders, a customer pays one of
several attempts of an order through a channel (Alipay, a personal Alipay account
watched through its bill, or a mock), and the gateway tells the business, refunds,
closes what is overdue and repairs what was interrupted.  These modules describe
the part of it that moves money and state between concurrent actors, the runs check
it on small instances with TLC, and the theorems are checked by TLAPS.

Paths below are relative to `apps/api/src/` unless they start elsewhere.

## 1. The system

Three kinds of process share one MySQL database: any number of API processes
(`server.ts`, routes), any number of worker processes (`worker.ts`, one tick every
three seconds, a BullMQ queue with eight concurrent jobs in each), and the outside:
Alipay, the buyer, the server of the business.  All coordination goes through
database rows: transactions (REPEATABLE READ where they ask for no more: their plain reads see the snapshot of the first
one, their locking reads and writes what is current) with `SELECT ... FOR UPDATE`, conditional
`updateMany` that claim a row, and leases (`lockedUntil`, `expirationLockedUntil`).
Every channel call (up to 12 seconds) happens between two transactions, never in one.

| Component | State it keeps | Operations | Talks to | What makes it correct |
|---|---|---|---|---|
| Status graphs (`lib/state-machine.ts`, `lib/recovery-policy.ts`) | none | `assertPaymentTransition`, `assertRefundTransition`, `refundedOrderStatus` | everyone | no service writes a status the graph forbids |
| Orders (`services/order-service.ts`) | `orders` | create with an idempotency key, read | payments | one order per external number |
| Payments and settlement (`services/payment-service.ts`) | `payments`, `orders`, `channel_callbacks`, `payment_exceptions` | `createPayment`, `queryPayment`, `closePayment`, `handleAlipayWebhook`, `mockSucceed`, `markPaymentSucceeded` | channels, outbox, exceptions | money is accounted for once; one final winner per order; nothing is a success that was not paid |
| Order expiration (`services/expiration-service.ts`) | `orders.expiration*` | claim, query and close each attempt, close the order | payments | a closed order has no open attempt; an unpaid one is never forgotten |
| Payment and refund recovery (`services/recovery-service.ts`) | `nextQueryAt`, `queryAttempts` | claim, query, exhaust | payments, refunds | what is open is queried again, a bounded number of times |
| Refunds (`services/refund-service.ts`) | `refunds`, the order's status | create, dispatch, query, finalize, match a receipt | channels, outbox, exceptions | never more than was paid; the order speaks of its winner |
| Payment exceptions (`services/payment-exception-service.ts`) | `payment_exceptions` | open, reopen, work on, resolve | payments, refunds, receipt flow | a late duplicate is disputed until its money went back or the administrator has dealt with it |
| Outbox and webhook delivery (`services/outbox-service.ts`, `webhook-worker-service.ts`, `worker.ts`) | `webhook_deliveries`, the queue | write, poll, claim, send, retry | the business | at least once, bounded, never stuck |
| Receipt flow (`services/receipt-flow-service.ts`, `receipt-reservation-service.ts`) | `receipts`, `receipt_match_reservations` | reserve an amount, ingest, claim, match, rematch, recover | payments | a receipt is attributed to at most one payment |
| Bill collector (`services/alipay-bill-collector-service.ts`) | `bill_collector_states` | claim, window, page, commit, back off | Alipay, receipt flow | no entry between two windows is skipped |
| Channel instances (`services/channel-instance-service.ts`, `channel-test-service.ts`, `bill-settings-service.ts`) | `channel_instances`, settings, revisions | save, check, test, assign | payments, collector | what counts as verified was verified with its present settings |
| Owner notifications (`services/owner-notification-service.ts`) | `owner_notification_*` | collect events, claim, send, retry | mail, Feishu | each event is told, cancelled or given up, in whatever order events are committed, and by one worker at a time |
| Reconciliation (`services/reconciliation-service.ts`) | `receipts` | import a day's bill, match | payments, refunds | a mismatch is never settled |
| Applications (`services/application-service.ts`) | `applications` | create, rotate, disable, archive | everything below an application | an archived order has no attempt on its way; nobody is answered with another order than he asked for |
| Routes, authentication, audit, web | audit log | validation and dispatch | services | outside this model |
| Cryptography, money, parsing (`lib/*`) | none | pure functions on bytes and strings | everyone | outside this model |

### What is hard about it

* **Interleaving.**  Webhook, query, mock success, receipts, the expiration and the
  recovery all settle or close the same payment, each after a read that is stale by
  a channel call.
* **Crashes.**  A handler may be lost after its first transaction and before the
  channel call, or after the call and before its last transaction.
* **Unreliable delivery.**  Alipay's answers are lost while the request is carried
  out, requests arrive late, notifications repeat and may be given up; the business
  acknowledges and the answer is lost.
* **Leases.**  A worker can outlive its lease and then write beside its successor.
* **Liveness.**  A paid trade must be recorded, an overdue order must end, a
  notification must be delivered or given up.

`PROJECT.json` lists the hazards with the line where each bites and the properties
that watch it.

## 2. The modules

```
StateMachine            pure: statuses and graphs
  PaymentService        orders, payments, channel, callbacks, exceptions: the actions
    Expiration          the worker's loop over overdue orders
    Recovery            the worker's loop over open payments
      PaymentSystem     their composition: Next, Spec, FairSpec, properties
        PaymentSystemProofs     types; accounting, refinement, status graph;
                                what handlers know: channel, expiration, recovery
Refunding               abstract: what refunds promise
  Refund                refunds, their recovery
    RefundProofs        sums of refunds, books, the worker's list; refinement
Settlement              abstract: what settling payments promises
  ReceiptFlow           reserved amounts and remarks, the account's flows, matching
    Reconciliation      beside it the day's bill and the webhook: Next, Spec, properties
      ReconciliationProofs
WebhookDelivery         outbox rows, queue, workers
  WebhookDeliveryProofs
BillCollector           windows and pages of the account's ledger
  BillCollectorProofs
ChannelInstance         settings, revisions, checks, test payments, assignment
  ChannelInstanceProofs
Application             credentials, requests, orders, suspension, deletion, archive
  ApplicationProofs
OwnerNotification       events, tasks, rounds of the workers
  OwnerNotificationProofs
```

`MC<module>` has the instances of a module for TLC.  `Settlement` links the two groups that
settle payments: `PaymentSystem` is shown to implement it, and `ReceiptFlow` uses its steps
(`Core`) where the matcher calls `markPaymentSucceeded`, so that the matcher need not repeat
the handlers of `PaymentService`.  The other links are narrow in the code as well: the
collector hands an entry to the receipt flow by storing a row, `createPayment` asks an
instance for its settings, and the notifications read events without touching them.

**Granularity.**  A transaction, or a single statement outside one, is one step: the
code takes row locks or runs serializable transactions exactly where a step here
reads and writes.  A handler that awaits a channel between two accesses is several
steps.  What it read stays in its record of `proc` (`pay`, `seen`, `res`, ...), so
that later steps use the stale value as the code does.  Each handler, API request
or worker run is a member of `Api`, `Expirers`, `Recoverers` or `Workers`; all of them
interleave, and `Crash` (`Lose`) may end any of them between any two steps, up to the
bound `MaxCrashes` (`MaxLost`, `MaxFaults`).

**Time** has no numbers where only the order of instants matters.  A nullable instant is null or set, "later" or "due", and a
step of the environment moves it on (`PassDeadline`, `BackoffElapses`,
`LeaseElapses`).  The clocks of the API and of the worker pass an order's deadline
separately (`expired`), since they run on different machines.  Where windows matter, in
`ReceiptFlow` and `BillCollector`, there is a clock `now` that a step moves on, up to
`Horizon`; leases and back-offs end at any time even there.

**The channel** (`trade`, `inTransit`, `notices`) is external and modelled from how
`channels/alipay.ts` uses it: a trade exists at Alipay once its code is scanned, a
query of a missing trade answers CREATED (lines 97-102), a close of a missing trade is
refused (105-108), a request without an answer may have been lost, done, or be
still under way.  `response.text()` (line 192) is outside the try blocks of `call`, so
that an answer whose body is lost throws an ordinary error that callers take for a
refusal.  A notice tells of a status, SUCCESS or one of `Notified`, and the repetitions of one
notice share a row of callbacks, as their `notify_id` makes them.

| Module | State and its table | Actions and their code |
|---|---|---|
| `PaymentService` | `orderStatus`, `winningPaymentId`, `expirationNext`, `expirationLocked`: `orders`; `delivery`: the `payment.succeeded` row of `webhook_deliveries`; `payStatus`, `nextQueryAt`, `queryAttempts`: `payments`; `exception`: `payment_exceptions`; `callback`: `channel_callbacks` | `CreatePayment`, `DispatchCreate`, `ObserveCreate`, `ObservationThrows`: `createPayment`; `StartQuery`, `ChannelQuery`, `QueryThrows`, `ApplyQuery`: `queryPayment`; `StartClose`, `ChannelClose`, `CloseThrows`, `ConfirmClose`: `closePayment`; `ReceiveNotice`, `SettleNotice` (of a success only), `SettlementThrows`, `AcknowledgeNotice`: `handleAlipayWebhook`; `Inform`: Alipay tells of a trade that waits or was closed; `Credit`: `mockSucceed` and the receipt matcher; the operators `markPaymentSucceeded` and `updatePaymentObservation` are the two transactions of these names |
| `Expiration` | as above | `ClaimExpiration`, `LoadOrder`, `LoadPayments`, `VisitPayment`, `AfterQuery`, `AfterClose`, `CloseOrder`, `releaseExpiration`, `ExpireFailRead`, `ExpireFailWrite`: `runDueOrderExpirations` and `expireOrder` |
| `Recovery` | as above | `ClaimRecovery`, `RecoverQuery`, `AfterRecovery`, `RecoverRead`, `RecoverWrite`: `runDuePaymentRecoveries` and `exhaustPayment` |
| `Settlement` | `settled`, `winner`, `told`, `disputed` | `Win`, `Dispute`: the two branches of `markPaymentSucceeded`, with no handlers, channels or time |
| `Refunding` | `given`, `told`, `resolved` (by refunds) | `Give`: what Alipay may do once `createRefund` has asked; `Tell`, `Resolve`: what `finalizeRefund` may do, with no handlers, answers or statuses |
| `Refund` | `refundStatus`, `nextQueryAt`, `queryAttempts`: `refunds`; `orderStatus`, `exception`, `told`; `settledByRefund`: the PAYMENT_EXCEPTION_RESOLVED events of source REFUND; `refunded`, `inTransit`: Alipay | `CreateRefund`, `DispatchRefund`, `updateRefund`, `finalizeRefund`, `FinalizeThrows`: `createRefund`; `StartQuery`, `ChannelQuery`, `QueryThrows`, `KeepRefund`: `queryRefund`; `MatchReceipt`: `markRefundSucceededFromReceipt`; `updatePaymentException`: the administrator; the recovery's five steps |
| `WebhookDelivery` | `status`, `attempts`, `nextAttemptAt`, `lockedUntil`: `webhook_deliveries`; `listed`, `queued`, `finished`: the queue; `worker` | `recoverExpiredDeliveries`, `listDueDeliveryIds`, `Enqueue`: `poll`; `Claim`, `ClaimThrows`, `ReadDelivery`, `Send`, `RecordSuccess`, `RecordFailure`: `deliverWebhook`; `Retry`: the administrator's route |
| `ReceiptFlow` | `payment`, `channelTradeNo`: `payments` and `receipt_match_reservations`; `receipt`: `receipts`; `raised`: the RECEIPT cases; `flow`: the account's ledger | `CreatePayment`: `createPayment` with `prepareReceiptPayment`; `Store`, `Claim`, `Locate`, `Settle`, `MarkMatched`, `markUnmatched`, `markMismatch`, `RecordError`: `ingestAlipayBillFlow`, called by `ingestAlipayBillFlows` and `recoverStaleAlipayBillFlows`; `Rematch`, `Reset`: `rematchAlipayBillReceipt`; `Throw`, `Lose`, `LeaseElapses` |
| `Reconciliation` | `run`: `reconciliation_runs`; `importer` | `importAlipayBill`, `StoreRow`, `ReadIncome` with the refusals of `matchIncome`, `SettleIncome`, `FillTrade`, `Mark`, `FinishImport`, `FailImport`: `importAlipayBill`; `matchReceipt`; `Notify`: the webhook |
| `BillCollector` | `state`, `due`: `bill_collector_states`; `entry`: the ledger; `stored`: `receipts` | `Claim`, `OpenWindow`, `Query`, `Store`, `Commit`, `BackOff`, `Release`: one run of the collector; `Appear`: the ledger shows an entry late |
| `ChannelInstance` | `channel`: `channel_instances` with settings and evidence; `assigned`: `applications.defaultChannelId`; `payment` | `Save`: `saveChannel`; `ClaimCheck`, `LoadForCheck`, `FinishCheck`: `checkChannel`; `ClaimTest`, `StartTest`, `MakeTest`, `RecordTest`, `ReleaseTest`: `createChannelTest`; `AssignReads`, `AssignCommits`: `assignChannel`; `PayReads`, `PayCommits`, `Send`: `createPayment`, as far as the channel goes |
| `Application` | `app`, `order`, `payment`, `refund`: the rows of these names | `Authenticate`: `applicationAuth`; `LookForOrder`, `InsertOrder`, `LookAgain`: `createOrder`; `Pay`, `Refund`, `Settle`, `EndUnpaid`, `EndRefund`: the attempts; `SetStatus`, `Rotate`, `CountForDeletion`, `DeleteRow`, `ReadForArchive`, `WriteArchive`: the administrator |
| `OwnerNotification` | `enabled`, `chosen`: settings; `there`, `seen`: events and their markers; `failing`, `quarter`: the collectors' monitor; `task`: the jobs | `Read`, `Collect`, `Recover`, `List`, `Take`, `Address`, `Send`, `Record`, `EndRound`: a worker's round; `SaveSettings`, `Test`: the administrator |

Operators introduced by "Mutant:" in a comment are plausible mistakes in the operator
that follows them; no action uses one.  Putting one in place of the real operator makes
the property `PROJECT.json` pairs it with fail in its run: that is how we know that
the property depends on the code.

What each model abstracts: in `PaymentService` amounts of payments (an amount that differs makes
`markPaymentSucceeded` throw, which is `SettlementThrows`), trade numbers, idempotency
keys (a repeated key changes nothing), the choice and verification of the channel
instance, event rows, payloads and signatures.  `Refund` and `ReceiptFlow` keep amounts,
because their properties are about sums and about who was shown which amount; `Application`
keeps order numbers and idempotency keys.  A flow is known by its trade number, a message of
the owner by its key, the settings of a channel are its account, its key and whether its
ledger is collected.

## 3. The runs

`CHECK_DEADLOCK FALSE` is set everywhere because every system here may come to rest: an order
past its deadline without attempts, a refund that failed, a delivered notification.

| Run | Instance | Question and answer |
|---|---|---|
| `settlement` | one order, two attempts (Alipay, mock), two API handlers, one crash, an administrator, refunds, notices of a closed trade beside those of a success (586 000 states) | However the reports of success interleave, `PaidMeansWinner`, `MoneyAccountedOnce`, `OutboxTellsWinner`, `ProcessedMeansSettled`, `SuccessMeansPaid`, `ClosedMeansClosed`, `WinnerIsFinal`, `StatusFollowsGraph` hold, and the system implements `Settlement`.  A processed notice that is not one of success says nothing of a settlement (`payment-service.ts:271-272`).  The two handlers are exchangeable; no liveness is checked with that symmetry, and the action and refinement properties do not name a handler. |
| `recovery` | one Alipay attempt whose notification may be given up, one handler, one recovery with two attempts, one crash, notices of a closed trade, fairness (88 000) | Open payments stay on the worker's list; money is recorded, unless its notification is over and its recovery is over too. |
| `order_expires` | one attempt of Alipay, one expiration, one handler, one crash, notices of a closed trade, fairness (41 000) | No order is closed over an active attempt, none that waits for money is forgotten, and once its code was scanned an overdue order ends closed or paid. |
| `refunds` | order of 2, refunds of 2 for its winner and of 1 and 2 for its late duplicate, one handler, one recovery, an administrator who moves the case (1 840 000) | No over-refund, no false success; order and business each follow the right refunds, refunds settle the case only by all of its money, and none stays open when all of it is recorded as returned. |
| `refund_recovery` | one refund, two handlers, one recovery with two attempts, one crash, fairness | A refund stays on the list, and a success that a stale write took back (divergence 2) is recorded again or its recovery is exhausted. |
| `delivery_rows` | one delivery, two workers, `maxAttempts` 2, one lost worker or failed claim, one retry, two failures (970 000) | Ends are earned, one sender within its lease, what was delivered stays so, names in the queue do not hide a retry. |
| `delivery_settles` | one worker, `maxAttempts` 2, one lost, one retry, one failure, fairness (104 000) | Every notification is delivered or given up. |
| `receipts` | two orders of one price, two payments by amount, by remark or by the merchant's account, two trades with or without the remark or of too little money, two workers, an importer of the bill, the webhook, one fault (1 363 000) | What is matched is bound to its payment, in its window; a careful customer's money is his own payment's and never refused silently; amounts shown at one time differ; an undecided flow is found again. |
| `collector` | one payment, two entries of the ledger, pages of one, two workers, an entry that shows late, one fault, fairness (140 000) | Nothing that is looked for falls between two windows or pages, and what was paid is found. |
| `channels` | two instances of the bill, two accounts, revisions up to 2 and 1, one worker, one fault (423 000) | Evidence is about the present settings; the account of a payment stays that of its instance and of no other. |
| `applications` | two requests, two orders, two numbers, one key, two contents, one attempt, an administrator (817 000) | Who is answered gets what he asked for; a deleted order has no attempt on its way. |
| `owner` | two events committed in either order, one of them of a mock payment, or one and a test or a quarter of a failing collector; one medium, two workers, batches of one, two attempts, one failure, one fault or change of settings, fairness (391 000) | No message is told twice without a fault; every event is handled, be it committed after one with a higher number that filled the batch. |

**Bounds.**  `MaxCrashes`, `MaxLost`, `MaxRetries`, `MaxFailures`, `MaxFaults`, `MaxTrouble` (faults and
changes of settings together), `MaxSources`, `MaxRevision`, `Limit`, `Horizon` and the sizes of the constant sets are the only
bounds.  Orders share no row, so two orders of `PaymentSystem` interact only through the order
in which a worker visits them, and the models let a worker visit any of them at any time.
Two attempts are the fewest at which a late duplicate exists; two handlers the fewest at which
one read is stale under the other; one crash is enough for each place where a handler can
be lost, because a handler's steps after a crash are those of a new handler.
`RECOVERY_MAX_ATTEMPTS` and `maxAttempts` are 2 where the last attempt must differ from an
earlier one, else 1.  `Limit` caps the attempts of a delivery so that one more than
`maxAttempts` (plus one for a lost worker, plus one for a retry in `delivery_settles`) is still
explored; in `delivery_rows` the claims beyond it are cut off.  In `receipts` two payments of
one price compete for two offsets and two trades for two payments, over windows of one instant
whose end and next beginning both occur; in `collector` the clock passes a whole window, its
overlap and the beginning of the next, and a window has more pages than one.

Larger instances were explored once, with the same answers, and are too slow to repeat on
every change: `receipts` with flows that name their payment, with `Horizon`
2 and with all five kinds of flow (at most 2.9 million states, then without the amounts that fall short); `collector` with two payments
and two entries (988 000); `channels` with unset accounts (612 000); `order_expires` with
two attempts and no notices but those of success (`PaymentSystem_expiration.cfg`, 876 000).
`PaymentSystem_notices.cfg` (85 000) has two handlers and one attempt with notices of every status, so that
one that waits is processed before, between and after those of its success; with the second attempt
of the run `settlement` it was 1.8 million.
`Refund_crash.cfg` (42 000) has the crash that the run `refunds` leaves out, and an answer that loses its
body; `OwnerNotification_single.cfg` (267 000) has one event, with a fault and a change of settings.  For refunds, settlement, receipts, applications and deliveries the
theorems of section 5 make the sizes irrelevant to the safety properties.

**Fairness.**  `FairSpec` asks weak fairness of every started handler (a promise is
resumed or its process is lost), of the worker's claims (the tick comes every three
seconds), of the back-off, the leases and the removal of finished jobs (time passes).
Strong fairness is asked only of what is tried again and again: the channel's answer
to a call the worker repeats, a notification that Alipay repeats, its settlement, and the
taking of a waiting job.  Nothing is asked of the buyer, the administrator, API clients, the
order of steps, or of crashes.  `recovery` names the payments whose notification may
be given up (`Lossy`).  The collector's run is strongly fair for each worker, because it is
tried at every tick and competes for a lease; time, the back-off, the lease and the ledger's
delay are weakly fair.  The owner's notifications need only weak fairness of the rounds, of
back-offs and of leases that no living worker holds.

## 4. Where the documents say something else

Each of the first six has an instance beside the runs, `<module>_<name>.cfg`, whose one property
is what the document says; TLC violates it with `MC<module>`.  The properties of the runs say
what does hold.

1. **An order nobody scanned never closes** (`PaymentSystem_unscanned`, `ExpiredIsSettled`).
   `AlipayChannel.close` lets `ACQ.TRADE_NOT_EXIST` through as an error (`channels/alipay.ts:106`),
   which `query` treats as "not paid yet".  `expireOrder` therefore fails for every order whose
   code was displayed and never scanned, and tries again for ever.  `README.md:317` of the
   repository says such an order is set to CLOSED.  `ScannedIsSettled` excepts it.
2. **A refund's success can be taken back** (`Refund_stale`, `RefundSuccessIsFinal`).
   `updateRefund` checks the graph against the object the handler read before it called Alipay
   and writes without a lock (`services/refund-service.ts:90`).  A `createRefund` that timed out
   writes UNKNOWN over the SUCCESS a query recorded.  `docs/architecture.md:81` excludes it.
   `RefundStaysRecorded` shows that a later query repairs it while attempts are left.
3. **A refund that was done is recorded as FAILED** (`Refund_truncated`, `FailedMeansNotRefunded`)
   when only the body of the answer is lost (`channels/alipay.ts:192`); its amount can be refunded
   again.  `README.md:313` promises UNKNOWN.  `NothingOverRefunded` therefore leaves out of the sum a
   refund that was done and whose answer could lose its body (`Truncated`), and nothing else;
   `FailedMeansNotRefundedCorrect` proves that a lost body is the only way to a wrong FAILED.
4. **One attempt too many** (`WebhookDelivery_max`, `AttemptsWithinMax`).  A delivery whose worker
   was lost during the last attempt returns to PENDING (`services/webhook-worker-service.ts:13`)
   and is attempted again.  `docs/architecture.md:73` says it becomes DEAD after the maximum.
5. **A payment can be deleted after it succeeded** (`Application_archive`, `MovedMoneyIsOnRecord`).
   Archiving reads the attempts to keep in the snapshot of its transaction and deletes by what is
   current (`services/application-service.ts:138-150`): an attempt that is settled in between is
   neither kept nor unpaid.  `docs/plugin-channels.md:71` has such rows stay.
6. **A window that can never be read** (`BillCollector_subsecond`, `PaidIsCollected`).  The start
   of a window is sent without its fraction of a second (`lib/alipay-account-log.ts:4-6`), and an
   entry of that second before the fraction is refused as outside the query
   (`services/alipay-bill-collector-service.ts:88`), at every attempt: the collector stays on the
   window.  `docs/alipay-bill-collector.md:64` relies on the repetition.  The run has a clock of
   whole seconds.

Others were met while modelling; the models contain the behaviour where it is in their scope,
and no property states the promise:

* `docs/architecture.md:82`: at the limit `nextQueryAt` is cleared and an exhaustion
  event written.  A worker lost between the claim of the last query and its result leaves
  neither, and no later run picks the row up (`services/recovery-service.ts:33`).
* `docs/architecture.md:108`: several instances never handle one order at a time.  The
  60 second lease is not renewed while `expireOrder` makes up to two calls of 12 seconds
  for each attempt (`services/expiration-service.ts:25`).  What two runs leave behind is still
  right: `PaymentSystem_overlap.cfg` has two, and section 5 has any number.
* `docs/architecture.md:14`: a lost job is found again through the row.  A job that
  failed before it claimed its row keeps its name in the queue for up to a day, and
  the poll's `queue.add` of the same name is ignored meanwhile (`worker.ts:33`).
  `RetryIsNotHidden` states what does hold, `DeliveryIsSettled` what follows once the
  queue has dropped the name.
* `docs/owner-notifications.md:27` has at most five attempts for a message.  A worker decides
  whether an attempt was the last by the count in its list
  (`services/owner-notification-service.ts:142`), which another worker may have raised since.
* `README.md:307`: an archived application serves no request.  One that was authenticated
  before the archive can still create an order after it (`middleware/auth.ts:14`).
* `services/receipt-flow-service.ts:47-49`: a rematch, or a worker whose lease ran out, writes
  over a result that another has recorded; the payment it settled stays settled, and the next
  pass finds it by its trade.

## 5. What is proved

Each theorem holds for every value of the constants that satisfies the assumption of its module
(`PaymentAssumption`, `RefundAssumption`, `FlowAssumption`, ...: types, disjoint roles, `None`
outside the sets, and finite sets of payments, refunds, workers or entries where they are counted or amounts added)
and without the bounds of the runs, which are constants too.

| Module | Theorems | Inductive invariant |
|---|---|---|
| `PaymentSystemProofs` | `TypeCorrect` | `TypeInv` |
| | `PaidMeansWinnerCorrect`, `MoneyAccountedOnceCorrect`, `OutboxTellsWinnerCorrect`, `WinnerIsFinalCorrect`, `StatusFollowsGraphCorrect`, `SettlementImplemented` | `Accounting` |
| | `ProcessedMeansSettledCorrect`, `SuccessMeansPaidCorrect`, `ClosedMeansClosedCorrect`, `ClosedOrderIsQuietCorrect`, `UnpaidStaysScheduledCorrect`, `OpenIsRediscoveredCorrect` | `Truthful`, `Scheduled`, `LastAttempt` |
| `RefundProofs` | `RefundTypeCorrect`, `NothingOverRefundedCorrect`, `SuccessMeansRefundedCorrect`, `OrderFollowsWinnerCorrect`, `DisputeFollowsRefundsCorrect`, `BusinessToldOfWinnerCorrect`, `RefundIsRediscoveredCorrect`, `FailedMeansNotRefundedCorrect`, `RefundingImplemented` | `Tracked`, `Booked`, `Bounded`, `WinnersApart` |
| `WebhookDeliveryProofs` | `DeliveryTypeCorrect`, `EndIsEarnedCorrect`, `OneSenderCorrect`, `DeliveredIsFinalCorrect`, `RetryIsNotHiddenCorrect` | `Rows`, `Safe`, `Visible` |
| `ReconciliationProofs` | `AmountsAreExclusiveCorrect`, `MatchedIsBoundCorrect`, `UndecidedIsFoundCorrect`, `CreditedToPayerCorrect`, `CarefulIsSeenCorrect`, `CreditIsFundedCorrect`, `FlowTypeCorrect` | `Pool`, `Bound`, `Fair`, `Funded`, `Shaped` |
| `ApplicationProofs` | `AnsweredIsAskedCorrect`, `DeletedIsQuietCorrect` | `Typed`, `Kept` |
| `ChannelInstanceProofs` | `EvidenceIsCurrentCorrect`, `AccountsStayApartCorrect` | `Typed`, `Alone`, `Knows`, `Proved`, `Apart` |
| `BillCollectorProofs` | `CollectorTypeCorrect`, `WindowsInOrderCorrect`, `NothingSkippedCorrect` | `Typed`, `Timely`, `Known`, `HasItsPage`, `Ordered`; `Kept`, `Reading` |
| `OwnerNotificationProofs` | `OwnerTypeCorrect`, `ToldOnceCorrect` | `Typed`, `Covered` |

*Type correctness* is not inductive alone.  `TypeInv` adds `HandlersOK`: a handler past
its first step names an existing payment, and carries an answer of the channel where
the code has one.  `BecomeOK` and `StayOK` reduce a step to the record it writes, and
one lemma per group of actions (`ApiStepType`, `CallStepType`, ...) handles the rest.

*Settlement.*  `StepKinds` shows that every step either is a `markPaymentSucceeded` or is
`Quiet`: it settles no payment, opens no dispute and pays no order.  `MarkKinds` splits the
first kind in a win, a late duplicate and a repetition.  The inductive invariant
is `Accounting == PaidMeansWinner /\ MoneyAccountedOnce /\ OutboxTellsWinner`: no conjunct
is inductive alone, because a late success is recognised by the order's status, which only
`PaidMeansWinner` relates to the winner that the other two speak of.
`SettlementImplemented` follows from the two kinds: a win and a late duplicate are
`Win` and `Dispute`, all else stutters.  The status graph (`OneEdge`) is proved action by
action: every handler that writes a status has tested the graph against the row in the same step.

*What handlers know.*  A handler acts on an answer that is older than its write.  That is sound
because what an answer says only grows (`Growing`): a trade that was paid stays paid, one that
was closed stays closed, a settled payment stays settled.  `Truthful` says of each place in a
handler what it knows; `Scheduled` adds that a run of the expiration visits attempts of its own
order and that a success it has read is one (`Known`), and that a settled payment has a paid
order (`SettledIsPaid`), so that only an order that is paid or closed leaves the schedule;
`LastAttempt` says that only the worker of the last attempt takes a payment off the list.
No lease is used: the theorems hold for runs that overlap.

*Refunds.*  Their properties are about sums of amounts, which are folds.  The laws of the sum
(`TotalTakes`, `TotalAdds`, `TotalGrows`) are proved without induction, on the smallest
set that would break them: the strict inclusion of the subsets of a finite set is well founded.
`Tracked` is the types and what handlers hold.  `Booked` joins the four properties of the books:
a success is recorded only of what the channel has done, so that the total recorded is at
most the total done.  `Bounded` is the argument that nothing is refunded twice: `Spent`
collects what is done, what Alipay may still do and what a handler is about to ask; it fits in
the amount (`Within`), all of it is in a status that is reserved (`Standing`), nobody gives it
up (`Refused`), and each refund is asked for by one handler once (`Sole`).  Only `CreateRefund`
adds to it, and it counts everything reserved first.

`RefundingImplemented` puts the books and the bound together: seen through the refunds that Alipay
did, those the business was told of and the cases that were settled, every step of `Refund` is a
`Give`, a `Tell`, a `Resolve` or a stutter.  What is given is within `Within`, what is told or
settles a case is a success and therefore done, and `WinnersApart` (a winner has no case) keeps
`Tell` and `Resolve` apart.  Since `given`, `told` and `resolved` only grow, a case once settled
by refunds and a message once written stay true although a status may be taken back (divergence 2).
`resolved` has the cases that refunds settled (`settledByRefund`), not those the administrator
ended by hand, with or without a refund.  `Unsure` is `Truncated`: with a lost body the amount of a
refund that was done is free again (divergence 3), and more than the payment may go back, so that
`Give` admits as much.  `Refund_promise.cfg` has TLC check it on the refunds of the run `refunds`, one
of which may lose its answer's body (42 000 states).

*Receipts.*  `Windows` says that windows are of instants and have begun: with it, a reservation
that has not ended excludes the amount from every window that begins now (`Pool`).  `Bound` says of each
worker and importer what the payment it has chosen is to its trade.  `Credit` carries the money of
a careful customer from his flow to whoever has it in hand; with `Bound` it is inductive (`Fair`).
`CreditIsFunded` is about everybody's money: `OwnTrade` says that a trade settles one payment, with
which it agrees, and `Accounted` that a settled payment wins its order or is disputed, which needs
that a winner is settled itself.  Both rest on `SettlingSteps`: whoever calls `markPaymentSucceeded`
brings a trade that `Bound` knows to agree, and nothing else touches the books (`CoreImplemented`).
`Reconciliation_funded.cfg` is the instance for TLC, two payments of one order and flows of all five kinds (1 203 000 states).

*Deliveries.*  `Rows` has the types and that each worker's attempt is one the row has seen,
`Exclusive` that, while nobody outlives a lease, whoever sends a delivery holds its lease and is
alone, `Fresh` that a finished name of the queue belongs to an attempt the row has left behind.

*Applications.*  `Typed` adds that a request in hand is about an order that was made, and `Kept`
that the attempts the archive has read as over stay over.

*Channels.*  The lease is not what protects the evidence, as it may run out; the revision is.  `Knows` says
that while an instance has the revision under which it was claimed, its settings are those that
the check has read and the test has used, for a save makes a new revision.  A test that counts
must not be sent a second time with later settings: `Alone` gives each payment in hand one
handler, and `Proved` adds that a test on record is in nobody's hand.  `RowMoves`,
`PaymentMoves` and `WorkerMoves` say what a step may do to each, so that the four
invariants are argued once and not per action.

*The collector.*  `NothingSkipped` speaks of what the ledger shows; inductive is only `Kept`, which
says the same of what it still holds back.  It needs the hypothesis `MaxDelay <= OVERLAP + LAG`:
an entry that is not shown when a window is opened is younger than the delay (`Timely`), and the
window ends `LAG` before the clock, so that the next one begins, `OVERLAP` earlier, before the
entry.  Without the hypothesis TLC finds an entry that no window has (with `SECOND = 1`).  An entry
that shows up later moves others of the window to later pages and none to an earlier one
(`PagesGrow`).  `Reading` says that what a worker with the row has not in hand is on later pages,
so that a page may be left behind when its entries are stored; that the row is the worker's, not
that its lease is alive, is what it needs.  `Known` is that the cursor skips idle history only up to
a demand which no payment has been added behind.  That the smallest of a set of instants exists is
proved on the inclusion of intervals, for want of induction.

`WindowsInOrder` needs neither that hypothesis nor that leases last.  `HasItsPage` says that a
worker that still owns the row has read its present window and page, `Ordered` that the cursor
is behind the window's end; whoever was overtaken writes under its owner's name and changes nothing.
`BillCollector_order.cfg` is its instance for TLC, the same as that of `collector`.

*Messages to the owner.*  `Covered` is a balance for each task: the messages told and the workers
that may still tell it, whether their lease is alive or not, are at most the faults, and one more
if the task is over or a worker has it.  To take a task is to spend that one, and a lease that runs
out under a worker, a crash and an unheard answer each pay for one more.

Only model-checked is liveness (`PaidIsRecorded`, `DeliveryIsSettled`, `PaidIsCollected`, ...),
which is out of the prover's reach, and `RefundStaysRecorded`.

## 6. Plan

What is left to prove, in this order:

1. An abstract promise of `WebhookDelivery`: a delivery ends once, and is sent again only when
   the administrator asks.
2. What keeps a receipt that was matched matched, and when a rematch may change it.
3. That an event is marked as seen only when its task was made (`OwnerNotification`).

What is left to model:

1. Refund rows of the day's bill in `Reconciliation`, with `Refund` as the specification of
   what matching one does.
2. The manual resolution of RECEIPT_MISMATCH cases, beside a rematch of the same flow.
3. The deletion of deliveries when an application is archived, in `WebhookDelivery`.

## 7. Not modelled

* Routes, the audit log and the web front end: validation and display; the routes that change
  state are actions of the modules of their services.
* Cryptography, money, parsing, configuration: pure functions on bytes and strings.
* The idempotency key of `createPayment` and the external number of a refund: a repeated key
  answers with the row and changes nothing.  A received amount that differs is
  `SettlementThrows`.
* `saveBillSettings`, which no route calls.
* A change of the account's settings under a running collector, which is its loss of the lease.
* The settings an attempt is sent with: `createPayment` reads the instance again after its
  transaction, so that a save in between is used without its evidence; `Send` has the step.
* Trades of the channel ALIPAY are assumed not to be in the ledger of the account that the
  receipt flows watch: they arrive at the merchant's account.

`PROJECT.json` has the reason for each component.
