# A TLA+ model of Payment Manager

This directory holds the formal model of the payment system in this repository:
TLA+ modules translated from the Go and SQL sources, TLC configurations that
check them on small instances, and TLAPS proofs for every instance.
`PROJECT.json` lists the components, runs, mutants, hazards and theorems, and
maps every definition to the source lines it stands for.

Modelled are the transaction and purchase services of Silvergate, the payment,
order and dispute services of Paymanager, the two asynchronous ways a webhook
takes through Ingest, and the stream of events from CDC to Analytics. Every safety
property the passing runs check, the two refinements included, is also proved for
all instances.

## 1. The system

Five services talk over HTTP, Kafka and PostgreSQL.

| Part | Keeps | Does | Talks to |
|---|---|---|---|
| Silvergate, transaction | tables `transactions`, `refunds` | authorize, capture + `settleAsync`, refund + `refundAsync`, void | the bank (`acquirer`), merchants by webhook |
| Silvergate, purchase and product | `products`, key on `transactions` | idempotent purchase, product update, archive | transaction service, the bank |
| Paymanager, payment | `payments`, `events` | create, delayed capture, void, refund, apply webhooks | Silvergate, Ingest |
| Paymanager, order and dispute | `orders`, `disputes`, `evidence`, `events` | webhooks, hold, capture; chargebacks, evidence, submit | provider, event store |
| Ingest | table `inbox` (inbox mode) | accept webhooks, forward by HTTP, Kafka or inbox worker | Paymanager |
| pkg/kafka, pkg/messaging | consumer offsets | fetch, handle, retry, dead-letter, commit | Kafka |
| CDC | replication slot position | publish WAL inserts | PostgreSQL, Kafka |
| Analytics | consumer offset, index | index domain events | Kafka, OpenSearch |
| pkg/postgres | connection pool | `InTransaction`: begin, run, roll back or commit | PostgreSQL |

What is hard about each, and what makes it correct:

* **Silvergate, transaction.** A request is a handler plus a goroutine that
  outlives it; requests race on one row under three disciplines (RepeatableRead,
  compare-and-update, `FOR UPDATE`), call a bank that cannot be rolled back, and
  any statement may fail after it was committed. Correct: the bank settles a
  transaction at most once and never also voids it; `refunded_amount` is the sum
  of the reservations held; refunds never exceed the amount; statuses only follow
  their arrows; webhooks say what is committed.
* **Purchase and product.** Check-then-insert on an idempotency key with the bank
  called inside the transaction, and a capture after it. Correct: one purchase per
  key, however the calls overlap; a purchase nobody will capture is reported; the
  price is frozen by the first purchase.
* **Paymanager, payment.** A background capture after a delay races with void and
  with webhooks; reads may come from a replica; some writes are unconditional.
  Correct: the row never claims what did not happen at the provider, a refund
  counts once, and both services agree when all is quiet.
* **Order and dispute.** Out-of-order and repeated webhooks; a provider call inside
  a database transaction; a second log written after it. Correct: the events
  explain the row, a final order and a decided dispute are not overwritten, what
  the provider was asked to do is recorded.
* **Ingest inbox.** Claim, deliver, mark, as separate statements; a request may still
  run at Paymanager after the client gave up on it. Correct: processed means applied;
  Paymanager is asked only while the row is open; every stored webhook is closed in
  the end.
* **Kafka consumers.** Correct: the group passes nothing that was neither handled
  nor given up on, effects follow the log, a poison message stalls nothing.
* **CDC and Analytics.** Correct: the topic has the order of the commits, no event
  is passed without an attempt to index it, and one error loses one event at most.

Configuration, logging, metrics, health probes, migrations tooling, header
authentication, HTTP encoding, load tests and the test infrastructure have no
protocol state and are not modelled (section 6).

## 2. The modules

| Module | Models | Built on |
|---|---|---|
| `CardAccount` | what Silvergate promises about one card transaction | |
| `SilvergateTx` | the transaction service | |
| `SilvergateTxAccount` | `SilvergateTx` implements `CardAccount` | both |
| `SilvergateTxProofs` | theorems, the refinement included | the three above |
| `SilvergatePurchase` | `POST /purchase`, product updates and archiving | |
| `PaymanagerPayment` | the payment service together with its provider | `CardAccount` |
| `PaymanagerOrder`, `PaymanagerDispute` | the order and the dispute service | |
| `WebhookDelivery` | what the inbox promises about a webhook | |
| `IngestInbox` | inbox mode: table, workers, HTTP client | `WebhookDelivery` |
| `KafkaConsumer` | Kafka mode: publisher, consumers, retry, DLQ, shutdown | |
| `CdcAnalytics` | the CDC worker and the analytics consumer | |
| `SilvergatePurchaseProofs`, `PaymanagerPaymentProofs`, `PaymanagerOrderProofs`, `PaymanagerDisputeProofs`, `IngestInboxProofs`, `KafkaConsumerProofs`, `CdcAnalyticsProofs` | theorems | the module each is named after |

Each `MC...` module is an instance for TLC. Definitions marked "Faulty variant"
stand next to the code's version; they are used only to show that the properties
can fail (`mutants` in `PROJECT.json`).

All modules treat a failing call alike: `error` (or `db_error`) has no effect,
`lost_ack` took effect and the caller sees an error all the same. `MaxFaults`
bounds how many happen.

### SilvergateTx: the transaction service

`SilvergateTx.tla` models `services/silvergate/internal/transaction` with its
repository, its table constraints, the webhook sender and the shutdown of the
service.

**State.** `txn` is the table `transactions` (status, amount, refunded_amount,
idempotency key); `refund` the status of the refund row each request created;
`lock` the row lock Void keeps; `stale` the open RepeatableRead snapshots that
missed a committed write. A request has a program counter `pc`, its arguments
`arg`, what it read (`seen`), what the bank answered (`result`), the failed
release attempts (`tries`) and the webhook it delivered (`hook`). `ledger` and
`released` record what happened at the bank and to the reservation; no guard
reads them.

**Actions.** One per database statement or bank call, because these are the
points where requests interleave and failures strike. An UPDATE and its COMMIT
are one step: between the two the row is locked and the change invisible.

| Code | Actions |
|---|---|
| `Authorize`, `AuthorizeInTx` | `Authorize` |
| `Capture`, then `settleAsync` | `CaptureRead`, `CaptureUpdate`; `Settle`, `SettleUpdate`, `SettleHook` |
| `Refund`, then `refundAsync` | `RefundRead`, `RefundUpdate`; `BankRefund`, `UpdateRefundStatus`, `ReleaseRefundAmount`, `RefundHook` |
| `Void` | `VoidLock`, `VoidBank`, `VoidUpdate`, `VoidHook` |
| process stop | `Crash` |

**PostgreSQL** is modelled by what the code relies on. A RepeatableRead UPDATE of
a row changed since the snapshot fails (`SerializationFailure`); an UPDATE waits
for a row lock; unique indexes and the CHECK on `refunded_amount` reject
statements; commits are atomic.

**Faults.** `db_error`: a statement has no effect and returns an error.
`lost_ack`: it was committed and still returns an error. `acq_unknown`: the bank
acted and the caller got an error. `crash`: all running requests are lost, open
transactions are rolled back, nothing is resumed (an orderly shutdown waits for
handlers but not for the goroutines, so it is a case of this). `MaxFaults` bounds
how many happen. A webhook post may fail at any time and is not counted.

**Left out of the model.**

* All transactions belong to one merchant; the idempotency index is per merchant.
* The capture amount is not compared with the authorized amount by the code, and
  refunds are bounded by the authorized amount; so is `RefundsWithinAmount`.
* A database session lost while Void waits for the bank is noticed at its next
  statement; that the row could be taken by another request in between is not
  modelled.
* A failing SELECT ends a request like a refused one, without effect; that path
  is `failed` reached through the status check.
* Authorize that fails leaves no row, and is a stutter.

### CardAccount: the promise, and its refinement

`CardAccount` is a transaction as its merchant may think of it: an account that
is opened, captured, voided and refunded in atomic steps, each computed from the
account's current value. `ImplementsCardAccount` maps the row to the account and
says that every step of `SilvergateTx` is such a step or leaves it alone. This
is more than the arrows between statuses: a refund adds to what is refunded
*now*, although its new total was computed from an earlier read, and a release
subtracts from it. A release applied twice is an atomic `GiveBack` too, so the
refinement holds even where `ReservationsAddUp` has its exception.

### PaymanagerPayment: payment service and provider

The provider is `CardAccount` plus the two goroutines that finish captures and
refunds and post webhooks. `pay` is table `payments`, `past` the versions a
replica may still return (every read through `readDB` may be stale), `stored`
the events with their unique key, `hooks` what Ingest took. A refund at the provider
has the status `rfd` of its row, the next step `task` of its goroutine and the failed
releases `tries`.

| Code | Actions |
|---|---|
| `CreatePayment` | `Authorize`, `Insert`, `MarkPending` |
| `captureWithDelay`, `captureInBackground` | `DelayedRead`, `DelayedUpdate`, `Capture` |
| `VoidPayment`, `RefundPayment` | `VoidRead`, `VoidCall`, `VoidUpdate`; `RefundRead`, `RefundCall` |
| `ProcessCaptureWebhook` | `HandleWebhook` |
| provider, `settleAsync` | `SettleAsync` |
| provider, `refundAsync` | `RefundAnswered`, `ReleaseRefundAmount`, `SendRefundResult` |
| `POST /refund` at Silvergate | `DirectRefund` |
| process stop | `Crash` |

Calls may not arrive (`call_down`) or be carried out unanswered (`call_lost`);
a webhook may be lost on its one post. Delivered webhooks come any number of
times in any order. As in `SilvergateTx`, the webhook of a capture always says
`capture_pending`, which Paymanager rejects as unknown (first finding), and the
release of a refused refund can be skipped (its status could not be written), fail
three times or be made twice. So nothing tells Paymanager that a payment was captured,
and `RefundPayment` finds no payment to refund, until a refund was made at Silvergate
directly: that endpoint asks for no credentials (`router.go:28`), and the webhook of
such a refund is the first one that moves the row past `capture_pending`.

`ProcessCaptureWebhook` is one step: it is a RepeatableRead transaction that updates
the row it has read, and of two that overlap PostgreSQL aborts the second. That
conflict is assumed here, not checked. Left out: the customer's data, the lists and
queries, a webhook naming a transaction of no payment.

### IngestInbox and WebhookDelivery

`row` is table `inbox`; a worker has the `batch` it claimed, the message `cur`
it is at, the failed requests `att` and the result `res`. `Webhook` stores,
`FetchPending` claims, `ProcessMessage` is one request of the client's retry
loop, `Finish` is `MarkProcessed` or `MarkFailed`, `Restart` a stop at any point.
Paymanager's answers (2xx, 404, 422, 5xx) depend on the order's status and on
what was applied. The permanent errors of the client are 400, 404 and 422, a conflict
is a success; a payment webhook has no case in `processMessage` and is retried until
it has failed.

At any time, uncounted, a request may not be received, or may still be running when
the client's timeout strikes (`client.go:103`). Such a request is in `late`, and
`LateRequest` carries it out - or not - at any later time: before, during or after
the retry, and after the row was closed. An order or its event cannot be written
twice, whatever overlaps; of two overlapping chargebacks each can create a dispute
(`ApplyTwin`; the race itself is in `PaymanagerDispute`). An answer that is lost is
the case of a late request that is carried out at once. `MaxLate` bounds how many
are running at a time.

`WebhookDelivery` is the promise: Paymanager is asked about a webhook only while it
is open; it takes effect by a request made while it was open, once, unless it is a
chargeback whose requests overlapped; it is reported done only after it took effect;
done and given up are final. It does not say that what was given up has no effect: a
request may outlive the row. The rows map to the promise by status.

### KafkaConsumer

One partition. `ProcessUpdate` is the ingest side; `Assign` the coordinator (also a
rebalance that a busy consumer does not notice); `Fetch`, `Attempt`, `WithDLQ`
and `Commit` are `Consumer.Start` with its middlewares; `StopConsuming` its
return, or the end of a handler that panicked, which `Runner` recovers by closing
the consumer; `StartWorkersReturns`, `Cancel` and `Restart` the replica. A commit from
a consumer that has lost the partition is taken, older offsets too: the worst a
broker may do. `FetchMessage` may still return a message after cancellation; with the
context cancelled a handler fails at once, and `WithRetry` does not wait for further
attempts.

### SilvergatePurchase

A call goes through `CheckIdempotency`, `GetProduct`, `Authorize` (the bank;
`AuthorizeFails` if its answer is an error, with or without a hold made), `Commit`
(the INSERT and `MarkPurchasedInTx`), then `Capture`, or `ResolveRace` when the key
was taken. The merchant's `ReadForUpdate` and `WriteUpdate` are two steps, as in the
code; `SetStatus` archives and unarchives. `Settle` and `Void` stand for what the
transaction service does with the row later.

### PaymanagerOrder and PaymanagerDispute

A request is a job: `Begin` takes the RepeatableRead snapshot and makes the
checks, `CallProvider` or `SubmitRepresentment` calls the provider inside the
open transaction, `Commit` writes the row and its events or fails as a whole, and
`WriteLegacy` writes `order_events` or `dispute_events` outside of it. The
snapshot is the version of the row: an UPDATE of a row that has changed since
fails. `writeEvent` swallows a unique violation, but PostgreSQL has aborted the
transaction by then, so the commit fails all the same. Events of all types of an
order share one index, so keys of webhooks, holds and captures could meet; the
models let them. Silvergate carries out one capture of a transaction and answers 409
to every further one (`AlreadyCaptured`).

An evidence event has a fresh uuid as its key, a submission event the id that the
provider returned; if the answer cannot be unmarshalled that id is empty (`NoId`),
since the client ignores the error, and the second such submission of a dispute fails
at the index. `history` records every write of a dispute's row with the key of the
event committed with it; no guard reads it.

Left out: amounts and other fields of a chargeback, the queries, and
`UpdateOrderHold` repeated with the same flag as a case of its own.

### CdcAnalytics

`CreateEvent` is a commit in Paymanager. `Connect` drops and recreates the slot at
the end of the log; `HandleWALMessage` publishes the next insert, `Disconnect` is
any end of the connection. `Fetch` (which skips and commits a message that does not
unmarshal: `Unreadable`, none while the CDC worker is the only producer),
`IndexEvent`, `CommitMessage`, `FetchFails` and `Restart` are the analytics
consumer. The standby status that the worker sends is not a step: it only matters to
a slot that is kept.

## 3. What the runs check

| Run | Instance | Result |
|---|---|---|
| `tx_safety` | one transaction of 2 units, four interchangeable requests, any two faults of the four kinds | eight invariants hold |
| `tx_liveness` | two transactions, three requests, up to two `db_error` | three liveness properties hold, `CardAccount` is implemented |
| `tx_capture_webhook` | as `tx_safety`, no fault | `CaptureWebhookHasResult` is violated |
| `tx_release_retry` | as `tx_safety`, one `lost_ack` | `ReleaseSafeToRetry` is violated |
| `payment` | one payment of 2 units, three void, refund or direct refund requests, three faults of six kinds | three invariants hold |
| `purchase` | a request and its retry, another request with the same key, one with its own key, one change by the merchant, one fault | four properties hold |
| `order` | creation, an update delivered twice, the final update, a hold, a capture requested twice; one fault | four properties hold |
| `dispute` | an opening delivered twice, a second opening, a decision, evidence, two submissions; one fault | four properties hold |
| `inbox` | creation, final update and dispute of one order, two workers, batches of 2, 2 retries, 2 requests per delivery, two late requests at a time, one fault | three invariants hold, `WebhookDelivery` is implemented, rows settle |
| `kafka` | two replicas, a log of 3, a creation, an update and a poison message, 2 attempts, two faults | four properties hold |
| `kafka_dlq` | as `kafka`, no fault | `PassedIsHandledOrParked` is violated |
| `cdc` | four events, one that OpenSearch refuses, one that cannot be read, three faults | four properties hold |

**Transaction.** `SettledOnce`, `VoidExcludesSettle`, `ReservationsAddUp`,
`RefundsWithinAmount`, `StatusMatchesRefunded`, `RefundsFollowSettlement`,
`WebhooksReportCommitted` and the refinement `ImplementsCardAccount`. Two have
stated exceptions that the code really has. If a fault strikes after the bank
voided, the row goes back to authorized and can be captured: `VoidExcludesSettle`
says that only then, and only with the void reported as failed or to nobody, can
both happen. And a release applied twice (second finding below) is excluded by
`ReleasedOnce`. `RequestsEnd`: no request waits for a lock for ever.
`CaptureResolves`: a transaction leaves `capture_pending` unless the goroutine's
only UPDATE failed. `RefusedRefundReleased`: with fewer than three failing
attempts a refused refund gives its reservation back.

**Payment.** `PaymentNeverAhead`: what the row says has happened, has happened at
the provider, whatever fails. `RefundsCountedOnce`: `refunded_amount` is the total
of the refunds whose webhook was stored. `AgreeWhenQuiet`: without faults both
sides agree when nothing is in flight and every webhook but those about a capture
was accepted, with two exceptions. `VoidOverwritten` is the delayed capture that read
`authorized` before a void and wrote `capture_pending` after it. `CaptureUnreported`
is a settled capture, successful or not, none of whose money was refunded: the row
stays `capture_pending`. This is the normal case (fourth difference below); what
`AgreeWhenQuiet` adds is that there is no other difference, in status or amounts,
once a refund has made the capture known.

**Purchase.** `OnePurchasePerKey`; `OrphanHoldsHaveReason`: the bank holds money
without a row only for a call that is going on, lost the race for its key or met
a fault; `UncapturedIsReported`; `PriceFrozenOnceBought`.

**Order.** `EventsExplainOrder`: replaying the outbox gives the row, one event per
write. `FinalStaysFinal`. `CaptureIsRecorded`: without faults a capture at the
provider is in both logs, even when its request is repeated concurrently. It is
stated for keys that only captures use: a capture whose key an event of another
type already has is carried out and then fails at the index, for good.

**Dispute.** `OneChangePerEvent`: a webhook that is delivered again changes a dispute
no second time, since each write of the row was committed with an event of its own.
`DecisionKept`: evidence or a submission prepared before a decision does not
overwrite it. `SubmissionIsRecorded`: without faults a submission that the provider
received is in the database with its event and with the row it wrote over the version
it had read; or there is nothing of it, and another request wrote over that version.

**Inbox.** `ImplementsDelivery`. `ClaimedByOneWorker`: a row in `processing` has at
most one worker, a row in another status none, whatever fails, and without faults a row
in `processing` has one. `GivesUpOnlyAfterRetries`: a dispute or payment webhook has
failed only after `MaxRetries` deliveries; only Paymanager's word on an order update
ends it earlier. `StoredSettles`: every row is closed in the end but the ones a fault
orphaned in `processing`.

**Kafka.** `PassedIsSettled`, `HandledInOrder`, `EverythingSettles`.

**CDC and Analytics.** `TopicInCommitOrder`: an event may be repeated at once,
never behind a later one. `PassedIsTried`: through failed commits and restarts the
consumer passes no readable event that it has not tried to index - which says nothing
of the attempt's success. `LossesAreFaults`: the events passed and lost although
OpenSearch would take them are no more than the errors there were; a restart,
a reconnection or a failed commit loses none besides. `SearchableInTheEnd`: what is
written during the worker's last connection is indexed, cannot be read, or an attempt
to index it has failed.

**Bounds.** Two units let a refund be partial, exact and too large. Four requests
on a transaction are the smallest number for a capture, two refunds that race and
a third request that races with the release; requests with equal arguments are
client retries. Two faults combine a failure with the failure of its handling.
The liveness run has a second transaction whose capture reuses a key; its two
`db_error` are one fewer than the three release attempts, so that the loop must
succeed. The exhausted loop happens in `tx_safety`. The payment needs one request
fewer because capture is not a request there. In the other runs every pair of
operations that touch one row is present, and one of them twice, since the races
in question are between two transactions; one fault is enough to lose an
acknowledgement or a process and see the retry. Two workers, batches of 2 and 3
webhooks let one worker overtake the other and come back for a retry; a payment
webhook, which only fails, is in the theorems and not in the run. A log of 3
lets a stale commit go back over a message. Three faults in `cdc` are a lost
connection, a failed commit and a restart. Three faults in `payment` are three failed
releases; two releases, of which the first was made unacknowledged, and a lost
webhook are another case. Two late requests in `inbox` overlap each other and a
retry.

**Symmetry.** Requests are interchangeable in the safety runs of `SilvergateTx` and
in `payment`, the two equal calls in `purchase` and the
equal jobs in `dispute`. No run with a liveness property uses symmetry.

**Deadlock** is not checked: requests, webhooks and events are finitely many, and
a state in which all of them are dealt with is a proper end. That nobody is stuck
is what the liveness properties say; in `purchase`, `order` and `dispute` no step
waits for another one.

**Fairness.** Weak fairness of the steps that the code takes by itself:

* `SilvergateTx`: every step of a request that has started. The Go runtime
  schedules handlers and goroutines, statements and bank calls return. The first
  step has none, since no client must send anything. Weak fairness is enough for
  lock waits because each of the finitely many voids holds the lock once.
* `IngestInbox`: the steps of a worker. Its ticker keeps ticking, requests time
  out. The answer may be lost each time, which the retry limit must cope with.
* `KafkaConsumer`: the loop of a consumer, the restart of a replica that was told
  to stop (by its supervisor), and the assignment of a partition nobody owns. A
  consumer that stopped for good is not assumed to come back.
* `CdcAnalytics`: connecting again, streaming, consuming, and starting a stopped
  analytics process again, which is the supervisor's work.

`PaymanagerPayment` has no liveness property: what would have to be delivered in the
end, the result of a capture, is never sent.

### Where the documentation and the code differ

1. `README.md:113` promises an "async webhook callback with capture result".
   `settleAsync` updates the row by compare-and-update and then reports the
   transaction it holds in memory, still `capture_pending`
   (`service.go:345-350`). The event is `transaction.capture_pending` whatever
   the bank said. TLC needs no fault for it.
2. `docs/patterns/transactions.md:280` calls the release "safe to retry". The
   statement subtracts, so an attempt that was committed but not acknowledged is
   subtracted again by the next one. With a second refund holding a reservation
   the CHECK does not stop it, `refunded_amount` falls below what was paid out,
   and a further refund exceeds the transaction's amount.
3. `docs/patterns/messaging.md:247` and the comment at
   `pkg/messaging/middleware.go:81` say that a message which is passed although
   its handler failed is parked in the DLQ. `StartWorkers` closes the DLQ writers
   by `defer` when it returns (`services/paymanager/workers.go:28-30`), which it
   does once the runners are started; `WithDLQ` drops the error of the publish.

No run is kept for the following four. The models contain them, and TLC finds each as
a counterexample, without a fault or with one, when the claim is written down as an
invariant:

4. `e2e/payment_flow_test.go:127` requires that "every authorized payment should
   reach final status", captured or capture_failed. Paymanager rejects the only
   webhook about the capture (`payment/service.go:236`, first difference), and the
   row stays `capture_pending` (`CaptureUnreported`).
5. `docs/patterns/messaging.md:199` says of the inbox that "a slow/broken API never
   drops a webhook". After `MaxRetries` deliveries `MarkFailed` gives the webhook up
   (`pg_inbox_repo.go:145`), and nothing looks at failed rows again.
6. `docs/patterns/messaging.md:78` says that duplicate deliveries are "handled by
   idempotency downstream". Two deliveries of one opening that overlap both find no
   dispute and both create one (`dispute/service.go:88`): the unique index of events
   has the dispute's identifier in it, and `disputes` has none on `order_id`.
7. `services/analytics/app.go:103` says of an event that was not indexed "Kafka will
   redeliver on restart". The loop fetches the next message, whose commit covers both
   offsets; only the last message of the partition is redelivered. What `cdc` shows is
   that no more events are lost than there were errors.

### What the models contain and no property excludes

The code behaves so, and no run is about it:

* A capture that has seen no hold and a hold that commits meanwhile both succeed:
  the capture writes no row of `orders` (`order/service.go:216`). Likewise
  evidence added to a dispute that is no longer open can be stored after a
  decision it did not see; the status is not touched.
* A purchase charges the price read before its transaction (`purchase/service.go:82`),
  and one that read an active product may commit after it was archived.
* A delayed capture whose read comes from a replica that does not have the payment
  as authorized yet is dropped. A second refund of equal amount has the key of the
  first and can never be made.
* In the inbox an update that overtakes the creation of its order is answered 404
  and fails for good. A repeated delivery is answered 5xx, so a row whose webhook
  was applied may end as failed.
* `docs/patterns/messaging.md:108` calls re-inserting an event a no-op; the unique
  violation aborts the transaction around it, so the repetition fails as a whole.
* A request to Paymanager that outlives the client's timeout can be carried out after
  the inbox gave its webhook up, or be a second chargeback that creates a second dispute.
* Paymanager refunds nothing until a refund was made at Silvergate directly, because it
  does not know that the payment was captured.
* Silvergate's client treats every capture status but "success" as failed
  (`silvergateclient/client.go:162`), while Silvergate answers `capture_pending`;
  `captureInBackground` only logs it.
* An event that was written while the CDC worker is not connected is never
  published: the slot starts anew (`cdc/app.go:97-105` says so), in spite of the
  "at-least-once delivery" of `docs/features/003-outbox-cdc-analytics`.
* An error of `FetchMessage` stops a Kafka consumer for good while its replica
  stays up.

## 4. What is proved

Every invariant, action property and refinement of a passing run is a theorem, for
every value of the constants that the module's named assumption allows. TLC
evaluates the assumptions in every run. The theorems of a module follow from one
inductive invariant `IInv`: one lemma per action shows that the action keeps it,
`IInvStep` joins them, `Inductive` states `Spec => []IInv`. Each `IInv` was
checked with TLC on the instances of section 3 before it was proved.

| Module | Theorems state | For all | Assumed |
|---|---|---|---|
| `SilvergateTxProofs` | eight invariants of `tx_safety`, `StatusFollowsArrows`, `ImplementsCardAccount` | transactions, finitely many requests, amounts, keys, faults | amounts are positive, null values are distinct |
| `SilvergatePurchaseProofs` | `OnePurchasePerKey`, `OrphanHoldsHaveReason`, `UncapturedIsReported`, `PriceFrozenOnceBought` | calls, keys, bodies, edits, faults | there is a price, prices are positive |
| `PaymanagerPaymentProofs` | `TypeOK`, `PaymentNeverAhead`, `RefundsCountedOnce`, `AgreeWhenQuiet` | payments, finitely many requests, amounts, faults | amounts are positive |
| `PaymanagerOrderProofs` | `TypeOK`, `EventsExplainOrder`, `CaptureIsRecorded`, `FinalStaysFinal` | requests with any keys, faults | updates carry a status, holds a hold action |
| `PaymanagerDisputeProofs` | `TypeOK`, `OneChangePerEvent`, `SubmissionIsRecorded`, `DecisionKept` | webhooks and requests with any keys, faults | types of the constants; the provider's event ids are not its submission ids |
| `IngestInboxProofs` | `TypeOK`, `ClaimedByOneWorker`, `GivesUpOnlyAfterRetries`, `ImplementsDelivery` | finitely many webhooks, workers, batch size, limits, faults, late requests | the limits on a batch and on attempts are positive |
| `KafkaConsumerProofs` | `TypeOK`, `PassedIsSettled`, `HandledInOrder` | replicas, webhooks, attempts, faults | at least one attempt |
| `CdcAnalyticsProofs` | `TopicInCommitOrder`, `PassedIsTried`, `LossesAreFaults` | events, refused and unreadable ones, faults | types of the constants |

**Silvergate, transaction.** `SilvergateTxProofs.tla` proves the eight invariants
of `tx_safety` and the action property `StatusFollowsArrows` (no run of its own:
the refinement implies it) for every set of transactions, every finite set of
requests, all amounts, keys and numbers of faults. The only assumption is
`ConstantsAssumption` of `SilvergateTx`: requests are finitely many, amounts are
positive (the controllers reject others), and the two null values are distinct
from requests and keys.

None of the properties is inductive. `IInv` adds what requests rely on between
two statements:

* `SnapshotsHold`: what a request read is still in the row, unless the request is
  marked to fail with a serialization error. This is what makes RepeatableRead
  sufficient for Capture and Refund;
* `VoidHoldsLock`: while Void talks to the bank the row is locked and authorized;
* `OneCapture`, `CaptureLeavesAuthorized`: a confirmed capture has moved the row
  out of authorized for good, so no second one can be confirmed;
* `VoidTracked`: where a void the bank carried out can be;
* `ResultsInLedger`, `RefundSteps`, `PcMatchesOp`: what each program point knows
  of the bank's answer, the refund row and the attempts;
* `RefundsOnMoney`, `MoneyIsSettled`: a refund row implies captured money, and
  captured money a confirmed settlement.

`SettlesOnce`, `VoidExcludes`, `StatusMatches`, `RefundsFollow` and
`WebhooksHonest` follow from it; `ArrowsFollowed` proves the action property.

A total is the cardinality of a set of money units, one per request and unit, so the
library's theorems on finite sets replace an induction over sums. `TotalAdd` says
what one more request adds; `AddUpStep` shows that each step changes
`refunded_amount` and the reservations held by the same amount.
`ReservationsAlwaysAddUp` and `NeverOverRefunded` follow, the latter because a
confirmed refund still holds its reservation.

**The refinement.** `Implements` proves `Spec => ImplementsCardAccount`
from the same `IInv`, one lemma per action that writes a row. `SnapshotsHold`
gives the captures and the refunds (what was read is what is there, so the total
written is the current one plus the amount), `VoidHoldsLock` the voids, the
compared status the settlements, and `StatusMatchesRefunded` the releases: the
amount reserved never exceeds the total, so the status written goes with it.

**Kafka.** `KafkaConsumerProofs` proves `TypeOK`, `PassedIsSettled` and
`HandledInOrder` for any number of replicas, webhooks, attempts and faults, from
`KafkaAssumption`. `PassedIsSettled` is not inductive: a consumer that has lost
the partition still commits. The invariant adds that a reader is ahead of what is
settled by the message in flight at most, as long as it runs (`ReadIsSettled`), that
everything before
the message in flight is settled even after the reader was set back
(`EarlierIsSettled`), and that only settled messages are committed
(`CommitsSettled`).

**CDC and Analytics.** `CdcAnalyticsProofs` proves `TopicInCommitOrder` and
`PassedIsTried` for any number of events and faults, from `CdcAssumption`. The
order needs a bound on the topic: what the worker is through with while it is
connected, everything written otherwise (`TopicBounded`), because a write that
failed may have arrived. The consumer's part is like Kafka's (`ReadIsTried`).
`LossesAreFaults` follows from `MissingAreFaults`: what an attempt failed for and
OpenSearch would take is no more than the errors so far, for a step that adds to it
counts one; and by `PassedIsTried` only such an event is lost.

**Purchase.** What the four properties need is that the transaction of a call comes
into being at the call's own commit: before it there is none (`InsertedByCommit`),
after it there is one (`CaptureHasTx`), with the call's key and request and alone
with that key (`TxOfCall`, from the unique index). A call that lost the race finds
a winner (`RaceHasWinner`), so it is told of a transaction with its key and its
request or of a conflict (`ToldIsOwn`). `AskedAfterChecks` places the bank's answer
between the checks and the commit, which gives `OrphanHoldsHaveReason`. The frozen
price is an action property of `WriteUpdate`: the condition in its UPDATE is
evaluated on the current row.

**Payment.** The row is behind the provider, by the steps of the flow and the
webhooks under way, and the invariant says by how much:

* `StatusesFit`: which statuses the row may have for each status of the account and
  each point of the background flow. This is where the unconditional updates are
  shown harmless: none of them leads ahead;
* `AmountsFit`: row and account have the same amount, and the status of a captured
  payment follows from what is refunded;
* `RequestsFit`, `RefundsFit`: a request that is to write a void was told so by the
  provider, a refund is of a captured payment, and the step its goroutine is at goes
  with the bank's answer;
* `HooksFit`: a webhook says what the provider did, and will stay true of it, but for
  those about a capture, which are never handled;
* `HandledFit`: a webhook answered without an error has reached the row;
* `MoneyFits`: the total of the row, and without faults that of the account, as
  cardinalities of sets of units. With faults the account's total says nothing: a
  release may be missing or have been made twice;
* `FaultFree`: without faults every webhook is posted and nothing is given up.

`PaymentNeverAhead` follows from the first and from the webhooks counted being of
refunds that the bank confirmed, `RefundsCountedOnce` is a part of `MoneyFits`. For
`AgreeWhenQuiet` the last two meet: a quiet state has no step left that a lag could
be explained by, except the overwritten void and the capture that is not reported.
Stale reads need no invariant: a read from the replica only decides whether a call
is made, and the provider checks again.

**Order.** Replaying is a choice of the last event, so `Explained` keeps that event
as a witness. It is kept because a commit appends at most one event that changes
the row, together with the change, or nothing at all (`EventsFit`). `SnapshotsHold`
says that a transaction whose row has the version of its snapshot may still make
the update it has checked; with it an update never leaves a final status.
`EventsPaired` (the two events of a capture are committed together),
`CapturedOrComing` and `LogsAgree` give `CaptureIsRecorded`.

**Dispute.** `SeenIsKept` is the same rule: the dispute a transaction has seen is
still there, with the status it saw if the version is the same. `OneChangePerEvent` is
inductive with the rest: a commit that writes the row needs an event that is not
there yet (`Fits`). `WrittenAtCommit` says that nothing of a request is in the tables
before its commit, and `VersionsAreWritten` that each version of a dispute was written
by some request. With them `SubmissionTraced` follows a submission from the provider
to the commit: it is about to be recorded, is recorded whole, or nothing of it is
there and the version after the one it read was written by another request.

**Inbox.** `ClaimsAreExclusive`: what workers hold is in processing and disjoint, since
`FetchPending` takes pending rows only. `WorksOnClaim` and `OkIsApplied` tie the
result a worker has to the row it is at, so `MarkProcessed` closes a row whose
webhook was applied. For `ImplementsDelivery` each step is then one of the promise:
a row is open as long as a worker has it, so every request is made for an open row; an
effect falls on an open row or on one with a request that was made earlier; `LateKinds`
says that only a chargeback that began before the first one took effect can take effect
again. `PermanentIsOrder` ties early failures to order updates, which gives
`GivesUpOnlyAfterRetries`; `OpenHasRetries` bounds the count of a row that is open.

**Only model-checked.** The liveness properties (`RequestsEnd`, `CaptureResolves`,
`RefusedRefundReleased`, `StoredSettles`, `EverythingSettles`,
`SearchableInTheEnd`): fairness is outside what the proof system supports. And the
three violations, which are counterexamples.

## 5. What is left

The system is modelled as far as planned, and every safety property that a run
checks is proved. Candidates for further theorems are operators rather than
properties: that `CardAccount` by itself keeps refunds within the amount, and that
in `WebhookDelivery` a protected webhook takes effect once, so that the two
refinements carry these facts to the detailed modules; and bounds that hold without
the exceptions stated in section 3, such as how far one release applied twice can
take `refunded_amount` from the reservations held.

## 6. Not modelled

* Health probes, logging, metrics, correlation ids, configuration, migrations,
  load tests and test infrastructure: no protocol state.
* `merchantauth`: a lookup without state. All transactions of a model belong to one
  merchant.
* The HTTP controllers and the encoding of messages: they translate requests and
  errors; the models start where the services are called. Which error gives which
  status code is in `IngestInbox` where the inbox depends on it.
* The synchronous webhook mode of Ingest: one call without state.
* Queries, pagination, the creation, listing and slugs of products.
* The bank behind `acquirer` draws its answers at random; every answer is possible
  in the models.
* Kafka and PostgreSQL beyond what the code relies on: several partitions (messages
  of one order share one), replica acknowledgement (the writers ask for one
  acknowledgement, so a failing broker can lose what was accepted), failover of the
  primary.
